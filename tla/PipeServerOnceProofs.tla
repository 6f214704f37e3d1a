------------------------ MODULE PipeServerOnceProofs ------------------------
(***************************************************************************)
(* A request is in one place at a time: in its client's pipe, in the hand  *)
(* of its RequestReader, in the work queue, with a pool thread, logged or  *)
(* answered.  The moves between these places are the steps of              *)
(* RequestService.                                                         *)
(***************************************************************************)
EXTENDS PipeServerProofs, PipeServerService, FiniteSetTheorems

Hold == {"submit", "exception", "answering"}

\* Each place is apart from those a request reaches later.
Apart ==
    /\ Piped \cap (Held \cup Queuing \cup Busy \cup logged \cup Answered) = {}
    /\ Held \cap (Queuing \cup Busy \cup logged \cup Answered) = {}
    /\ Queuing \cap (Busy \cup logged \cup Answered) = {}
    /\ Busy \cap (logged \cup Answered) = {}
    /\ logged \cap Answered = {}

\* No place holds a request twice.
Distinct(q) == \A j, k \in 1..Len(q) : q[j] = q[k] /\ q[j] # Eos => j = k
NoneTwice ==
    /\ \A s \in Sessions : Distinct(toServer[s])
    /\ \A j, k \in 1..Len(queue) : queue[j] = queue[k] => j = k
    /\ \A v, w \in Workers : task[v] = task[w] /\ task[v] # NoTask => v = w
    /\ \A r \in Requests : answers[r] \in {0, 1}

\* No place holds a request that its client has not sent.
Everywhere == Piped \cup Held \cup Queuing \cup Busy \cup logged \cup Answered
AllSent == \A r \in Everywhere : r[2] <= sent[r[1]]

\* What is written to a pipe is for its client.
ToOwn == \A s \in Sessions : \A k \in 1..Len(toClient[s]) : toClient[s][k].of[1] = s

OnceInv == Apart /\ NoneTwice /\ AllSent /\ ToOwn

-----------------------------------------------------------------------------
(* Pairs, queues and counts                                                *)

LEMMA Pairs ==
    /\ \A r \in Requests : /\ r = <<r[1], r[2]>> /\ r[1] \in Sessions
                           /\ r[2] \in 1..MaxRequests /\ r[2] # Eos /\ r # NoTask
    /\ \A s \in Sessions, n \in 1..MaxRequests :
         <<s, n>> \in Requests /\ <<s, n>>[1] = s /\ <<s, n>>[2] = n
  <1>1. ASSUME NEW r \in Requests
        PROVE  /\ r = <<r[1], r[2]>> /\ r[1] \in Sessions
               /\ r[2] \in 1..MaxRequests /\ r[2] # Eos /\ r # NoTask
    <2>1. PICK s \in Sessions, n \in 1..MaxRequests : r = <<s, n>>
      BY DEF Requests
    <2>2. n # 0
      BY Numbers
    <2> QED
      BY <2>1, <2>2, RequestIsTask DEF Eos
  <1>2. ASSUME NEW s \in Sessions, NEW n \in 1..MaxRequests
        PROVE  <<s, n>> \in Requests /\ <<s, n>>[1] = s /\ <<s, n>>[2] = n
    BY DEF Requests
  <1> QED
    BY <1>1, <1>2

LEMMA AppendFacts ==
    ASSUME NEW S, NEW q \in Seq(S), NEW e \in S
    PROVE  /\ Members(Append(q, e)) = Members(q) \cup {e}
           /\ Len(Append(q, e)) = Len(q) + 1 /\ Len(q) \in Nat
           /\ \A k \in 1..Len(q) : Append(q, e)[k] = q[k]
           /\ Append(q, e)[Len(q) + 1] = e
           /\ \A k \in 1..Len(Append(q, e)) : k \in 1..Len(q) \/ k = Len(q) + 1
  <1>1. /\ Len(Append(q, e)) = Len(q) + 1 /\ Len(q) \in Nat
        /\ \A k \in 1..Len(q) : Append(q, e)[k] = q[k]
        /\ Append(q, e)[Len(q) + 1] = e
    OBVIOUS
  <1>2. \A k \in 1..(Len(q) + 1) : k \in 1..Len(q) \/ k = Len(q) + 1
    BY <1>1
  <1>3. 1..Len(q) \subseteq 1..(Len(q) + 1) /\ Len(q) + 1 \in 1..(Len(q) + 1)
    BY <1>1
  <1>4. Members(Append(q, e)) = Members(q) \cup {e}
    BY <1>1, <1>2, <1>3 DEF Members
  <1> QED
    BY <1>1, <1>2, <1>4

LEMMA TailFacts ==
    ASSUME NEW S, NEW q \in Seq(S), q # <<>>
    PROVE  /\ Members(q) = Members(Tail(q)) \cup {Head(q)}
           /\ Len(q) \in Nat /\ Head(q) = q[1] /\ 1 \in 1..Len(q)
           /\ \A k \in 1..Len(Tail(q)) : /\ k \in Nat /\ k + 1 \in 1..Len(q)
                                         /\ k + 1 # 1 /\ Tail(q)[k] = q[k + 1]
  <1>1. /\ Len(q) \in Nat /\ Head(q) = q[1] /\ 1 \in 1..Len(q)
        /\ Len(Tail(q)) = Len(q) - 1
        /\ \A k \in 1..Len(Tail(q)) : k + 1 \in 1..Len(q) /\ Tail(q)[k] = q[k + 1]
    OBVIOUS
  <1>2. \A k \in 1..Len(q) : k = 1 \/ \E j \in 1..Len(Tail(q)) : Tail(q)[j] = q[k]
    <2> SUFFICES ASSUME NEW k \in 1..Len(q), k # 1
                 PROVE  \E j \in 1..Len(Tail(q)) : Tail(q)[j] = q[k]
      OBVIOUS
    <2>1. k - 1 \in 1..Len(Tail(q)) /\ (k - 1) + 1 = k
      BY <1>1
    <2>2. Tail(q)[k - 1] = q[(k - 1) + 1]
      BY <1>1, <2>1
    <2> QED
      BY <2>1, <2>2
  <1>3. \A k \in 1..Len(Tail(q)) : k \in Nat /\ k + 1 # 1
    BY <1>1
  <1>4. Members(q) = Members(Tail(q)) \cup {Head(q)}
    BY <1>1, <1>2 DEF Members
  <1> QED
    BY <1>1, <1>3, <1>4

LEMMA AtMostOne ==
    ASSUME NEW S, \A x, y \in S : x = y
    PROVE  Cardinality(S) = IF S = {} THEN 0 ELSE 1
  <1>1. CASE S = {}
    BY <1>1, FS_EmptySet
  <1>2. CASE S # {}
    <2>1. PICK x \in S : S = {x}
      BY <1>2
    <2> QED
      BY <1>2, <2>1, FS_Singleton
  <1> QED
    BY <1>1, <1>2

-----------------------------------------------------------------------------
(* The accept loop and the clients                                         *)

\* The accept loop moves no request; the end of the process drops what RequestReaders hold.
LEMMA AcceptMoves ==
    ASSUME IInv,
           \/ CommandFails \/ Terminates \/ ProcessExits
           \/ \E s \in Sessions, kind \in {"tcp", "fifo"} : Connect(s, kind) \/ ConnectFails(s, kind)
    PROVE  /\ UNCHANGED <<hand, queue, task, logged, answers, toServer, toClient, sent>>
           /\ UNCHANGED <<Piped, Queuing, Busy, Answered>> /\ Held' \subseteq Held
  <1>1. UNCHANGED <<hand, queue, task, logged, answers, toServer, toClient, sent>>
    BY DEF CommandFails, Terminates, Shutdown, TerminateMark, TerminateInterrupt, ProcessExits,
       Connect, ConnectFails, notAccept, poolVars, record, pipeVars
  <1>2. \A s \in Sessions : readerAt'[s] \in Hold => readerAt[s] \in Hold
    <2>0. readerAt \in [Sessions -> ReaderPlaces]
      BY DEF IInv, TypeOK
    <2>1. CASE CommandFails \/ Terminates \/ ProcessExits
      BY <2>0, <2>1 DEF Hold, CommandFails, Terminates, Shutdown, TerminateMark,
         TerminateInterrupt, ProcessExits
    <2>2. ASSUME NEW s \in Sessions, NEW kind \in {"tcp", "fifo"}, Connect(s, kind) \/ ConnectFails(s, kind)
          PROVE  \/ readerAt' = readerAt
                 \/ readerAt' = [readerAt EXCEPT ![s] = "loop"]
      BY <2>2 DEF Connect, ConnectFails
    <2> QED
      BY <2>0, <2>1, <2>2 DEF Hold
  <1>3. Held' \subseteq Held
    BY <1>1, <1>2, Pairs DEF Held, InHand, Hold
  <1>4. UNCHANGED <<Piped, Queuing, Busy, Answered>>
    BY <1>1 DEF Piped, Queuing, Busy, Answered, Members
  <1> QED
    BY <1>1, <1>3, <1>4

LEMMA OnceAccept ==
    ASSUME IInv, OnceInv,
           \/ CommandFails \/ Terminates \/ ProcessExits
           \/ \E s \in Sessions, kind \in {"tcp", "fifo"} : Connect(s, kind) \/ ConnectFails(s, kind)
    PROVE  OnceInv'
  <1>1. Apart' /\ AllSent'
    BY AcceptMoves DEF OnceInv, Apart, AllSent, Everywhere
  <1> QED
    BY <1>1, AcceptMoves DEF OnceInv, NoneTwice, Distinct, ToOwn

LEMMA OnceClient ==
    ASSUME IInv, OnceInv, NEW s \in Sessions,
           ClientSends(s) \/ ClientCloses(s) \/ ClientReads(s) \/ ClientGone(s)
    PROVE  /\ OnceInv'
           /\ UNCHANGED <<Held, Queuing, Busy, Answered, logged>>
           /\ \/ UNCHANGED <<Piped, sent>>
              \/ \E r \in Requests \ Issued : Piped' = Piped \cup {r} /\ Issued' = Issued \cup {r}
  <1>1. UNCHANGED <<hand, readerAt, queue, task, logged, answers>>
    BY DEF ClientSends, ClientCloses, ClientReads, ClientGone, notClient, readerVars, poolVars, record
  <1>2. UNCHANGED <<Held, Queuing, Busy, Answered>>
    BY <1>1 DEF Held, InHand, Queuing, Busy, Answered, Members
  <1>3. /\ toServer \in [Sessions -> Seq(0..MaxRequests)] /\ toClient \in [Sessions -> Seq(Responses)]
        /\ sent \in [Sessions -> 0..MaxRequests] /\ 0 \in 0..MaxRequests
    BY Numbers DEF IInv, TypeOK
  <1>4. CASE ClientSends(s)
    <2> DEFINE n == sent[s] + 1
    <2>1. n \in 1..MaxRequests /\ n \in 0..MaxRequests /\ n # Eos /\ sent' = [sent EXCEPT ![s] = n]
          /\ toClient' = toClient
          /\ toServer' = [toServer EXCEPT ![s] = Append(toServer[s], n)]
      BY <1>3, <1>4, Numbers DEF ClientSends, Eos
    <2>2. <<s, n>> \in Requests /\ <<s, n>>[1] = s /\ <<s, n>>[2] = n
      BY <2>1, Pairs
    <2>3. \A r \in Everywhere : r[2] <= sent[r[1]]
      BY DEF OnceInv, AllSent
    <2>4. ~(n <= sent[s])
      BY <1>3
    <2> HIDE DEF n
    <2>5. <<s, n>> \notin Everywhere
      BY <2>2, <2>3, <2>4
    <2>6. Members(toServer'[s]) = Members(toServer[s]) \cup {n}
      <3> DEFINE q == toServer[s]
                 N == 0..MaxRequests
      <3>1. q \in Seq(N) /\ n \in N /\ toServer'[s] = Append(q, n)
        BY <1>3, <2>1
      <3> HIDE DEF q, N
      <3>2. Members(Append(q, n)) = Members(q) \cup {n}
        BY <3>1, AppendFacts
      <3> QED
        BY <3>1, <3>2 DEF q
    <2>7. Piped' = Piped \cup {<<s, n>>}
      BY <1>3, <2>1, <2>2, <2>6, Pairs DEF Piped
    <2>8. Apart'
      BY <1>1, <1>2, <2>5, <2>7 DEF OnceInv, Apart, Everywhere
    <2>9. n \notin Members(toServer[s])
      BY <2>2, <2>5 DEF Everywhere, Piped
    <2>10. \A t \in Sessions : Distinct(toServer'[t])
      <3>1. Distinct(Append(toServer[s], n))
        BY <1>3, <2>1, <2>9, AppendFacts DEF OnceInv, NoneTwice, Distinct, Members
      <3> QED
        BY <1>3, <2>1, <3>1 DEF OnceInv, NoneTwice
    <2>11. Everywhere' = Everywhere \cup {<<s, n>>}
      BY <1>1, <1>2, <2>7 DEF Everywhere
    <2>12. \A t \in Sessions : sent[t] <= sent'[t]
      BY <1>3, <2>1 DEF n
    <2>13. AllSent'
      <3> SUFFICES ASSUME NEW r \in Everywhere'
                   PROVE  r[2] <= sent'[r[1]]
        BY DEF AllSent
      <3>1. CASE r = <<s, n>>
        BY <1>3, <2>1, <2>2, <3>1, Numbers
      <3>2. CASE r \in Everywhere
        <4>1. r \in Requests
          BY <3>2 DEF Everywhere, Piped, Held, Queuing, Busy, Answered, Members, IInv, TypeOK
        <4>2. r[1] \in Sessions /\ r[2] \in Nat /\ sent[r[1]] \in Nat /\ sent'[r[1]] \in Nat
          BY <1>3, <2>1, <4>1, Pairs
        <4>3. r[2] <= sent[r[1]]
          BY <2>3, <3>2
        <4>4. sent[r[1]] <= sent'[r[1]]
          BY <2>12, <4>2
        <4> QED
          BY <4>2, <4>3, <4>4
      <3> QED
        BY <2>11, <3>1, <3>2
    <2>14. <<s, n>> \notin Issued /\ Issued' = Issued \cup {<<s, n>>}
      <3>1. <<s, n>> \notin Issued
        BY <2>2, <2>4 DEF Issued
      <3>2. \A r \in Requests : r[1] # s => (r \in Issued' <=> r \in Issued)
        BY <1>3, <2>1, Pairs DEF Issued
      <3>3. \A r \in Requests : r[1] = s => (r \in Issued' <=> r \in Issued \/ r = <<s, n>>)
        <4> SUFFICES ASSUME NEW r \in Requests, r[1] = s
                     PROVE  r[2] <= n <=> r[2] <= sent[s] \/ r = <<s, n>>
          BY <1>3, <2>1, <2>2 DEF Issued
        <4>1. r[2] \in Nat /\ sent[s] \in Nat /\ r = <<s, r[2]>> /\ n = sent[s] + 1
          BY <1>3, Pairs, Numbers DEF n
        <4>2. r = <<s, n>> <=> r[2] = n
          BY <2>2, <4>1
        <4> QED
          BY <4>1, <4>2
      <3> QED
        BY <2>2, <3>1, <3>2, <3>3 DEF Issued
    <2>15. OnceInv'
      BY <1>1, <2>1, <2>8, <2>10, <2>13 DEF OnceInv, NoneTwice, ToOwn
    <2> QED
      BY <1>1, <1>2, <2>2, <2>7, <2>14, <2>15
  <1>5. CASE ClientCloses(s)
    <2>1. /\ toServer' = [toServer EXCEPT ![s] = Append(toServer[s], Eos)] /\ UNCHANGED <<toClient, sent>>
      BY <1>5 DEF ClientCloses
    <2>2. Members(toServer'[s]) = Members(toServer[s]) \cup {Eos}
      <3> DEFINE q == toServer[s]
                 N == 0..MaxRequests
      <3>1. q \in Seq(N) /\ Eos \in N /\ toServer'[s] = Append(q, Eos)
        BY <1>3, <2>1 DEF Eos
      <3> HIDE DEF q, N
      <3>2. Members(Append(q, Eos)) = Members(q) \cup {Eos}
        BY <3>1, AppendFacts
      <3> QED
        BY <3>1, <3>2 DEF q
    <2>3. Piped' = Piped
      BY <1>3, <2>1, <2>2, Pairs DEF Piped
    <2>4. \A t \in Sessions : Distinct(toServer'[t])
      <3>1. Distinct(Append(toServer[s], Eos))
        BY <1>3, <2>1, AppendFacts DEF OnceInv, NoneTwice, Distinct, Members, Eos
      <3> QED
        BY <1>3, <2>1, <3>1 DEF OnceInv, NoneTwice
    <2>5. Apart' /\ AllSent'
      BY <1>1, <1>2, <2>1, <2>3 DEF OnceInv, Apart, AllSent, Everywhere
    <2>6. OnceInv'
      BY <1>1, <2>1, <2>4, <2>5 DEF OnceInv, NoneTwice, ToOwn
    <2> QED
      BY <1>1, <1>2, <2>1, <2>3, <2>6
  <1>6. CASE ClientReads(s) \/ ClientGone(s)
    <2>1. UNCHANGED <<toServer, sent>>
      BY <1>6 DEF ClientReads, ClientGone, clientVars
    <2>2. Apart' /\ AllSent'
      BY <1>1, <1>2, <2>1 DEF OnceInv, Apart, AllSent, Everywhere, Piped
    <2>3. ToOwn'
      <3>1. CASE toClient' = toClient
        BY <3>1 DEF OnceInv, ToOwn
      <3>2. CASE toClient' = [toClient EXCEPT ![s] = Tail(toClient[s])] /\ toClient[s] # <<>>
        <4>1. \A k \in 1..Len(Tail(toClient[s])) :
                k + 1 \in 1..Len(toClient[s]) /\ Tail(toClient[s])[k] = toClient[s][k + 1]
          BY <1>3, <3>2, TailFacts
        <4> QED
          BY <1>3, <3>2, <4>1 DEF OnceInv, ToOwn
      <3> QED
        BY <1>6, <3>1, <3>2 DEF ClientReads, ClientGone
    <2>4. OnceInv'
      BY <1>1, <2>1, <2>2, <2>3 DEF OnceInv, NoneTwice
    <2>5. Piped' = Piped
      BY <2>1 DEF Piped
    <2> QED
      BY <1>1, <1>2, <2>1, <2>4, <2>5
  <1> QED
    BY <1>4, <1>5, <1>6

-----------------------------------------------------------------------------
(* RequestReaders                                                          *)

\* A message is written to the pipe of the client whom its request came from.
LEMMA PutOwn ==
    ASSUME IInv, ToOwn, NEW s \in Sessions, NEW k \in {"reply", "exception", "eos"},
           NEW r \in Sessions \X (0..MaxRequests), r[1] = s, Put(s, k, r)
    PROVE  ToOwn'
  <1> DEFINE m == [kind |-> k, of |-> r]
             q == toClient[s]
  <1>1. m \in Responses /\ m.of[1] = s
    BY DEF Responses
  <1>2. toClient' = [toClient EXCEPT ![s] = Append(q, m)] /\ toClient \in [Sessions -> Seq(Responses)]
    BY DEF Put, IInv, TypeOK
  <1>3. q \in Seq(Responses) /\ \A j \in 1..Len(q) : q[j].of[1] = s
    BY <1>2 DEF ToOwn
  <1> HIDE DEF m, q
  <1>4. \A j \in 1..Len(Append(q, m)) : Append(q, m)[j].of[1] = s
    BY <1>1, <1>3, AppendFacts
  <1> QED
    BY <1>2, <1>4 DEF ToOwn

\* The request in the hand of the RequestReader of s.
LEMMA HeldFacts ==
    ASSUME IInv, NEW s \in Sessions, readerAt[s] \in Hold
    PROVE  /\ <<s, hand[s]>> \in Held
           /\ \A r \in Held : r[1] = s => r = <<s, hand[s]>>
  <1>1. hand[s] \in 1..MaxRequests
    BY DEF IInv, Reading, Hold
  <1> QED
    BY <1>1, Pairs DEF Held, InHand, Hold

\* The RequestReader reads from the pipe what its client sent first.
LEMMA OnceReads ==
    ASSUME IInv, OnceInv, NEW s \in Sessions, ReaderReads(s)
    PROVE  OnceInv' /\ UNCHANGED <<Pending, Queuing, Busy, Answered, logged>>
  <1> DEFINE q == toServer[s]
             N == 0..MaxRequests
             h == Head(q)
  <1>1. /\ q # <<>> /\ readerAt[s] = "read"
        /\ readerAt' = [readerAt EXCEPT ![s] = IF h = Eos THEN "finally" ELSE "submit"]
        /\ hand' = [hand EXCEPT ![s] = h] /\ toServer' = [toServer EXCEPT ![s] = Tail(q)]
        /\ UNCHANGED <<queue, task, logged, answers, toClient, sent>>
    BY DEF ReaderReads, ReaderGoes, notReader, clientVars, poolVars, record, pipeVars
  <1>2. /\ toServer \in [Sessions -> Seq(N)] /\ readerAt \in [Sessions -> ReaderPlaces]
        /\ hand \in [Sessions -> N] /\ q \in Seq(N) /\ Distinct(q)
    BY DEF IInv, TypeOK, OnceInv, NoneTwice
  <1> HIDE DEF q, N
  <1>3. /\ Members(q) = Members(Tail(q)) \cup {h} /\ Distinct(Tail(q))
        /\ h = Eos \/ h \notin Members(Tail(q))
    <2>1. /\ Members(q) = Members(Tail(q)) \cup {Head(q)}
          /\ Len(q) \in Nat /\ Head(q) = q[1] /\ 1 \in 1..Len(q)
          /\ \A k \in 1..Len(Tail(q)) : /\ k \in Nat /\ k + 1 \in 1..Len(q)
                                        /\ k + 1 # 1 /\ Tail(q)[k] = q[k + 1]
      BY <1>1, <1>2, TailFacts
    <2>2. Distinct(Tail(q))
      BY <1>2, <2>1 DEF Distinct
    <2>3. h = Eos \/ h \notin Members(Tail(q))
      BY <1>2, <2>1 DEF Distinct, Members
    <2> QED
      BY <2>1, <2>2, <2>3
  <1>4. h \in N
    <2>1. Head(q) \in N
      BY <1>1, <1>2, TailType
    <2> QED
      BY <2>1
  <1>5. UNCHANGED <<Queuing, Busy, Answered>>
    BY <1>1 DEF Queuing, Busy, Answered, Members
  <1> HIDE DEF h
  <1>6. \A r \in Requests : r[1] # s => (r \in Held' <=> r \in Held) /\ (r \in Piped' <=> r \in Piped)
    BY <1>1, <1>2, Pairs DEF Held, InHand, Piped
  <1>7. CASE h = Eos
    <2>1. Held' = Held
      BY <1>1, <1>2, <1>6, <1>7 DEF Held, InHand
    <2>2. Piped' = Piped
      BY <1>1, <1>2, <1>3, <1>6, <1>7, Pairs DEF Piped, q
    <2>3. Apart' /\ Everywhere' = Everywhere
      BY <1>1, <1>5, <2>1, <2>2 DEF OnceInv, Apart, Everywhere
    <2>4. OnceInv'
      BY <1>1, <1>2, <1>3, <2>3 DEF OnceInv, NoneTwice, AllSent, ToOwn
    <2> QED
      BY <1>1, <1>5, <2>1, <2>2, <2>4 DEF Pending
  <1>8. CASE h # Eos
    <2>1. h \in 1..MaxRequests
      BY <1>4, <1>8, Numbers DEF N, Eos
    <2>2. <<s, h>> \in Requests /\ <<s, h>>[1] = s /\ <<s, h>>[2] = h
      BY <2>1, Pairs
    <2>3. Held' = Held \cup {<<s, h>>}
      BY <1>1, <1>2, <1>6, <1>8, <2>2, Pairs DEF Held, InHand
    <2>4. Piped = Piped' \cup {<<s, h>>} /\ <<s, h>> \notin Piped'
      BY <1>1, <1>2, <1>3, <1>6, <1>8, <2>2, Pairs DEF Piped, q
    <2>5. Apart' /\ Everywhere' = Everywhere
      BY <1>1, <1>5, <2>3, <2>4 DEF OnceInv, Apart, Everywhere
    <2>6. OnceInv'
      BY <1>1, <1>2, <1>3, <2>5 DEF OnceInv, NoneTwice, AllSent, ToOwn
    <2> QED
      BY <1>1, <1>5, <2>3, <2>4, <2>6 DEF Pending
  <1> QED
    BY <1>7, <1>8

\* The executor takes the request over.
LEMMA OnceSubmits ==
    ASSUME IInv, OnceInv, NEW s \in Sessions, ReaderSubmits(s)
    PROVE  /\ OnceInv' /\ UNCHANGED <<Answered, logged>>
           /\ \E i \in Pending : Pending' = Pending \ {i} /\ Accepted' = Accepted \cup {i}
  <1> DEFINE i == <<s, hand[s]>>
  <1>1. /\ readerAt[s] = "submit" /\ readerAt' = [readerAt EXCEPT ![s] = "loop"]
        /\ Submit(i) /\ hand' = [hand EXCEPT ![s] = Eos]
        /\ UNCHANGED <<toServer, logged, answers, toClient, sent>>
    BY DEF ReaderSubmits, ReaderGoes, notReader, clientVars, record, pipeVars
  <1>2. /\ readerAt \in [Sessions -> ReaderPlaces] /\ queue \in Seq(Requests)
        /\ task \in [Workers -> Requests \cup {NoTask}] /\ poolSize \in 0..MaxPool
        /\ \A w \in Workers : w > poolSize => task[w] = NoTask
    BY DEF IInv, TypeOK, Pooling
  <1>3. /\ i \in Held /\ i \in Requests /\ i # NoTask
        /\ \A r \in Held : r[1] = s => r = i
    BY <1>1, HeldFacts, Pairs DEF Hold, Held
  <1> HIDE DEF i
  <1>4. Held' = Held \ {i}
    <2>1. \A r \in Requests : r[1] # s => (r \in Held' <=> r \in Held)
      BY <1>1, <1>2, Pairs DEF Held, InHand
    <2>2. \A r \in Requests : r[1] = s => r \notin Held'
      BY <1>1, <1>2 DEF Held, InHand
    <2>3. i[1] = s
      BY DEF i
    <2> QED
      BY <1>3, <2>1, <2>2, <2>3 DEF Held
  <1>5. UNCHANGED <<Piped, Answered>> /\ i \in Pending /\ Pending' = Pending \ {i}
    <2>1. UNCHANGED <<Piped, Answered>>
      BY <1>1 DEF Piped, Answered, Members
    <2> QED
      BY <1>3, <1>4, <2>1 DEF Pending, OnceInv, Apart
  <1>6. CASE Enqueue(i)
    <2>1. queue' = Append(queue, i) /\ task' = task
      BY <1>6 DEF Enqueue
    <2>2. Queuing' = Queuing \cup {i} /\ Busy' = Busy
      BY <1>2, <1>3, <2>1, AppendFacts DEF Queuing, Busy
    <2>3. \A j, k \in 1..Len(queue') : queue'[j] = queue'[k] => j = k
      <3>1. i \notin Queuing
        BY <1>3 DEF OnceInv, Apart
      <3> QED
        BY <1>2, <1>3, <2>1, <3>1, AppendFacts DEF OnceInv, NoneTwice, Queuing, Members
    <2>4. Apart' /\ Everywhere' = Everywhere
      BY <1>1, <1>3, <1>4, <1>5, <2>2 DEF OnceInv, Apart, Everywhere
    <2>5. OnceInv'
      BY <1>1, <2>1, <2>3, <2>4 DEF OnceInv, NoneTwice, AllSent, ToOwn
    <2> QED
      BY <1>1, <1>5, <2>2, <2>5 DEF Accepted
  <1>7. CASE poolSize < MaxPool /\ StartWorker(i)
    <2> DEFINE p == poolSize + 1
    <2>1. p \in Workers /\ p > poolSize /\ queue' = queue /\ task' = [task EXCEPT ![p] = i]
      BY <1>2, <1>7, Numbers DEF StartWorker, Workers
    <2> HIDE DEF p
    <2>2. task[p] = NoTask
      BY <1>2, <2>1
    <2>3. Queuing' = Queuing /\ Busy' = Busy \cup {i}
      <3>1. Queuing' = Queuing
        BY <2>1 DEF Queuing, Members
      <3>2. \A r : r \in Busy' <=> r \in Busy \/ r = i
        BY <1>2, <1>3, <2>1, <2>2 DEF Busy
      <3> QED
        BY <3>1, <3>2
    <2>4. \A v, w \in Workers : task'[v] = task'[w] /\ task'[v] # NoTask => v = w
      <3>1. i \notin Busy
        BY <1>3 DEF OnceInv, Apart
      <3> QED
        BY <1>2, <1>3, <2>1, <3>1 DEF OnceInv, NoneTwice, Busy
    <2>5. Apart' /\ Everywhere' = Everywhere
      BY <1>1, <1>3, <1>4, <1>5, <2>3 DEF OnceInv, Apart, Everywhere
    <2>6. OnceInv'
      BY <1>1, <2>1, <2>4, <2>5 DEF OnceInv, NoneTwice, AllSent, ToOwn
    <2> QED
      BY <1>1, <1>5, <2>3, <2>6 DEF Accepted
  <1> QED
    BY <1>1, <1>2, <1>6, <1>7, Numbers DEF Submit

\* The RequestReader answers with an exception.
LEMMA OnceRefuses ==
    ASSUME IInv, OnceInv, NEW s \in Sessions, ReaderAnswers(s)
    PROVE  /\ OnceInv' /\ UNCHANGED <<Queuing, Busy, logged>>
           /\ \E i \in Pending : Pending' = Pending \ {i} /\ Answered' = Answered \cup {i}
  <1> DEFINE i == <<s, hand[s]>>
  <1>1. /\ readerAt[s] = "answering" /\ readerAt' = [readerAt EXCEPT ![s] = "loop"]
        /\ Put(s, "exception", i) /\ hand' = [hand EXCEPT ![s] = Eos]
        /\ answers' = [answers EXCEPT ![i] = answers[i] + 1]
        /\ UNCHANGED <<toServer, logged, queue, task, sent>>
    BY DEF ReaderAnswers, ReaderGoes, notReader, clientVars, poolVars
  <1>2. readerAt \in [Sessions -> ReaderPlaces] /\ answers \in [Requests -> Nat]
    BY DEF IInv, TypeOK
  <1>3. /\ i \in Held /\ i \in Requests /\ i[1] = s
        /\ \A r \in Held : r[1] = s => r = i
    BY <1>1, HeldFacts DEF Hold, Held
  <1>4. ToOwn'
    <2>1. i \in Sessions \X (0..MaxRequests)
      BY DEF IInv, TypeOK
    <2> QED
      BY <1>1, <1>3, <2>1, PutOwn DEF OnceInv
  <1> HIDE DEF i
  <1>5. Held' = Held \ {i}
    <2>1. \A r \in Requests : r[1] # s => (r \in Held' <=> r \in Held)
      BY <1>1, <1>2, Pairs DEF Held, InHand
    <2>2. \A r \in Requests : r[1] = s => r \notin Held'
      BY <1>1, <1>2 DEF Held, InHand
    <2> QED
      BY <1>3, <2>1, <2>2 DEF Held
  <1>6. UNCHANGED <<Piped, Queuing, Busy>>
    BY <1>1 DEF Piped, Queuing, Busy, Members
  <1>7. answers[i] = 0
    BY <1>2, <1>3 DEF OnceInv, Apart, Answered
  <1>8. Answered' = Answered \cup {i} /\ \A r \in Requests : answers'[r] \in {0, 1}
    BY <1>1, <1>2, <1>3, <1>7 DEF Answered, OnceInv, NoneTwice
  <1>9. Apart' /\ Everywhere' = Everywhere
    BY <1>1, <1>3, <1>5, <1>6, <1>8 DEF OnceInv, Apart, Everywhere
  <1>10. i \in Pending /\ Pending' = Pending \ {i}
    BY <1>3, <1>5, <1>6 DEF Pending, OnceInv, Apart
  <1>11. OnceInv'
    BY <1>1, <1>4, <1>8, <1>9 DEF OnceInv, NoneTwice, AllSent
  <1> QED
    BY <1>1, <1>6, <1>8, <1>10, <1>11

LEMMA OnceReader ==
    ASSUME IInv, OnceInv, NEW s \in Sessions, ReaderStep(s)
    PROVE  /\ OnceInv' /\ UNCHANGED logged
           /\ \/ Pending' \subseteq Pending /\ UNCHANGED <<Accepted, Answered>>
              \/ \E i \in Pending : /\ Pending' = Pending \ {i}
                                    /\ \/ Accepted' = Accepted \cup {i} /\ UNCHANGED Answered
                                       \/ Answered' = Answered \cup {i} /\ UNCHANGED Accepted
  <1>1. CASE ~ReaderReads(s) /\ ~ReaderSubmits(s) /\ ~ReaderAnswers(s)
    <2>1. /\ UNCHANGED <<hand, toServer, logged, queue, task, answers, sent>>
          /\ \E to \in ReaderPlaces : readerAt' = [readerAt EXCEPT ![s] = to]
                                      /\ (to \in Hold => readerAt[s] \in Hold)
      BY <1>1 DEF ReaderStep, ReaderLoop, ReaderReadFails, ReaderRejected, ReaderCannotSubmit,
         ReaderLocks, ReaderCannotAnswer, ReaderFarewell, ReaderFarewellFails, ReaderSleeps,
         ReaderFrees, ReaderCloses, ReaderGoes, notReader, clientVars, poolVars, record, pipeVars,
         ReaderPlaces, Hold
    <2>2. readerAt \in [Sessions -> ReaderPlaces]
      BY DEF IInv, TypeOK
    <2>3. Held' \subseteq Held
      BY <2>1, <2>2, Pairs DEF Held, InHand, Hold
    <2>4. UNCHANGED <<Piped, Queuing, Busy, Answered>>
      BY <2>1 DEF Piped, Queuing, Busy, Answered, Members
    <2>5. Apart' /\ AllSent'
      BY <2>1, <2>3, <2>4 DEF OnceInv, Apart, AllSent, Everywhere
    <2>6. ToOwn'
      <3>1. CASE toClient' = toClient
        BY <3>1 DEF OnceInv, ToOwn
      <3>2. CASE Put(s, "eos", <<s, Eos>>)
        <4>1. <<s, Eos>> \in Sessions \X (0..MaxRequests) /\ <<s, Eos>>[1] = s
          BY Numbers DEF Eos
        <4> QED
          BY <3>2, <4>1, PutOwn DEF OnceInv
      <3> QED
        BY <1>1, <3>1, <3>2 DEF ReaderStep, ReaderLoop, ReaderReadFails, ReaderRejected,
           ReaderCannotSubmit, ReaderLocks, ReaderCannotAnswer, ReaderFarewell,
           ReaderFarewellFails, ReaderSleeps, ReaderFrees, ReaderCloses, pipeVars
    <2>7. OnceInv'
      BY <2>1, <2>5, <2>6 DEF OnceInv, NoneTwice
    <2> QED
      BY <2>1, <2>3, <2>4, <2>7 DEF Pending, Accepted
  <1>2. CASE ReaderReads(s)
    BY <1>2, OnceReads DEF Accepted
  <1>3. CASE ReaderSubmits(s)
    BY <1>3, OnceSubmits
  <1>4. CASE ReaderAnswers(s)
    BY <1>4, OnceRefuses DEF Accepted
  <1> QED
    BY <1>1, <1>2, <1>3, <1>4

-----------------------------------------------------------------------------
(* Pool threads                                                            *)

\* The request of a thread that is not idle, which no other thread has.
LEMMA TaskFacts ==
    ASSUME IInv, OnceInv, NEW w \in Workers, workerAt[w] # "idle"
    PROVE  /\ task[w] \in Requests /\ task[w] \in Busy
           /\ \A v \in Workers : task[v] = task[w] => v = w
  BY DEF IInv, TypeOK, Pooling, Busy, OnceInv, NoneTwice

\* A thread becomes idle: its request leaves the pool.
LEMMA TaskEnds ==
    ASSUME IInv, OnceInv, NEW w \in Workers, workerAt[w] # "idle",
           task' = [task EXCEPT ![w] = NoTask]
    PROVE  /\ Busy' = Busy \ {task[w]}
           /\ \A u, v \in Workers : task'[u] = task'[v] /\ task'[u] # NoTask => u = v
  <1>1. task \in [Workers -> Requests \cup {NoTask}]
    BY DEF IInv, TypeOK
  <1>2. /\ task[w] \in Requests /\ task[w] \in Busy
        /\ \A v \in Workers : task[v] = task[w] => v = w
    BY TaskFacts
  <1>3. \A r : r \in Busy' <=> r \in Busy \ {task[w]}
    BY <1>1, <1>2 DEF Busy
  <1> QED
    BY <1>1, <1>3 DEF OnceInv, NoneTwice

LEMMA OnceWorker ==
    ASSUME IInv, OnceInv, NEW w \in Workers, WorkerStep(w)
    PROVE  /\ OnceInv' /\ UNCHANGED <<Piped, Held>>
           /\ \/ UNCHANGED <<Accepted, Answered, logged>>
              \/ \E i \in Accepted : /\ Accepted' = Accepted \ {i}
                                     /\ \/ Answered' = Answered \cup {i} /\ UNCHANGED logged
                                        \/ logged' = logged \cup {i} /\ UNCHANGED Answered
  <1>1. UNCHANGED <<hand, readerAt, toServer, sent>>
    BY DEF WorkerStep, WorkerTakes, WorkerReturns, WorkerThrows, WorkerLocks, WorkerAnswers,
       WorkerCannotAnswer, notWorker, readerVars, clientVars
  <1>2. UNCHANGED <<Piped, Held>>
    BY <1>1 DEF Piped, Held, InHand
  <1>3. /\ task \in [Workers -> Requests \cup {NoTask}] /\ queue \in Seq(Requests)
        /\ answers \in [Requests -> Nat]
    BY DEF IInv, TypeOK
  <1>4. CASE WorkerTakes(w)
    <2> DEFINE i == Head(queue)
    <2>1. /\ queue # <<>> /\ workerAt[w] = "idle" /\ queue' = Tail(queue)
          /\ task' = [task EXCEPT ![w] = i]
          /\ UNCHANGED <<logged, answers, toClient>>
      BY <1>4 DEF WorkerTakes, WorkerGoes, record, pipeVars
    <2>2. task[w] = NoTask /\ i \in Requests /\ i # NoTask
      BY <1>3, <2>1, TailType, RequestIsTask DEF IInv, Pooling
    <2>3. /\ Members(queue) = Members(Tail(queue)) \cup {i}
          /\ Len(queue) \in Nat /\ i = queue[1] /\ 1 \in 1..Len(queue)
          /\ \A k \in 1..Len(Tail(queue)) : /\ k \in Nat /\ k + 1 \in 1..Len(queue)
                                            /\ k + 1 # 1 /\ Tail(queue)[k] = queue[k + 1]
      BY <1>3, <2>1, TailFacts
    <2> HIDE DEF i
    <2>4. /\ \A j, k \in 1..Len(queue') : queue'[j] = queue'[k] => j = k
          /\ i \notin Members(Tail(queue))
      BY <2>1, <2>3 DEF OnceInv, NoneTwice, Members
    <2>5. Queuing = Queuing' \cup {i} /\ i \notin Queuing'
      BY <2>1, <2>3, <2>4 DEF Queuing
    <2>6. i \notin Busy
      BY <2>5 DEF OnceInv, Apart
    <2>7. \A r : r \in Busy' <=> r \in Busy \cup {i}
      BY <1>3, <2>1, <2>2 DEF Busy
    <2>8. \A u, v \in Workers : task'[u] = task'[v] /\ task'[u] # NoTask => u = v
      BY <1>3, <2>1, <2>2, <2>6 DEF OnceInv, NoneTwice, Busy
    <2>9. Answered' = Answered
      BY <2>1 DEF Answered
    <2>10. Apart' /\ Everywhere' = Everywhere
      BY <1>2, <2>1, <2>5, <2>7, <2>9 DEF OnceInv, Apart, Everywhere
    <2>11. OnceInv'
      BY <1>1, <2>1, <2>4, <2>8, <2>10 DEF OnceInv, NoneTwice, AllSent, ToOwn
    <2> QED
      BY <1>2, <2>1, <2>5, <2>7, <2>9, <2>11 DEF Accepted
  <1>5. CASE WorkerReturns(w) \/ WorkerLocks(w)
    <2>1. UNCHANGED <<queue, task, logged, answers, toClient>>
      BY <1>5 DEF WorkerReturns, WorkerLocks, record, pipeVars
    <2>2. UNCHANGED <<Queuing, Busy, Answered>>
      BY <2>1 DEF Queuing, Busy, Answered, Members
    <2>3. OnceInv'
      BY <1>1, <1>2, <2>1, <2>2 DEF OnceInv, Apart, NoneTwice, AllSent, Everywhere, ToOwn
    <2> QED
      BY <1>2, <2>1, <2>2, <2>3 DEF Accepted
  <1>6. CASE WorkerThrows(w) \/ WorkerCannotAnswer(w)
    <2>1. /\ workerAt[w] # "idle" /\ task' = [task EXCEPT ![w] = NoTask]
          /\ logged' = logged \cup {task[w]}
          /\ UNCHANGED <<queue, answers, toClient>>
      BY <1>6 DEF WorkerThrows, WorkerCannotAnswer, WorkerGoes, pipeVars
    <2>2. task[w] \in Busy /\ Busy' = Busy \ {task[w]}
      BY <2>1, TaskFacts, TaskEnds
    <2>3. UNCHANGED <<Queuing, Answered>>
      BY <2>1 DEF Queuing, Answered, Members
    <2>4. Apart' /\ Everywhere' = Everywhere
      BY <1>2, <2>1, <2>2, <2>3 DEF OnceInv, Apart, Everywhere
    <2>5. OnceInv'
      BY <1>1, <2>1, <2>4, TaskEnds DEF OnceInv, NoneTwice, AllSent, ToOwn
    <2>6. Accepted' = Accepted \ {task[w]} /\ task[w] \in Accepted
      BY <2>2, <2>3 DEF Accepted, OnceInv, Apart
    <2> QED
      BY <1>2, <2>1, <2>3, <2>5, <2>6
  <1>7. CASE WorkerAnswers(w)
    <2> DEFINE i == task[w]
    <2>1. /\ workerAt[w] # "idle" /\ task' = [task EXCEPT ![w] = NoTask]
          /\ answers' = [answers EXCEPT ![i] = answers[i] + 1]
          /\ Put(i[1], "reply", i) /\ UNCHANGED <<queue, logged>>
      BY <1>7 DEF WorkerAnswers, WorkerGoes, Pipe
    <2>2. i \in Requests /\ i \in Busy /\ Busy' = Busy \ {i}
      BY <2>1, TaskFacts, TaskEnds
    <2> HIDE DEF i
    <2>3. answers[i] = 0
      BY <1>3, <2>2 DEF OnceInv, Apart, Answered
    <2>4. Answered' = Answered \cup {i} /\ \A r \in Requests : answers'[r] \in {0, 1}
      BY <1>3, <2>1, <2>2, <2>3 DEF Answered, OnceInv, NoneTwice
    <2>5. Queuing' = Queuing
      BY <2>1 DEF Queuing, Members
    <2>6. Apart' /\ Everywhere' = Everywhere
      BY <1>2, <2>1, <2>2, <2>4, <2>5 DEF OnceInv, Apart, Everywhere
    <2>7. ToOwn'
      <3>1. i[1] \in Sessions /\ i \in Sessions \X (0..MaxRequests)
        BY <2>2, Pairs, Numbers DEF Requests
      <3> QED
        BY <2>1, <3>1, PutOwn DEF OnceInv
    <2>8. OnceInv'
      BY <1>1, <2>1, <2>4, <2>6, <2>7, TaskEnds DEF OnceInv, NoneTwice, AllSent
    <2>9. Accepted' = Accepted \ {i} /\ i \in Accepted
      BY <2>2, <2>5 DEF Accepted, OnceInv, Apart
    <2> QED
      BY <1>2, <2>1, <2>4, <2>8, <2>9
  <1> QED
    BY <1>4, <1>5, <1>6, <1>7 DEF WorkerStep

-----------------------------------------------------------------------------
(* Theorems                                                                *)

LEMMA OnceInit == Init => OnceInv
  <1> SUFFICES ASSUME Init
               PROVE  OnceInv
    OBVIOUS
  <1>1. /\ queue = <<>> /\ logged = {} /\ answers = [r \in Requests |-> 0]
        /\ toServer = [s \in Sessions |-> <<>>] /\ toClient = [s \in Sessions |-> <<>>]
        /\ task = [w \in Workers |-> NoTask] /\ readerAt = [s \in Sessions |-> "none"]
    BY DEF Init
  <1>2. \A k : k \notin 1..Len(<<>>)
    OBVIOUS
  <1>3. Piped = {} /\ Held = {} /\ Queuing = {} /\ Busy = {} /\ Answered = {}
    BY <1>1, <1>2, Pairs DEF Piped, Held, InHand, Queuing, Busy, Answered, Members
  <1>4. Apart /\ AllSent
    BY <1>1, <1>3 DEF Apart, AllSent, Everywhere
  <1>5. NoneTwice
    BY <1>1, <1>2 DEF NoneTwice, Distinct
  <1>6. ToOwn
    BY <1>1, <1>2 DEF ToOwn
  <1> QED
    BY <1>4, <1>5, <1>6 DEF OnceInv

\* Each request is in one place at a time: the pipe, its RequestReader's hand, the work
\* queue, a pool thread, the log or the answers.
THEOREM OnePlaceEach == Spec => []OnceInv
  <1>1. IInv /\ OnceInv /\ [Next]_vars => OnceInv'
    <2> SUFFICES ASSUME IInv, OnceInv, [Next]_vars
                 PROVE  OnceInv'
      OBVIOUS
    <2>1. CASE UNCHANGED vars
      <3>1. UNCHANGED <<hand, readerAt, queue, task, logged, answers, toServer, toClient, sent>>
        BY <2>1 DEF vars, readerVars, poolVars, record, pipeVars, clientVars
      <3>2. UNCHANGED <<Piped, Held, Queuing, Busy, Answered>>
        BY <3>1 DEF Piped, Held, InHand, Queuing, Busy, Answered, Members
      <3> QED
        BY <3>1, <3>2 DEF OnceInv, Apart, NoneTwice, Distinct, AllSent, Everywhere, ToOwn
    <2> QED
      BY <2>1, OnceAccept, OnceReader, OnceWorker, OnceClient DEF Next
  <1> QED
    BY Invariance, OnceInit, <1>1, PTL DEF Spec

\* A request is executed once and answered at most once, by a callable's reply or by the
\* RequestReader's exception but never both, on the pipe it came from (RequestReader.java
\* 37-62, MyThreadPoolExecutor.afterExecute).
THEOREM AnsweredAtMostOnce == Spec => []OneAnswerEach
  <1>1. IInv /\ OnceInv => OneAnswerEach
    <2> SUFFICES ASSUME IInv, OnceInv
                 PROVE  OneAnswerEach
      OBVIOUS
    <2>1. ASSUME NEW r \in Requests
          PROVE  Cardinality(Queued(r)) + Cardinality(Working(r)) + answers[r]
                   + (IF InHand(r) THEN 1 ELSE 0) + (IF r \in logged THEN 1 ELSE 0) <= 1
      <3>1. Cardinality(Queued(r)) = IF r \in Queuing THEN 1 ELSE 0
        <4>1. DOMAIN queue = 1..Len(queue)
          BY DEF IInv, TypeOK
        <4>2. \A j, k \in Queued(r) : j = k
          BY <4>1 DEF Queued, OnceInv, NoneTwice
        <4>3. Cardinality(Queued(r)) = IF Queued(r) = {} THEN 0 ELSE 1
          BY <4>2, AtMostOne
        <4>4. Queued(r) = {} <=> r \notin Queuing
          BY <4>1 DEF Queued, Queuing, Members
        <4> QED
          BY <4>3, <4>4
      <3>2. Cardinality(Working(r)) = IF r \in Busy THEN 1 ELSE 0
        <4>1. r # NoTask
          BY Pairs
        <4>2. \A v, w \in Working(r) : v = w
          BY <4>1 DEF Working, OnceInv, NoneTwice
        <4>3. Cardinality(Working(r)) = IF Working(r) = {} THEN 0 ELSE 1
          BY <4>2, AtMostOne
        <4>4. Working(r) = {} <=> r \notin Busy
          BY <4>1 DEF Working, Busy
        <4> QED
          BY <4>3, <4>4
      <3>3. answers[r] = IF r \in Answered THEN 1 ELSE 0
        BY DEF OnceInv, NoneTwice, Answered
      <3>4. InHand(r) <=> r \in Held
        BY DEF Held
      <3>5. /\ r \in Queuing => r \notin Busy /\ r \notin Answered /\ r \notin Held /\ r \notin logged
            /\ r \in Busy => r \notin Answered /\ r \notin Held /\ r \notin logged
            /\ r \in Answered => r \notin Held /\ r \notin logged
            /\ r \in Held => r \notin logged
        BY DEF OnceInv, Apart
      <3> QED
        BY <3>1, <3>2, <3>3, <3>4, <3>5
    <2>2. \A s \in Sessions : \A k \in DOMAIN toClient[s] : toClient[s][k].of[1] = s
      <3>1. \A s \in Sessions : DOMAIN toClient[s] = 1..Len(toClient[s])
        BY DEF IInv, TypeOK
      <3> QED
        BY <3>1 DEF OnceInv, ToOwn
    <2> QED
      BY <2>1, <2>2 DEF OneAnswerEach
  <1> QED
    BY Invariance, OnePlaceEach, <1>1, PTL

-----------------------------------------------------------------------------
(* RequestService                                                          *)

ServiceSame == UNCHANGED <<Issued, Pending, Accepted, Answered, logged, Running>>

\* A server that has stopped has no threads.
LEMMA StoppedIsStill ==
    ASSUME IInv, acceptAt = "exited"
    PROVE  /\ Accepted = {}
           /\ \A s \in Sessions : ~ReaderStep(s)
           /\ \A w \in Workers : ~WorkerStep(w)
  <1>1. poolSize = 0 /\ \A s \in Sessions : readerAt[s] \in {"none", "ended"}
    BY DEF IInv, Acceptor
  <1>2. \A w \in Workers : task[w] = NoTask /\ ~(w <= poolSize)
    BY <1>1, Numbers DEF IInv, Pooling, Workers
  <1>3. queue = <<>>
    BY <1>1, Numbers DEF IInv, Pooling
  <1>4. Queuing = {} /\ Busy = {}
    <2>1. \A k : k \notin 1..Len(<<>>)
      OBVIOUS
    <2> QED
      BY <1>2, <1>3, <2>1 DEF Queuing, Members, Busy
  <1>5. \A s \in Sessions : ~ReaderStep(s)
    BY <1>1 DEF ReaderStep, ReaderLoop, ReaderReads, ReaderReadFails, ReaderSubmits, ReaderRejected,
       ReaderCannotSubmit, ReaderLocks, ReaderAnswers, ReaderCannotAnswer, ReaderFarewell,
       ReaderFarewellFails, ReaderSleeps, ReaderFrees, ReaderCloses, ReaderGoes
  <1>6. \A w \in Workers : ~WorkerStep(w)
    BY <1>2 DEF WorkerStep, WorkerTakes, WorkerReturns, WorkerThrows, WorkerLocks, WorkerAnswers,
       WorkerCannotAnswer, WorkerGoes
  <1> QED
    BY <1>4, <1>5, <1>6 DEF Accepted

\* Nothing else ends with a process that ends.
LEMMA ExitTakesNothing ==
    ASSUME IInv, ProcessExits
    PROVE  Accepted = {}
  <1>1. queue = <<>> /\ \A w \in Workers : task[w] = NoTask
    BY Numbers DEF ProcessExits, IInv, Pooling, Workers
  <1>2. \A k : k \notin 1..Len(<<>>)
    OBVIOUS
  <1> QED
    BY <1>1, <1>2 DEF Accepted, Queuing, Members, Busy

\* Accept loop, RequestReaders and pool threads do what a service promises its clients: a
\* request is accepted or refused once, what was accepted is answered or fails once, and
\* the process does not end before that (RequestReader.java 31-92,
\* MyThreadPoolExecutor.java 21-42, PipeServer.java 37-44).
THEOREM ServerImplementsService == Spec => ImplementsService
  <1>1. Init => Service!Init
    <2> SUFFICES ASSUME Init
                 PROVE  Service!Init
      OBVIOUS
    <2>1. /\ queue = <<>> /\ answers = [r \in Requests |-> 0]
          /\ toServer = [s \in Sessions |-> <<>>] /\ sent = [s \in Sessions |-> 0]
          /\ task = [w \in Workers |-> NoTask] /\ readerAt = [s \in Sessions |-> "none"]
      BY DEF Init
    <2>2. \A k : k \notin 1..Len(<<>>)
      OBVIOUS
    <2>3. Pending = {} /\ Accepted = {} /\ Answered = {}
      BY <2>1, <2>2, Pairs DEF Pending, Accepted, Piped, Held, InHand, Queuing, Busy, Answered,
         Members
    <2>4. Issued = {}
      <3> SUFFICES ASSUME NEW r \in Requests PROVE ~(r[2] <= sent[r[1]])
        BY DEF Issued
      <3> QED
        BY <2>1, Pairs, Numbers
    <2> QED
      BY <2>3, <2>4 DEF Init, Service!Init, Running
  <1>2. IInv /\ OnceInv /\ [Next]_vars => [Service!Next]_(Service!vars)
    <2> SUFFICES ASSUME IInv, OnceInv, [Next]_vars
                 PROVE  Service!Next \/ ServiceSame
      BY DEF Service!vars, ServiceSame
    <2>0. /\ Pending \subseteq Requests /\ Accepted \subseteq Requests
      BY DEF Pending, Piped, Held, Accepted, Queuing, Busy, Members, IInv, TypeOK
    <2>1. CASE UNCHANGED vars
      <3>1. UNCHANGED <<acceptAt, hand, readerAt, queue, task, logged, answers, toServer, sent>>
        BY <2>1 DEF vars, acceptVars, readerVars, poolVars, record, clientVars
      <3> QED
        BY <3>1 DEF ServiceSame, Issued, Pending, Accepted, Running, Piped, Held, InHand, Queuing,
           Busy, Answered, Members
    <2>2. CASE \/ CommandFails \/ Terminates
               \/ \E s \in Sessions, kind \in {"tcp", "fifo"} :
                    Connect(s, kind) \/ ConnectFails(s, kind)
      <3>1. Running' = Running
        BY <2>2 DEF Running, CommandFails, Terminates, Shutdown, TerminateMark,
           TerminateInterrupt, Connect, ConnectFails, Connects
      <3> QED
        BY <2>2, <3>1, AcceptMoves DEF Service!Next, Service!Drop, Issued, Pending, Accepted
    <2>3. CASE ProcessExits
      <3>1. Running /\ Running' = FALSE
        BY <2>3 DEF Running, ProcessExits
      <3> QED
        BY <2>3, <3>1, AcceptMoves, ExitTakesNothing DEF Service!Next, Service!Stop, Issued,
           Pending, Accepted
    <2>4. ASSUME NEW s \in Sessions, ReaderStep(s)
          PROVE  Service!Next
      <3>1. Running /\ UNCHANGED <<Running, Issued>>
        <4>1. UNCHANGED <<acceptAt, sent>>
          BY <2>4 DEF ReaderStep, ReaderLoop, ReaderReads, ReaderReadFails, ReaderSubmits,
             ReaderRejected, ReaderCannotSubmit, ReaderLocks, ReaderAnswers, ReaderCannotAnswer,
             ReaderFarewell, ReaderFarewellFails, ReaderSleeps, ReaderFrees, ReaderCloses,
             notReader, acceptVars, clientVars
        <4> QED
          BY <2>4, <4>1, StoppedIsStill DEF Running, Issued
      <3>2. CASE Pending' \subseteq Pending /\ UNCHANGED <<Accepted, Answered, logged>>
        BY <3>1, <3>2 DEF Service!Next, Service!Drop
      <3>3. ASSUME NEW i \in Pending, Pending' = Pending \ {i}, UNCHANGED logged,
                   \/ Accepted' = Accepted \cup {i} /\ UNCHANGED Answered
                   \/ Answered' = Answered \cup {i} /\ UNCHANGED Accepted
            PROVE  Service!Next
        <4>1. Service!Accept(i) \/ Service!Refuse(i)
          BY <3>1, <3>3 DEF Service!Accept, Service!Refuse
        <4> QED
          BY <2>0, <4>1 DEF Service!Next
      <3> QED
        BY <2>4, <3>2, <3>3, OnceReader
    <2>5. ASSUME NEW w \in Workers, WorkerStep(w)
          PROVE  Service!Next \/ ServiceSame
      <3>1. Running /\ UNCHANGED <<Running, Issued>>
        <4>1. UNCHANGED <<acceptAt, sent>>
          BY <2>5 DEF WorkerStep, WorkerTakes, WorkerReturns, WorkerThrows, WorkerLocks,
             WorkerAnswers, WorkerCannotAnswer, notWorker, acceptVars, clientVars
        <4> QED
          BY <2>5, <4>1, StoppedIsStill DEF Running, Issued
      <3>2. Pending' = Pending
        BY <2>5, OnceWorker DEF Pending
      <3>3. CASE UNCHANGED <<Accepted, Answered, logged>>
        BY <3>1, <3>2, <3>3 DEF ServiceSame
      <3>4. ASSUME NEW i \in Accepted, Accepted' = Accepted \ {i},
                   \/ Answered' = Answered \cup {i} /\ UNCHANGED logged
                   \/ logged' = logged \cup {i} /\ UNCHANGED Answered
            PROVE  Service!Next
        <4>1. Service!Answer(i) \/ Service!Fail(i)
          BY <3>1, <3>2, <3>4 DEF Service!Answer, Service!Fail
        <4> QED
          BY <2>0, <4>1 DEF Service!Next
      <3> QED
        BY <2>5, <3>3, <3>4, OnceWorker
    <2>6. ASSUME NEW s \in Sessions, ClientSends(s) \/ ClientCloses(s) \/ ClientReads(s) \/ ClientGone(s)
          PROVE  Service!Next \/ ServiceSame
      <3>1. Running' = Running
        BY <2>6 DEF Running, ClientSends, ClientCloses, ClientReads, ClientGone, notClient, acceptVars
      <3>2. UNCHANGED <<Held, Accepted, Answered, logged>>
        BY <2>6, OnceClient DEF Accepted
      <3>3. CASE UNCHANGED <<Piped, sent>>
        BY <3>1, <3>2, <3>3 DEF ServiceSame, Issued, Pending
      <3>4. ASSUME NEW r \in Requests \ Issued, Piped' = Piped \cup {r}, Issued' = Issued \cup {r}
            PROVE  Service!Next
        <4>1. Service!Send(r)
          BY <3>1, <3>2, <3>4 DEF Service!Send, Pending
        <4> QED
          BY <4>1 DEF Service!Next
      <3> QED
        BY <2>6, <3>3, <3>4, OnceClient
    <2> QED
      BY <2>1, <2>2, <2>3, <2>4, <2>5, <2>6 DEF Next
  <1> QED
    BY <1>1, <1>2, Invariance, OnePlaceEach, PTL DEF Spec, ImplementsService, Service!Spec
=============================================================================
