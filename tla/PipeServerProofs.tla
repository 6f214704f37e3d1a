-------------------------- MODULE PipeServerProofs --------------------------
(***************************************************************************)
(* Invariants of PipeServer for every number of clients, pool threads and  *)
(* FIFOs, and for every bound.                                             *)
(*                                                                         *)
(* FifosReturned is not inductive: it needs to know that only an interrupt *)
(* takes the write channel from a RequestReader, and that only a           *)
(* terminated one is interrupted.  NoLostWork needs to know that work      *)
(* means threads, and that a process that has ended has no RequestReader   *)
(* to submit more.                                                         *)
(***************************************************************************)
EXTENDS PipeServer, TLAPS

\* The accept loop: whom it terminates, and what the end of the process leaves.
Acceptor ==
    /\ acceptAt \in {"mark", "interrupt"} => managed # <<>>
    /\ acceptAt = "interrupt" => ~mustRun[Head(managed)]
    /\ acceptAt = "exited" => poolSize = 0 /\ \A s \in Sessions : readerAt[s] \in {"none", "ended"}

\* A RequestReader: it has read what it submits or refuses, it is interrupted only
\* when terminated, it loses its FIFO for writing only when interrupted, and it has
\* freed its FIFOs before it closes the pipe.
Reading ==
    \A s \in Sessions :
        /\ readerAt[s] \in {"submit", "exception", "answering"} => hand[s] \in 1..MaxRequests
        /\ interrupted[s] => ~mustRun[s]
        /\ transport[s] = "none" => readerAt[s] = "none"
        /\ s \in fifosHeld => transport[s] = "fifo" /\ readerAt[s] # "close"
        /\ transport[s] = "fifo" /\ readerAt[s] \notin {"none", "ended"} /\ "write" \notin open[s]
             => interrupted[s]

\* The pool: a thread that was started has a task unless it is idle, and tasks wait
\* only behind core threads.
Pooling ==
    /\ \A w \in Workers : /\ workerAt[w] = "idle" <=> task[w] = NoTask
                          /\ w > poolSize => workerAt[w] = "idle"
    /\ queue # <<>> => poolSize >= CorePool

IInv == TypeOK /\ Acceptor /\ Reading /\ Pooling /\ FifosReturned

-----------------------------------------------------------------------------
(* Lemmas about sequences and bounds.                                      *)

LEMMA AppendType ==
    ASSUME NEW S, NEW q \in Seq(S), NEW e \in S
    PROVE  /\ Append(q, e) \in Seq(S) /\ Len(Append(q, e)) = Len(q) + 1
           /\ Len(Append(q, e)) \in Nat /\ Append(q, e) # <<>>
  <1>1. Append(q, e) \in Seq(S) /\ Len(Append(q, e)) = Len(q) + 1 /\ Len(q) \in Nat
    OBVIOUS
  <1>2. Append(q, e) # <<>>
    BY <1>1, Len(<<>>) = 0
  <1> QED
    BY <1>1, <1>2

LEMMA TailType ==
    ASSUME NEW S, NEW q \in Seq(S), q # <<>>
    PROVE  /\ Head(q) \in S /\ Tail(q) \in Seq(S)
           /\ Len(Tail(q)) = Len(q) - 1 /\ Len(q) \in Nat /\ Len(q) > 0
  OBVIOUS

LEMMA Numbers ==
    /\ MaxPool \in Nat /\ CorePool \in Nat /\ 0 < CorePool /\ CorePool <= MaxPool
    /\ QueueCap \in Nat /\ WireCap \in Nat /\ MaxRequests \in Nat
    /\ 0 < QueueCap /\ 0 < WireCap
  BY ServerAssumption

\* A request is a pair, so it is not the mark of an idle thread.
LEMMA RequestIsTask ==
    ASSUME NEW r \in Requests
    PROVE  r # NoTask /\ r[1] \in Sessions
  <1>1. PICK s \in Sessions, n \in 1..MaxRequests : r = <<s, n>>
    BY DEF Requests
  <1> QED
    BY <1>1 DEF NoTask

-----------------------------------------------------------------------------
(* Lemmas about the operators the actions share.                           *)

\* A write adds one message to one pipe, within its bound.
LEMMA PutType ==
    ASSUME TypeOK, NEW s \in Sessions, NEW k \in {"reply", "exception", "eos"},
           NEW r \in Sessions \X (0..MaxRequests), CanWrite(s), Put(s, k, r)
    PROVE  /\ toClient' \in [Sessions -> Seq(Responses)]
           /\ \A t \in Sessions : Len(toClient'[t]) <= WireCap
  <1> DEFINE m == [kind |-> k, of |-> r]
  <1>1. m \in Responses
    BY DEF Responses
  <1>2. toClient[s] \in Seq(Responses) /\ Len(toClient[s]) < WireCap
    BY DEF TypeOK, CanWrite
  <1>3. Append(toClient[s], m) \in Seq(Responses) /\ Len(Append(toClient[s], m)) <= WireCap
    BY <1>1, <1>2, Numbers
  <1>4. toClient' = [toClient EXCEPT ![s] = Append(toClient[s], m)]
    BY DEF Put
  <1> QED
    BY <1>3, <1>4 DEF TypeOK

LEMMA ReleaseType ==
    ASSUME TypeOK, NEW s \in Sessions, Release(s)
    PROVE  writeLock' \in [Sessions -> Workers \cup {NoWriter, Reader}]
  BY DEF TypeOK, Release

\* An interrupt takes channels from an interrupted RequestReader only.
LEMMA InterruptType ==
    ASSUME TypeOK, NEW s \in Sessions, NEW dir, Interrupt(s, dir)
    PROVE  /\ open' \in [Sessions -> SUBSET {"read", "write"}]
           /\ \A t \in Sessions : open'[t] = open[t] \/ (t = s /\ interrupted[s])
  <1> DEFINE D == SUBSET {"read", "write"}
             c == IF ~interrupted[s] THEN open[s]
                  ELSE IF transport[s] = "tcp" THEN {} ELSE open[s] \ {dir}
  <1>1. c \in D /\ (c = open[s] \/ interrupted[s])
    BY DEF TypeOK
  <1>2. open' = [open EXCEPT ![s] = c] /\ open \in [Sessions -> D]
    BY DEF TypeOK, Interrupt
  <1> HIDE DEF c, D
  <1>3. open' \in [Sessions -> D] /\ \A t \in Sessions : open'[t] = open[t] \/ (t = s /\ interrupted[s])
    BY <1>1, <1>2
  <1> QED
    BY <1>3 DEF D

\* execute() puts the request with a new thread or into the queue.
LEMMA SubmitType ==
    ASSUME TypeOK, Pooling, NEW r \in Requests, Submit(r)
    PROVE  /\ poolSize' \in 0..MaxPool
           /\ queue' \in Seq(Requests) /\ Len(queue') <= QueueCap
           /\ workerAt' \in [Workers -> {"idle", "running", "lock", "writing"}]
           /\ task' \in [Workers -> Requests \cup {NoTask}]
           /\ Pooling'
  <1>1. queue \in Seq(Requests) /\ poolSize \in 0..MaxPool /\ Len(queue) <= QueueCap
    BY DEF TypeOK
  <1>2. CASE poolSize < MaxPool /\ StartWorker(r)
    <2>1. poolSize' = poolSize + 1 /\ poolSize' \in Workers /\ queue' = queue
      BY <1>1, <1>2, Numbers DEF StartWorker, Workers
    <2>2. /\ workerAt' = [workerAt EXCEPT ![poolSize'] = "running"]
          /\ task' = [task EXCEPT ![poolSize'] = r]
      BY <1>2 DEF StartWorker
    <2>3. \A w \in Workers : w \in Nat
      BY Numbers DEF Workers
    <2>4. /\ workerAt \in [Workers -> {"idle", "running", "lock", "writing"}]
          /\ task \in [Workers -> Requests \cup {NoTask}]
      BY DEF TypeOK
    <2>5. /\ workerAt'[poolSize'] = "running" /\ task'[poolSize'] = r
          /\ \A w \in Workers : w # poolSize' => workerAt'[w] = workerAt[w] /\ task'[w] = task[w]
      BY <2>1, <2>2, <2>4
    <2>6. ASSUME NEW w \in Workers
          PROVE  /\ workerAt'[w] = "idle" <=> task'[w] = NoTask
                 /\ w > poolSize' => workerAt'[w] = "idle"
      <3>1. CASE w = poolSize'
        <4>1. w \in Nat /\ r # NoTask
          BY <2>3, RequestIsTask
        <4>2. workerAt'[w] = "running" /\ task'[w] = r
          BY <3>1, <2>5
        <4>3. ~(w > poolSize')
          BY <3>1, <4>1
        <4> QED
          BY <4>1, <4>2, <4>3
      <3>2. CASE w # poolSize'
        <4>1. workerAt'[w] = workerAt[w] /\ task'[w] = task[w]
          BY <3>2, <2>5
        <4>2. w > poolSize' => w > poolSize
          BY <1>1, <2>1, <2>3, Numbers
        <4>3. /\ workerAt[w] = "idle" <=> task[w] = NoTask
              /\ w > poolSize => workerAt[w] = "idle"
          BY DEF Pooling
        <4> QED
          BY <4>1, <4>2, <4>3
      <3> QED
        BY <3>1, <3>2
    <2>7. queue' # <<>> => poolSize' >= CorePool
      BY <1>1, <2>1, Numbers DEF Pooling
    <2>8. poolSize' \in 0..MaxPool
      BY <1>1, <1>2, <2>1, Numbers
    <2>9. /\ workerAt' \in [Workers -> {"idle", "running", "lock", "writing"}]
          /\ task' \in [Workers -> Requests \cup {NoTask}]
      BY <2>1, <2>2, <2>4
    <2> QED
      BY <1>1, <2>1, <2>6, <2>7, <2>8, <2>9 DEF Pooling
  <1>3. CASE poolSize >= CorePool /\ Len(queue) < QueueCap /\ Enqueue(r)
    <2>1. queue' = Append(queue, r) /\ UNCHANGED <<poolSize, workerAt, task>>
      BY <1>3 DEF Enqueue
    <2>2. queue' \in Seq(Requests) /\ Len(queue') = Len(queue) + 1
      BY <1>1, <2>1, AppendType
    <2>3. Len(queue') <= QueueCap
      BY <1>1, <1>3, <2>2, Numbers
    <2>4. Pooling'
      BY <1>3, <2>1 DEF Pooling
    <2> QED
      BY <2>1, <2>2, <2>3, <2>4 DEF TypeOK
  <1>4. poolSize < CorePool => poolSize < MaxPool
    BY <1>1, Numbers
  <1> QED
    BY <1>2, <1>3, <1>4 DEF Submit

\* A request in a RequestReader's hands is one of its client's.
LEMMA HandType ==
    ASSUME TypeOK, Reading, NEW s \in Sessions,
           readerAt[s] \in {"submit", "exception", "answering"}
    PROVE  /\ <<s, hand[s]>> \in Requests
           /\ <<s, hand[s]>> \in Sessions \X (0..MaxRequests)
  BY Numbers DEF TypeOK, Reading, Requests

-----------------------------------------------------------------------------
(* The actions.                                                            *)

LEMMA InitIInv == Init => IInv
  <1> SUFFICES ASSUME Init PROVE IInv
    OBVIOUS
  <1>1. TypeOK
    BY Numbers DEF Init, TypeOK, NoTask, NoWriter, Eos, ReaderPlaces
  <1> QED
    BY <1>1, Numbers DEF Init, IInv, Acceptor, Reading, Pooling, FifosReturned

\* The accept loop.
LEMMA AcceptKeeps ==
    ASSUME IInv,
           CommandFails \/ Terminates \/ ProcessExits
             \/ \E s \in Sessions, k \in {"tcp", "fifo"} : Connect(s, k) \/ ConnectFails(s, k)
    PROVE  IInv'
  <1> USE DEF IInv, notAccept, poolVars, record, pipeVars, threadVars
  <1>1. CASE CommandFails
    <2>1. TypeOK'
      BY <1>1, TailType DEF CommandFails, TypeOK, ReaderPlaces
    <2>2. Acceptor' /\ Reading' /\ Pooling' /\ FifosReturned'
      BY <1>1, TailType DEF CommandFails, TypeOK, Acceptor, Reading, Pooling, FifosReturned
    <2> QED
      BY <2>1, <2>2
  <1>2. CASE Shutdown
    <2>1. TypeOK'
      BY <1>2, TailType DEF Shutdown, TypeOK, ReaderPlaces
    <2>2. Acceptor' /\ Reading' /\ Pooling' /\ FifosReturned'
      BY <1>2, TailType DEF Shutdown, TypeOK, Acceptor, Reading, Pooling, FifosReturned
    <2> QED
      BY <2>1, <2>2
  <1>3. CASE TerminateMark
    <2>1. Head(managed) \in Sessions
      BY <1>3, TailType DEF TerminateMark, TypeOK, Acceptor
    <2>2. TypeOK'
      BY <1>3, <2>1 DEF TerminateMark, TypeOK
    <2>3. Reading'
      BY <1>3, <2>1 DEF TerminateMark, TypeOK, Reading
    <2>4. Acceptor' /\ Pooling' /\ FifosReturned'
      BY <1>3, <2>1 DEF TerminateMark, TypeOK, Acceptor, Pooling, FifosReturned
    <2> QED
      BY <2>2, <2>3, <2>4
  <1>4. CASE TerminateInterrupt
    <2> DEFINE h == Head(managed)
    <2>1. h \in Sessions /\ Tail(managed) \in Seq(Sessions) /\ ~mustRun[h]
      BY <1>4, TailType DEF TerminateInterrupt, TypeOK, Acceptor
    <2>2. interrupted' = [interrupted EXCEPT ![h] = readerAt[h] # "ended"]
      BY <1>4 DEF TerminateInterrupt
    <2>3. interrupted' \in [Sessions -> BOOLEAN]
      BY <2>1, <2>2 DEF TypeOK
    <2>4. TypeOK'
      BY <1>4, <2>1, <2>3 DEF TerminateInterrupt, TypeOK
    <2>5. /\ interrupted'[h] <=> readerAt[h] # "ended"
          /\ \A t \in Sessions : t # h => interrupted'[t] = interrupted[t]
      BY <2>1, <2>2 DEF TypeOK
    <2>6. Reading'
      BY <1>4, <2>1, <2>5 DEF TerminateInterrupt, Reading
    <2>7. Acceptor' /\ Pooling' /\ FifosReturned'
      BY <1>4 DEF TerminateInterrupt, Acceptor, Pooling, FifosReturned
    <2> QED
      BY <2>4, <2>6, <2>7
  <1>5. CASE ProcessExits
    <2>1. TypeOK'
      BY <1>5, TailType DEF ProcessExits, TypeOK, ReaderPlaces
    <2>2. Acceptor' /\ Reading' /\ Pooling' /\ FifosReturned'
      BY <1>5, TailType DEF ProcessExits, TypeOK, Acceptor, Reading, Pooling, FifosReturned
    <2> QED
      BY <2>1, <2>2
  <1>6. ASSUME NEW s \in Sessions, NEW k \in {"tcp", "fifo"}, Connect(s, k)
        PROVE  IInv'
    <2>1. TypeOK'
      BY <1>6, AppendType DEF Connect, Connects, TypeOK, ReaderPlaces
    <2>2. Acceptor' /\ Reading' /\ Pooling' /\ FifosReturned'
      BY <1>6, AppendType DEF Connect, Connects, TypeOK, Acceptor, Reading, Pooling,
                              FifosReturned
    <2> QED
      BY <2>1, <2>2
  <1>7. ASSUME NEW s \in Sessions, NEW k \in {"tcp", "fifo"}, ConnectFails(s, k)
        PROVE  IInv'
    <2> USE <1>7 DEF ConnectFails, Connects
    <2>1. CASE k = "tcp"
      <3>1. UNCHANGED <<readerAt, managed, fifosHeld, open>>
        BY <2>1
      <3>2. TypeOK'
        BY <3>1 DEF TypeOK
      <3>3. Acceptor' /\ Reading' /\ Pooling' /\ FifosReturned'
        BY <2>1, <3>1 DEF TypeOK, Acceptor, Reading, Pooling, FifosReturned
      <3> QED
        BY <3>2, <3>3
    <2>2. CASE k = "fifo"
      <3>1. /\ readerAt' = [readerAt EXCEPT ![s] = "loop"]
            /\ managed' = Append(managed, s)
            /\ fifosHeld' = fifosHeld \cup {s}
            /\ open' = [open EXCEPT ![s] = {"read", "write"}]
        BY <2>2
      <3>2. TypeOK'
        BY <3>1, AppendType DEF TypeOK, ReaderPlaces
      <3>3. Acceptor' /\ Reading' /\ Pooling' /\ FifosReturned'
        BY <2>2, <3>1 DEF TypeOK, Acceptor, Reading, Pooling, FifosReturned
      <3> QED
        BY <3>2, <3>3
    <2> QED
      BY <2>1, <2>2
  <1> QED
    BY <1>1, <1>2, <1>3, <1>4, <1>5, <1>6, <1>7 DEF Terminates

\* What a step of one RequestReader has to respect.
LEMMA ReaderMoves ==
    ASSUME IInv, NEW s \in Sessions, NEW to \in ReaderPlaces,
           readerAt[s] \notin {"none", "ended"}, to # "none",
           readerAt' = [readerAt EXCEPT ![s] = to],
           UNCHANGED <<acceptAt, managed, transport, mustRun, interrupted>>,
           \A t \in Sessions : t # s => hand'[t] = hand[t] /\ open'[t] = open[t],
           to \in {"submit", "exception", "answering"} => hand'[s] \in 1..MaxRequests,
           to # "ended" => open'[s] = open[s] \/ interrupted[s],
           fifosHeld' \subseteq fifosHeld,
           s \in fifosHeld' => to # "close" /\ (to = "ended" => ~mustRun[s])
    PROVE  readerAt' \in [Sessions -> ReaderPlaces] /\ Acceptor' /\ Reading' /\ FifosReturned'
  <1>1. readerAt \in [Sessions -> ReaderPlaces]
    BY DEF IInv, TypeOK
  <1>2. readerAt'[s] = to /\ \A t \in Sessions : t # s => readerAt'[t] = readerAt[t]
    BY <1>1
  <1>3. transport[s] # "none" /\ acceptAt # "exited"
    BY DEF IInv, Reading, Acceptor
  <1>4. Acceptor'
    BY <1>3 DEF IInv, Acceptor
  <1>5. ASSUME NEW t \in Sessions
        PROVE  /\ readerAt'[t] \in {"submit", "exception", "answering"}
                    => hand'[t] \in 1..MaxRequests
               /\ transport'[t] = "none" => readerAt'[t] = "none"
               /\ t \in fifosHeld' => transport'[t] = "fifo" /\ readerAt'[t] # "close"
               /\ transport'[t] = "fifo" /\ readerAt'[t] \notin {"none", "ended"}
                    /\ "write" \notin open'[t] => interrupted'[t]
    <2>1. CASE t = s
      BY <2>1, <1>2, <1>3 DEF IInv, Reading
    <2>2. CASE t # s
      BY <2>2, <1>2 DEF IInv, Reading
    <2> QED
      BY <2>1, <2>2
  <1>6. Reading'
    BY <1>5 DEF IInv, Reading
  <1>7. FifosReturned'
    BY <1>2 DEF IInv, TypeOK, FifosReturned
  <1> QED
    BY <1>1, <1>4, <1>6, <1>7

\* RequestReader.run().
LEMMA ReaderKeeps ==
    ASSUME IInv, NEW s \in Sessions, ReaderStep(s)
    PROVE  IInv'
  <1> USE DEF notReader, acceptVars, threadVars, clientVars, poolVars, record, pipeVars, ReaderGoes
  <1>1. /\ TypeOK /\ Acceptor /\ Reading /\ Pooling /\ FifosReturned
        /\ readerAt \in [Sessions -> ReaderPlaces]
        /\ hand \in [Sessions -> 0..MaxRequests]
        /\ mustRun[s] \in BOOLEAN /\ interrupted[s] \in BOOLEAN
        /\ interrupted[s] => ~mustRun[s]
        /\ s \in fifosHeld => transport[s] = "fifo"
    BY DEF IInv, TypeOK, Reading
  <1>2. 0 \in 0..MaxRequests
    BY Numbers
  <1>3. CASE ReaderLoop(s)
    <2>1. readerAt' \in [Sessions -> ReaderPlaces] /\ Acceptor' /\ Reading' /\ FifosReturned'
      BY <1>3, <1>1, ReaderMoves DEF ReaderLoop, ReaderPlaces
    <2>2. TypeOK'
      BY <1>3, <1>1, <2>1 DEF ReaderLoop, TypeOK
    <2> QED
      BY <1>3, <1>1, <2>1, <2>2 DEF ReaderLoop, Pooling, IInv
  <1>4. CASE ReaderReads(s)
    <2>1. /\ Head(toServer[s]) \in 0..MaxRequests
          /\ toServer' \in [Sessions -> Seq(0..MaxRequests)]
          /\ \A t \in Sessions : Len(toServer'[t]) <= WireCap
          /\ hand' \in [Sessions -> 0..MaxRequests]
          /\ \A t \in Sessions : t # s => hand'[t] = hand[t]
          /\ Head(toServer[s]) # Eos => hand'[s] \in 1..MaxRequests
      <3>1. toServer[s] \in Seq(0..MaxRequests) /\ Len(toServer[s]) <= WireCap
        BY DEF IInv, TypeOK
      <3>2. /\ Head(toServer[s]) \in 0..MaxRequests
            /\ Tail(toServer[s]) \in Seq(0..MaxRequests) /\ Len(Tail(toServer[s])) <= WireCap
        <4> DEFINE q == toServer[s]
                   N == 0..MaxRequests
        <4>1. q # <<>>
          BY <1>4 DEF ReaderReads
        <4>2. q \in Seq(N) /\ Len(q) <= WireCap
          BY <3>1
        <4> HIDE DEF q, N
        <4>3. Head(q) \in N /\ Tail(q) \in Seq(N) /\ Len(Tail(q)) <= WireCap
          BY <4>1, <4>2, TailType, Numbers
        <4> QED
          BY <4>3 DEF q, N
      <3>3. Head(toServer[s]) # Eos => Head(toServer[s]) \in 1..MaxRequests
        BY <3>2, Numbers DEF Eos
      <3> QED
        BY <1>4, <1>1, <3>2, <3>3 DEF ReaderReads, TypeOK
    <2>2. readerAt' \in [Sessions -> ReaderPlaces] /\ Acceptor' /\ Reading' /\ FifosReturned'
      BY <1>4, <1>1, ReaderMoves, <2>1 DEF ReaderReads, ReaderPlaces
    <2>3. TypeOK'
      BY <1>4, <1>1, <2>2, <2>1 DEF ReaderReads, TypeOK
    <2> QED
      BY <1>4, <1>1, <2>2, <2>3 DEF ReaderReads, Pooling, IInv
  <1>5. CASE ReaderReadFails(s)
    <2>1. /\ open' \in [Sessions -> SUBSET {"read", "write"}]
          /\ \A t \in Sessions : open'[t] = open[t] \/ (t = s /\ interrupted[s])
      BY <1>5, <1>1, InterruptType DEF ReaderReadFails
    <2>2. readerAt' \in [Sessions -> ReaderPlaces] /\ Acceptor' /\ Reading' /\ FifosReturned'
      BY <1>5, <1>1, ReaderMoves, <2>1 DEF ReaderReadFails, ReaderPlaces
    <2>3. TypeOK'
      BY <1>5, <1>1, <2>2, <2>1 DEF ReaderReadFails, TypeOK
    <2> QED
      BY <1>5, <1>1, <2>2, <2>3 DEF ReaderReadFails, Pooling, IInv
  <1>6. CASE ReaderSubmits(s)
    <2>1. /\ hand' \in [Sessions -> 0..MaxRequests]
          /\ \A t \in Sessions : t # s => hand'[t] = hand[t]
      BY <1>6, <1>1, <1>2 DEF ReaderSubmits, Eos
    <2>2. /\ poolSize' \in 0..MaxPool
          /\ queue' \in Seq(Requests) /\ Len(queue') <= QueueCap
          /\ workerAt' \in [Workers -> {"idle", "running", "lock", "writing"}]
          /\ task' \in [Workers -> Requests \cup {NoTask}]
          /\ Pooling'
      BY <1>6, <1>1, HandType, SubmitType DEF ReaderSubmits
    <2>3. readerAt' \in [Sessions -> ReaderPlaces] /\ Acceptor' /\ Reading' /\ FifosReturned'
      BY <1>6, <1>1, ReaderMoves, <2>1 DEF ReaderSubmits, ReaderPlaces
    <2>4. TypeOK'
      BY <1>6, <1>1, <2>3, <2>1, <2>2 DEF ReaderSubmits, TypeOK
    <2> QED
      BY <1>6, <1>1, <2>3, <2>4, <2>2 DEF ReaderSubmits, Pooling, IInv
  <1>7. CASE ReaderRejected(s)
    <2>1. readerAt' \in [Sessions -> ReaderPlaces] /\ Acceptor' /\ Reading' /\ FifosReturned'
      BY <1>7, <1>1, ReaderMoves DEF ReaderRejected, ReaderPlaces, Reading
    <2>2. TypeOK'
      BY <1>7, <1>1, <2>1 DEF ReaderRejected, TypeOK
    <2> QED
      BY <1>7, <1>1, <2>1, <2>2 DEF ReaderRejected, Pooling, IInv
  <1>8. CASE ReaderCannotSubmit(s)
    <2>1. readerAt' \in [Sessions -> ReaderPlaces] /\ Acceptor' /\ Reading' /\ FifosReturned'
      BY <1>8, <1>1, ReaderMoves DEF ReaderCannotSubmit, ReaderPlaces, Reading
    <2>2. TypeOK'
      BY <1>8, <1>1, <2>1 DEF ReaderCannotSubmit, TypeOK
    <2> QED
      BY <1>8, <1>1, <2>1, <2>2 DEF ReaderCannotSubmit, Pooling, IInv
  <1>9. CASE ReaderLocks(s)
    <2>1. writeLock' \in [Sessions -> Workers \cup {NoWriter, Reader}]
      BY <1>9, <1>1 DEF ReaderLocks, TypeOK
    <2>2. readerAt' \in [Sessions -> ReaderPlaces] /\ Acceptor' /\ Reading' /\ FifosReturned'
      BY <1>9, <1>1, ReaderMoves DEF ReaderLocks, ReaderPlaces, Reading
    <2>3. TypeOK'
      BY <1>9, <1>1, <2>2, <2>1 DEF ReaderLocks, TypeOK
    <2> QED
      BY <1>9, <1>1, <2>2, <2>3 DEF ReaderLocks, Pooling, IInv
  <1>10. CASE ReaderAnswers(s)
    <2>1. /\ toClient' \in [Sessions -> Seq(Responses)]
          /\ \A t \in Sessions : Len(toClient'[t]) <= WireCap
      BY <1>10, <1>1, <1>2, HandType, PutType DEF ReaderAnswers, Eos
    <2>2. writeLock' \in [Sessions -> Workers \cup {NoWriter, Reader}]
      BY <1>10, <1>1, ReleaseType DEF ReaderAnswers
    <2>3. /\ hand' \in [Sessions -> 0..MaxRequests]
          /\ \A t \in Sessions : t # s => hand'[t] = hand[t]
      BY <1>10, <1>1, <1>2 DEF ReaderAnswers, Eos
    <2>4. answers' \in [Requests -> Nat]
      BY <1>10, <1>1, HandType DEF ReaderAnswers, TypeOK
    <2>5. readerAt' \in [Sessions -> ReaderPlaces] /\ Acceptor' /\ Reading' /\ FifosReturned'
      BY <1>10, <1>1, ReaderMoves, <2>3 DEF ReaderAnswers, ReaderPlaces
    <2>6. TypeOK'
      BY <1>10, <1>1, <2>5, <2>3, <2>1, <2>2, <2>4 DEF ReaderAnswers, TypeOK
    <2> QED
      BY <1>10, <1>1, <2>5, <2>6 DEF ReaderAnswers, Pooling, IInv
  <1>11. CASE ReaderCannotAnswer(s)
    <2>1. /\ open' \in [Sessions -> SUBSET {"read", "write"}]
          /\ \A t \in Sessions : open'[t] = open[t] \/ (t = s /\ interrupted[s])
      BY <1>11, <1>1, InterruptType DEF ReaderCannotAnswer
    <2>2. writeLock' \in [Sessions -> Workers \cup {NoWriter, Reader}]
      BY <1>11, <1>1, ReleaseType DEF ReaderCannotAnswer
    <2>3. readerAt' \in [Sessions -> ReaderPlaces] /\ Acceptor' /\ Reading' /\ FifosReturned'
      BY <1>11, <1>1, ReaderMoves, <2>1 DEF ReaderCannotAnswer, ReaderPlaces
    <2>4. TypeOK'
      BY <1>11, <1>1, <2>3, <2>1, <2>2 DEF ReaderCannotAnswer, TypeOK
    <2> QED
      BY <1>11, <1>1, <2>3, <2>4 DEF ReaderCannotAnswer, Pooling, IInv
  <1>12. CASE ReaderFarewell(s)
    <2>1. /\ toClient' \in [Sessions -> Seq(Responses)]
          /\ \A t \in Sessions : Len(toClient'[t]) <= WireCap
      BY <1>12, <1>1, <1>2, PutType DEF ReaderFarewell, Eos
    <2>2. writeLock' \in [Sessions -> Workers \cup {NoWriter, Reader}]
      BY <1>12, <1>1, ReleaseType DEF ReaderFarewell
    <2>3. readerAt' \in [Sessions -> ReaderPlaces] /\ Acceptor' /\ Reading' /\ FifosReturned'
      BY <1>12, <1>1, ReaderMoves DEF ReaderFarewell, ReaderPlaces
    <2>4. TypeOK'
      BY <1>12, <1>1, <2>3, <2>1, <2>2 DEF ReaderFarewell, TypeOK
    <2> QED
      BY <1>12, <1>1, <2>3, <2>4 DEF ReaderFarewell, Pooling, IInv
  <1>13. CASE ReaderFarewellFails(s)
    <2>1. /\ open' \in [Sessions -> SUBSET {"read", "write"}]
          /\ \A t \in Sessions : open'[t] = open[t] \/ (t = s /\ interrupted[s])
      BY <1>13, <1>1, InterruptType DEF ReaderFarewellFails
    <2>2. writeLock' \in [Sessions -> Workers \cup {NoWriter, Reader}]
      BY <1>13, <1>1, ReleaseType DEF ReaderFarewellFails
    <2>3. s \in fifosHeld => ~mustRun[s]
      BY <1>13, <1>1 DEF ReaderFarewellFails, Broken, Reading
    <2>4. readerAt' \in [Sessions -> ReaderPlaces] /\ Acceptor' /\ Reading' /\ FifosReturned'
      BY <1>13, <1>1, ReaderMoves, <2>1, <2>3 DEF ReaderFarewellFails, ReaderPlaces
    <2>5. TypeOK'
      BY <1>13, <1>1, <2>4, <2>1, <2>2 DEF ReaderFarewellFails, TypeOK
    <2> QED
      BY <1>13, <1>1, <2>4, <2>5 DEF ReaderFarewellFails, Pooling, IInv
  <1>14. CASE ReaderSleeps(s)
    <2>1. readerAt' \in [Sessions -> ReaderPlaces] /\ Acceptor' /\ Reading' /\ FifosReturned'
      BY <1>14, <1>1, ReaderMoves DEF ReaderSleeps, ReaderPlaces
    <2>2. TypeOK'
      BY <1>14, <1>1, <2>1 DEF ReaderSleeps, TypeOK
    <2> QED
      BY <1>14, <1>1, <2>1, <2>2 DEF ReaderSleeps, Pooling, IInv
  <1>15. CASE ReaderFrees(s)
    <2>1. readerAt' \in [Sessions -> ReaderPlaces] /\ Acceptor' /\ Reading' /\ FifosReturned'
      BY <1>15, <1>1, ReaderMoves DEF ReaderFrees, ReaderPlaces
    <2>2. TypeOK'
      BY <1>15, <1>1, <2>1 DEF ReaderFrees, TypeOK
    <2> QED
      BY <1>15, <1>1, <2>1, <2>2 DEF ReaderFrees, Pooling, IInv
  <1>16. CASE ReaderCloses(s)
    <2>1. /\ open' \in [Sessions -> SUBSET {"read", "write"}]
          /\ \A t \in Sessions : t # s => open'[t] = open[t]
      <3> DEFINE D == SUBSET {"read", "write"}
      <3>1. {} \in D /\ open \in [Sessions -> D]
        BY <1>1 DEF TypeOK
      <3>2. open' = [open EXCEPT ![s] = {}]
        BY <1>16 DEF ReaderCloses
      <3> HIDE DEF D
      <3>3. open' \in [Sessions -> D] /\ \A t \in Sessions : t # s => open'[t] = open[t]
        BY <3>1, <3>2
      <3> QED
        BY <3>3 DEF D
    <2>2. s \notin fifosHeld
      BY <1>16, <1>1 DEF ReaderCloses, Reading
    <2>3. readerAt' \in [Sessions -> ReaderPlaces] /\ Acceptor' /\ Reading' /\ FifosReturned'
      BY <1>16, <1>1, ReaderMoves, <2>1, <2>2 DEF ReaderCloses, ReaderPlaces
    <2>4. TypeOK'
      BY <1>16, <1>1, <2>3, <2>1 DEF ReaderCloses, TypeOK
    <2> QED
      BY <1>16, <1>1, <2>3, <2>4 DEF ReaderCloses, Pooling, IInv
  <1> QED
    BY <1>3, <1>4, <1>5, <1>6, <1>7, <1>8, <1>9, <1>10, <1>11, <1>12, <1>13, <1>14, <1>15, <1>16 DEF ReaderStep

\* The pool threads.
LEMMA WorkerKeeps ==
    ASSUME IInv, NEW w \in Workers, WorkerStep(w)
    PROVE  IInv'
  <1> USE DEF IInv, notWorker, acceptVars, readerVars, threadVars, clientVars, poolVars, record,
              pipeVars, WorkerGoes
  <1>1. CASE WorkerTakes(w)
    <2>1. /\ Head(queue) \in Requests /\ Tail(queue) \in Seq(Requests)
          /\ Len(Tail(queue)) <= QueueCap /\ queue # <<>>
      <3>1. queue \in Seq(Requests) /\ Len(queue) <= QueueCap /\ queue # <<>>
        BY <1>1 DEF WorkerTakes, TypeOK
      <3> QED
        BY <3>1, TailType, Numbers
    <2>2. Head(queue) # NoTask
      BY <2>1, RequestIsTask
    <2>3. TypeOK'
      BY <1>1, <2>1 DEF WorkerTakes, TypeOK
    <2>4. Pooling'
      <3>1. /\ workerAt' = [workerAt EXCEPT ![w] = "running"] /\ w <= poolSize
            /\ task' = [task EXCEPT ![w] = Head(queue)] /\ UNCHANGED poolSize
        BY <1>1 DEF WorkerTakes
      <3>2. poolSize >= CorePool
        BY <2>1 DEF Pooling
      <3>3. ~(w > poolSize)
        BY <3>1, Numbers DEF TypeOK, Workers
      <3>4. ASSUME NEW v \in Workers
            PROVE  /\ workerAt'[v] = "idle" <=> task'[v] = NoTask
                   /\ v > poolSize' => workerAt'[v] = "idle"
        <4>1. CASE v = w
          BY <4>1, <3>1, <3>3, <2>2 DEF TypeOK
        <4>2. CASE v # w
          BY <4>2, <3>1 DEF TypeOK, Pooling
        <4> QED
          BY <4>1, <4>2
      <3> QED
        BY <3>1, <3>2, <3>4 DEF Pooling
    <2>5. Acceptor' /\ Reading' /\ FifosReturned'
      BY <1>1 DEF WorkerTakes, Acceptor, Reading, FifosReturned
    <2> QED
      BY <2>3, <2>4, <2>5
  <1>2. CASE WorkerReturns(w)
    <2>1. TypeOK'
      BY <1>2, TailType, RequestIsTask, Numbers DEF WorkerReturns, TypeOK, Pooling
    <2>2. Acceptor' /\ Reading' /\ Pooling' /\ FifosReturned'
      BY <1>2, TailType, RequestIsTask, Numbers DEF WorkerReturns, TypeOK, Acceptor, Reading, Pooling,
         FifosReturned
    <2> QED
      BY <2>1, <2>2
  <1>3. CASE WorkerThrows(w)
    <2>1. TypeOK'
      BY <1>3, TailType, RequestIsTask, Numbers DEF WorkerThrows, TypeOK, Pooling
    <2>2. Acceptor' /\ Reading' /\ Pooling' /\ FifosReturned'
      BY <1>3, TailType, RequestIsTask, Numbers DEF WorkerThrows, TypeOK, Acceptor, Reading, Pooling,
         FifosReturned
    <2> QED
      BY <2>1, <2>2
  <1>4. CASE WorkerLocks(w)
    <2>1. TypeOK'
      BY <1>4, TailType, RequestIsTask, Numbers DEF WorkerLocks, TypeOK, Pooling
    <2>2. Acceptor' /\ Reading' /\ Pooling' /\ FifosReturned'
      BY <1>4, TailType, RequestIsTask, Numbers DEF WorkerLocks, TypeOK, Acceptor, Reading, Pooling,
         FifosReturned
    <2> QED
      BY <2>1, <2>2
  <1>5. CASE WorkerAnswers(w)
    <2>1. task[w] \in Requests /\ Pipe(w) \in Sessions /\ task[w] \in Sessions \X (0..MaxRequests)
      <3>1. task[w] \in Requests
        BY <1>5 DEF WorkerAnswers, TypeOK, Pooling
      <3>2. task[w] \in Sessions \X (0..MaxRequests)
        BY <3>1, Numbers DEF Requests
      <3> QED
        BY <3>1, <3>2, RequestIsTask DEF Pipe
    <2>2. /\ toClient' \in [Sessions -> Seq(Responses)]
          /\ \A t \in Sessions : Len(toClient'[t]) <= WireCap
      BY <1>5, <2>1, PutType DEF WorkerAnswers
    <2>3. writeLock' \in [Sessions -> Workers \cup {NoWriter, Reader}]
      BY <1>5, <2>1, ReleaseType DEF WorkerAnswers
    <2>4. answers' \in [Requests -> Nat]
      BY <1>5, <2>1 DEF WorkerAnswers, TypeOK
    <2>6. TypeOK'
      BY <1>5, <2>1, <2>2, <2>3, <2>4 DEF WorkerAnswers, TypeOK
    <2>5. Acceptor' /\ Reading' /\ Pooling' /\ FifosReturned'
      BY <1>5 DEF WorkerAnswers, TypeOK, Acceptor, Reading, Pooling, FifosReturned
    <2> QED
      BY <2>5, <2>6
  <1>6. CASE WorkerCannotAnswer(w)
    <2>1. task[w] \in Requests /\ Pipe(w) \in Sessions
      <3>1. task[w] \in Requests
        BY <1>6 DEF WorkerCannotAnswer, TypeOK, Pooling
      <3> QED
        BY <3>1, RequestIsTask DEF Pipe
    <2>2. writeLock' \in [Sessions -> Workers \cup {NoWriter, Reader}]
      BY <1>6, <2>1, ReleaseType DEF WorkerCannotAnswer
    <2>3. TypeOK'
      BY <1>6, <2>1, <2>2 DEF WorkerCannotAnswer, TypeOK
    <2>4. Acceptor' /\ Reading' /\ Pooling' /\ FifosReturned'
      BY <1>6 DEF WorkerCannotAnswer, TypeOK, Acceptor, Reading, Pooling, FifosReturned
    <2> QED
      BY <2>3, <2>4
  <1> QED
    BY <1>1, <1>2, <1>3, <1>4, <1>5, <1>6 DEF WorkerStep

\* The clients.
LEMMA ClientKeeps ==
    ASSUME IInv, NEW s \in Sessions,
           ClientSends(s) \/ ClientCloses(s) \/ ClientReads(s) \/ ClientGone(s)
    PROVE  IInv'
  <1> USE DEF IInv, notClient, acceptVars, readerVars, threadVars, clientVars, poolVars, record
  <1>1. TypeOK'
    <2>1. CASE ClientSends(s)
      <3>1. sent'[s] \in 0..MaxRequests /\ sent' \in [Sessions -> 0..MaxRequests]
        BY <2>1, Numbers DEF ClientSends, TypeOK
      <3>2. toServer[s] \in Seq(0..MaxRequests) /\ Len(toServer[s]) < WireCap
        BY <2>1 DEF ClientSends, TypeOK
      <3>3. /\ Append(toServer[s], sent'[s]) \in Seq(0..MaxRequests)
            /\ Len(Append(toServer[s], sent'[s])) <= WireCap
        BY <3>1, <3>2, Numbers
      <3> QED
        BY <2>1, <3>1, <3>3 DEF ClientSends, TypeOK
    <2>2. CASE ClientCloses(s)
      <3>1. toServer[s] \in Seq(0..MaxRequests) /\ Len(toServer[s]) < WireCap
        BY <2>2 DEF ClientCloses, TypeOK
      <3>2. 0 \in 0..MaxRequests
        BY Numbers
      <3>3. /\ Append(toServer[s], 0) \in Seq(0..MaxRequests)
            /\ Len(Append(toServer[s], 0)) <= WireCap
        BY <3>1, <3>2, Numbers
      <3> QED
        BY <2>2, <3>3 DEF ClientCloses, TypeOK, Eos
    <2>3. CASE ClientReads(s)
      <3>1. toClient[s] \in Seq(Responses) /\ Len(toClient[s]) <= WireCap /\ toClient[s] # <<>>
        BY <2>3 DEF ClientReads, TypeOK
      <3>2. Tail(toClient[s]) \in Seq(Responses) /\ Len(Tail(toClient[s])) <= WireCap
        BY <3>1, TailType, Numbers
      <3> QED
        BY <2>3, <3>2 DEF ClientReads, TypeOK
    <2>4. CASE ClientGone(s)
      BY <2>4 DEF ClientGone, TypeOK
    <2> QED
      BY <2>1, <2>2, <2>3, <2>4
  <1>2. Acceptor' /\ Reading' /\ Pooling' /\ FifosReturned'
    BY DEF ClientSends, ClientCloses, ClientReads, ClientGone, Acceptor, Reading, Pooling,
           FifosReturned
  <1> QED
    BY <1>1, <1>2

\* The inductive invariant behind the theorems.
THEOREM Invariance == Spec => []IInv
  <1>1. Init => IInv
    BY InitIInv
  <1>2. IInv /\ [Next]_vars => IInv'
    <2> SUFFICES ASSUME IInv, [Next]_vars PROVE IInv'
      OBVIOUS
    <2>1. CASE UNCHANGED vars
      BY <2>1 DEF vars, acceptVars, readerVars, threadVars, poolVars, record, pipeVars,
         clientVars, IInv, TypeOK, Acceptor, Reading, Pooling, FifosReturned
    <2>2. CASE Next
      BY <2>2, AcceptKeeps, ReaderKeeps, WorkerKeeps, ClientKeeps DEF Next
    <2> QED
      BY <2>1, <2>2
  <1> QED
    BY <1>1, <1>2, PTL DEF Spec

\* Every variable stays in its domain and no queue exceeds its bound.
THEOREM TypeCorrect == Spec => []TypeOK
  <1>1. IInv => TypeOK
    BY DEF IInv
  <1> QED
    BY <1>1, Invariance, PTL

\* A RequestReader that ends while the server runs has given its FIFOs back.
THEOREM FifosComeBack == Spec => []FifosReturned
  <1>1. IInv => FifosReturned
    BY DEF IInv
  <1> QED
    BY <1>1, Invariance, PTL

\* The process does not end with accepted requests in the pool.
THEOREM WorkSurvivesMain == Spec => []NoLostWork
  <1>1. IInv => NoLostWork
    <2> SUFFICES ASSUME IInv, acceptAt = "exited", NEW r \in Requests PROVE ~InPool(r)
      BY DEF NoLostWork
    <2>1. poolSize = 0 /\ queue = <<>>
      BY Numbers DEF IInv, Acceptor, Pooling
    <2>2. \A w \in Workers : task[w] = NoTask
      BY <2>1, Numbers DEF IInv, Pooling, Workers
    <2> QED
      BY <2>1, <2>2, RequestIsTask DEF InPool, Queued, Working
  <1> QED
    BY <1>1, Invariance, PTL

-----------------------------------------------------------------------------
(* SHUTDOWN reaches every RequestReader.                                   *)

Ending(s) == readerAt[s] \in {"none", "ended"}
Told(s)   == ~mustRun[s] /\ interrupted[s]
Listed(s) == \E k \in 1..Len(managed) : managed[k] = s

\* A RequestReader that runs is still to be terminated, or it has been.
Reached ==
    /\ acceptAt = "left" => managed = <<>>
    /\ \A s \in Sessions : Ending(s) \/ Told(s) \/ Listed(s)

\* Starting a RequestReader adds it to the list, terminating takes off the first.
LEMMA ListFacts ==
    ASSUME NEW q \in Seq(Sessions)
    PROVE  /\ \A s \in Sessions :
                /\ \E k \in 1..Len(Append(q, s)) : Append(q, s)[k] = s
                /\ \A k \in 1..Len(q) : k \in 1..Len(Append(q, s)) /\ Append(q, s)[k] = q[k]
           /\ q # <<>> => \A k \in 1..Len(q) :
                q[k] = Head(q) \/ \E l \in 1..Len(Tail(q)) : Tail(q)[l] = q[k]
  <1>1. ASSUME NEW s \in Sessions
        PROVE  /\ \E k \in 1..Len(Append(q, s)) : Append(q, s)[k] = s
               /\ \A k \in 1..Len(q) : k \in 1..Len(Append(q, s)) /\ Append(q, s)[k] = q[k]
    <2>1. /\ Len(Append(q, s)) = Len(q) + 1 /\ Append(q, s)[Len(q) + 1] = s
          /\ Len(q) \in Nat /\ \A k \in 1..Len(q) : Append(q, s)[k] = q[k]
      OBVIOUS
    <2>2. Len(q) + 1 \in 1..Len(Append(q, s))
      BY <2>1
    <2> QED
      BY <2>1, <2>2
  <1>2. ASSUME q # <<>>, NEW k \in 1..Len(q), q[k] # Head(q)
        PROVE  \E l \in 1..Len(Tail(q)) : Tail(q)[l] = q[k]
    <2>1. k # 1 /\ Len(Tail(q)) = Len(q) - 1 /\ Len(q) \in Nat
      BY <1>2
    <2>2. k - 1 \in 1..Len(Tail(q))
      BY <2>1
    <2>3. Tail(q)[k - 1] = q[k]
      BY <1>2, <2>1, <2>2
    <2> QED
      BY <2>2, <2>3
  <1> QED
    BY <1>1, <1>2

\* While the list stays as it is, a RequestReader neither starts nor forgets.
LEMMA ReachedStays ==
    ASSUME Reached, UNCHANGED managed,
           acceptAt' = "left" => acceptAt = "left" \/ managed = <<>>,
           \A s \in Sessions : Ending(s) => Ending(s)',
           \A s \in Sessions : Told(s) => Told(s)'
    PROVE  Reached'
  <1>1. \A s \in Sessions : Listed(s)' <=> Listed(s)
    BY DEF Listed
  <1> QED
    BY <1>1 DEF Reached

LEMMA ReachedKept == IInv /\ Reached /\ [Next]_vars => Reached'
  <1> SUFFICES ASSUME IInv, Reached, [Next]_vars PROVE Reached'
    OBVIOUS
  <1> USE DEF Ending, Told
  <1>0. TypeOK /\ Acceptor
    BY DEF IInv
  <1>t. /\ managed \in Seq(Sessions) /\ readerAt \in [Sessions -> ReaderPlaces]
        /\ mustRun \in [Sessions -> BOOLEAN] /\ interrupted \in [Sessions -> BOOLEAN]
    BY <1>0 DEF TypeOK
  <1>1. CASE CommandFails \/ Shutdown \/ ProcessExits
    BY <1>t, <1>1, ReachedStays DEF CommandFails, Shutdown, ProcessExits, threadVars, ReaderPlaces
  <1>2. CASE TerminateMark
    <2>1. UNCHANGED <<managed, readerAt, interrupted>> /\ acceptAt' = "interrupt"
      BY <1>2 DEF TerminateMark
    <2>2. \A s \in Sessions : ~mustRun[s] => ~mustRun'[s]
      BY <1>t, <1>2 DEF TerminateMark
    <2> QED
      BY <2>1, <2>2, ReachedStays
  <1>3. CASE TerminateInterrupt
    <2>0. managed # <<>> /\ Head(managed) \in Sessions /\ ~mustRun[Head(managed)]
      BY <1>0, <1>t, <1>3, TailType DEF TerminateInterrupt, Acceptor
    <2>1. PICK h \in Sessions : h = Head(managed) /\ ~mustRun[h]
      BY <2>0
    <2>2. /\ interrupted' = [interrupted EXCEPT ![h] = readerAt[h] # "ended"]
          /\ managed' = Tail(managed) /\ (acceptAt' = "left" => managed' = <<>>)
          /\ UNCHANGED <<readerAt, mustRun>>
      BY <1>3, <2>1 DEF TerminateInterrupt
    <2>3. /\ interrupted'[h] <=> readerAt[h] # "ended"
          /\ \A s \in Sessions : s # h => interrupted'[s] = interrupted[s]
      BY <1>t, <2>1, <2>2
    <2>4. ASSUME NEW s \in Sessions, s # h, Listed(s) PROVE Listed(s)'
      <3>1. PICK k \in 1..Len(managed) : managed[k] = s
        BY <2>4 DEF Listed
      <3>2. managed[k] # Head(managed)
        BY <2>1, <2>4, <3>1
      <3>3. \E l \in 1..Len(Tail(managed)) : Tail(managed)[l] = managed[k]
        BY <1>t, <2>0, <3>2, ListFacts
      <3> QED
        BY <2>2, <3>1, <3>3 DEF Listed
    <2>5. Ending(h)' \/ Told(h)'
      BY <2>1, <2>2, <2>3
    <2>6. \A s \in Sessions : Ending(s)' \/ Told(s)' \/ Listed(s)'
      BY <2>2, <2>3, <2>4, <2>5 DEF Reached
    <2> QED
      BY <2>2, <2>6 DEF Reached
  <1>4. ASSUME NEW s \in Sessions, NEW kind \in {"tcp", "fifo"},
               Connect(s, kind) \/ ConnectFails(s, kind)
        PROVE  Reached'
    <2>0. acceptAt = "accepting" /\ acceptAt' # "left" /\ UNCHANGED <<mustRun, interrupted>>
      BY <1>4 DEF Connect, ConnectFails, Connects, threadVars
    <2>1. CASE UNCHANGED <<managed, readerAt>>
      BY <2>0, <2>1, ReachedStays
    <2>2. CASE managed' = Append(managed, s) /\ readerAt' = [readerAt EXCEPT ![s] = "loop"]
      <3>1. ASSUME NEW t \in Sessions PROVE Ending(t)' \/ Told(t)' \/ Listed(t)'
        <4>1. CASE t = s
          BY <1>t, <2>2, <4>1, ListFacts DEF Listed
        <4>2. CASE t # s /\ Listed(t)
          BY <1>t, <2>2, <4>2, ListFacts DEF Listed
        <4>3. CASE t # s /\ ~Listed(t)
          BY <1>t, <2>0, <2>2, <4>3 DEF Reached
        <4> QED
          BY <4>1, <4>2, <4>3
      <3> QED
        BY <2>0, <3>1 DEF Reached
    <2> QED
      BY <1>4, <2>1, <2>2 DEF Connect, ConnectFails
  <1>5. ASSUME NEW s \in Sessions, ReaderStep(s) PROVE Reached'
    <2>1. UNCHANGED <<acceptAt, managed, mustRun, interrupted>>
      BY <1>5 DEF ReaderStep, ReaderLoop, ReaderReads, ReaderReadFails, ReaderSubmits,
         ReaderRejected, ReaderCannotSubmit, ReaderLocks, ReaderAnswers, ReaderCannotAnswer,
         ReaderFarewell, ReaderFarewellFails, ReaderSleeps, ReaderFrees, ReaderCloses,
         notReader, acceptVars, threadVars
    <2>2. /\ readerAt[s] \notin {"none", "ended"}
          /\ \A t \in Sessions : t # s => readerAt'[t] = readerAt[t]
      BY <1>t, <1>5 DEF ReaderStep, ReaderLoop, ReaderReads, ReaderReadFails, ReaderSubmits,
         ReaderRejected, ReaderCannotSubmit, ReaderLocks, ReaderAnswers, ReaderCannotAnswer,
         ReaderFarewell, ReaderFarewellFails, ReaderSleeps, ReaderFrees, ReaderCloses,
         ReaderGoes
    <2> QED
      BY <2>1, <2>2, ReachedStays
  <1>6. CASE \/ \E w \in Workers : WorkerStep(w)
             \/ \E s \in Sessions : ClientSends(s) \/ ClientCloses(s) \/ ClientReads(s) \/ ClientGone(s)
             \/ UNCHANGED vars
    <2>1. UNCHANGED <<acceptAt, managed, mustRun, interrupted, readerAt>>
      BY <1>6 DEF WorkerStep, WorkerTakes, WorkerReturns, WorkerThrows, WorkerLocks, WorkerAnswers,
         WorkerCannotAnswer, ClientSends, ClientCloses, ClientReads, ClientGone, notWorker, notClient,
         vars, acceptVars, threadVars, readerVars
    <2> QED
      BY <2>1, ReachedStays
  <1> QED
    BY <1>1, <1>2, <1>3, <1>4, <1>5, <1>6 DEF Next, Terminates

\* When SHUTDOWN is through with managedThreads every RequestReader that has not ended was
\* told to end and interrupted, however many there are and wherever each of them was.
THEOREM ShutdownReaches == Spec => []ShutdownReachesReaders
  <1>1. Init => Reached
    BY DEF Init, Reached, Ending
  <1>2. IInv /\ Reached /\ [Next]_vars => Reached'
    BY ReachedKept
  <1>3. Reached => ShutdownReachesReaders
    <2> SUFFICES ASSUME Reached, acceptAt = "left" PROVE \A s \in Sessions : ~Listed(s)
      BY DEF Reached, ShutdownReachesReaders, Ending, Told
    <2>1. managed = <<>>
      BY DEF Reached
    <2>2. 1..Len(managed) = {}
      BY <2>1
    <2> QED
      BY <2>2 DEF Listed
  <1> QED
    BY <1>1, <1>2, <1>3, Invariance, PTL DEF Spec
=============================================================================
