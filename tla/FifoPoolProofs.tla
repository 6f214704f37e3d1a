--------------------------- MODULE FifoPoolProofs ---------------------------
(***************************************************************************)
(* The two invariants of FifoPool for every number of sessions and FIFOs.  *)
(*                                                                         *)
(* ExclusiveFifos is not inductive: nothing in it says which FIFO a        *)
(* RequestReader is about to free, or that the accept loop works on one    *)
(* connection at a time.  Allocation adds that.                            *)
(***************************************************************************)
EXTENDS FifoPoolAllocator, TLAPS

\* Who holds how many FIFOs: the session being connected one, a session whose
\* RequestReader was started two, every other session none.
Allocation ==
    /\ connecting # NoSession =>
         /\ Len(usedFifos[connecting]) = 1
         /\ readerAt[connecting] = "none"
    /\ \A s \in Sessions :
         /\ readerAt[s] # "none" => Len(usedFifos[s]) = 2
         /\ readerAt[s] = "none" /\ s # connecting => Len(usedFifos[s]) = 0
         /\ transport[s] = "none" => readerAt[s] = "none"
         /\ clientAt[s] # "none" => Len(usedFifos[s]) = 2
         /\ \A o \in Sessions : <<s, o>> \in jobs => Len(usedFifos[s]) = 2

IInv == TypeOK /\ Allocation /\ ExclusiveFifos

-----------------------------------------------------------------------------
(* Lemmas about the operators of the pool and of the kernel.               *)

\* getFreeFifo returns a FIFO whose byte was 0, or -1 when there is none.
LEMMA NextFreeIsFree ==
    ASSUME NEW f, NextFree(f), f # -1
    PROVE  f \in Fifos /\ fifoByteMap[f] = 0
  BY DEF NextFree, Candidates, FreeOnes

\* getFreeFifo sets that byte and no other.
LEMMA GetFreeFifoMarks ==
    ASSUME TypeOK, NEW f, GetFreeFifo(f), f # -1
    PROVE  /\ f \in Fifos /\ fifoByteMap[f] = 0 /\ fifoByteMap'[f] = 1
           /\ \A g \in Fifos : g # f => fifoByteMap'[g] = fifoByteMap[g]
           /\ fifoByteMap' \in [Fifos -> {0, 1}] /\ fifoByteMapPosition' \in Nat
  <1>1. f \in Fifos /\ fifoByteMap[f] = 0
    BY NextFreeIsFree DEF GetFreeFifo
  <1>2. fifoByteMap' = [fifoByteMap EXCEPT ![f] = 1] /\ fifoByteMapPosition' = f
    BY DEF GetFreeFifo
  <1>3. f \in Nat
    BY <1>1, PoolAssumption DEF Fifos
  <1> QED
    BY <1>1, <1>2, <1>3 DEF TypeOK

\* Writing to a FIFO, reading from one and forgetting the contents of closed
\* ones keep every FIFO a short sequence of messages.
LEMMA PutType ==
    ASSUME TypeOK, NEW f \in Fifos, NEW s \in Sessions, NEW k \in {"data", "eos"},
           Put(f, s, k)
    PROVE  /\ fifo' \in [Fifos -> Seq(Messages)]
           /\ \A g \in Fifos : Len(fifo'[g]) <= FifoCap
  <1> DEFINE m == [of |-> s, kind |-> k]
  <1>1. m \in Messages
    BY DEF Messages
  <1>2. fifo[f] \in Seq(Messages) /\ Len(fifo[f]) < FifoCap
    BY DEF TypeOK, Put
  <1>3. Append(fifo[f], m) \in Seq(Messages) /\ Len(Append(fifo[f], m)) <= FifoCap
    BY <1>1, <1>2, PoolAssumption
  <1>4. fifo' = [fifo EXCEPT ![f] = Append(fifo[f], m)]
    BY DEF Put
  <1> QED
    BY <1>3, <1>4 DEF TypeOK

LEMMA DropType ==
    ASSUME TypeOK, NEW f \in Fifos, fifo[f] # <<>>, Drop(f)
    PROVE  /\ fifo' \in [Fifos -> Seq(Messages)]
           /\ \A g \in Fifos : Len(fifo'[g]) <= FifoCap
           /\ Head(fifo[f]) \in Messages
  <1>1. fifo[f] \in Seq(Messages) /\ Len(fifo[f]) <= FifoCap
    BY DEF TypeOK
  <1>2. /\ Tail(fifo[f]) \in Seq(Messages) /\ Len(Tail(fifo[f])) <= FifoCap
        /\ Head(fifo[f]) \in Messages
    BY <1>1, PoolAssumption
  <1> QED
    BY <1>2 DEF TypeOK, Drop

LEMMA KeptType ==
    ASSUME TypeOK, NEW server, NEW client, fifo' = Kept(server, client)
    PROVE  /\ fifo' \in [Fifos -> Seq(Messages)]
           /\ \A g \in Fifos : Len(fifo'[g]) <= FifoCap
  <1>1. <<>> \in Seq(Messages) /\ Len(<<>>) = 0
    OBVIOUS
  <1> QED
    BY <1>1, PoolAssumption DEF TypeOK, Kept

\* The second FIFO of a session goes behind the first.
LEMMA AppendType ==
    ASSUME NEW S, NEW q \in Seq(S), NEW e \in S
    PROVE  Append(q, e) \in Seq(S) /\ Len(Append(q, e)) = Len(q) + 1
  OBVIOUS

\* A session without two FIFOs has neither a client nor jobs.
LEMMA NoPairNoWork ==
    ASSUME Allocation, NEW s \in Sessions, Len(usedFifos[s]) # 2
    PROVE  clientAt[s] = "none" /\ \A o \in Sessions : <<s, o>> \notin jobs
  BY DEF Allocation

\* A session that was given two FIFOs was given two indexes of the byte map.
LEMMA PairType ==
    ASSUME TypeOK, NEW s \in Sessions, Len(usedFifos[s]) = 2
    PROVE  RequestFifo(s) \in Fifos /\ ResponseFifo(s) \in Fifos
  <1>1. usedFifos[s] \in Seq(Fifos)
    BY DEF TypeOK
  <1> QED
    BY <1>1 DEF RequestFifo, ResponseFifo

-----------------------------------------------------------------------------
(* TypeOK and Allocation, one step per action.                             *)

\* The accept loop.
LEMMA AcceptKeepsTypes ==
    ASSUME TypeOK, Allocation,
           ConnectSecond \/ \E s \in Sessions : ConnectTcp(s) \/ ConnectFirst(s)
    PROVE  TypeOK' /\ Allocation'
  <1>1. ASSUME NEW s \in Sessions, ConnectTcp(s)
        PROVE  TypeOK' /\ Allocation'
    BY <1>1 DEF ConnectTcp, kernel, TypeOK, Allocation
  <1>2. ASSUME NEW s \in Sessions, ConnectFirst(s)
        PROVE  TypeOK' /\ Allocation'
    <2>1. PICK f \in Fifos \cup {-1} :
            /\ GetFreeFifo(f)
            /\ IF f = -1
                 THEN transport' = [transport EXCEPT ![s] = "tcp"]
                      /\ UNCHANGED <<connecting, usedFifos>>
                 ELSE connecting' = s /\ usedFifos' = [usedFifos EXCEPT ![s] = <<f>>]
                      /\ UNCHANGED transport
      BY <1>2 DEF ConnectFirst
    <2>2. CASE f = -1
      <3>1. UNCHANGED <<fifoByteMap, fifoByteMapPosition>>
        BY <2>1, <2>2 DEF GetFreeFifo
      <3>2. /\ transport' = [transport EXCEPT ![s] = "tcp"]
            /\ UNCHANGED <<connecting, usedFifos, readerAt, clientAt, sent, jobs,
                           serverOpen, clientOpen, fifo>>
        BY <1>2, <2>1, <2>2 DEF ConnectFirst, kernel
      <3>3. TypeOK'
        BY <3>1, <3>2 DEF TypeOK
      <3>4. Allocation'
        BY <3>2 DEF TypeOK, Allocation
      <3> QED
        BY <3>3, <3>4
    <2>3. CASE f # -1
      <3>1. f \in Fifos /\ fifoByteMap' \in [Fifos -> {0, 1}] /\ fifoByteMapPosition' \in Nat
        BY <2>1, <2>3, GetFreeFifoMarks
      <3>2. <<f>> \in Seq(Fifos) /\ Len(<<f>>) = 1
        BY <3>1
      <3>3. connecting = NoSession /\ transport[s] = "none" /\ s # NoSession
        BY <1>2, PoolAssumption DEF ConnectFirst
      <3>4. readerAt[s] = "none"
        BY <3>3 DEF Allocation
      <3>5. Len(usedFifos[s]) = 0
        BY <3>3, <3>4 DEF Allocation
      <3>6. connecting' = s /\ usedFifos' = [usedFifos EXCEPT ![s] = <<f>>]
            /\ UNCHANGED <<transport, readerAt, clientAt, sent, jobs, kernel>>
        BY <1>2, <2>1, <2>3 DEF ConnectFirst
      <3>7. TypeOK'
        BY <3>1, <3>2, <3>6 DEF TypeOK, kernel
      <3>8. Allocation'
        <4>1. usedFifos'[s] = <<f>> /\ \A t \in Sessions \ {s} : usedFifos'[t] = usedFifos[t]
          BY <3>6 DEF TypeOK
        <4>2. clientAt[s] = "none" /\ \A o \in Sessions : <<s, o>> \notin jobs
          BY <3>5, NoPairNoWork
        <4> QED
          <5> SUFFICES ASSUME NEW t \in Sessions
                       PROVE  /\ readerAt[t] # "none" => Len(usedFifos'[t]) = 2
                              /\ readerAt[t] = "none" /\ t # s => Len(usedFifos'[t]) = 0
                              /\ transport[t] = "none" => readerAt[t] = "none"
                              /\ clientAt[t] # "none" => Len(usedFifos'[t]) = 2
                              /\ \A o \in Sessions : <<t, o>> \in jobs
                                                      => Len(usedFifos'[t]) = 2
            BY <3>2, <3>4, <3>6, <4>1 DEF Allocation
          <5>1. CASE t = s
            BY <5>1, <3>4, <4>2
          <5>2. CASE t # s
            BY <5>2, <3>3, <4>1, PoolAssumption DEF Allocation
          <5> QED
            BY <5>1, <5>2
      <3> QED
        BY <3>7, <3>8
    <2> QED
      BY <2>2, <2>3
  <1>3. ASSUME ConnectSecond
        PROVE  TypeOK' /\ Allocation'
    <2> DEFINE s == connecting
    <2>1. PICK f \in Fifos \cup {-1} :
            /\ GetFreeFifo(f)
            /\ IF f = -1
                 THEN /\ transport' = [transport EXCEPT ![connecting] = "tcp"]
                      /\ usedFifos' = [usedFifos EXCEPT ![connecting] = <<>>]
                      /\ UNCHANGED <<readerAt, clientAt, serverOpen>>
                 ELSE /\ transport' = [transport EXCEPT ![connecting] = "fifo"]
                      /\ usedFifos' = [usedFifos EXCEPT ![connecting] = Append(@, f)]
                      /\ readerAt' = [readerAt EXCEPT ![connecting] = "reading"]
                      /\ clientAt' = [clientAt EXCEPT ![connecting] = "told"]
                      /\ serverOpen' = serverOpen \cup {connecting}
      BY <1>3 DEF ConnectSecond
    <2>2. /\ s \in Sessions /\ connecting' = NoSession
          /\ UNCHANGED <<sent, jobs, clientOpen, fifo>>
          /\ Len(usedFifos[s]) = 1 /\ readerAt[s] = "none"
      BY <1>3 DEF ConnectSecond, TypeOK, Allocation
    <2>3. CASE f = -1
      <3>1. UNCHANGED <<fifoByteMap, fifoByteMapPosition>>
        BY <2>1, <2>3 DEF GetFreeFifo
      <3>2. <<>> \in Seq(Fifos) /\ Len(<<>>) = 0
        OBVIOUS
      <3>3. usedFifos' = [usedFifos EXCEPT ![s] = <<>>]
            /\ transport' = [transport EXCEPT ![s] = "tcp"]
            /\ UNCHANGED <<readerAt, clientAt, serverOpen>>
        BY <2>1, <2>3
      <3>4. TypeOK'
        BY <2>2, <3>1, <3>2, <3>3 DEF TypeOK
      <3>5. Allocation'
        <4>1. usedFifos'[s] = <<>> /\ \A t \in Sessions \ {s} : usedFifos'[t] = usedFifos[t]
          BY <3>3, <2>2 DEF TypeOK
        <4>2. clientAt[s] = "none" /\ \A o \in Sessions : <<s, o>> \notin jobs
          BY <2>2, NoPairNoWork
        <4>3. \A t \in Sessions : transport'[t] = "none" => transport[t] = "none"
          BY <3>3, <2>2 DEF TypeOK
        <4> QED
          BY <2>2, <3>2, <3>3, <4>1, <4>2, <4>3 DEF Allocation
      <3> QED
        BY <3>4, <3>5
    <2>4. CASE f # -1
      <3>1. f \in Fifos /\ fifoByteMap' \in [Fifos -> {0, 1}] /\ fifoByteMapPosition' \in Nat
        BY <2>1, <2>4, GetFreeFifoMarks
      <3>2. usedFifos[s] \in Seq(Fifos)
        BY <2>2 DEF TypeOK
      <3>3. Append(usedFifos[s], f) \in Seq(Fifos) /\ Len(Append(usedFifos[s], f)) = 2
        <4>1. f \in Fifos /\ Len(usedFifos[s]) = 1
          BY <2>2, <3>1
        <4>2. /\ Append(usedFifos[s], f) \in Seq(Fifos)
              /\ Len(Append(usedFifos[s], f)) = Len(usedFifos[s]) + 1
          BY <3>2, <4>1, AppendType
        <4> QED
          BY <4>1, <4>2
      <3>4. /\ transport' = [transport EXCEPT ![s] = "fifo"]
            /\ usedFifos' = [usedFifos EXCEPT ![s] = Append(usedFifos[s], f)]
            /\ readerAt' = [readerAt EXCEPT ![s] = "reading"]
            /\ clientAt' = [clientAt EXCEPT ![s] = "told"]
            /\ serverOpen' = serverOpen \cup {s}
        BY <2>1, <2>4
      <3>5. TypeOK'
        BY <2>2, <3>1, <3>3, <3>4 DEF TypeOK
      <3>6. Allocation'
        BY <2>2, <3>3, <3>4 DEF TypeOK, Allocation
      <3> QED
        BY <3>5, <3>6
    <2> QED
      BY <2>3, <2>4
  <1> QED
    BY <1>1, <1>2, <1>3

\* The clients.
LEMMA ClientKeepsTypes ==
    ASSUME TypeOK, Allocation, NEW s \in Sessions,
           \/ ClientOpens(s) \/ ClientSends(s) \/ ClientReads(s) \/ ClientCloses(s)
           \/ ClientGone(s)
    PROVE  TypeOK' /\ Allocation'
  <1>1. clientAt[s] # "none"
    BY DEF ClientOpens, ClientSends, ClientReads, ClientCloses, ClientGone
  <1>2. Len(usedFifos[s]) = 2 /\ RequestFifo(s) \in Fifos /\ ResponseFifo(s) \in Fifos
    BY <1>1, PairType DEF Allocation
  <1>3. UNCHANGED <<poolVars, readerAt, jobs>>
    BY DEF ClientOpens, ClientSends, ClientReads, ClientCloses, ClientGone
  <1>4. \A t \in Sessions \ {s} : clientAt'[t] = clientAt[t]
    BY DEF TypeOK, ClientOpens, ClientSends, ClientReads, ClientCloses, ClientGone
  <1>5. /\ fifo' \in [Fifos -> Seq(Messages)]
        /\ \A f \in Fifos : Len(fifo'[f]) <= FifoCap
    <2>1. CASE ClientOpens(s)
      BY <2>1 DEF ClientOpens, TypeOK
    <2>2. CASE ClientSends(s)
      BY <2>2, <1>2, PutType DEF ClientSends
    <2>3. CASE ClientReads(s)
      BY <2>3, <1>2, DropType DEF ClientReads
    <2>4. CASE ClientCloses(s)
      BY <2>4, <1>2, PutType DEF ClientCloses
    <2>5. CASE ClientGone(s)
      BY <2>5, KeptType DEF ClientGone
    <2> QED
      BY <2>1, <2>2, <2>3, <2>4, <2>5
  <1>6. /\ clientAt' \in [Sessions -> {"none", "told", "open", "closing", "stopped", "gone"}]
        /\ serverOpen' \subseteq Sessions /\ clientOpen' \subseteq Sessions
    BY DEF TypeOK, ClientOpens, ClientSends, ClientReads, ClientCloses, ClientGone
  <1>7. sent' \in [Sessions -> 0..MaxRequests]
    <2>1. CASE sent' = [sent EXCEPT ![s] = @ + 1] /\ sent[s] < MaxRequests
      BY <2>1, PoolAssumption DEF TypeOK
    <2>2. CASE sent' = sent
      BY <2>2 DEF TypeOK
    <2> QED
      BY <2>1, <2>2 DEF ClientOpens, ClientSends, ClientReads, ClientCloses, ClientGone
  <1>8. TypeOK'
    BY <1>3, <1>5, <1>6, <1>7 DEF TypeOK, poolVars
  <1>9. Allocation'
    BY <1>2, <1>3, <1>4 DEF Allocation, poolVars
  <1> QED
    BY <1>8, <1>9

\* The RequestReaders and the pool threads.
LEMMA ServerKeepsTypes ==
    ASSUME TypeOK, Allocation, NEW s \in Sessions,
           ReaderStep(s) \/ \E o \in Sessions : WorkerAnswers(s, o)
    PROVE  TypeOK' /\ Allocation'
  <1>1. CASE ReaderStep(s)
    <2>1. readerAt[s] # "none" /\ readerAt'[s] # "none"
      BY <1>1 DEF ReaderStep, ReaderReads, ReaderFarewell, ReaderFrees, ReaderCloses,
                  ReaderGoes, TypeOK
    <2>2. Len(usedFifos[s]) = 2 /\ RequestFifo(s) \in Fifos /\ ResponseFifo(s) \in Fifos
      BY <2>1, PairType DEF Allocation
    <2>3. /\ readerAt' \in [Sessions -> {"none", "reading", "farewell", "free1", "free2",
                                         "close", "ended"}]
          /\ \A t \in Sessions \ {s} : readerAt'[t] = readerAt[t]
      BY <1>1 DEF ReaderStep, ReaderReads, ReaderFarewell, ReaderFrees, ReaderCloses,
                  ReaderGoes, TypeOK
    <2>4. UNCHANGED <<fifoByteMapPosition, connecting, usedFifos, transport, clientAt, sent,
                      clientOpen>>
      BY <1>1 DEF ReaderStep, ReaderReads, ReaderFarewell, ReaderFrees, ReaderCloses,
                  poolVars, kernel
    <2>5. serverOpen' \subseteq Sessions
      BY <1>1 DEF ReaderStep, ReaderReads, ReaderFarewell, ReaderFrees, ReaderCloses,
                  kernel, TypeOK
    <2>6. fifoByteMap' \in [Fifos -> {0, 1}]
      BY <1>1 DEF ReaderStep, ReaderReads, ReaderFarewell, ReaderFrees, ReaderCloses,
                  poolVars, TypeOK
    <2>7. /\ fifo' \in [Fifos -> Seq(Messages)]
          /\ \A f \in Fifos : Len(fifo'[f]) <= FifoCap
      <3>1. CASE ReaderReads(s)
        BY <3>1, <2>2, DropType DEF ReaderReads
      <3>2. CASE ReaderFarewell(s)
        BY <3>2, <2>2, PutType DEF ReaderFarewell
      <3>3. CASE ReaderCloses(s)
        BY <3>3, KeptType DEF ReaderCloses
      <3>4. CASE fifo' = fifo
        BY <3>4 DEF TypeOK
      <3> QED
        BY <1>1, <3>1, <3>2, <3>3, <3>4 DEF ReaderStep, ReaderFrees, kernel
    <2>8. /\ jobs' \subseteq Sessions \X Sessions
          /\ \A t, o \in Sessions : <<t, o>> \in jobs' => t = s \/ <<t, o>> \in jobs
      <3>1. CASE ReaderReads(s)
        <4>1. Head(fifo[RequestFifo(s)]).of \in Sessions
          BY <3>1, <2>2, DropType DEF ReaderReads, Messages
        <4> QED
          BY <3>1, <4>1 DEF ReaderReads, TypeOK
      <3>2. CASE jobs' = jobs
        BY <3>2 DEF TypeOK
      <3> QED
        BY <1>1, <3>1, <3>2 DEF ReaderStep, ReaderFarewell, ReaderFrees, ReaderCloses
    <2>9. TypeOK'
      BY <2>3, <2>4, <2>5, <2>6, <2>7, <2>8 DEF TypeOK
    <2>10. Allocation'
      <3>1. connecting # s /\ transport[s] # "none"
        BY <2>1, PoolAssumption DEF Allocation
      <3> QED
        BY <2>1, <2>2, <2>3, <2>4, <2>8, <3>1 DEF Allocation, TypeOK
    <2> QED
      BY <2>9, <2>10
  <1>2. ASSUME NEW o \in Sessions, WorkerAnswers(s, o)
        PROVE  TypeOK' /\ Allocation'
    <2>1. Len(usedFifos[s]) = 2 /\ ResponseFifo(s) \in Fifos
      BY <1>2, PairType DEF WorkerAnswers, Allocation
    <2>2. /\ fifo' \in [Fifos -> Seq(Messages)]
          /\ \A f \in Fifos : Len(fifo'[f]) <= FifoCap
      <3>1. CASE s \in serverOpen
        BY <1>2, <2>1, <3>1, PutType DEF WorkerAnswers
      <3>2. CASE s \notin serverOpen
        BY <1>2, <3>2 DEF WorkerAnswers, TypeOK
      <3> QED
        BY <3>1, <3>2
    <2>3. /\ UNCHANGED <<poolVars, readerAt, clientAt, sent, serverOpen, clientOpen>>
          /\ jobs' \subseteq jobs
      BY <1>2 DEF WorkerAnswers
    <2>4. TypeOK'
      BY <2>2, <2>3 DEF TypeOK, poolVars
    <2>5. Allocation'
      BY <2>3 DEF Allocation, poolVars
    <2> QED
      BY <2>4, <2>5
  <1> QED
    BY <1>1, <1>2

-----------------------------------------------------------------------------
(* ExclusiveFifos.                                                         *)

\* What a session owns is a FIFO.
LEMMA OwnedType ==
    ASSUME TypeOK, NEW s \in Sessions, NEW k \in 1..2, Owns(s, k)
    PROVE  usedFifos[s][k] \in Fifos
  <1>1. usedFifos[s] \in Seq(Fifos) /\ Len(usedFifos[s]) >= k
    BY DEF TypeOK, Owns
  <1>2. k \in 1..Len(usedFifos[s])
    BY <1>1
  <1> QED
    BY <1>1, <1>2

\* Handing out a FIFO whose byte was 0 cannot collide with an owned one.
LEMMA GrantIsExclusive ==
    ASSUME TypeOK, ExclusiveFifos,
           NEW s \in Sessions, NEW k \in 1..2, NEW f \in Fifos,
           fifoByteMap[f] = 0, fifoByteMap'[f] = 1,
           \A g \in Fifos : g # f => fifoByteMap'[g] = fifoByteMap[g],
           usedFifos'[s][k] = f,
           \A t \in Sessions, l \in 1..2 : Owns(t, l)' =>
              (t = s /\ l = k) \/ (Owns(t, l) /\ usedFifos'[t][l] = usedFifos[t][l])
    PROVE  ExclusiveFifos'
  <1>1. \A t \in Sessions, l \in 1..2 : Owns(t, l) => usedFifos[t][l] # f
    BY DEF ExclusiveFifos
  <1>2. ASSUME NEW t \in Sessions, NEW l \in 1..2, Owns(t, l)'
        PROVE  fifoByteMap'[usedFifos'[t][l]] = 1
    <2>1. CASE t = s /\ l = k
      BY <2>1
    <2>2. CASE Owns(t, l) /\ usedFifos'[t][l] = usedFifos[t][l]
      BY <2>2, <1>1, OwnedType DEF ExclusiveFifos
    <2> QED
      BY <1>2, <2>1, <2>2
  <1>3. ASSUME NEW t \in Sessions, NEW u \in Sessions, NEW l \in 1..2, NEW m \in 1..2,
               Owns(t, l)', Owns(u, m)', usedFifos'[t][l] = usedFifos'[u][m]
        PROVE  t = u /\ l = m
    BY <1>1, <1>3 DEF ExclusiveFifos
  <1> QED
    BY <1>2, <1>3 DEF ExclusiveFifos

\* Nothing new owned, and only bytes of FIFOs nobody owns any more cleared.
LEMMA ReleaseIsExclusive ==
    ASSUME ExclusiveFifos,
           \A t \in Sessions, l \in 1..2 : Owns(t, l)' =>
              /\ Owns(t, l) /\ usedFifos'[t][l] = usedFifos[t][l]
              /\ fifoByteMap'[usedFifos[t][l]] = fifoByteMap[usedFifos[t][l]]
    PROVE  ExclusiveFifos'
  BY DEF ExclusiveFifos

LEMMA AcceptIsExclusive ==
    ASSUME TypeOK, Allocation, ExclusiveFifos,
           ConnectSecond \/ \E s \in Sessions : ConnectTcp(s) \/ ConnectFirst(s)
    PROVE  ExclusiveFifos'
  <1>1. ASSUME NEW s \in Sessions, ConnectTcp(s)
        PROVE  ExclusiveFifos'
    BY <1>1, ReleaseIsExclusive DEF ConnectTcp, Owns
  <1>2. ASSUME NEW s \in Sessions, ConnectFirst(s)
        PROVE  ExclusiveFifos'
    <2>1. PICK f \in Fifos \cup {-1} :
            /\ GetFreeFifo(f)
            /\ f = -1 => UNCHANGED usedFifos
            /\ f # -1 => usedFifos' = [usedFifos EXCEPT ![s] = <<f>>]
      BY <1>2 DEF ConnectFirst
    <2>2. UNCHANGED readerAt
      BY <1>2 DEF ConnectFirst
    <2>3. CASE f = -1
      <3>1. UNCHANGED <<fifoByteMap, usedFifos>>
        BY <2>1, <2>3 DEF GetFreeFifo
      <3> QED
        BY <2>2, <3>1, ReleaseIsExclusive DEF Owns
    <2>4. CASE f # -1
      <3>1. /\ f \in Fifos /\ fifoByteMap[f] = 0 /\ fifoByteMap'[f] = 1
            /\ \A g \in Fifos : g # f => fifoByteMap'[g] = fifoByteMap[g]
        BY <2>1, <2>4, GetFreeFifoMarks
      <3>2. usedFifos'[s] = <<f>> /\ \A t \in Sessions \ {s} : usedFifos'[t] = usedFifos[t]
        BY <2>1, <2>4 DEF TypeOK
      <3>3. usedFifos'[s][1] = f /\ Len(usedFifos'[s]) = 1
        BY <3>2
      <3>4. \A t \in Sessions, l \in 1..2 : Owns(t, l)' =>
               (t = s /\ l = 1) \/ (Owns(t, l) /\ usedFifos'[t][l] = usedFifos[t][l])
        BY <2>2, <3>2, <3>3 DEF Owns
      <3> QED
        BY <3>1, <3>3, <3>4, GrantIsExclusive
    <2> QED
      BY <2>3, <2>4
  <1>3. ASSUME ConnectSecond
        PROVE  ExclusiveFifos'
    <2>1. PICK s \in Sessions : s = connecting
      BY <1>3 DEF ConnectSecond, TypeOK
    <2>2. Len(usedFifos[s]) = 1 /\ readerAt[s] = "none" /\ usedFifos[s] \in Seq(Fifos)
      BY <1>3, <2>1 DEF ConnectSecond, Allocation, TypeOK
    <2>3. PICK f \in Fifos \cup {-1} :
            /\ GetFreeFifo(f)
            /\ f = -1 => usedFifos' = [usedFifos EXCEPT ![s] = <<>>] /\ UNCHANGED readerAt
            /\ f # -1 => /\ usedFifos' = [usedFifos EXCEPT ![s] = Append(usedFifos[s], f)]
                         /\ readerAt' = [readerAt EXCEPT ![s] = "reading"]
      BY <1>3, <2>1 DEF ConnectSecond
    <2>4. CASE f = -1
      <3>1. UNCHANGED <<fifoByteMap, readerAt>>
        BY <2>3, <2>4 DEF GetFreeFifo
      <3>2. usedFifos'[s] = <<>> /\ \A t \in Sessions \ {s} : usedFifos'[t] = usedFifos[t]
        BY <2>3, <2>4 DEF TypeOK
      <3>3. Len(usedFifos'[s]) = 0
        BY <3>2
      <3> QED
        BY <3>1, <3>2, <3>3, ReleaseIsExclusive DEF Owns
    <2>5. CASE f # -1
      <3>1. /\ f \in Fifos /\ fifoByteMap[f] = 0 /\ fifoByteMap'[f] = 1
            /\ \A g \in Fifos : g # f => fifoByteMap'[g] = fifoByteMap[g]
        BY <2>3, <2>5, GetFreeFifoMarks
      <3>2. /\ usedFifos'[s] = Append(usedFifos[s], f)
            /\ \A t \in Sessions \ {s} : usedFifos'[t] = usedFifos[t] /\ readerAt'[t] = readerAt[t]
        BY <2>3, <2>5 DEF TypeOK
      <3>3. usedFifos'[s][2] = f /\ usedFifos'[s][1] = usedFifos[s][1]
        BY <2>2, <3>1, <3>2
      <3>4. Owns(s, 1)
        BY <2>2 DEF Owns
      <3>5. \A t \in Sessions, l \in 1..2 : Owns(t, l)' =>
               (t = s /\ l = 2) \/ (Owns(t, l) /\ usedFifos'[t][l] = usedFifos[t][l])
        BY <3>2, <3>3, <3>4 DEF Owns
      <3> QED
        BY <3>1, <3>3, <3>5, GrantIsExclusive
    <2> QED
      BY <2>4, <2>5
  <1> QED
    BY <1>1, <1>2, <1>3

LEMMA ReaderIsExclusive ==
    ASSUME TypeOK, Allocation, ExclusiveFifos, NEW s \in Sessions, ReaderStep(s)
    PROVE  ExclusiveFifos'
  <1>1. ASSUME UNCHANGED <<fifoByteMap, usedFifos>>,
               \A t \in Sessions, l \in 1..2 : Owns(t, l)' => Owns(t, l)
        PROVE  ExclusiveFifos'
    BY <1>1, ReleaseIsExclusive
  <1>2. CASE ReaderReads(s)
    BY <1>1, <1>2 DEF ReaderReads, ReaderGoes, poolVars, Owns, TypeOK
  <1>3. CASE ReaderFarewell(s)
    BY <1>1, <1>3 DEF ReaderFarewell, ReaderGoes, poolVars, Owns, TypeOK
  <1>4. CASE ReaderCloses(s)
    BY <1>1, <1>4 DEF ReaderCloses, ReaderGoes, poolVars, Owns, TypeOK
  <1>5. ASSUME NEW k \in 1..2, NEW from, NEW to, ReaderFrees(s, from, k, to),
               <<from, k, to>> \in {<<"free1", 1, "free2">>, <<"free2", 2, "close">>}
        PROVE  ExclusiveFifos'
    <2>1. /\ readerAt[s] = from /\ readerAt' = [readerAt EXCEPT ![s] = to]
          /\ fifoByteMap' = [fifoByteMap EXCEPT ![usedFifos[s][k]] = 0]
          /\ usedFifos' = usedFifos
      BY <1>5 DEF ReaderFrees, ReaderGoes
    <2>2. Len(usedFifos[s]) = 2
      BY <1>5, <2>1 DEF Allocation
    <2>3. Owns(s, k)
      BY <1>5, <2>1, <2>2 DEF Owns
    <2>4. \A t \in Sessions, l \in 1..2 : Owns(t, l)' => Owns(t, l) /\ ~(t = s /\ l = k)
      BY <1>5, <2>1 DEF Owns, TypeOK
    <2>5. \A t \in Sessions, l \in 1..2 :
             Owns(t, l)' => fifoByteMap'[usedFifos[t][l]] = fifoByteMap[usedFifos[t][l]]
      <3>1. \A t \in Sessions, l \in 1..2 : Owns(t, l)' => usedFifos[t][l] # usedFifos[s][k]
        BY <2>3, <2>4 DEF ExclusiveFifos
      <3> QED
        BY <2>1, <2>4, <3>1, OwnedType DEF TypeOK
    <2> QED
      BY <2>1, <2>4, <2>5, ReleaseIsExclusive
  <1> QED
    BY <1>2, <1>3, <1>4, <1>5 DEF ReaderStep

-----------------------------------------------------------------------------
LEMMA InitHolds == Init => IInv
  <1> SUFFICES ASSUME Init PROVE IInv
    OBVIOUS
  <1>1. <<>> \in Seq(Fifos) /\ <<>> \in Seq(Messages) /\ Len(<<>>) = 0
    OBVIOUS
  <1>2. TypeOK
    BY <1>1, PoolAssumption DEF Init, TypeOK
  <1>3. Allocation
    BY <1>1 DEF Init, Allocation
  <1>4. ExclusiveFifos
    BY <1>1 DEF Init, ExclusiveFifos, Owns
  <1> QED
    BY <1>2, <1>3, <1>4 DEF IInv

LEMMA StepHolds == IInv /\ [Next]_vars => IInv'
  <1> SUFFICES ASSUME TypeOK, Allocation, ExclusiveFifos, [Next]_vars
               PROVE  TypeOK' /\ Allocation' /\ ExclusiveFifos'
    BY DEF IInv
  <1>1. CASE ConnectSecond \/ \E s \in Sessions : ConnectTcp(s) \/ ConnectFirst(s)
    BY <1>1, AcceptKeepsTypes, AcceptIsExclusive
  <1>2. ASSUME NEW s \in Sessions,
               \/ ClientOpens(s) \/ ClientSends(s) \/ ClientReads(s) \/ ClientCloses(s)
               \/ ClientGone(s)
        PROVE  TypeOK' /\ Allocation' /\ ExclusiveFifos'
    <2>1. UNCHANGED <<poolVars, readerAt>>
      BY <1>2 DEF ClientOpens, ClientSends, ClientReads, ClientCloses, ClientGone
    <2>2. ExclusiveFifos'
      BY <2>1 DEF poolVars, ExclusiveFifos, Owns
    <2> QED
      BY <1>2, <2>2, ClientKeepsTypes
  <1>3. ASSUME NEW s \in Sessions, ReaderStep(s)
        PROVE  TypeOK' /\ Allocation' /\ ExclusiveFifos'
    BY <1>3, ServerKeepsTypes, ReaderIsExclusive
  <1>4. ASSUME NEW s \in Sessions, NEW o \in Sessions, WorkerAnswers(s, o)
        PROVE  TypeOK' /\ Allocation' /\ ExclusiveFifos'
    <2>1. ExclusiveFifos'
      BY <1>4 DEF WorkerAnswers, poolVars, ExclusiveFifos, Owns
    <2> QED
      BY <1>4, <2>1, ServerKeepsTypes
  <1>5. CASE UNCHANGED vars
    BY <1>5 DEF vars, poolVars, kernel, TypeOK, Allocation, ExclusiveFifos, Owns
  <1> QED
    BY <1>1, <1>2, <1>3, <1>4, <1>5 DEF Next

\* IInv holds throughout.
THEOREM Invariance == Spec => []IInv
  BY InitHolds, StepHolds, PTL DEF Spec

\* TypeOK holds for every number of sessions and FIFOs.
THEOREM TypeCorrect == Spec => []TypeOK
  <1>1. IInv => TypeOK
    BY DEF IInv
  <1> QED
    BY <1>1, Invariance, PTL

\* However many connections come and go, and whenever their RequestReaders free
\* what they used, no FIFO is ever owned twice or marked free while owned
\* (getFreeFifo, freeFifo, startFifoRequestReader, RequestReader.run).
THEOREM FifosAreExclusive == Spec => []ExclusiveFifos
  <1>1. IInv => ExclusiveFifos
    BY DEF IInv
  <1> QED
    BY <1>1, Invariance, PTL

-----------------------------------------------------------------------------
(* FifoAllocator.                                                          *)

AllocatorSame == UNCHANGED <<Held, Lost>>

LEMMA HeldPairs ==
    ASSUME TypeOK, NEW s \in Sessions, NEW f \in Fifos
    PROVE  <<s, f>> \in Held <=> \E k \in 1..2 : Owns(s, k) /\ usedFifos[s][k] = f
  BY DEF Held

\* A marked FIFO is held or lost, so that the allocator's free ones are those of the map.
LEMMA FreeAsMarked ==
    ASSUME TypeOK, ExclusiveFifos
    PROVE  /\ Allocator!Free = FreeOnes
           /\ \A s \in Sessions, f \in Fifos : <<s, f>> \in Held => fifoByteMap[f] = 1
           /\ \A s, t \in Sessions, f \in Fifos : <<s, f>> \in Held /\ <<t, f>> \in Held => s = t
  <1>1. \A s \in Sessions, f \in Fifos : <<s, f>> \in Held => fifoByteMap[f] = 1
    BY HeldPairs DEF ExclusiveFifos
  <1>2. \A s, t \in Sessions, f \in Fifos : <<s, f>> \in Held /\ <<t, f>> \in Held => s = t
    BY HeldPairs DEF ExclusiveFifos
  <1>3. \A f \in Fifos : fifoByteMap[f] \in {0, 1}
    BY DEF TypeOK
  <1>4. Allocator!Free = FreeOnes
    BY <1>1, <1>3 DEF Allocator!Free, FreeOnes, Lost
  <1> QED
    BY <1>1, <1>2, <1>4

\* What Held becomes when the FIFOs of one session change.
LEMMA HeldElsewhere ==
    ASSUME TypeOK, TypeOK', NEW s \in Sessions,
           \A t \in Sessions \ {s} : usedFifos'[t] = usedFifos[t] /\ readerAt'[t] = readerAt[t]
    PROVE  \A t \in Sessions \ {s}, f \in Fifos : <<t, f>> \in Held' <=> <<t, f>> \in Held
  <1>1. \A t \in Sessions \ {s}, k \in 1..2 : Owns(t, k)' <=> Owns(t, k)
    BY DEF Owns
  <1>2. \A t \in Sessions, f \in Fifos :
           <<t, f>> \in Held' <=> \E k \in 1..2 : Owns(t, k)' /\ usedFifos'[t][k] = f
    BY DEF Held
  <1>3. \A t \in Sessions, f \in Fifos :
           <<t, f>> \in Held <=> \E k \in 1..2 : Owns(t, k) /\ usedFifos[t][k] = f
    BY HeldPairs
  <1> SUFFICES ASSUME NEW t \in Sessions \ {s}, NEW f \in Fifos
               PROVE  <<t, f>> \in Held' <=> <<t, f>> \in Held
    OBVIOUS
  <1>4. usedFifos'[t] = usedFifos[t] /\ \A k \in 1..2 : Owns(t, k)' <=> Owns(t, k)
    BY <1>1
  <1> QED
    BY <1>2, <1>3, <1>4

\* One more FIFO, which was free.
LEMMA GrantHolds ==
    ASSUME TypeOK, TypeOK', ExclusiveFifos, NEW s \in Sessions, NEW f \in Fifos, GetFreeFifo(f),
           \A t \in Sessions \ {s} : usedFifos'[t] = usedFifos[t] /\ readerAt'[t] = readerAt[t],
           \A g \in Fifos : <<s, g>> \in Held' <=> <<s, g>> \in Held \/ g = f,
           \E g \in Fifos : Allocator!Of(s) \subseteq {g}
    PROVE  Allocator!Grant(s, f)
  <1>0. f # -1
    BY PoolAssumption DEF Fifos
  <1>1. /\ fifoByteMap[f] = 0 /\ fifoByteMap'[f] = 1
        /\ \A g \in Fifos : g # f => fifoByteMap'[g] = fifoByteMap[g]
    BY <1>0, GetFreeFifoMarks
  <1>2. Held \subseteq Sessions \X Fifos /\ Held' \subseteq Sessions \X Fifos
    BY DEF Held
  <1>3. \A t \in Sessions, g \in Fifos :
           <<t, g>> \in Held' <=> <<t, g>> \in Held \/ (t = s /\ g = f)
    BY HeldElsewhere
  <1>4. Held' = Held \cup {<<s, f>>}
    BY <1>2, <1>3
  <1>5. Lost' = Lost
    <2>1. f \notin Lost' /\ f \notin Lost
      <3>1. <<s, f>> \in Held'
        BY <1>4
      <3> QED
        BY <1>1, <3>1 DEF Lost
    <2>2. \A g \in Fifos : g # f => (g \in Lost' <=> g \in Lost)
      BY <1>1, <1>3 DEF Lost
    <2> QED
      BY <2>1, <2>2 DEF Lost
  <1>6. f \in Allocator!Free
    BY <1>1, FreeAsMarked DEF FreeOnes
  <1> QED
    BY <1>4, <1>5, <1>6 DEF Allocator!Grant

\* The accept loop grants, forgets, or leaves the FIFOs alone.
LEMMA AcceptAllocates ==
    ASSUME IInv, IInv', ConnectSecond \/ \E s \in Sessions : ConnectTcp(s) \/ ConnectFirst(s)
    PROVE  Allocator!Next \/ AllocatorSame
  <1>0. TypeOK /\ TypeOK' /\ Allocation /\ ExclusiveFifos
    BY DEF IInv
  <1>1. ASSUME UNCHANGED <<fifoByteMap, usedFifos, readerAt>>
        PROVE  AllocatorSame
    BY <1>1 DEF AllocatorSame, Held, Lost, Owns
  <1>2. ASSUME NEW s \in Sessions, ConnectTcp(s)
        PROVE  AllocatorSame
    BY <1>1, <1>2 DEF ConnectTcp
  <1>3. ASSUME NEW s \in Sessions, ConnectFirst(s)
        PROVE  Allocator!Next \/ AllocatorSame
    <2>1. PICK f \in Fifos \cup {-1} :
            /\ GetFreeFifo(f)
            /\ f = -1 => UNCHANGED usedFifos
            /\ f # -1 => usedFifos' = [usedFifos EXCEPT ![s] = <<f>>]
      BY <1>3 DEF ConnectFirst
    <2>2. UNCHANGED readerAt /\ readerAt[s] = "none" /\ Len(usedFifos[s]) = 0
      BY <1>0, <1>3, PoolAssumption DEF ConnectFirst, Allocation
    <2>3. CASE f = -1
      BY <1>1, <2>1, <2>2, <2>3 DEF GetFreeFifo
    <2>4. CASE f # -1
      <3>1. /\ usedFifos'[s] = <<f>>
            /\ \A t \in Sessions \ {s} : usedFifos'[t] = usedFifos[t] /\ readerAt'[t] = readerAt[t]
        BY <1>0, <2>1, <2>2, <2>4 DEF TypeOK
      <3>2. usedFifos'[s][1] = f /\ Len(usedFifos'[s]) = 1 /\ readerAt'[s] = "none"
        BY <2>2, <3>1
      <3>3. \A g \in Fifos : <<s, g>> \in Held' <=> g = f
        <4>1. Owns(s, 1)' /\ ~Owns(s, 2)'
          BY <3>2 DEF Owns
        <4>2. \A g \in Fifos :
                 <<s, g>> \in Held' <=> \E k \in 1..2 : Owns(s, k)' /\ usedFifos'[s][k] = g
          BY DEF Held
        <4>3. \A k \in 1..2 : k = 1 \/ k = 2
          OBVIOUS
        <4> QED
          BY <3>2, <4>1, <4>2, <4>3
      <3>4. \A g \in Fifos : <<s, g>> \notin Held
        BY <1>0, <2>2, HeldPairs DEF Owns
      <3>5. f \in Fifos /\ Allocator!Of(s) \subseteq {f}
        BY <2>4, <3>4 DEF Allocator!Of
      <3>6. Allocator!Grant(s, f)
        BY <1>0, <2>1, <3>1, <3>3, <3>4, <3>5, GrantHolds
      <3> QED
        BY <3>5, <3>6 DEF Allocator!Next
    <2> QED
      BY <2>3, <2>4
  <1>4. ASSUME ConnectSecond
        PROVE  Allocator!Next
    <2>1. PICK s \in Sessions : s = connecting
      BY <1>0, <1>4 DEF ConnectSecond, TypeOK
    <2>2. Len(usedFifos[s]) = 1 /\ readerAt[s] = "none" /\ usedFifos[s] \in Seq(Fifos)
      BY <1>0, <1>4, <2>1 DEF ConnectSecond, Allocation, TypeOK
    <2>3. PICK f \in Fifos \cup {-1} :
            /\ GetFreeFifo(f)
            /\ f = -1 => usedFifos' = [usedFifos EXCEPT ![s] = <<>>] /\ UNCHANGED readerAt
            /\ f # -1 => /\ usedFifos' = [usedFifos EXCEPT ![s] = Append(usedFifos[s], f)]
                         /\ readerAt' = [readerAt EXCEPT ![s] = "reading"]
      BY <1>4, <2>1 DEF ConnectSecond
    <2> DEFINE g == usedFifos[s][1]
    <2>4. g \in Fifos /\ \A h \in Fifos : <<s, h>> \in Held <=> h = g
      <3>1. g \in Fifos
        BY <2>2
      <3>2. Owns(s, 1) /\ ~Owns(s, 2)
        BY <2>2 DEF Owns
      <3>3. \A k \in 1..2 : k = 1 \/ k = 2
        OBVIOUS
      <3> QED
        BY <1>0, <3>1, <3>2, <3>3, HeldPairs
    <2>5. Allocator!Of(s) = {g}
      BY <2>4 DEF Allocator!Of
    <2>6. CASE f = -1
      <3>1. UNCHANGED <<fifoByteMap, readerAt>> /\ FreeOnes = {}
        BY <2>3, <2>6, PoolAssumption DEF GetFreeFifo, NextFree, Candidates, FreeOnes, Fifos
      <3>2. usedFifos'[s] = <<>> /\ \A t \in Sessions \ {s} : usedFifos'[t] = usedFifos[t]
        BY <1>0, <2>3, <2>6 DEF TypeOK
      <3>3. \A h \in Fifos : <<s, h>> \notin Held'
        <4>1. Len(usedFifos'[s]) = 0
          BY <3>2
        <4>2. \A h \in Fifos :
                 <<s, h>> \in Held' <=> \E k \in 1..2 : Owns(s, k)' /\ usedFifos'[s][k] = h
          BY DEF Held
        <4> QED
          BY <4>1, <4>2 DEF Owns
      <3>4. \A t \in Sessions, h \in Fifos :
               <<t, h>> \in Held' <=> <<t, h>> \in Held /\ ~(t = s /\ h = g)
        BY <1>0, <2>4, <3>1, <3>2, <3>3, HeldElsewhere
      <3> HIDE DEF g
      <3>5. Held' = Held \ {<<s, g>>}
        <4>1. Held \subseteq Sessions \X Fifos /\ Held' \subseteq Sessions \X Fifos
          BY DEF Held
        <4> QED
          BY <3>4, <4>1
      <3>6. Lost' = Lost \cup {g}
        <4>1. fifoByteMap[g] = 1 /\ \A t \in Sessions : <<t, g>> \in Held => t = s
          BY <1>0, <2>4, FreeAsMarked
        <4> QED
          BY <2>4, <3>1, <3>4, <4>1 DEF Lost
      <3>7. Allocator!Free = {}
        BY <1>0, <3>1, FreeAsMarked
      <3> QED
        BY <2>4, <2>5, <3>5, <3>6, <3>7 DEF Allocator!Next, Allocator!Forget
    <2>7. CASE f # -1
      <3>1. /\ usedFifos'[s] = Append(usedFifos[s], f) /\ readerAt'[s] = "reading"
            /\ \A t \in Sessions \ {s} : usedFifos'[t] = usedFifos[t] /\ readerAt'[t] = readerAt[t]
        BY <1>0, <2>3, <2>7 DEF TypeOK
      <3>2. f \in Fifos
        BY <2>7
      <3>3. usedFifos'[s][1] = g /\ usedFifos'[s][2] = f /\ Len(usedFifos'[s]) = 2
        BY <2>2, <3>1, <3>2
      <3>4. \A h \in Fifos : <<s, h>> \in Held' <=> h = g \/ h = f
        <4>1. Owns(s, 1)' /\ Owns(s, 2)'
          BY <3>1, <3>3 DEF Owns
        <4>2. \A h \in Fifos :
                 <<s, h>> \in Held' <=> \E k \in 1..2 : Owns(s, k)' /\ usedFifos'[s][k] = h
          BY DEF Held
        <4>3. \A k \in 1..2 : k = 1 \/ k = 2
          OBVIOUS
        <4> HIDE DEF g
        <4> QED
          BY <3>3, <4>1, <4>2, <4>3
      <3> HIDE DEF g
      <3>5. Allocator!Grant(s, f)
        BY <1>0, <2>3, <2>4, <2>5, <3>1, <3>2, <3>4, GrantHolds
      <3> QED
        BY <3>2, <3>5 DEF Allocator!Next
    <2> QED
      BY <2>6, <2>7
  <1> QED
    BY <1>2, <1>3, <1>4

\* A RequestReader gives back what it frees, and that is all.
LEMMA ReaderAllocates ==
    ASSUME IInv, IInv', NEW s \in Sessions, ReaderStep(s)
    PROVE  Allocator!Next \/ AllocatorSame
  <1>0. TypeOK /\ TypeOK' /\ Allocation /\ ExclusiveFifos
    BY DEF IInv
  <1>1. CASE ReaderReads(s) \/ ReaderFarewell(s) \/ ReaderCloses(s)
    <2>1. UNCHANGED <<fifoByteMap, usedFifos>>
      BY <1>1 DEF ReaderReads, ReaderFarewell, ReaderCloses, poolVars
    <2>2. \A t \in Sessions, k \in 1..2 : Owns(t, k)' <=> Owns(t, k)
      <3>1. CASE ReaderReads(s)
        BY <1>0, <2>1, <3>1 DEF ReaderReads, ReaderGoes, Owns, TypeOK
      <3>2. CASE ReaderFarewell(s)
        BY <1>0, <2>1, <3>2 DEF ReaderFarewell, ReaderGoes, Owns, TypeOK
      <3>3. CASE ReaderCloses(s)
        BY <1>0, <2>1, <3>3 DEF ReaderCloses, ReaderGoes, Owns, TypeOK
      <3> QED
        BY <1>1, <3>1, <3>2, <3>3
    <2> QED
      BY <2>1, <2>2 DEF AllocatorSame, Held, Lost
  <1>2. ASSUME NEW k \in 1..2, NEW from, NEW to, ReaderFrees(s, from, k, to),
               <<from, k, to>> \in {<<"free1", 1, "free2">>, <<"free2", 2, "close">>}
        PROVE  Allocator!Next
    <2> DEFINE f == usedFifos[s][k]
    <2>1. /\ readerAt[s] = from /\ readerAt' = [readerAt EXCEPT ![s] = to]
          /\ fifoByteMap' = [fifoByteMap EXCEPT ![f] = 0] /\ usedFifos' = usedFifos
      BY <1>2 DEF ReaderFrees, ReaderGoes
    <2>2. Len(usedFifos[s]) = 2
      BY <1>0, <1>2, <2>1 DEF Allocation
    <2>3. Owns(s, k)
      BY <1>2, <2>1, <2>2 DEF Owns
    <2>4. \A t \in Sessions, l \in 1..2 : Owns(t, l)' <=> Owns(t, l) /\ ~(t = s /\ l = k)
      BY <1>0, <1>2, <2>1, <2>2 DEF Owns, TypeOK
    <2>5. f \in Fifos
      BY <1>0, <2>3, OwnedType
    <2>6. <<s, f>> \in Held
      BY <1>0, <2>3, <2>5, HeldPairs
    <2>7. \A t \in Sessions, l \in 1..2 :
             Owns(t, l) /\ usedFifos[t][l] = f => t = s /\ l = k
      BY <1>0, <2>3 DEF ExclusiveFifos
    <2> HIDE DEF f
    <2>8. \A t \in Sessions, g \in Fifos :
             <<t, g>> \in Held' <=> <<t, g>> \in Held /\ ~(t = s /\ g = f)
      <3>1. \A t \in Sessions, g \in Fifos :
               <<t, g>> \in Held' <=> \E l \in 1..2 : Owns(t, l)' /\ usedFifos'[t][l] = g
        BY DEF Held
      <3>2. usedFifos' = usedFifos /\ usedFifos[s][k] = f
        BY <2>1 DEF f
      <3>3. \A t \in Sessions, g \in Fifos :
               <<t, g>> \in Held <=> \E l \in 1..2 : Owns(t, l) /\ usedFifos[t][l] = g
        BY <1>0, HeldPairs
      <3>4. ASSUME NEW t \in Sessions, NEW g \in Fifos, <<t, g>> \in Held'
            PROVE  <<t, g>> \in Held /\ ~(t = s /\ g = f)
        BY <2>4, <2>7, <3>1, <3>2, <3>3, <3>4
      <3>5. ASSUME NEW t \in Sessions, NEW g \in Fifos, <<t, g>> \in Held, ~(t = s /\ g = f)
            PROVE  <<t, g>> \in Held'
        BY <2>4, <3>1, <3>2, <3>3, <3>5
      <3> QED
        BY <3>4, <3>5
    <2>9. Held' = Held \ {<<s, f>>}
      <3>1. Held \subseteq Sessions \X Fifos /\ Held' \subseteq Sessions \X Fifos
        BY DEF Held
      <3> QED
        BY <2>8, <3>1
    <2>10. Lost' = Lost
      <3>1. fifoByteMap'[f] = 0 /\ \A g \in Fifos : g # f => fifoByteMap'[g] = fifoByteMap[g]
        BY <1>0, <2>1, <2>5 DEF TypeOK
      <3> QED
        BY <2>5, <2>6, <2>8, <3>1 DEF Lost
    <2>11. Allocator!GiveBack(s, f)
      BY <2>6, <2>9, <2>10 DEF Allocator!GiveBack
    <2> QED
      BY <2>5, <2>11 DEF Allocator!Next
  <1> QED
    BY <1>1, <1>2 DEF ReaderStep

\* The byte map and its users implement an allocator, for every number of sessions and
\* FIFOs: grants of free FIFOs only, releases of what is held only, and a FIFO lost only
\* by a session for which there was no second (PipeServer.java 150-205,
\* RequestReader.java 72-74).
THEOREM PoolImplementsAllocator == Spec => ImplementsAllocator
  <1>1. Init => Allocator!Init
    BY DEF Init, Allocator!Init, Held, Lost, Owns
  <1>2. IInv /\ IInv' /\ [Next]_vars => [Allocator!Next]_(Allocator!vars)
    <2> SUFFICES ASSUME IInv, IInv', [Next]_vars
                 PROVE  Allocator!Next \/ AllocatorSame
      BY DEF Allocator!vars, AllocatorSame
    <2>1. ASSUME UNCHANGED <<poolVars, readerAt>>
          PROVE  AllocatorSame
      BY <2>1 DEF AllocatorSame, poolVars, Held, Lost, Owns
    <2>2. ASSUME NEW s \in Sessions,
                 \/ ClientOpens(s) \/ ClientSends(s) \/ ClientReads(s) \/ ClientCloses(s)
                 \/ ClientGone(s)
          PROVE  AllocatorSame
      BY <2>1, <2>2 DEF ClientOpens, ClientSends, ClientReads, ClientCloses, ClientGone
    <2>3. ASSUME NEW s \in Sessions, NEW o \in Sessions, WorkerAnswers(s, o)
          PROVE  AllocatorSame
      BY <2>1, <2>3 DEF WorkerAnswers
    <2>4. CASE UNCHANGED vars
      BY <2>1, <2>4 DEF vars
    <2> QED
      BY <2>2, <2>3, <2>4, AcceptAllocates, ReaderAllocates DEF Next
  <1> QED
    BY <1>1, <1>2, Invariance, PTL DEF Spec, ImplementsAllocator, Allocator!Spec
=============================================================================
