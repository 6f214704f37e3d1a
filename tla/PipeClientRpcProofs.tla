------------------------- MODULE PipeClientRpcProofs -------------------------
(***************************************************************************)
(* No request is in two places of the client, the pipe or the server: it   *)
(* is executed at most once, and PipeClient implements PipeRpc.            *)
(***************************************************************************)
EXTENDS PipeClientRpc, PipeClientProofs, FiniteSetTheorems

\* Each place is apart from all those a request reaches later.
Apart ==
    /\ Offered \cap (Queued \cup InHand \cup Sent \cup executing \cup Replied \cup Received) = {}
    /\ Queued \cap (InHand \cup Sent \cup executing \cup Replied \cup Received) = {}
    /\ InHand \cap (Sent \cup executing \cup Replied \cup Received) = {}
    /\ Sent \cap (executing \cup Replied \cup Received) = {}
    /\ executing \cap (Replied \cup Received) = {}
    /\ Replied \cap Received = {}

\* No queue holds a request twice.
Distinct(q) == \A j, k \in 1..Len(q) : q[j] = q[k] /\ q[j] # EosId => j = k
DistinctIds(q) == \A j, k \in 1..Len(q) : q[j].id = q[k].id /\ q[j].id # EosId => j = k
NoneTwice == Distinct(transmitQueue) /\ Distinct(toServer) /\ DistinctIds(toClient)

\* No place holds a request not yet issued.
Everywhere == Offered \cup Queued \cup InHand \cup Sent \cup executing \cup Replied \cup Received
OnceInv == Apart /\ NoneTwice /\ Everywhere \subseteq 1..nextMsgId

-----------------------------------------------------------------------------
(* Queues                                                                  *)

LEMMA MembersAppended ==
    ASSUME NEW S, NEW q \in Seq(S), NEW e \in S
    PROVE  /\ Members(Append(q, e)) = Members(q) \cup {e}
           /\ Distinct(q) /\ (e = EosId \/ e \notin Members(q)) => Distinct(Append(q, e))
  <1>1. /\ Len(Append(q, e)) = Len(q) + 1 /\ Len(q) \in Nat
        /\ \A k \in 1..Len(q) : Append(q, e)[k] = q[k]
        /\ Append(q, e)[Len(q) + 1] = e
    BY AppendFacts
  <1>2. \A k \in 1..(Len(q) + 1) : k \in 1..Len(q) \/ k = Len(q) + 1
    BY <1>1
  <1>3. 1..Len(q) \subseteq 1..(Len(q) + 1) /\ Len(q) + 1 \in 1..(Len(q) + 1)
    BY <1>1
  <1>4. Members(Append(q, e)) = Members(q) \cup {e}
    BY <1>1, <1>2, <1>3 DEF Members
  <1>5. ASSUME Distinct(q), e = EosId \/ e \notin Members(q)
        PROVE  Distinct(Append(q, e))
    BY <1>1, <1>2, <1>3, <1>5 DEF Distinct, Members
  <1> QED
    BY <1>4, <1>5

LEMMA MembersTaken ==
    ASSUME NEW S, NEW q \in Seq(S), q # <<>>, Distinct(q)
    PROVE  /\ Members(q) = Members(Tail(q)) \cup {Head(q)}
           /\ Distinct(Tail(q))
           /\ Head(q) = EosId \/ Head(q) \notin Members(Tail(q))
  <1>1. /\ Len(q) \in Nat /\ Head(q) = q[1] /\ 1 \in 1..Len(q)
        /\ Len(Tail(q)) = Len(q) - 1
        /\ \A k \in 1..Len(Tail(q)) : k + 1 \in 1..Len(q) /\ Tail(q)[k] = q[k + 1]
    BY TakeFacts
  <1>2. \A k \in 1..Len(q) : k = 1 \/ \E j \in 1..Len(Tail(q)) : Tail(q)[j] = q[k]
    <2> SUFFICES ASSUME NEW k \in 1..Len(q), k # 1
                 PROVE  \E j \in 1..Len(Tail(q)) : Tail(q)[j] = q[k]
      OBVIOUS
    <2>1. k - 1 \in 1..Len(Tail(q)) /\ (k - 1) + 1 = k
      BY <1>1
    <2>2. Tail(q)[k - 1] = q[(k - 1) + 1]
      BY <1>1, <2>1
    <2> QED
      BY <2>1, <2>2
  <1>3. \A k \in 1..Len(Tail(q)) : k \in Nat /\ k + 1 # 1
    BY <1>1
  <1>4. Members(q) = Members(Tail(q)) \cup {Head(q)}
    BY <1>1, <1>2 DEF Members
  <1>5. Distinct(Tail(q))
    BY <1>1, <1>3 DEF Distinct
  <1>6. Head(q) = EosId \/ Head(q) \notin Members(Tail(q))
    BY <1>1, <1>3 DEF Distinct, Members
  <1> QED
    BY <1>4, <1>5, <1>6

LEMMA RepliesAppended ==
    ASSUME NEW q \in Seq(Responses), NEW r \in Responses
    PROVE  /\ ReplyIds(Append(q, r)) = ReplyIds(q) \cup ({r.id} \ {EosId})
           /\ DistinctIds(q) /\ r.id \notin ReplyIds(q) => DistinctIds(Append(q, r))
  <1>1. /\ Len(Append(q, r)) = Len(q) + 1 /\ Len(q) \in Nat
        /\ \A k \in 1..Len(q) : Append(q, r)[k] = q[k]
        /\ Append(q, r)[Len(q) + 1] = r
    BY AppendFacts
  <1>2. \A k \in 1..(Len(q) + 1) : k \in 1..Len(q) \/ k = Len(q) + 1
    BY <1>1
  <1>3. 1..Len(q) \subseteq 1..(Len(q) + 1) /\ Len(q) + 1 \in 1..(Len(q) + 1)
    BY <1>1
  <1>4. ReplyIds(Append(q, r)) = ReplyIds(q) \cup ({r.id} \ {EosId})
    BY <1>1, <1>2, <1>3 DEF ReplyIds
  <1>5. ASSUME DistinctIds(q), r.id \notin ReplyIds(q)
        PROVE  DistinctIds(Append(q, r))
    BY <1>1, <1>2, <1>3, <1>5 DEF DistinctIds, ReplyIds
  <1> QED
    BY <1>4, <1>5

LEMMA RepliesTaken ==
    ASSUME NEW q \in Seq(Responses), q # <<>>, DistinctIds(q)
    PROVE  /\ ReplyIds(q) = ReplyIds(Tail(q)) \cup ({Head(q).id} \ {EosId})
           /\ DistinctIds(Tail(q)) /\ Head(q).id \notin ReplyIds(Tail(q))
  <1>1. /\ Len(q) \in Nat /\ Head(q) = q[1] /\ 1 \in 1..Len(q)
        /\ Len(Tail(q)) = Len(q) - 1
        /\ \A k \in 1..Len(Tail(q)) : k + 1 \in 1..Len(q) /\ Tail(q)[k] = q[k + 1]
    BY TakeFacts
  <1>2. \A k \in 1..Len(q) : k = 1 \/ \E j \in 1..Len(Tail(q)) : Tail(q)[j] = q[k]
    <2> SUFFICES ASSUME NEW k \in 1..Len(q), k # 1
                 PROVE  \E j \in 1..Len(Tail(q)) : Tail(q)[j] = q[k]
      OBVIOUS
    <2>1. k - 1 \in 1..Len(Tail(q)) /\ (k - 1) + 1 = k
      BY <1>1
    <2>2. Tail(q)[k - 1] = q[(k - 1) + 1]
      BY <1>1, <2>1
    <2> QED
      BY <2>1, <2>2
  <1>3. \A k \in 1..Len(Tail(q)) : k \in Nat /\ k + 1 # 1
    BY <1>1
  <1>4. ReplyIds(q) = ReplyIds(Tail(q)) \cup ({Head(q).id} \ {EosId})
    BY <1>1, <1>2 DEF ReplyIds
  <1>5. DistinctIds(Tail(q))
    BY <1>1, <1>3 DEF DistinctIds
  <1>6. Head(q).id \notin ReplyIds(Tail(q))
    BY <1>1, <1>3 DEF DistinctIds, ReplyIds
  <1> QED
    BY <1>4, <1>5, <1>6

\* A queue that holds nothing twice has one occurrence of what it holds.
LEMMA CountFacts ==
    ASSUME NEW f, NEW n \in Nat, DOMAIN f = 1..n, NEW i,
           \A j, k \in 1..n : f[j] = i /\ f[k] = i => j = k
    PROVE  Occurrences(f, i) = One(\E k \in 1..n : f[k] = i)
  <1> DEFINE M == {k \in DOMAIN f : f[k] = i}
  <1>1. CASE \E k \in 1..n : f[k] = i
    <2>1. PICK k \in 1..n : f[k] = i
      BY <1>1
    <2>2. M = {k}
      BY <2>1
    <2>3. Cardinality({k}) = 1
      BY FS_Singleton
    <2> QED
      BY <1>1, <2>2, <2>3 DEF Occurrences, One
  <1>2. CASE ~ \E k \in 1..n : f[k] = i
    <2>1. M = {}
      BY <1>2
    <2> QED
      BY <1>2, <2>1, FS_EmptySet DEF Occurrences, One
  <1> QED
    BY <1>1, <1>2

-----------------------------------------------------------------------------
(* How the steps move requests from place to place                         *)

LEMMA OfferedFacts ==
    \A i : i \in Offered <=> \E c \in Callers : callAt[c] = "offer" /\ callId[c] = i
  BY DEF Offered

CallTypes ==
    /\ nextMsgId \in 0..MaxMsgId
    /\ callAt \in [Callers -> {"idle", "admit", "register", "offer", "mark", "await",
                               "waiting", "check", "answered", "expired"}]
    /\ callId \in [Callers -> MsgIds \cup {EosId}]

LEMMA CallsMove ==
    ASSUME IInv, NEW c \in Callers, BeginCall(c) \/ CallStep(c)
    PROVE  \/ /\ Register(c) /\ nextMsgId' = nextMsgId + 1
              /\ Offered' = Offered \cup {nextMsgId'} /\ transmitQueue' = transmitQueue
           \/ /\ Offer(c) /\ nextMsgId' = nextMsgId /\ callId[c] \in Offered
              /\ Offered' = Offered \ {callId[c]}
              /\ transmitQueue' = Append(transmitQueue, callId[c])
           \/ /\ OfferTimesOut(c) /\ nextMsgId' = nextMsgId
              /\ Offered' = Offered \ {callId[c]} /\ transmitQueue' = transmitQueue
           \/ /\ ~Register(c) /\ ~Offer(c) /\ ~OfferTimesOut(c)
              /\ UNCHANGED <<nextMsgId, callId, transmitQueue>> /\ Offered' = Offered
  <1>0. CallTypes /\ IdsInv
    BY DEF IInv, TypeOK, CallTypeOK, CallTypes
  <1>1. CASE Register(c)
    <2>1. /\ callAt[c] = "register" /\ callAt' = [callAt EXCEPT ![c] = "offer"]
          /\ callId' = [callId EXCEPT ![c] = nextMsgId'] /\ nextMsgId' = nextMsgId + 1
          /\ transmitQueue' = transmitQueue
      BY <1>1 DEF Register, CallGoes
    <2>2. \A i : i \in Offered' <=> i \in Offered \cup {nextMsgId'}
      BY <1>0, <2>1, OfferedFacts DEF Offered, CallTypes
    <2> QED
      BY <1>1, <2>1, <2>2
  <1>2. CASE Offer(c)
    <2>1. /\ callAt[c] = "offer" /\ callAt' = [callAt EXCEPT ![c] = "mark"]
          /\ transmitQueue' = Append(transmitQueue, callId[c])
          /\ UNCHANGED <<callId, nextMsgId>>
      BY <1>2 DEF Offer, CallGoes, msgVars
    <2>2. callId[c] \in Offered
      BY <2>1, OfferedFacts
    <2>3. \A d \in Callers : callAt[d] = "offer" /\ callId[d] = callId[c] => d = c
      BY <1>0, <2>1 DEF IdsInv, Active
    <2>4. \A i : i \in Offered' <=> i \in Offered \ {callId[c]}
      BY <1>0, <2>1, <2>3, OfferedFacts DEF Offered, CallTypes
    <2> QED
      BY <1>2, <2>1, <2>2, <2>4
  <1>3. CASE OfferTimesOut(c)
    <2>1. /\ callAt[c] = "offer" /\ callAt' = [callAt EXCEPT ![c] = "idle"]
          /\ UNCHANGED <<callId, nextMsgId, transmitQueue>>
      BY <1>3 DEF OfferTimesOut, CallGoes, msgVars
    <2>2. \A d \in Callers : callAt[d] = "offer" /\ callId[d] = callId[c] => d = c
      BY <1>0, <2>1 DEF IdsInv, Active
    <2>3. \A i : i \in Offered' <=> i \in Offered \ {callId[c]}
      BY <1>0, <2>1, <2>2, OfferedFacts DEF Offered, CallTypes
    <2> QED
      BY <1>3, <2>1, <2>3
  <1>4. CASE ~Register(c) /\ ~Offer(c) /\ ~OfferTimesOut(c)
    <2>1. /\ UNCHANGED <<nextMsgId, callId, transmitQueue>>
          /\ \A d \in Callers : callAt'[d] = "offer" <=> callAt[d] = "offer"
      BY <1>0, <1>4 DEF CallTypes, CallStep, BeginCall, Admit, MarkWaiting, Await, LeaveWait,
         CheckStatus, EndCall, CallGoes, msgVars
    <2>2. \A i : i \in Offered' <=> i \in Offered
      BY <2>1, OfferedFacts DEF Offered
    <2> QED
      BY <1>4, <2>1, <2>2
  <1> QED
    BY <1>1, <1>2, <1>3, <1>4

LEMMA OnceCalls ==
    ASSUME IInv, OnceInv, NEW c \in Callers, BeginCall(c) \/ CallStep(c)
    PROVE  OnceInv'
  <1>1. UNCHANGED notCall
    BY CallsLeaveOthers
  <1>2. UNCHANGED <<InHand, Sent, executing, Replied, Received, toServer, toClient>>
    BY <1>1 DEF notCall, xmtVars, rdrVars, wireVars, peerVars, InHand, Sent, Replied, Received,
       Members, ReplyIds
  <1>3. nextMsgId \in Nat /\ transmitQueue \in Seq(MsgIds) /\ \A i \in MsgIds : i # EosId
    BY DEF IInv, TypeOK, CallTypeOK, WireTypeOK, MsgIds, EosId
  <1>4. CASE Register(c) /\ nextMsgId' = nextMsgId + 1
             /\ Offered' = Offered \cup {nextMsgId'} /\ transmitQueue' = transmitQueue
    <2>1. nextMsgId' \notin 1..nextMsgId /\ 1..nextMsgId' = 1..nextMsgId \cup {nextMsgId'}
      BY <1>3, <1>4
    <2>2. Queued' = Queued
      BY <1>4 DEF Queued, Members
    <2>3. nextMsgId' \notin Everywhere /\ Everywhere' \subseteq 1..nextMsgId'
      BY <1>2, <1>4, <2>1, <2>2 DEF OnceInv, Everywhere
    <2>4. Apart'
      BY <1>2, <1>4, <2>2, <2>3 DEF OnceInv, Apart, Everywhere
    <2> QED
      BY <1>2, <1>4, <2>3, <2>4 DEF OnceInv, NoneTwice, Distinct, DistinctIds
  <1>5. CASE /\ Offer(c) /\ nextMsgId' = nextMsgId /\ callId[c] \in Offered
             /\ Offered' = Offered \ {callId[c]}
             /\ transmitQueue' = Append(transmitQueue, callId[c])
    <2>1. callId[c] \in MsgIds /\ callId[c] \notin Queued
      BY <1>5, ClientAssumption DEF OnceInv, Apart, Everywhere, IInv, IdsInv, Active, Offer, MsgIds,
         TypeOK, CallTypeOK
    <2>2. Queued' = Queued \cup {callId[c]} /\ Distinct(transmitQueue)'
      BY <1>3, <1>5, <2>1, MembersAppended DEF Queued, OnceInv, NoneTwice
    <2>3. Apart' /\ Everywhere' = Everywhere
      BY <1>2, <1>5, <2>2 DEF OnceInv, Apart, Everywhere
    <2> QED
      BY <1>2, <1>5, <2>2, <2>3 DEF OnceInv, NoneTwice, Distinct, DistinctIds
  <1>6. CASE /\ Offered' \subseteq Offered /\ transmitQueue' = transmitQueue /\ nextMsgId' = nextMsgId
    <2>1. Queued' = Queued
      BY <1>6 DEF Queued, Members
    <2>2. Apart' /\ Everywhere' \subseteq Everywhere
      BY <1>2, <1>6, <2>1 DEF OnceInv, Apart, Everywhere
    <2> QED
      BY <1>2, <1>6, <2>1, <2>2 DEF OnceInv, NoneTwice, Distinct, DistinctIds
  <1> QED
    BY <1>4, <1>5, <1>6, CallsMove

LEMMA TransmitterMoves ==
    ASSUME IInv, TransmitterStep
    PROVE  /\ UNCHANGED <<Offered, executing, Replied, Received, nextMsgId, toClient>>
           /\ \/ /\ transmitQueue # <<>> /\ xmtId' = Head(transmitQueue) /\ xmtAt' = "lookup"
                 /\ transmitQueue' = Tail(transmitQueue) /\ toServer' = toServer
                 /\ InHand = {}
              \/ /\ UNCHANGED <<transmitQueue, toServer>> /\ InHand' \subseteq InHand
              \/ /\ transmitQueue' = transmitQueue /\ InHand = {xmtId} /\ InHand' = {}
                 /\ toServer' = Append(toServer, xmtId) /\ Len(toServer) < WireCap
  <1>1. UNCHANGED notXmt /\ toClient' = toClient
    BY DEF TransmitterStep, XmtLoop, XmtTake, XmtLookup, XmtSpin, XmtInterrupted,
       XmtWriteBegin, XmtWriteRefused, XmtWriteDone, XmtWriteBroken, XmtWriteClosed, XmtStop, wireVars
  <1>2. UNCHANGED <<Offered, executing, Replied, Received, nextMsgId, toClient>>
    BY <1>1 DEF notXmt, callVars, msgVars, rdrVars, peerVars, Offered, Replied, ReplyIds, Received
  <1>3. CASE XmtTake
    BY <1>2, <1>3 DEF XmtTake, InHand, wireVars
  <1>4. CASE XmtWriteDone \/ XmtWriteClosed
    BY <1>2, <1>4 DEF XmtWriteDone, XmtWriteClosed, InHand
  <1>5. CASE \/ XmtLoop \/ XmtLookup \/ XmtSpin \/ XmtInterrupted \/ XmtWriteBegin
             \/ XmtWriteRefused \/ XmtWriteBroken \/ XmtStop
    BY <1>2, <1>5 DEF XmtLoop, XmtLookup, XmtSpin, XmtInterrupted, XmtWriteBegin,
       XmtWriteRefused, XmtWriteBroken, XmtStop, wireVars, InHand
  <1> QED
    BY <1>3, <1>4, <1>5 DEF TransmitterStep

LEMMA OnceTransmitter ==
    ASSUME IInv, OnceInv, TransmitterStep
    PROVE  OnceInv'
  <1>0. /\ transmitQueue \in Seq(MsgIds) /\ toServer \in Seq(MsgIds \cup {EosId})
        /\ xmtId \in MsgIds \cup {EosId} /\ EosId \notin MsgIds
        /\ xmtAt \in {"lookup", "spin", "write", "writing"} => xmtId \in MsgIds
    BY DEF IInv, TypeOK, WireTypeOK, ThreadTypeOK, MarkInv, MsgIds, EosId
  <1>1. UNCHANGED <<Offered, executing, Replied, Received, nextMsgId, toClient>>
    BY TransmitterMoves
  <1>2. CASE /\ transmitQueue # <<>> /\ xmtId' = Head(transmitQueue) /\ xmtAt' = "lookup"
             /\ transmitQueue' = Tail(transmitQueue) /\ toServer' = toServer
             /\ InHand = {}
    <2>1. Head(transmitQueue) \in MsgIds
      BY <1>0, <1>2, TakeFacts
    <2>2. /\ Queued = Queued' \cup {Head(transmitQueue)} /\ Distinct(transmitQueue)'
          /\ Head(transmitQueue) \notin Queued'
      BY <1>0, <1>2, <2>1, MembersTaken DEF Queued, OnceInv, NoneTwice
    <2>3. InHand' = {Head(transmitQueue)} /\ Sent' = Sent
      BY <1>2 DEF InHand, Sent, Members
    <2>4. Apart' /\ Everywhere' = Everywhere
      BY <1>1, <1>2, <2>2, <2>3 DEF OnceInv, Apart, Everywhere
    <2> QED
      BY <1>1, <1>2, <2>2, <2>4 DEF OnceInv, NoneTwice, Distinct, DistinctIds
  <1>3. CASE UNCHANGED <<transmitQueue, toServer>> /\ InHand' \subseteq InHand
    <2>1. Queued' = Queued /\ Sent' = Sent
      BY <1>3 DEF Queued, Sent, Members
    <2>2. Apart' /\ Everywhere' \subseteq Everywhere
      BY <1>1, <1>3, <2>1 DEF OnceInv, Apart, Everywhere
    <2> QED
      BY <1>1, <1>3, <2>2 DEF OnceInv, NoneTwice, Distinct, DistinctIds
  <1>4. CASE /\ transmitQueue' = transmitQueue /\ InHand = {xmtId} /\ InHand' = {}
             /\ toServer' = Append(toServer, xmtId)
    <2>1. Queued' = Queued /\ xmtId \in MsgIds
      BY <1>0, <1>4 DEF Queued, Members, InHand
    <2>2. xmtId \notin Sent /\ xmtId \notin Members(toServer)
      BY <1>0, <1>4, <2>1 DEF OnceInv, Apart, Sent
    <2>3. Members(toServer)' = Members(toServer) \cup {xmtId} /\ Distinct(toServer)'
      BY <1>0, <1>4, <2>2, MembersAppended DEF OnceInv, NoneTwice
    <2>4. Sent' = Sent \cup {xmtId}
      BY <1>0, <2>1, <2>3 DEF Sent
    <2>5. Apart' /\ Everywhere' = Everywhere
      BY <1>1, <1>4, <2>1, <2>4 DEF OnceInv, Apart, Everywhere
    <2> QED
      BY <1>1, <1>4, <2>3, <2>5 DEF OnceInv, NoneTwice, Distinct, DistinctIds
  <1> QED
    BY <1>2, <1>3, <1>4, TransmitterMoves

LEMMA ReaderMoves ==
    ASSUME IInv, ReaderStep
    PROVE  /\ UNCHANGED <<Offered, Queued, InHand, Sent, executing, nextMsgId,
                          transmitQueue, toServer>>
           /\ \/ /\ toClient # <<>> /\ toClient' = Tail(toClient) /\ Received = {}
                 /\ Received' = {Head(toClient).id} \ {EosId}
              \/ toClient' = toClient /\ Received' \subseteq Received
  <1>1. UNCHANGED notRdr /\ toServer' = toServer /\ nextMsgId' = nextMsgId
    BY DEF ReaderStep, RdrLoop, RdrRead, RdrReadFails, RdrEndOfStream, RdrClosed,
       RdrLookup, RdrSetData, RdrNotify, RdrStop, wireVars, msgVars
  <1>2. UNCHANGED <<Offered, Queued, InHand, Sent, executing, transmitQueue, toServer>>
    BY <1>1 DEF notRdr, callVars, xmtVars, peerVars, Offered, Queued, InHand, Sent, Members
  <1>3. CASE RdrRead
    <2>1. /\ rdrAt = "read" /\ toClient # <<>> /\ response' = Head(toClient)
          /\ toClient' = Tail(toClient)
          /\ rdrAt' = IF response'.kind = "eos" THEN "eos" ELSE "lookup"
      BY <1>3 DEF RdrRead
    <2>2. 1 \in 1..Len(toClient) /\ Head(toClient) = toClient[1]
      BY <2>1, TakeFacts DEF IInv, TypeOK, WireTypeOK
    <2>3. Head(toClient) = Eos \/ Genuine(Head(toClient))
      BY <2>2 DEF IInv, MarkInv
    <2>4. Received = {}
      BY <2>1 DEF Received
    <2>5. Received' = {Head(toClient).id} \ {EosId}
      BY <2>1, <2>3 DEF Received, Eos, Genuine, EosId, MsgIds
    <2> QED
      BY <1>1, <1>2, <2>1, <2>4, <2>5
  <1>4. CASE \/ RdrLoop \/ RdrReadFails \/ RdrEndOfStream \/ RdrClosed \/ RdrLookup
             \/ RdrSetData \/ RdrNotify \/ RdrStop
    <2>1. toClient' = toClient /\ Received' \subseteq Received
      BY <1>4 DEF RdrLoop, RdrReadFails, RdrEndOfStream, RdrClosed, RdrLookup,
         RdrSetData, RdrNotify, RdrStop, wireVars, Received
    <2> QED
      BY <1>1, <1>2, <2>1
  <1> QED
    BY <1>3, <1>4 DEF ReaderStep

LEMMA OnceReader ==
    ASSUME IInv, OnceInv, ReaderStep
    PROVE  OnceInv'
  <1>0. toClient \in Seq(Responses)
    BY DEF IInv, TypeOK, WireTypeOK
  <1>1. UNCHANGED <<Offered, Queued, InHand, Sent, executing, nextMsgId, transmitQueue, toServer>>
    BY ReaderMoves
  <1>2. CASE /\ toClient # <<>> /\ toClient' = Tail(toClient) /\ Received = {}
             /\ Received' = {Head(toClient).id} \ {EosId}
    <2>1. /\ Replied = Replied' \cup Received' /\ DistinctIds(toClient)'
          /\ Received' \cap Replied' = {}
      BY <1>0, <1>2, RepliesTaken DEF Replied, OnceInv, NoneTwice
    <2>2. Apart' /\ Everywhere' = Everywhere
      BY <1>1, <1>2, <2>1 DEF OnceInv, Apart, Everywhere
    <2> QED
      BY <1>1, <2>1, <2>2 DEF OnceInv, NoneTwice, Distinct
  <1>3. CASE toClient' = toClient /\ Received' \subseteq Received
    <2>1. Replied' = Replied
      BY <1>3 DEF Replied, ReplyIds
    <2>2. Apart' /\ Everywhere' \subseteq Everywhere
      BY <1>1, <1>3, <2>1 DEF OnceInv, Apart, Everywhere
    <2> QED
      BY <1>1, <1>3, <2>2 DEF OnceInv, NoneTwice, Distinct, DistinctIds
  <1> QED
    BY <1>2, <1>3, ReaderMoves

LEMMA CloseMoves ==
    ASSUME IInv, NEW p \in Runners, CloseBegin(p) \/ CloseStep(p)
    PROVE  /\ UNCHANGED <<Offered, Queued, InHand, executing, Replied, Received, nextMsgId,
                          transmitQueue, toClient>>
           /\ toServer' = toServer \/ toServer' = Append(toServer, EosId)
  <1>1. /\ UNCHANGED notClose /\ toClient' = toClient
        /\ toServer' = toServer \/ toServer' = Append(toServer, EosId)
    BY DEF CloseStep, CloseBegin, CloseGuard, CloseEosBegin, CloseEosDone,
       CloseEosFails, ClosePipe, CloseTest, CloseTerminate, CloseInterrupt, wireVars
  <1> QED
    BY <1>1 DEF notClose, callVars, msgVars, xmtVars, rdrVars, peerVars, Offered, Queued,
       InHand, Replied, ReplyIds, Members, Received

LEMMA OnceClose ==
    ASSUME IInv, OnceInv, NEW p \in Runners, CloseBegin(p) \/ CloseStep(p)
    PROVE  OnceInv'
  <1>0. toServer \in Seq(MsgIds \cup {EosId})
    BY DEF IInv, TypeOK, WireTypeOK
  <1>1. UNCHANGED <<Offered, Queued, InHand, executing, Replied, Received, nextMsgId,
                    transmitQueue, toClient>>
    BY CloseMoves
  <1>2. toServer' = toServer \/ toServer' = Append(toServer, EosId)
    BY CloseMoves
  <1>3. Sent' = Sent /\ Distinct(toServer)'
    <2>1. CASE toServer' = toServer
      BY <2>1 DEF Sent, Members, OnceInv, NoneTwice, Distinct
    <2>2. CASE toServer' = Append(toServer, EosId)
      <3>1. Members(toServer)' = Members(toServer) \cup {EosId} /\ Distinct(toServer)'
        BY <1>0, <2>2, MembersAppended DEF OnceInv, NoneTwice
      <3> QED
        BY <3>1 DEF Sent
    <2> QED
      BY <1>2, <2>1, <2>2
  <1>4. Apart' /\ Everywhere' = Everywhere
    BY <1>1, <1>3 DEF OnceInv, Apart, Everywhere
  <1> QED
    BY <1>1, <1>3, <1>4 DEF OnceInv, NoneTwice, Distinct, DistinctIds

LEMMA PeerMoves ==
    ASSUME IInv, \/ ServerReceive \/ ServerShutdown \/ \E i \in executing : ServerAnswer(i)
    PROVE  /\ UNCHANGED <<Offered, Queued, InHand, Received, nextMsgId, transmitQueue>>
           /\ \/ /\ toServer # <<>> /\ toServer' = Tail(toServer) /\ toClient' = toClient
                 /\ Head(toServer) # EosId
                 /\ executing' = executing \cup {Head(toServer)}
              \/ /\ \/ toServer' = toServer
                    \/ toServer # <<>> /\ toServer' = Tail(toServer) /\ Head(toServer) = EosId
                 /\ executing' = executing
                 /\ toClient' = toClient \/ toClient' = Append(toClient, Eos)
              \/ \E i \in executing :
                   /\ toServer' = toServer /\ executing' = executing \ {i}
                   /\ toClient' = Append(toClient, [id |-> i, kind |-> "reply", of |-> i])
  <1>1. UNCHANGED notPeer
    BY DEF ServerReceive, ServerShutdown, ServerAnswer
  <1>2. UNCHANGED <<Offered, Queued, InHand, Received, nextMsgId, transmitQueue>>
    BY <1>1 DEF notPeer, callVars, msgVars, xmtVars, rdrVars, Offered, Queued, InHand,
       Received, Members
  <1>3. CASE ServerReceive
    BY <1>2, <1>3 DEF ServerReceive, ServerStops
  <1>4. CASE ServerShutdown
    BY <1>2, <1>4 DEF ServerShutdown, ServerStops
  <1>5. CASE \E i \in executing : ServerAnswer(i)
    BY <1>2, <1>5 DEF ServerAnswer
  <1> QED
    BY <1>3, <1>4, <1>5

LEMMA OncePeer ==
    ASSUME IInv, OnceInv, \/ ServerReceive \/ ServerShutdown \/ \E i \in executing : ServerAnswer(i)
    PROVE  OnceInv'
  <1>0. /\ toServer \in Seq(MsgIds \cup {EosId}) /\ toClient \in Seq(Responses)
        /\ executing \subseteq MsgIds /\ EosId \notin MsgIds
    BY DEF IInv, TypeOK, WireTypeOK, MsgIds, EosId
  <1>1. UNCHANGED <<Offered, Queued, InHand, Received, nextMsgId, transmitQueue>>
    BY PeerMoves
  <1>2. ASSUME toServer # <<>>, toServer' = Tail(toServer)
        PROVE  /\ Sent = Sent' \cup ({Head(toServer)} \ {EosId}) /\ Distinct(toServer)'
               /\ Head(toServer) \notin Sent'
    BY <1>0, <1>2, MembersTaken DEF Sent, OnceInv, NoneTwice
  <1>3. CASE /\ toServer # <<>> /\ toServer' = Tail(toServer) /\ toClient' = toClient
             /\ Head(toServer) # EosId
             /\ executing' = executing \cup {Head(toServer)}
    <2>1. Replied' = Replied
      BY <1>3 DEF Replied, ReplyIds
    <2>2. Sent = Sent' \cup {Head(toServer)} /\ Head(toServer) \notin Sent'
      BY <1>2, <1>3
    <2>3. Apart' /\ Everywhere' = Everywhere
      BY <1>1, <1>3, <2>1, <2>2 DEF OnceInv, Apart, Everywhere
    <2> QED
      BY <1>1, <1>2, <1>3, <2>3 DEF OnceInv, NoneTwice, Distinct, DistinctIds
  <1>4. CASE /\ \/ toServer' = toServer
                \/ toServer # <<>> /\ toServer' = Tail(toServer) /\ Head(toServer) = EosId
             /\ executing' = executing
             /\ toClient' = toClient \/ toClient' = Append(toClient, Eos)
    <2>1. Sent' = Sent /\ Distinct(toServer)'
      <3>1. CASE toServer' = toServer
        BY <3>1 DEF Sent, Members, OnceInv, NoneTwice, Distinct
      <3>2. CASE toServer # <<>> /\ toServer' = Tail(toServer) /\ Head(toServer) = EosId
        BY <1>2, <3>2
      <3> QED
        BY <1>4, <3>1, <3>2
    <2>2. Replied' = Replied /\ DistinctIds(toClient)'
      <3>1. CASE toClient' = toClient
        BY <3>1 DEF Replied, ReplyIds, OnceInv, NoneTwice, DistinctIds
      <3>2. CASE toClient' = Append(toClient, Eos)
        <4>1. Eos.id = EosId /\ EosId \notin ReplyIds(toClient)
          BY DEF Eos, ReplyIds
        <4>2. /\ ReplyIds(Append(toClient, Eos)) = ReplyIds(toClient)
              /\ DistinctIds(toClient) => DistinctIds(Append(toClient, Eos))
          <5>1. {Eos.id} \ {EosId} = {}
            BY <4>1
          <5> HIDE DEF Eos
          <5>2. /\ ReplyIds(Append(toClient, Eos)) = ReplyIds(toClient) \cup ({Eos.id} \ {EosId})
                /\ DistinctIds(toClient) /\ Eos.id \notin ReplyIds(toClient)
                     => DistinctIds(Append(toClient, Eos))
            BY <1>0, EosType, RepliesAppended
          <5> QED
            BY <4>1, <5>1, <5>2
        <4> QED
          BY <3>2, <4>2 DEF Replied, OnceInv, NoneTwice
      <3> QED
        BY <1>4, <3>1, <3>2
    <2>3. Apart' /\ Everywhere' = Everywhere
      BY <1>1, <1>4, <2>1, <2>2 DEF OnceInv, Apart, Everywhere
    <2> QED
      BY <1>1, <2>1, <2>2, <2>3 DEF OnceInv, NoneTwice, Distinct
  <1>5. ASSUME NEW i \in executing, toServer' = toServer, executing' = executing \ {i},
               toClient' = Append(toClient, [id |-> i, kind |-> "reply", of |-> i])
        PROVE  OnceInv'
    <2> DEFINE r == [id |-> i, kind |-> "reply", of |-> i]
    <2>1. r \in Responses /\ r.id = i /\ i \in MsgIds /\ i # EosId
      BY <1>0 DEF Responses
    <2>2. i \notin ReplyIds(toClient)
      BY DEF OnceInv, Apart, Replied
    <2>3. Replied' = Replied \cup {i} /\ DistinctIds(toClient)'
      <3> HIDE DEF r
      <3> QED
        BY <1>0, <1>5, <2>1, <2>2, RepliesAppended DEF Replied, OnceInv, NoneTwice, r
    <2>4. Sent' = Sent
      BY <1>5 DEF Sent, Members
    <2>5. Apart' /\ Everywhere' = Everywhere
      BY <1>1, <1>5, <2>3, <2>4 DEF OnceInv, Apart, Everywhere
    <2> QED
      BY <1>1, <1>5, <2>3, <2>5 DEF OnceInv, NoneTwice, Distinct
  <1> QED
    BY <1>3, <1>4, <1>5, PeerMoves

-----------------------------------------------------------------------------
(* Theorems                                                                *)

LEMMA OnceInit == Init => OnceInv
  <1> SUFFICES ASSUME Init
               PROVE  OnceInv
    OBVIOUS
  <1>1. /\ transmitQueue = <<>> /\ toServer = <<>> /\ toClient = <<>> /\ executing = {}
        /\ Offered = {} /\ InHand = {} /\ Received = {}
    BY DEF Init, Offered, InHand, Received
  <1>2. /\ \A k : k \notin 1..Len(transmitQueue)
        /\ \A k : k \notin 1..Len(toServer)
        /\ \A k : k \notin 1..Len(toClient)
    BY <1>1
  <1>3. Queued = {} /\ Sent = {} /\ Replied = {}
    BY <1>2 DEF Queued, Sent, Replied, Members, ReplyIds
  <1> QED
    BY <1>1, <1>2, <1>3 DEF OnceInv, Apart, NoneTwice, Distinct, DistinctIds, Everywhere

\* Each request is in one place at a time (its caller's offer, transmitQueue, the hands of
\* the RequestTransmitter, the pipe, the server, the way back, the ResponseReader).
THEOREM OnePlaceEach == Spec => []OnceInv
  <1>1. IInv /\ OnceInv /\ [Next]_vars => OnceInv'
    <2> SUFFICES ASSUME IInv, OnceInv, [Next]_vars
                 PROVE  OnceInv'
      OBVIOUS
    <2>1. CASE UNCHANGED vars
      <3>1. UNCHANGED <<callAt, callId, nextMsgId, transmitQueue, xmtAt, xmtId, rdrAt, response,
                        toServer, toClient, executing>>
        BY <2>1 DEF vars, callVars, msgVars, xmtVars, rdrVars, wireVars, peerVars
      <3>2. UNCHANGED <<Offered, Queued, InHand, Sent, Replied, Received>>
        BY <3>1 DEF Offered, Queued, InHand, Sent, Replied, Received, Members, ReplyIds
      <3>3. Apart' /\ Everywhere' = Everywhere
        BY <3>1, <3>2 DEF OnceInv, Apart, Everywhere
      <3> QED
        BY <3>1, <3>3 DEF OnceInv, NoneTwice, Distinct, DistinctIds
    <2> QED
      BY <2>1, OnceCalls, OnceTransmitter, OnceReader, OnceClose, OncePeer DEF Next
  <1> QED
    BY Invariance, OnceInit, <1>1, PTL DEF Spec

\* A request is executed at most once: it is never queued, in the transmitter's hands, in
\* the pipe, with a worker or on its way back twice (RequestTransmitter.java 33-43).
THEOREM ExecutedAtMostOnce == Spec => []SentAtMostOnce
  <1>1. IInv /\ OnceInv => SentAtMostOnce
    <2> SUFFICES ASSUME IInv, OnceInv, NEW i \in MsgIds
                 PROVE  Occurrences(transmitQueue, i) + Occurrences(toServer, i)
                          + One(xmtId = i /\ xmtAt \in {"lookup", "spin", "write", "writing"})
                          + One(i \in executing)
                          + Occurrences([k \in DOMAIN toClient |-> toClient[k].id], i)  <= 1
      BY DEF SentAtMostOnce
    <2>0. /\ i # EosId
          /\ Len(transmitQueue) \in Nat /\ DOMAIN transmitQueue = 1..Len(transmitQueue)
          /\ Len(toServer) \in Nat /\ DOMAIN toServer = 1..Len(toServer)
          /\ Len(toClient) \in Nat /\ DOMAIN toClient = 1..Len(toClient)
      BY DEF IInv, TypeOK, WireTypeOK, MsgIds, EosId
    <2>1. Occurrences(transmitQueue, i) = One(i \in Queued)
      <3>1. \A j, k \in 1..Len(transmitQueue) :
              transmitQueue[j] = i /\ transmitQueue[k] = i => j = k
        BY <2>0 DEF OnceInv, NoneTwice, Distinct
      <3>2. Occurrences(transmitQueue, i) = One(\E k \in 1..Len(transmitQueue) : transmitQueue[k] = i)
        BY <2>0, <3>1, CountFacts
      <3>3. (\E k \in 1..Len(transmitQueue) : transmitQueue[k] = i) <=> i \in Queued
        BY DEF Queued, Members
      <3> QED
        BY <3>2, <3>3 DEF One
    <2>2. Occurrences(toServer, i) = One(i \in Sent)
      <3>1. \A j, k \in 1..Len(toServer) : toServer[j] = i /\ toServer[k] = i => j = k
        BY <2>0 DEF OnceInv, NoneTwice, Distinct
      <3>2. Occurrences(toServer, i) = One(\E k \in 1..Len(toServer) : toServer[k] = i)
        BY <2>0, <3>1, CountFacts
      <3>3. (\E k \in 1..Len(toServer) : toServer[k] = i) <=> i \in Sent
        BY <2>0 DEF Sent, Members
      <3> QED
        BY <3>2, <3>3 DEF One
    <2>3. Occurrences([k \in DOMAIN toClient |-> toClient[k].id], i) = One(i \in Replied)
      <3> DEFINE f == [k \in DOMAIN toClient |-> toClient[k].id]
      <3>1. DOMAIN f = 1..Len(toClient) /\ \A k \in 1..Len(toClient) : f[k] = toClient[k].id
        BY <2>0
      <3>2. \A j, k \in 1..Len(toClient) : f[j] = i /\ f[k] = i => j = k
        BY <2>0, <3>1 DEF OnceInv, NoneTwice, DistinctIds
      <3>3. (\E k \in 1..Len(toClient) : f[k] = i) <=> i \in Replied
        BY <2>0, <3>1 DEF Replied, ReplyIds
      <3> HIDE DEF f
      <3>4. Occurrences(f, i) = One(\E k \in 1..Len(toClient) : f[k] = i)
        BY <2>0, <3>1, <3>2, CountFacts
      <3> QED
        BY <3>3, <3>4 DEF One, f
    <2>4. One(xmtId = i /\ xmtAt \in {"lookup", "spin", "write", "writing"}) = One(i \in InHand)
      BY DEF One, InHand
    <2>5. One(i \in Queued) + One(i \in Sent) + One(i \in InHand) + One(i \in executing)
            + One(i \in Replied) <= 1
      BY DEF OnceInv, Apart, One
    <2>6. \A b \in BOOLEAN : One(b) \in Nat
      BY DEF One
    <2> QED
      BY <2>1, <2>2, <2>3, <2>4, <2>5, <2>6
  <1> QED
    BY Invariance, OnePlaceEach, <1>1, PTL

-----------------------------------------------------------------------------
(* Each step is one of PipeRpc's, or a stutter                             *)

RpcSame == UNCHANGED <<nextMsgId, Request, Result, Pending, executing, Answers>>

LEMMA RpcTypes ==
    ASSUME IInv
    PROVE  /\ CallTypes
           /\ \A c \in Callers : callAt[c] \in InCall => callId[c] \in MsgIds
           /\ \A c \in Callers : callAt[c] = "answered" => data[callId[c]].of = callId[c]
           /\ EosId = 0 /\ 0 \notin MsgIds /\ 1..MaxMsgId = MsgIds
  BY ClientAssumption DEF IInv, TypeOK, CallTypeOK, CallTypes, IdsInv, DataInv, Active, InCall,
     Answer, MsgIds, EosId

\* What a call changes of the abstract state is its own part.
LEMMA CallAlone ==
    ASSUME IInv, NEW c \in Callers, BeginCall(c) \/ CallStep(c)
    PROVE  /\ \A d \in Callers \ {c} : callAt'[d] = callAt[d] /\ callId'[d] = callId[d]
           /\ data' = data
           /\ UNCHANGED <<InHand, Sent, executing, Replied, Received, Stored>>
  <1>1. UNCHANGED notCall /\ data' = data
    BY CallsLeaveOthers DEF CallStep, BeginCall, Admit, Register, Offer, OfferTimesOut,
       MarkWaiting, Await, LeaveWait, CheckStatus, EndCall, msgVars
  <1>2. UNCHANGED <<InHand, Sent, executing, Replied, Received, Stored>>
    BY <1>1 DEF notCall, xmtVars, rdrVars, wireVars, peerVars, InHand, Sent, Replied, Received,
       Stored, Members, ReplyIds
  <1>3. \A d \in Callers \ {c} : callAt'[d] = callAt[d] /\ callId'[d] = callId[d]
    BY RpcTypes DEF CallTypes, CallStep, BeginCall, Admit, Register, Offer, OfferTimesOut,
       MarkWaiting, Await, LeaveWait, CheckStatus, EndCall, CallGoes
  <1> QED
    BY <1>1, <1>2, <1>3

LEMMA RpcCalls ==
    ASSUME IInv, OnceInv, NEW c \in Callers, BeginCall(c) \/ CallStep(c)
    PROVE  Rpc!Call(c) \/ Rpc!Deliver(c) \/ Rpc!End(c) \/ RpcSame
  <1>0. /\ CallTypes /\ EosId = 0 /\ 0 \notin MsgIds
        /\ \A d \in Callers : callAt[d] \in InCall => callId[d] \in MsgIds
        /\ \A d \in Callers : callAt[d] = "answered" => data[callId[d]].of = callId[d]
    BY RpcTypes
  <1>1. /\ \A d \in Callers \ {c} : callAt'[d] = callAt[d] /\ callId'[d] = callId[d]
        /\ data' = data
        /\ UNCHANGED <<InHand, Sent, executing, Replied, Received, Stored, Answers>>
    BY CallAlone DEF Answers
  <1>2. /\ Request' = [Request EXCEPT ![c] = Request'[c]]
        /\ Result' = [Result EXCEPT ![c] = Result'[c]]
    BY <1>1 DEF Request, Result
  <1>3. CASE Register(c) /\ nextMsgId' = nextMsgId + 1
             /\ Offered' = Offered \cup {nextMsgId'} /\ transmitQueue' = transmitQueue
    <2>1. /\ callAt[c] = "register" /\ callAt'[c] = "offer" /\ callId'[c] = nextMsgId'
          /\ nextMsgId < MaxMsgId
      BY <1>0, <1>3 DEF Register, CallGoes, CallTypes
    <2>2. /\ Request[c] = 0 /\ Request'[c] = nextMsgId' /\ Result'[c] = Result[c]
      BY <1>0, <2>1 DEF Request, Result, InCall
    <2>3. Pending' = Pending \cup {nextMsgId'}
      BY <1>1, <1>3 DEF Pending, Queued, Members
    <2>4. Result' = Result
      BY <1>2, <2>2 DEF Result
    <2> QED
      BY <1>1, <1>2, <1>3, <2>1, <2>2, <2>3, <2>4 DEF Rpc!Call, Rpc!Nothing
  <1>4. CASE OfferTimesOut(c) /\ nextMsgId' = nextMsgId
             /\ Offered' = Offered \ {callId[c]} /\ transmitQueue' = transmitQueue
    <2>1. callAt[c] = "offer" /\ callAt'[c] = "idle" /\ callId[c] \in Offered
      BY <1>0, <1>4, OfferedFacts DEF OfferTimesOut, CallGoes, CallTypes
    <2>2. /\ Request[c] = callId[c] /\ Request[c] # 0 /\ Request'[c] = 0 /\ Result'[c] = 0
      BY <1>0, <2>1 DEF Request, Result, InCall
    <2>3. Pending' = Pending \ {Request[c]}
      BY <1>1, <1>4, <2>1, <2>2 DEF Pending, Queued, Members, OnceInv, Apart
    <2> QED
      BY <1>1, <1>2, <1>4, <2>2, <2>3 DEF Rpc!End, Rpc!Nothing
  <1>5. CASE /\ Offer(c) /\ nextMsgId' = nextMsgId /\ callId[c] \in Offered
             /\ Offered' = Offered \ {callId[c]}
             /\ transmitQueue' = Append(transmitQueue, callId[c])
    <2>1. callAt[c] = "offer" /\ callAt'[c] = "mark" /\ callId'[c] = callId[c]
      BY <1>0, <1>5 DEF Offer, CallGoes, CallTypes
    <2>2. Request'[c] = Request[c] /\ Result'[c] = Result[c]
      BY <1>0, <2>1 DEF Request, Result, InCall
    <2>3. callId[c] \in MsgIds /\ transmitQueue \in Seq(MsgIds)
      BY <1>0, <2>1 DEF InCall, IInv, TypeOK, WireTypeOK
    <2>4. Queued' = Queued \cup {callId[c]}
      BY <1>5, <2>3, MembersAppended DEF Queued
    <2>5. Pending' = Pending
      BY <1>1, <1>5, <2>4 DEF Pending
    <2>6. Request' = Request /\ Result' = Result
      BY <1>2, <2>2 DEF Request, Result
    <2> QED
      BY <1>1, <1>5, <2>5, <2>6 DEF RpcSame
  <1>6. CASE /\ ~Register(c) /\ ~Offer(c) /\ ~OfferTimesOut(c)
             /\ UNCHANGED <<nextMsgId, callId, transmitQueue>> /\ Offered' = Offered
    <2>0. Pending' = Pending
      BY <1>1, <1>6 DEF Pending, Queued, Members
    <2>1. CASE EndCall(c)
      <3>1. callAt[c] \in {"answered", "expired"} /\ callAt'[c] = "idle"
        BY <1>0, <2>1 DEF EndCall, CallGoes, CallTypes
      <3>2. Request[c] # 0 /\ Request'[c] = 0 /\ Result'[c] = 0
        BY <1>0, <3>1 DEF Request, Result, InCall
      <3> QED
        BY <1>1, <1>2, <1>6, <2>0, <3>2 DEF Rpc!End, Rpc!Nothing
    <2>2. CASE CheckStatus(c) /\ callAt'[c] = "answered"
      <3>1. callAt[c] = "check" /\ status[callId[c]] = "DONE" /\ callId'[c] = callId[c]
        BY <1>0, <1>6, <2>2 DEF CheckStatus, CallGoes, CallTypes
      <3>2. callId[c] \in MsgIds
        BY <1>0, <3>1 DEF InCall
      <3>3. data[callId[c]] = Answer(callId[c])
        BY <3>1, <3>2 DEF IInv, DataInv
      <3>4. callId[c] \in Answers
        BY <3>2, <3>3 DEF Answers, Stored, Answer
      <3>5. /\ Request[c] = callId[c] /\ Request'[c] = Request[c]
            /\ Result[c] = 0 /\ Result'[c] = Request[c]
        BY <1>0, <1>1, <2>2, <3>1, <3>3 DEF Request, Result, InCall, Answer
      <3>6. Request' = Request
        BY <1>2, <3>5 DEF Request
      <3> QED
        BY <1>1, <1>2, <1>6, <2>0, <3>4, <3>5, <3>6 DEF Rpc!Deliver, Rpc!Nothing
    <2>3. CASE ~EndCall(c) /\ ~(CheckStatus(c) /\ callAt'[c] = "answered")
      <3>1. /\ callAt[c] \in InCall <=> callAt'[c] \in InCall
            /\ callAt[c] # "answered" /\ callAt'[c] # "answered" /\ callId'[c] = callId[c]
        BY <1>0, <1>6, <2>3 DEF CallTypes, CallStep, BeginCall, Admit, MarkWaiting, Await,
           LeaveWait, CheckStatus, CallGoes, InCall
      <3>2. Request'[c] = Request[c] /\ Result'[c] = Result[c]
        BY <3>1 DEF Request, Result
      <3>3. Request' = Request /\ Result' = Result
        BY <1>2, <3>2 DEF Request, Result
      <3> QED
        BY <1>1, <1>6, <2>0, <3>3 DEF RpcSame
    <2> QED
      BY <2>1, <2>2, <2>3
  <1> QED
    BY <1>3, <1>4, <1>5, <1>6, CallsMove

LEMMA RpcTransmitter ==
    ASSUME IInv, OnceInv, TransmitterStep
    PROVE  RpcSame \/ \E i \in 1..MaxMsgId : Rpc!Lose(i)
  <1>1. UNCHANGED notXmt
    BY DEF TransmitterStep, XmtLoop, XmtTake, XmtLookup, XmtSpin, XmtInterrupted,
       XmtWriteBegin, XmtWriteRefused, XmtWriteDone, XmtWriteBroken, XmtWriteClosed, XmtStop
  <1>2. UNCHANGED <<nextMsgId, Request, Result, executing, Answers, Offered>>
    BY <1>1, TransmitterMoves DEF notXmt, callVars, msgVars, Request, Result, Answers, Stored
  <1>3. CASE /\ transmitQueue # <<>> /\ xmtId' = Head(transmitQueue) /\ xmtAt' = "lookup"
             /\ transmitQueue' = Tail(transmitQueue) /\ toServer' = toServer
             /\ InHand = {}
    <2>1. /\ Queued = Queued' \cup {Head(transmitQueue)}
      BY <1>3, MembersTaken DEF Queued, OnceInv, NoneTwice, IInv, TypeOK, WireTypeOK
    <2>2. InHand' = {Head(transmitQueue)} /\ Sent' = Sent
      BY <1>3 DEF InHand, Sent, Members
    <2> QED
      BY <1>2, <1>3, <2>1, <2>2 DEF Pending, RpcSame
  <1>4. CASE UNCHANGED <<transmitQueue, toServer>> /\ InHand' \subseteq InHand
    <2>1. Queued' = Queued /\ Sent' = Sent
      BY <1>4 DEF Queued, Sent, Members
    <2>2. CASE InHand' = InHand
      BY <1>2, <2>1, <2>2 DEF Pending, RpcSame
    <2>3. CASE InHand' # InHand
      <3>1. InHand = {xmtId} /\ InHand' = {} /\ xmtId \in MsgIds
        BY <1>4, <2>3 DEF InHand, IInv, MarkInv
      <3>2. Pending' = Pending \ {xmtId}
        BY <1>2, <2>1, <3>1 DEF Pending, OnceInv, Apart
      <3>3. Rpc!Lose(xmtId)
        BY <1>2, <3>2 DEF Rpc!Lose
      <3> QED
        BY <3>1, <3>3 DEF MsgIds
    <2> QED
      BY <2>2, <2>3
  <1>5. CASE /\ transmitQueue' = transmitQueue /\ InHand = {xmtId} /\ InHand' = {}
             /\ toServer' = Append(toServer, xmtId)
    <2>1. Queued' = Queued /\ xmtId \in MsgIds
      BY <1>5 DEF Queued, Members, InHand, IInv, MarkInv
    <2>2. /\ toServer \in Seq(MsgIds \cup {EosId}) /\ xmtId # EosId
      BY <2>1 DEF IInv, TypeOK, WireTypeOK, MsgIds, EosId
    <2>3. Members(Append(toServer, xmtId)) = Members(toServer) \cup {xmtId}
      BY <2>1, <2>2, MembersAppended
    <2>4. Sent' = Sent \cup {xmtId}
      BY <1>5, <2>2, <2>3 DEF Sent
    <2> QED
      BY <1>2, <1>5, <2>1, <2>4 DEF Pending, RpcSame
  <1> QED
    BY <1>3, <1>4, <1>5, TransmitterMoves

LEMMA RpcReader ==
    ASSUME IInv, OnceInv, ReaderStep
    PROVE  RpcSame \/ \E i \in 1..MaxMsgId : Rpc!Lose(i)
  <1>1. UNCHANGED <<nextMsgId, executing, Pending>>
    BY ReaderMoves DEF Pending
  <1>2. CASE RdrSetData
    <2>1. /\ rdrAt = "deliver" /\ rdrAt' = "notify" /\ response' = response
          /\ data' = [data EXCEPT ![response.id] = [kind |-> response.kind, of |-> response.of]]
          /\ UNCHANGED <<callAt, callId, toClient>>
      BY <1>2 DEF RdrSetData, notRdr, callVars, wireVars
    <2>2. Genuine(response) /\ data \in [MsgIds -> Payload]
      BY <2>1 DEF IInv, MarkInv, TypeOK, CallTypeOK
    <2>3. data' = [data EXCEPT ![response.id] = Answer(response.id)]
      BY <2>1, <2>2 DEF Genuine, Answer
    <2>4. Stored' = Stored \cup {response.id}
      BY <2>2, <2>3 DEF Stored, Genuine, Answer
    <2>5. Received = {response.id} /\ Received' = {} /\ Replied' = Replied
      BY <2>1 DEF Received, Replied, ReplyIds
    <2>6. Answers' = Answers
      BY <2>4, <2>5 DEF Answers
    <2>7. \A c \in Callers : callAt[c] = "answered" =>
            callId[c] \in MsgIds /\ data'[callId[c]].of = data[callId[c]].of
      BY <2>2, <2>3, RpcTypes DEF InCall, Answer
    <2>8. Request' = Request /\ Result' = Result
      BY <2>1, <2>7 DEF Request, Result
    <2> QED
      BY <1>1, <2>6, <2>8 DEF RpcSame
  <1>3. CASE ~RdrSetData
    <2>1. UNCHANGED <<Request, Result, Stored>>
      <3>1. UNCHANGED <<callAt, callId, data>>
        BY <1>3 DEF ReaderStep, RdrLoop, RdrRead, RdrReadFails, RdrEndOfStream, RdrClosed,
           RdrLookup, RdrNotify, RdrStop, notRdr, callVars, msgVars
      <3> QED
        BY <3>1 DEF Request, Result, Stored
    <2>2. CASE /\ toClient # <<>> /\ toClient' = Tail(toClient) /\ Received = {}
               /\ Received' = {Head(toClient).id} \ {EosId}
      <3>1. Replied = Replied' \cup Received'
        BY <2>2, RepliesTaken DEF Replied, OnceInv, NoneTwice, IInv, TypeOK, WireTypeOK
      <3> QED
        BY <1>1, <2>1, <2>2, <3>1 DEF Answers, RpcSame
    <2>3. CASE toClient' = toClient /\ Received' \subseteq Received
      <3>1. Replied' = Replied
        BY <2>3 DEF Replied, ReplyIds
      <3>2. CASE Answers' = Answers
        BY <1>1, <2>1, <3>2 DEF RpcSame
      <3>3. CASE Answers' # Answers
        <4>1. Received = {response.id} /\ Received' = {} /\ response.id \in MsgIds
          BY <2>1, <2>3, <3>1, <3>3 DEF Answers, Received, IInv, MarkInv, Genuine
        <4>2. Answers' = Answers \ {response.id}
          BY <2>1, <3>1, <3>3, <4>1 DEF Answers, OnceInv, Apart
        <4>3. Rpc!Lose(response.id)
          BY <1>1, <2>1, <4>2 DEF Rpc!Lose
        <4> QED
          BY <4>1, <4>3 DEF MsgIds
      <3> QED
        BY <3>2, <3>3
    <2> QED
      BY <2>2, <2>3, ReaderMoves
  <1> QED
    BY <1>2, <1>3

LEMMA RpcClose ==
    ASSUME IInv, NEW p \in Runners, CloseBegin(p) \/ CloseStep(p)
    PROVE  RpcSame
  <1>1. UNCHANGED notClose
    BY DEF CloseStep, CloseBegin, CloseGuard, CloseEosBegin, CloseEosDone,
       CloseEosFails, ClosePipe, CloseTest, CloseTerminate, CloseInterrupt
  <1>2. Sent' = Sent
    <2>1. CASE toServer' = toServer
      BY <2>1 DEF Sent, Members
    <2>2. CASE toServer' = Append(toServer, EosId)
      <3>1. toServer \in Seq(MsgIds \cup {EosId})
        BY DEF IInv, TypeOK, WireTypeOK
      <3>2. Members(toServer)' = Members(toServer) \cup {EosId}
        BY <2>2, <3>1, MembersAppended
      <3> QED
        BY <3>2 DEF Sent
    <2> QED
      BY <2>1, <2>2, CloseMoves
  <1> QED
    BY <1>1, <1>2, CloseMoves DEF notClose, callVars, msgVars, Request, Result, Stored, Pending,
       Answers, RpcSame

LEMMA RpcPeer ==
    ASSUME IInv, OnceInv, \/ ServerReceive \/ ServerShutdown \/ \E i \in executing : ServerAnswer(i)
    PROVE  RpcSame \/ \E i \in 1..MaxMsgId : Rpc!Execute(i) \/ Rpc!Answer(i)
  <1>0. /\ toServer \in Seq(MsgIds \cup {EosId}) /\ toClient \in Seq(Responses)
        /\ executing \subseteq MsgIds /\ MsgIds = 1..MaxMsgId /\ EosId \notin MsgIds
    BY DEF IInv, TypeOK, WireTypeOK, MsgIds, EosId
  <1>1. UNCHANGED <<nextMsgId, Offered, Queued, InHand, Received, Request, Result, Stored>>
    <2>1. UNCHANGED notPeer
      BY DEF ServerReceive, ServerShutdown, ServerAnswer
    <2> QED
      BY <2>1, PeerMoves DEF notPeer, callVars, msgVars, Request, Result, Stored
  <1>2. ASSUME toServer # <<>>, toServer' = Tail(toServer)
        PROVE  /\ Sent = Sent' \cup ({Head(toServer)} \ {EosId})
               /\ Head(toServer) \notin Sent' /\ Head(toServer) \in MsgIds \cup {EosId}
    BY <1>0, <1>2, MembersTaken, TakeFacts DEF Sent, OnceInv, NoneTwice
  <1>3. CASE /\ toServer # <<>> /\ toServer' = Tail(toServer) /\ toClient' = toClient
             /\ Head(toServer) # EosId
             /\ executing' = executing \cup {Head(toServer)}
    <2> DEFINE i == Head(toServer)
    <2>1. i \in 1..MaxMsgId /\ Sent = Sent' \cup {i} /\ i \notin Sent'
      BY <1>0, <1>2, <1>3
    <2>2. i \in Pending /\ Pending' = Pending \ {i}
      BY <1>1, <2>1 DEF Pending, OnceInv, Apart
    <2>3. Answers' = Answers
      BY <1>1, <1>3 DEF Answers, Replied, ReplyIds
    <2>4. Rpc!Execute(i)
      BY <1>1, <1>3, <2>2, <2>3 DEF Rpc!Execute
    <2> QED
      BY <2>1, <2>4
  <1>4. CASE /\ \/ toServer' = toServer
                \/ toServer # <<>> /\ toServer' = Tail(toServer) /\ Head(toServer) = EosId
             /\ executing' = executing
             /\ toClient' = toClient \/ toClient' = Append(toClient, Eos)
    <2>1. Sent' = Sent
      <3>1. CASE toServer' = toServer
        BY <3>1 DEF Sent, Members
      <3>2. CASE toServer # <<>> /\ toServer' = Tail(toServer) /\ Head(toServer) = EosId
        BY <1>2, <3>2
      <3> QED
        BY <1>4, <3>1, <3>2
    <2>2. Replied' = Replied
      <3>1. CASE toClient' = toClient
        BY <3>1 DEF Replied, ReplyIds
      <3>2. CASE toClient' = Append(toClient, Eos)
        <4>1. {Eos.id} \ {EosId} = {}
          BY DEF Eos
        <4> HIDE DEF Eos
        <4>2. ReplyIds(Append(toClient, Eos)) = ReplyIds(toClient) \cup ({Eos.id} \ {EosId})
          BY <1>0, EosType, RepliesAppended
        <4> QED
          BY <3>2, <4>1, <4>2 DEF Replied
      <3> QED
        BY <1>4, <3>1, <3>2
    <2> QED
      BY <1>1, <1>4, <2>1, <2>2 DEF RpcSame, Pending, Answers
  <1>5. ASSUME NEW i \in executing, toServer' = toServer, executing' = executing \ {i},
               toClient' = Append(toClient, [id |-> i, kind |-> "reply", of |-> i])
        PROVE  Rpc!Answer(i) /\ i \in 1..MaxMsgId
    <2> DEFINE r == [id |-> i, kind |-> "reply", of |-> i]
    <2>1. r \in Responses /\ r.id = i /\ i \in MsgIds /\ i # EosId
      BY <1>0 DEF Responses
    <2>2. Replied' = Replied \cup {i}
      <3> HIDE DEF r
      <3> QED
        BY <1>0, <1>5, <2>1, RepliesAppended DEF Replied, r
    <2>3. Answers' = Answers \cup {i} /\ Pending' = Pending
      BY <1>1, <1>5, <2>2 DEF Answers, Pending, Sent, Members
    <2> QED
      BY <1>0, <1>1, <1>5, <2>3 DEF Rpc!Answer
  <1> QED
    BY <1>3, <1>4, <1>5, PeerMoves

\* The client, its threads and its pipe do what sendRequest() promises its callers: a call
\* returns the answer to its own request or throws, and a request is executed at most once
\* (PipeClient.java 65-98, RequestTransmitter.java 23-63, ResponseReader.java 23-74).
THEOREM ClientImplementsRpc == Spec => ImplementsRpc
  <1>1. Init => Rpc!Init
    <2> SUFFICES ASSUME Init
                 PROVE  Rpc!Init
      OBVIOUS
    <2>1. Offered = {} /\ InHand = {} /\ Received = {} /\ Stored = {}
      BY DEF Init, Offered, InHand, Received, Stored
    <2>2. /\ \A k : k \notin 1..Len(transmitQueue)
          /\ \A k : k \notin 1..Len(toServer)
          /\ \A k : k \notin 1..Len(toClient)
      BY DEF Init
    <2>3. Queued = {} /\ Sent = {} /\ Replied = {}
      BY <2>2 DEF Queued, Sent, Replied, Members, ReplyIds
    <2>4. Pending = {} /\ Answers = {}
      BY <2>1, <2>3 DEF Pending, Answers
    <2>5. /\ Request = [c \in Callers |-> 0] /\ Result = [c \in Callers |-> 0]
      BY DEF Init, Request, Result, InCall, EosId
    <2> QED
      BY <2>4, <2>5 DEF Init, Rpc!Init, Rpc!Nothing
  <1>2. IInv /\ OnceInv /\ [Next]_vars => [Rpc!Next]_(Rpc!vars)
    <2> SUFFICES ASSUME IInv, OnceInv, [Next]_vars
                 PROVE  Rpc!Next \/ RpcSame
      BY DEF Rpc!vars, RpcSame
    <2>1. CASE UNCHANGED vars
      <3>1. UNCHANGED <<callAt, callId, data, nextMsgId, transmitQueue, xmtAt, xmtId, rdrAt,
                        response, toServer, toClient, executing>>
        BY <2>1 DEF vars, callVars, msgVars, xmtVars, rdrVars, wireVars, peerVars
      <3> QED
        BY <3>1 DEF RpcSame, Request, Result, Pending, Answers, Offered, Queued, InHand, Sent,
           Replied, Received, Stored, Members, ReplyIds
    <2> QED
      BY <2>1, RpcCalls, RpcTransmitter, RpcReader, RpcClose, RpcPeer DEF Next, Rpc!Next
  <1> QED
    BY <1>1, <1>2, Invariance, OnePlaceEach, PTL DEF Spec, ImplementsRpc, Rpc!Spec
=============================================================================
