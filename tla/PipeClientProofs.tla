-------------------------- MODULE PipeClientProofs --------------------------
(* Theorems about PipeClient, for every value of its constants. *)
EXTENDS PipeClient, TLAPS

\* Calls that own a message id: from put() to the end of the finally block.
Active(c) == callAt[c] \in {"offer", "mark", "await", "waiting", "check",
                            "answered", "expired"}
Answer(i) == [kind |-> "reply", of |-> i]
\* Responses as the peer writes them: one to request i, or END-OF-STREAM.
Genuine(r) == /\ r.id \in MsgIds /\ r.of = r.id /\ r.kind = "reply"

\* A call in progress has an id of its own, already issued.
IdsInv ==
    /\ \A c \in Callers : Active(c) => callId[c] \in 1..nextMsgId
    /\ \A c, d \in Callers : Active(c) /\ Active(d) /\ callId[c] = callId[d] => c = d
    /\ \A i \in MsgIds : i > nextMsgId => status[i] = "NEW"

\* A request is written only after its caller marked it WAIT, so nothing that
\* is on the wire, at the server or on its way back can still be NEW.
MarkInv ==
    /\ \A c \in Callers : callAt[c] \in {"offer", "mark"} => status[callId[c]] = "NEW"
    /\ xmtAt \in {"lookup", "spin", "write", "writing"} => xmtId \in MsgIds
    /\ xmtAt \in {"write", "writing"} => status[xmtId] # "NEW"
    /\ \A k \in 1..Len(toServer) : toServer[k] # EosId => status[toServer[k]] # "NEW"
    /\ \A i \in executing : status[i] # "NEW"
    /\ \A k \in 1..Len(toClient) :
         toClient[k] = Eos \/ (Genuine(toClient[k]) /\ status[toClient[k].id] # "NEW")
    /\ rdrAt \in {"lookup", "deliver", "notify"} =>
         Genuine(response) /\ status[response.id] # "NEW"

\* A Message that is DONE holds the answer to its own request.
DataInv ==
    /\ \A i \in MsgIds : status[i] = "DONE" => data[i] = Answer(i)
    /\ rdrAt = "notify" => data[response.id] = Answer(response.id)
    /\ \A c \in Callers : callAt[c] = "answered" => status[callId[c]] = "DONE"

IInv == TypeOK /\ IdsInv /\ MarkInv /\ DataInv

-----------------------------------------------------------------------------
(* What the queues and the pipe are made of.                               *)

\* Appending to a queue (ArrayBlockingQueue.offer, a write to the pipe) adds
\* one element at the end.
LEMMA AppendFacts ==
    ASSUME NEW S, NEW q \in Seq(S), NEW e \in S
    PROVE  /\ Append(q, e) \in Seq(S)
           /\ Len(Append(q, e)) = Len(q) + 1
           /\ \A k \in 1..Len(q) : Append(q, e)[k] = q[k]
           /\ Append(q, e)[Len(q) + 1] = e
OBVIOUS

\* Taking from a queue (take(), a read from the pipe) removes its first element.
LEMMA TakeFacts ==
    ASSUME NEW S, NEW q \in Seq(S), q # <<>>
    PROVE  /\ Head(q) \in S /\ Head(q) = q[1] /\ 1 \in 1..Len(q)
           /\ Tail(q) \in Seq(S)
           /\ Len(Tail(q)) = Len(q) - 1
           /\ \A k \in 1..Len(Tail(q)) : k + 1 \in 1..Len(q) /\ Tail(q)[k] = q[k + 1]
OBVIOUS

\* END-OF-STREAM is something the peer can send.
LEMMA EosType == Eos \in Responses
BY DEF Eos, Responses, EosId

\* The client starts in the invariant.
LEMMA InvInit == Init => IInv
<1> SUFFICES ASSUME Init PROVE IInv
  OBVIOUS
<1> USE ClientAssumption DEF Init, MsgIds, EosId
<1>1. CallTypeOK
  BY DEF CallTypeOK, Payload
<1>2. ThreadTypeOK /\ CloseTypeOK
  BY DEF ThreadTypeOK, CloseTypeOK, Runners, Responses, NoResponse
<1>4. WireTypeOK
  BY DEF WireTypeOK
<1>3. IdsInv /\ MarkInv /\ DataInv
  BY DEF IdsInv, MarkInv, DataInv, Active
<1> QED
  BY <1>1, <1>2, <1>3, <1>4 DEF IInv, TypeOK

-----------------------------------------------------------------------------
(* Type correctness is preserved.  IdsInv and MarkInv give the ids used as *)
(* indices their type.                                                     *)

\* Steps of sendRequest() keep every variable in its domain.
LEMMA TypeCall ==
    ASSUME IInv, NEW c \in Callers, BeginCall(c) \/ CallStep(c)
    PROVE  TypeOK'
<1> USE DEF callVars, msgVars, xmtVars, rdrVars, threadVars, closeVars, pipeVars,
            peerVars, wireVars, notCall
<1> USE DEF CallGoes
<1>0. TypeOK /\ IdsInv
  BY DEF IInv
<1>1. ThreadTypeOK' /\ CloseTypeOK'
  BY <1>0 DEF TypeOK, ThreadTypeOK, CloseTypeOK, CallStep, BeginCall, Admit, Register,
     Offer, OfferTimesOut, MarkWaiting, Await, LeaveWait, CheckStatus, EndCall
<1>2. Active(c) => callId[c] \in MsgIds
  BY <1>0, ClientAssumption DEF IdsInv, MsgIds, TypeOK, CallTypeOK
<1>3. CASE BeginCall(c)
  <2>1. CallTypeOK'
    BY <1>0, <1>3 DEF TypeOK, CallTypeOK, BeginCall
  <2>2. WireTypeOK'
    BY <1>0, <1>3 DEF TypeOK, WireTypeOK, BeginCall
  <2> QED
    BY <1>1, <2>1, <2>2 DEF TypeOK
<1>4. CASE Admit(c)
  <2>1. CallTypeOK'
    BY <1>0, <1>4 DEF TypeOK, CallTypeOK, Admit
  <2>2. WireTypeOK'
    BY <1>0, <1>4 DEF TypeOK, WireTypeOK, Admit
  <2> QED
    BY <1>1, <2>1, <2>2 DEF TypeOK
<1>5. CASE Register(c)
  <2>1. nextMsgId' \in 0..MaxMsgId /\ nextMsgId' \in MsgIds
    BY <1>0, <1>5, ClientAssumption DEF TypeOK, CallTypeOK, Register, MsgIds
  <2>2. CallTypeOK'
    BY <1>0, <1>5, <2>1 DEF TypeOK, CallTypeOK, Register
  <2>3. WireTypeOK'
    BY <1>0, <1>5 DEF TypeOK, WireTypeOK, Register
  <2> QED
    BY <1>1, <2>2, <2>3 DEF TypeOK
<1>6. CASE Offer(c)
  <2>1. CallTypeOK'
    BY <1>0, <1>6 DEF TypeOK, CallTypeOK, Offer
  <2>2. callId[c] \in MsgIds
    BY <1>2, <1>6 DEF Active, Offer
  <2>3. transmitQueue' \in Seq(MsgIds) /\ Len(transmitQueue') <= QueueCap
    BY <1>0, <1>6, <2>2, AppendFacts, ClientAssumption DEF TypeOK, WireTypeOK, Offer
  <2>4. WireTypeOK'
    BY <1>0, <1>6, <2>3 DEF TypeOK, WireTypeOK, Offer
  <2> QED
    BY <1>1, <2>1, <2>4 DEF TypeOK
<1>7. CASE OfferTimesOut(c)
  <2>1. CallTypeOK'
    BY <1>0, <1>7 DEF TypeOK, CallTypeOK, OfferTimesOut
  <2>2. WireTypeOK'
    BY <1>0, <1>7 DEF TypeOK, WireTypeOK, OfferTimesOut
  <2> QED
    BY <1>1, <2>1, <2>2 DEF TypeOK
<1>8. CASE MarkWaiting(c)
  BY <1>0, <1>1, <1>8 DEF TypeOK, CallTypeOK, WireTypeOK, MarkWaiting
<1>9. CASE Await(c)
  BY <1>0, <1>1, <1>9 DEF TypeOK, CallTypeOK, WireTypeOK, Await
<1>10. CASE LeaveWait(c)
  BY <1>0, <1>1, <1>10 DEF TypeOK, CallTypeOK, WireTypeOK, LeaveWait
<1>11. CASE CheckStatus(c)
  BY <1>0, <1>1, <1>11 DEF TypeOK, CallTypeOK, WireTypeOK, CheckStatus
<1>12. CASE EndCall(c)
  <2>1. CallTypeOK'
    BY <1>0, <1>12 DEF TypeOK, CallTypeOK, EndCall
  <2>2. WireTypeOK'
    BY <1>0, <1>12 DEF TypeOK, WireTypeOK, EndCall
  <2> QED
    BY <1>1, <2>1, <2>2 DEF TypeOK
<1> QED
  BY <1>3, <1>4, <1>5, <1>6, <1>7, <1>8, <1>9, <1>10, <1>11, <1>12 DEF CallStep

\* Steps of the RequestTransmitter keep every variable in its domain.
LEMMA TypeTransmitter ==
    ASSUME IInv, TransmitterStep
    PROVE  TypeOK'
<1> USE DEF callVars, msgVars, xmtVars, rdrVars, threadVars, closeVars, pipeVars,
            peerVars, wireVars, notXmt
<1>0. TypeOK /\ MarkInv
  BY DEF IInv
<1>1. CallTypeOK'
  BY <1>0 DEF TypeOK, CallTypeOK, TransmitterStep, XmtLoop, XmtTake, XmtLookup, XmtSpin,
     XmtInterrupted, XmtWriteBegin, XmtWriteRefused, XmtWriteDone, XmtWriteBroken,
     XmtWriteClosed, XmtStop
<1>2. CloseTypeOK'
  BY <1>0 DEF TypeOK, CloseTypeOK, TransmitterStep, XmtLoop, XmtTake, XmtLookup, XmtSpin,
     XmtInterrupted, XmtWriteBegin, XmtWriteRefused, XmtWriteDone, XmtWriteBroken,
     XmtWriteClosed, XmtStop
<1>3. CASE XmtTake
  <2>1. Head(transmitQueue) \in MsgIds /\ Tail(transmitQueue) \in Seq(MsgIds)
        /\ Len(Tail(transmitQueue)) <= QueueCap
    BY <1>0, <1>3, TakeFacts, ClientAssumption DEF TypeOK, WireTypeOK, XmtTake
  <2>2. ThreadTypeOK'
    BY <1>0, <1>3, <2>1 DEF TypeOK, ThreadTypeOK, XmtTake
  <2>3. WireTypeOK'
    BY <1>0, <1>3, <2>1 DEF TypeOK, WireTypeOK, XmtTake
  <2> QED
    BY <1>1, <1>2, <2>2, <2>3 DEF TypeOK
<1>4. CASE XmtWriteDone \/ XmtWriteClosed
  <2>1. ThreadTypeOK'
    BY <1>0, <1>4 DEF TypeOK, ThreadTypeOK, XmtWriteDone, XmtWriteClosed
  <2>2. \/ toServer' = toServer
        \/ toServer' = Append(toServer, xmtId) /\ Len(toServer) < WireCap
    BY <1>4 DEF XmtWriteDone, XmtWriteClosed
  <2>3. /\ Append(toServer, xmtId) \in Seq(MsgIds \cup {EosId})
        /\ Len(Append(toServer, xmtId)) = Len(toServer) + 1
        /\ toServer \in Seq(MsgIds \cup {EosId}) /\ Len(toServer) <= WireCap
    BY <1>0, AppendFacts DEF TypeOK, WireTypeOK, ThreadTypeOK
  <2>5. toServer' \in Seq(MsgIds \cup {EosId}) /\ Len(toServer') <= WireCap
    BY <2>2, <2>3, ClientAssumption
  <2>4. WireTypeOK'
    BY <1>0, <1>4, <2>5 DEF TypeOK, WireTypeOK, XmtWriteDone, XmtWriteClosed
  <2> QED
    BY <1>1, <1>2, <2>1, <2>4 DEF TypeOK
<1>5. CASE XmtLoop \/ XmtLookup \/ XmtSpin \/ XmtWriteBegin \/ XmtWriteRefused
           \/ XmtWriteBroken
  BY <1>0, <1>1, <1>2, <1>5 DEF TypeOK, ThreadTypeOK, WireTypeOK, XmtLoop, XmtLookup,
     XmtSpin, XmtWriteBegin, XmtWriteRefused, XmtWriteBroken
<1>6. CASE XmtInterrupted \/ XmtStop
  BY <1>0, <1>1, <1>2, <1>6 DEF TypeOK, ThreadTypeOK, WireTypeOK, XmtInterrupted, XmtStop
<1> QED
  BY <1>3, <1>4, <1>5, <1>6 DEF TransmitterStep

\* Steps of the ResponseReader keep every variable in its domain.
LEMMA TypeReader ==
    ASSUME IInv, ReaderStep
    PROVE  TypeOK'
<1> USE DEF callVars, msgVars, xmtVars, rdrVars, threadVars, closeVars, pipeVars,
            peerVars, wireVars, notRdr
<1>0. TypeOK /\ MarkInv
  BY DEF IInv
<1>1. CASE RdrRead
  <2>1. Head(toClient) \in Responses /\ Tail(toClient) \in Seq(Responses)
    BY <1>0, <1>1, TakeFacts DEF TypeOK, WireTypeOK, RdrRead
  <2>2. ThreadTypeOK'
    BY <1>0, <1>1, <2>1 DEF TypeOK, ThreadTypeOK, RdrRead
  <2>3. WireTypeOK'
    BY <1>0, <1>1, <2>1 DEF TypeOK, WireTypeOK, RdrRead
  <2>4. CallTypeOK' /\ CloseTypeOK'
    BY <1>0, <1>1 DEF TypeOK, CallTypeOK, CloseTypeOK, RdrRead
  <2> QED
    BY <2>2, <2>3, <2>4 DEF TypeOK
<1>2. CASE RdrSetData
  <2>1. [kind |-> response.kind, of |-> response.of] \in Payload
    BY <1>0, <1>2 DEF MarkInv, Genuine, Payload, RdrSetData
  <2>2. CallTypeOK'
    BY <1>0, <1>2, <2>1 DEF TypeOK, CallTypeOK, RdrSetData
  <2>3. ThreadTypeOK' /\ CloseTypeOK' /\ WireTypeOK'
    BY <1>0, <1>2 DEF TypeOK, ThreadTypeOK, CloseTypeOK, WireTypeOK, RdrSetData
  <2> QED
    BY <2>2, <2>3 DEF TypeOK
<1>3. CASE RdrNotify
  BY <1>0, <1>3 DEF TypeOK, CallTypeOK, ThreadTypeOK, CloseTypeOK, WireTypeOK, RdrNotify
<1>4. CASE RdrLoop \/ RdrReadFails \/ RdrClosed \/ RdrLookup
  <2>1. CallTypeOK' /\ WireTypeOK'
    BY <1>0, <1>4 DEF TypeOK, CallTypeOK, WireTypeOK, RdrLoop, RdrReadFails, RdrClosed, RdrLookup
  <2>2. ThreadTypeOK' /\ CloseTypeOK'
    BY <1>0, <1>4 DEF TypeOK, ThreadTypeOK, CloseTypeOK, RdrLoop, RdrReadFails, RdrClosed, RdrLookup
  <2> QED
    BY <2>1, <2>2 DEF TypeOK
<1>5. CASE RdrEndOfStream \/ RdrStop
  BY <1>0, <1>5 DEF TypeOK, CallTypeOK, ThreadTypeOK, CloseTypeOK, WireTypeOK,
     RdrEndOfStream, RdrStop
<1> QED
  BY <1>1, <1>2, <1>3, <1>4, <1>5 DEF ReaderStep

\* Steps of close() keep every variable in its domain.
LEMMA TypeClose ==
    ASSUME IInv, NEW p \in Runners, CloseBegin(p) \/ CloseStep(p)
    PROVE  TypeOK'
<1> USE DEF callVars, msgVars, xmtVars, rdrVars, threadVars, closeVars, pipeVars,
            peerVars, wireVars, notClose
<1> USE DEF CloseGoes
<1>0. TypeOK
  BY DEF IInv
<1>1. CallTypeOK'
  BY <1>0 DEF TypeOK, CallTypeOK, CloseStep, CloseBegin, CloseGuard, CloseEosBegin,
     CloseEosDone, CloseEosFails, ClosePipe, CloseTest, CloseTerminate, CloseInterrupt
<1>2. CASE CloseEosDone(p)
  <2>1. toServer' = Append(toServer, EosId) /\ Len(toServer) < WireCap
    BY <1>2 DEF CloseEosDone
  <2>2. toServer' \in Seq(MsgIds \cup {EosId}) /\ Len(toServer') <= WireCap
    BY <1>0, <2>1, AppendFacts, ClientAssumption DEF TypeOK, WireTypeOK
  <2>3. WireTypeOK'
    BY <1>0, <1>2, <2>2 DEF TypeOK, WireTypeOK, CloseEosDone
  <2>4. ThreadTypeOK' /\ CloseTypeOK'
    BY <1>0, <1>2 DEF TypeOK, ThreadTypeOK, CloseTypeOK, CloseEosDone
  <2> QED
    BY <1>1, <2>3, <2>4 DEF TypeOK
<1>3. CASE CloseBegin(p) \/ CloseGuard(p) \/ CloseEosBegin(p) \/ CloseEosFails(p)
           \/ ClosePipe(p)
  <2>1. WireTypeOK' /\ ThreadTypeOK'
    BY <1>0, <1>3 DEF TypeOK, WireTypeOK, ThreadTypeOK, CloseBegin, CloseGuard,
       CloseEosBegin, CloseEosFails, ClosePipe
  <2>2. CloseTypeOK'
    BY <1>0, <1>3 DEF TypeOK, CloseTypeOK, CloseBegin, CloseGuard,
       CloseEosBegin, CloseEosFails, ClosePipe
  <2> QED
    BY <1>1, <2>1, <2>2 DEF TypeOK
<1>4. CASE \/ CloseTest(p, "transmitter", "testXmt", "useXmt", "testRdr")
           \/ CloseTest(p, "reader", "testRdr", "useRdr", "done")
  BY <1>0, <1>1, <1>4 DEF TypeOK, ThreadTypeOK, CloseTypeOK, WireTypeOK, CloseTest
<1>5. ASSUME NEW t \in Threads, NEW use,
             NEW interrupt \in {"interruptXmt", "interruptRdr"},
             CloseTerminate(p, t, use, interrupt)
      PROVE  TypeOK'
  <2>1. WireTypeOK' /\ ThreadTypeOK'
    BY <1>0, <1>5 DEF TypeOK, ThreadTypeOK, WireTypeOK, CloseTerminate
  <2>2. CloseTypeOK'
    BY <1>0, <1>5 DEF TypeOK, CloseTypeOK, CloseTerminate
  <2> QED
    BY <1>1, <2>1, <2>2 DEF TypeOK
<1>6. ASSUME NEW t \in Threads, NEW interrupt, NEW next \in {"testRdr", "done"},
             CloseInterrupt(p, t, interrupt, next)
      PROVE  TypeOK'
  <2>1. WireTypeOK' /\ ThreadTypeOK'
    BY <1>0, <1>6 DEF TypeOK, ThreadTypeOK, WireTypeOK, CloseInterrupt
  <2>2. CloseTypeOK'
    BY <1>0, <1>6 DEF TypeOK, CloseTypeOK, CloseInterrupt
  <2> QED
    BY <1>1, <2>1, <2>2 DEF TypeOK
<1>7. CASE \/ CloseTerminate(p, "transmitter", "useXmt", "interruptXmt")
           \/ CloseTerminate(p, "reader", "useRdr", "interruptRdr")
  BY <1>5, <1>7 DEF Threads
<1>8. CASE \/ CloseInterrupt(p, "transmitter", "interruptXmt", "testRdr")
           \/ CloseInterrupt(p, "reader", "interruptRdr", "done")
  BY <1>6, <1>8 DEF Threads
<1> QED
  BY <1>2, <1>3, <1>4, <1>7, <1>8 DEF CloseStep

\* Steps of the peer keep every variable in its domain.
LEMMA TypePeer ==
    ASSUME IInv,
           \/ ServerReceive \/ ServerShutdown
           \/ \E i \in executing : ServerAnswer(i)
    PROVE  TypeOK'
<1> USE DEF callVars, msgVars, xmtVars, rdrVars, threadVars, closeVars, pipeVars,
            peerVars, wireVars, notPeer
<1>0. TypeOK
  BY DEF IInv
<1>1. CallTypeOK' /\ ThreadTypeOK' /\ CloseTypeOK'
  <2>1. UNCHANGED <<callVars, msgVars, outstanding, xmtVars, rdrVars, threadVars, closeVars,
                    pipeVars>>
    BY DEF ServerReceive, ServerShutdown, ServerAnswer
  <2> QED
    BY <1>0, <2>1 DEF TypeOK, CallTypeOK, ThreadTypeOK, CloseTypeOK
<1>2. Append(toClient, Eos) \in Seq(Responses)
  BY <1>0, AppendFacts, EosType DEF TypeOK, WireTypeOK
<1>3. CASE ServerReceive
  <2>1. /\ Head(toServer) \in MsgIds \cup {EosId}
        /\ Tail(toServer) \in Seq(MsgIds \cup {EosId}) /\ Len(Tail(toServer)) <= WireCap
    BY <1>0, <1>3, TakeFacts, ClientAssumption DEF TypeOK, WireTypeOK, ServerReceive
  <2>2. WireTypeOK'
    BY <1>0, <1>2, <1>3, <2>1 DEF TypeOK, WireTypeOK, ServerReceive, ServerStops
  <2> QED
    BY <1>1, <2>2 DEF TypeOK
<1>4. CASE ServerShutdown
  BY <1>0, <1>1, <1>2, <1>4 DEF TypeOK, WireTypeOK, ServerShutdown, ServerStops
<1>5. ASSUME NEW i \in executing, ServerAnswer(i)
      PROVE  TypeOK'
  <2>1. i \in MsgIds /\ [id |-> i, kind |-> "reply", of |-> i] \in Responses
    BY <1>0 DEF TypeOK, WireTypeOK, Responses
  <2>2. toClient' \in Seq(Responses)
    BY <1>0, <1>5, <2>1, AppendFacts DEF TypeOK, WireTypeOK, ServerAnswer
  <2>3. WireTypeOK'
    BY <1>0, <1>5, <2>2 DEF TypeOK, WireTypeOK, ServerAnswer
  <2> QED
    BY <1>1, <2>3 DEF TypeOK
<1> QED
  BY <1>3, <1>4, <1>5

\* Every step keeps every variable in its domain.
LEMMA TypeStep == IInv /\ [Next]_vars => TypeOK'
<1> SUFFICES ASSUME IInv, [Next]_vars PROVE TypeOK'
  OBVIOUS
<1>1. CASE UNCHANGED vars
  BY <1>1 DEF IInv, TypeOK, CallTypeOK, ThreadTypeOK, CloseTypeOK, WireTypeOK, vars, callVars,
     msgVars, xmtVars, rdrVars, threadVars, closeVars, pipeVars, peerVars, wireVars
<1> QED
  BY <1>1, TypeCall, TypeTransmitter, TypeReader, TypeClose, TypePeer DEF Next


-----------------------------------------------------------------------------
(* Which steps touch what.                                                 *)

\* Only sendRequest() moves its callers and issues ids, and only it and the
\* ResponseReader change Messages.
LEMMA OthersLeaveCalls ==
    ASSUME [Next]_vars
    PROVE  \/ \E c \in Callers : BeginCall(c) \/ CallStep(c)
           \/ RdrSetData
           \/ RdrNotify
           \/ UNCHANGED <<callAt, callId, nextMsgId, status, data, notified, outstanding>>
<1> USE DEF vars, callVars, msgVars
<1>1. CASE TransmitterStep
  BY <1>1 DEF notXmt, TransmitterStep, XmtLoop, XmtTake, XmtLookup, XmtSpin, XmtInterrupted,
     XmtWriteBegin, XmtWriteRefused, XmtWriteDone, XmtWriteBroken, XmtWriteClosed, XmtStop
<1>2. CASE ReaderStep
  BY <1>2 DEF notRdr, ReaderStep, RdrLoop, RdrRead, RdrReadFails, RdrEndOfStream, RdrClosed,
     RdrLookup, RdrStop
<1>3. ASSUME NEW p \in Runners, CloseBegin(p) \/ CloseStep(p)
      PROVE  UNCHANGED <<callAt, callId, nextMsgId, status, data, notified, outstanding>>
  BY <1>3 DEF notClose, CloseStep, CloseBegin, CloseGuard, CloseEosBegin, CloseEosDone,
     CloseEosFails, ClosePipe, CloseTest, CloseTerminate, CloseInterrupt
<1>4. CASE \/ ServerReceive \/ ServerShutdown
           \/ \E i \in executing : ServerAnswer(i)
  BY <1>4 DEF notPeer, ServerReceive, ServerShutdown, ServerAnswer
<1> QED
  BY <1>1, <1>2, <1>3, <1>4 DEF Next

\* The steps of a call that leave the Messages alone.
LEMMA CallsLeaveMessages ==
    ASSUME NEW c \in Callers, BeginCall(c) \/ CallStep(c), ~MarkWaiting(c)
    PROVE  UNCHANGED <<status, data>>
BY DEF CallStep, BeginCall, Admit, Register, Offer, OfferTimesOut, Await, LeaveWait,
   CheckStatus, EndCall, msgVars

\* The calling side never touches the threads, the pipe or the peer.
LEMMA CallsLeaveOthers ==
    ASSUME NEW c \in Callers, BeginCall(c) \/ CallStep(c)
    PROVE  UNCHANGED notCall
BY DEF CallStep, BeginCall, Admit, Register, Offer, OfferTimesOut, MarkWaiting, Await,
   LeaveWait, CheckStatus, EndCall

\* Only the ResponseReader moves itself.
LEMMA OthersLeaveReader ==
    ASSUME [Next]_vars, ~ReaderStep
    PROVE  UNCHANGED rdrVars
<1>1. CASE TransmitterStep
  BY <1>1 DEF notXmt, TransmitterStep, XmtLoop, XmtTake, XmtLookup, XmtSpin, XmtInterrupted,
     XmtWriteBegin, XmtWriteRefused, XmtWriteDone, XmtWriteBroken, XmtWriteClosed, XmtStop
<1>2. ASSUME NEW p \in Runners, CloseBegin(p) \/ CloseStep(p)
      PROVE  UNCHANGED rdrVars
  BY <1>2 DEF notClose, CloseStep, CloseBegin, CloseGuard, CloseEosBegin, CloseEosDone,
     CloseEosFails, ClosePipe, CloseTest, CloseTerminate, CloseInterrupt
<1>3. CASE \/ ServerReceive \/ ServerShutdown
           \/ \E i \in executing : ServerAnswer(i)
  BY <1>3 DEF notPeer, ServerReceive, ServerShutdown, ServerAnswer
<1>4. CASE \E c \in Callers : BeginCall(c) \/ CallStep(c)
  BY <1>4, CallsLeaveOthers DEF notCall
<1> QED
  BY <1>1, <1>2, <1>3, <1>4 DEF Next, vars

-----------------------------------------------------------------------------
(* The invariant is preserved.                                             *)

\* Calls in progress keep ids of their own.
LEMMA IdsStep == IInv /\ [Next]_vars => IdsInv'
<1> SUFFICES ASSUME IInv, [Next]_vars PROVE IdsInv'
  OBVIOUS
<1>0. /\ IdsInv /\ nextMsgId \in 0..MaxMsgId
      /\ callAt \in [Callers -> {"idle", "admit", "register", "offer", "mark", "await",
                                 "waiting", "check", "answered", "expired"}]
      /\ callId \in [Callers -> MsgIds \cup {EosId}]
      /\ status \in [MsgIds -> {"NEW", "WAIT", "DONE"}]
  BY DEF IInv, TypeOK, CallTypeOK
<1> USE ClientAssumption
<1>1. CASE UNCHANGED <<callAt, callId, nextMsgId, status>>
  BY <1>0, <1>1 DEF IdsInv, Active
<1>2. CASE RdrSetData
  BY <1>0, <1>2 DEF IdsInv, Active, RdrSetData, notRdr, callVars
<1>3. CASE RdrNotify
  <2>1. UNCHANGED <<callAt, callId, nextMsgId>> /\ response.id \in MsgIds
        /\ status[response.id] # "NEW"
    BY <1>3 DEF RdrNotify, notRdr, callVars, IInv, MarkInv, Genuine
  <2>2. status' = [status EXCEPT ![response.id] = "DONE"]
    BY <1>3 DEF RdrNotify
  <2> QED
    BY <1>0, <2>1, <2>2 DEF IdsInv, Active, MsgIds
<1>4. ASSUME NEW c \in Callers, BeginCall(c) \/ CallStep(c)
      PROVE  IdsInv'
  <2>1. CASE Register(c)
    BY <1>0, <2>1 DEF IdsInv, Active, Register, CallGoes, MsgIds
  <2>2. CASE MarkWaiting(c)
    BY <1>0, <2>2 DEF IdsInv, Active, MarkWaiting, CallGoes, MsgIds
  <2>3. CASE ~Register(c) /\ ~MarkWaiting(c)
    <3>1. UNCHANGED <<callId, nextMsgId, status>>
      BY <1>4, <2>3 DEF CallStep, BeginCall, Admit, Offer, OfferTimesOut, Await,
         LeaveWait, CheckStatus, EndCall, msgVars
    <3>2. \A d \in Callers : Active(d)' => Active(d)
      BY <1>0, <1>4, <2>3 DEF Active, CallStep, BeginCall, Admit, Offer, OfferTimesOut,
         Await, LeaveWait, CheckStatus, EndCall, CallGoes
    <3> QED
      BY <1>0, <3>1, <3>2 DEF IdsInv
  <2> QED
    BY <2>1, <2>2, <2>3
<1> QED
  BY <1>1, <1>2, <1>3, <1>4, OthersLeaveCalls

\* A Message that has been marked is never NEW again.
LEMMA NewIsLost ==
    ASSUME IInv, [Next]_vars, NEW i \in MsgIds, status[i] # "NEW"
    PROVE  status'[i] # "NEW"
<1>0. status \in [MsgIds -> {"NEW", "WAIT", "DONE"}]
  BY DEF IInv, TypeOK, CallTypeOK
<1>1. ASSUME NEW c \in Callers, BeginCall(c) \/ CallStep(c)
      PROVE  status'[i] # "NEW"
  <2>1. CASE MarkWaiting(c)
    BY <1>0, <2>1 DEF MarkWaiting
  <2> QED
    BY <1>1, <2>1, CallsLeaveMessages
<1>2. CASE RdrSetData \/ RdrNotify
  BY <1>0, <1>2 DEF RdrSetData, RdrNotify
<1> QED
  BY <1>1, <1>2, OthersLeaveCalls

\* Requests on their way have been marked by their callers: the steps of
\* sendRequest().
LEMMA MarkCall ==
    ASSUME IInv, [Next]_vars, NEW c \in Callers, BeginCall(c) \/ CallStep(c)
    PROVE  MarkInv'
<1>0. /\ IdsInv /\ MarkInv /\ nextMsgId \in 0..MaxMsgId
      /\ callAt \in [Callers -> {"idle", "admit", "register", "offer", "mark", "await",
                                 "waiting", "check", "answered", "expired"}]
      /\ callId \in [Callers -> MsgIds \cup {EosId}]
      /\ status \in [MsgIds -> {"NEW", "WAIT", "DONE"}]
      /\ toServer \in Seq(MsgIds \cup {EosId}) /\ executing \subseteq MsgIds
  BY DEF IInv, TypeOK, CallTypeOK, WireTypeOK
<1>1. UNCHANGED <<xmtAt, xmtId, toServer, toClient, executing, rdrAt, response>>
  BY CallsLeaveOthers DEF notCall, xmtVars, rdrVars, wireVars, peerVars
<1>2. \A i \in MsgIds : status[i] # "NEW" => status'[i] # "NEW"
  BY NewIsLost
<1>3. \A d \in Callers : callAt'[d] \in {"offer", "mark"} => status'[callId'[d]] = "NEW"
  <2>1. CASE Register(c)
    <3>1. status' = status /\ callId' = [callId EXCEPT ![c] = nextMsgId + 1]
          /\ callAt' = [callAt EXCEPT ![c] = "offer"] /\ nextMsgId + 1 \in MsgIds
      BY <1>0, <2>1, ClientAssumption DEF Register, CallGoes, MsgIds
    <3>2. status[nextMsgId + 1] = "NEW"
      BY <1>0, <3>1 DEF IdsInv, MsgIds
    <3> QED
      BY <1>0, <3>1, <3>2 DEF MarkInv
  <2>2. CASE MarkWaiting(c)
    <3>1. /\ callAt[c] = "mark" /\ callAt' = [callAt EXCEPT ![c] = "await"]
          /\ callId' = callId /\ status' = [status EXCEPT ![callId[c]] = "WAIT"]
      BY <2>2 DEF MarkWaiting, CallGoes
    <3>2. \A d \in Callers : callAt[d] \in {"offer", "mark"} /\ d # c
                               => callId[d] # callId[c]
      BY <1>0, <3>1 DEF IdsInv, Active
    <3> QED
      BY <1>0, <3>1, <3>2 DEF MarkInv
  <2>3. CASE ~Register(c) /\ ~MarkWaiting(c)
    <3>1. UNCHANGED <<callId, status>>
      BY <2>3 DEF CallStep, BeginCall, Admit, Offer, OfferTimesOut, Await,
         LeaveWait, CheckStatus, EndCall, msgVars
    <3>2. \A d \in Callers : callAt'[d] \in {"offer", "mark"}
                               => callAt[d] \in {"offer", "mark"}
      BY <1>0, <2>3 DEF CallStep, BeginCall, Admit, Offer, OfferTimesOut,
         Await, LeaveWait, CheckStatus, EndCall, CallGoes
    <3> QED
      BY <1>0, <3>1, <3>2 DEF MarkInv
  <2> QED
    BY <2>1, <2>2, <2>3
<1> QED
  BY <1>0, <1>1, <1>2, <1>3 DEF MarkInv, Genuine

\* ... and the steps of everyone else.
LEMMA MarkOthers ==
    ASSUME IInv, [Next]_vars, UNCHANGED <<callAt, callId, nextMsgId>>,
           \A i \in MsgIds : status[i] = "NEW" => status'[i] = "NEW"
    PROVE  MarkInv'
<1>0. /\ MarkInv
      /\ callId \in [Callers -> MsgIds \cup {EosId}]
      /\ callAt \in [Callers -> {"idle", "admit", "register", "offer", "mark", "await",
                                 "waiting", "check", "answered", "expired"}]
      /\ \A c \in Callers : callAt[c] \in {"offer", "mark"} => callId[c] \in MsgIds
      /\ toServer \in Seq(MsgIds \cup {EosId}) /\ toClient \in Seq(Responses)
      /\ executing \subseteq MsgIds /\ transmitQueue \in Seq(MsgIds)
      /\ xmtId \in MsgIds \cup {EosId}
  BY ClientAssumption DEF IInv, TypeOK, CallTypeOK, ThreadTypeOK, WireTypeOK, IdsInv, Active, MsgIds
<1>1. \A i \in MsgIds : status[i] # "NEW" => status'[i] # "NEW"
  BY NewIsLost
<1>2. \A c \in Callers : callAt'[c] \in {"offer", "mark"} => status'[callId'[c]] = "NEW"
  BY <1>0 DEF MarkInv
<1> DEFINE XmtPart == /\ xmtAt \in {"lookup", "spin", "write", "writing"} => xmtId \in MsgIds
                      /\ xmtAt \in {"write", "writing"} => status[xmtId] # "NEW"
           ToServerPart == \A k \in 1..Len(toServer) :
                             toServer[k] # EosId => status[toServer[k]] # "NEW"
           ServerPart == \A i \in executing : status[i] # "NEW"
           ToClientPart == \A k \in 1..Len(toClient) :
                             \/ toClient[k] = Eos
                             \/ Genuine(toClient[k]) /\ status[toClient[k].id] # "NEW"
           RdrPart == rdrAt \in {"lookup", "deliver", "notify"} =>
                        Genuine(response) /\ status[response.id] # "NEW"
<1>3. XmtPart /\ ToServerPart /\ ServerPart /\ ToClientPart /\ RdrPart
  BY <1>0 DEF MarkInv
<1>4. SUFFICES XmtPart' /\ ToServerPart' /\ ServerPart' /\ ToClientPart' /\ RdrPart'
  BY <1>2 DEF MarkInv
<1>5. ASSUME UNCHANGED <<xmtAt, xmtId>> PROVE XmtPart'
  BY <1>1, <1>3, <1>5
<1>6. ASSUME UNCHANGED toServer PROVE ToServerPart'
  BY <1>0, <1>1, <1>3, <1>6
<1>7. ASSUME UNCHANGED executing PROVE ServerPart'
  BY <1>0, <1>1, <1>3, <1>7
<1>8. ASSUME UNCHANGED toClient PROVE ToClientPart'
  BY <1>1, <1>3, <1>8 DEF Genuine
<1>9. ASSUME UNCHANGED <<rdrAt, response>> PROVE RdrPart'
  BY <1>1, <1>3, <1>9 DEF Genuine
<1>EosSent. ASSUME toClient' = Append(toClient, Eos), UNCHANGED status
            PROVE  ToClientPart'
  <2>1. /\ Len(toClient') = Len(toClient) + 1 /\ toClient'[Len(toClient) + 1] = Eos
        /\ \A k \in 1..Len(toClient) : toClient'[k] = toClient[k]
        /\ Len(toClient) \in Nat
    BY <1>0, <1>EosSent, AppendFacts, EosType
  <2>2. SUFFICES ASSUME NEW k \in 1..Len(toClient')
                 PROVE  \/ toClient'[k] = Eos
                        \/ Genuine(toClient'[k]) /\ status'[toClient'[k].id] # "NEW"
    BY DEF Genuine
  <2>3. CASE k = Len(toClient) + 1
    BY <2>1, <2>3
  <2>4. CASE k \in 1..Len(toClient)
    BY <1>3, <1>EosSent, <2>1, <2>4
  <2> QED
    BY <2>1, <2>3, <2>4
<1>10. CASE TransmitterStep
  <2>1. UNCHANGED <<toClient, executing, rdrAt, response, status>>
    BY <1>10 DEF notXmt, rdrVars, peerVars, msgVars, wireVars, TransmitterStep, XmtLoop,
       XmtTake, XmtLookup, XmtSpin, XmtInterrupted, XmtWriteBegin, XmtWriteRefused,
       XmtWriteDone, XmtWriteBroken, XmtWriteClosed, XmtStop
  <2>2. XmtPart'
    <3>1. CASE XmtTake
      BY <1>0, <3>1, TakeFacts DEF XmtTake
    <3>2. CASE XmtSpin
      BY <1>3, <2>1, <3>2 DEF XmtSpin
    <3>3. CASE ~XmtTake /\ ~XmtSpin
      BY <1>3, <1>10, <2>1, <3>3 DEF TransmitterStep, XmtLoop, XmtLookup, XmtInterrupted,
         XmtWriteBegin, XmtWriteRefused, XmtWriteDone, XmtWriteBroken, XmtWriteClosed, XmtStop
    <3> QED
      BY <3>1, <3>2, <3>3
  <2>3. ToServerPart'
    <3>1. CASE xmtAt = "writing" /\ toServer' = Append(toServer, xmtId)
      <4>1. xmtId \in MsgIds /\ status[xmtId] # "NEW"
        BY <1>3, <3>1
      <4> QED
        BY <1>0, <1>3, <2>1, <3>1, <4>1, AppendFacts
    <3>2. CASE ~(xmtAt = "writing" /\ toServer' = Append(toServer, xmtId))
      <4>1. UNCHANGED toServer
        BY <1>10, <3>2 DEF TransmitterStep, XmtLoop, XmtTake, XmtLookup, XmtSpin,
           XmtInterrupted, XmtWriteBegin, XmtWriteRefused, XmtWriteDone, XmtWriteBroken,
           XmtWriteClosed, XmtStop, wireVars
      <4> QED
        BY <1>6, <4>1
    <3> QED
      BY <3>1, <3>2
  <2> QED
    BY <1>7, <1>8, <1>9, <2>1, <2>2, <2>3
<1>11. CASE ReaderStep
  <2>1. UNCHANGED <<xmtAt, xmtId, toServer, executing>>
    BY <1>11 DEF notRdr, xmtVars, peerVars, wireVars, ReaderStep, RdrLoop, RdrRead,
       RdrReadFails, RdrEndOfStream, RdrClosed, RdrLookup, RdrSetData, RdrNotify, RdrStop
  <2>2. ToClientPart' /\ RdrPart'
    <3>1. CASE RdrRead
      <4>1. /\ Head(toClient) = toClient[1] /\ 1 \in 1..Len(toClient)
            /\ \A k \in 1..Len(Tail(toClient)) : /\ k + 1 \in 1..Len(toClient)
                                                 /\ Tail(toClient)[k] = toClient[k + 1]
        BY <1>0, <3>1, TakeFacts DEF RdrRead
      <4>2. UNCHANGED status /\ toClient' = Tail(toClient) /\ response' = Head(toClient)
            /\ (rdrAt' \in {"lookup", "deliver", "notify"} => response'.kind # "eos")
        BY <3>1 DEF RdrRead, msgVars
      <4>3. ToClientPart'
        BY <1>3, <4>1, <4>2 DEF Genuine
      <4>4. RdrPart'
        BY <1>3, <4>1, <4>2 DEF Genuine, Eos
      <4> QED
        BY <4>3, <4>4
    <3>2. CASE ~RdrRead
      <4>1. UNCHANGED <<toClient, response>>
        BY <1>11, <3>2 DEF wireVars, ReaderStep, RdrLoop, RdrReadFails, RdrEndOfStream,
           RdrClosed, RdrLookup, RdrSetData, RdrNotify, RdrStop
      <4>2. rdrAt' \in {"lookup", "deliver", "notify"} =>
              rdrAt \in {"lookup", "deliver", "notify"}
        BY <1>11, <3>2 DEF ReaderStep, RdrLoop, RdrReadFails, RdrEndOfStream,
           RdrClosed, RdrLookup, RdrSetData, RdrNotify, RdrStop
      <4>3. RdrPart'
        BY <1>1, <1>3, <4>1, <4>2 DEF Genuine
      <4> QED
        BY <1>8, <4>1, <4>3
    <3> QED
      BY <3>1, <3>2
  <2> QED
    BY <1>5, <1>6, <1>7, <2>1, <2>2
<1>12. ASSUME NEW p \in Runners, CloseBegin(p) \/ CloseStep(p)
       PROVE  XmtPart' /\ ToServerPart' /\ ServerPart' /\ ToClientPart' /\ RdrPart'
  <2>1. UNCHANGED <<xmtAt, xmtId, toClient, executing, rdrAt, response, status>>
    BY <1>12 DEF notClose, xmtVars, rdrVars, peerVars, wireVars, msgVars, CloseStep, CloseBegin,
       CloseGuard, CloseEosBegin, CloseEosDone, CloseEosFails, ClosePipe, CloseTest,
       CloseTerminate, CloseInterrupt
  <2>2. toServer' = toServer \/ toServer' = Append(toServer, EosId)
    BY <1>12 DEF wireVars, CloseStep, CloseBegin, CloseGuard, CloseEosBegin, CloseEosDone,
       CloseEosFails, ClosePipe, CloseTest, CloseTerminate, CloseInterrupt
  <2>3. ASSUME toServer' = Append(toServer, EosId) PROVE ToServerPart'
    <3>1. /\ Len(toServer') = Len(toServer) + 1 /\ toServer'[Len(toServer) + 1] = EosId
          /\ \A k \in 1..Len(toServer) : toServer'[k] = toServer[k]
          /\ Len(toServer) \in Nat
      BY <1>0, <2>3, AppendFacts
    <3> QED
      BY <1>3, <2>1, <3>1
  <2>4. ToServerPart'
    BY <1>6, <2>2, <2>3
  <2> QED
    BY <1>5, <1>7, <1>8, <1>9, <2>1, <2>4
<1>13. CASE ServerReceive
  <2>1. UNCHANGED <<xmtAt, xmtId, rdrAt, response, status>>
    BY <1>13 DEF ServerReceive, notPeer, xmtVars, rdrVars, msgVars
  <2>2. /\ Head(toServer) = toServer[1] /\ 1 \in 1..Len(toServer)
        /\ \A k \in 1..Len(Tail(toServer)) : /\ k + 1 \in 1..Len(toServer)
                                             /\ Tail(toServer)[k] = toServer[k + 1]
    BY <1>0, <1>13, TakeFacts DEF ServerReceive
  <2>3. ToServerPart'
    BY <1>3, <1>13, <2>1, <2>2 DEF ServerReceive
  <2>4. ServerPart'
    BY <1>3, <1>13, <2>1, <2>2 DEF ServerReceive
  <2>5. ToClientPart'
    <3>1. toClient' = toClient \/ toClient' = Append(toClient, Eos)
      BY <1>13 DEF ServerReceive, ServerStops
    <3> QED
      BY <1>8, <1>EosSent, <2>1, <3>1
  <2> QED
    BY <1>5, <1>9, <2>1, <2>3, <2>4, <2>5
<1>14. CASE ServerShutdown
  <2>1. UNCHANGED <<xmtAt, xmtId, rdrAt, response, status, toServer, executing>>
    BY <1>14 DEF ServerShutdown, notPeer, xmtVars, rdrVars, msgVars
  <2>2. toClient' = toClient \/ toClient' = Append(toClient, Eos)
    BY <1>14 DEF ServerShutdown, ServerStops
  <2>3. ToClientPart'
    BY <1>8, <1>EosSent, <2>1, <2>2
  <2> QED
    BY <1>5, <1>6, <1>7, <1>9, <2>1, <2>3
<1>15. ASSUME NEW i \in executing, ServerAnswer(i)
       PROVE  XmtPart' /\ ToServerPart' /\ ServerPart' /\ ToClientPart' /\ RdrPart'
  <2>1. UNCHANGED <<xmtAt, xmtId, rdrAt, response, status, toServer>>
    BY <1>15 DEF ServerAnswer, notPeer, xmtVars, rdrVars, msgVars
  <2> DEFINE r == [id |-> i, kind |-> "reply", of |-> i]
  <2>2. r \in Responses /\ Genuine(r) /\ status[r.id] # "NEW"
    BY <1>0, <1>3 DEF Responses, Genuine
  <2>3. toClient' = Append(toClient, r) /\ executing' \subseteq executing
    BY <1>15 DEF ServerAnswer
  <2>4. ServerPart'
    BY <1>3, <2>1, <2>3
  <2> HIDE DEF r
  <2>5. ToClientPart'
    BY <1>0, <1>3, <2>1, <2>2, <2>3, AppendFacts
  <2> QED
    BY <1>5, <1>6, <1>9, <2>1, <2>4, <2>5
<1>16. CASE UNCHANGED notCall
  <2>1. UNCHANGED <<xmtAt, xmtId, rdrAt, response, toServer, toClient, executing>>
    BY <1>16 DEF notCall, xmtVars, rdrVars, wireVars, peerVars
  <2> QED
    BY <1>5, <1>6, <1>7, <1>8, <1>9, <2>1
<1> HIDE DEF XmtPart, ToServerPart, ServerPart, ToClientPart, RdrPart
<1>17. CASE UNCHANGED vars
  BY <1>16, <1>17 DEF vars, notCall
<1> QED
  BY <1>10, <1>11, <1>12, <1>13, <1>14, <1>15, <1>16, <1>17, CallsLeaveOthers DEF Next

\* Nothing on its way belongs to a request that is still NEW.
LEMMA MarkStep == IInv /\ [Next]_vars => MarkInv'
<1> SUFFICES ASSUME IInv, [Next]_vars PROVE MarkInv'
  OBVIOUS
<1>1. CASE \E c \in Callers : BeginCall(c) \/ CallStep(c)
  BY <1>1, MarkCall
<1>2. CASE RdrSetData
  BY <1>2, MarkOthers DEF RdrSetData, notRdr, callVars
<1>3. CASE RdrNotify
  <2>1. UNCHANGED <<callAt, callId, nextMsgId>>
    BY <1>3 DEF RdrNotify, notRdr, callVars
  <2>2. response.id \in MsgIds /\ status[response.id] # "NEW"
        /\ status \in [MsgIds -> {"NEW", "WAIT", "DONE"}]
    BY <1>3 DEF RdrNotify, IInv, MarkInv, Genuine, TypeOK, CallTypeOK
  <2>3. \A i \in MsgIds : status[i] = "NEW" => status'[i] = "NEW"
    BY <1>3, <2>2 DEF RdrNotify
  <2> QED
    BY <2>1, <2>3, MarkOthers
<1>4. CASE UNCHANGED <<callAt, callId, nextMsgId, status, data, notified, outstanding>>
  BY <1>4, MarkOthers
<1> QED
  BY <1>1, <1>2, <1>3, <1>4, OthersLeaveCalls

\* A Message that is DONE stays DONE: only the owner of a Message sets WAIT, and
\* only while the Message is NEW.
LEMMA DoneStays ==
    ASSUME IInv, [Next]_vars, NEW i \in MsgIds, status[i] = "DONE"
    PROVE  status'[i] = "DONE"
<1>0. status \in [MsgIds -> {"NEW", "WAIT", "DONE"}]
  BY DEF IInv, TypeOK, CallTypeOK
<1>1. ASSUME NEW c \in Callers, BeginCall(c) \/ CallStep(c)
      PROVE  status'[i] = "DONE"
  <2>1. CASE MarkWaiting(c)
    <3>1. status[callId[c]] = "NEW" /\ status' = [status EXCEPT ![callId[c]] = "WAIT"]
      BY <2>1 DEF MarkWaiting, IInv, MarkInv
    <3> QED
      BY <1>0, <3>1
  <2> QED
    BY <1>1, <2>1, CallsLeaveMessages
<1>2. CASE RdrSetData \/ RdrNotify
  BY <1>0, <1>2 DEF RdrSetData, RdrNotify
<1> QED
  BY <1>1, <1>2, OthersLeaveCalls

\* A Message that is DONE holds the answer to its own request.
LEMMA DataStep == IInv /\ [Next]_vars => DataInv'
<1> SUFFICES ASSUME IInv, [Next]_vars PROVE DataInv'
  OBVIOUS
<1>0. /\ DataInv /\ IdsInv
      /\ status \in [MsgIds -> {"NEW", "WAIT", "DONE"}] /\ data \in [MsgIds -> Payload]
      /\ callAt \in [Callers -> {"idle", "admit", "register", "offer", "mark", "await",
                                 "waiting", "check", "answered", "expired"}]
      /\ callId \in [Callers -> MsgIds \cup {EosId}]
      /\ \A c \in Callers : Active(c) => callId[c] \in MsgIds
      /\ rdrAt \in {"deliver", "notify"} => Genuine(response)
  BY ClientAssumption DEF IInv, TypeOK, CallTypeOK, IdsInv, MsgIds, MarkInv
<1>1. \A i \in MsgIds : status[i] = "DONE" => status'[i] = "DONE"
  BY DoneStays
<1>2. ASSUME NEW c \in Callers, BeginCall(c) \/ CallStep(c)
      PROVE  DataInv'
  <2>1. UNCHANGED <<data, rdrAt, response>>
    BY <1>2, CallsLeaveOthers, CallsLeaveMessages DEF notCall, rdrVars, MarkWaiting
  <2>2. \A i \in MsgIds : status'[i] = "DONE" => status[i] = "DONE"
    <3>1. CASE MarkWaiting(c)
      BY <1>0, <3>1 DEF MarkWaiting
    <3> QED
      BY <1>2, <3>1, CallsLeaveMessages
  <2>3. \A d \in Callers : callAt'[d] = "answered" => status'[callId'[d]] = "DONE"
    <3>1. CASE CheckStatus(c)
      <4>1. /\ callAt' = [callAt EXCEPT ![c] = IF status[callId[c]] = "DONE"
                                                 THEN "answered" ELSE "expired"]
            /\ UNCHANGED <<callId, status>>
        BY <3>1 DEF CheckStatus, CallGoes, msgVars
      <4> QED
        BY <1>0, <4>1 DEF DataInv
    <3>2. CASE ~CheckStatus(c)
      <4>1. \A d \in Callers : callAt'[d] = "answered" =>
              callAt[d] = "answered" /\ callId'[d] = callId[d]
        BY <1>0, <1>2, <3>2 DEF CallStep, BeginCall, Admit, Register, Offer, OfferTimesOut,
           MarkWaiting, Await, LeaveWait, EndCall, CallGoes
      <4> QED
        BY <1>0, <1>1, <4>1 DEF DataInv, Active
    <3> QED
      BY <3>1, <3>2
  <2> QED
    BY <1>0, <2>1, <2>2, <2>3 DEF DataInv, Answer
<1>3. CASE RdrSetData
  <2>1. /\ rdrAt = "deliver" /\ rdrAt' = "notify" /\ response' = response
        /\ data' = [data EXCEPT ![response.id] = [kind |-> response.kind, of |-> response.of]]
        /\ UNCHANGED <<status, callAt, callId>>
    BY <1>3 DEF RdrSetData, notRdr, callVars
  <2>2. [kind |-> response.kind, of |-> response.of] = Answer(response.id)
        /\ response.id \in MsgIds
    BY <1>0, <2>1 DEF Genuine, Answer
  <2> QED
    BY <1>0, <2>1, <2>2 DEF DataInv, Answer
<1>4. CASE RdrNotify
  <2>1. /\ rdrAt = "notify" /\ rdrAt' = "loop"
        /\ status' = [status EXCEPT ![response.id] = "DONE"]
        /\ UNCHANGED <<data, callAt, callId>>
    BY <1>4 DEF RdrNotify, notRdr, callVars
  <2>2. \A i \in MsgIds : status'[i] = "DONE" => status[i] = "DONE" \/ i = response.id
    BY <1>0, <2>1
  <2>3. \A c \in Callers : callAt'[c] = "answered" => status'[callId'[c]] = "DONE"
    BY <1>0, <1>1, <2>1 DEF DataInv, Active
  <2> QED
    BY <1>0, <2>1, <2>2, <2>3 DEF DataInv, Answer
<1>5. ASSUME UNCHANGED <<callAt, callId, nextMsgId, status, data, notified, outstanding>>,
             ~RdrSetData, ~RdrNotify, ~(\E c \in Callers : BeginCall(c) \/ CallStep(c))
      PROVE  DataInv'
  <2>1. rdrAt' = "notify" => rdrAt = "notify" /\ response' = response
    <3>1. CASE ReaderStep
      BY <1>5, <3>1 DEF ReaderStep, RdrLoop, RdrRead, RdrReadFails, RdrEndOfStream,
         RdrClosed, RdrLookup, RdrStop
    <3>2. CASE ~ReaderStep
      <4>1. UNCHANGED rdrVars
        BY <1>5, <3>2, OthersLeaveReader
      <4> QED
        BY <4>1 DEF rdrVars
    <3> QED
      BY <3>1, <3>2
  <2> QED
    BY <1>0, <1>5, <2>1 DEF DataInv, Answer
<1> QED
  BY <1>2, <1>3, <1>4, <1>5, OthersLeaveCalls

-----------------------------------------------------------------------------
(* Theorems.                                                               *)

\* The invariant holds in every reachable state.
THEOREM Invariance == Spec => []IInv
<1>1. IInv /\ [Next]_vars => IInv'
  BY TypeStep, IdsStep, MarkStep, DataStep DEF IInv
<1> QED
  BY InvInit, <1>1, PTL DEF Spec

\* Type correctness of the client for any number of callers, closers, ids and
\* any capacity of its queues.
THEOREM TypeCorrect == Spec => []TypeOK
<1>1. IInv => TypeOK
  BY DEF IInv
<1> QED
  BY Invariance, <1>1, PTL

\* A caller that is about to return holds the server's answer to its own
\* request, although PipeClient.sendRequest reads the Message unlocked.
THEOREM AnswersAreOwn == Spec => []AnswersBelong
<1>1. IInv => AnswersBelong
  BY ClientAssumption DEF IInv, DataInv, IdsInv, Active, AnswersBelong, Answer, MsgIds,
     TypeOK, CallTypeOK
<1> QED
  BY Invariance, <1>1, PTL

\* The unsynchronized setStatus(WAIT) never overwrites DONE: the transmitter's
\* wait for WAIT keeps the answer behind it.
THEOREM NoAnswerOverwritten == Spec => DoneIsFinal
<1>1. IInv /\ [Next]_vars =>
        [\A i \in MsgIds : status[i] = "DONE" => status'[i] = "DONE"]_vars
  BY DoneStays
<1> QED
  BY Invariance, <1>1, PTL DEF Spec, DoneIsFinal

\* No caller sleeps through its answer: whoever waits on a Message that is DONE
\* has been notified.
THEOREM NotificationsArrive == Spec => []NoMissedNotify
<1>1. Init => NoMissedNotify
  BY DEF Init, NoMissedNotify
<1>2. ASSUME IInv, NoMissedNotify, [Next]_vars
      PROVE  NoMissedNotify'
  <2>0. /\ callAt \in [Callers -> {"idle", "admit", "register", "offer", "mark", "await",
                                   "waiting", "check", "answered", "expired"}]
        /\ callId \in [Callers -> MsgIds \cup {EosId}]
        /\ status \in [MsgIds -> {"NEW", "WAIT", "DONE"}]
        /\ \A c \in Callers : callAt[c] = "waiting" => callId[c] \in MsgIds
    BY <1>2, ClientAssumption DEF IInv, TypeOK, CallTypeOK, IdsInv, Active, MsgIds
  <2>1. ASSUME NEW c \in Callers, BeginCall(c) \/ CallStep(c)
        PROVE  NoMissedNotify'
    <3>1. CASE Await(c)
      BY <1>2, <2>0, <3>1 DEF NoMissedNotify, Await, CallGoes
    <3>2. CASE LeaveWait(c)
      BY <1>2, <2>0, <3>2 DEF NoMissedNotify, LeaveWait, CallGoes
    <3>3. CASE MarkWaiting(c)
      <4>1. /\ status' = [status EXCEPT ![callId[c]] = "WAIT"]
            /\ callAt' = [callAt EXCEPT ![c] = "await"] /\ UNCHANGED <<callId, notified>>
        BY <3>3 DEF MarkWaiting, CallGoes
      <4> QED
        BY <1>2, <2>0, <4>1 DEF NoMissedNotify
    <3>4. CASE ~Await(c) /\ ~LeaveWait(c) /\ ~MarkWaiting(c)
      <4>1. UNCHANGED <<status, notified>>
        BY <2>1, <3>4 DEF CallStep, BeginCall, Admit, Register, Offer, OfferTimesOut,
           CheckStatus, EndCall, msgVars
      <4>2. \A d \in Callers : callAt'[d] = "waiting" =>
              callAt[d] = "waiting" /\ callId'[d] = callId[d]
        BY <2>0, <2>1, <3>4 DEF CallStep, BeginCall, Admit, Register, Offer, OfferTimesOut,
           CheckStatus, EndCall, CallGoes
      <4> QED
        BY <1>2, <4>1, <4>2 DEF NoMissedNotify
    <3> QED
      BY <3>1, <3>2, <3>3, <3>4
  <2>2. CASE RdrSetData
    BY <1>2, <2>2 DEF NoMissedNotify, RdrSetData, notRdr, callVars
  <2>3. CASE RdrNotify
    <3>1. /\ status' = [status EXCEPT ![response.id] = "DONE"]
          /\ notified' = notified \cup
               {c \in Callers : callAt[c] = "waiting" /\ callId[c] = response.id}
          /\ UNCHANGED <<callAt, callId>>
      BY <2>3 DEF RdrNotify, notRdr, callVars
    <3> QED
      BY <1>2, <2>0, <3>1 DEF NoMissedNotify
  <2>4. CASE UNCHANGED <<callAt, callId, nextMsgId, status, data, notified, outstanding>>
    BY <1>2, <2>4 DEF NoMissedNotify
  <2> QED
    BY <1>2, <2>1, <2>2, <2>3, <2>4, OthersLeaveCalls
<1> QED
  BY Invariance, <1>1, <1>2, PTL DEF Spec

\* However a call ends, its request leaves outstandingRequests: what the map holds
\* belongs to calls in progress, so it never fills up with abandoned requests.
THEOREM NoOrphans == Spec => []NoOrphanRequest
<1>1. Init => NoOrphanRequest
  BY DEF Init, NoOrphanRequest
<1>2. ASSUME IInv, NoOrphanRequest, [Next]_vars
      PROVE  NoOrphanRequest'
  <2>0. /\ callAt \in [Callers -> {"idle", "admit", "register", "offer", "mark", "await",
                                   "waiting", "check", "answered", "expired"}]
        /\ callId \in [Callers -> MsgIds \cup {EosId}]
    BY <1>2 DEF IInv, TypeOK, CallTypeOK
  <2>1. ASSUME NEW c \in Callers, BeginCall(c) \/ CallStep(c)
        PROVE  NoOrphanRequest'
    <3>1. CASE Register(c)
      <4>1. /\ callAt[c] = "register" /\ callAt' = [callAt EXCEPT ![c] = "offer"]
            /\ callId' = [callId EXCEPT ![c] = nextMsgId']
            /\ outstanding' = outstanding \cup {nextMsgId'}
        BY <3>1 DEF Register, CallGoes
      <4>2. callId'[c] = nextMsgId' /\ callAt'[c] = "offer"
        BY <2>0, <4>1
      <4>3. \A d \in Callers \ {c} : callId'[d] = callId[d] /\ callAt'[d] = callAt[d]
        BY <2>0, <4>1
      <4> QED
        BY <1>2, <4>1, <4>2, <4>3 DEF NoOrphanRequest
    <3>2. CASE OfferTimesOut(c) \/ EndCall(c)
      <4>1. /\ outstanding' = outstanding \ {callId[c]} /\ callId' = callId
            /\ \A d \in Callers \ {c} : callAt'[d] = callAt[d]
        BY <2>0, <3>2 DEF OfferTimesOut, EndCall, CallGoes
      <4> QED
        BY <1>2, <4>1 DEF NoOrphanRequest
    <3>3. CASE ~Register(c) /\ ~OfferTimesOut(c) /\ ~EndCall(c)
      <4>1. UNCHANGED <<outstanding, callId>>
        BY <2>1, <3>3 DEF CallStep, BeginCall, Admit, Offer, MarkWaiting, Await, LeaveWait,
           CheckStatus
      <4>2. \A d \in Callers : Active(d) => Active(d)'
        BY <2>0, <2>1, <3>3 DEF Active, CallStep, BeginCall, Admit, Offer, MarkWaiting, Await,
           LeaveWait, CheckStatus, CallGoes
      <4> QED
        BY <1>2, <4>1, <4>2 DEF NoOrphanRequest, Active
    <3> QED
      BY <3>1, <3>2, <3>3
  <2>2. CASE RdrSetData \/ RdrNotify
    BY <1>2, <2>2 DEF NoOrphanRequest, RdrSetData, RdrNotify, notRdr, callVars
  <2>3. CASE UNCHANGED <<callAt, callId, nextMsgId, status, data, notified, outstanding>>
    BY <1>2, <2>3 DEF NoOrphanRequest
  <2> QED
    BY <1>2, <2>1, <2>2, <2>3, OthersLeaveCalls
<1> QED
  BY Invariance, <1>1, <1>2, PTL DEF Spec

-----------------------------------------------------------------------------
(* close() reaches both threads.                                           *)

\* A field is nulled by its own thread when that ends, and close() moves from one thread
\* to the next only when the first is told to end, or has.
ClosedInv ==
    /\ ~field["transmitter"] => xmtAt = "dead"
    /\ ~field["reader"] => rdrAt \in {"closing", "stopping", "dead"}
    /\ \A p \in Runners :
         /\ closeAt[p] = "interruptXmt" => ~mustRun["transmitter"]
         /\ closeAt[p] \in {"testRdr", "useRdr", "interruptRdr", "done"} => XmtEnds
         /\ closeAt[p] = "interruptRdr" => ~mustRun["reader"]
         /\ closeAt[p] = "done" => RdrEnds

\* A thread that is to end stays so: it consumes an interrupt only on its way to the test
\* of mustRun.
LEMMA ThreadsGoOn ==
    ASSUME IInv, ClosedInv, TransmitterStep \/ ReaderStep
    PROVE  ClosedInv'
<1>0. ThreadTypeOK /\ CloseTypeOK
  BY DEF IInv, TypeOK
<1> USE DEF notXmt, notRdr, closeVars, rdrVars, xmtVars, threadVars
<1>1. UNCHANGED <<mustRun, closeAt>>
  BY DEF TransmitterStep, XmtLoop, XmtTake, XmtLookup, XmtSpin, XmtInterrupted, XmtWriteBegin,
     XmtWriteRefused, XmtWriteDone, XmtWriteBroken, XmtWriteClosed, XmtStop,
     ReaderStep, RdrLoop, RdrRead, RdrReadFails, RdrEndOfStream, RdrClosed, RdrLookup,
     RdrSetData, RdrNotify, RdrStop
<1>2. CASE TransmitterStep
  <2>1. UNCHANGED rdrAt /\ field'["reader"] = field["reader"]
        /\ interrupted'["reader"] = interrupted["reader"]
    BY <1>0, <1>2 DEF TransmitterStep, XmtLoop, XmtTake, XmtLookup, XmtSpin, XmtInterrupted,
       XmtWriteBegin, XmtWriteRefused, XmtWriteDone, XmtWriteBroken, XmtWriteClosed, XmtStop,
       ThreadTypeOK, Threads
  <2>2. XmtEnds => XmtEnds'
    BY <1>0, <1>1, <1>2 DEF TransmitterStep, XmtLoop, XmtTake, XmtLookup, XmtSpin, XmtInterrupted,
       XmtWriteBegin, XmtWriteRefused, XmtWriteDone, XmtWriteBroken, XmtWriteClosed, XmtStop,
       ThreadTypeOK, Threads, XmtEnds
  <2>3. ~field'["transmitter"] => xmtAt' = "dead"
    BY <1>0, <1>2 DEF ClosedInv, TransmitterStep, XmtLoop, XmtTake, XmtLookup, XmtSpin,
       XmtInterrupted, XmtWriteBegin, XmtWriteRefused, XmtWriteDone, XmtWriteBroken,
       XmtWriteClosed, XmtStop, ThreadTypeOK, Threads
  <2>4. RdrEnds => RdrEnds'
    BY <1>1, <2>1 DEF RdrEnds
  <2> QED
    BY <1>1, <2>1, <2>2, <2>3, <2>4 DEF ClosedInv
<1>3. CASE ReaderStep
  <2>1. UNCHANGED <<xmtAt, interrupted>> /\ field'["transmitter"] = field["transmitter"]
    BY <1>0, <1>3 DEF ReaderStep, RdrLoop, RdrRead, RdrReadFails, RdrEndOfStream, RdrClosed,
       RdrLookup, RdrSetData, RdrNotify, RdrStop, ThreadTypeOK, Threads
  <2>2. RdrEnds => RdrEnds'
    BY <1>0, <1>1, <1>3 DEF ReaderStep, RdrLoop, RdrRead, RdrReadFails, RdrEndOfStream, RdrClosed,
       RdrLookup, RdrSetData, RdrNotify, RdrStop, ThreadTypeOK, Threads, RdrEnds
  <2>3. ~field'["reader"] => rdrAt' \in {"closing", "stopping", "dead"}
    BY <1>0, <1>3 DEF ClosedInv, ReaderStep, RdrLoop, RdrRead, RdrReadFails, RdrEndOfStream,
       RdrClosed, RdrLookup, RdrSetData, RdrNotify, RdrStop, ThreadTypeOK, Threads
  <2>4. XmtEnds => XmtEnds'
    BY <1>1, <2>1 DEF XmtEnds
  <2> QED
    BY <1>1, <2>1, <2>2, <2>3, <2>4 DEF ClosedInv
<1> QED
  BY <1>2, <1>3

\* A step of close() that tells nobody anything.
LEMMA CloseMovesThreads ==
    ASSUME IInv, ClosedInv, NEW p \in Runners, NEW at,
           CloseGoes(p, at), UNCHANGED <<threadVars, xmtAt, rdrAt>>,
           at # "interruptXmt", at # "interruptRdr",
           at \in {"testRdr", "useRdr", "done"} => XmtEnds,
           at = "done" => RdrEnds
    PROVE  ClosedInv'
<1>1. closeAt'[p] = at /\ \A q \in Runners \ {p} : closeAt'[q] = closeAt[q]
  BY DEF CloseGoes, IInv, TypeOK, CloseTypeOK
<1>2. (XmtEnds <=> XmtEnds') /\ (RdrEnds <=> RdrEnds')
  BY DEF threadVars, XmtEnds, RdrEnds
<1>3. UNCHANGED <<field, mustRun, xmtAt, rdrAt>>
  BY DEF threadVars
<1> QED
  BY <1>1, <1>2, <1>3 DEF ClosedInv

LEMMA CloseGoesOn ==
    ASSUME IInv, ClosedInv, NEW p \in Runners, CloseBegin(p) \/ CloseStep(p)
    PROVE  ClosedInv'
<1>0. ThreadTypeOK /\ CloseTypeOK
  BY DEF IInv, TypeOK
<1>1. UNCHANGED <<xmtAt, rdrAt>>
  BY DEF CloseBegin, CloseStep, CloseGuard, CloseEosBegin, CloseEosDone, CloseEosFails, ClosePipe,
     CloseTest, CloseTerminate, CloseInterrupt, notClose, xmtVars, rdrVars
<1>2. CASE \/ CloseBegin(p) \/ CloseGuard(p) \/ CloseEosBegin(p) \/ CloseEosDone(p)
           \/ CloseEosFails(p) \/ ClosePipe(p)
  <2>1. UNCHANGED threadVars
    BY <1>2 DEF CloseBegin, CloseGuard, CloseEosBegin, CloseEosDone, CloseEosFails, ClosePipe
  <2>2. PICK at \in {"guard", "eos", "testXmt", "writing", "ioexception", "closePipe"} :
          CloseGoes(p, at)
    BY <1>2 DEF CloseBegin, CloseGuard, CloseEosBegin, CloseEosDone, CloseEosFails, ClosePipe
  <2> QED
    BY <1>1, <2>1, <2>2, CloseMovesThreads
<1>3. CASE CloseTest(p, "transmitter", "testXmt", "useXmt", "testRdr")
  <2>1. ~field["transmitter"] => XmtEnds
    BY DEF ClosedInv, XmtEnds
  <2>2. CloseGoes(p, IF field["transmitter"] THEN "useXmt" ELSE "testRdr") /\ UNCHANGED threadVars
    BY <1>3 DEF CloseTest
  <2> QED
    BY <1>1, <2>1, <2>2, CloseMovesThreads
<1>4. CASE CloseTest(p, "reader", "testRdr", "useRdr", "done")
  <2>1. /\ closeAt[p] = "testRdr" /\ UNCHANGED threadVars
        /\ CloseGoes(p, IF field["reader"] THEN "useRdr" ELSE "done")
    BY <1>4 DEF CloseTest
  <2>2. XmtEnds /\ (~field["reader"] => RdrEnds)
    BY <2>1 DEF ClosedInv, RdrEnds
  <2> QED
    BY <1>1, <2>1, <2>2, CloseMovesThreads
<1>5. ASSUME NEW t \in Threads, NEW use, NEW interrupt,
             use = IF t = "reader" THEN "useRdr" ELSE "useXmt",
             interrupt = IF t = "reader" THEN "interruptRdr" ELSE "interruptXmt",
             CloseTerminate(p, t, use, interrupt)
      PROVE  ClosedInv'
  <2>1. /\ closeAt[p] = use /\ UNCHANGED <<field, interrupted>>
        /\ \/ mustRun' = mustRun /\ CloseGoes(p, "npe")
           \/ mustRun' = [mustRun EXCEPT ![t] = FALSE] /\ CloseGoes(p, interrupt)
    BY <1>5 DEF CloseTerminate
  <2>2. CASE mustRun' = mustRun /\ CloseGoes(p, "npe")
    BY <1>1, <2>1, <2>2, CloseMovesThreads DEF threadVars
  <2>3. CASE mustRun' = [mustRun EXCEPT ![t] = FALSE] /\ CloseGoes(p, interrupt)
    <3>1. ~mustRun'[t] /\ \A u \in Threads : ~mustRun[u] => ~mustRun'[u]
      BY <1>0, <2>3 DEF ThreadTypeOK
    <3>2. (XmtEnds => XmtEnds') /\ (RdrEnds => RdrEnds')
      BY <1>1, <2>1, <3>1 DEF XmtEnds, RdrEnds, Threads
    <3>3. closeAt'[p] = interrupt /\ \A q \in Runners \ {p} : closeAt'[q] = closeAt[q]
      BY <1>0, <2>3 DEF CloseGoes, CloseTypeOK
    <3>4. t = "reader" => XmtEnds
      BY <1>5, <2>1 DEF ClosedInv
    <3>5. t = "transmitter" \/ t = "reader"
      BY DEF Threads
    <3>6. /\ ~mustRun["transmitter"] => ~mustRun'["transmitter"]
          /\ ~mustRun["reader"] => ~mustRun'["reader"]
      BY <3>1 DEF Threads
    <3> QED
      BY <1>1, <1>5, <2>1, <3>1, <3>2, <3>3, <3>4, <3>5, <3>6 DEF ClosedInv
  <2> QED
    BY <2>1, <2>2, <2>3
<1>6. ASSUME NEW t \in Threads, NEW interrupt, NEW next,
             interrupt = IF t = "reader" THEN "interruptRdr" ELSE "interruptXmt",
             next = IF t = "reader" THEN "done" ELSE "testRdr",
             CloseInterrupt(p, t, interrupt, next)
      PROVE  ClosedInv'
  <2>1. /\ closeAt[p] = interrupt /\ UNCHANGED <<field, mustRun>> /\ CloseGoes(p, next)
        /\ interrupted' = [interrupted EXCEPT ![t] =
                @ \/ (IF t = "transmitter" THEN xmtAt ELSE rdrAt) # "dead"]
    BY <1>6 DEF CloseInterrupt
  <2>2. ~mustRun[t]
    BY <1>6, <2>1 DEF ClosedInv, Threads
  <2>3. /\ interrupted'[t] \/ (IF t = "transmitter" THEN xmtAt ELSE rdrAt) = "dead"
        /\ \A u \in Threads : interrupted[u] => interrupted'[u]
    BY <1>0, <2>1 DEF ThreadTypeOK
  <2>4. (XmtEnds => XmtEnds') /\ (RdrEnds => RdrEnds')
    BY <1>1, <2>1, <2>3 DEF XmtEnds, RdrEnds, Threads
  <2>5. (t = "transmitter" => XmtEnds') /\ (t = "reader" => RdrEnds' /\ XmtEnds)
    BY <1>1, <1>6, <2>1, <2>2, <2>3 DEF XmtEnds, RdrEnds, ClosedInv
  <2>6. closeAt'[p] = next /\ \A q \in Runners \ {p} : closeAt'[q] = closeAt[q]
    BY <1>0, <2>1 DEF CloseGoes, CloseTypeOK
  <2>7. t = "transmitter" \/ t = "reader"
    BY DEF Threads
  <2> QED
    BY <1>1, <1>6, <2>1, <2>4, <2>5, <2>6, <2>7 DEF ClosedInv
<1>7. "transmitter" \in Threads /\ "reader" \in Threads
  BY DEF Threads
<1> QED
  BY <1>2, <1>3, <1>4, <1>5, <1>6, <1>7 DEF CloseStep

LEMMA ClosedKept == IInv /\ ClosedInv /\ [Next]_vars => ClosedInv'
<1> SUFFICES ASSUME IInv, ClosedInv, [Next]_vars PROVE ClosedInv'
  OBVIOUS
<1>1. CASE UNCHANGED <<xmtAt, rdrAt, field, mustRun, interrupted, closeAt>>
  BY <1>1 DEF ClosedInv, XmtEnds, RdrEnds
<1>2. ASSUME NEW c \in Callers, BeginCall(c) \/ CallStep(c)
      PROVE  UNCHANGED <<xmtAt, rdrAt, field, mustRun, interrupted, closeAt>>
  BY <1>2 DEF BeginCall, CallStep, Admit, Register, Offer, OfferTimesOut, MarkWaiting, Await,
     LeaveWait, CheckStatus, EndCall, notCall, xmtVars, rdrVars, threadVars, closeVars
<1>3. CASE \/ ServerReceive \/ ServerShutdown \/ (\E i \in executing : ServerAnswer(i))
           \/ UNCHANGED vars
  BY <1>1, <1>3 DEF ServerReceive, ServerShutdown, ServerAnswer, notPeer, vars, xmtVars, rdrVars,
     threadVars, closeVars
<1> QED
  BY <1>1, <1>2, <1>3, ThreadsGoOn, CloseGoesOn DEF Next

\* A close() that returns normally has left no thread that neither stopped nor was told to
\* and interrupted, in every interleaving of any number of close() calls, the threads' own
\* ends and the null tests between.
THEOREM CloseReaches == Spec => []CloseReachesThreads
<1>1. Init => ClosedInv
  BY DEF Init, ClosedInv, Threads
<1>2. IInv /\ ClosedInv /\ [Next]_vars => ClosedInv'
  BY ClosedKept
<1>3. ClosedInv => CloseReachesThreads
  BY DEF ClosedInv, CloseReachesThreads, Runners
<1> QED
  BY <1>1, <1>2, <1>3, Invariance, PTL DEF Spec
=============================================================================
