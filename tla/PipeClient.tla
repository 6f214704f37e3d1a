----------------------------- MODULE PipeClient -----------------------------
(***************************************************************************)
(* net.kwami.pipe.client: application threads (Callers) share one          *)
(* PipeClient.  sendRequest() parks the caller on its Message; the         *)
(* RequestTransmitter thread writes queued messages to the pipe and the    *)
(* ResponseReader thread completes them; close() may run in a user thread  *)
(* (Closers) and in the ResponseReader.  The peer and the pipe itself are  *)
(* the environment, in the last part of the module.                        *)
(*                                                                         *)
(* Every step reads or writes shared state once; a synchronized block      *)
(* whose effect nobody can see half done is one step.                      *)
(***************************************************************************)
EXTENDS Naturals, Sequences, FiniteSets

CONSTANTS Callers,        \* application threads calling sendRequest()
          Untimed,        \* those that pass timeoutMs = 0: wait(0) never expires
          Closers,        \* application threads calling close()
          MaxMsgId,       \* bound: ids issued by nextMsgId in one run
          MaxOutstanding, \* ClientConfig.maxOutstanding
          QueueCap,       \* ClientConfig.maxTransmitQueue
          WireCap,        \* bound: messages the pipe buffers towards the server
          Protocols       \* what the server may answer: "TCP", "FIFO"

MsgIds  == 1..MaxMsgId
EosId   == 0              \* id of the END-OF-STREAM message
Threads == {"transmitter", "reader"}
Runners == Closers \cup {"reader"}    \* who may be inside close()

ASSUME ClientAssumption ==
    /\ MaxMsgId \in Nat /\ MaxOutstanding \in Nat
    /\ QueueCap \in Nat \ {0} /\ WireCap \in Nat \ {0}
    /\ Protocols \subseteq {"TCP", "FIFO"}
    /\ Untimed \subseteq Callers
    /\ Closers \cap (Threads \cup {"free"}) = {}

VARIABLES
    nextMsgId, outstanding, transmitQueue,            \* PipeClient's fields
    field,            \* field[t]: requestTransmitter / responseReader is not null
    status, data,     \* the Message objects, by id
    notified,         \* callers whose Message was notified while they waited
    callAt, callId,                                   \* sendRequest(), per caller
    xmtAt, xmtId,                                     \* RequestTransmitter.run()
    rdrAt, response,                                  \* ResponseReader.run()
    mustRun, interrupted,                             \* ManagedThread, per thread
    closeAt,                                          \* close(), per runner
    pipeOpen, writeLock,                              \* Pipe; monitor of writeBuffer
    toServer, toClient, executing, serverAt,          \* the pipe's contents, the peer
    protocol                                          \* the class of the pipe

callVars   == <<callAt, callId>>
msgVars    == <<nextMsgId, status, data, notified>>
xmtVars    == <<xmtAt, xmtId>>
rdrVars    == <<rdrAt, response>>
threadVars == <<field, mustRun, interrupted>>
closeVars  == <<closeAt>>
pipeVars   == <<pipeOpen, writeLock>>
peerVars   == <<executing, serverAt, protocol>>
wireVars   == <<toServer, toClient>>
vars == <<callVars, msgVars, outstanding, transmitQueue, xmtVars, rdrVars,
          threadVars, closeVars, pipeVars, wireVars, peerVars>>

\* What the steps of each thread leave alone.
notCall  == <<xmtVars, rdrVars, threadVars, closeVars, pipeVars, wireVars, peerVars>>
notXmt   == <<callVars, msgVars, outstanding, rdrVars, closeVars, peerVars>>
notRdr   == <<callVars, outstanding, transmitQueue, xmtVars, closeVars, peerVars>>
notClose == <<callVars, msgVars, outstanding, transmitQueue, xmtVars, rdrVars, peerVars>>
notPeer  == <<callVars, msgVars, outstanding, transmitQueue, xmtVars, rdrVars,
              threadVars, closeVars, pipeVars, protocol>>

\* What a Message holds: the request, or the response to request `of`.
Payload   == [kind : {"request", "reply"}, of : MsgIds]
Responses == [id : MsgIds \cup {EosId}, kind : {"none", "reply", "eos"},
              of : MsgIds \cup {EosId}]
Eos         == [id |-> EosId, kind |-> "eos", of |-> EosId]
NoResponse  == [id |-> EosId, kind |-> "none", of |-> EosId]

Init ==
    /\ nextMsgId = 0 /\ outstanding = {} /\ transmitQueue = <<>>
    /\ field = [t \in Threads |-> TRUE]
    /\ status = [i \in MsgIds |-> "NEW"]
    /\ data = [i \in MsgIds |-> [kind |-> "request", of |-> i]]
    /\ notified = {}
    /\ callAt = [c \in Callers |-> "idle"]
    /\ callId = [c \in Callers |-> EosId]
    /\ xmtAt = "loop" /\ xmtId = EosId
    /\ rdrAt = "loop" /\ response = NoResponse
    /\ mustRun = [t \in Threads |-> TRUE]
    /\ interrupted = [t \in Threads |-> FALSE]
    /\ closeAt = [p \in Runners |-> "idle"]
    /\ pipeOpen = TRUE /\ writeLock = "free"
    /\ toServer = <<>> /\ toClient = <<>> /\ executing = {}
    /\ serverAt = "serving" /\ protocol \in Protocols

-----------------------------------------------------------------------------
(* sendRequest()                                                           *)

CallGoes(c, at) == callAt' = [callAt EXCEPT ![c] = at]

\* The bound on ids counts the calls that have passed the closed check.
MayIssue == nextMsgId + Cardinality({c \in Callers : callAt[c] \in {"admit", "register"}})
              < MaxMsgId

\* isClosed, which close() sets, is neither volatile nor locked: a call that starts
\* later may still read FALSE.  One that reads TRUE throws and changes nothing.
BeginCall(c) ==
    /\ callAt[c] = "idle" /\ MayIssue
    /\ CallGoes(c, "admit")
    /\ UNCHANGED <<callId, msgVars, outstanding, transmitQueue, notCall>>

\* Above the limit the call throws.
Admit(c) ==
    /\ callAt[c] = "admit"
    /\ CallGoes(c, IF Cardinality(outstanding) > MaxOutstanding THEN "idle" ELSE "register")
    /\ UNCHANGED <<callId, msgVars, outstanding, transmitQueue, notCall>>

\* incrementAndGet, new Message, put: the first two are seen only through put.
Register(c) ==
    /\ callAt[c] = "register" /\ nextMsgId < MaxMsgId
    /\ nextMsgId' = nextMsgId + 1
    /\ callId' = [callId EXCEPT ![c] = nextMsgId']
    /\ outstanding' = outstanding \cup {nextMsgId'}
    /\ CallGoes(c, "offer")
    /\ UNCHANGED <<status, data, notified, transmitQueue, notCall>>

Offer(c) ==
    /\ callAt[c] = "offer"
    /\ Len(transmitQueue) < QueueCap
    /\ transmitQueue' = Append(transmitQueue, callId[c])
    /\ CallGoes(c, "mark")
    /\ UNCHANGED <<callId, msgVars, outstanding, notCall>>

\* Mutant: no finally block, the request stays in the map.
OfferTimesOut_Leaks(c) ==
    /\ callAt[c] = "offer"
    /\ Len(transmitQueue) = QueueCap
    /\ CallGoes(c, "idle")
    /\ UNCHANGED <<callId, msgVars, outstanding, transmitQueue, notCall>>

\* The timed offer gives up only while the queue is full.
OfferTimesOut(c) ==
    /\ callAt[c] = "offer"
    /\ Len(transmitQueue) = QueueCap
    /\ outstanding' = outstanding \ {callId[c]}
    /\ CallGoes(c, "idle")
    /\ UNCHANGED <<callId, msgVars, transmitQueue, notCall>>

MarkWaiting(c) ==
    /\ callAt[c] = "mark"
    /\ status' = [status EXCEPT ![callId[c]] = "WAIT"]
    /\ CallGoes(c, "await")
    /\ UNCHANGED <<callId, nextMsgId, data, notified, outstanding,
                   transmitQueue, notCall>>

\* The ResponseReader is the only thread that holds a Message's monitor
\* across steps: from setData to notify.
MonitorFree(i) == ~(rdrAt = "notify" /\ response.id = i)

\* Mutant: wait() without looking at the status under the monitor.
Await_Blindly(c) ==
    /\ callAt[c] = "await" /\ MonitorFree(callId[c])
    /\ notified' = notified \ {c}
    /\ CallGoes(c, "waiting")
    /\ UNCHANGED <<callId, nextMsgId, status, data, outstanding,
                   transmitQueue, notCall>>

\* synchronized (msg) { if not DONE, wait }: testing and starting to wait are
\* one step because the monitor is held throughout.
Await(c) ==
    /\ callAt[c] = "await" /\ MonitorFree(callId[c])
    /\ notified' = notified \ {c}
    /\ CallGoes(c, IF status[callId[c]] = "DONE" THEN "check" ELSE "waiting")
    /\ UNCHANGED <<callId, nextMsgId, status, data, outstanding,
                   transmitQueue, notCall>>

\* Mutant: wait() without a timeout.
LeaveWait_OnlyNotified(c) ==
    /\ callAt[c] = "waiting" /\ MonitorFree(callId[c])
    /\ c \in notified
    /\ CallGoes(c, "check")
    /\ notified' = notified \ {c}
    /\ UNCHANGED <<callId, nextMsgId, status, data, outstanding,
                   transmitQueue, notCall>>

\* wait() returns, once the monitor is free again, after a notification or
\* after the timeout.  There is no loop around it.
LeaveWait(c) ==
    /\ callAt[c] = "waiting" /\ MonitorFree(callId[c])
    /\ c \in notified \/ c \notin Untimed
    /\ CallGoes(c, "check")
    /\ notified' = notified \ {c}
    /\ UNCHANGED <<callId, nextMsgId, status, data, outstanding,
                   transmitQueue, notCall>>

\* The status is read after the monitor was released ...
CheckStatus(c) ==
    /\ callAt[c] = "check"
    /\ CallGoes(c, IF status[callId[c]] = "DONE" THEN "answered" ELSE "expired")
    /\ UNCHANGED <<callId, msgVars, outstanding, transmitQueue, notCall>>

\* ... and the call ends in a later step: it returns, or throws, what is in the
\* Message then, or throws a timeout; the finally block removes the request.
EndCall(c) ==
    /\ callAt[c] \in {"answered", "expired"}
    /\ outstanding' = outstanding \ {callId[c]}
    /\ CallGoes(c, "idle")
    /\ UNCHANGED <<callId, msgVars, transmitQueue, notCall>>

CallStep(c) == \/ Admit(c) \/ Register(c) \/ Offer(c) \/ OfferTimesOut(c)
               \/ MarkWaiting(c) \/ Await(c) \/ LeaveWait(c)
               \/ CheckStatus(c) \/ EndCall(c)

-----------------------------------------------------------------------------
(* RequestTransmitter.run().  mustBlock is never set and is left out.      *)

XmtLoop ==
    /\ xmtAt = "loop"
    /\ xmtAt' = IF mustRun["transmitter"] THEN "take" ELSE "stopping"
    /\ UNCHANGED <<xmtId, transmitQueue, threadVars, pipeVars, wireVars, notXmt>>

\* Mutant: peek() instead of take().
XmtTake_Peeks ==
    /\ xmtAt = "take" /\ ~interrupted["transmitter"]
    /\ transmitQueue # <<>>
    /\ xmtId' = Head(transmitQueue)
    /\ xmtAt' = "lookup"
    /\ UNCHANGED <<transmitQueue, threadVars, pipeVars, wireVars, notXmt>>

\* take() refuses an interrupted thread even when the queue is not empty.
XmtTake ==
    /\ xmtAt = "take" /\ ~interrupted["transmitter"]
    /\ transmitQueue # <<>>
    /\ xmtId' = Head(transmitQueue)
    /\ transmitQueue' = Tail(transmitQueue)
    /\ xmtAt' = "lookup"
    /\ UNCHANGED <<threadVars, pipeVars, wireVars, notXmt>>

\* A request whose caller gave up is no longer in the map.
XmtLookup ==
    /\ xmtAt = "lookup"
    /\ xmtAt' = IF xmtId \in outstanding THEN "spin" ELSE "loop"
    /\ UNCHANGED <<xmtId, transmitQueue, threadVars, pipeVars, wireVars, notXmt>>

\* Mutant: the request is written without waiting for WAIT.
XmtSpin_Skipped ==
    /\ xmtAt = "spin"
    /\ xmtAt' = "write"
    /\ UNCHANGED <<xmtId, transmitQueue, threadVars, pipeVars, wireVars, notXmt>>

\* while (status != WAIT) sleep(2)
XmtSpin ==
    /\ xmtAt = "spin" /\ status[xmtId] = "WAIT"
    /\ xmtAt' = "write"
    /\ UNCHANGED <<xmtId, transmitQueue, threadVars, pipeVars, wireVars, notXmt>>

\* InterruptedException out of take() or sleep(): continue.
XmtInterrupted ==
    /\ interrupted["transmitter"]
    /\ \/ xmtAt = "take"
       \/ xmtAt = "spin" /\ status[xmtId] # "WAIT"
    /\ interrupted' = [interrupted EXCEPT !["transmitter"] = FALSE]
    /\ xmtAt' = "loop"
    /\ UNCHANGED <<xmtId, transmitQueue, field, mustRun, pipeVars, wireVars, notXmt>>

\* Pipe.write enters synchronized (writeBuffer).
XmtWriteBegin ==
    /\ xmtAt = "write" /\ writeLock = "free" /\ pipeOpen
    /\ writeLock' = "transmitter"
    /\ xmtAt' = "writing"
    /\ UNCHANGED <<xmtId, transmitQueue, threadVars, pipeOpen, wireVars, notXmt>>

\* The data is too long for a message, or the channel was closed before the
\* write began: an IOException of no particular kind, the request is dropped
\* and the thread carries on.
XmtWriteRefused ==
    /\ xmtAt = "write" /\ writeLock = "free"
    /\ xmtAt' = "loop"
    /\ UNCHANGED <<xmtId, transmitQueue, threadVars, pipeVars, wireVars, notXmt>>

XmtWriteDone ==
    /\ xmtAt = "writing" /\ pipeOpen /\ ~interrupted["transmitter"]
    /\ Len(toServer) < WireCap
    /\ toServer' = Append(toServer, xmtId)
    /\ writeLock' = "free"
    /\ xmtAt' = "loop"
    /\ UNCHANGED <<xmtId, transmitQueue, threadVars, pipeOpen, toClient, notXmt>>

\* Mutant: the failed write keeps the monitor of writeBuffer.
XmtWriteBroken_KeepsLock ==
    /\ xmtAt = "writing" /\ protocol = "TCP" /\ serverAt = "gone"
    /\ xmtAt' = "loop"
    /\ UNCHANGED <<xmtId, transmitQueue, threadVars, pipeVars, wireVars, notXmt>>

\* Broken connection: swallowed.
XmtWriteBroken ==
    /\ xmtAt = "writing" /\ protocol = "TCP" /\ serverAt = "gone"
    /\ writeLock' = "free"
    /\ xmtAt' = "loop"
    /\ UNCHANGED <<xmtId, transmitQueue, threadVars, pipeOpen, wireVars, notXmt>>

\* AsynchronousCloseException: close() closed the channel under the write, or
\* an interrupt closed it (ClosedByInterruptException).  The message may have
\* left before the interrupt.
XmtWriteClosed ==
    /\ xmtAt = "writing"
    /\ ~pipeOpen \/ interrupted["transmitter"]
    /\ pipeOpen' = FALSE
    /\ \/ toServer' = toServer
       \/ pipeOpen /\ Len(toServer) < WireCap /\ toServer' = Append(toServer, xmtId)
    /\ writeLock' = "free"
    /\ xmtAt' = "stopping"
    /\ UNCHANGED <<xmtId, transmitQueue, threadVars, toClient, notXmt>>

\* finally: setRequestTransmitter(null)
XmtStop ==
    /\ xmtAt = "stopping"
    /\ field' = [field EXCEPT !["transmitter"] = FALSE]
    /\ xmtAt' = "dead"
    /\ UNCHANGED <<xmtId, transmitQueue, mustRun, interrupted, pipeVars, wireVars, notXmt>>

TransmitterStep ==
    \/ XmtLoop \/ XmtTake \/ XmtLookup \/ XmtSpin \/ XmtInterrupted
    \/ XmtWriteBegin \/ XmtWriteRefused \/ XmtWriteDone \/ XmtWriteBroken
    \/ XmtWriteClosed \/ XmtStop

-----------------------------------------------------------------------------
(* ResponseReader.run()                                                    *)

RdrLoop ==
    /\ rdrAt = "loop"
    /\ rdrAt' = IF mustRun["reader"] THEN "read" ELSE "stopping"
    /\ UNCHANGED <<response, msgVars, threadVars, pipeVars, wireVars, notRdr>>

\* Mutant: responses are matched to requests in the order these were made.
RdrRead_InOrder ==
    /\ rdrAt = "read" /\ pipeOpen /\ ~interrupted["reader"]
    /\ toClient # <<>> /\ outstanding # {}
    /\ response' = [Head(toClient) EXCEPT !.id = CHOOSE i \in outstanding :
                                                  \A j \in outstanding : i <= j]
    /\ toClient' = Tail(toClient)
    /\ rdrAt' = "lookup"
    /\ UNCHANGED <<msgVars, threadVars, pipeVars, toServer, notRdr>>

RdrRead ==
    /\ rdrAt = "read" /\ pipeOpen /\ ~interrupted["reader"]
    /\ toClient # <<>>
    /\ response' = Head(toClient)
    /\ toClient' = Tail(toClient)
    /\ rdrAt' = IF response'.kind = "eos" THEN "eos" ELSE "lookup"
    /\ UNCHANGED <<msgVars, threadVars, pipeVars, toServer, notRdr>>

\* An IOException ends the thread: the channel is closed, an interrupt closes
\* it, or a TCP peer has gone (what it sent last may be lost with it).
RdrReadFails ==
    /\ rdrAt = "read"
    /\ \/ ~pipeOpen
       \/ interrupted["reader"]
       \/ protocol = "TCP" /\ serverAt = "gone"
    /\ pipeOpen' = (pipeOpen /\ ~interrupted["reader"])
    /\ rdrAt' = "stopping"
    /\ UNCHANGED <<response, msgVars, threadVars, writeLock, wireVars, notRdr>>

\* END-OF-STREAM: setResponseReader(null), then close() runs in this thread.
RdrEndOfStream ==
    /\ rdrAt = "eos"
    /\ field' = [field EXCEPT !["reader"] = FALSE]
    /\ rdrAt' = "closing"
    /\ UNCHANGED <<response, msgVars, mustRun, interrupted, pipeVars, wireVars, notRdr>>

\* Whatever close() threw is ignored.
RdrClosed ==
    /\ rdrAt = "closing" /\ closeAt["reader"] \in {"done", "npe", "ioexception"}
    /\ rdrAt' = "stopping"
    /\ UNCHANGED <<response, msgVars, threadVars, pipeVars, wireVars, notRdr>>

RdrLookup ==
    /\ rdrAt = "lookup"
    /\ rdrAt' = IF response.id \in outstanding THEN "deliver" ELSE "loop"
    /\ UNCHANGED <<response, msgVars, threadVars, pipeVars, wireVars, notRdr>>

\* synchronized (originalRequest): the data first ...
RdrSetData ==
    /\ rdrAt = "deliver"
    /\ data' = [data EXCEPT ![response.id] = [kind |-> response.kind, of |-> response.of]]
    /\ rdrAt' = "notify"
    /\ UNCHANGED <<response, nextMsgId, status, notified, threadVars, pipeVars,
                   wireVars, notRdr>>

\* Mutant: nobody is notified.
RdrNotify_Silent ==
    /\ rdrAt = "notify"
    /\ status' = [status EXCEPT ![response.id] = "DONE"]
    /\ rdrAt' = "loop"
    /\ UNCHANGED <<response, nextMsgId, data, notified, threadVars, pipeVars,
                   wireVars, notRdr>>

\* ... then the status and notify(); the monitor is released.
RdrNotify ==
    /\ rdrAt = "notify"
    /\ status' = [status EXCEPT ![response.id] = "DONE"]
    /\ notified' = notified \cup
                     {c \in Callers : callAt[c] = "waiting" /\ callId[c] = response.id}
    /\ rdrAt' = "loop"
    /\ UNCHANGED <<response, nextMsgId, data, threadVars, pipeVars, wireVars, notRdr>>

RdrStop ==
    /\ rdrAt = "stopping"
    /\ field' = [field EXCEPT !["reader"] = FALSE]
    /\ rdrAt' = "dead"
    /\ UNCHANGED <<response, msgVars, mustRun, interrupted, pipeVars, wireVars, notRdr>>

ReaderStep == \/ RdrLoop \/ RdrRead \/ RdrReadFails \/ RdrEndOfStream \/ RdrClosed
              \/ RdrLookup \/ RdrSetData \/ RdrNotify \/ RdrStop

-----------------------------------------------------------------------------
(* close().  Each `field != null` test and the use that follows it are two *)
(* reads, and the threads null their field when they stop.                 *)

CloseGoes(p, at) == closeAt' = [closeAt EXCEPT ![p] = at]

\* isClosed = true is for BeginCall.
CloseBegin(p) ==
    /\ closeAt[p] = "idle"
    /\ p = "reader" => rdrAt = "closing"
    /\ CloseGoes(p, "guard")
    /\ UNCHANGED <<threadVars, pipeVars, wireVars, notClose>>

CloseGuard(p) ==
    /\ closeAt[p] = "guard"
    /\ CloseGoes(p, IF field["reader"] THEN "eos" ELSE "testXmt")
    /\ UNCHANGED <<threadVars, pipeVars, wireVars, notClose>>

\* pipe.write(END-OF-STREAM) waits for the transmitter to leave Pipe.write.
CloseEosBegin(p) ==
    /\ closeAt[p] = "eos" /\ writeLock = "free"
    /\ IF pipeOpen THEN writeLock' = p /\ CloseGoes(p, "writing")
                   ELSE UNCHANGED writeLock /\ CloseGoes(p, "ioexception")
    /\ UNCHANGED <<threadVars, pipeOpen, wireVars, notClose>>

CloseEosDone(p) ==
    /\ closeAt[p] = "writing" /\ pipeOpen /\ Len(toServer) < WireCap
    /\ toServer' = Append(toServer, EosId)
    /\ writeLock' = "free"
    /\ CloseGoes(p, "closePipe")
    /\ UNCHANGED <<threadVars, pipeOpen, toClient, notClose>>

CloseEosFails(p) ==
    /\ closeAt[p] = "writing"
    /\ ~pipeOpen \/ (protocol = "TCP" /\ serverAt = "gone")
    /\ writeLock' = "free"
    /\ CloseGoes(p, "ioexception")
    /\ UNCHANGED <<threadVars, pipeOpen, wireVars, notClose>>

ClosePipe(p) ==
    /\ closeAt[p] = "closePipe"
    /\ pipeOpen' = FALSE
    /\ CloseGoes(p, "testXmt")
    /\ UNCHANGED <<threadVars, writeLock, wireVars, notClose>>

\* `if (field != null)` for thread t: from `test` to `use`, or past it.
CloseTest(p, t, test, use, next) ==
    /\ closeAt[p] = test
    /\ CloseGoes(p, IF field[t] THEN use ELSE next)
    /\ UNCHANGED <<threadVars, pipeVars, wireVars, notClose>>

\* terminate(): mustRun = false ..., unless the field was nulled meanwhile
CloseTerminate(p, t, use, interrupt) ==
    /\ closeAt[p] = use
    /\ IF field[t]
         THEN mustRun' = [mustRun EXCEPT ![t] = FALSE] /\ CloseGoes(p, interrupt)
         ELSE UNCHANGED mustRun /\ CloseGoes(p, "npe")
    /\ UNCHANGED <<field, interrupted, pipeVars, wireVars, notClose>>

\* Mutant: terminate() only clears mustRun.
CloseInterrupt_None(p, t, interrupt, next) ==
    /\ closeAt[p] = interrupt
    /\ CloseGoes(p, next)
    /\ UNCHANGED <<threadVars, pipeVars, wireVars, notClose>>

\* ... and then interrupt(), which does nothing to a dead thread.
CloseInterrupt(p, t, interrupt, next) ==
    /\ closeAt[p] = interrupt
    /\ interrupted' = [interrupted EXCEPT ![t] =
                         @ \/ (IF t = "transmitter" THEN xmtAt ELSE rdrAt) # "dead"]
    /\ CloseGoes(p, next)
    /\ UNCHANGED <<field, mustRun, pipeVars, wireVars, notClose>>

CloseStep(p) ==
    \/ CloseGuard(p) \/ CloseEosBegin(p) \/ CloseEosDone(p) \/ CloseEosFails(p)
    \/ ClosePipe(p)
    \/ CloseTest(p, "transmitter", "testXmt", "useXmt", "testRdr")
    \/ CloseTerminate(p, "transmitter", "useXmt", "interruptXmt")
    \/ CloseInterrupt(p, "transmitter", "interruptXmt", "testRdr")
    \/ CloseTest(p, "reader", "testRdr", "useRdr", "done")
    \/ CloseTerminate(p, "reader", "useRdr", "interruptRdr")
    \/ CloseInterrupt(p, "reader", "interruptRdr", "done")

-----------------------------------------------------------------------------
(* The peer: one RequestReader and the worker pool behind it.              *)

\* END-OF-STREAM makes the RequestReader stop: over TCP it closes the socket,
\* over FIFOs it answers END-OF-STREAM and frees the FIFOs later.
ServerStops ==
    IF protocol = "TCP"
      THEN serverAt' = "gone" /\ UNCHANGED toClient
      ELSE serverAt' = "stopped" /\ toClient' = Append(toClient, Eos)

ServerReceive ==
    /\ serverAt = "serving" /\ toServer # <<>>
    /\ toServer' = Tail(toServer)
    /\ IF Head(toServer) = EosId
         THEN ServerStops /\ UNCHANGED executing
         ELSE /\ executing' = executing \cup {Head(toServer)}
              /\ UNCHANGED <<serverAt, toClient>>
    /\ UNCHANGED notPeer

\* Workers answer in any order, also after the RequestReader has stopped, or
\* never.  An exception (of a rejected submission) is an answer, too, which
\* sendRequest() throws instead of returning it.
ServerAnswer(i) ==
    /\ serverAt # "gone" /\ i \in executing
    /\ executing' = executing \ {i}
    /\ toClient' = Append(toClient, [id |-> i, kind |-> "reply", of |-> i])
    /\ UNCHANGED <<serverAt, toServer, notPeer>>

\* SHUTDOWN, a failing read, or the final close of a FIFO.
ServerShutdown ==
    /\ \/ serverAt = "serving" /\ ServerStops
       \/ serverAt # "gone" /\ serverAt' = "gone" /\ UNCHANGED toClient
    /\ UNCHANGED <<executing, toServer, notPeer>>

-----------------------------------------------------------------------------
Next ==
    \/ \E c \in Callers : BeginCall(c) \/ CallStep(c)
    \/ TransmitterStep
    \/ ReaderStep
    \/ \E p \in Runners : CloseBegin(p) \/ CloseStep(p)
    \/ ServerReceive
    \/ \E i \in executing : ServerAnswer(i)
    \/ ServerShutdown

Spec == Init /\ [][Next]_vars

\* Threads are scheduled and timed waits expire; the server reads its pipe.
\* Nothing obliges an application to call or to close, nor a server to answer.
Fairness ==
    /\ \A c \in Callers : WF_vars(CallStep(c))
    /\ WF_vars(TransmitterStep)
    /\ WF_vars(ReaderStep)
    /\ \A p \in Runners : WF_vars(CloseStep(p))
    /\ WF_vars(CloseBegin("reader"))
    /\ WF_vars(ServerReceive)

FairSpec == Spec /\ Fairness
-----------------------------------------------------------------------------
(* Properties                                                              *)

\* Every variable stays in its domain (the state of the classes of
\* net.kwami.pipe.client): the calls and their Messages ...
CallTypeOK ==
    /\ nextMsgId \in 0..MaxMsgId
    /\ outstanding \subseteq MsgIds
    /\ status \in [MsgIds -> {"NEW", "WAIT", "DONE"}]
    /\ data \in [MsgIds -> Payload]
    /\ notified \subseteq Callers
    /\ callAt \in [Callers -> {"idle", "admit", "register", "offer", "mark", "await",
                               "waiting", "check", "answered", "expired"}]
    /\ callId \in [Callers -> MsgIds \cup {EosId}]
\* ... the two threads ...
ThreadTypeOK ==
    /\ xmtAt \in {"loop", "take", "lookup", "spin", "write", "writing", "stopping", "dead"}
    /\ xmtId \in MsgIds \cup {EosId}
    /\ rdrAt \in {"loop", "read", "eos", "closing", "lookup", "deliver", "notify",
                  "stopping", "dead"}
    /\ response \in Responses
    /\ field \in [Threads -> BOOLEAN]
    /\ mustRun \in [Threads -> BOOLEAN]
    /\ interrupted \in [Threads -> BOOLEAN]
\* ... close() and the pipe ...
CloseTypeOK ==
    /\ pipeOpen \in BOOLEAN
    /\ closeAt \in [Runners -> {"idle", "guard", "eos", "writing", "closePipe", "testXmt",
                                "useXmt", "interruptXmt", "testRdr", "useRdr",
                                "interruptRdr", "done", "npe", "ioexception"}]
    /\ writeLock \in Runners \cup {"free", "transmitter"}
\* ... and what is queued, in the pipe and at the server.
WireTypeOK ==
    /\ transmitQueue \in Seq(MsgIds) /\ Len(transmitQueue) <= QueueCap
    /\ toServer \in Seq(MsgIds \cup {EosId}) /\ Len(toServer) <= WireCap
    /\ toClient \in Seq(Responses)
    /\ executing \subseteq MsgIds
    /\ serverAt \in {"serving", "stopped", "gone"} /\ protocol \in Protocols
TypeOK == CallTypeOK /\ ThreadTypeOK /\ CloseTypeOK /\ WireTypeOK

\* A caller that is about to return found in its Message the server's answer
\* to its own request: not its request text, not another caller's answer
\* (PipeClient.java:86-94 reads the Message without its monitor).
AnswersBelong ==
    \A c \in Callers : callAt[c] = "answered" =>
        data[callId[c]] = [kind |-> "reply", of |-> callId[c]]

\* No answer is lost to the unsynchronized setStatus(WAIT) of line 81: once a
\* Message is DONE it stays DONE.
DoneIsFinal == [][\A i \in MsgIds : status[i] = "DONE" => status'[i] = "DONE"]_vars

\* No notification is missed: a caller asleep on a Message that is DONE has
\* been notified (a caller with timeoutMs = 0 would sleep for ever).
NoMissedNotify ==
    \A c \in Callers : callAt[c] = "waiting" /\ status[callId[c]] = "DONE"
                         => c \in notified

\* outstandingRequests holds only requests of calls still in progress, whatever
\* way calls end: otherwise size() would lock callers out for good.
NoOrphanRequest ==
    \A i \in outstanding : \E c \in Callers :
        callId[c] = i /\ callAt[c] \in {"offer", "mark", "await", "waiting", "check",
                                        "answered", "expired"}

\* A request is executed at most once: no id is queued, in the transmitter's
\* hands, in the pipe or with a worker twice.
Occurrences(s, i) == Cardinality({k \in DOMAIN s : s[k] = i})
One(b) == IF b THEN 1 ELSE 0
SentAtMostOnce ==
    \A i \in MsgIds :
        Occurrences(transmitQueue, i) + Occurrences(toServer, i)
          + One(xmtId = i /\ xmtAt \in {"lookup", "spin", "write", "writing"})
          + One(i \in executing)
          + Occurrences([k \in DOMAIN toClient |-> toClient[k].id], i)  <= 1

\* Every call with a timeout returns or throws, whatever becomes of the threads,
\* the pipe and the server.
TimedCallsReturn ==
    \A c \in Callers \ Untimed : callAt[c] # "idle" ~> callAt[c] = "idle"

\* A call whose answer has arrived returns, also without a timeout.
DoneCallsReturn ==
    \A c \in Callers : callAt[c] = "waiting" /\ status[callId[c]] = "DONE"
                         ~> callAt[c] = "idle"

\* When close() returns normally each thread has stopped, is stopping, or was told to and
\* cannot block again: no interleaving of the null tests, terminate() and the threads' own
\* ends lets one slip through (PipeClient.java 59-62).
XmtEnds == \/ xmtAt \in {"stopping", "dead"}
           \/ ~mustRun["transmitter"] /\ (xmtAt = "loop" \/ interrupted["transmitter"])
RdrEnds == \/ rdrAt \in {"closing", "stopping", "dead"}
           \/ ~mustRun["reader"] /\ (rdrAt = "loop" \/ interrupted["reader"])
CloseReachesThreads == \A p \in Closers : closeAt[p] = "done" => XmtEnds /\ RdrEnds

\* A close() that returns normally leads both threads to stop.
CloseStopsThreads ==
    \A p \in Closers : closeAt[p] = "done" ~> xmtAt = "dead" /\ rdrAt = "dead"

\* close() comes back, normally or not (it queues behind the transmitter for
\* the monitor of writeBuffer), over TCP: an interrupt or the end of the socket
\* gets the transmitter out of its write.
CloseEnds ==
    \A p \in Closers :
        protocol = "TCP" /\ closeAt[p] = "guard"
            ~> closeAt[p] \in {"done", "npe", "ioexception"}
=============================================================================
