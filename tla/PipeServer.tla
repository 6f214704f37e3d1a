----------------------------- MODULE PipeServer -----------------------------
(***************************************************************************)
(* net.kwami.pipe.server: the accept loop of PipeServer.call() starts one  *)
(* RequestReader per connection; RequestReaders submit what they read to a *)
(* MyThreadPoolExecutor, whose threads run the callable and write its      *)
(* answer to the pipe the request came from (afterExecute); SHUTDOWN       *)
(* terminates the RequestReaders.  Clients are the environment.  Which     *)
(* FIFOs a connection gets, and what is left in them, is in FifoPool: here *)
(* a connection either has a pair of its own or has none.                  *)
(***************************************************************************)
EXTENDS Naturals, Sequences, FiniteSets

CONSTANTS MaxSessions,  \* bound: the CONNECTs of one run
          FifoPairs,    \* pairs of FIFOs the server has
          CorePool, MaxPool, QueueCap,   \* ServerConfig
          WireCap,      \* bound: messages a direction of a pipe buffers
          MaxRequests   \* bound: requests a client sends

Sessions == 1..MaxSessions         \* numbered as they connect
Eos      == 0                      \* the id of the END-OF-STREAM message
Requests == Sessions \X (1..MaxRequests)
NoTask   == <<>>
Workers  == 1..MaxPool
NoWriter == 0                      \* free monitor of a writeBuffer
Reader   == MaxPool + 1            \* held by the session's RequestReader

\* CorePool > 0: with 0 the executor would start a thread for a queued task.
ASSUME ServerAssumption ==
    /\ MaxSessions \in Nat /\ FifoPairs \in Nat
    /\ MaxPool \in Nat /\ CorePool \in 1..MaxPool /\ QueueCap \in Nat \ {0}
    /\ WireCap \in Nat \ {0} /\ MaxRequests \in Nat

VARIABLES
    acceptAt, managed,          \* call(), managedThreads
    transport, fifosHeld,       \* per session: "none", "tcp", "fifo"; has marked FIFOs
    readerAt, hand,             \* RequestReader.run() and the request it has read
    mustRun, interrupted,       \* ManagedThread, per session
    poolSize, queue,            \* ThreadPoolExecutor: threads started, work queue
    workerAt, task,             \* per pool thread
    logged, answers,            \* failures that were only logged; answers written
    open, writeLock,            \* channels the server has open; monitor of writeBuffer
    toServer, toClient,         \* the contents of each pipe
    clientAt, sent              \* per session: its client

acceptVars == <<acceptAt, managed>>
pipeVars   == <<open, writeLock, toClient>>
readerVars == <<readerAt, hand>>
poolVars   == <<poolSize, queue, workerAt, task>>
record     == <<logged, answers>>
threadVars == <<mustRun, interrupted>>
clientVars == <<clientAt, sent>>
vars == <<acceptVars, transport, fifosHeld, readerVars, threadVars, poolVars, record,
          pipeVars, toServer, clientVars>>

notAccept == <<hand, poolVars, record, pipeVars, toServer, sent>>
notReader == <<acceptVars, transport, threadVars, clientVars>>
notWorker == <<acceptVars, transport, fifosHeld, readerVars, threadVars, toServer, clientVars>>
notClient == <<acceptVars, transport, fifosHeld, readerVars, threadVars, poolVars, record,
               open, writeLock>>

Init ==
    /\ acceptAt = "accepting" /\ managed = <<>>
    /\ transport = [s \in Sessions |-> "none"] /\ fifosHeld = {}
    /\ readerAt = [s \in Sessions |-> "none"] /\ hand = [s \in Sessions |-> Eos]
    /\ mustRun = [s \in Sessions |-> TRUE]
    /\ interrupted = [s \in Sessions |-> FALSE]
    /\ poolSize = 0 /\ queue = <<>>
    /\ workerAt = [w \in Workers |-> "idle"] /\ task = [w \in Workers |-> NoTask]
    /\ logged = {} /\ answers = [r \in Requests |-> 0]
    /\ open = [s \in Sessions |-> {}]
    /\ writeLock = [s \in Sessions |-> NoWriter]
    /\ toServer = [s \in Sessions |-> <<>>] /\ toClient = [s \in Sessions |-> <<>>]
    /\ clientAt = [s \in Sessions |-> "none"] /\ sent = [s \in Sessions |-> 0]

-----------------------------------------------------------------------------
(* The accept loop.                                                        *)

\* A turn of the loop is accept() and Command.read(), here one step with what the
\* command causes: a peer that connects and says nothing holds up the loop, which
\* is a loop that takes no step.  RESTART, QUERY and RESPONSE change nothing.

\* The peer is gone without a command, or what it sent is no Command: the
\* exception leaves the loop.
CommandFails ==
    /\ acceptAt = "accepting" /\ acceptAt' = "broken"
    /\ UNCHANGED <<managed, transport, fifosHeld, readerAt, threadVars, clientAt, notAccept>>

\* The next CONNECT.  Local clients get FIFOs as long as there are some, unless
\* they ask for TCP.
Connects(s, kind) ==
    /\ acceptAt = "accepting" /\ transport[s] = "none"
    /\ \A t \in 1..(s - 1) : transport[t] # "none"
    /\ kind = "fifo" => Cardinality(fifosHeld) < FifoPairs

\* The RequestReader starts, and the client is told how to talk to it.
Connect(s, kind) ==
    /\ Connects(s, kind)
    /\ transport' = [transport EXCEPT ![s] = kind]
    /\ fifosHeld' = IF kind = "fifo" THEN fifosHeld \cup {s} ELSE fifosHeld
    /\ readerAt' = [readerAt EXCEPT ![s] = "loop"]
    /\ managed' = Append(managed, s)
    /\ open' = [open EXCEPT ![s] = {"read", "write"}]
    /\ clientAt' = [clientAt EXCEPT ![s] = "open"]
    /\ UNCHANGED <<acceptAt, hand, threadVars, poolVars, record, writeLock,
                   toClient, toServer, sent>>

\* The client is gone before the response can be written.  Over TCP no
\* RequestReader exists yet, over FIFOs it does.
ConnectFails(s, kind) ==
    /\ Connects(s, kind)
    /\ acceptAt' = "broken"
    /\ clientAt' = [clientAt EXCEPT ![s] = "gone"]
    /\ transport' = [transport EXCEPT ![s] = kind]
    /\ IF kind = "fifo"
         THEN /\ readerAt' = [readerAt EXCEPT ![s] = "loop"]
              /\ managed' = Append(managed, s)
              /\ fifosHeld' = fifosHeld \cup {s}
              /\ open' = [open EXCEPT ![s] = {"read", "write"}]
         ELSE UNCHANGED <<readerAt, managed, fifosHeld, open>>
    /\ UNCHANGED <<hand, threadVars, poolVars, record, writeLock, toClient, toServer, sent>>

\* SHUTDOWN walks through managedThreads and clears it: here one by one.
Shutdown ==
    /\ acceptAt = "accepting"
    /\ acceptAt' = IF managed = <<>> THEN "left" ELSE "mark"
    /\ UNCHANGED <<managed, transport, fifosHeld, readerAt, threadVars, clientAt, notAccept>>

\* terminate(): mustRun = false ...
TerminateMark ==
    /\ acceptAt = "mark" /\ acceptAt' = "interrupt"
    /\ mustRun' = [mustRun EXCEPT ![Head(managed)] = FALSE]
    /\ UNCHANGED <<managed, transport, fifosHeld, readerAt, interrupted, clientAt, notAccept>>

\* Mutant: without the interrupt.
TerminateInterrupt_None ==
    /\ acceptAt = "interrupt"
    /\ managed' = Tail(managed)
    /\ acceptAt' = IF managed' = <<>> THEN "left" ELSE "mark"
    /\ UNCHANGED <<transport, fifosHeld, readerAt, threadVars, clientAt, notAccept>>

\* ... and this.interrupt(), which does nothing to a thread that has ended.
TerminateInterrupt ==
    /\ acceptAt = "interrupt"
    /\ interrupted' = [interrupted EXCEPT ![Head(managed)] = readerAt[Head(managed)] # "ended"]
    /\ managed' = Tail(managed)
    /\ acceptAt' = IF managed' = <<>> THEN "left" ELSE "mark"
    /\ UNCHANGED <<transport, fifosHeld, readerAt, mustRun, clientAt, notAccept>>

Terminates == Shutdown \/ TerminateMark \/ TerminateInterrupt

\* Mutant: the pool's threads do not keep the process alive.
ProcessExits_Daemon ==
    /\ acceptAt \in {"left", "broken"} /\ acceptAt' = "exited"
    /\ readerAt' = [s \in Sessions |-> IF readerAt[s] = "none" THEN "none" ELSE "ended"]
    /\ open' = [s \in Sessions |-> {}]
    /\ UNCHANGED <<managed, transport, fifosHeld, threadVars, clientAt, hand, poolVars,
                   record, writeLock, toClient, toServer, sent>>

\* main() has returned.  RequestReaders are daemons, pool threads are not: the
\* process ends unless the executor has started one.
ProcessExits ==
    /\ acceptAt \in {"left", "broken"} /\ poolSize = 0 /\ acceptAt' = "exited"
    /\ readerAt' = [s \in Sessions |-> IF readerAt[s] = "none" THEN "none" ELSE "ended"]
    /\ open' = [s \in Sessions |-> {}]
    /\ UNCHANGED <<managed, transport, fifosHeld, threadVars, clientAt, hand, poolVars,
                   record, writeLock, toClient, toServer, sent>>

-----------------------------------------------------------------------------
(* Pipe.write on the server's side, under the monitor of writeBuffer.      *)

Release(s) == writeLock' = [writeLock EXCEPT ![s] = NoWriter]

CanWrite(s) == "write" \in open[s] /\ Len(toClient[s]) < WireCap
Put(s, k, r) == toClient' = [toClient EXCEPT ![s] = Append(@, [kind |-> k, of |-> r])]

\* Only a socket tells its writer that the other side is gone: a FIFO is open for
\* reading in the server itself.
Broken(s) == "write" \notin open[s] \/ (transport[s] = "tcp" /\ clientAt[s] = "gone")

\* An interrupt closes the channel whose operation it meets.
Interrupt(s, dir) ==
    open' = [open EXCEPT ![s] =
               IF ~interrupted[s] THEN @ ELSE IF transport[s] = "tcp" THEN {} ELSE @ \ {dir}]

-----------------------------------------------------------------------------
(* RequestReader.run()                                                     *)

ReaderGoes(s, from, to) == readerAt[s] = from /\ readerAt' = [readerAt EXCEPT ![s] = to]

ReaderLoop(s) ==
    /\ ReaderGoes(s, "loop", IF mustRun[s] THEN "read" ELSE "finally")
    /\ UNCHANGED <<notReader, hand, fifosHeld, poolVars, record, pipeVars, toServer>>

ReaderReads(s) ==
    /\ toServer[s] # <<>> /\ ~interrupted[s]
    /\ ReaderGoes(s, "read", IF Head(toServer[s]) = Eos THEN "finally" ELSE "submit")
    /\ hand' = [hand EXCEPT ![s] = Head(toServer[s])]
    /\ toServer' = [toServer EXCEPT ![s] = Tail(@)]
    /\ UNCHANGED <<notReader, fifosHeld, poolVars, record, pipeVars>>

\* Mutant: an IOException does not end the loop.
ReaderReadFails_Continues(s) ==
    /\ interrupted[s] \/ (transport[s] = "tcp" /\ clientAt[s] = "gone")
    /\ ReaderGoes(s, "read", "loop")
    /\ Interrupt(s, "read")
    /\ UNCHANGED <<notReader, hand, fifosHeld, poolVars, record, writeLock, toClient, toServer>>

\* An interrupt, or the end of the socket (a reset may hide what was sent before).
ReaderReadFails(s) ==
    /\ interrupted[s] \/ (transport[s] = "tcp" /\ clientAt[s] = "gone")
    /\ ReaderGoes(s, "read", "finally")
    /\ Interrupt(s, "read")
    /\ UNCHANGED <<notReader, hand, fifosHeld, poolVars, record, writeLock, toClient, toServer>>

\* ThreadPoolExecutor.execute(): a new core thread, the queue, a new thread.
StartWorker(r) ==
    /\ poolSize' = poolSize + 1
    /\ workerAt' = [workerAt EXCEPT ![poolSize'] = "running"]
    /\ task' = [task EXCEPT ![poolSize'] = r]
    /\ UNCHANGED queue

Enqueue(r) == queue' = Append(queue, r) /\ UNCHANGED <<poolSize, workerAt, task>>

Submit(r) ==
    \/ poolSize < CorePool /\ StartWorker(r)
    \/ poolSize >= CorePool /\ Len(queue) < QueueCap /\ Enqueue(r)
    \/ poolSize >= CorePool /\ Len(queue) >= QueueCap /\ poolSize < MaxPool /\ StartWorker(r)

ReaderSubmits(s) ==
    /\ ReaderGoes(s, "submit", "loop")
    /\ Submit(<<s, hand[s]>>)
    /\ hand' = [hand EXCEPT ![s] = Eos]
    /\ UNCHANGED <<notReader, fifosHeld, record, pipeVars, toServer>>

\* RejectedExecutionException.
ReaderRejected(s) ==
    /\ poolSize = MaxPool /\ Len(queue) = QueueCap
    /\ ReaderGoes(s, "submit", "exception")
    /\ UNCHANGED <<notReader, hand, fifosHeld, poolVars, record, pipeVars, toServer>>

\* newInstance() or setParameter() throws.
ReaderCannotSubmit(s) ==
    /\ ReaderGoes(s, "submit", "exception")
    /\ UNCHANGED <<notReader, hand, fifosHeld, poolVars, record, pipeVars, toServer>>

\* The RequestReader gets the monitor, to answer with an exception or to say farewell.
ReaderLocks(s) ==
    /\ writeLock[s] = NoWriter
    /\ \/ ReaderGoes(s, "exception", "answering")
       \/ transport[s] = "fifo" /\ ReaderGoes(s, "finally", "farewell")
    /\ writeLock' = [writeLock EXCEPT ![s] = Reader]
    /\ UNCHANGED <<notReader, hand, fifosHeld, poolVars, record, open, toClient, toServer>>

\* Mutant: the request is submitted again after its exception was sent.
ReaderAnswers_Retries(s) ==
    /\ ~interrupted[s] /\ CanWrite(s)
    /\ ReaderGoes(s, "answering", "submit")
    /\ Put(s, "exception", <<s, hand[s]>>) /\ Release(s)
    /\ answers' = [answers EXCEPT ![<<s, hand[s]>>] = @ + 1]
    /\ UNCHANGED <<notReader, hand, fifosHeld, poolVars, logged, open, toServer>>

ReaderAnswers(s) ==
    /\ ~interrupted[s] /\ CanWrite(s)
    /\ ReaderGoes(s, "answering", "loop")
    /\ Put(s, "exception", <<s, hand[s]>>) /\ Release(s)
    /\ answers' = [answers EXCEPT ![<<s, hand[s]>>] = @ + 1]
    /\ hand' = [hand EXCEPT ![s] = Eos]
    /\ UNCHANGED <<notReader, fifosHeld, poolVars, logged, open, toServer>>

ReaderCannotAnswer(s) ==
    /\ interrupted[s] \/ Broken(s)
    /\ ReaderGoes(s, "answering", "finally")
    /\ Interrupt(s, "write") /\ Release(s)
    /\ UNCHANGED <<notReader, hand, fifosHeld, poolVars, record, toClient, toServer>>

ReaderFarewell(s) ==
    /\ ~interrupted[s] /\ CanWrite(s)
    /\ ReaderGoes(s, "farewell", "sleep")
    /\ Put(s, "eos", <<s, Eos>>) /\ Release(s)
    /\ UNCHANGED <<notReader, hand, fifosHeld, poolVars, record, open, toServer>>

\* finally swallows the exception and skips what follows: the FIFOs stay marked.
ReaderFarewellFails(s) ==
    /\ interrupted[s] \/ Broken(s)
    /\ ReaderGoes(s, "farewell", "ended")
    /\ Interrupt(s, "write") /\ Release(s)
    /\ UNCHANGED <<notReader, hand, fifosHeld, poolVars, record, toClient, toServer>>

\* Mutant: an interrupted sleep is taken for a finished one, and nothing is freed.
ReaderSleeps_Skips(s) ==
    /\ ReaderGoes(s, "sleep", "close")
    /\ UNCHANGED <<notReader, hand, fifosHeld, poolVars, record, pipeVars, toServer>>

ReaderSleeps(s) ==
    /\ ReaderGoes(s, "sleep", IF interrupted[s] THEN "ended" ELSE "free")
    /\ UNCHANGED <<notReader, hand, fifosHeld, poolVars, record, pipeVars, toServer>>

\* freeFifo for both indexes (see FifoPool).
ReaderFrees(s) ==
    /\ ReaderGoes(s, "free", "close")
    /\ fifosHeld' = fifosHeld \ {s}
    /\ UNCHANGED <<notReader, hand, poolVars, record, pipeVars, toServer>>

ReaderCloses(s) ==
    /\ \/ ReaderGoes(s, "close", "ended")
       \/ transport[s] = "tcp" /\ ReaderGoes(s, "finally", "ended")
    /\ open' = [open EXCEPT ![s] = {}]
    /\ UNCHANGED <<notReader, hand, fifosHeld, poolVars, record, writeLock, toClient, toServer>>

ReaderStep(s) ==
    \/ ReaderLoop(s) \/ ReaderReads(s) \/ ReaderReadFails(s)
    \/ ReaderSubmits(s) \/ ReaderRejected(s) \/ ReaderCannotSubmit(s)
    \/ ReaderLocks(s) \/ ReaderAnswers(s) \/ ReaderCannotAnswer(s)
    \/ ReaderFarewell(s) \/ ReaderFarewellFails(s) \/ ReaderSleeps(s)
    \/ ReaderFrees(s) \/ ReaderCloses(s)

-----------------------------------------------------------------------------
(* The threads of the executor.  keepAliveTime is in days: they do not end.*)

WorkerGoes(w, from, to) == /\ w <= poolSize /\ workerAt[w] = from
                           /\ workerAt' = [workerAt EXCEPT ![w] = to]

\* Mutant: the answer goes to the newest connection.
Pipe_Newest(w) == IF managed = <<>> THEN task[w][1] ELSE managed[Len(managed)]

Pipe(w) == task[w][1]    \* CallableMessage.pipe

WorkerTakes(w) ==
    /\ queue # <<>>
    /\ WorkerGoes(w, "idle", "running")
    /\ task' = [task EXCEPT ![w] = Head(queue)]
    /\ queue' = Tail(queue)
    /\ UNCHANGED <<notWorker, poolSize, record, pipeVars>>

\* call() returns an answer ...
WorkerReturns(w) ==
    /\ WorkerGoes(w, "running", "lock")
    /\ UNCHANGED <<notWorker, poolSize, queue, task, record, pipeVars>>

\* ... or throws, or returns one that is null or too long to be written.
WorkerThrows(w) ==
    /\ WorkerGoes(w, "running", "idle")
    /\ task' = [task EXCEPT ![w] = NoTask]
    /\ logged' = logged \cup {task[w]}
    /\ UNCHANGED <<notWorker, poolSize, queue, answers, pipeVars>>

WorkerLocks(w) ==
    /\ WorkerGoes(w, "lock", "writing")
    /\ writeLock[Pipe(w)] = NoWriter
    /\ writeLock' = [writeLock EXCEPT ![Pipe(w)] = w]
    /\ UNCHANGED <<notWorker, poolSize, queue, task, record, open, toClient>>

WorkerAnswers(w) ==
    /\ WorkerGoes(w, "writing", "idle")
    /\ CanWrite(Pipe(w))
    /\ Put(Pipe(w), "reply", task[w]) /\ Release(Pipe(w))
    /\ answers' = [answers EXCEPT ![task[w]] = @ + 1]
    /\ task' = [task EXCEPT ![w] = NoTask]
    /\ UNCHANGED <<notWorker, poolSize, queue, logged, open>>

\* Mutant: an answer that cannot be written ends the pool thread.
WorkerCannotAnswer_Ends(w) ==
    /\ WorkerGoes(w, "writing", "ended")
    /\ Broken(Pipe(w))
    /\ Release(Pipe(w))
    /\ logged' = logged \cup {task[w]}
    /\ task' = [task EXCEPT ![w] = NoTask]
    /\ UNCHANGED <<notWorker, poolSize, queue, answers, open, toClient>>

WorkerCannotAnswer(w) ==
    /\ WorkerGoes(w, "writing", "idle")
    /\ Broken(Pipe(w))
    /\ Release(Pipe(w))
    /\ logged' = logged \cup {task[w]}
    /\ task' = [task EXCEPT ![w] = NoTask]
    /\ UNCHANGED <<notWorker, poolSize, queue, answers, open, toClient>>

WorkerStep(w) == \/ WorkerTakes(w) \/ WorkerReturns(w) \/ WorkerThrows(w)
                 \/ WorkerLocks(w) \/ WorkerAnswers(w) \/ WorkerCannotAnswer(w)

-----------------------------------------------------------------------------
(* The clients (see PipeClient).                                           *)

ClientSends(s) ==
    /\ clientAt[s] = "open" /\ sent[s] < MaxRequests
    /\ Len(toServer[s]) < WireCap
    /\ sent' = [sent EXCEPT ![s] = @ + 1]
    /\ toServer' = [toServer EXCEPT ![s] = Append(@, sent'[s])]
    /\ UNCHANGED <<notClient, toClient, clientAt>>

ClientCloses(s) ==
    /\ clientAt[s] = "open" /\ Len(toServer[s]) < WireCap
    /\ clientAt' = [clientAt EXCEPT ![s] = "closing"]
    /\ toServer' = [toServer EXCEPT ![s] = Append(@, Eos)]
    /\ UNCHANGED <<notClient, toClient, sent>>

ClientReads(s) ==
    /\ clientAt[s] \in {"open", "closing"} /\ toClient[s] # <<>>
    /\ toClient' = [toClient EXCEPT ![s] = Tail(@)]
    /\ UNCHANGED <<notClient, toServer, clientVars>>

\* pipe.close(), or the end of the client's process.
ClientGone(s) ==
    /\ clientAt[s] \in {"open", "closing"}
    /\ clientAt' = [clientAt EXCEPT ![s] = "gone"]
    /\ UNCHANGED <<notClient, toServer, toClient, sent>>

-----------------------------------------------------------------------------
Next ==
    \/ CommandFails \/ Terminates \/ ProcessExits
    \/ \E s \in Sessions :
         \/ \E kind \in {"tcp", "fifo"} : Connect(s, kind) \/ ConnectFails(s, kind)
         \/ ReaderStep(s)
         \/ ClientSends(s) \/ ClientCloses(s) \/ ClientReads(s) \/ ClientGone(s)
    \/ \E w \in Workers : WorkerStep(w)

Spec == Init /\ [][Next]_vars

\* Threads are scheduled, callables end, and a PipeClient reads as long as it is
\* there (its ResponseReader).  Nobody need connect, send, close or shut down.
Fairness ==
    /\ WF_vars(TerminateMark) /\ WF_vars(TerminateInterrupt)
    /\ \A s \in Sessions : WF_vars(ReaderStep(s)) /\ WF_vars(ClientReads(s))
    /\ \A w \in Workers : WF_vars(WorkerStep(w))

FairSpec == Spec /\ Fairness
-----------------------------------------------------------------------------
(* Properties                                                              *)

ReaderPlaces == {"none", "loop", "read", "submit", "exception", "answering", "finally",
                 "farewell", "sleep", "free", "close", "ended"}
Responses == [kind : {"reply", "exception", "eos"}, of : Sessions \X (0..MaxRequests)]

\* Every variable stays in its domain and no queue exceeds its bound.
TypeOK ==
    /\ acceptAt \in {"accepting", "mark", "interrupt", "left", "broken", "exited"}
    /\ managed \in Seq(Sessions)
    /\ transport \in [Sessions -> {"none", "tcp", "fifo"}] /\ fifosHeld \subseteq Sessions
    /\ readerAt \in [Sessions -> ReaderPlaces] /\ hand \in [Sessions -> 0..MaxRequests]
    /\ mustRun \in [Sessions -> BOOLEAN] /\ interrupted \in [Sessions -> BOOLEAN]
    /\ poolSize \in 0..MaxPool
    /\ queue \in Seq(Requests) /\ Len(queue) <= QueueCap
    /\ workerAt \in [Workers -> {"idle", "running", "lock", "writing"}]
    /\ task \in [Workers -> Requests \cup {NoTask}]
    /\ logged \subseteq Requests /\ answers \in [Requests -> Nat]
    /\ open \in [Sessions -> SUBSET {"read", "write"}]
    /\ writeLock \in [Sessions -> Workers \cup {NoWriter, Reader}]
    /\ toServer \in [Sessions -> Seq(0..MaxRequests)]
    /\ toClient \in [Sessions -> Seq(Responses)]
    /\ \A s \in Sessions : Len(toServer[s]) <= WireCap /\ Len(toClient[s]) <= WireCap
    /\ clientAt \in [Sessions -> {"none", "open", "closing", "gone"}]
    /\ sent \in [Sessions -> 0..MaxRequests]

Queued(r)  == {k \in DOMAIN queue : queue[k] = r}
Working(r) == {w \in Workers : task[w] = r}
InPool(r)  == Queued(r) # {} \/ Working(r) # {}
InHand(r)  == hand[r[1]] = r[2] /\ readerAt[r[1]] \in {"submit", "exception", "answering"}

\* A request is executed once and answered at most once, by a callable's reply or
\* by the RequestReader's exception but never both, on the pipe it came from.
OneAnswerEach ==
    /\ \A r \in Requests :
         Cardinality(Queued(r)) + Cardinality(Working(r)) + answers[r]
           + (IF InHand(r) THEN 1 ELSE 0) + (IF r \in logged THEN 1 ELSE 0) <= 1
    /\ \A s \in Sessions : \A k \in DOMAIN toClient[s] : toClient[s][k].of[1] = s

\* The end of main() does not take accepted requests with it, although the
\* process then consists of daemon threads but for the pool.
NoLostWork == acceptAt = "exited" => \A r \in Requests : ~InPool(r)

\* A RequestReader that ends while the server runs has given its FIFOs back.
FifosReturned ==
    \A s \in fifosHeld : readerAt[s] = "ended" => ~mustRun[s] \/ acceptAt = "exited"

\* A client that is gone without END-OF-STREAM, from which the server has its FIFO
\* still open.
LostFifoClient(s) == transport[s] = "fifo" /\ clientAt[s] = "gone"

\* A thread holds the monitor of a FIFO that is full and that nobody will ever read.
Stuck(s) == LostFifoClient(s) /\ Len(toClient[s]) = WireCap /\ writeLock[s] # NoWriter

\* Every request the executor accepts is answered, or its failure logged
\* (MyThreadPoolExecutor.java 19-42): a client that leaves its answers unread, or goes
\* away in front of a full pipe, does not keep the pool thread from the others' requests,
\* unless the pipe is a FIFO, where the thread then blocks for good.
AcceptedAnswered ==
    \A r \in Requests :
        InPool(r) ~> \/ answers[r] > 0 \/ r \in logged
                     \/ \E s \in Sessions : Stuck(s)

\* When SHUTDOWN has let go of managedThreads, every RequestReader that has not ended was
\* told to and its next blocking operation fails: none was skipped, and none that started
\* is missing from the list (PipeServer.java 122-127, 146, 197).
ShutdownReachesReaders ==
    acceptAt = "left" =>
        \A s \in Sessions : readerAt[s] \in {"none", "ended"} \/ (~mustRun[s] /\ interrupted[s])

\* SHUTDOWN ends every RequestReader, wherever it is when it is interrupted.
ShutdownEndsReaders ==
    \A s \in Sessions :
        acceptAt = "left" ~> readerAt[s] \in {"none", "ended"} \/ LostFifoClient(s)

\* The RequestReader of a TCP client that is gone ends, also when it or a pool
\* thread is about to write to that client.
ReaderFollowsClient ==
    \A s \in Sessions :
        transport[s] = "tcp" /\ clientAt[s] = "gone" ~> readerAt[s] \in {"none", "ended"}

\* FifoPipe.java:28-30: a pipe throws an IOException "on END-OF-STREAM", on which
\* RequestReader.java:48-50 ends.  So a RequestReader ends when its client goes away from
\* a server that works.
ReaderFollowsAnyClient ==
    \A s \in Sessions :
        clientAt[s] = "gone" /\ acceptAt = "accepting" ~> readerAt[s] \in {"none", "ended"}
=============================================================================
