# Kwami: a TLA+ verification

The repository (`src/`) is a collection of Java and TypeScript modules around
one idea: messages between processes, over sockets and named pipes. Its core is
`kwami-pipe-server`: a request/response protocol in which many application
threads share one connection (TCP or a pair of FIFOs), and a server that runs
the requests on a bounded thread pool. Around it are a cache of configuration
objects, a relay between two sockets, and a web page that talks to a database
server. This directory holds TLA+ models of these, TLC instances that check them,
and proofs checked by TLAPS.

    tlc -workers 2 -config PipeClientTraffic.cfg MCPipeClient.tla   # a run
    tlapm PipeClientProofs.tla                                      # the proofs

`PROJECT.json` lists components, runs, mutants, the lines of code every
definition translates, the disagreements found, the hazards, and the theorems.

## 1. Inventory

| component | state | operations | interaction |
|---|---|---|---|
| **Pipe client** `pipe/client` | `nextMsgId`, `outstandingRequests`, `transmitQueue`, `isClosed`, the two thread fields; each `Message` has an id, data, a status NEW/WAIT/DONE and its monitor | `sendRequest`, `close`, `RequestTransmitter.run`, `ResponseReader.run` | callers share the map and the queue; a caller parks on its Message; the reader notifies it; `close` interrupts both threads and closes the pipe |
| **FIFO pool** `PipeServer`, `RequestReader` | `fifoByteMap`, `fifoByteMapPosition`, the indexes of each session, and the kernel's buffers | `getFreeFifo`, `startFifoRequestReader`, `freeFifo`, `FifoPipe` open/read/write/close | accept loop and RequestReaders share the map; sessions one after the other share FIFOs |
| **Pipe server** | `managedThreads`, the executor's queue | accept loop (CONNECT, SHUTDOWN), one RequestReader per connection, `afterExecute` | reader submits, pool threads write the answer to the pipe it came from |
| **Framing** `Pipe`, `TcpPipe`, `FifoPipe` | read and write buffer | `write`, `read`, `readFully` | id, length, bytes; one writer at a time through the monitor of `writeBuffer` |
| **Configurator** `kwami-base-utils` | cache class name -> object with time stamp; the lock of each class | `get`, `getCachedObject` | threads load under the lock, look up and renew leases with or without it; the file changes under them |
| **ParameterBuffer** `kwami-pathsend-utils` | byte buffer, map name -> offset | `addParameter`, `get...Value`, `position` | none |
| **Relay** `load-balancer` `Transceiver`/`Receiver`/`Sender` | two buffers, two non-blocking channels, selected keys, `mustRun` | `run`, `setMustRun` | copies both ways between a client and a server |
| **TCP proxy** `tcp-proxy` | list of sockets, two threads per connection | accept, copy, `closeSockets` | |
| **Ajax client** `kwami-generic-webapp` | one static request object and callback, the overlay | `get`, `post`, the handler of each request | handlers of old requests look at the newest one; the callback runs in their event |
| **Panels** `kwami-generic-webapp` | list of panels, the page, schema panel, status field, rename dialog | constructors, `savePanel`, `getPanel`, `showPanel`, `removePanel`, menus, callbacks | all panels of a type share one id; clicks and answers interleave |
| **DataAccess** `kwami-mybatis-utils` | session per thread and database | `openSession`, `getSession`, `closeSession` | |

Outside the inventory: `PathwayClient` (a call into a proprietary
library), the unfinished rest of the load balancer (listener that drops its
connections, pools nobody borrows from), stateless utilities (`Codec`,
`HexDumper`, JSON beans), password encryption and mail (library calls), the
thread-pool example (its state is java.util.concurrent's), experiments,
archetypes, build files and vendored code (`react` is most of the repository's
lines).

What makes each hard, and what correctness means for it:

* **Pipe client.** Three kinds of threads meet on a `Message` whose fields are
  partly read and written outside its monitor. Answers come in any order, late
  or never. A call must get its own answer or throw; no answer may be lost
  between status test and wait; nothing may stay in the map; calls with a
  timeout return; `close` must stop the threads without blocking.
* **FIFO pool.** A FIFO is a shared, persistent object: two concurrent users of
  one, or bytes left in one, mix the dialogues of two clients. FIFOs must be
  exclusive, must come back, and must be empty when they are handed out.
* **Pipe server.** One failing connection must not affect others; SHUTDOWN must
  reach everybody; every request accepted should be answered.
* **Framing.** Frames must survive being cut anywhere; lengths at their limits.
* **Configurator.** One object per version of the file; an outdated entry must be
  noticed when its lease is over; the right class *and* resource; a load that
  fails must not keep others from the lock.
* **ParameterBuffer.** What was added is what is read, before and after `array()`.
* **Relay, proxy.** Bytes neither lost, repeated nor reordered; a full buffer must
  stop neither the thread nor the other direction; both ends released.
* **Ajax, panels.** A callback gets its own answer unless requests overlap; the
  list and the page agree although ids are shared; the page tells the truth about
  the connection.

The `hazards` of `PROJECT.json` give each of these its line.

## 2. The modules

| module | what | checked by | proofs |
|---|---|---|---|
| `PipeClient` | client, its threads, `close`; the server as environment | `MCPipeClient` | `PipeClientProofs` |
| `PipeRpc` | abstract: a call is issued, executed at most once, then answered with its own result or given up | (as a property) | |
| `PipeClientRpc` | the refinement mapping from `PipeClient` to `PipeRpc` | `MCPipeClient` | `PipeClientRpcProofs` |
| `FifoPool` | allocation, hand-over and contents of FIFOs | `MCFifoPool` | `FifoPoolProofs` |
| `FifoAllocator` | abstract: FIFOs are granted to one session at a time and given back once | (as a property) | |
| `FifoPoolAllocator` | the refinement mapping from `FifoPool` to `FifoAllocator` | `MCFifoPool` | `FifoPoolProofs` |
| `PipeServer` | accept loop, RequestReaders, bounded executor, SHUTDOWN, clients that die | `MCPipeServer` | `PipeServerProofs`, `PipeServerOnceProofs` |
| `RequestService` | abstract: a request is accepted or refused, then answered or failed, each once | (as a property) | |
| `PipeServerService` | the refinement mapping from `PipeServer` to `RequestService` | `MCPipeServer` | `PipeServerOnceProofs` |
| `Configurator` | cache, leases, reload, failures; file and clock as environment | `MCConfigurator` | `ConfiguratorProofs` |
| `Relay` | selector loop, bounded buffers, partial writes, ends of stream | `MCRelay` | `RelayProofs` |
| `ByteStreams` | abstract: two streams that deliver in order what was sent | (as a property) | |
| `RelayStreams` | the refinement mapping from `Relay` to `ByteStreams` | `MCRelay` | `RelayProofs` |
| `AjaxClient` | the static request object and its handlers | through `WebApp` | `WebAppProofs` |
| `Panels` | operators on list and page | through `WebApp` | `WebAppProofs` |
| `WebApp` | `AjaxClient` and `Panels` composed: clicks, answers, menus, dialog | `MCWebApp` | `WebAppProofs` |

Three modules look at the pipe server from three sides because one module of all
would be out of reach: `PipeClient` reduces the server to receiving, answering and
stopping, `PipeServer` reduces clients to their pipe and FIFOs to "has a pair",
`FifoPool` reduces everything but the FIFOs.

Every module declares its bounds as CONSTANTS with a named assumption, has one
action per operation, and no RECURSIVE operator, so that it can be proved about.

## 3. Modelling decisions common to the modules

* **Steps.** A step reads or writes shared state once. A `synchronized` block is
  one step when nothing it changes can be seen half done, and several when it
  can: the reader's `setData`, `setStatus`, `notify` are two steps during which
  it holds the Message's monitor (`MonitorFree`), because `sendRequest` reads
  the Message without that monitor (lines 86, 92-94).
* **Memory.** Reads and writes are taken to be sequentially consistent.
  `isClosed` is the exception: it is neither volatile nor guarded, and a caller
  may read FALSE long after `close`. Since a caller that reads TRUE throws and
  changes nothing, it is not a variable and `BeginCall` is always possible. The
  other unguarded reads are `Message.status` in the transmitter's spin loop and in
  line 86, and `mustRun`: the models assume that these see the last write, the
  first because the loop sleeps, line 86 because the caller has just left the
  monitor, `mustRun` because the thread observes the interrupt that follows its
  write.
* **Data** is what it is about: a Message's data is the request `i` or the answer
  to request `i`, and an exception is an answer that `sendRequest` throws; time is the possibility that a timed wait ends.
* **Not a state of the model**: `mustBlock` (nothing calls `block()`), spurious
  wake-ups (indistinguishable from an early timeout for a timed caller; for an
  untimed one they would end the wait with a TimeoutException), logging.

## 4. PipeClient

Variables are the fields of the classes (`nextMsgId`, `outstanding`,
`transmitQueue`, `field`, `status`, `data`, `mustRun`,
`interrupted`), a program counter per thread (`callAt`, `xmtAt`, `rdrAt`,
`closeAt`) with its locals, the set of callers already notified, the pipe
(`pipeOpen`, the monitor `writeLock`, the two directions) and the server.

| part | actions | code |
|---|---|---|
| call | `BeginCall` `Admit` `Register` `Offer` `OfferTimesOut` `MarkWaiting` `Await` `LeaveWait` `CheckStatus` `EndCall` | `PipeClient.sendRequest` |
| transmitter | `XmtLoop` ... `XmtStop` | `RequestTransmitter.run`, `TcpPipe/FifoPipe.write` |
| reader | `RdrLoop` ... `RdrStop` | `ResponseReader.run`, `Pipe.read` |
| close | `CloseBegin` ... `CloseInterrupt`, in every user thread of `Closers` and in the reader after END-OF-STREAM | `PipeClient.close`, `ManagedThread.terminate` |
| environment | `ServerReceive` `ServerAnswer` `ServerShutdown` | `RequestReader.run`, `MyThreadPoolExecutor.afterExecute` as the client sees them |

Points a reader may want to check against the code: the offer gives up only
with a full queue; `take()` on an interrupted thread throws even when something
is queued; a write is two steps because another thread can interrupt it, close
the channel under it or wait for its monitor; an interrupt during a read or a
write closes the channel (NIO's ClosedByInterruptException); `close` tests each
thread field and then uses it, so the field can become null in between
(`"npe"`); an IOException in `close` skips `terminate` (`"ioexception"`).
Over TCP END-OF-STREAM makes the server close the socket; over FIFOs the server
answers END-OF-STREAM and the pipe stays usable.

| run | instance | question |
|---|---|---|
| `client_traffic` | 2 callers, one untimed, 2 ids, queue 1, wire 1, maxOutstanding 1, TCP | the safety of calls, do calls come back, is `PipeRpc` implemented |
| `client_close` | 1 caller, 1 closer and the reader, TCP and FIFO | does close come back, does it stop the threads, do calls still return |

*Bounds.* `MaxMsgId` bounds the calls of a run; two ids with two callers give a call
that times out, its late answer, and another call in progress, by the same caller
or the other. A queue and a wire of one make both fill up. TCP is the harder case for calls,
since the transmitter's writes can fail; the theorems of section 10 cover both.
One id is enough for `client_close`, where the call is what close interferes
with. Deadlock is not checked because idle daemon threads legitimately block in
`take()` and `read()`.

*Fairness.* Weak fairness for each thread's steps: the JVM schedules runnable
threads, and timed waits and offers expire. The server's reader is fair while it
runs. Nothing obliges an application to call or to close, nor a server to
answer.

*Properties.* `AnswersBelong` a call that is about to return holds the server's
answer to its own request; `DoneIsFinal` line 81 never overwrites a DONE;
`NoMissedNotify` nobody sleeps on an answered Message unnotified;
`NoOrphanRequest` the map holds only calls in progress; `SentAtMostOnce` a
request is in at most one place between queue and answer; `CloseReachesThreads` when
a `close()` returns normally, no thread is left that could block again: each has
stopped, is about to, or has `mustRun` cleared and an interrupt before it that it can
only consume on its way to the test of `mustRun`; `TimedCallsReturn`,
`DoneCallsReturn`, `CloseStopsThreads`, `CloseEnds` are the liveness side.

*Refinement.* `PipeRpc` knows calls, requests on their way, executions, answers and
results, and nothing of queues, threads, Messages or pipes. `PipeClientRpc` maps
to it: a request is pending as long as its id is being offered, queued, in the
transmitter's hands or on the wire; an answer exists from the server's answer
through the pipe and the reader's hands to the Message; a call has a result when
`sendRequest` has seen DONE. `Lose` is what broken pipes, stopped threads and
callers who gave up do. The mapping makes the order of the code's steps matter:
a request may not be pending again once it has executed, and no answer may appear
without execution.

*The limit is none.* `size() > maxOutstanding` is checked before, and apart from, the
`put` (`Admit`, `Register`), so that with `maxOutstanding` 1 two requests are
outstanding, and more with more callers. The message of `PipeClient.java:69`
("reached maximum of %d") explains the refusal and promises no bound, so no
property states one.

*What close() does not promise.* `CloseEnds` is about TCP: over FIFOs the
transmitter can hold the monitor in front of a full FIFO that the client itself
keeps open for reading. A `close()` that throws leaves one or both threads alone,
and one that finds the reader already gone, after any IOException, leaves the pipe
open; these outcomes are states of the model but no property forbids them, since
nothing in the repository does.

## 5. FifoPool

A session is one CONNECT. The accept loop is sequential, so a connection is two
steps with `connecting` in between: RequestReaders may free FIFOs there
(`ConnectFirst`, `ConnectSecond`). `usedFifos[s]` are the indexes given to the
session, `fifo` is what the kernel holds, with the session each message belongs
to; contents disappear only when no process has the FIFO open (`Kept`). The
client is reduced to opening, sending, reading, saying END-OF-STREAM and going
away, the executor to a set of jobs. The ten seconds of `Thread.sleep(10000)` are
not a guarantee of order and hence not a state.

| run | instance | question |
|---|---|---|
| `fifo_reclaim` | 2 sessions, 3 FIFOs of 3 messages, fair server | can two sessions get one FIFO, is `FifoAllocator` implemented, does END-OF-STREAM lead to reclaiming while FIFOs have room |
| `fifo_stale` (violated) | 2 sessions, 2 FIFOs | is what a session reads its own |

Three FIFOs make the second session wait for, or race with, the reclaim of the
first one's, or find one FIFO only; three messages are room for one request, one
answer and END-OF-STREAM, stale ones included. `ExclusiveFifos` is also proved for
any number of sessions (section 10). The server's threads are fair, clients
are not. Deadlock is not checked: when all sessions are over nothing happens.

*Refinement.* `FifoAllocator` has no map, no position and no RequestReaders: it knows who
holds what, and what is lost. A FIFO may be granted only while nobody holds it, to a
session that has one at most; a session gives back what it holds, once; and it is
lost only by a session for which there was no second one (`Forget`). The mapping
takes ownership from `usedFifos` and the state of the session, so that a byte of
`fifoByteMap` that disagrees with the owners, one cleared twice or one left set, is a
step that the allocator does not have. TLC looks for it with sessions that race, the proof
covers any number.

*What the properties do not cover.* `PipeReclaimed` needs the room of three messages:
with FIFOs of one message TLC finds it violated, because the RequestReader says
farewell *before* it frees the FIFOs, the write blocks when the FIFO is full, and
since the server itself holds the FIFO open for reading the write never fails
either. A connection that finds one free FIFO only keeps it for good when it falls
back to TCP (`ConnectSecond`, `Forget` of the allocator), so that fewer connections remain possible than
`PipeServer.java:88` announces.

*What the violated run shows.* `freeFifo` comes before `pipe.close()`, and the client
may hold the FIFO open even longer, so what the FIFO still holds goes to the next
session, although `Pipe.java:39-40` says that `read()` returns what "was sent by
the remote end-point".

## 6. PipeServer

Here the server is whole and the FIFOs are reduced to whether a session has a
pair; which pair, and what is in it, is the business of `FifoPool`. Clients are
the environment: they connect, send, read, close or go away.

| part | state | actions | code |
|---|---|---|---|
| accept loop | `acceptAt`, `managed`, `fifosHeld`, `transport` | `Connect` `ConnectFails` `CommandFails` `Shutdown` `TerminateMark` `TerminateInterrupt` `ProcessExits` | `PipeServer.main/call`, `startTcpRequestReader`, `startFifoRequestReader`, `ManagedThread.terminate` |
| RequestReader | `readerAt`, `hand`, `mustRun`, `interrupted` | `ReaderLoop` ... `ReaderCloses` | `RequestReader.run`, `Pipe.read/write` |
| executor | `poolSize`, `queue`, `workerAt`, `task` | `Submit`, `WorkerTakes` ... `WorkerCannotAnswer` | `MyThreadPoolExecutor`, `CallableMessage` |
| pipe | `open`, `writeLock`, `toServer`, `toClient` | `Put`, `Interrupt`, `Release` | `TcpPipe`, `FifoPipe` |
| clients | `clientAt`, `sent` | `ClientSends` `ClientCloses` `ClientReads` `ClientGone` | `PipeClient` as the server sees it |

`logged` and `answers` are history: the requests whose failure is only logged,
and how many responses were written for each request.

Points a reader may want to check against the code:

* `accept()` and `Command.read()` are one step with what the command causes. A
  peer that connects and stays silent therefore is a loop that takes no step,
  which is why nothing obliges the loop to accept.
* Any exception in the loop leaves it (`"broken"`): `main` returns, RequestReaders
  are daemons, and the process lives on only if the executor has started a
  thread, because pool threads are not daemons and their keep-alive is in days.
* SHUTDOWN handles one managed thread at a time, in two steps: `mustRun` and the
  interrupt. An ended RequestReader is still in `managed`.
* An interrupt closes the channel whose operation it meets: the socket in both
  directions, of a pair of FIFOs only the one concerned.
* A thread that waits for the monitor of `writeBuffer` is not woken by an
  interrupt; the interrupt then meets the write.
* A callable that throws, or whose answer cannot be written, is only logged.
* `finally` writes END-OF-STREAM and frees the FIFOs only if nothing throws on the
  way: an interrupted write or sleep leaves the FIFOs marked.

| run | instance | question |
|---|---|---|
| `server_requests` | 1 session, 4 requests, pool 1..2, queue 1 | submission, rejection, failure: is `RequestService` implemented, does work survive `main` |
| `server_answers` | 2 sessions sharing one pool thread: client 1 over TCP or FIFOs, 2 requests, may leave; client 2 over TCP, 1 request, stays; fair | do answers go where they belong, is every accepted request answered or logged whatever client 1 does |
| `server_shutdown` | 1 session, 1 pair, 3 requests, fair | does SHUTDOWN reach all RequestReaders and do they end, and when a TCP client goes away; do FIFOs come back, and is accepted work answered all the same |
| `server_lost_fifo` (violated) | 1 session, 1 pair, fair | ... and when a client of FIFOs goes away |

*Bounds.* Sessions are numbered as they connect, which loses nothing. With a pool
of one to two threads and a queue of one, three requests fill it and the fourth
is rejected. A pipe holds one message, so the second answer to a client finds the first
one still there: in `server_answers` the one pool thread then blocks with the monitor of
a pipe whose client has stopped reading, over TCP and over FIFOs, while the other
client's request waits in the queue. Two clients are enough for one to hold up the
other (`Serving` of `MCPipeServer`: nobody shuts the server down there), and `server_shutdown`
interrupts a single reader at each of its steps, over TCP and over FIFOs; how
sessions compete for FIFOs is checked in `FifoPool`. Deadlock is not checked: a
server that nobody talks to stops.

*Fairness.* Threads are scheduled, callables end, and a PipeClient reads as long
as it is there (its ResponseReader does nothing else). SHUTDOWN, once begun, goes
on. Nobody need connect, send, close or shut down.

*Properties.* `OneAnswerEach` a request is executed once and gets one response at
most, the callable's or the RequestReader's exception, on its own pipe;
`NoLostWork` the process does not end with accepted requests; `FifosReturned` a
reader that ends, and was not terminated, has freed its FIFOs; `ShutdownReachesReaders`
when SHUTDOWN is through, every reader that has not ended was told to and
interrupted; `AcceptedAnswered`, `ShutdownEndsReaders`, `ReaderFollowsClient` are the
liveness side.

*Refinement.* `RequestService` has no pipes, readers or pool: a request is sent, accepted
or refused (with an exception as its answer), and what was accepted is answered or fails,
everything once; the server stops only without accepted requests. `PipeServerService`
maps to it: a request is pending in its client's pipe and in its RequestReader's hands,
accepted in the queue and with a pool thread. A connection that ends may drop what is
pending, nothing may drop what is accepted, and no step may bring a request back.

*The exceptions, and the violated run.* The server has each FIFO open for reading *and*
writing, so a write to a full FIFO that nobody reads never fails. A pool thread
blocked there holds the monitor, the RequestReader may wait behind it, and an
interrupt does not wake it. `AcceptedAnswered` excepts exactly this state of one of the
sessions (`Stuck`: a client of FIFOs that is gone, its FIFO full, its monitor held); over TCP,
and over FIFOs that still have room, a client that leaves holds up nobody.
`ShutdownEndsReaders` excepts a client of FIFOs that has gone away (`LostFifoClient`).
`server_lost_fifo` shows the other half: no END-OF-STREAM of the kernel ever
reaches the reader, although `FifoPipe.java:28-30` documents an IOException "on
END-OF-STREAM", on which `RequestReader.java:48-50` would end.

## 7. The web application: AjaxClient, Panels, WebApp

`WebApp` EXTENDS both others: `AjaxClient` has variables and actions of its own,
`Panels` only operators on the record `ui` (list and page), and `WebApp` says which
click and which answer does what. Events of a page run to completion, so a step is
an event with everything its handler calls.

| part | state | definitions | code |
|---|---|---|---|
| request object | `xmlhttp`, `readyState`, `answer`, `objs`, `overlay` | `AjaxJson` `AjaxJsonThrows` `Handler` | `ajaxClient.ts`, `jsonAjaxClient.ts` |
| browser | `readyState`, `answer` | `XhrHeaders` `XhrLoading` `XhrDone` `XhrFails` | XMLHttpRequest (external) |
| panels | `ui` | `NewPanel` `ClosePanel` `RemovePanel` `ShowPanel` `SetHeading` ... | `panel.ts`, constructors of `panels.ts` |
| page | `url`, `status`, `schema`, `asked`, `dialog` | `ClickConnect` ... `MenuShow`, `SetResponse`, `ProcessInto` | `panels.ts`, `HeadingUpdater` |

Points a reader may want to check against the code:

* `xmlhttp` is one static field. The handler of *every* request, old ones
  included, looks at the object in the field (`Seen`), so an event of request 1
  may find request 2 answered and pass 2's response to 1's callback. `objs` is a
  parameter and stays the request's own; its `pop` empties it (`objs`).
* The overlay covers the page, but does not stop the keyboard, and panels come
  to lie above it when their z-index has grown; hence requests may overlap.
* A panel's id is the name of its type. `prepareButtons` and `prepareHeading`
  search the page for `#id ...` and so give handlers to the *first* panel of the
  type: `wired`. `removePanel(id)` takes the first of the list.
* `open()` throws on a malformed URL: the field then holds an object that is
  never sent (`AjaxJsonThrows`).
* "UPDATE" answers, dragging, z-order and texts are left out of the runs; the theorems
  cover the first.

*Properties.* `AnswersMixOnlyByOverlap` says exactly how far answers go astray;
`OverlayWhileWaiting` and `OverlayGoes` are the overlay's two sides; `PageMatchesList`,
`HiddenIsReachable`, `OneOfEach` concern the panels in spite of the shared ids;
`SchemaIsCurrent` and `StatusTruthful` what the user is told after several connects
whose answers overlap. `SchemaIsCurrent` holds *because of* the static field: with
an object per handler (the mutant `Seen_Own`) a late answer of the server left behind
would fill the schema panel under the new server's heading.

*Run and bounds.* `web_panels`: two requests (one overlap; a third one adds no new
relation between two of them), two URLs, four panels besides the connection panel,
enough for two of a type next to a schema panel. `Room` keeps one panel for each callback
that may still run. Fairness: the network answers or fails. The user owes nothing.

*What the properties do not cover.* The overlay stays for ever after a status other
than 200. An SQL panel's `sql` is the text area of the first SQL panel on the
page (`panels.ts:226`), so that "right-click to copy to SQL" (`panels.ts:244`) may
write into another panel or into a closed one; contents of panels are not part
of the model.

## 8. Configurator

One class, hence one entry of the cache. `get()` is one step per look at the cache,
the clock or the file: `Lookup`, `Lease` (hasExpired), `Stat` (needsRefresh), `Lock`,
`Load`, `LoadFails`, `Stamp` (new CachedObject), `Put`. The same steps serve the lookup
before the lock and the one behind it. `call` keeps, as history, when a call began and
which version it found. Two more histories name the versions of which the code loses
track:

* `missed`: a lease may hide the version, because it came in the tick of the lease's time;
  or after the thread had looked at the file (lines 135-138 or 178-180) and before the
  constructor noted the time (line 22), which is then later than the modification
  (`Unnoticed`); or because a get with another resource name renewed the lease by the
  age of that other file (`Crossed`). A modification after the time was noted, while the entry is on
  its way into the cache, is not among them, and neither is a lease put over a newer entry.
* `overtaken`: the version came while a thread that renews outside the lock was between
  that constructor and the put (`Overtaking`).

| run | instance | question |
|---|---|---|
| `config_cache` | 2 threads, 4 calls, 2 resources, lifetime 1, 6 ticks, 2 versions, from the end of the first lease on | one object per version, bounded staleness, do calls return |
| `config_resource` (violated) | 2 resources | is the object of the resource asked for |

*Bounds.* `config_cache` starts when the first lease is over (`LateSpec` of `MCConfigurator`), the
cache being empty or holding what the first call loaded. Then one thread calls once,
for either resource, cached or not, and the other up to twice for the first resource, whose file
may change once, at any moment, to something good, malformed or missing. That is a renewal
outside the lock with everything that can happen under it: the modification at each
of its steps, a reload by the other thread behind the lock that the renewal then replaces, and,
in six ticks with a lifetime of one, the end of the new lease and what the next call makes of
it. Each exception is needed: without `overtaken`, without any one of the disjuncts of
`Unnoticed`, or without `Crossed`, TLC finds `OneObject` or `StaleIsNoticed` violated in this
instance. The theorems of section 10 cover any number of threads, calls, resources
and versions. Fairness: threads are scheduled, and what a thread does in `get()` ends.

*Properties.* `OneObject`: "only a single object", for each version that is not `overtaken`, although
loading is double-checked and leases are renewed outside the lock. One that is may be loaded
twice: a renewal puts the old object back over the one just loaded.
`StalenessBounded`: what a cached `get()` returns for its resource is outdated by no more than the
lifetime, but for versions in `missed`; an entry may be renewed over a newer one, but with
the time noted before the put, so that the next expiry sees the modification
(`Put_StampsAnew`, the mutant that notes it later, violates it). `StaleIsNoticed`, the half of this
that is about the entry, is proved in section 10. `GetsReturn`: failing loads do not
keep the others waiting.

*What the violated run shows.* The key of the cache is the class name alone, so a
second resource name gets the first one's object, although `Configurator.java:80-81`
says that `resourceName` names the file "from which the object will get its values".
`DataAccess.java:21-26` reads one resource per database in a loop in this way, and `Listener.java:36` one per pool.

## 9. Relay

One thread with a selector between a client and a server. A byte is its place in its
stream; `inq`, `buffer`, `outq`, `got` are a stream's stations. `Select` fixes the keys of
a round, then each key is a read (`Read`, `ReadEnd`) and a write (`Write`) that takes what the
channel accepts. An IOException (`Fails`) comes from a peer that has gone. `OP_WRITE` is
never registered: bytes that were not accepted wait for the next read of the same
direction, which a full buffer turns into a read of nothing (`Room`).

| run | instance | question |
|---|---|---|
| `relay` | buffer 2, window 1, 4 bytes one way, 3 the other | do streams stay intact, is `ByteStreams` implemented, does the relay close when and only when it should, does the client's stream go on |

*Bounds.* Four bytes fill window and buffer and leave one that cannot be read; three
the other way fill both, so that the end of the server's stream can come behind a full
buffer. Fairness: the thread runs and the server reads. Nothing is assumed of the client, so
that `RequestsGoOn` says that a client that never reads its answers does not hold up its
own requests. `ClosesAtEnd` needs nothing of it for the end of the client's stream; the end of
the server's is read only when there is room in the buffer, so it is promised if the client makes
room again and again (`Full`). Without that TLC finds the relay open for ever, selecting a
key from which it reads nothing.

*Refinement.* `ByteStreams` is a pair of streams without buffers or a thread: what a
destination has received is a beginning of what was sent, and the connection closes
only when one side has ended or `setMustRun` was called. Of the relay it sees `sent`,
`got`, `eof`, `asked` and whether the channels are closed; everything between is hidden.

*What the properties do not cover.* When a stream ends, both channels are closed with
whatever is still in the buffers, and bytes left by a write wait for more to arrive;
the code promises no delivery. `StreamIntact` and `ImplementsStreams` say that nothing
but a tail can be missing. `setMustRun(false)` does not wake the selector; an idle relay stops at
the next byte.

## 10. Proofs

Eight modules prove, for all values of the constants, every safety property that a
passing run checks, five refinements among them: `PipeRpc`, `RequestService`,
`FifoAllocator` and `ByteStreams` are implemented, and `WebApp` implements the `AjaxClient`
it extends. The type invariant of every one of these modules is proved rather than run. The assumptions (`ClientAssumption`,
`PoolAssumption`, `ServerAssumption`, `AjaxAssumption`, `PanelsAssumption`,
`WebAssumption`, `ConfiguratorAssumption`, `RelayAssumption`) only say that bounds are
natural numbers and names are distinct, that the executor has a core thread, and what an
answer may be; TLC evaluates them in every run.

| module | theorems |
|---|---|
| `PipeClientProofs` | `TypeCorrect` (`TypeOK`), `AnswersAreOwn` (`AnswersBelong`), `NoAnswerOverwritten` (`DoneIsFinal`), `NotificationsArrive` (`NoMissedNotify`), `NoOrphans` (`NoOrphanRequest`), `CloseReaches` (`CloseReachesThreads`) |
| `PipeClientRpcProofs` | `ExecutedAtMostOnce` (`SentAtMostOnce`), `ClientImplementsRpc` (`ImplementsRpc`) |
| `FifoPoolProofs` | `TypeCorrect` (`TypeOK`), `FifosAreExclusive` (`ExclusiveFifos`), `PoolImplementsAllocator` (`ImplementsAllocator`) |
| `PipeServerProofs` | `TypeCorrect` (`TypeOK`), `FifosComeBack` (`FifosReturned`), `WorkSurvivesMain` (`NoLostWork`), `ShutdownReaches` (`ShutdownReachesReaders`) |
| `PipeServerOnceProofs` | `AnsweredAtMostOnce` (`OneAnswerEach`), `ServerImplementsService` (`ImplementsService`) |
| `WebAppProofs` | `ImplementsAjaxClient` (`AjaxSpec`), `AnswersOfWebApp`, `OverlayOfWebApp`, `TypesOfWebApp`, `ListOfWebApp`, `HiddenOfWebApp`, `OneOfEachInWebApp`, `SchemaOfWebApp`, `StatusOfWebApp` |
| `ConfiguratorProofs` | `TypesOfConfigurator`, `OneObjectOfConfigurator`, `StaleOfConfigurator`, `StalenessOfConfigurator` |
| `RelayProofs` | `TypesOfRelay`, `StreamsOfRelay`, `ReasonOfRelay`, `RelayImplementsStreams` (`ImplementsStreams`) |

*Client.* `AnswersBelong` and `DoneIsFinal` are not inductive: that no answer
precedes WAIT depends on where a request has been. The invariant `IInv` adds
`IdsInv` (calls in progress have distinct, issued ids; ids not yet issued are
NEW), `MarkInv` (everything past the transmitter's spin loop, that is on the
wire, at a worker, on its way back or in the reader's hands, is no longer NEW,
and a caller before line 81 still is) and `DataInv` (a DONE Message holds its own
answer; between `setData` and `notify` it already does). From `MarkInv`,
line 81 finds NEW, hence never DONE: `DoneIsFinal`. From `DataInv`,
`AnswersBelong`. `NoMissedNotify` and `NoOrphanRequest` are inductive relative to
`IInv` and proved on top of it.

*close().* `CloseReachesThreads` is the safety half of `CloseStopsThreads`. `ClosedInv`
makes it inductive: a field is null only when its own thread is past its loop, so that
a null test that fails may be passed; between `mustRun = false` and `interrupt()` the flag
stays cleared whoever else closes; and a thread that is told to end stays so, because the
only step that consumes an interrupt (`XmtInterrupted`) leads to the test of `mustRun`.
That the threads then do end is liveness and stays with TLC.

*At most once, and the refinement.* `SentAtMostOnce` counts places, and counts are
poor inductive hypotheses. `OnceInv` says the same with sets: each place is
apart from all those a request reaches later (`Apart`), no queue holds a request
twice (`NoneTwice`), and no place holds one not yet issued, which is what lets a
new id enter. With it each action of `PipeClient` is shown to be an action of
`PipeRpc` under the mapping, or a stutter: `XmtWriteDone` is a stutter since the
request only changes its place within `Pending`, `ServerReceive` is `Execute`, every
way in which a call ends is `End`. `ClientImplementsRpc` is this, with `IInv` and
`OnceInv`. It is about safety: `PipeRpc` states no fairness.

*Pool.* `ExclusiveFifos` needs `Allocation`: which sessions hold how many
indexes, and that only one connection at a time is between its two calls of
`getFreeFifo`. Granting an unmarked FIFO cannot collide with a marked, owned one
(`GrantIsExclusive`); releasing gives up ownership in the same step as the byte
(`ReleaseIsExclusive`). `PoolImplementsAllocator` builds on both: the two calls of
`getFreeFifo` are each a `Grant`, `ReaderFrees` is a `GiveBack` of the index it clears,
a `ConnectSecond` that finds nothing is the `Forget`, and all else leaves owners and
map alone.

*Server.* `FifosReturned` fails to be inductive at the farewell: the reader must not
lose its write channel unless it was interrupted, nor be interrupted unless it
was terminated. `Reading` says both, per session, and that a reader past `"free"`
holds no FIFO; `Acceptor` that SHUTDOWN interrupts only the thread whose `mustRun`
it has cleared. `NoLostWork` needs `Pooling`: a thread has a task exactly unless
it is idle, threads not started are idle, and tasks queue only behind core
threads, hence none when no thread was started; that is where `CorePool > 0` is
used. `Acceptor` adds that after the end of the process no reader is left to submit.
`OneAnswerEach` follows the client's pattern: a request is in the client's pipe, in
its reader's hand, queued, with a thread, logged or answered, and in one of these
only; `ToOwn` adds that what is written to a pipe is for its client. From the same
invariant every step is one of `RequestService`: reading from the pipe is a stutter,
`ReaderSubmits` accepts, `ReaderAnswers` refuses, `WorkerAnswers` answers, `WorkerThrows` and
`WorkerCannotAnswer` fail, and the steps that lose a request lose a pending one. `Stop`
takes `NoLostWork`. `ShutdownReachesReaders` needs `Reached`: a reader that
runs is in `managedThreads` or has been told, which starting, terminating and every step of a
reader keep.

*Web application.* `AjaxInv` is proved for `AjaxClient` alone, and `ImplementsAjaxClient`
carries it over: with the page hidden, `WebApp` only takes steps of `AjaxClient`. For the
page, `Good` is the inductive form of `PageMatchesList`: list and page are equal *and* only
first panels of a type have handlers or are hidden, so that closing removes the
same panel from both. Every operation of `Panels` is shown to keep it once, and clicks
and callbacks are built from these. `WebInv` adds the truth of status and schema,
and that panels constructed and callbacks to come stay within the bound.

*Configurator.* `PlaceInv` says who is where and who holds the lock. `OneObject` is then
about one thread behind the lock: an object of the present version is on its way into the
cache or the cache is as young as the file (`CurrentIsKept`), and who looks up
behind the lock sees that (`HolderSees`), for any number of resources. A version that was not
overtaken finds no renewal about to be put (`Undisturbed`), so that what is put later knows of
it. How old an object may be is proved for any number of resources: every entry that
somebody may still look at or put notices the present version and every version that a call in
progress has found (`Knows`): its object is as new, or its time is before the
modification, or the version is in `missed`. An object about to get a new time must
cover these versions by itself (`CoversAll`). A renewal does, because `needsRefresh` has just found
the file no younger than the entry (`RenewedCovers`), or because what another file's age hides is
in `Crossed`; a modification keeps `Knows` because everything with an earlier time is older, and
what is not is `Unnoticed`. Nothing is from the future (`PastInv`).

*Relay.* `StreamIntact` is proved action by action with lemmas about cutting and
joining sequences; that a write takes a prefix and `compact` keeps the rest is
`CutFacts`. `ClosesForAReason` needs that what a round has selected is still readable
when its turn comes (`ReasonInv`), so that reading nothing at the end of a round is
never the end of a stream that has not ended. `RelayImplementsStreams` reads off
`StreamIntact` that the head of `outq` is the number after what has arrived
(`NextByte`), and from `ReasonInv` that `Close` has its reason; all else is a stutter.

The abstract specifications state no fairness; what is proved of them is safety.
Model-checked only: the liveness properties, which are outside what the provers
handle: `TimedCallsReturn`, `DoneCallsReturn`, `CloseStopsThreads`, `CloseEnds`,
`AcceptedAnswered`, `ShutdownEndsReaders`, `ReaderFollowsClient`, `PipeReclaimed`,
`OverlayGoes`, `GetsReturn`, `RequestsGoOn`, `ClosesAtEnd`. The violated
properties are, of course, not theorems.

## 11. Not modelled

* **Vendored code.** `src/react` (`react.js`, `react-dom.js`) is a library, although it
  is some 96 % of the repository's JavaScript and TypeScript lines; it is not this
  program. Of the program's own TypeScript, about 1000 lines, the map covers what changes
  state; what is left is HTML templates, layout and dragging.
* **Framing.** Messages are atomic. The bytes of a frame, partial reads and the trusted
  length field (`Pipe.java:49`) are sequential and left out.
* **ParameterBuffer.** A sequential encoder; its pitfalls (lengths in chars against bytes,
  `ParameterBuffer.java:136`) are about encodings.
* **TCP proxy.** Two blocking copy loops per connection, which share nothing and promise
  nothing about closing. `Relay` is the harder form of the same task.
* **DataAccess.** A session per thread; nothing is shared but maps filled before use.
* **Rest of the load balancer, `PathwayClient`, utilities, mail, encryption, examples,
  archetypes, build files**: unfinished, library calls, or without state.
