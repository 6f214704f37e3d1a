------------------------------ MODULE FifoPool ------------------------------
(***************************************************************************)
(* The FIFOs of net.kwami.pipe.server: PipeServer's accept loop hands every*)
(* local connection two of them (getFreeFifo, startFifoRequestReader), the *)
(* connection's RequestReader gives them back when it ends (freeFifo), and *)
(* the kernel keeps what was written to a FIFO as long as any process has  *)
(* it open.  A session is one CONNECT: a client, its RequestReader, and    *)
(* the pool threads still working for it.                                  *)
(***************************************************************************)
EXTENDS Integers, Sequences, FiniteSets

CONSTANTS Sessions,     \* bound: the connections made in one run
          NumFifos,     \* length of fifoByteMap, counted by the constructor
          FifoCap,      \* bound: messages a FIFO holds before a write blocks
          MaxRequests   \* bound: requests a client sends

Fifos == 0..(NumFifos - 1)
NoSession == "none"

ASSUME PoolAssumption ==
    /\ NumFifos \in Nat /\ FifoCap \in Nat \ {0} /\ MaxRequests \in Nat
    /\ NoSession \notin Sessions

VARIABLES
    fifoByteMap, fifoByteMapPosition,
    connecting,     \* the session whose second FIFO the accept loop asks for next
    usedFifos,      \* per session: the indexes it was given, requests first
    transport,      \* per session: "none", "tcp" or "fifo"
    readerAt,       \* per session: RequestReader.run()
    clientAt, sent, \* per session: its client, and how many requests that sent
    jobs,           \* <<pipe, origin>>: pool threads at work on a request
    serverOpen, clientOpen,   \* sessions whose FifoPipe is open on that side
    fifo            \* what the kernel holds in each FIFO

poolVars  == <<fifoByteMap, fifoByteMapPosition, connecting, usedFifos, transport>>
kernel    == <<serverOpen, clientOpen, fifo>>
vars == <<poolVars, readerAt, clientAt, sent, jobs, kernel>>

\* A message remembers the session of the client whose dialogue it belongs to.
Messages == [of : Sessions, kind : {"data", "eos"}]
RequestFifo(s)  == usedFifos[s][1]
ResponseFifo(s) == usedFifos[s][2]

Init ==
    /\ fifoByteMap = [f \in Fifos |-> 0] /\ fifoByteMapPosition = 0
    /\ connecting = NoSession
    /\ usedFifos = [s \in Sessions |-> <<>>]
    /\ transport = [s \in Sessions |-> "none"]
    /\ readerAt = [s \in Sessions |-> "none"]
    /\ clientAt = [s \in Sessions |-> "none"]
    /\ sent = [s \in Sessions |-> 0]
    /\ jobs = {}
    /\ serverOpen = {} /\ clientOpen = {}
    /\ fifo = [f \in Fifos |-> <<>>]

-----------------------------------------------------------------------------
(* The accept loop of PipeServer.                                          *)

FreeOnes == {f \in Fifos : fifoByteMap[f] = 0}

\* The search goes from the last position on, then from the beginning; -1 tells
\* that no FIFO is free.
Candidates == LET ahead == {f \in FreeOnes : f >= fifoByteMapPosition}
              IN  IF ahead # {} THEN ahead ELSE FreeOnes
NextFree(f) == IF FreeOnes = {} THEN f = -1
               ELSE f \in Candidates /\ \A g \in Candidates : f <= g

\* Mutant: the byte is not set.
GetFreeFifo_Unmarked(f) ==
    /\ NextFree(f)
    /\ UNCHANGED fifoByteMap
    /\ fifoByteMapPosition' = IF f = -1 THEN fifoByteMapPosition ELSE f

GetFreeFifo(f) ==
    /\ NextFree(f)
    /\ IF f = -1 THEN UNCHANGED <<fifoByteMap, fifoByteMapPosition>>
       ELSE /\ fifoByteMap' = [fifoByteMap EXCEPT ![f] = 1]
            /\ fifoByteMapPosition' = f

\* CONNECT from another machine, or with FORCE_TCP.
ConnectTcp(s) ==
    /\ connecting = NoSession /\ transport[s] = "none"
    /\ transport' = [transport EXCEPT ![s] = "tcp"]
    /\ UNCHANGED <<fifoByteMap, fifoByteMapPosition, connecting, usedFifos, readerAt,
                   clientAt, sent, jobs, kernel>>

\* CONNECT from this machine: the first call of getFreeFifo.
ConnectFirst(s) ==
    /\ connecting = NoSession /\ transport[s] = "none"
    /\ \E f \in Fifos \cup {-1} :
         /\ GetFreeFifo(f)
         /\ IF f = -1
              THEN transport' = [transport EXCEPT ![s] = "tcp"]
                   /\ UNCHANGED <<connecting, usedFifos>>
              ELSE connecting' = s /\ usedFifos' = [usedFifos EXCEPT ![s] = <<f>>]
                   /\ UNCHANGED transport
    /\ UNCHANGED <<readerAt, clientAt, sent, jobs, kernel>>

\* The second call.  When it fails the session falls back to TCP and the first
\* FIFO is nobody's; otherwise both are opened, the RequestReader starts and the
\* client is told the paths.
ConnectSecond ==
    /\ connecting # NoSession /\ connecting' = NoSession
    /\ \E f \in Fifos \cup {-1} :
         /\ GetFreeFifo(f)
         /\ IF f = -1
              THEN /\ transport' = [transport EXCEPT ![connecting] = "tcp"]
                   /\ usedFifos' = [usedFifos EXCEPT ![connecting] = <<>>]
                   /\ UNCHANGED <<readerAt, clientAt, serverOpen>>
              ELSE /\ transport' = [transport EXCEPT ![connecting] = "fifo"]
                   /\ usedFifos' = [usedFifos EXCEPT ![connecting] = Append(@, f)]
                   /\ readerAt' = [readerAt EXCEPT ![connecting] = "reading"]
                   /\ clientAt' = [clientAt EXCEPT ![connecting] = "told"]
                   /\ serverOpen' = serverOpen \cup {connecting}
    /\ UNCHANGED <<sent, jobs, clientOpen, fifo>>

-----------------------------------------------------------------------------
(* The kernel: a FIFO that nobody has open any more forgets its contents.  *)

Holders(f, server, client) ==
    {s \in server \cup client : usedFifos[s][1] = f \/ usedFifos[s][2] = f}
Kept(server, client) ==
    [f \in Fifos |-> IF Holders(f, server, client) = {} THEN <<>> ELSE fifo[f]]

\* Pipe.write: blocks while the FIFO is full.
Put(f, s, k) == /\ Len(fifo[f]) < FifoCap
                /\ fifo' = [fifo EXCEPT ![f] = Append(@, [of |-> s, kind |-> k])]
Drop(f) == fifo' = [fifo EXCEPT ![f] = Tail(@)]

-----------------------------------------------------------------------------
(* The client, as far as it uses the FIFOs (see PipeClient).               *)

ClientOpens(s) ==
    /\ clientAt[s] = "told"
    /\ clientAt' = [clientAt EXCEPT ![s] = "open"]
    /\ clientOpen' = clientOpen \cup {s}
    /\ UNCHANGED <<poolVars, readerAt, sent, jobs, serverOpen, fifo>>

\* The transmitter may still write after the END-OF-STREAM of close(), and after
\* the reader has met the server's.
ClientSends(s) ==
    /\ clientAt[s] \in {"open", "closing", "stopped"} /\ sent[s] < MaxRequests
    /\ Put(RequestFifo(s), s, "data")
    /\ sent' = [sent EXCEPT ![s] = @ + 1]
    /\ UNCHANGED <<poolVars, readerAt, clientAt, jobs, serverOpen, clientOpen>>

\* After END-OF-STREAM the client stops reading; its pipe stays open.
ClientReads(s) ==
    /\ clientAt[s] = "open" /\ fifo[ResponseFifo(s)] # <<>>
    /\ clientAt' = [clientAt EXCEPT ![s] =
                      IF Head(fifo[ResponseFifo(s)]).kind = "eos" THEN "stopped" ELSE @]
    /\ Drop(ResponseFifo(s))
    /\ UNCHANGED <<poolVars, readerAt, sent, jobs, serverOpen, clientOpen>>

ClientCloses(s) ==
    /\ clientAt[s] = "open"
    /\ Put(RequestFifo(s), s, "eos")
    /\ clientAt' = [clientAt EXCEPT ![s] = "closing"]
    /\ UNCHANGED <<poolVars, readerAt, sent, jobs, serverOpen, clientOpen>>

\* pipe.close(), or the end of the client's process.
ClientGone(s) ==
    /\ clientAt[s] \in {"told", "open", "closing", "stopped"}
    /\ clientAt' = [clientAt EXCEPT ![s] = "gone"]
    /\ clientOpen' = clientOpen \ {s}
    /\ fifo' = Kept(serverOpen, clientOpen')
    /\ UNCHANGED <<poolVars, readerAt, sent, jobs, serverOpen>>

-----------------------------------------------------------------------------
(* RequestReader.run() and the pool threads.                               *)

ReaderGoes(s, at) == readerAt' = [readerAt EXCEPT ![s] = at]

\* Mutant: END-OF-STREAM is submitted like any request.
ReaderReads_NoEos(s) ==
    /\ readerAt[s] = "reading" /\ fifo[RequestFifo(s)] # <<>>
    /\ jobs' = jobs \cup {<<s, Head(fifo[RequestFifo(s)]).of>>}
    /\ Drop(RequestFifo(s))
    /\ UNCHANGED <<poolVars, readerAt, clientAt, sent, serverOpen, clientOpen>>

ReaderReads(s) ==
    /\ readerAt[s] = "reading" /\ fifo[RequestFifo(s)] # <<>>
    /\ LET m == Head(fifo[RequestFifo(s)])
       IN  IF m.kind = "eos" THEN ReaderGoes(s, "farewell") /\ UNCHANGED jobs
           ELSE jobs' = jobs \cup {<<s, m.of>>} /\ UNCHANGED readerAt
    /\ Drop(RequestFifo(s))
    /\ UNCHANGED <<poolVars, clientAt, sent, serverOpen, clientOpen>>

\* The answer goes to the pipe its request came from; it is lost if that has
\* been closed.
WorkerAnswers(s, o) ==
    /\ <<s, o>> \in jobs
    /\ jobs' = jobs \ {<<s, o>>}
    /\ IF s \in serverOpen THEN Put(ResponseFifo(s), o, "data") ELSE UNCHANGED fifo
    /\ UNCHANGED <<poolVars, readerAt, clientAt, sent, serverOpen, clientOpen>>

\* finally: END-OF-STREAM to the client ...
ReaderFarewell(s) ==
    /\ readerAt[s] = "farewell"
    /\ Put(ResponseFifo(s), s, "eos")
    /\ ReaderGoes(s, "free1")
    /\ UNCHANGED <<poolVars, clientAt, sent, jobs, serverOpen, clientOpen>>

\* Mutant: the first index is freed twice.
ReaderFrees_Same(s, from, k, to) ==
    /\ readerAt[s] = from
    /\ fifoByteMap' = [fifoByteMap EXCEPT ![usedFifos[s][1]] = 0]
    /\ ReaderGoes(s, to)
    /\ UNCHANGED <<fifoByteMapPosition, connecting, usedFifos, transport, clientAt, sent,
                   jobs, kernel>>

\* ... then, ten seconds later, freeFifo for one index after the other ...
ReaderFrees(s, from, k, to) ==
    /\ readerAt[s] = from
    /\ fifoByteMap' = [fifoByteMap EXCEPT ![usedFifos[s][k]] = 0]
    /\ ReaderGoes(s, to)
    /\ UNCHANGED <<fifoByteMapPosition, connecting, usedFifos, transport, clientAt, sent,
                   jobs, kernel>>

\* ... and only then pipe.close().
ReaderCloses(s) ==
    /\ readerAt[s] = "close"
    /\ ReaderGoes(s, "ended")
    /\ serverOpen' = serverOpen \ {s}
    /\ fifo' = Kept(serverOpen', clientOpen)
    /\ UNCHANGED <<poolVars, clientAt, sent, jobs, clientOpen>>

ReaderStep(s) == \/ ReaderReads(s) \/ ReaderFarewell(s)
                 \/ ReaderFrees(s, "free1", 1, "free2")
                 \/ ReaderFrees(s, "free2", 2, "close")
                 \/ ReaderCloses(s)

-----------------------------------------------------------------------------
Next ==
    \/ ConnectSecond
    \/ \E s \in Sessions :
         \/ ConnectTcp(s) \/ ConnectFirst(s)
         \/ ClientOpens(s) \/ ClientSends(s) \/ ClientReads(s) \/ ClientCloses(s)
         \/ ClientGone(s)
         \/ ReaderStep(s)
         \/ \E o \in Sessions : WorkerAnswers(s, o)

Spec == Init /\ [][Next]_vars

\* The server's threads are scheduled; clients may do nothing for ever.
FairSpec == /\ Spec
            /\ WF_vars(ConnectSecond)
            /\ \A s \in Sessions : WF_vars(ReaderStep(s))

-----------------------------------------------------------------------------
(* Properties                                                              *)

\* Sessions between the allocation of their FIFOs and the release of FIFO k.
Owns(s, k) == /\ Len(usedFifos[s]) >= k
              /\ readerAt[s] \in {"none", "reading", "farewell", "free1"}
                                   \cup (IF k = 2 THEN {"free2"} ELSE {})

\* Every variable stays in its domain (PipeServer, RequestReader, the FIFOs).
TypeOK ==
    /\ fifoByteMap \in [Fifos -> {0, 1}] /\ fifoByteMapPosition \in Nat
    /\ connecting \in Sessions \cup {NoSession}
    /\ usedFifos \in [Sessions -> Seq(Fifos)]
    /\ \A s \in Sessions : Len(usedFifos[s]) <= 2
    /\ transport \in [Sessions -> {"none", "tcp", "fifo"}]
    /\ readerAt \in [Sessions -> {"none", "reading", "farewell", "free1", "free2", "close",
                                  "ended"}]
    /\ clientAt \in [Sessions -> {"none", "told", "open", "closing", "stopped", "gone"}]
    /\ sent \in [Sessions -> 0..MaxRequests]
    /\ jobs \subseteq Sessions \X Sessions
    /\ serverOpen \subseteq Sessions /\ clientOpen \subseteq Sessions
    /\ fifo \in [Fifos -> Seq(Messages)]
    /\ \A f \in Fifos : Len(fifo[f]) <= FifoCap

\* A FIFO belongs to at most one session, in one direction, and the byte map
\* says so: getFreeFifo and the freeFifo calls of other sessions' readers never
\* hand out or release a FIFO in use.
ExclusiveFifos ==
    \A s, t \in Sessions, k, l \in 1..2 :
        /\ Owns(s, k) => fifoByteMap[usedFifos[s][k]] = 1
        /\ Owns(s, k) /\ Owns(t, l) /\ usedFifos[s][k] = usedFifos[t][l]
             => s = t /\ k = l

\* The END-OF-STREAM of a closing client leads the server to reclaim its FIFOs
\* (PipeClient.java:50-51, "so notify the server to reclaim the pipe").
PipeReclaimed ==
    \A s \in Sessions : clientAt[s] = "closing" ~> readerAt[s] = "ended"

\* Pipe.java:39: read() returns the message "that was sent by the remote
\* end-point": what waits for a client or a RequestReader is of its own session.
FromRemoteEndpoint ==
    \A s \in Sessions :
        /\ clientAt[s] = "open" /\ fifo[ResponseFifo(s)] # <<>>
             => Head(fifo[ResponseFifo(s)]).of = s
        /\ readerAt[s] = "reading" /\ fifo[RequestFifo(s)] # <<>>
             => Head(fifo[RequestFifo(s)]).of = s
=============================================================================
