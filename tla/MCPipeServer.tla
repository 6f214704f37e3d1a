---------------------------- MODULE MCPipeServer ----------------------------
(* Instances of PipeServer for TLC: all its constants are numbers.         *)
EXTENDS PipeServerService

\* A server with two clients and nobody to shut it down.  Client 1 uses TCP or FIFOs, sends up
\* to MaxRequests, and may close or go away at any time, its answers unread.  Client 2 sends one
\* request over TCP and stays.
Serving ==
    \/ \E kind \in {"tcp", "fifo"} : Connect(1, kind)
    \/ Connect(2, "tcp")
    \/ \E s \in {1, 2} : ReaderStep(s) \/ ClientReads(s)
    \/ ClientSends(1) \/ ClientCloses(1) \/ ClientGone(1)
    \/ sent[2] = 0 /\ ClientSends(2)
    \/ \E w \in Workers : WorkerStep(w)

ServingSpec == Init /\ [][Serving]_vars /\ Fairness
=============================================================================
