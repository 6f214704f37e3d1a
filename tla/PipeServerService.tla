-------------------------- MODULE PipeServerService --------------------------
(* The accept loop, RequestReaders and pool threads implement RequestService. *)
EXTENDS PipeServer

\* Where a request can be, from its client's write to its answer.
Members(q) == {q[k] : k \in 1..Len(q)}

Issued   == {r \in Requests : r[2] <= sent[r[1]]}
Piped    == {r \in Requests : r[2] \in Members(toServer[r[1]])}
Held     == {r \in Requests : InHand(r)}
Queuing  == Members(queue)
Busy     == {task[w] : w \in Workers} \ {NoTask}
Answered == {r \in Requests : answers[r] > 0}

\* RequestService's view of that.
Pending  == Piped \cup Held
Accepted == Queuing \cup Busy
Running  == acceptAt # "exited"

Service == INSTANCE RequestService WITH
    issued <- Issued, pending <- Pending, accepted <- Accepted,
    answered <- Answered, failed <- logged, running <- Running

\* The classes of net.kwami.pipe.server do what a service promises: whatever the clients,
\* SHUTDOWN and the end of main() do, a request is accepted or refused once, what was
\* accepted is answered or fails once, and the process does not end before that
\* (RequestReader.java 31-92, MyThreadPoolExecutor.java 21-42, PipeServer.java 37-44).
ImplementsService == Service!Spec
=============================================================================
