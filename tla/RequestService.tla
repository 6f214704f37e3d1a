--------------------------- MODULE RequestService ---------------------------
(***************************************************************************)
(* What the server promises the clients that reach it, without pipes,      *)
(* threads or a pool: a request is accepted or refused, once; what was     *)
(* accepted is answered or fails, once; and the server does not stop with  *)
(* accepted requests.                                                      *)
(***************************************************************************)
CONSTANTS Requests

VARIABLES
    issued,      \* requests the clients have sent so far
    pending,     \* on their way
    accepted,    \* requests the server has to deal with
    answered, failed,
    running      \* the server has not stopped

vars == <<issued, pending, accepted, answered, failed, running>>

Init ==
    /\ issued = {} /\ pending = {} /\ accepted = {} /\ answered = {} /\ failed = {}
    /\ running = TRUE

\* What was sent once is never sent again, whatever became of it.
Send(r) ==
    /\ r \notin issued
    /\ issued' = issued \cup {r}
    /\ pending' = pending \cup {r}
    /\ UNCHANGED <<accepted, answered, failed, running>>

Accept(r) ==
    /\ running /\ r \in pending
    /\ pending' = pending \ {r}
    /\ accepted' = accepted \cup {r}
    /\ UNCHANGED <<issued, answered, failed, running>>

\* The answer is an exception.
Refuse(r) ==
    /\ running /\ r \in pending
    /\ pending' = pending \ {r}
    /\ answered' = answered \cup {r}
    /\ UNCHANGED <<issued, accepted, failed, running>>

Answer(r) ==
    /\ running /\ r \in accepted
    /\ accepted' = accepted \ {r}
    /\ answered' = answered \cup {r}
    /\ UNCHANGED <<issued, pending, failed, running>>

Fail(r) ==
    /\ running /\ r \in accepted
    /\ accepted' = accepted \ {r}
    /\ failed' = failed \cup {r}
    /\ UNCHANGED <<issued, pending, answered, running>>

\* The connection of these requests is gone.
Drop ==
    /\ pending' \in SUBSET pending
    /\ UNCHANGED <<issued, accepted, answered, failed, running>>

Stop ==
    /\ running /\ accepted = {}
    /\ running' = FALSE
    /\ pending' \in SUBSET pending
    /\ UNCHANGED <<issued, accepted, answered, failed>>

Next ==
    \/ \E r \in Requests : Send(r) \/ Accept(r) \/ Refuse(r) \/ Answer(r) \/ Fail(r)
    \/ Drop \/ Stop

Spec == Init /\ [][Next]_vars
=============================================================================
