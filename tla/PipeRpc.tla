------------------------------- MODULE PipeRpc -------------------------------
(***************************************************************************)
(* What PipeClient.sendRequest() promises its callers, without queues,     *)
(* threads, Messages or a pipe: a request is executed at most once, by a   *)
(* server that may be slow, or never; a call returns the answer to its own *)
(* request or throws; an answer that comes too late is for nobody.         *)
(***************************************************************************)
EXTENDS Naturals

CONSTANTS Callers, MaxMsgId

Nothing == 0

VARIABLES
    issued,      \* requests issued so far, numbered from 1
    request,     \* per caller: the request its call waits for
    result,      \* per caller: the request whose answer the call is about to return
    pending,     \* requests on their way
    executing,   \* requests the server has
    answers      \* requests answered

vars == <<issued, request, result, pending, executing, answers>>

Init ==
    /\ issued = 0
    /\ request = [c \in Callers |-> Nothing]
    /\ result = [c \in Callers |-> Nothing]
    /\ pending = {} /\ executing = {} /\ answers = {}

Call(c) ==
    /\ request[c] = Nothing /\ issued < MaxMsgId
    /\ issued' = issued + 1
    /\ request' = [request EXCEPT ![c] = issued']
    /\ pending' = pending \cup {issued'}
    /\ UNCHANGED <<result, executing, answers>>

Execute(i) ==
    /\ i \in pending
    /\ pending' = pending \ {i}
    /\ executing' = executing \cup {i}
    /\ UNCHANGED <<issued, request, result, answers>>

Answer(i) ==
    /\ i \in executing
    /\ executing' = executing \ {i}
    /\ answers' = answers \cup {i}
    /\ UNCHANGED <<issued, request, result, pending>>

Deliver(c) ==
    /\ request[c] \in answers /\ result[c] = Nothing
    /\ result' = [result EXCEPT ![c] = request[c]]
    /\ UNCHANGED <<issued, request, pending, executing, answers>>

\* The call returns its result, or throws; its request may still be on its way.
End(c) ==
    /\ request[c] # Nothing
    /\ request' = [request EXCEPT ![c] = Nothing]
    /\ result' = [result EXCEPT ![c] = Nothing]
    /\ pending' \in {pending, pending \ {request[c]}}
    /\ UNCHANGED <<issued, executing, answers>>

\* Broken pipes, stopped threads and callers who gave up.
Lose(i) ==
    /\ \/ pending' = pending \ {i} /\ UNCHANGED answers
       \/ answers' = answers \ {i} /\ UNCHANGED pending
    /\ UNCHANGED <<issued, request, result, executing>>

Next ==
    \/ \E c \in Callers : Call(c) \/ Deliver(c) \/ End(c)
    \/ \E i \in 1..MaxMsgId : Execute(i) \/ Answer(i) \/ Lose(i)

Spec == Init /\ [][Next]_vars
=============================================================================
