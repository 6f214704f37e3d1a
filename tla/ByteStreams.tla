----------------------------- MODULE ByteStreams -----------------------------
(***************************************************************************)
(* What a relay between two sockets promises, without buffers, windows, a  *)
(* selector or a thread: each direction delivers what was sent, in order,  *)
(* without gaps or repetitions, as far as it delivers; and the connection  *)
(* is closed only after one side has ended or the relay was told to stop.  *)
(***************************************************************************)
EXTENDS Naturals, Sequences

CONSTANTS Directions

VARIABLES
    sent,      \* per direction: bytes sent so far, numbered from 1
    got,       \* per direction: what has been delivered
    ended,     \* per direction: its source sends no more
    told, closed

vars == <<sent, got, ended, told, closed>>

Init ==
    /\ sent = [d \in Directions |-> 0]
    /\ got = [d \in Directions |-> <<>>]
    /\ ended = [d \in Directions |-> FALSE]
    /\ told = FALSE /\ closed = FALSE

Send(d) ==
    /\ ~ended[d] /\ ~closed
    /\ sent' = [sent EXCEPT ![d] = @ + 1]
    /\ UNCHANGED <<got, ended, told, closed>>

\* The next byte; what was under way when the connection closed may still arrive.
Deliver(d) ==
    /\ Len(got[d]) < sent[d]
    /\ got' = [got EXCEPT ![d] = Append(@, Len(got[d]) + 1)]
    /\ UNCHANGED <<sent, ended, told, closed>>

End(d) ==
    /\ ended' = [ended EXCEPT ![d] = TRUE]
    /\ UNCHANGED <<sent, got, told, closed>>

Tell ==
    /\ told' = TRUE
    /\ UNCHANGED <<sent, got, ended, closed>>

Close ==
    /\ told \/ \E d \in Directions : ended[d]
    /\ closed' = TRUE
    /\ UNCHANGED <<sent, got, ended, told>>

Next == Tell \/ Close \/ \E d \in Directions : Send(d) \/ Deliver(d) \/ End(d)

Spec == Init /\ [][Next]_vars
=============================================================================
