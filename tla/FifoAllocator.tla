---------------------------- MODULE FifoAllocator ----------------------------
(***************************************************************************)
(* What the byte map of PipeServer is for, without a map, a position or    *)
(* RequestReaders: a FIFO is granted to one session at a time, a session   *)
(* has two of them at most and gives each one back once.  The only FIFOs   *)
(* that never come back are those of sessions that were granted one when   *)
(* there was no second.                                                    *)
(***************************************************************************)
CONSTANTS Sessions, Fifos

VARIABLES
    held,    \* <<s, f>>: session s has FIFO f
    lost     \* FIFOs that nobody has and nobody is granted any more

vars == <<held, lost>>

Of(s) == {f \in Fifos : <<s, f>> \in held}
Free  == {f \in Fifos \ lost : \A s \in Sessions : <<s, f>> \notin held}

Init == held = {} /\ lost = {}

Grant(s, f) ==
    /\ f \in Free
    /\ \E g \in Fifos : Of(s) \subseteq {g}
    /\ held' = held \cup {<<s, f>>}
    /\ UNCHANGED lost

GiveBack(s, f) ==
    /\ <<s, f>> \in held
    /\ held' = held \ {<<s, f>>}
    /\ UNCHANGED lost

\* The session falls back to TCP, for want of a second FIFO.
Forget(s, f) ==
    /\ Free = {} /\ Of(s) = {f}
    /\ held' = held \ {<<s, f>>}
    /\ lost' = lost \cup {f}

Next == \E s \in Sessions, f \in Fifos : Grant(s, f) \/ GiveBack(s, f) \/ Forget(s, f)

Spec == Init /\ [][Next]_vars
=============================================================================
