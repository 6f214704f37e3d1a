----------------------------- MODULE MCFifoPool -----------------------------
(* Instances of FifoPool for TLC. *)
EXTENDS FifoPoolAllocator

CONSTANTS s1, s2

TwoSessions == {s1, s2}
=============================================================================
