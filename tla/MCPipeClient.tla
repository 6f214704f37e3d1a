---------------------------- MODULE MCPipeClient ----------------------------
(* Instances of PipeClient for TLC. *)
EXTENDS PipeClientRpc, TLC

CONSTANTS c1, c2, u1

OneCaller  == {c1}
TwoCallers == {c1, c2}
NoCallers  == {}
OneCloser  == {u1}
=============================================================================
