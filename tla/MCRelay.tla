------------------------------- MODULE MCRelay -------------------------------
(* An instance of RelayStreams for TLC. *)
EXTENDS RelayStreams

\* Four bytes fill the window and a buffer of two, and leave one to be read; three fill both.
MCMaxBytes == [d \in {"request", "response"} |-> IF d = "request" THEN 4 ELSE 3]
=============================================================================
