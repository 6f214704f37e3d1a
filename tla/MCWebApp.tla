------------------------------- MODULE MCWebApp -------------------------------
(* Instances of WebApp for TLC. *)
EXTENDS WebApp

CONSTANTS u1, u2

TwoUrls == {u1, u2}
=============================================================================
