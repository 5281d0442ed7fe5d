---------------------------- MODULE MCReadiness ----------------------------
(* Readiness for TLC: two requests, one of which may meet what the other left. *)
EXTENDS Readiness
=============================================================================
