-------------------------- MODULE MCSessionClient --------------------------
(* SessionClient for TLC: two threads sharing one client, two calls each.   *)
EXTENDS SessionClient
=============================================================================
