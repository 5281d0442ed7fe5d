---------------------------- MODULE MCWriteTools ----------------------------
(* WriteTools for TLC: the default allowlist, under which the preset        *)
(* decides, and one an operator may configure.                              *)
EXTENDS WriteTools, TLC

Allowlists == {Groups, ReadGroups \cup {"connector"}}
Symmetry == Permutations(Calls)
=============================================================================
