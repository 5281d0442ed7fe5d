----------------------------- MODULE ActionCall -----------------------------
(***************************************************************************)
(* What a caller of FaircomAPIClient.json_action is promised, whatever the *)
(* client does with sessions behind its back: between the call and its     *)
(* return the action takes effect upstream at most once; a call that       *)
(* returns a result took effect; a call that fails because no session      *)
(* could be had, or because the upstream refused the session, did not.     *)
(* Any other failure (a timeout, an upstream error) leaves the caller      *)
(* ignorant.  SessionClient implements this specification.                 *)
(***************************************************************************)
CONSTANT Callers

VARIABLES phase,     \* phase[c]: whether c has a call under way
          effects,   \* effects[c]: how often its latest call took effect
          outcome    \* outcome[c]: what its latest call returned

vars == <<phase, effects, outcome>>

Outcomes == {"ok", "failed", "refused"}

TypeOK ==
    /\ phase \in [Callers -> {"idle", "calling"}]
    /\ effects \in [Callers -> {0, 1}]
    /\ outcome \in [Callers -> Outcomes \cup {"none"}]

Init ==
    /\ phase = [c \in Callers |-> "idle"]
    /\ effects = [c \in Callers |-> 0]
    /\ outcome = [c \in Callers |-> "none"]

Call(c) ==
    /\ phase[c] = "idle"
    /\ phase' = [phase EXCEPT ![c] = "calling"]
    /\ effects' = [effects EXCEPT ![c] = 0]
    /\ outcome' = [outcome EXCEPT ![c] = "none"]

TakeEffect(c) ==
    /\ phase[c] = "calling"
    /\ effects[c] = 0
    /\ effects' = [effects EXCEPT ![c] = 1]
    /\ UNCHANGED <<phase, outcome>>

Return(c, o) ==
    /\ phase[c] = "calling"
    /\ o = "ok" => effects[c] = 1
    /\ o = "refused" => effects[c] = 0
    /\ phase' = [phase EXCEPT ![c] = "idle"]
    /\ outcome' = [outcome EXCEPT ![c] = o]
    /\ UNCHANGED effects

Next == \E c \in Callers :
    \/ Call(c)
    \/ TakeEffect(c)
    \/ \E o \in Outcomes : Return(c, o)

Spec == Init /\ [][Next]_vars
=============================================================================
