--------------------------- MODULE ApprovedWrite ---------------------------
(***************************************************************************)
(* What the server promises of a call of a write tool, to the client that  *)
(* reads its answer and to the operator who reads the audit log: nothing   *)
(* is written unless the call was approved (a valid payload, confirm_write *)
(* set, no dry run, the tool's group allowed), nothing is written twice,   *)
(* and neither the answer nor the log claims a write that did not happen   *)
(* or denies one that did.  WriteTools implements this specification.      *)
(***************************************************************************)
CONSTANT Calls

VARIABLES approved,   \* the calls that may write
          effects,    \* how often each call's write took effect upstream
          answer,     \* what each call was answered
          ledger      \* the outcome the audit log gives each call

vars == <<approved, effects, answer, ledger>>

Wrote == {"applied", "unverified"}
WroteNot == {"preview", "rejected"}
Answers == Wrote \cup WroteNot \cup {"failed"}
LedgerWrote == {"success"}
LedgerWroteNot == {"rejected", "previewed"}
Ledgers == LedgerWrote \cup LedgerWroteNot \cup {"none", "failed"}

Init ==
    /\ approved \in SUBSET Calls
    /\ effects = [c \in Calls |-> 0]
    /\ answer = [c \in Calls |-> "none"]
    /\ ledger = [c \in Calls |-> "none"]

TakeEffect(c) ==
    /\ c \in approved
    /\ answer[c] = "none"
    /\ effects[c] = 0
    /\ effects' = [effects EXCEPT ![c] = 1]
    /\ UNCHANGED <<approved, answer, ledger>>

Close(c, a, l) ==
    /\ answer[c] = "none"
    /\ a \in Wrote \/ l \in LedgerWrote => effects[c] = 1
    /\ a \in WroteNot \/ l \in LedgerWroteNot => effects[c] = 0
    /\ answer' = [answer EXCEPT ![c] = a]
    /\ ledger' = [ledger EXCEPT ![c] = l]
    /\ UNCHANGED <<approved, effects>>

Next == \E c \in Calls :
    \/ TakeEffect(c)
    \/ \E a \in Answers, l \in Ledgers : Close(c, a, l)

Spec == Init /\ [][Next]_vars
=============================================================================
