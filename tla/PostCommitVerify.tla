-------------------------- MODULE PostCommitVerify --------------------------
(***************************************************************************)
(* The post-commit verifiers of alter_input, alter_integration_table and   *)
(* configure_topic (src/src/faircom_mcp/server.py): after the upstream has *)
(* acknowledged the write, the record is described again and again until   *)
(* the requested fields are seen to hold, or six seconds are over.         *)
(*                                                                         *)
(* The upstream is external.  It acknowledges writes it applies later, in  *)
(* part or not at all; it serves several writers of one record; and what   *)
(* it describes may be the record, with or without some of its fields, or  *)
(* a reply in which the verifier finds no record and takes the envelope    *)
(* for one.  Values stand for classes of what _coerce_comparable equates.  *)
(* Scalars are compared by value; Columns, the members of a list (table    *)
(* fields, transform steps, and a table's new name) by being there.        *)
(***************************************************************************)
EXTENDS Naturals, Sequences, FiniteSets

CONSTANTS
    Calls,      \* concurrent calls, all about the same record
    Tools,      \* the tools they may be of
    Scalars,
    Columns,
    Values,     \* what a scalar may hold
    Payloads,   \* what a call may ask for: functions from fields to values
    Replies,    \* the kinds of description the upstream may give
    MaxPolls    \* bound: descriptions that fit before the deadline

VerifyingTools == {"alter_input", "alter_integration_table", "configure_topic"}
ReplyKinds == {"record", "stray", "envelope", "empty"}

Fields == Scalars \cup Columns
Absent == "absent"
Present == "present"
FieldValues(f) == IF f \in Scalars THEN Values ELSE {Absent, Present}

ASSUME ToolsAssumption == Tools \subseteq VerifyingTools
ASSUME FieldsAssumption == Scalars \cap Columns = {}
ASSUME PayloadsAssumption == \A w \in Payloads :
    DOMAIN w \subseteq Fields /\ \A f \in DOMAIN w : w[f] \in FieldValues(f)
ASSUME RepliesAssumption == Replies \subseteq ReplyKinds
ASSUME PollsAssumption == MaxPolls \in Nat \ {0}

VARIABLES
    record,    \* the upstream's record
    tool,      \* the tool of each call
    want,      \* want[c]: the fields c asks for, each with its value
    pending,   \* pending[c]: acknowledged fields the upstream has yet to apply
    pc,        \* where each call is
    view,      \* matching_record, until it has been compared
    polls,     \* attempt_count
    verified,  \* verified_fields of a verified call
    verdict,   \* the verification's status, or the way it failed
    held,      \* history: requested fields that held since the acknowledgement
    shown      \* history: the calls one of whose descriptions agreed

upstream == <<record, pending>>
job == <<tool, want>>
history == <<held, shown>>
vars == <<upstream, job, pc, view, polls, verified, verdict, history>>

None == << >>       \* no matching_record

\* The fields a tool verifies: only tables have list members.
Verifiable(t) == IF t = "alter_integration_table" THEN Fields ELSE Scalars

Wants(t) == {w \in Payloads : DOMAIN w \subseteq Verifiable(t)}

Init ==
    /\ record \in [Fields -> Values \cup {Absent, Present}]
    /\ \A f \in Fields : record[f] \in FieldValues(f)
    /\ tool \in [Calls -> Tools]
    /\ want \in [Calls -> Payloads]
    /\ \A c \in Calls : want[c] \in Wants(tool[c])
    /\ pending = [c \in Calls |-> {}]
    /\ pc = [c \in Calls |-> "write"]
    /\ view = [c \in Calls |-> None]
    /\ polls = [c \in Calls |-> 0]
    /\ verified = [c \in Calls |-> {}]
    /\ verdict = [c \in Calls |-> "none"]
    /\ held = [c \in Calls |-> {}]
    /\ shown = {}

Conclude(c, v) ==
    /\ verdict' = [verdict EXCEPT ![c] = v]
    /\ pc' = [pc EXCEPT ![c] = "done"]

\* The history of held goes on with the record as it is after the step.
Witness == held' =
    [c \in Calls |-> IF pc'[c] = "write" THEN {}
                     ELSE held[c] \cup {f \in DOMAIN want[c] : record'[f] = want[c][f]}]
----------------------------------------------------------------------------
\* The write is acknowledged; some of it will be applied.  A payload with no
\* verifiable field is not verified at all.
Acknowledge(c) ==
    /\ pc[c] = "write"
    /\ \E fs \in SUBSET DOMAIN want[c] : pending' = [pending EXCEPT ![c] = fs]
    /\ IF DOMAIN want[c] = {}
       THEN Conclude(c, "skipped")
       ELSE pc' = [pc EXCEPT ![c] = "describe"] /\ UNCHANGED verdict
    /\ UNCHANGED <<record, job, view, polls, verified, shown>>
    /\ Witness

\* External: the upstream applies a field it has acknowledged.
Apply(c, f) ==
    /\ f \in pending[c]
    /\ record' = [record EXCEPT ![f] = want[c][f]]
    /\ pending' = [pending EXCEPT ![c] = @ \ {f}]
    /\ UNCHANGED <<job, pc, view, polls, verified, verdict, shown>>
    /\ Witness
----------------------------------------------------------------------------
\* What _extract_..._records and the choice of matching_record make of a reply:
\* the record of that name, with some of its scalars; for want of one, the
\* first record there is; the reply itself when it holds no list of records;
\* nothing when the reply is an empty list.
Views ==
    (IF "record" \in Replies
     THEN {[f \in fs \cup {k \in Columns : record[k] = Present} |-> record[f]] :
              fs \in SUBSET Scalars}
     ELSE {})
    \cup (IF "stray" \in Replies THEN [Scalars -> Values] ELSE {})
    \cup (IF "envelope" \in Replies THEN {[f \in {} |-> Absent]} ELSE {})

\* The fields the verifier compares in a view, and those it finds different.
\* A scalar that is not shown is passed over; a list member that is not shown
\* is one that is not there.
Comparable(c, v) == DOMAIN want[c] \cap DOMAIN v \cap Scalars

Mismatches(c, v) ==
    {f \in Comparable(c, v) : v[f] # want[c][f]}
    \cup {f \in DOMAIN want[c] \cap Columns :
            (f \in DOMAIN v) # (want[c][f] = Present)}

\* Mutant of Agrees: alter_input and configure_topic take the table's test.
AgreesByMismatch(c, v) == Mismatches(c, v) = {}

\* The test for "verified": the table's verifier asks only for no mismatch, the
\* other two also for a field they could compare.
Agrees(c, v) ==
    /\ Mismatches(c, v) = {}
    /\ tool[c] # "alter_integration_table" => Comparable(c, v) # {}

\* The record is described: the reply is what the upstream held at that moment.
Describe(c) ==
    /\ pc[c] = "describe"
    /\ polls' = [polls EXCEPT ![c] = @ + 1]
    /\ pc' = [pc EXCEPT ![c] = "compare"]
    /\ \/ \E v \in Views :
             /\ view' = [view EXCEPT ![c] = <<v>>]
             /\ shown' = IF Agrees(c, v) THEN shown \cup {c} ELSE shown
       \/ /\ "empty" \in Replies
          /\ view' = [view EXCEPT ![c] = None]
          /\ UNCHANGED shown
    /\ UNCHANGED <<upstream, job, verified, verdict>>
    /\ Witness

\* The describe action raises, and its error leaves the verifier.
DescribeFails(c) ==
    /\ pc[c] = "describe"
    /\ Conclude(c, "error")
    /\ UNCHANGED <<upstream, job, view, polls, verified, shown>>
    /\ Witness

\* Mutant of Compare: the deadline is looked at before the record is.
DeadlineFirst(c) ==
    /\ pc[c] = "compare"
    /\ \/ /\ Conclude(c, "timeout")
          /\ UNCHANGED verified
       \/ /\ polls[c] < MaxPolls
          /\ view[c] # None /\ Agrees(c, Head(view[c]))
          /\ verified' = [verified EXCEPT ![c] = Comparable(c, Head(view[c]))]
          /\ Conclude(c, "verified")
       \/ /\ polls[c] < MaxPolls
          /\ view[c] # None => ~Agrees(c, Head(view[c]))
          /\ pc' = [pc EXCEPT ![c] = "describe"]
          /\ UNCHANGED <<verdict, verified>>
    /\ view' = [view EXCEPT ![c] = None]
    /\ UNCHANGED <<upstream, job, polls, shown>>
    /\ Witness

\* Mutant of PollAgain: the deadline is set anew for each attempt.
PollForEver(c) ==
    /\ polls' = [polls EXCEPT ![c] = 0]
    /\ pc' = [pc EXCEPT ![c] = "describe"]
    /\ UNCHANGED verdict

\* Mutant of PollAgain: attempt_count counts on, the deadline is never checked.
PollPastDeadline(c) ==
    /\ pc' = [pc EXCEPT ![c] = "describe"]
    /\ UNCHANGED <<verdict, polls>>

\* The deadline is looked at: it may have passed after any attempt, and has
\* passed after MaxPolls of them.
PollAgain(c) ==
    /\ \/ Conclude(c, "timeout")
       \/ /\ polls[c] < MaxPolls
          /\ pc' = [pc EXCEPT ![c] = "describe"]
          /\ UNCHANGED verdict
    /\ UNCHANGED polls

\* The description is compared with the request, and only then with the clock.
Compare(c) ==
    /\ pc[c] = "compare"
    /\ \/ /\ view[c] # None /\ Agrees(c, Head(view[c]))
          /\ verified' = [verified EXCEPT ![c] = Comparable(c, Head(view[c]))]
          /\ Conclude(c, "verified")
          /\ UNCHANGED polls
       \/ /\ view[c] # None => ~Agrees(c, Head(view[c]))
          /\ PollAgain(c)
          /\ UNCHANGED verified
    /\ view' = [view EXCEPT ![c] = None]
    /\ UNCHANGED <<upstream, job, shown>>
    /\ Witness
----------------------------------------------------------------------------
Step(c) == Acknowledge(c) \/ Describe(c) \/ DescribeFails(c) \/ Compare(c)

Quiescent ==
    /\ \A c \in Calls : pc[c] = "done" /\ pending[c] = {}
    /\ UNCHANGED vars

Next ==
    \/ \E c \in Calls : Step(c) \/ \E f \in pending[c] : Apply(c, f)
    \/ Quiescent

Spec == Init /\ [][Next]_vars

\* The tools' threads keep running and json_action returns; the upstream may
\* leave a write pending for ever.
FairSpec == Spec /\ \A c \in Calls : WF_vars(Step(c))
----------------------------------------------------------------------------
Verdicts == {"none", "skipped", "verified", "timeout", "error"}

TypeOK ==
    /\ \A f \in Fields : record[f] \in FieldValues(f)
    /\ \A c \in Calls :
        /\ tool[c] \in Tools /\ want[c] \in Wants(tool[c])
        /\ pending[c] \subseteq DOMAIN want[c]
        /\ verified[c] \subseteq DOMAIN want[c]
        /\ held[c] \subseteq DOMAIN want[c]
    /\ pc \in [Calls -> {"write", "describe", "compare", "done"}]
    /\ polls \in [Calls -> 0..MaxPolls]
    /\ verdict \in [Calls -> Verdicts]
    /\ shown \subseteq Calls

\* "verified" is never said of nothing: alter_input and configure_topic then
\* name at least one field, and every field they name did hold upstream at some
\* moment after the write was acknowledged, whoever else was writing the
\* record, and however much the upstream had left to apply.
Truthful(c) ==
    verdict[c] = "verified" => verified[c] # {} /\ verified[c] \subseteq held[c]

VerifiedWasTrue ==
    \A c \in Calls : tool[c] # "alter_integration_table" => Truthful(c)

\* README: alter_integration_table reports mutation_applied "because FairCom
\* can return success while silently not applying some field or transform-step
\* changes": a verified call had every requested field applied at some moment.
TableVerifiedWasTrue ==
    \A c \in Calls : tool[c] = "alter_integration_table" =>
        (verdict[c] = "verified" => held[c] = DOMAIN want[c])

\* A write that a read-back has shown is never reported as timed out, not even
\* by the attempt that ends at the deadline.
ShownIsNotTimedOut == \A c \in shown : verdict[c] # "timeout"

\* Every verification ends, though the upstream never applies the write.
VerificationEnds == \A c \in Calls : <>(pc[c] = "done")
=============================================================================
