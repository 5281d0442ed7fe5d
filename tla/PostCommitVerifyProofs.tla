----------------------- MODULE PostCommitVerifyProofs -----------------------
(***************************************************************************)
(* Theorems about PostCommitVerify, for any calls, fields, values, payloads*)
(* and replies, and any number of descriptions before the deadline.        *)
(***************************************************************************)
EXTENDS PostCommitVerify, TLAPS

\* What TypeOK leaves out: the domains of the variables it looks up.
Domains ==
    /\ record = [f \in Fields |-> record[f]]
    /\ pending = [c \in Calls |-> pending[c]]
    /\ view = [c \in Calls |-> view[c]]
    /\ verified = [c \in Calls |-> verified[c]]

\* The description a call is about to compare agrees with its request.
Shows(c) == view[c] # None /\ Agrees(c, Head(view[c]))

\* A call describes the record only before the deadline and has no verdict before
\* it is done; one whose description agreed is about to compare it, or is done and
\* not timed out.
ProgressInv(c) ==
    /\ pc[c] \in {"write", "describe"} => polls[c] < MaxPolls
    /\ pc[c] # "done" => verdict[c] = "none"
    /\ c \in shown => \/ pc[c] = "compare" /\ Shows(c)
                      \/ pc[c] = "done" /\ verdict[c] # "timeout"

\* What a description that agrees has shown did hold, and so did what was verified.
TruthInv(c) ==
    tool[c] # "alter_integration_table" =>
        /\ pc[c] = "compare" /\ Shows(c) => Comparable(c, Head(view[c])) \subseteq held[c]
        /\ Truthful(c)

IInv == TypeOK /\ Domains /\ \A c \in Calls : ProgressInv(c)
----------------------------------------------------------------------------
LEMMA InitIInv == Init => IInv
<1> SUFFICES ASSUME Init PROVE IInv
  OBVIOUS
<1>1. TypeOK
  <2>1. \A f \in Fields : record[f] \in FieldValues(f)
    BY DEF Init
  <2>2. \A c \in Calls : /\ tool[c] \in Tools /\ want[c] \in Wants(tool[c])
                         /\ pending[c] \subseteq DOMAIN want[c]
                         /\ verified[c] \subseteq DOMAIN want[c]
                         /\ held[c] \subseteq DOMAIN want[c]
    BY DEF Init
  <2>3. pc \in [Calls -> {"write", "describe", "compare", "done"}]
    BY DEF Init
  <2>4. polls \in [Calls -> 0..MaxPolls]
    BY PollsAssumption DEF Init
  <2>5. verdict \in [Calls -> Verdicts]
    BY DEF Init, Verdicts
  <2>6. shown \subseteq Calls
    BY DEF Init
  <2>7. QED
    BY <2>1, <2>2, <2>3, <2>4, <2>5, <2>6 DEF TypeOK
<1>2. Domains
  BY DEF Init, Domains
<1>3. \A c \in Calls : ProgressInv(c)
  BY PollsAssumption DEF Init, ProgressInv
<1>4. QED
  BY <1>1, <1>2, <1>3 DEF IInv

\* The history of one call: it stays within the request, and from the
\* acknowledgement on it grows and takes in what the record holds.
LEMMA HeldGrows ==
  ASSUME Witness, NEW d \in Calls, held[d] \subseteq DOMAIN want[d], want' = want
  PROVE  /\ held'[d] \subseteq DOMAIN want[d]
         /\ pc'[d] # "write" =>
              /\ held[d] \subseteq held'[d]
              /\ \A f \in DOMAIN want[d] : record'[f] = want[d][f] => f \in held'[d]
  BY DEF Witness

\* A call whose own state is left alone keeps both invariants.
LEMMA Frame ==
  ASSUME NEW d \in Calls, tool' = tool, want' = want, pc'[d] = pc[d],
         view'[d] = view[d], polls'[d] = polls[d], verified'[d] = verified[d], verdict'[d] = verdict[d],
         pc[d] = "write" \/ held[d] \subseteq held'[d],
         d \in shown' <=> d \in shown, ProgressInv(d)
  PROVE  /\ ProgressInv(d)'
         /\ TruthInv(d) => TruthInv(d)'
<1>1. Shows(d)' <=> Shows(d)
  BY DEF Shows, Agrees, Mismatches, Comparable
<1>2. Comparable(d, Head(view[d]))' = Comparable(d, Head(view[d]))
  BY DEF Comparable
<1>3. ProgressInv(d)'
  BY <1>1 DEF ProgressInv
<1>4. ASSUME TruthInv(d) PROVE TruthInv(d)'
  BY <1>1, <1>2, <1>4 DEF TruthInv, Truthful, ProgressInv
<1>5. QED
  BY <1>3, <1>4

\* The types that every step of a call keeps in the same way.
LEMMA StepTypes ==
  ASSUME IInv, Witness, tool' = tool, want' = want,
         \A f \in Fields : record'[f] \in FieldValues(f),
         \A c \in Calls : pending'[c] \subseteq DOMAIN want[c] /\ verified'[c] \subseteq DOMAIN want[c],
         pc' \in [Calls -> {"write", "describe", "compare", "done"}],
         polls' \in [Calls -> 0..MaxPolls],
         verdict' \in [Calls -> Verdicts],
         shown' \subseteq Calls
  PROVE  TypeOK'
<1>1. \A c \in Calls : held'[c] \subseteq DOMAIN want[c]
  BY HeldGrows DEF IInv, TypeOK
<1>2. \A f \in Fields : (record[f] \in FieldValues(f))'
  BY DEF FieldValues
<1>3. \A c \in Calls : (want[c] \in Wants(tool[c]))' /\ (tool[c] \in Tools)'
  BY DEF IInv, TypeOK, Wants, Verifiable
<1>4. QED
  BY <1>1, <1>2, <1>3 DEF TypeOK

LEMMA AcknowledgeIInv ==
  ASSUME IInv, NEW c \in Calls, Acknowledge(c)
  PROVE  IInv' /\ \A d \in Calls : TruthInv(d) => TruthInv(d)'
<1>1. /\ pc[c] = "write" /\ Witness
      /\ tool' = tool /\ want' = want /\ record' = record /\ view' = view
      /\ polls' = polls /\ verified' = verified /\ shown' = shown
  BY DEF Acknowledge, job
<1>2. PICK fs \in SUBSET DOMAIN want[c] : pending' = [pending EXCEPT ![c] = fs]
  BY DEF Acknowledge
<1>3. \/ /\ verdict' = [verdict EXCEPT ![c] = "skipped"]
         /\ pc' = [pc EXCEPT ![c] = "done"]
      \/ pc' = [pc EXCEPT ![c] = "describe"] /\ verdict' = verdict
  BY DEF Acknowledge, Conclude
<1>4. TypeOK'
  <2>1. pc' \in [Calls -> {"write", "describe", "compare", "done"}]
    BY <1>3 DEF IInv, TypeOK
  <2>2. verdict' \in [Calls -> Verdicts]
    BY <1>3 DEF IInv, TypeOK, Verdicts
  <2>3. \A d \in Calls : pending'[d] \subseteq DOMAIN want[d]
    BY <1>2 DEF IInv, TypeOK, Domains
  <2>4. QED
    BY <1>1, <2>1, <2>2, <2>3, StepTypes DEF IInv, TypeOK
<1>5. Domains'
  BY <1>1, <1>2 DEF IInv, Domains
<1>6. ASSUME NEW d \in Calls, d # c PROVE ProgressInv(d)' /\ (TruthInv(d) => TruthInv(d)')
  <2>1. /\ pc'[d] = pc[d] /\ verdict'[d] = verdict[d]
        /\ pc[d] = "write" \/ held[d] \subseteq held'[d]
    BY <1>1, <1>3, <1>6, HeldGrows DEF IInv, TypeOK
  <2>2. QED
    BY <1>1, <2>1, Frame DEF IInv
<1>7. ProgressInv(c)'
  <2>1. c \notin shown
    BY <1>1 DEF IInv, ProgressInv
  <2>2. QED
    BY <1>1, <1>3, <2>1 DEF IInv, TypeOK, ProgressInv
<1>8. TruthInv(c)'
  <2>1. pc'[c] # "compare" /\ verdict'[c] # "verified"
    BY <1>1, <1>3 DEF IInv, TypeOK, ProgressInv
  <2>2. QED
    BY <2>1 DEF TruthInv, Truthful
<1>9. QED
  BY <1>4, <1>5, <1>6, <1>7, <1>8 DEF IInv

LEMMA ApplyIInv ==
  ASSUME IInv, NEW c \in Calls, NEW f \in pending[c], Apply(c, f)
  PROVE  IInv' /\ \A d \in Calls : TruthInv(d) => TruthInv(d)'
<1>1. /\ Witness /\ record' = [record EXCEPT ![f] = want[c][f]]
      /\ pending' = [pending EXCEPT ![c] = @ \ {f}]
      /\ tool' = tool /\ want' = want /\ pc' = pc /\ view' = view
      /\ polls' = polls /\ verified' = verified /\ verdict' = verdict /\ shown' = shown
  BY DEF Apply, job
<1>2. want[c] \in Payloads /\ f \in DOMAIN want[c]
  BY DEF IInv, TypeOK, Wants
<1>3. want[c][f] \in FieldValues(f)
  BY <1>2, PayloadsAssumption
<1>4. \A k \in Fields : record'[k] \in FieldValues(k)
  BY <1>1, <1>3 DEF IInv, TypeOK, Domains
<1>5. \A d \in Calls : pending'[d] \subseteq DOMAIN want[d]
  BY <1>1 DEF IInv, TypeOK, Domains
<1>6. TypeOK'
  BY <1>1, <1>4, <1>5, StepTypes DEF IInv, TypeOK
<1>7. Domains'
  BY <1>1 DEF IInv, Domains
<1>8. ASSUME NEW d \in Calls PROVE ProgressInv(d)' /\ (TruthInv(d) => TruthInv(d)')
  <2>1. pc[d] = "write" \/ held[d] \subseteq held'[d]
    BY <1>1, HeldGrows DEF IInv, TypeOK
  <2>2. QED
    BY <1>1, <2>1, Frame DEF IInv
<1>9. QED
  BY <1>6, <1>7, <1>8 DEF IInv

\* A view without a stray record shows the values the record holds.
LEMMA ViewsShowRecord ==
  ASSUME "stray" \notin Replies, NEW v \in Views
  PROVE  \A f \in DOMAIN v : v[f] = record[f]
  BY DEF Views

LEMMA DescribeIInv ==
  ASSUME IInv, NEW c \in Calls, Describe(c)
  PROVE  /\ IInv'
         /\ "stray" \notin Replies => \A d \in Calls : TruthInv(d) => TruthInv(d)'
<1>1. /\ pc[c] = "describe" /\ Witness /\ pc' = [pc EXCEPT ![c] = "compare"]
      /\ tool' = tool /\ want' = want /\ record' = record /\ pending' = pending
      /\ verified' = verified /\ verdict' = verdict
      /\ polls' = [polls EXCEPT ![c] = @ + 1]
  BY DEF Describe, job, upstream
<1>2. c \notin shown /\ verdict[c] = "none"
  BY <1>1 DEF IInv, ProgressInv
<1>3. \/ \E v \in Views : /\ view' = [view EXCEPT ![c] = <<v>>]
                          /\ shown' = IF Agrees(c, v) THEN shown \cup {c} ELSE shown
      \/ view' = [view EXCEPT ![c] = None] /\ shown' = shown
  BY DEF Describe
<1>4. /\ \/ \E v \in Views : view'[c] = <<v>> /\ (c \in shown' <=> Agrees(c, v))
         \/ view'[c] = None /\ c \notin shown'
      /\ \A d \in Calls \ {c} : view'[d] = view[d] /\ (d \in shown' <=> d \in shown)
      /\ view' = [d \in Calls |-> view'[d]]
      /\ shown' \subseteq Calls
  BY <1>2, <1>3 DEF IInv, TypeOK, Domains
<1>5. TypeOK'
  <2>1. polls' \in [Calls -> 0..MaxPolls]
    BY <1>1, PollsAssumption DEF IInv, TypeOK, ProgressInv
  <2>2. pc' \in [Calls -> {"write", "describe", "compare", "done"}]
    BY <1>1 DEF IInv, TypeOK
  <2>3. QED
    BY <1>1, <1>4, <2>1, <2>2, StepTypes DEF IInv, TypeOK
<1>6. Domains'
  BY <1>1, <1>4 DEF IInv, Domains
<1>7. ASSUME NEW d \in Calls, d # c PROVE ProgressInv(d)' /\ (TruthInv(d) => TruthInv(d)')
  <2>1. /\ pc'[d] = pc[d] /\ polls'[d] = polls[d]
        /\ pc[d] = "write" \/ held[d] \subseteq held'[d]
    BY <1>1, <1>7, HeldGrows DEF IInv, TypeOK
  <2>2. QED
    BY <1>1, <1>4, <1>7, <2>1, Frame DEF IInv
<1>8. ProgressInv(c)'
  <2>1. pc'[c] = "compare" /\ verdict'[c] = "none"
    BY <1>1, <1>2 DEF IInv, TypeOK
  <2>2. c \in shown' => Shows(c)'
    BY <1>1, <1>4 DEF Shows, None, Agrees, Mismatches, Comparable
  <2>3. QED
    BY <2>1, <2>2 DEF ProgressInv
<1>9. ASSUME "stray" \notin Replies PROVE TruthInv(c)'
  <2>1. verdict'[c] # "verified"
    BY <1>1, <1>2
  <2>2. ASSUME Shows(c)', tool[c] # "alter_integration_table"
        PROVE  Comparable(c, Head(view[c]))' \subseteq held'[c]
    <3>1. PICK v \in Views : view'[c] = <<v>>
      BY <1>4, <2>2 DEF Shows, None
    <3>2. \A f \in DOMAIN want[c] \cap DOMAIN v \cap Scalars : record'[f] = want[c][f]
      BY <1>1, <1>9, <2>2, <3>1, ViewsShowRecord DEF Shows, Agrees, Mismatches, Comparable
    <3>3. pc'[c] # "write"
      BY <1>1 DEF IInv, TypeOK
    <3>4. QED
      BY <1>1, <3>1, <3>2, <3>3, HeldGrows DEF IInv, TypeOK, Comparable
  <2>3. QED
    BY <1>1, <2>1, <2>2 DEF TruthInv, Truthful
<1>10. QED
  BY <1>5, <1>6, <1>7, <1>8, <1>9 DEF IInv
LEMMA FailIInv ==
  ASSUME IInv, NEW c \in Calls, DescribeFails(c)
  PROVE  IInv' /\ \A d \in Calls : TruthInv(d) => TruthInv(d)'
<1>1. /\ pc[c] = "describe" /\ Witness
      /\ pc' = [pc EXCEPT ![c] = "done"] /\ verdict' = [verdict EXCEPT ![c] = "error"]
      /\ tool' = tool /\ want' = want /\ record' = record /\ pending' = pending
      /\ view' = view /\ polls' = polls /\ verified' = verified /\ shown' = shown
  BY DEF DescribeFails, Conclude, job, upstream
<1>2. TypeOK'
  <2>1. pc' \in [Calls -> {"write", "describe", "compare", "done"}]
    BY <1>1 DEF IInv, TypeOK
  <2>2. verdict' \in [Calls -> Verdicts]
    BY <1>1 DEF IInv, TypeOK, Verdicts
  <2>3. QED
    BY <1>1, <2>1, <2>2, StepTypes DEF IInv, TypeOK
<1>3. Domains'
  BY <1>1 DEF IInv, Domains
<1>4. ASSUME NEW d \in Calls, d # c PROVE ProgressInv(d)' /\ (TruthInv(d) => TruthInv(d)')
  <2>1. /\ pc'[d] = pc[d] /\ verdict'[d] = verdict[d]
        /\ pc[d] = "write" \/ held[d] \subseteq held'[d]
    BY <1>1, <1>4, HeldGrows DEF IInv, TypeOK
  <2>2. QED
    BY <1>1, <2>1, Frame DEF IInv
<1>5. pc'[c] = "done" /\ verdict'[c] = "error"
  BY <1>1 DEF IInv, TypeOK
<1>6. ProgressInv(c)' /\ TruthInv(c)'
  BY <1>5 DEF ProgressInv, TruthInv, Truthful
<1>7. QED
  BY <1>2, <1>3, <1>4, <1>6 DEF IInv

\* What Compare may do to the call it is about: verify it when the description
\* agrees, else time it out or let it describe again before the deadline.
LEMMA CompareCases ==
  ASSUME IInv, NEW c \in Calls, Compare(c)
  PROVE  /\ pc[c] = "compare" /\ verdict[c] = "none" /\ Witness
         /\ tool' = tool /\ want' = want /\ record' = record /\ pending' = pending
         /\ polls' = polls /\ shown' = shown /\ view' = [view EXCEPT ![c] = None]
         /\ \/ /\ Shows(c)
               /\ verified' = [verified EXCEPT ![c] = Comparable(c, Head(view[c]))]
               /\ verdict' = [verdict EXCEPT ![c] = "verified"]
               /\ pc' = [pc EXCEPT ![c] = "done"]
            \/ /\ ~Shows(c) /\ verified' = verified
               /\ verdict' = [verdict EXCEPT ![c] = "timeout"]
               /\ pc' = [pc EXCEPT ![c] = "done"]
            \/ /\ ~Shows(c) /\ verified' = verified /\ verdict' = verdict
               /\ polls[c] < MaxPolls
               /\ pc' = [pc EXCEPT ![c] = "describe"]
<1>1. pc[c] = "compare" /\ verdict[c] = "none"
  BY DEF Compare, IInv, ProgressInv
<1>2. /\ Witness /\ tool' = tool /\ want' = want /\ record' = record
      /\ pending' = pending /\ shown' = shown /\ view' = [view EXCEPT ![c] = None]
  BY DEF Compare, job, upstream
<1>3. \/ /\ Shows(c) /\ polls' = polls
         /\ verified' = [verified EXCEPT ![c] = Comparable(c, Head(view[c]))]
         /\ Conclude(c, "verified")
      \/ ~Shows(c) /\ verified' = verified /\ PollAgain(c)
  BY Zenon DEF Compare, Shows
<1>4. QED
  BY <1>1, <1>2, <1>3, Zenon DEF PollAgain, Conclude

LEMMA CompareIInv ==
  ASSUME IInv, NEW c \in Calls, Compare(c)
  PROVE  IInv' /\ \A d \in Calls : TruthInv(d) => TruthInv(d)'
<1>1. TypeOK'
  <2>1. pc' \in [Calls -> {"write", "describe", "compare", "done"}]
    BY CompareCases DEF IInv, TypeOK
  <2>2. verdict' \in [Calls -> Verdicts]
    BY CompareCases DEF IInv, TypeOK, Verdicts
  <2>3. \A d \in Calls : verified'[d] \subseteq DOMAIN want[d]
    BY CompareCases DEF IInv, TypeOK, Domains, Comparable
  <2>4. QED
    BY <2>1, <2>2, <2>3, CompareCases, StepTypes DEF IInv, TypeOK
<1>2. Domains'
  BY CompareCases DEF IInv, Domains
<1>3. ASSUME NEW d \in Calls, d # c PROVE ProgressInv(d)' /\ (TruthInv(d) => TruthInv(d)')
  <2>1. /\ pc'[d] = pc[d] /\ verdict'[d] = verdict[d]
        /\ verified'[d] = verified[d] /\ view'[d] = view[d]
    BY <1>3, CompareCases DEF IInv, TypeOK, Domains
  <2>2. pc[d] = "write" \/ held[d] \subseteq held'[d]
    BY <2>1, CompareCases, HeldGrows DEF IInv, TypeOK
  <2>3. QED
    BY <2>1, <2>2, CompareCases, Frame DEF IInv
<1>4. ProgressInv(c)'
  BY CompareCases DEF IInv, TypeOK, ProgressInv
<1>5. TruthInv(c) => TruthInv(c)'
  <2>1. pc'[c] # "compare" /\ pc'[c] # "write"
    BY CompareCases DEF IInv, TypeOK
  <2>2. held[c] \subseteq held'[c]
    BY <2>1, CompareCases, HeldGrows DEF IInv, TypeOK
  <2>3. CASE ~Shows(c)
    <3>1. verdict'[c] # "verified"
      BY <2>3, CompareCases DEF IInv, TypeOK
    <3>2. QED
      BY <2>1, <3>1 DEF TruthInv, Truthful
  <2>4. CASE Shows(c)
    <3>1. verified'[c] = Comparable(c, Head(view[c]))
      BY <2>4, CompareCases DEF IInv, Domains
    <3>2. tool[c] # "alter_integration_table" => Comparable(c, Head(view[c])) # {}
      BY <2>4 DEF Shows, Agrees
    <3>3. QED
      BY <2>1, <2>2, <2>4, <3>1, <3>2, CompareCases DEF TruthInv, Truthful
  <2>5. QED
    BY <2>3, <2>4
<1>6. QED
  BY <1>1, <1>2, <1>3, <1>4, <1>5 DEF IInv

LEMMA StutterIInv ==
  ASSUME IInv, UNCHANGED vars
  PROVE  IInv' /\ \A d \in Calls : TruthInv(d) => TruthInv(d)'
<1> USE DEF vars, upstream, job, history
<1>1. TypeOK'
  BY DEF IInv, TypeOK, FieldValues, Wants, Verifiable
<1>2. Domains'
  BY DEF IInv, Domains
<1>3. \A d \in Calls : ProgressInv(d)' /\ (TruthInv(d) => TruthInv(d)')
  BY Frame DEF IInv
<1>4. QED
  BY <1>1, <1>2, <1>3 DEF IInv
----------------------------------------------------------------------------
LEMMA StepIInv == IInv /\ [Next]_vars => IInv'
  BY AcknowledgeIInv, ApplyIInv, DescribeIInv, FailIInv, CompareIInv, StutterIInv
     DEF Next, Step, Quiescent

LEMMA InductiveInvariant == Spec => []IInv
  BY InitIInv, StepIInv, PTL DEF Spec

LEMMA StepTruth ==
  ASSUME "stray" \notin Replies, IInv, \A c \in Calls : TruthInv(c), [Next]_vars
  PROVE  \A c \in Calls : TruthInv(c)'
  BY AcknowledgeIInv, ApplyIInv, DescribeIInv, FailIInv, CompareIInv, StutterIInv
     DEF Next, Step, Quiescent

\* Every variable keeps its type: the deadline ends the descriptions, and what is
\* pending, verified or has held are requested fields.
THEOREM TypeCorrect == Spec => []TypeOK
<1>1. IInv => TypeOK
  BY DEF IInv
<1>2. QED
  BY <1>1, InductiveInvariant, PTL

\* A write that a read-back has shown is never reported as timed out.
THEOREM ShownNotTimedOut == Spec => []ShownIsNotTimedOut
<1>1. IInv => ShownIsNotTimedOut
  BY DEF IInv, TypeOK, ProgressInv, ShownIsNotTimedOut
<1>2. QED
  BY <1>1, InductiveInvariant, PTL

\* Provided the upstream never describes a record by another's name, alter_input
\* and configure_topic name at least one field when they say "verified", and every
\* field they name did hold after the acknowledgement, for any number of writers.
THEOREM VerifiedTrue ==
  ASSUME "stray" \notin Replies
  PROVE  Spec => []VerifiedWasTrue
<1> DEFINE TInv == \A c \in Calls : TruthInv(c)
<1>1. Init => TInv
  BY DEF Init, TruthInv, Truthful
<1>2. IInv /\ TInv /\ [Next]_vars => TInv'
  BY StepTruth
<1>3. TInv => VerifiedWasTrue
  BY DEF TruthInv, VerifiedWasTrue
<1> HIDE DEF TInv
<1>4. QED
  BY <1>1, <1>2, <1>3, InductiveInvariant, PTL DEF Spec
=============================================================================
