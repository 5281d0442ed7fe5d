------------------------- MODULE CodePackagesProofs -------------------------
(***************************************************************************)
(* Theorems about CodePackages, for any calls, packages and bounds.        *)
(***************************************************************************)
EXTENDS CodePackages, SequenceTheorems, TLAPS

Codes == Calls \cup {OldCode}
UnderWay == {"describe", "write", "written"}

\* An attempt has taken effect once its answer is under way, not before; "ok"
\* is said after an effect only, and "rejected" only for want of one.
PhaseInv == \A c \in Calls :
    /\ pc[c] = "idle" => attempts[c] = 0 /\ answer[c] = "none"
    /\ pc[c] \in UnderWay => answer[c] = "none" /\ attempts[c] > 0
    /\ pc[c] \in {"describe", "write"} => ~applied[c]
    /\ pc[c] = "retryable" => answer[c] = "failed"
    /\ answer[c] = "ok" => applied[c]
    /\ answer[c] = "rejected" => ~applied[c]

\* What register has learnt holds until somebody creates or deletes the
\* package, unless the question was misread.
StaleInv == \A c \in Calls : Tool(c) = "register" =>
    /\ pc[c] = "write" =>
          \/ "misread" \in seen[c] \/ "moved" \in seen[c]
          \/ exists[c] <=> There(Name(c))
    /\ answer[c] = "rejected" => "misread" \in seen[c] \/ "moved" \in seen[c]

IInv == TypeOK /\ PhaseInv /\ StaleInv
----------------------------------------------------------------------------
\* Every call names packages.
LEMMA Arguments ==
    ASSUME TypeOK, NEW c \in Calls
    PROVE  /\ request[c].name \in Names /\ request[c].source \in Names
           /\ request[c].tool \in {"register", "clone", "revert"}
           /\ request[c].version \in Nat
  BY AskedAssumption DEF TypeOK

\* A write that is accepted makes of the package what an upsert, a clone or a
\* revert makes of it, and leaves at least one version.
LEMMA AcceptedVersions ==
    ASSUME TypeOK, NEW c \in Calls, Accepted(c)
    PROVE  /\ NewVersions(c) \in Seq(Codes)
           /\ NewVersions(c) # << >>
           /\ Tool(c) = "register" => NewVersions(c) = Append(packages[Name(c)], c)
<1>1. /\ request[c] \in Asked
      /\ Name(c) \in Names /\ request[c].source \in Names
      /\ Tool(c) \in {"register", "clone", "revert"}
      /\ \A n \in Names : packages[n] \in Seq(Codes)
  BY Arguments DEF TypeOK, Name, Tool, Codes
<1>2. CASE Tool(c) = "register"
  <2>1. NewVersions(c) = Append(packages[Name(c)], c)
    <3>1. CASE exists[c]
      BY <1>2, <3>1 DEF NewVersions
    <3>2. CASE ~exists[c]
      <4>1. packages[Name(c)] = << >>
        BY <1>2, <3>2 DEF Accepted, There
      <4>2. NewVersions(c) = <<c>>
        BY <1>2, <3>2 DEF NewVersions
      <4>3. QED
        BY <4>1, <4>2
    <3>3. QED
      BY <3>1, <3>2
  <2>2. QED
    BY <1>1, <1>2, <2>1 DEF Codes
<1>3. CASE Tool(c) = "clone"
  <2>1. NewVersions(c) = <<Newest(packages[request[c].source])>>
    BY <1>3 DEF NewVersions
  <2>2. packages[request[c].source] \in Seq(Codes) /\ packages[request[c].source] # << >>
    BY <1>1, <1>3 DEF Accepted, There
  <2>3. Newest(packages[request[c].source]) \in Codes
    BY <2>2 DEF Newest
  <2>4. QED
    BY <1>3, <2>1, <2>3
<1>4. CASE Tool(c) = "revert"
  <2>1. NewVersions(c) = Append(packages[Name(c)], packages[Name(c)][request[c].version])
    BY <1>4, Zenon DEF NewVersions
  <2>2. packages[Name(c)][request[c].version] \in Codes
    BY <1>1, <1>4 DEF Accepted
  <2>3. QED
    BY <1>1, <1>4, <2>1, <2>2
<1>5. QED
  BY <1>1, <1>2, <1>3, <1>4

LEMMA InitIInv == Init => IInv
<1> SUFFICES ASSUME Init PROVE IInv
  OBVIOUS
<1>1. << >> \in Seq(Codes) /\ <<OldCode>> \in Seq(Codes)
  BY DEF Codes
<1>2. packages \in [Names -> Seq(Codes)]
  BY <1>1 DEF Init
<1>3. TypeOK
  BY <1>2, AttemptsAssumption DEF Init, TypeOK, Places, Codes
<1>4. PhaseInv /\ StaleInv
  BY DEF Init, PhaseInv, StaleInv, UnderWay
<1>5. QED
  BY <1>3, <1>4 DEF IInv

LEMMA StepIInv == IInv /\ [Next]_vars => IInv'
<1> SUFFICES ASSUME IInv, [Next]_vars PROVE IInv'
  OBVIOUS
<1> USE AttemptsAssumption
    DEF IInv, TypeOK, PhaseInv, StaleInv, Places, UnderWay, Events, Tool, Name, There
<1>1. ASSUME NEW c \in Calls, Begin(c) PROVE IInv'
  <2> USE <1>1 DEF Begin, Attempt, FirstRequest
  <2>1. TypeOK'
    BY Arguments DEF Codes
  <2>2. PhaseInv'
    OBVIOUS
  <2>3. StaleInv'
    OBVIOUS
  <2>4. QED
    BY <2>1, <2>2, <2>3
<1>2. ASSUME NEW c \in Calls, Retry(c) PROVE IInv'
  BY <1>2 DEF Retry, Attempt, FirstRequest
<1>3. ASSUME NEW c \in Calls, Describe(c) PROVE IInv'
  <2> USE <1>3 DEF Describe, Found
  <2>1. TypeOK'
    OBVIOUS
  <2>2. PhaseInv'
    OBVIOUS
  <2>3. StaleInv'
    OBVIOUS
  <2>4. QED
    BY <2>1, <2>2, <2>3
<1>4. ASSUME NEW c \in Calls, Misread(c) PROVE IInv'
  <2> USE <1>4 DEF Misread
  <2>1. TypeOK'
    OBVIOUS
  <2>2. PhaseInv'
    OBVIOUS
  <2>3. StaleInv'
    OBVIOUS
  <2>4. QED
    BY <2>1, <2>2, <2>3
<1>5. ASSUME NEW c \in Calls, Apply(c) PROVE IInv'
  <2> DEFINE es == {"written"} \cup IF There(Name(c)) THEN {} ELSE {"moved"}
  <2>1. /\ packages' = [packages EXCEPT ![Name(c)] = NewVersions(c)]
        /\ seen' = Notice(Name(c), {c}, es)
        /\ pc[c] = "write" /\ pc' = [pc EXCEPT ![c] = "written"]
        /\ applied' = [applied EXCEPT ![c] = TRUE]
        /\ UNCHANGED <<request, exists, answer, attempts, before, troubles>>
    BY <1>5 DEF Apply
  <2>2. NewVersions(c) \in Seq(Codes) /\ NewVersions(c) # << >> /\ Name(c) \in Names
    BY <1>5, AcceptedVersions, Arguments DEF Apply
  <2>3. /\ seen' \in [Calls -> SUBSET Events]
        /\ \A d \in Calls : seen'[d] = IF d = c \/ Name(d) # Name(c) THEN seen[d]
                                       ELSE seen[d] \cup es
    <3>1. es \subseteq Events
      BY DEF Events
    <3> HIDE DEF es
    <3>2. QED
      BY <2>1, <3>1 DEF Notice
  <2>4. TypeOK'
    BY <2>1, <2>2, <2>3 DEF Codes
  <2>5. PhaseInv'
    BY <2>1
  <2>6. ASSUME NEW d \in Calls, d # c, Name(d) # Name(c) \/ There(Name(c))
        PROVE  There(Name(d))' <=> There(Name(d))
    BY <2>1, <2>2, <2>6
  <2>7. StaleInv'
    <3> SUFFICES ASSUME NEW d \in Calls, Tool(d)' = "register"
                 PROVE  /\ pc'[d] = "write" =>
                              \/ "misread" \in seen'[d] \/ "moved" \in seen'[d]
                              \/ exists'[d] <=> There(Name(d))'
                        /\ answer'[d] = "rejected" =>
                              "misread" \in seen'[d] \/ "moved" \in seen'[d]
      OBVIOUS
    <3>1. seen[d] \subseteq seen'[d]
      <4>1. seen'[d] = seen[d] \/ seen'[d] = seen[d] \cup es
        BY <2>3
      <4> HIDE DEF es
      <4>2. QED
        BY <4>1, Zenon
    <3>2. CASE d = c
      BY <2>1, <2>3, <3>2
    <3>3. CASE d # c /\ (Name(d) # Name(c) \/ There(Name(c)))
      BY <2>1, <2>6, <3>1, <3>3
    <3>4. CASE d # c /\ Name(d) = Name(c) /\ ~There(Name(c))
      <4>1. "moved" \in seen'[d]
        BY <2>3, <3>4
      <4>2. QED
        BY <4>1
    <3>5. QED
      BY <3>2, <3>3, <3>4
  <2>8. QED
    BY <2>4, <2>5, <2>7
<1>6. ASSUME NEW c \in Calls, Succeed(c) PROVE IInv'
  BY <1>6 DEF Succeed, Return
<1>7. ASSUME NEW c \in Calls, Reject(c) PROVE IInv'
  BY <1>7 DEF Reject, Return, Accepted
<1>8. ASSUME NEW c \in Calls, Fail(c) PROVE IInv'
  <2>1. /\ pc[c] \in UnderWay
        /\ pc' = [pc EXCEPT ![c] = "answered"] \/ pc' = [pc EXCEPT ![c] = "retryable"]
        /\ answer' = [answer EXCEPT ![c] = "failed"]
        /\ troubles < MaxTroubles /\ troubles' = troubles + 1
        /\ UNCHANGED <<packages, request, exists, attempts, applied, before, seen>>
    BY <1>8 DEF Fail, Return
  <2>2. TypeOK'
    <3>1. /\ pc' \in [Calls -> Places]
          /\ answer' \in [Calls -> {"none", "ok", "rejected", "failed"}]
          /\ \A d \in Calls : pc'[d] = "written" => pc[d] = "written"
      BY <2>1
    <3>2. troubles' \in 0..MaxTroubles
      BY <2>1
    <3>3. QED
      BY <2>1, <3>1, <3>2
  <2>3. PhaseInv'
    BY <2>1
  <2>4. StaleInv'
    BY <2>1
  <2>5. QED
    BY <2>2, <2>3, <2>4
<1>9. ASSUME NEW n \in Names, Delete(n) PROVE IInv'
  <2>1. /\ packages' = [packages EXCEPT ![n] = << >>]
        /\ troubles < MaxTroubles /\ troubles' = troubles + 1
        /\ UNCHANGED <<request, pc, exists, answer, attempts, applied, before>>
    BY <1>9 DEF Delete
  <2>2. /\ seen' \in [Calls -> SUBSET Events]
        /\ \A d \in Calls : seen'[d] = IF Name(d) # n THEN seen[d]
                                       ELSE seen[d] \cup {"written", "moved"}
    BY <1>9 DEF Delete, Notice
  <2>3. << >> \in Seq(Codes)
    OBVIOUS
  <2>4. TypeOK'
    BY <2>1, <2>2, <2>3 DEF Codes
  <2>5. PhaseInv'
    BY <2>1
  <2>6. StaleInv'
    BY <2>1, <2>2
  <2>7. QED
    BY <2>4, <2>5, <2>6
<1>10. CASE UNCHANGED vars
  BY <1>10 DEF vars
<1>11. QED
  BY <1>1, <1>2, <1>3, <1>4, <1>5, <1>6, <1>7, <1>8, <1>9, <1>10
     DEF Next, ServerStep, Quiescent

LEMMA InductiveInvariant == Spec => []IInv
  BY InitIInv, StepIInv, PTL DEF Spec

\* Every variable keeps its type, and an answer is under way only for an attempt
\* that took effect.
THEOREM TypeCorrect == Spec => []TypeOK
<1>1. IInv => TypeOK
  BY DEF IInv
<1>2. QED
  BY <1>1, InductiveInvariant, PTL

\* register_code_package is refused only when its package was created or deleted
\* between its two requests, or the first was answered with an error.
THEOREM RejectionsHaveCause == Spec => []RejectionHasCause
<1>1. IInv => RejectionHasCause
  BY DEF IInv, StaleInv, RejectionHasCause
<1>2. QED
  BY <1>1, InductiveInvariant, PTL
----------------------------------------------------------------------------
\* An application of the write is what PackageStore calls an effect.
LEMMA ApplyIsEffect ==
    ASSUME IInv, NEW c \in Calls, Apply(c)
    PROVE  Store!TakeEffect(c)
<1>1. /\ pc[c] = "write" /\ Accepted(c) /\ ~applied[c]
      /\ packages' = [packages EXCEPT ![Name(c)] = NewVersions(c)]
      /\ applied' = [applied EXCEPT ![c] = TRUE]
      /\ pc' = [pc EXCEPT ![c] = "written"]
      /\ UNCHANGED <<request, answer>>
  BY DEF Apply, IInv, PhaseInv
<1>2. Phase[c] = "calling" /\ UNCHANGED Phase
  BY <1>1 DEF Phase, IInv, TypeOK
<1>3. Store!Possible(c)
  BY <1>1 DEF Accepted, Store!Possible, Store!Exists, There, Tool, Name
<1>4. request[c].tool \in {"register", "clone", "revert"}
  BY Arguments DEF IInv
<1>5. NewVersions(c) = Store!Updated(c)
  <2>1. CASE request[c].tool = "register"
    BY <1>1, <2>1, AcceptedVersions DEF IInv, Store!Updated, Tool, Name
  <2>2. CASE request[c].tool = "clone"
    BY <2>2 DEF Store!Updated, NewVersions, Newest, Tool
  <2>3. CASE request[c].tool = "revert"
    BY <2>3 DEF Store!Updated, NewVersions, Tool, Name
  <2>4. QED
    BY <1>4, <2>1, <2>2, <2>3
<1>6. QED
  BY <1>1, <1>2, <1>3, <1>5 DEF Store!TakeEffect, Name

\* Every step of the tools and of the upstream is a step of PackageStore or none.
LEMMA StepStore == IInv /\ [Next]_vars => [Store!Next]_(Store!vars)
<1> SUFFICES ASSUME IInv, [Next]_vars PROVE [Store!Next]_(Store!vars)
  OBVIOUS
<1> USE DEF IInv, TypeOK, PhaseInv, UnderWay
<1>1. ASSUME NEW c \in Calls, Begin(c) \/ Retry(c) PROVE Store!Call(c)
  <2>1. /\ pc[c] \in {"idle", "retryable"}
        /\ pc' = [pc EXCEPT ![c] = FirstRequest(c)]
        /\ FirstRequest(c) \in {"describe", "write"}
        /\ applied' = [applied EXCEPT ![c] = FALSE]
        /\ answer' = [answer EXCEPT ![c] = "none"]
        /\ UNCHANGED <<packages, request>>
    BY <1>1 DEF Begin, Retry, Attempt, FirstRequest
  <2>2. Phase[c] = "idle" /\ Phase' = [Phase EXCEPT ![c] = "calling"]
    BY <2>1 DEF Phase
  <2>3. QED
    BY <2>1, <2>2 DEF Store!Call
<1>2. ASSUME NEW c \in Calls, Describe(c) \/ Misread(c) PROVE UNCHANGED Store!vars
  <2>1. /\ pc[c] = "describe" /\ pc' = [pc EXCEPT ![c] = "write"]
        /\ UNCHANGED <<packages, request, answer, applied>>
    BY <1>2 DEF Describe, Misread
  <2>2. UNCHANGED Phase
    BY <2>1 DEF Phase
  <2>3. QED
    BY <2>1, <2>2 DEF Store!vars
<1>3. ASSUME NEW c \in Calls, Succeed(c) \/ Reject(c) \/ Fail(c)
      PROVE  \E a \in Store!Answers : Store!Return(c, a)
  <2>1. \E a \in Store!Answers :
           /\ pc[c] \in UnderWay /\ answer' = [answer EXCEPT ![c] = a]
           /\ a = "ok" => applied[c]
           /\ a = "rejected" => ~applied[c]
    BY <1>3 DEF Succeed, Reject, Fail, Return, Store!Answers
  <2>2. \/ pc' = [pc EXCEPT ![c] = "answered"]
        \/ pc' = [pc EXCEPT ![c] = "retryable"]
    BY <1>3 DEF Succeed, Reject, Fail, Return
  <2>3. UNCHANGED <<packages, request, applied>>
    BY <1>3 DEF Succeed, Reject, Fail
  <2>4. Phase[c] = "calling" /\ Phase' = [Phase EXCEPT ![c] = "idle"]
    BY <2>1, <2>2 DEF Phase
  <2>5. QED
    BY <2>1, <2>3, <2>4 DEF Store!Return
<1>4. ASSUME NEW n \in Names, Delete(n) PROVE Store!Delete(n)
  BY <1>4 DEF Delete, Store!Delete, Phase
<1>5. CASE UNCHANGED vars
  BY <1>5 DEF vars, Phase, Store!vars
<1>6. QED
  BY <1>1, <1>2, <1>3, <1>4, <1>5, ApplyIsEffect
     DEF Next, ServerStep, Quiescent, Store!Next

\* CodePackages implements PackageStore: each attempt of a tool, though two
\* requests, takes effect at one moment and at most once, as an upsert, a clone
\* or a revert of what there is at that moment, and is truthfully answered.
THEOREM AtomicAttempts == Spec => AttemptsAreAtomic
<1>1. Init => Store!Init
  <2> SUFFICES ASSUME Init PROVE Store!Init
    OBVIOUS
  <2>1. packages \in [Names -> Seq(Calls \cup {OldCode})]
    BY InitIInv DEF IInv, TypeOK
  <2>2. request \in [Calls -> Store!Requests]
    BY AskedAssumption DEF Init, Store!Requests
  <2>3. Phase = [c \in Calls |-> "idle"]
    BY DEF Init, Phase
  <2>4. QED
    BY <2>1, <2>2, <2>3 DEF Init, Store!Init
<1>2. QED
  BY <1>1, StepStore, InductiveInvariant, PTL DEF Spec, AttemptsAreAtomic, Store!Spec
----------------------------------------------------------------------------
Copies(c, k) == [i \in 1..k |-> c]

\* While nobody else has written the package of a register, what was there when
\* it began is still there, followed by its own code, once for each attempt that
\* took effect; the one under way is not yet among them.
QuietCall(c) ==
    Tool(c) = "register" /\ pc[c] # "idle" /\ "written" \notin seen[c] =>
        \E k \in 0..attempts[c] :
            /\ packages[Name(c)] = before[c] \o Copies(c, k)
            /\ applied[c] => k > 0
            /\ ~applied[c] => k < attempts[c]

QuietInv == \A c \in Calls : QuietCall(c)

LEMMA CopiesType ==
    ASSUME NEW c \in Calls, NEW k \in Nat
    PROVE  Copies(c, k) \in Seq(Codes) /\ Len(Copies(c, k)) = k
  BY DEF Copies, Codes

\* One more application appends one more copy.
LEMMA AppendCopy ==
    ASSUME NEW c \in Calls, NEW k \in Nat, NEW s \in Seq(Codes)
    PROVE  Append(s \o Copies(c, k), c) = s \o Copies(c, k + 1)
<1> DEFINE a == Append(s \o Copies(c, k), c)
           b == s \o Copies(c, k + 1)
<1>1. /\ Copies(c, k) \in Seq(Codes) /\ Len(Copies(c, k)) = k
      /\ Copies(c, k + 1) \in Seq(Codes) /\ Len(Copies(c, k + 1)) = k + 1
      /\ c \in Codes /\ Len(s) \in Nat
  BY CopiesType DEF Codes
<1>2. s \o Copies(c, k) \in Seq(Codes) /\ Len(s \o Copies(c, k)) = Len(s) + k
  BY <1>1, ConcatProperties
<1>3. /\ a \in Seq(Codes) /\ b \in Seq(Codes)
      /\ Len(a) = Len(s) + k + 1 /\ Len(b) = Len(s) + k + 1
  BY <1>1, <1>2, ConcatProperties
<1>4. ASSUME NEW i \in 1..Len(a) PROVE a[i] = b[i]
  <2>1. b[i] = IF i <= Len(s) THEN s[i] ELSE Copies(c, k + 1)[i - Len(s)]
    BY <1>1, <1>3, <1>4, ConcatProperties
  <2>2. CASE i = Len(s) + k + 1
    <3>1. a[i] = c
      BY <1>2, <2>2
    <3>2. QED
      BY <1>1, <2>1, <2>2, <3>1 DEF Copies
  <2>3. CASE i <= Len(s) + k
    <3>1. a[i] = (s \o Copies(c, k))[i]
      BY <1>1, <1>2, <1>3, <1>4, <2>3
    <3>2. (s \o Copies(c, k))[i] =
             IF i <= Len(s) THEN s[i] ELSE Copies(c, k)[i - Len(s)]
      BY <1>1, <1>3, <1>4, <2>3, ConcatProperties
    <3>3. i > Len(s) => Copies(c, k)[i - Len(s)] = c /\ Copies(c, k + 1)[i - Len(s)] = c
      BY <1>1, <1>3, <1>4, <2>3 DEF Copies
    <3>4. QED
      BY <1>1, <1>3, <1>4, <2>1, <3>1, <3>2, <3>3
  <2>4. QED
    BY <1>1, <1>3, <1>4, <2>2, <2>3
<1> HIDE DEF a, b
<1>5. a = b
  BY <1>3, <1>4, SeqEqual
<1>6. QED
  BY <1>5 DEF a, b

\* What a step leaves alone stays quiet.
LEMMA QuietFrame ==
    ASSUME NEW d \in Calls, QuietCall(d), request' = request,
           pc[d] = "idle" => pc'[d] = "idle",
           "written" \in seen[d] => "written" \in seen'[d],
           packages'[Name(d)] = packages[Name(d)], before'[d] = before[d],
           applied'[d] = applied[d], attempts'[d] = attempts[d]
    PROVE  QuietCall(d)'
  BY DEF QuietCall, Tool, Name

\* No step breaks it.
LEMMA StepQuiet == IInv /\ QuietInv /\ [Next]_vars => QuietInv'
<1> SUFFICES ASSUME IInv, QuietInv, [Next]_vars, NEW d \in Calls PROVE QuietCall(d)'
  BY DEF QuietInv
<1>0. QuietCall(d)
  BY DEF QuietInv
<1> USE DEF IInv, TypeOK, PhaseInv, UnderWay
<1>1. ASSUME NEW c \in Calls, Begin(c) PROVE QuietCall(d)'
  <2>1. CASE d # c
    BY <1>0, <1>1, <2>1, QuietFrame DEF Begin, Attempt
  <2>2. CASE d = c
    <3>1. /\ packages[Name(d)]' = before'[d]
          /\ attempts'[d] = 1 /\ ~applied'[d]
      BY <1>1, <2>2 DEF Begin, Attempt, Name
    <3>2. packages[Name(d)] \in Seq(Codes) /\ Copies(d, 0) = << >>
      BY Arguments DEF Codes, Copies, Name
    <3>3. before'[d] = before'[d] \o Copies(d, 0)
      BY <1>1, <2>2, <3>2, ConcatEmptySeq DEF Begin
    <3>4. QED
      BY <3>1, <3>3 DEF QuietCall
  <2>3. QED
    BY <2>1, <2>2
<1>2. ASSUME NEW c \in Calls, Retry(c) PROVE QuietCall(d)'
  <2>1. CASE d # c
    BY <1>0, <1>2, <2>1, QuietFrame DEF Retry, Attempt
  <2>2. CASE d = c
    <3>1. /\ pc[d] = "retryable" /\ attempts'[d] = attempts[d] + 1 /\ ~applied'[d]
          /\ UNCHANGED <<packages, request, before, seen>>
      BY <1>2, <2>2 DEF Retry, Attempt
    <3>2. SUFFICES ASSUME Tool(d) = "register", "written" \notin seen[d]
                   PROVE  QuietCall(d)'
      BY <3>1 DEF QuietCall, Tool
    <3>3. PICK k \in 0..attempts[d] : packages[Name(d)] = before[d] \o Copies(d, k)
      BY <1>0, <3>1, <3>2 DEF QuietCall
    <3>4. k \in 0..attempts'[d] /\ k < attempts'[d]
      BY <3>1, AttemptsAssumption
    <3>5. (packages[Name(d)] = before[d] \o Copies(d, k))'
      BY <3>1, <3>3 DEF Name
    <3>6. QED
      BY <3>1, <3>4, <3>5 DEF QuietCall
  <2>3. QED
    BY <2>1, <2>2
<1>3. ASSUME NEW c \in Calls, Apply(c) PROVE QuietCall(d)'
  <2>1. /\ packages' = [packages EXCEPT ![Name(c)] = NewVersions(c)]
        /\ pc[c] = "write" /\ pc' = [pc EXCEPT ![c] = "written"] /\ ~applied[c]
        /\ applied' = [applied EXCEPT ![c] = TRUE]
        /\ UNCHANGED <<request, attempts, before>>
        /\ Name(c) \in Names
    BY <1>3, Arguments DEF Apply, Name
  <2>2. /\ d = c \/ Name(d) # Name(c) => seen'[d] = seen[d]
        /\ d # c /\ Name(d) = Name(c) => "written" \in seen'[d]
    BY <1>3 DEF Apply, Notice
  <2>3. CASE d # c /\ Name(d) # Name(c)
    <3>1. packages'[Name(d)] = packages[Name(d)]
      BY <2>1, <2>3, Arguments DEF Name
    <3>2. QED
      BY <1>0, <2>1, <2>2, <2>3, <3>1, QuietFrame
  <2>4. CASE d # c /\ Name(d) = Name(c)
    BY <2>2, <2>4 DEF QuietCall
  <2>5. CASE d = c
    <3>1. SUFFICES ASSUME Tool(c) = "register", "written" \notin seen[c]
                   PROVE  QuietCall(c)'
      BY <2>1, <2>2, <2>5 DEF QuietCall, Tool
    <3>2. PICK k \in 0..attempts[c] :
             packages[Name(c)] = before[c] \o Copies(c, k) /\ k < attempts[c]
      BY <1>0, <2>1, <2>5, <3>1 DEF QuietCall
    <3>3. packages'[Name(c)] = Append(packages[Name(c)], c)
      BY <1>3, <2>1, <3>1, AcceptedVersions DEF Apply
    <3>4. before[c] \in Seq(Codes) /\ k \in Nat
      BY DEF Codes
    <3>5. packages'[Name(c)] = before[c] \o Copies(c, k + 1)
      BY <3>2, <3>3, <3>4, AppendCopy
    <3>6. (packages[Name(c)] = before[c] \o Copies(c, k + 1))'
      BY <2>1, <3>5 DEF Name
    <3>7. k + 1 \in 0..attempts'[c] /\ k + 1 > 0 /\ applied'[c]
      BY <2>1, <3>2
    <3>8. QED
      BY <3>6, <3>7 DEF QuietCall
  <2>6. QED
    BY <2>3, <2>4, <2>5
<1>4. ASSUME NEW n \in Names, Delete(n) PROVE QuietCall(d)'
  <2>1. CASE Name(d) = n
    BY <1>4, <2>1 DEF Delete, Notice, QuietCall
  <2>2. CASE Name(d) # n
    <3>1. packages'[Name(d)] = packages[Name(d)] /\ seen'[d] = seen[d]
      BY <1>4, <2>2, Arguments DEF Delete, Notice, Name
    <3>2. QED
      BY <1>0, <1>4, <3>1, QuietFrame DEF Delete
  <2>3. QED
    BY <2>1, <2>2
<1>5. ASSUME NEW c \in Calls, Describe(c) \/ Misread(c) PROVE QuietCall(d)'
  <2>1. "written" \in seen[d] => "written" \in seen'[d]
    <3>1. CASE Describe(c)
      BY <3>1 DEF Describe
    <3>2. CASE Misread(c)
      BY <3>2 DEF Misread
    <3>3. QED
      BY <1>5, <3>1, <3>2
  <2>2. pc[d] = "idle" => pc'[d] = "idle"
    BY <1>5 DEF Describe, Misread
  <2>3. UNCHANGED <<packages, request, before, applied, attempts>>
    BY <1>5 DEF Describe, Misread
  <2>4. QED
    BY <1>0, <2>1, <2>2, <2>3, QuietFrame
<1>6. ASSUME NEW c \in Calls, Succeed(c) \/ Reject(c) \/ Fail(c) PROVE QuietCall(d)'
  <2>1. pc[d] = "idle" => pc'[d] = "idle"
    BY <1>6 DEF Succeed, Reject, Fail, Return
  <2>2. UNCHANGED <<packages, request, before, applied, attempts, seen>>
    BY <1>6 DEF Succeed, Reject, Fail
  <2>3. QED
    BY <1>0, <2>1, <2>2, QuietFrame
<1>7. CASE UNCHANGED vars
  BY <1>0, <1>7, QuietFrame DEF vars
<1>8. QED
  BY <1>1, <1>2, <1>3, <1>4, <1>5, <1>6, <1>7 DEF Next, ServerStep, Quiescent

\* A register that succeeds while nobody else writes its package has kept every
\* version there was and added its own code, once for each attempt that took
\* effect: an update is not lost, however often it is tried.
THEOREM QuietRegisters == Spec => []QuietRegisterUpdates
<1>1. Init => QuietInv
  BY DEF Init, QuietInv, QuietCall
<1>2. IInv /\ QuietInv => QuietRegisterUpdates
  <2> SUFFICES ASSUME IInv, QuietInv, NEW c \in Calls,
                      Tool(c) = "register", answer[c] = "ok", "written" \notin seen[c]
               PROVE  \E k \in 1..attempts[c] :
                         packages[Name(c)] = before[c] \o [i \in 1..k |-> c]
    BY DEF QuietRegisterUpdates
  <2>1. applied[c] /\ pc[c] # "idle" /\ attempts[c] \in Nat
    BY DEF IInv, TypeOK, PhaseInv
  <2>2. PICK k \in 0..attempts[c] : packages[Name(c)] = before[c] \o Copies(c, k) /\ k > 0
    BY <2>1 DEF QuietInv, QuietCall
  <2>3. k \in 1..attempts[c]
    BY <2>1, <2>2
  <2>4. QED
    BY <2>2, <2>3 DEF Copies
<1>3. QED
  BY <1>1, <1>2, StepQuiet, InductiveInvariant, PTL DEF Spec
=============================================================================
