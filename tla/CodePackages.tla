---------------------------- MODULE CodePackages ----------------------------
(***************************************************************************)
(* The upstream part of the code package tools (src/src/faircom_mcp/       *)
(* server.py): register_code_package asks whether the package exists and   *)
(* then creates or alters it, two requests between which others may do the *)
(* same; clone_code_package and revert_code_package are one request each.  *)
(* The calls are those WriteTools lets through: valid, confirmed, allowed. *)
(*                                                                         *)
(* The upstream is external.  It refuses to create what exists, to alter   *)
(* or revert what does not, and keeps the versions of a package.  It may   *)
(* answer the question of existence with any other error, which the server *)
(* takes for a no; any request may fail with an error that does not say    *)
(* whether it was applied.  An HTTP 5xx is such an error, and it is marked *)
(* retryable: a client that follows docs/client-patterns.md calls again.   *)
(***************************************************************************)
EXTENDS Naturals, Sequences, FiniteSets

CONSTANTS
    Calls,        \* calls of the tools, each with code of its own
    Names,        \* names of packages
    OldCode,      \* the code of a package that is there from the start
    Asked,        \* the requests the calls may make
    MaxAttempts,  \* attempts a client makes of one call
    MaxTroubles   \* bound: deletes, failed requests and misread questions

ASSUME NamesAssumption == OldCode \notin Calls
ASSUME AskedAssumption ==
    Asked \subseteq [tool : {"register", "clone", "revert"}, name : Names,
                     source : Names, version : Nat]
ASSUME AttemptsAssumption == MaxAttempts \in Nat \ {0} /\ MaxTroubles \in Nat

VARIABLES
    packages,   \* upstream: the versions of each package, none if it is not there
    request,    \* request[c]: the arguments of c; constant
    pc,         \* pc[c]: where c is
    exists,     \* exists[c]: what _code_package_exists returned to c
    answer,     \* answer[c]: how the latest attempt of c ended
    attempts,   \* attempts[c]: attempts made, the one under way included
    applied,    \* applied[c]: whether the attempt under way took effect
    before,     \* history: the versions of its package when c began
    seen,       \* history: what happened to that package since
    troubles    \* counts MaxTroubles

vars == <<packages, request, pc, exists, answer, attempts, applied, before, seen,
          troubles>>

Tool(c) == request[c].tool
Name(c) == request[c].name
There(n) == packages[n] # << >>
Newest(versions) == versions[Len(versions)]
Places == {"idle", "describe", "write", "written", "answered", "retryable"}

\* What may have happened to c: another call or client has written its package
\* since c began, has created or deleted it since c asked, or what c asked was
\* answered with an error.
Events == {"written", "moved", "misread"}
----------------------------------------------------------------------------
Init ==
    /\ packages \in [Names -> {<< >>, <<OldCode>>}]
    /\ request \in [Calls -> Asked]
    /\ pc = [c \in Calls |-> "idle"]
    /\ exists = [c \in Calls |-> FALSE]
    /\ answer = [c \in Calls |-> "none"]
    /\ attempts = [c \in Calls |-> 0]
    /\ applied = [c \in Calls |-> FALSE]
    /\ before = [c \in Calls |-> << >>]
    /\ seen = [c \in Calls |-> {}]
    /\ troubles = 0

\* Only register_code_package asks first.
FirstRequest(c) == IF Tool(c) = "register" THEN "describe" ELSE "write"

Attempt(c) ==
    /\ pc' = [pc EXCEPT ![c] = FirstRequest(c)]
    /\ attempts' = [attempts EXCEPT ![c] = @ + 1]
    /\ applied' = [applied EXCEPT ![c] = FALSE]
    /\ answer' = [answer EXCEPT ![c] = "none"]

Begin(c) ==
    /\ pc[c] = "idle"
    /\ Attempt(c)
    /\ before' = [before EXCEPT ![c] = packages[Name(c)]]
    /\ seen' = [seen EXCEPT ![c] = {}]
    /\ UNCHANGED <<packages, request, exists, troubles>>

\* Mutant of Retry: the client counts no attempts.
RetryWithoutEnd(c) ==
    /\ pc[c] = "retryable"
    /\ Attempt(c)
    /\ UNCHANGED <<packages, request, exists, before, seen, troubles>>

\* retry_with_backoff of docs/client-patterns.md.
Retry(c) ==
    /\ pc[c] = "retryable" /\ attempts[c] < MaxAttempts
    /\ Attempt(c)
    /\ UNCHANGED <<packages, request, exists, before, seen, troubles>>

Return(c, a) ==
    /\ pc' = [pc EXCEPT ![c] = "answered"]
    /\ answer' = [answer EXCEPT ![c] = a]

\* Mutant of Found: an answer without the package counts as one with it.
FoundAnyway(c) == TRUE

\* The description holds a package of the name.
Found(c) == There(Name(c))

\* _code_package_exists: the package is described, and the answer kept until
\* the next request.
Describe(c) ==
    /\ pc[c] = "describe"
    /\ exists' = [exists EXCEPT ![c] = Found(c)]
    /\ seen' = [seen EXCEPT ![c] = @ \ {"moved", "misread"}]
    /\ pc' = [pc EXCEPT ![c] = "write"]
    /\ UNCHANGED <<packages, request, answer, attempts, applied, before, troubles>>

\* Any UpstreamAPIError of the description, and any answer of another shape,
\* counts as "does not exist".
Misread(c) ==
    /\ pc[c] = "describe" /\ troubles < MaxTroubles
    /\ troubles' = troubles + 1
    /\ exists' = [exists EXCEPT ![c] = FALSE]
    /\ seen' = [seen EXCEPT ![c] = @ \cup {"misread"}]
    /\ pc' = [pc EXCEPT ![c] = "write"]
    /\ UNCHANGED <<packages, request, answer, attempts, applied, before>>

\* What the upstream asks of the request the server sends it: createCodePackage
\* or alterCodePackage, by what the description said, cloneCodePackage, or
\* revertCodePackage.
Accepted(c) ==
    /\ Tool(c) = "register" => (exists[c] <=> There(Name(c)))
    /\ Tool(c) = "clone" => There(request[c].source) /\ ~There(Name(c))
    /\ Tool(c) = "revert" => request[c].version \in DOMAIN packages[Name(c)]

\* What the request makes of the package.
NewVersions(c) ==
    CASE Tool(c) = "register" -> IF exists[c] THEN Append(packages[Name(c)], c) ELSE <<c>>
      [] Tool(c) = "clone" -> <<Newest(packages[request[c].source])>>
      [] Tool(c) = "revert" ->
            Append(packages[Name(c)], packages[Name(c)][request[c].version])

\* What a write of n, or its deletion, is to the other calls on their way.
Notice(n, writers, events) ==
    [c \in Calls |->
        IF c \in writers \/ Name(c) # n THEN seen[c] ELSE seen[c] \cup events]

\* The upstream applies the write.
Apply(c) ==
    /\ pc[c] = "write" /\ Accepted(c)
    /\ packages' = [packages EXCEPT ![Name(c)] = NewVersions(c)]
    /\ applied' = [applied EXCEPT ![c] = TRUE]
    /\ seen' = Notice(Name(c), {c},
                      {"written"} \cup IF There(Name(c)) THEN {} ELSE {"moved"})
    /\ pc' = [pc EXCEPT ![c] = "written"]
    /\ UNCHANGED <<request, exists, answer, attempts, before, troubles>>

Succeed(c) ==
    /\ pc[c] = "written"
    /\ Return(c, "ok")
    /\ UNCHANGED <<packages, request, exists, attempts, applied, before, seen, troubles>>

\* Mutant of Reject: what is refused as existing already is taken for done.
RejectQuietly(c) ==
    /\ pc[c] = "write" /\ ~Accepted(c)
    /\ Return(c, IF Tool(c) = "register" /\ ~exists[c] THEN "ok" ELSE "rejected")
    /\ UNCHANGED <<packages, request, exists, attempts, applied, before, seen, troubles>>

\* Mutant of Reject: what is refused is tried again.
RejectAndRepeat(c) ==
    /\ pc[c] = "write" /\ ~Accepted(c)
    /\ pc' = [pc EXCEPT ![c] = FirstRequest(c)]
    /\ UNCHANGED <<packages, request, exists, answer, attempts, applied, before, seen,
                   troubles>>

\* An application error of the write: the attempt has come to nothing.
Reject(c) ==
    /\ pc[c] = "write" /\ ~Accepted(c)
    /\ Return(c, "rejected")
    /\ UNCHANGED <<packages, request, exists, attempts, applied, before, seen, troubles>>

\* Mutant of Fail: the handler that reads an error as "does not exist" covers the
\* write, too.
FailUnnoticed(c) ==
    /\ pc[c] \in {"describe", "write", "written"} /\ troubles < MaxTroubles
    /\ troubles' = troubles + 1
    /\ Return(c, "ok")
    /\ UNCHANGED <<packages, request, exists, attempts, applied, before, seen>>

\* The request, or its answer, is lost (a transport error, not retryable), the
\* session cannot be had, or the upstream answers with an HTTP 5xx (retryable).
\* A 5xx of the description is no failure but a misread.
Fail(c) ==
    /\ pc[c] \in {"describe", "write", "written"} /\ troubles < MaxTroubles
    /\ troubles' = troubles + 1
    /\ \/ Return(c, "failed")
       \/ /\ pc[c] # "describe"
          /\ pc' = [pc EXCEPT ![c] = "retryable"]
          /\ answer' = [answer EXCEPT ![c] = "failed"]
    /\ UNCHANGED <<packages, request, exists, attempts, applied, before, seen>>

\* External: the tools cannot delete, another client of the database may.
Delete(n) ==
    /\ There(n) /\ troubles < MaxTroubles
    /\ troubles' = troubles + 1
    /\ packages' = [packages EXCEPT ![n] = << >>]
    /\ seen' = Notice(n, {}, {"written", "moved"})
    /\ UNCHANGED <<request, pc, exists, answer, attempts, applied, before>>
----------------------------------------------------------------------------
ServerStep(c) ==
    Describe(c) \/ Misread(c) \/ Apply(c) \/ Succeed(c) \/ Reject(c) \/ Fail(c)

Ended(c) ==
    pc[c] = "answered" \/ (pc[c] = "retryable" /\ attempts[c] = MaxAttempts)

Quiescent == (\A c \in Calls : Ended(c)) /\ UNCHANGED vars

Next ==
    \/ \E c \in Calls : Begin(c) \/ Retry(c) \/ ServerStep(c)
    \/ \E n \in Names : Delete(n)
    \/ Quiescent

Spec == Init /\ [][Next]_vars

\* Requests are answered or time out, and the client keeps to its pattern.
FairSpec == Spec /\ \A c \in Calls : WF_vars(Begin(c) \/ Retry(c) \/ ServerStep(c))
----------------------------------------------------------------------------
\* A description is kept for the write that follows it, and only a call under
\* way has an attempt that may still take effect.
TypeOK ==
    /\ packages \in [Names -> Seq(Calls \cup {OldCode})]
    /\ request \in [Calls -> Asked]
    /\ pc \in [Calls -> Places]
    /\ exists \in [Calls -> BOOLEAN] /\ applied \in [Calls -> BOOLEAN]
    /\ answer \in [Calls -> {"none", "ok", "rejected", "failed"}]
    /\ attempts \in [Calls -> 0..MaxAttempts]
    /\ before \in [Calls -> Seq(Calls \cup {OldCode})]
    /\ seen \in [Calls -> SUBSET Events]
    /\ troubles \in 0..MaxTroubles
    /\ \A c \in Calls : pc[c] = "written" => applied[c]

\* Whether an attempt is under way.
Phase == [c \in Calls |->
    IF pc[c] \in {"describe", "write", "written"} THEN "calling" ELSE "idle"]

\* Each attempt is atomic: the two requests of register_code_package together
\* are an upsert that adds one version to the package as it is then, whatever
\* the others do between the two, and the answer of every tool tells the truth
\* about the attempt.
Store == INSTANCE PackageStore WITH phase <- Phase, effect <- applied

AttemptsAreAtomic == Store!Spec

\* An upsert has no reason to be refused for the package's existence, so when
\* it is, there is a cause outside the call: its package was created or deleted
\* between its two requests, or the question was answered with an error.
RejectionHasCause ==
    \A c \in Calls : Tool(c) = "register" /\ answer[c] = "rejected" =>
        "misread" \in seen[c] \/ "moved" \in seen[c]

\* What repeated attempts leave behind: while nobody else writes the package,
\* a register that succeeds has kept every version there was and added its own
\* code, once for each attempt that took effect.
QuietRegisterUpdates ==
    \A c \in Calls : Tool(c) = "register" /\ answer[c] = "ok" /\ "written" \notin seen[c] =>
        \E k \in 1..attempts[c] :
            packages[Name(c)] = before[c] \o [i \in 1..k |-> c]

\* Every call is answered, however often it is tried.
CallsEnd == \A c \in Calls : <>Ended(c)
=============================================================================
