----------------------------- MODULE WriteTools -----------------------------
(***************************************************************************)
(* The write tools of the MCP server (src/src/faircom_mcp/server.py).      *)
(* Each tool runs the same stages in an order of its own: an attempt is    *)
(* put in the audit log, a dry run is answered with a preview, the payload *)
(* is validated, the confirmation is demanded, and the write goes upstream *)
(* through _run_tool, which checks the tool group and counts the call; the *)
(* outcome is logged, for three tools after the write has been read back.  *)
(* The tools differ in the order, in which stages pass _run_tool, and in   *)
(* what they log; the table Tools holds the differences.                   *)
(*                                                                         *)
(* The upstream is reached through json_action, of which this module       *)
(* knows what ActionCall says.  A payload is good or bad: good ones pass   *)
(* the local validation the tool describes.  AuditLog.record and           *)
(* RuntimeMetrics take their locks for each entry, so an entry is atomic;  *)
(* trail[c] is the part of the log that call c wrote.                      *)
(***************************************************************************)
EXTENDS Naturals, Sequences, FiniteSets

CONSTANTS
    Calls,        \* the tool calls the server handles
    Configured    \* the tool-group allowlists an operator may configure

VARIABLES
    allowed,     \* ToolGroupPolicy.allowlist
    request,     \* the arguments of each call
    step,        \* the stage of its tool each call is at
    contacted,   \* the calls that have made any upstream request
    phase,       \* phase, effects, outcome: the json_action that carries the
    effects,     \*   call's write, as in ActionCall
    outcome,
    answer,      \* what the call was answered, "none" until then
    trail,       \* the audit records of each call, in order
    metrics      \* _tool_calls, summed over the tools

upstream == <<phase, effects, outcome>>
vars == <<allowed, request, step, contacted, upstream, answer, trail, metrics>>

Client == INSTANCE ActionCall WITH Callers <- Calls
----------------------------------------------------------------------------
\* Tool groups and the allowlist in force.
Groups == {"metadata", "query", "write", "connector", "admin", "diagnostics"}
ReadGroups == {"metadata", "query", "diagnostics"}

\* _POLICY_PRESETS; a preset nobody knows falls back to the default.
PolicyPresets ==
    [default |-> Groups, read_only |-> ReadGroups, analyst |-> ReadGroups,
     operator |-> Groups \ {"admin"}, admin |-> Groups, unknown |-> Groups]

\* to_tool_group_policy: a configured allowlist wins over the preset.
ToToolGroupPolicy(configured, preset) ==
    IF configured = Groups THEN PolicyPresets[preset] ELSE configured

ASSUME ConfiguredAssumption == Configured \subseteq SUBSET Groups
----------------------------------------------------------------------------
\* The write tools.  stages: their order.  gated: the preview passes
\* _run_tool.  looksUp: a payload that names a service is checked against
\* listServices.  aborts: the action may raise before the write is posted.
\* accepts: some payload passes the validation.  rejections, previews,
\* results: what is logged besides the attempt.
CreateInput ==
    [group |-> "connector",
     stages |-> <<"attempt", "preview", "validate", "confirm", "write">>,
     gated |-> TRUE, looksUp |-> TRUE, aborts |-> FALSE, accepts |-> TRUE,
     rejections |-> TRUE, previews |-> FALSE, results |-> TRUE]

AlterInput ==
    [CreateInput EXCEPT !.stages =
        <<"attempt", "preview", "validate", "confirm", "write", "verify">>]

DeleteInput == [CreateInput EXCEPT !.looksUp = FALSE, !.rejections = FALSE]

\* The output tools record no rejection.
CreateOutput == [CreateInput EXCEPT !.rejections = FALSE]

AlterOutput == CreateOutput

\* transform_connector_request removes connectorName before the validation
\* that demands connectorName: every payload is rejected (ConnectorPayload).
DeleteOutput == [DeleteInput EXCEPT !.accepts = FALSE]

CreateIntegrationTable == [CreateInput EXCEPT !.looksUp = FALSE]

AlterIntegrationTable == [AlterInput EXCEPT !.looksUp = FALSE]

DeleteIntegrationTables == CreateIntegrationTable

TestTransformSteps == CreateIntegrationTable

ConfigureTopic == AlterIntegrationTable

DeleteTopic == CreateIntegrationTable

ManageService ==
    [group |-> "admin",
     stages |-> <<"validate", "preview", "confirm", "write">>,
     gated |-> FALSE, looksUp |-> FALSE, aborts |-> FALSE, accepts |-> TRUE,
     rejections |-> FALSE, previews |-> FALSE, results |-> FALSE]

\* SQLAdapter.execute applies the statement policy inside _run_tool.
SqlExecute ==
    [ManageService EXCEPT
        !.group = "write",
        !.stages = <<"validate", "attempt", "preview", "confirm", "write">>,
        !.gated = TRUE, !.aborts = TRUE]

\* _run_registration asks whether the package exists first: an upstream error
\* counts as no, a transport error ends the call.
RegisterCodePackage ==
    [group |-> "write",
     stages |-> <<"attempt", "validate", "preview", "confirm", "write">>,
     gated |-> FALSE, looksUp |-> FALSE, aborts |-> TRUE, accepts |-> TRUE,
     rejections |-> TRUE, previews |-> TRUE, results |-> TRUE]

CloneCodePackage ==
    [RegisterCodePackage EXCEPT
        !.stages = <<"attempt", "preview", "validate", "confirm", "write">>,
        !.aborts = FALSE, !.rejections = FALSE, !.previews = FALSE]

RevertCodePackage == CloneCodePackage

Tools ==
    [create_input |-> CreateInput, alter_input |-> AlterInput,
     delete_input |-> DeleteInput, create_output |-> CreateOutput,
     alter_output |-> AlterOutput, delete_output |-> DeleteOutput,
     create_integration_table |-> CreateIntegrationTable,
     alter_integration_table |-> AlterIntegrationTable,
     delete_integration_tables |-> DeleteIntegrationTables,
     test_integration_table_transform_steps |-> TestTransformSteps,
     configure_topic |-> ConfigureTopic, delete_topic |-> DeleteTopic,
     manage_service |-> ManageService, sql_execute |-> SqlExecute,
     register_code_package |-> RegisterCodePackage,
     clone_code_package |-> CloneCodePackage,
     revert_code_package |-> RevertCodePackage]

Requests ==
    [tool : DOMAIN Tools, dryRun : BOOLEAN, confirmed : BOOLEAN, good : BOOLEAN]

Tool(c) == Tools[request[c].tool]
At(c, stage) ==
    /\ answer[c] = "none"
    /\ step[c] \in DOMAIN Tool(c).stages
    /\ Tool(c).stages[step[c]] = stage
Permitted(c) == Tool(c).group \in allowed
----------------------------------------------------------------------------
Init ==
    /\ \E configured \in Configured, preset \in DOMAIN PolicyPresets :
           allowed = ToToolGroupPolicy(configured, preset)
    /\ request \in [Calls -> Requests]
    /\ step = [c \in Calls |-> 1]
    /\ contacted = {}
    /\ Client!Init
    /\ answer = [c \in Calls |-> "none"]
    /\ trail = [c \in Calls |-> << >>]
    /\ metrics = [s \in {"success", "error"} |-> 0]

\* The call moves on to its next stage.
Advance(c) == step' = [step EXCEPT ![c] = @ + 1]

\* The call is answered a, and the audit records rs are added to the log.
Finish(c, a, rs) ==
    /\ answer' = [answer EXCEPT ![c] = a]
    /\ trail' = [trail EXCEPT ![c] = @ \o rs]

\* Mutant of Count: the counters are replaced, not updated.
CountAfresh(status) == metrics' = [s \in {status} |-> 1]

Count(status) == metrics' = [metrics EXCEPT ![status] = @ + 1]

\* Mutant of Result: the handler of a failed write re-raises and logs nothing.
ResultOfSuccess(c, r) ==
    IF Tool(c).results /\ r = "success" THEN <<r>> ELSE << >>

\* The outcome of a write, logged by the tools that log outcomes.
Result(c, r) == IF Tool(c).results THEN <<r>> ELSE << >>

\* _check_service_registration: a payload that names a service sends
\* listServices upstream; one that names none does not.
LookUpService(c) ==
    \/ UNCHANGED contacted
    \/ Tool(c).looksUp /\ contacted' = contacted \cup {c}

RecordAttempt(c) ==
    /\ At(c, "attempt")
    /\ trail' = [trail EXCEPT ![c] = Append(@, "attempt")]
    /\ Advance(c)
    /\ UNCHANGED <<allowed, request, contacted, upstream, answer, metrics>>
----------------------------------------------------------------------------
\* Mutant of Preview: confirm_write turns a dry run into a write.
PreviewUnlessConfirmed(c) ==
    /\ At(c, "preview")
    /\ IF request[c].dryRun /\ ~request[c].confirmed
       THEN Finish(c, "preview", << >>) /\ UNCHANGED step
       ELSE Advance(c) /\ UNCHANGED <<answer, trail>>
    /\ UNCHANGED <<allowed, request, contacted, upstream, metrics>>

\* A dry run ends here, in a preview or in the policy's refusal of a gated one;
\* an invalid payload is reported in the preview.  Any other call goes on.
Preview(c) ==
    /\ At(c, "preview")
    /\ \/ /\ ~request[c].dryRun
          /\ Advance(c)
          /\ UNCHANGED <<contacted, answer, trail, metrics>>
       \/ /\ request[c].dryRun /\ Tool(c).gated /\ ~Permitted(c)
          /\ Finish(c, "rejected", <<"policy_denial">>)
          /\ UNCHANGED <<step, contacted, metrics>>
       \/ /\ request[c].dryRun /\ Tool(c).gated /\ Permitted(c)
          /\ \/ Finish(c, "preview", << >>) /\ Count("success") /\ LookUpService(c)
             \/ /\ request[c].tool = "sql_execute"
                /\ Finish(c, "rejected", << >>)
                /\ Count("error")
                /\ UNCHANGED contacted
          /\ UNCHANGED step
       \/ /\ request[c].dryRun /\ ~Tool(c).gated
          /\ Finish(c, "preview", IF Tool(c).previews THEN <<"previewed">> ELSE << >>)
          /\ UNCHANGED <<step, contacted, metrics>>
    /\ UNCHANGED <<allowed, request, upstream>>

\* A ValidationFailure is raised, and logged by the tools that log rejections.
Reject(c) ==
    /\ Finish(c, "rejected", IF Tool(c).rejections THEN <<"rejected">> ELSE << >>)
    /\ UNCHANGED step

\* The payload is validated.  A good one is still rejected when listServices
\* does not know the service it names.
Validate(c) ==
    /\ At(c, "validate")
    /\ \/ /\ request[c].good /\ Tool(c).accepts
          /\ Advance(c)
          /\ UNCHANGED <<answer, trail>>
          /\ LookUpService(c)
       \/ /\ ~(request[c].good /\ Tool(c).accepts)
          /\ Reject(c)
          /\ LookUpService(c)
       \/ /\ Tool(c).looksUp
          /\ Reject(c)
          /\ contacted' = contacted \cup {c}
    /\ UNCHANGED <<allowed, request, upstream, metrics>>

\* confirm_write is demanded of what is not a dry run.
Confirm(c) ==
    /\ At(c, "confirm")
    /\ \/ request[c].confirmed /\ Advance(c) /\ UNCHANGED <<answer, trail>>
       \/ ~request[c].confirmed /\ Reject(c)
    /\ UNCHANGED <<allowed, request, contacted, upstream, metrics>>
----------------------------------------------------------------------------
\* _run_tool refuses the group: the denial is logged, and where the write's
\* outcome is logged the denial is a failed one.
Deny(c) ==
    /\ At(c, "write")
    /\ phase[c] = "idle" /\ outcome[c] = "none"
    /\ ~Permitted(c)
    /\ Finish(c, "rejected", <<"policy_denial">> \o Result(c, "failed"))
    /\ UNCHANGED <<allowed, request, step, contacted, upstream, metrics>>

\* The write is posted.
StartWrite(c) ==
    /\ At(c, "write")
    /\ outcome[c] = "none"
    /\ Permitted(c)
    /\ Client!Call(c)
    /\ contacted' = contacted \cup {c}
    /\ UNCHANGED <<allowed, request, step, answer, trail, metrics>>

\* The action raises before the write is posted: a statement the SQL policy
\* refuses, a package lookup whose transport fails.
AbortWrite(c) ==
    /\ At(c, "write")
    /\ phase[c] = "idle" /\ outcome[c] = "none"
    /\ Permitted(c) /\ Tool(c).aborts
    /\ Finish(c, "failed", Result(c, "failed"))
    /\ Count("error")
    /\ \/ UNCHANGED contacted
       \/ contacted' = contacted \cup {c}
    /\ UNCHANGED <<allowed, request, step, upstream>>

\* The client's part of the call, as ActionCall has it.
ClientStep(c) ==
    /\ At(c, "write")
    /\ \/ Client!TakeEffect(c)
       \/ \E o \in Client!Outcomes : Client!Return(c, o)
    /\ UNCHANGED <<allowed, request, step, contacted, answer, trail, metrics>>

\* The action has returned or raised inside _run_tool, which counts it; its
\* outcome is logged, unless the write is still to be read back.
WriteReturned(c) ==
    /\ At(c, "write")
    /\ phase[c] = "idle" /\ outcome[c] # "none"
    /\ \/ /\ outcome[c] # "ok"
          /\ Count("error")
          /\ Finish(c, "failed", Result(c, "failed"))
          /\ UNCHANGED step
       \/ /\ outcome[c] = "ok" /\ step[c] = Len(Tool(c).stages)
          /\ Count("success")
          /\ Finish(c, "applied", Result(c, "success"))
          /\ UNCHANGED step
       \/ /\ outcome[c] = "ok" /\ step[c] < Len(Tool(c).stages)
          /\ Count("success")
          /\ Advance(c)
          /\ UNCHANGED <<answer, trail>>
    /\ UNCHANGED <<allowed, request, contacted, upstream>>

\* Mutant of Verify: a failed read-back counts the call as an error, although
\* _run_tool has counted it.
VerifyCounts(c) ==
    /\ At(c, "verify")
    /\ \/ Finish(c, "applied", Result(c, "success")) /\ UNCHANGED metrics
       \/ Finish(c, "failed", Result(c, "failed")) /\ Count("error")
    /\ UNCHANGED <<allowed, request, step, contacted, upstream>>

\* The post-commit verifier reads the write back (PostCommitVerify has its
\* loop): it finds it, has nothing to compare, or raises.
Verify(c) ==
    /\ At(c, "verify")
    /\ \/ Finish(c, "applied", Result(c, "success"))
       \/ Finish(c, "unverified", Result(c, "success"))
       \/ Finish(c, "failed", Result(c, "failed"))
    /\ UNCHANGED <<allowed, request, step, contacted, upstream, metrics>>
----------------------------------------------------------------------------
Step(c) ==
    \/ RecordAttempt(c)
    \/ Preview(c)
    \/ Validate(c)
    \/ Confirm(c)
    \/ Deny(c)
    \/ StartWrite(c)
    \/ AbortWrite(c)
    \/ ClientStep(c)
    \/ WriteReturned(c)
    \/ Verify(c)

\* Every call has been answered.
Quiescent ==
    /\ \A c \in Calls : answer[c] # "none"
    /\ UNCHANGED vars

Next == (\E c \in Calls : Step(c)) \/ Quiescent

Spec == Init /\ [][Next]_vars
----------------------------------------------------------------------------
Answers == {"none", "preview", "rejected", "failed", "applied", "unverified"}
Records == {"attempt", "policy_denial", "rejected", "previewed", "success", "failed"}

TypeOK ==
    /\ allowed \in SUBSET Groups
    /\ request \in [Calls -> Requests]
    /\ step \in [Calls -> 1..6]
    /\ contacted \in SUBSET Calls
    /\ Client!TypeOK
    /\ answer \in [Calls -> Answers]
    /\ trail \in [Calls -> Seq(Records)]
    /\ metrics \in [{"success", "error"} -> Nat]

\* What the audit log says became of a call.
Ledger(c) ==
    LET rs == trail[c]
    IN  IF answer[c] # "none" /\ rs # << >>
            /\ rs[Len(rs)] \in {"success", "failed", "rejected", "previewed"}
        THEN rs[Len(rs)]
        ELSE "none"

Approved == {c \in Calls : /\ request[c].good /\ request[c].confirmed
                           /\ ~request[c].dryRun /\ Permitted(c)}

\* The stages of every write tool, in whatever order its function has them,
\* keep the promise of ApprovedWrite: only an approved call writes, and the
\* answer (mutation_applied) and the audit record tell a client and an
\* operator the truth about what was done upstream.
Promise == INSTANCE ApprovedWrite WITH
    approved <- Approved,
    ledger <- [c \in Calls |-> Ledger(c)]

OnlyApprovedWrites == Promise!Spec

\* No write escapes the audit log: when a tool that writes outcomes down is
\* done, a write that reached the upstream stands between the attempt and
\* exactly one outcome; and sql_execute, which writes none down, has logged
\* the attempt by then.  (manage_service logs nothing at all.)
WritesAreLogged == \A c \in Calls : effects[c] = 1 =>
    /\ request[c].tool # "manage_service" => trail[c] # << >> /\ trail[c][1] = "attempt"
    /\ Tool(c).results /\ answer[c] # "none" =>
          trail[c] \in {<<"attempt", "success">>, <<"attempt", "failed">>}

\* The metrics can be reconciled with the calls: a success is an accepted write
\* or a preview that passed _run_tool, an error is a call whose action raised
\* inside _run_tool, and each is counted once.  A write that was accepted stays
\* a success even when its read-back fails and the log says failed, and neither
\* a policy denial nor a rejection made before _run_tool is counted.
Settled(c) == outcome[c] # "none" /\ phase[c] = "idle" /\ ~At(c, "write")

Succeeded == {c \in Calls :
    \/ Settled(c) /\ outcome[c] = "ok"
    \/ answer[c] = "preview" /\ Tool(c).gated}

Raised == {c \in Calls :
    \/ Settled(c) /\ outcome[c] # "ok"
    \/ answer[c] = "failed" /\ outcome[c] = "none"
    \/ /\ answer[c] = "rejected" /\ Permitted(c)
       /\ request[c].tool = "sql_execute" /\ request[c].dryRun /\ request[c].good}

CountedOnce ==
    /\ metrics.success = Cardinality(Succeeded)
    /\ metrics.error = Cardinality(Raised)

\* What of a dry run does go upstream is the lookup of the service it names, by
\* the tools that have one: however the stages are ordered, nothing else has
\* been sent when the call is answered, and no write ever is.
DryRunOnlyLooksUp == \A c \in Calls : request[c].dryRun =>
    /\ c \in contacted => Tool(c).looksUp
    /\ phase[c] = "idle" /\ effects[c] = 0

\* The warning every preview carries: "Dry run is a local preview only and does
\* not call FairCom backend APIs."
DryRunStaysLocal == \A c \in Calls : request[c].dryRun => c \notin contacted
=============================================================================
