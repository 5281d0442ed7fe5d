# A verification development of faircom-mcp

faircom-mcp is an MCP server, in Python, in front of the JSON API of a FairCom
database: a tool call of an MCP client becomes one or a few HTTP requests
upstream. This directory holds TLA+ models of its stateful parts, TLC runs that
check them on small instances, and TLAPS proofs of what holds for every size.
Paths below are relative to `src/faircom_mcp/` in the repository unless they
begin otherwise.

## Inventory

FastMCP runs a synchronous tool function on the event loop's thread or on a
worker thread, depending on its version; the process has one `FaircomAPIClient`,
one `AuditLog` and one `RuntimeMetrics`, and the code itself starts threads (the
probes), so everything shared is modelled as shared by threads.

| Part | State | Operations | What makes it hard |
|---|---|---|---|
| Session client, `api/client.py` | the session token, the lock around logins, the configured credentials | `json_action`, `_get_action_auth_token`, `_invalidate_session_auth_token` | double-checked lock, sessions that expire under the feet of several threads, an action sent a second time |
| Write tools, `server.py` 2263-6407 | none of their own; they write the audit log and the metrics | 17 tools, each with its own order of attempt record, dry run, validation, confirmation, policy gate, write, read-back, outcome record | the order is written out by hand in every tool; each stage can fail |
| Tool-group policy, `security/`, `config.py` | the allowlist, fixed at start | `ToolGroupPolicy.validate` in `_run_tool` | preset against configured list |
| Audit log and metrics, `observability.py` | an append-only list; counters | `record`, `record_tool_call` | log and counters describe the same call from two places |
| Post-commit verification, `server.py` 2427-2600, 3301-3563, 3970-4108 | the last description, attempts, a deadline | write, describe and compare until equal or late | an upstream that acknowledges before, or without, applying; other writers |
| SQL paging, `api/sql.py` | none on the server: the state is in the token the client carries | `query_page` | every page is a new query at an offset; tokens carry an order of their own |
| Payload validation and adapter, `server.py` 948-1676, `api/connectors.py` | schema registries (constants) | validate, transform names | validate and transform are not independent |
| Code packages, `server.py` 5190-5694 | none: the packages and their versions are upstream | register, clone, revert | exists-then-write, errors read as "no", retries |
| Readiness and health, `server.py` 1920-1975, 6207-6289, `transports/health.py` | a holder per request, shared with the thread it starts | `/ready`, `/readyz`, `observability_health` | a check that hangs or raises; threads left behind that go on using the client |
| Automatic transport, `server.py` 6413-6605, `examples/clients/` | the wrapped application's sessions, in memory; the helper's session id | proxy, recovery hints, helper's retry | restarts, lost sessions and headers, retries of calls that were run |
| Read tools, `api/tables.py` | none | list and describe, filtered | (pure reads) |
| Contract texts, errors, logging, configuration, entry points, packaging | none after start | | (static text, formatting, I/O) |

How they interact. Every tool goes through `_run_tool` (policy gate, metrics) and
an adapter to `json_action`, the only way upstream; three write tools then go
upstream again to verify. The audit log is written around `_run_tool`, the
metrics inside it. `observability_health` uses the same client from a thread of
its own.

What makes each part correct:

* session client: logins exclude each other; a refused token does not come back;
  one expiry costs the caller nothing; an action is never applied twice, and the
  result tells the truth; every call returns;
* write tools: only an approved call writes, at most once; the answer and the log
  agree with what was done; the metrics can be reconciled with the log;
* verification: "verified" is said of what did hold; what was seen is not reported
  as timed out; it ends;
* paging: the pages together are the result; what changes meanwhile does the
  least harm an offset-based walk can have; the walk ends;
* connector payloads: what was validated is what goes out, nothing the client
  gave is lost on the way, and the audit log names what is written;
* code packages: an attempt is atomic although it may take two requests, nothing
  is lost by an update, a refusal has a cause outside the call;
* readiness: an answer speaks of this request's own check and probe; a check that
  hangs keeps nobody from being answered;
* transport: a call runs its tool once, its answer is true, and a lost session is
  recovered from.

## Modules

| Module | Models | Composes |
|---|---|---|
| `ActionCall` | what a caller of `json_action` is promised (abstract) | |
| `SessionClient` | the client, one action per step of a thread between two points where another may come in, the upstream's sessions external | implements `ActionCall` |
| `SessionClientProofs` | theorems about `SessionClient` | |
| `ApprovedWrite` | what a write tool promises to client and operator (abstract) | |
| `WriteTools` | the 17 write tools, policy, log and metrics | uses `ActionCall` for the write, implements `ApprovedWrite` |
| `WriteToolsProofs` | theorems about `WriteTools` | |
| `PostCommitVerify` | the three verifiers over an asynchronous upstream | stage "verify" of `WriteTools` in detail |
| `PostCommitVerifyProofs` | theorems about `PostCommitVerify` | |
| `SqlPaging` | `query_page` and a client that walks through the pages | |
| `SqlPagingProofs` | theorems about `SqlPaging` | |
| `ConnectorPayload` | a connector payload from the client to the wire | stages "validate" and "write" of `WriteTools`, with the data |
| `ConnectorPayloadProofs` | theorems about `ConnectorPayload` | |
| `PackageStore` | what one attempt of a code package tool promises (abstract) | |
| `CodePackages` | the requests of the three tools, others' writes, the client's retries | stage "write" of `WriteTools`, implements `PackageStore` |
| `CodePackagesProofs` | theorems about `CodePackages` | |
| `Readiness` | the two endpoints, `observability_health`, and the threads they start | what makes callers of `SessionClient` wait for each other |
| `ReadinessProofs` | theorems about `Readiness` | |
| `AutoTransport` | `/mcp` between the helpers and FastMCP | carries every tool call |
| `AutoTransportProofs` | theorems about `AutoTransport` | |
| `MC...` | values of the constants for TLC | |

`WriteTools` uses `ActionCall` instead of `SessionClient`: the run
`SessionClient` and the theorem `EffectsAtMostOnce` show that the client keeps
that promise, so the tools are checked against the promise, not against the
client's inner steps.

### SessionClient and the code

`auth` is `AuthConfig.token` (a bearer token configured at start, or none),
`sessionToken` is `_session_auth_token`, `lockOwner` is `_session_lock`. A thread's
`pc` is where it is in `json_action`: `Invoke` (206-221), `ReadToken` (300-302, the
unlocked look: one attribute read, atomic under the GIL),
`ReadTokenUnderLock` (304-324), `StoreToken` and `LoginFails` (325-333, the `with`
block is left either way), `HandleReply` (224-232), `Invalidate` (335-339). `sent`
remembers the token of each of the two requests a call may make; `leg` says which
one is under way. The lock is an `RLock`, and the nested `json_action` of the
login does not take it, so re-entry plays no part. `UpstreamLogin`, `Answer...`
and `Expire` are the upstream: it may drop any session at any time, refuse a
request with error 12031, fail with or without having applied the action (an HTTP
timeout included: an effect that comes later than the timeout is counted at the
timeout), or answer with another error whose text reads like an expired session.
`Lookalikes` says whether such an error may follow an applied action. The runs and
`EffectsAtMostOnce` assume it may not; with `{TRUE, FALSE}` TLC finds an
action applied twice (hazard list, client.py:341).

### WriteTools and the code

The 17 tool functions run the same stages in four orders, so the module is driven
by a table: `Tools` gives, for every tool, its stages in the order of its function
and the few ways in which it differs (`gated`: the preview passes `_run_tool`;
`looksUp`: a named service is looked up with `listServices`; `aborts`: the action
may raise before anything is posted; `rejections`, `previews`, `results`: what is
logged besides the attempt; `accepts`: whether any payload passes). `step[c]` is
the stage a call is at, and each stage is an action. A payload is good or bad.
The output tools and delete_input record no rejection, so a rejected call of theirs
leaves an attempt without an outcome. `_execute_connector_write` also looks for an `errorCode` in a result that did not
raise (629-644); the client raises on each of those first (413-490), so that
branch is not an action. `mutation_applied` is `answer`: "applied", "unverified"
(the verification was skipped), or no claim at all.

### PostCommitVerify and the code

The three verifiers are one loop: describe, choose the record, compare, look at
the clock, sleep. `view` is the record of one description, taken when the upstream
answered and compared later. `Acknowledge` is the upstream's "success" for the
write, with an arbitrary part of it pending; `Apply` applies a pending field, or
never happens. Other calls write the same record in between. `Agrees` holds the
one difference between the tools. `held` and `shown` are history: they
remember what was true, and are read by properties only.

### SqlPaging and the code

`Statement`, `Offset`, `HasMore`, `EncodeContinuationToken` and `PaginationMetadata`
are the functions of `api/sql.py`; `QueryPage` is one call. Of a statement only
its ORDER BY clauses are kept, and the upstream refuses two of them. The client
follows tokens (with any page size each time) or page numbers (with one size);
`Insert` and `Delete` are other database clients. The upstream's sorting is external:
`InOrder` has each row at its `Place`, the number of rows up to it in the statement's
order. `AskedOrder` is the order the client asked for, whatever the adapter sends.

### ConnectorPayload and the code

`RequirePayload` is `_require_connector_payload`: `ResolveNames` its name defaults
(1501-1551), `Resolve` with the transformation of outputs (1619-1625), `Valid` the
schema validation, of which only what it asks of the names is kept (whether the
rest of the schema is satisfied is the payload's `good`). `Transform` is
`transform_connector_request` (connectors.py:39-100), `Forward` what the adapter's
six methods send, `TargetName` the name in the audit log. A name may be blank or
padded, a property absent, flat, nested in `settings`, or both.

### CodePackages, PackageStore and the code

`Describe` and `Misread` are `_code_package_exists`: any `UpstreamAPIError`
counts as "no". `Apply`, `Succeed`, `Reject` and `Fail` are the request that
follows and its ways of ending; between `Describe` and `Apply` anything may
happen to the package. `Fail` is the client's three kinds of failure
(client.py:109-173): only an HTTP 5xx is retryable, whether or not the write was
applied, and `Retry` is the loop docs/client-patterns.md recommends. `Accepted`
and `NewVersions` are the upstream's rules, as the tools and their texts take
them. `PackageStore` knows neither requests nor questions: an attempt takes
effect at one moment (`TakeEffect`, mapped to `Apply`) as an upsert, a clone or
a revert of the package as it is then. `before` and `seen` are history.

### Readiness and the code

A request has up to two threads: `check[r]` runs the readiness check, `thread[r]`
the upstream action, and both go on after `join(timeout=2.0)` gave them up
(`JoinEnds` holds at any time). `loop` is the request that keeps the event loop:
always for the endpoints, and for tools when FastMCP runs them there
(`onLoop`). `holder[r]` is `result_holder` or `ready_holder`, with its different
first values. Of the session client only the lock, the session and the re-send
are kept; a forgotten probe still takes part. Clock and timeouts are abstracted
to "at any time".

### AutoTransport and the code

`Proxied` is all that `mcp_auto` and `_proxy_to_target` do to an answer:
converted to JSON, searched, given a `recovery` member, rebuilt without its
headers. A client is one of the two helpers or a program that wants JSON only;
`stage` says which request of which attempt it waits for. FastMCP and the network
are external: sessions are in memory, `Restart` forgets them, `Break` loses a
request before or after it was run. `says` is what the two text searches can
tell apart in an answer. `executed` counts the runs of the call's tool.
The helpers send `Accept: application/json, text/event-stream`
(mcp_http_helper.py:61), so they are not JSON-only callers, contrary to
README.md:650; the module goes by the code.

## Runs

| Run | Question | Bounds |
|---|---|---|
| `SessionClient` | do login, invalidation and re-send keep their invariants, does the client implement `ActionCall`, does every call return? | 2 threads, 2 calls each, 2 faults: a thread's second call meets what its first left behind, and both can be refused with one token; for more threads the safety properties are proved |
| `WriteTools` | do the tools implement `ApprovedWrite`, leave the right traces, and send nothing but a lookup for a dry run? | 2 calls of any two tools, every preset, the default allowlist and one without write and admin: calls share only policy and metrics |
| `Verify` | do the verifiers tell the truth, and end? | 2 calls, one scalar, one list member, 2 polls: a second writer can undo the first between its polls, and the last poll meets the deadline |
| `SqlPaging` | do the pages make up the result, in how many pages, and whom does the upstream refuse? | 4 rows, page sizes 0 to 2 (0 is rejected), 2 changes, 8 pages (no walk takes more than 5, `WalkIsShort`); any rows, sizes and numbers of changes are proved |
| `CodePackages` | is each attempt atomic, has each refusal a cause, does a retried update keep every version? | 2 calls of any two tools, 2 packages, 2 attempts each, 2 troubles: a package is deleted between two requests of one call while the other creates it |
| `Readiness` | are answers true of the request's own threads, and is everyone answered? | 2 requests, 1 dropped session: the second meets the lock, the session and the late threads the first left behind |
| `AutoTransport` | does a call run its tool once, is its answer true, does a quiet call succeed? | 1 client of each kind, 4 calls, 3 troubles: clients share only the server's memory, which `Restart` empties for all; any number of clients is proved |
| `DryRunLocal` | violated: dry runs go upstream | 1 call |
| `DeleteOutput` | violated: delete_output never deletes | 1 payload of every shape |
| `TableVerified` | violated: an alteration is verified by nothing | 1 call |
| `SqlToken` | violated: a token may make the next page fail | the same tables, no changes |
| `HelperRecovery` | violated: a helper does not recover from a restart | 1 client, 1 restart |

Calls in `WriteTools` are interchangeable, hence the symmetry; runs with liveness
use none. The deadlock check is on everywhere: `Quiescent` (or `Ended`, `Done`)
is the only way to stop.

### What the violated runs show

* `DryRunStaysLocal`: every preview carries the warning "Dry run is a local preview
  only and does not call FairCom backend APIs." (server.py:831), but the preview of
  create_input, alter_input, create_output and alter_output looks the named
  service up with `listServices` (server.py:911).
* `DeleteOutputDeletes`: `_require_connector_payload` transforms an output payload
  first (server.py:1619), which removes `connectorName` (connectors.py:74), and then
  validates it, which demands `connectorName` (server.py:989).
* `TableVerifiedWasTrue`: the table's verifier asks only for no mismatch
  (server.py:3526), so a description that shows none of the requested scalar fields
  verifies the alteration; its two siblings (2558, 4070) ask for a compared field.
* `TokenFetchesNextPage`: the order in a token is appended to a statement that has
  an ORDER BY already (sql.py:50-60).
* `LostSessionRecovered`: a request with a lost session is answered with HTTP 404
  (docs/final-closure-report-2026-07-28.md:50); both helpers raise on the status
  (mcp_http_helper.py:70, mcpHttpHelper.mjs:75) before they look for the reason
  code they are said to act on (README.md:651), keep the id, and raise again.

## Fairness

* `SessionClient`: weak fairness of each thread's steps. The threads are scheduled,
  and httpx gives every request a timeout, so a request ends. The lock is not
  fair; with `MaxCalls` calls per thread nobody can be overtaken for ever, and
  nothing is claimed beyond that.
* `PostCommitVerify`: weak fairness of each call's steps; none for `Apply`, since the
  upstream may leave a write unapplied.
* `SqlPaging`: the client asks for the next page while there is one; none for other
  clients' changes.
* `CodePackages`: weak fairness of each call: requests are answered or time out, and
  the client keeps to its pattern; none for other clients' deletes.
* `Readiness`: weak fairness of the loop's steps for each request and of each
  upstream thread (httpx times out); none for `CheckEnds`: a check may hang for ever.
* `AutoTransport`: the server answers what reaches it and the program reads the
  answer; none for restarts and broken requests, and none for beginning a call.

## Proofs

`SessionClientProofs`, for any set of threads and any bounds, assumes only the
named assumptions of `SessionClient`. The invariants are not inductive: that a
refused token does not come back depends on every token under way. `IInv` adds

* `LockInv`: the lock is held exactly while a login is out, and then the cache is
  empty (which makes logins exclude each other);
* `LegInv`: what a thread has sent at each point of its two attempts;
* `IssuedInv`: tokens are numbered as granted and nobody holds one not granted;
* `YoungerInv`: every token a second attempt can still meet, cached or in a login
  response under way, is younger than the one refused.

`TypeCorrect`, `LoginsExclude` and `RefusedTokensStayGone` follow from it.
`EffectsAtMostOnce` shows step by step that the client implements `ActionCall`,
provided `TRUE \notin Lookalikes`. `OneFaultIsSurvived` needs a second invariant
that counts the faults: with one fault behind it, a refused first attempt has
used it up.

`WriteToolsProofs`, for any set of calls and any configured allowlists, assumes
only `ConfiguredAssumption`. Its `IInv` is `TypeOK` and, for every call,

* `OpenInv`: what the stages the call has left behind have made sure of (past the
  preview it is no dry run, past the validation its payload is good, past the
  confirmation it is confirmed, before the write nothing has been done);
* `ClientInv`: the client runs for a call only in the write stage of an approved one;
* `DoneInv`: what the log holds once the call is answered.

The 17 tools need no case each: `ToolTable` says that the stages of every tool are
one of five orders, `OrderShape` that each order has preview, validation and
confirmation before the write, and `FinishInv` and `AdvanceInv` treat once what
answering and moving on to the next stage have in common. `TypeCorrect` and
`WritesLogged` follow from `IInv`. `WritesAreApproved` maps the effect of the
write to `TakeEffect`, an answer to `Close` and every other step to a stutter.
`EveryCallCountsOnce` needs `CountInv` on top: the calls counted as successes and
those counted as errors are two sets, finite at any time (also when `Calls` is not,
since each step adds one call at most), whose sizes are the counters. `CountStep`
treats once what it means that a step counts a call or counts nothing; each action
then only has to say which set its call joins. `DryRunsOnlyLookUp` adds to `IInv`
that only a tool with a lookup has sent anything for a dry run.

`ConnectorPayloadProofs`, for any names, values and properties, needs no
assumption. `StageInv` says that what is resolved and sent are functions of the
payload; the theorems are then facts about `Resolve` and `Transform`:
`NoDeleteOutput` (no delete_output is ever sent, the general form of the finding),
`AuditNames`, `ValidatedSent` (the second transformation of an output changes
nothing) and `SentCanonical` (nothing the client gave is lost).

`CodePackagesProofs` is for any calls, packages, attempts and troubles. `IInv` adds
`PhaseInv` (an attempt has taken effect once its answer is under way, not before)
and `StaleInv` (what register has learnt holds until somebody moves the package).
`RejectionsHaveCause` follows from `StaleInv`; `AtomicAttempts` maps `Apply` to
`TakeEffect`, where `StaleInv` is not needed because the upstream refuses a request
that went by a stale answer; `QuietRegisters` needs an invariant on the versions
a quiet call has added so far.

`ReadinessProofs`, for any requests and expiries: `PlaceInv` (nothing is started
twice or before its time), `HolderInv` (a holder is written by its own check only)
and `ConclusionInv` (what was concluded from a check stays true of it) are kept
by every request's steps and, by `Frame`, by everybody else's. `HealthTrue` and
`ReadyTrue` follow.

`AutoTransportProofs`, for any clients, framings and bounds: `WireInv` (what a client
waits for) and `ExecInv` (how often the tool has been run at each point of the two
attempts) give `ExecutesOnce` and `AnswersAreTrue`; `QuietCallsSucceed` needs, on
top, what a call to which nothing happened knows of its session.

`PostCommitVerifyProofs`, for any calls, fields, values, payloads and replies:
`ProgressInv` (no verdict before the end; a call one of whose descriptions agreed
is about to compare it, or done and not timed out) gives `ShownNotTimedOut` for
any upstream. `VerifiedTrue` needs `TruthInv` (what an agreeing description shows
did hold) and the assumption that the upstream never describes a record by
another's name, `"stray" \notin Replies`; without it the property is false (hazard
list, server.py:2531).

`SqlPagingProofs` is for any finite set of rows, any page sizes, any number of
inserts and deletes and any bound on the pages that `PagesAssumption` allows. It
reasons about a row's `Place`: `PlacesTaken` shows that the places of the rows
of a table are the numbers from 1 to its size (an injection of a finite set into
one of its size is onto), so that `InOrder` is well defined; `InOrderPlaces` that it
holds every row once, at its place; `InOrderSorts` that an earlier row comes
first in it; `PagePlaces` that a page holds exactly
the rows of its own places; `PlaceMonotone` that inserts move rows to later places
only, deletes to earlier ones. `StatementOrder` says what the adapter makes of the
statement, `order_by` and the token, and `PageStep` puts a page together from that.
`IInv` adds to the properties what is true in the middle of a walk:

* `TokenInv`: a token holds the order the client gave, or none;
* `WalkInv`: a client that is still walking has had full pages only, so there were
  as many rows before the next page as it has asked for pages, at least;
* `QuietInv`: over a quiet table, it has been given exactly the rows before the next
  page;
* `InsertInv`: with inserts alone, of the rows that were there all along those before
  the next page have been delivered;
* `DeleteInv`: with deletes alone, what has been delivered and is still there is before
  the next page.

The five properties of the run follow; `WalksAreShort` also shows that the bound
`MaxPages` never stops a walk. `OrderedTokensAreUseless` is the general form of the
run `SqlToken`: a client that gave `order_by` never reads a second page by token.

Model-checked only: liveness (`EveryCallReturns`, `VerificationEnds`, `WalkEnds`,
`CallsEnd`, `EveryoneIsAnswered`, `ProbesEnd`, `CallsReturn`), since fairness and
ENABLED are out of the prover's reach. Every invariant and every refinement that a
passing run checks is also a theorem, some under the assumptions named above.

## Plan

Modelled, in this order: the session client, the write tools, verification,
paging, connector payloads, code packages, readiness, transport; each has its run
and its theorems. Left:

1. `describe_table` of `api/tables.py`: two requests to two APIs whose errors are
   swallowed one after the other; whether a table that is there can be described
   as empty, or by another's record.
2. The entries of `propertyMapList` in `ConnectorPayload` (data types, divisors),
   and `_extract_error_code` as pure operators.
3. Measures that every step of a call makes smaller, as theorems: they bound the
   steps of a call without fairness, and leave to TLC only that a step is enabled.

## Not modelled

A GET for an event stream (`AutoTransport` is about POST), the separate application of
`transports/health.py` (no thread, no state) and the lifespan of the two wrapped
applications. The contract and capability texts, connector schema registries, configuration
parsing, logging, redaction, tracing and the HTTP layer are static data, pure
functions or I/O. The read tools make one stateless upstream read. Retries of
idempotent requests (`request_json`) are not reached by any tool: `json_action`
passes `idempotent=False`. The audit log grows without a bound, by design.
