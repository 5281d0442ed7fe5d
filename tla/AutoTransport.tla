--------------------------- MODULE AutoTransport ---------------------------
(***************************************************************************)
(* The /mcp endpoint of create_http_app (src/src/faircom_mcp/server.py)    *)
(* between client programs and the FastMCP application it wraps: the proxy *)
(* rewrites Accept, turns an event stream into JSON for a caller that      *)
(* wants JSON only, and adds a "recovery" member to an answer that speaks  *)
(* of a lost session.  The programs use one of the two helpers of          *)
(* src/examples/clients, or recover as the README tells a JSON-only client *)
(* to: initialize again and retry once.                                    *)
(*                                                                         *)
(* FastMCP is external.  It keeps the sessions in memory, so they are gone *)
(* when the server restarts; it answers an unknown session with an HTTP    *)
(* error in JSON, and everything else in the framing it is configured for. *)
(* The text of an answer is abstracted to what the two searches in it tell *)
(* apart: nothing, the words "session" and "expired", or the literal       *)
(* "stale_session", which holds those words, too.                          *)
(***************************************************************************)
EXTENDS Naturals

CONSTANTS
    Clients,     \* client programs, each with a helper object of its own
    Kinds,       \* the kinds of clients in the instance
    Framings,    \* how the FastMCP application may frame its answers
    MaxCalls,    \* bound: calls each program makes, initialize() included
    MaxTroubles  \* bound: restarts, broken requests and failed initializations

ASSUME KindsAssumption == Kinds \subseteq {"python", "javascript", "jsonOnly"}
ASSUME FramingsAssumption == Framings \subseteq {"sse", "json"}
ASSUME BoundsAssumption == MaxCalls \in Nat /\ MaxTroubles \in Nat

VARIABLES
    setup,       \* [kind, framing]: who calls, and FastMCP's framing; constant
    id,          \* id[c]: the session id c sends, 0 for none
    stage,       \* stage[c]: which request c waits for, or "idle"
    wire,        \* wire[c]: that request, or its answer
    sessions,    \* FastMCP: the sessions in memory
    issued,      \* FastMCP: ids given out so far
    calls,       \* calls[c]: calls c has begun
    outcome,     \* outcome[c]: how its latest call ended
    executed,    \* executed[c]: how often that call's tool has been run, up to 3
    seen,        \* history: what happened to that call
    troubles     \* counts MaxTroubles

vars == <<setup, id, stage, wire, sessions, issued, calls, outcome, executed,
          seen, troubles>>

\* What may happen to a call: its session was lost before it began, something
\* went wrong since, or its tool spoke of sessions.
Events == {"lost", "trouble", "spoke"}

NoId == 0
Ids == 0..issued
Stages == {"idle", "manual", "open", "first", "reopen", "second"}
Opening == {"manual", "open", "reopen"}
Says == {"plain", "words", "code"}
Outcomes == {"none", "ok", "opened", "refused", "failed"}

NoWire == [at |-> "none"]
Request(what, i) == [at |-> "asked", what |-> what, id |-> i]
Reply(status, i, says, recovery) ==
    [at |-> "answered", status |-> status, id |-> i, says |-> says, recovery |-> recovery]

Kind(c) == setup.kind[c]
----------------------------------------------------------------------------
(* The proxy.                                                              *)

\* Whether the caller's Accept asks for JSON and for nothing else.
WantsJsonOnly(k) == k = "jsonOnly"

\* The search for "session" with "missing", "not found", "stale" or "expired".
SpeaksOfSession(says) == says # "plain"

\* The member added to an answer that is searched.
Recovery(searched, says) ==
    IF searched /\ SpeaksOfSession(says) THEN "reinitialize" ELSE "none"

\* Mutant of Proxied: only converted event streams are searched.
ProxiedConvertedOnly(k, framing, status, i, says) ==
    LET converted == framing = "sse" /\ WantsJsonOnly(k)
    IN  Reply(status, IF converted THEN NoId ELSE i, says, Recovery(converted, says))

\* _proxy_to_target and the rest of mcp_auto: the answer of the wrapped
\* application as the caller gets it.  What is rebuilt as a JSONResponse, a
\* converted event stream or an enriched answer, loses the headers, and with
\* them the Mcp-Session-Id.
Proxied(k, framing, status, i, says) ==
    LET converted == framing = "sse" /\ WantsJsonOnly(k)
        recovery == Recovery(converted \/ framing = "json", says)
    IN  Reply(status, IF converted \/ recovery # "none" THEN NoId ELSE i, says, recovery)

\* Mutant of NeedsReinitialize: every first answer is taken for a lost session.
ReinitializeAlways(k, reply) == TRUE

\* The helpers search the text, recovery included, for the two reason codes;
\* the JSON-only client looks at the recovery member.
NeedsReinitialize(k, reply) ==
    reply.recovery # "none" \/ (reply.says = "code" /\ ~WantsJsonOnly(k))

\* raise_for_status, !response.ok: the helpers raise on any HTTP error before
\* they look at the body.
Raises(k, reply) == reply.status # "ok" /\ ~WantsJsonOnly(k)
----------------------------------------------------------------------------
Init ==
    /\ setup \in [kind : [Clients -> Kinds], framing : Framings]
    /\ id = [c \in Clients |-> NoId]
    /\ stage = [c \in Clients |-> "idle"]
    /\ wire = [c \in Clients |-> NoWire]
    /\ sessions = {}
    /\ issued = 0
    /\ calls = [c \in Clients |-> 0]
    /\ outcome = [c \in Clients |-> "none"]
    /\ executed = [c \in Clients |-> 0]
    /\ seen = [c \in Clients |-> {}]
    /\ troubles = 0

Post(c, s, what, i) ==
    /\ stage' = [stage EXCEPT ![c] = s]
    /\ wire' = [wire EXCEPT ![c] = Request(what, i)]

\* Mutant of PostInitialize: the call is tried again in the session it has, and
\* the answer looked at as before.
PostCallAgain(c, s, i) ==
    IF s = "reopen" THEN Post(c, "first", "call", i) ELSE Post(c, s, "initialize", NoId)

\* initialize(): the JavaScript helper sends the id it has, the others none.
PostInitialize(c, s, i) ==
    Post(c, s, "initialize", IF Kind(c) = "javascript" THEN i ELSE NoId)

Begin(c) ==
    /\ stage[c] = "idle" /\ calls[c] < MaxCalls
    /\ calls' = [calls EXCEPT ![c] = @ + 1]
    /\ outcome' = [outcome EXCEPT ![c] = "none"]
    /\ executed' = [executed EXCEPT ![c] = 0]
    /\ seen' = [seen EXCEPT ![c] =
                   IF id[c] \in {NoId} \cup sessions THEN {} ELSE {"lost"}]
    /\ UNCHANGED <<setup, id, sessions, issued, troubles>>

\* call_tool.
CallTool(c) ==
    /\ Begin(c)
    /\ IF id[c] = NoId THEN PostInitialize(c, "open", id[c])
                       ELSE Post(c, "first", "call", id[c])

\* The program calls initialize() by itself.
Initialize(c) == Begin(c) /\ PostInitialize(c, "manual", id[c])

End(c, o) ==
    /\ stage' = [stage EXCEPT ![c] = "idle"]
    /\ wire' = [wire EXCEPT ![c] = NoWire]
    /\ outcome' = [outcome EXCEPT ![c] = o]

\* The answer to an initialize.  The id of its header, none if there is none, is
\* kept before the answer is looked at.
ReceiveSession(c) ==
    /\ wire[c].at = "answered" /\ stage[c] \in Opening
    /\ id' = [id EXCEPT ![c] = wire[c].id]
    /\ IF wire[c].status # "ok"
       THEN End(c, IF wire[c].status = "lost" THEN "refused" ELSE "failed")
       ELSE CASE stage[c] = "manual" -> End(c, "opened")
              [] stage[c] = "open" ->
                    Post(c, "first", "call", wire[c].id) /\ UNCHANGED outcome
              [] stage[c] = "reopen" ->
                    Post(c, "second", "call", wire[c].id) /\ UNCHANGED outcome
    /\ UNCHANGED <<setup, sessions, issued, calls, executed, seen, troubles>>

\* Mutant of Retries: the second answer is looked at like the first.
RetriesAlways(c) == stage[c] \in {"first", "second"}

\* Only the first answer of a call may lead to another attempt.
Retries(c) == stage[c] = "first"

\* The answer to a tools/call.
ReceiveResult(c) ==
    /\ wire[c].at = "answered" /\ stage[c] \in {"first", "second"}
    /\ IF Retries(c) /\ ~Raises(Kind(c), wire[c])
          /\ NeedsReinitialize(Kind(c), wire[c])
       THEN PostInitialize(c, "reopen", id[c]) /\ UNCHANGED outcome
       ELSE End(c, CASE wire[c].status = "ok" -> "ok"
                     [] wire[c].status = "lost" -> "refused")
    /\ UNCHANGED <<setup, id, sessions, issued, calls, executed, seen, troubles>>

\* Mutant of Fails: a broken tools/call is sent again.
FailsAndRepeats(c) ==
    IF stage[c] = "first" THEN Post(c, "second", "call", id[c]) /\ UNCHANGED outcome
    ELSE End(c, "failed")

\* The connection breaks or the request times out: httpx and fetch raise.
Fails(c) == End(c, "failed")
----------------------------------------------------------------------------
(* FastMCP and the network, external.                                      *)

Answer(c, status, i, says) ==
    wire' = [wire EXCEPT ![c] = Proxied(Kind(c),
                IF status = "ok" THEN setup.framing ELSE "json", status, i, says)]

\* An initialize opens a session, or is let through in the one it names.
OpenSession(c) ==
    /\ wire[c].at = "asked" /\ wire[c].what = "initialize"
    /\ \/ /\ wire[c].id = NoId
          /\ issued' = issued + 1
          /\ sessions' = sessions \cup {issued + 1}
          /\ Answer(c, "ok", issued + 1, "plain")
       \/ /\ wire[c].id \in sessions
          /\ Answer(c, "ok", wire[c].id, "plain")
          /\ UNCHANGED <<issued, sessions>>
    /\ UNCHANGED <<setup, id, stage, calls, outcome, executed, seen, troubles>>

\* The tool of a tools/call is run in the session it names.
RunTool(c) ==
    /\ wire[c].at = "asked" /\ wire[c].what = "call"
    /\ wire[c].id \in sessions
    /\ executed' = [executed EXCEPT ![c] = IF @ < 3 THEN @ + 1 ELSE @]
    /\ \E says \in Says :
          /\ Answer(c, "ok", wire[c].id, says)
          /\ seen' = [seen EXCEPT ![c] =
                         IF SpeaksOfSession(says) THEN @ \cup {"spoke"} ELSE @]
    /\ UNCHANGED <<setup, id, stage, sessions, issued, calls, outcome, troubles>>

\* "Missing session", "Session not found": no session, or one that is gone.
RefuseSession(c) ==
    /\ wire[c].at = "asked" /\ wire[c].id \notin sessions
    /\ wire[c].id = NoId => wire[c].what = "call"
    /\ Answer(c, "lost", NoId, "words")
    /\ UNCHANGED <<setup, id, stage, sessions, issued, calls, outcome, executed,
                   seen, troubles>>

Trouble(cs) ==
    /\ troubles < MaxTroubles
    /\ troubles' = troubles + 1
    /\ seen' = [c \in Clients |->
                   IF c \in cs THEN seen[c] \cup {"trouble"} ELSE seen[c]]

\* An initialize is answered with an HTTP error that is not about sessions.
FailToOpen(c) ==
    /\ wire[c].at = "asked" /\ wire[c].what = "initialize"
    /\ Trouble({c})
    /\ Answer(c, "error", NoId, "plain")
    /\ UNCHANGED <<setup, id, stage, sessions, issued, calls, outcome, executed>>

\* The request is lost on its way there or back; what it did, or does after
\* the timeout, is done by now.
Break(c) ==
    /\ wire[c].at # "none"
    /\ Trouble({c})
    /\ Fails(c)
    /\ UNCHANGED <<setup, id, sessions, issued, calls, executed>>

Restart ==
    /\ Trouble(Clients)
    /\ sessions' = {}
    /\ UNCHANGED <<setup, id, stage, wire, issued, calls, outcome, executed>>
----------------------------------------------------------------------------
ClientStep(c) == ReceiveSession(c) \/ ReceiveResult(c)
ServerStep(c) == OpenSession(c) \/ RunTool(c) \/ RefuseSession(c)

Quiescent ==
    /\ \A c \in Clients : stage[c] = "idle" /\ calls[c] = MaxCalls
    /\ UNCHANGED vars

Next ==
    \/ \E c \in Clients : \/ CallTool(c) \/ Initialize(c)
                          \/ ClientStep(c) \/ ServerStep(c)
                          \/ FailToOpen(c) \/ Break(c)
    \/ Restart
    \/ Quiescent

Spec == Init /\ [][Next]_vars

\* The server answers what reaches it and the program reads the answer.
FairSpec == Spec /\ \A c \in Clients : WF_vars(ClientStep(c)) /\ WF_vars(ServerStep(c))
----------------------------------------------------------------------------
Requests == [at : {"asked"}, what : {"initialize", "call"}, id : Ids]
Replies == [at : {"answered"}, status : {"ok", "lost", "error"}, id : Ids,
            says : Says, recovery : {"none", "reinitialize"}]

\* An answer is waited for exactly while a request is under way, and no call
\* takes more than two attempts.
TypeOK ==
    /\ setup \in [kind : [Clients -> Kinds], framing : Framings]
    /\ issued \in Nat /\ sessions \subseteq 1..issued
    /\ id \in [Clients -> Ids]
    /\ stage \in [Clients -> Stages]
    /\ wire \in [Clients -> {NoWire} \cup Requests \cup Replies]
    /\ \A c \in Clients : stage[c] = "idle" <=> wire[c] = NoWire
    /\ calls \in [Clients -> 0..MaxCalls] /\ troubles \in 0..MaxTroubles
    /\ outcome \in [Clients -> Outcomes] /\ executed \in [Clients -> 0..2]
    /\ seen \in [Clients -> SUBSET Events]

\* A call runs its tool once at most, whatever breaks and however often the
\* session is lost, unless an answer of that tool speaks of sessions itself; the
\* searches of proxy and helper take such an answer for a lost session.
ExecutedOnce ==
    \A c \in Clients : executed[c] > 1 => "spoke" \in seen[c]

\* A call that returns a result has run its tool, and one that is told that its
\* session is lost has not, again unless the tool itself spoke of sessions.
AnswerIsTrue ==
    \A c \in Clients :
        /\ outcome[c] = "ok" => executed[c] > 0
        /\ outcome[c] = "refused" => executed[c] = 0 \/ "spoke" \in seen[c]

\* A call during which nothing goes wrong is not refused for its session:
\* whatever earlier calls left behind, a helper that has no session or a live
\* one succeeds, and a client that reads the recovery member succeeds even with
\* a lost one, as long as its session id reaches it.
QuietCallSucceeds ==
    \A c \in Clients : stage[c] = "idle" /\ calls[c] > 0 /\ "trouble" \notin seen[c] =>
        \/ outcome[c] \in {"ok", "opened"}
        \/ "lost" \in seen[c] /\ ~WantsJsonOnly(Kind(c))
        \/ setup.framing = "sse" /\ WantsJsonOnly(Kind(c))

\* README.md:651, of the helpers: "reinitialize once and retry when reason_code
\* indicates missing_session or stale_session".  A call during which nothing
\* goes wrong ends well also when the session it starts with is lost.
LostSessionRecovered ==
    \A c \in Clients : stage[c] = "idle" /\ calls[c] > 0 /\ "trouble" \notin seen[c] =>
        outcome[c] \in {"ok", "opened"}

\* Every call comes to an end.
CallsReturn == \A c \in Clients : stage[c] # "idle" ~> stage[c] = "idle"
=============================================================================
