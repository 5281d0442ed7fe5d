------------------------ MODULE AutoTransportProofs ------------------------
(***************************************************************************)
(* Theorems about AutoTransport, for any clients, kinds, framings, bounds. *)
(***************************************************************************)
EXTENDS AutoTransport, TLAPS

Wires == {NoWire} \cup Requests \cup Replies

Asked(c) == wire[c].at = "asked"
Answered(c) == wire[c].at = "answered"
Spoke(c) == "spoke" \in seen[c]

\* A client waits for an initialize or for a tools/call, and only the latter's
\* answer is a result or a refusal.
WireInv(c) ==
    /\ stage[c] # "idle" => outcome[c] = "none"
    /\ Asked(c) => (stage[c] \in Opening <=> wire[c].what = "initialize")
    /\ Answered(c) /\ stage[c] \notin Opening => wire[c].status \in {"ok", "lost"}

\* How often the tool has been run at each point of a call's two attempts, and
\* that a second attempt follows a first one that ran it only if that one's
\* answer spoke of sessions.
ExecInv(c) ==
    /\ stage[c] \in {"manual", "open"} => executed[c] = 0
    /\ stage[c] = "first" /\ Asked(c) => executed[c] = 0
    /\ stage[c] = "first" /\ Answered(c) =>
          /\ wire[c].status = "lost" => executed[c] = 0
          /\ wire[c].status = "ok" => executed[c] = 1
          /\ executed[c] = 1 /\ SpeaksOfSession(wire[c].says) => Spoke(c)
          /\ wire[c].recovery # "none" => SpeaksOfSession(wire[c].says)
    /\ stage[c] = "reopen" \/ (stage[c] = "second" /\ Asked(c)) =>
          executed[c] = 0 \/ (executed[c] = 1 /\ Spoke(c))
    /\ stage[c] = "second" /\ Answered(c) =>
          /\ executed[c] \in 0..2
          /\ executed[c] = 2 => Spoke(c)
          /\ wire[c].status = "lost" => executed[c] = 0 \/ Spoke(c)
          /\ wire[c].status = "ok" => executed[c] > 0
    /\ stage[c] = "idle" =>
          /\ executed[c] > 1 => Spoke(c)
          /\ outcome[c] = "ok" => executed[c] > 0
          /\ outcome[c] = "refused" => executed[c] = 0 \/ Spoke(c)

IInv == TypeOK /\ \A c \in Clients : WireInv(c) /\ ExecInv(c)
----------------------------------------------------------------------------
LEMMA InitIInv == Init => IInv
  BY BoundsAssumption
     DEF Init, IInv, TypeOK, WireInv, ExecInv, Asked, Answered, Spoke, Stages,
         Outcomes, NoWire, NoId, Ids, Events, Opening

\* The answer the proxy gives is a reply, with the status and the words of the
\* answer it was given, and a recovery member only if those speak of sessions.
LEMMA ProxiedFields ==
    ASSUME NEW k, NEW framing, NEW status \in {"ok", "lost", "error"},
           NEW i \in Nat, NEW says \in Says
    PROVE  LET r == Proxied(k, framing, status, i, says)
           IN  /\ r.at = "answered" /\ r.status = status /\ r.says = says
               /\ r.id \in {NoId, i}
               /\ r.recovery \in {"none", "reinitialize"}
               /\ r.recovery # "none" => SpeaksOfSession(says)
               /\ r = [at |-> "answered", status |-> status, id |-> r.id,
                       says |-> says, recovery |-> r.recovery]
  BY DEF Proxied, Reply, Recovery

\* A call whose variables a step leaves alone keeps its invariant.
LEMMA Frame ==
    ASSUME NEW d \in Clients, WireInv(d), ExecInv(d),
           wire'[d] = wire[d], stage'[d] = stage[d], executed'[d] = executed[d],
           outcome'[d] = outcome[d], Spoke(d)' <=> Spoke(d)
    PROVE  WireInv(d)' /\ ExecInv(d)'
  BY DEF WireInv, ExecInv, Asked, Answered

\* What PostInitialize puts on the wire.
LEMMA PostInitializeFields ==
    ASSUME TypeOK, NEW c \in Clients, NEW s, NEW i \in Ids, PostInitialize(c, s, i)
    PROVE  \E j \in Ids :
              /\ stage' = [stage EXCEPT ![c] = s]
              /\ wire' = [wire EXCEPT ![c] = Request("initialize", j)]
              /\ j = NoId \/ (j = i /\ Kind(c) = "javascript")
<1> DEFINE j == IF Kind(c) = "javascript" THEN i ELSE NoId
<1>1. j \in Ids
  BY DEF NoId, Ids, TypeOK
<1>2. /\ stage' = [stage EXCEPT ![c] = s]
      /\ wire' = [wire EXCEPT ![c] = Request("initialize", j)]
  BY DEF PostInitialize, Post
<1>3. QED
  BY <1>1, <1>2

\* The wire keeps its type when one client's changes.
LEMMA WireType ==
    ASSUME TypeOK, NEW c \in Clients, NEW w, issued' \in Nat, issued <= issued',
           w \in Wires', wire' = [wire EXCEPT ![c] = w]
    PROVE  wire' \in [Clients -> Wires']
<1>1. ASSUME NEW u \in Wires PROVE u \in Wires'
  BY <1>1 DEF Wires, Requests, Replies, Ids, TypeOK
<1>2. QED
  BY <1>1 DEF TypeOK, Wires

\* A request, or an answer of the proxy, is on the wire.
LEMMA RequestType ==
    ASSUME NEW what \in {"initialize", "call"}, NEW i \in Ids
    PROVE  /\ Request(what, i) \in Wires /\ Request(what, i) # NoWire
           /\ Request(what, i).at = "asked" /\ Request(what, i).what = what
           /\ Request(what, i).id = i
  BY DEF Request, Wires, Requests, NoWire

\* What an answer puts on the wire.
LEMMA AnswerFields ==
    ASSUME TypeOK, NEW c \in Clients, NEW status \in {"ok", "lost", "error"},
           NEW i \in Nat, NEW says \in Says, Answer(c, status, i, says)
    PROVE  \E w : /\ wire' = [wire EXCEPT ![c] = w]
                  /\ w.at = "answered" /\ w.status = status /\ w.says = says
                  /\ w.id \in {NoId, i}
                  /\ w.recovery \in {"none", "reinitialize"}
                  /\ w.recovery # "none" => SpeaksOfSession(says)
                  /\ w # NoWire
                  /\ (i <= issued') /\ issued' \in Nat => w \in Wires'
<1> DEFINE framing == IF status = "ok" THEN setup.framing ELSE "json"
           w == Proxied(Kind(c), framing, status, i, says)
<1>1. wire' = [wire EXCEPT ![c] = w]
  BY DEF Answer
<1>2. /\ w.at = "answered" /\ w.status = status /\ w.says = says
      /\ w.id \in {NoId, i}
      /\ w.recovery \in {"none", "reinitialize"}
      /\ w.recovery # "none" => SpeaksOfSession(says)
      /\ w = [at |-> "answered", status |-> status, id |-> w.id,
              says |-> says, recovery |-> w.recovery]
  BY ProxiedFields
<1> HIDE DEF w
<1>3. w # NoWire
  BY <1>2 DEF NoWire
<1>4. (i <= issued') /\ issued' \in Nat => w \in Wires'
  BY <1>2 DEF Wires, Replies, Ids, NoId
<1>5. QED
  BY <1>1, <1>2, <1>3, <1>4

\* What a step of client c, or of the server for it, has to keep.
LEMMA CallStepInv ==
    ASSUME IInv, NEW c \in Clients, NEW w \in Wires', NEW s \in Stages,
           wire' = [wire EXCEPT ![c] = w], stage' = [stage EXCEPT ![c] = s],
           s = "idle" <=> w = NoWire, setup' = setup,
           issued' \in Nat, issued <= issued', sessions' \subseteq 1..issued',
           id' \in [Clients -> Ids'], calls' \in [Clients -> 0..MaxCalls],
           troubles' \in 0..MaxTroubles, seen' \in [Clients -> SUBSET Events],
           executed' \in [Clients -> 0..2], outcome' \in [Clients -> Outcomes],
           \A d \in Clients \ {c} :
              executed'[d] = executed[d] /\ outcome'[d] = outcome[d]
              /\ (Spoke(d)' <=> Spoke(d)),
           WireInv(c)' /\ ExecInv(c)'
    PROVE  IInv'
<1>1. wire' \in [Clients -> Wires']
  BY WireType DEF IInv
<1>2. TypeOK'
  BY <1>1 DEF IInv, TypeOK, Wires, Ids
<1>3. ASSUME NEW d \in Clients, d # c PROVE WireInv(d)' /\ ExecInv(d)'
  BY <1>3, Frame DEF IInv, TypeOK
<1>4. QED
  BY <1>2, <1>3 DEF IInv

\* The same for a step that leaves the sessions alone.
LEMMA ClientStepInv ==
    ASSUME IInv, NEW c \in Clients, NEW w \in Wires, NEW s \in Stages,
           wire' = [wire EXCEPT ![c] = w], stage' = [stage EXCEPT ![c] = s],
           s = "idle" <=> w = NoWire,
           UNCHANGED <<setup, sessions, issued>>,
           id' \in [Clients -> Ids], calls' \in [Clients -> 0..MaxCalls],
           troubles' \in 0..MaxTroubles, seen' \in [Clients -> SUBSET Events],
           executed' \in [Clients -> 0..2], outcome' \in [Clients -> Outcomes],
           \A d \in Clients \ {c} :
              executed'[d] = executed[d] /\ outcome'[d] = outcome[d]
              /\ (Spoke(d)' <=> Spoke(d)),
           WireInv(c)' /\ ExecInv(c)'
    PROVE  IInv'
<1>1. Wires' = Wires /\ Ids' = Ids
  BY DEF Wires, Requests, Replies, Ids
<1>2. issued' \in Nat /\ issued <= issued' /\ sessions' \subseteq 1..issued'
  BY DEF IInv, TypeOK
<1>3. w \in Wires' /\ id' \in [Clients -> Ids']
  BY <1>1
<1>4. QED
  BY <1>2, <1>3, CallStepInv

LEMMA BeginInv == ASSUME IInv, NEW c \in Clients, CallTool(c) \/ Initialize(c) PROVE IInv'
<1> USE DEF IInv, TypeOK
<1>1. /\ stage[c] = "idle" /\ calls' = [calls EXCEPT ![c] = @ + 1]
      /\ calls[c] < MaxCalls
      /\ outcome' = [outcome EXCEPT ![c] = "none"]
      /\ executed' = [executed EXCEPT ![c] = 0]
      /\ \E es \in SUBSET Events : seen' = [seen EXCEPT ![c] = es]
      /\ UNCHANGED <<setup, id, sessions, issued, troubles>>
  BY DEF CallTool, Initialize, Begin, Events
<1>2. \E s \in {"first", "open", "manual"} : \E what \in {"initialize", "call"} : \E i \in Ids :
         /\ stage' = [stage EXCEPT ![c] = s]
         /\ wire' = [wire EXCEPT ![c] = Request(what, i)]
         /\ what = "call" <=> s = "first"
  <2>1. CASE CallTool(c) /\ id[c] # NoId
    BY <2>1 DEF CallTool, Post
  <2>2. CASE CallTool(c) /\ id[c] = NoId
    <3>1. PostInitialize(c, "open", id[c])
      BY <2>2 DEF CallTool
    <3>2. QED
      BY <3>1, PostInitializeFields
  <2>3. CASE Initialize(c)
    <3>1. PostInitialize(c, "manual", id[c])
      BY <2>3 DEF Initialize
    <3>2. QED
      BY <3>1, PostInitializeFields
  <2>4. QED
    BY <2>1, <2>2, <2>3
<1>3. PICK s \in {"first", "open", "manual"}, what \in {"initialize", "call"}, i \in Ids :
         /\ stage' = [stage EXCEPT ![c] = s]
         /\ wire' = [wire EXCEPT ![c] = Request(what, i)]
         /\ what = "call" <=> s = "first"
  BY <1>2
<1>4. stage'[c] = s /\ wire'[c] = Request(what, i) /\ executed'[c] = 0 /\ outcome'[c] = "none"
  BY <1>1, <1>3
<1>5. WireInv(c)' /\ ExecInv(c)'
  BY <1>3, <1>4, RequestType DEF WireInv, ExecInv, Asked, Answered, Opening
<1>6. calls' \in [Clients -> 0..MaxCalls]
  BY <1>1, BoundsAssumption
<1>7. /\ seen' \in [Clients -> SUBSET Events]
      /\ \A d \in Clients \ {c} : Spoke(d)' <=> Spoke(d)
  BY <1>1 DEF Spoke
<1>8. /\ executed' \in [Clients -> 0..2] /\ outcome' \in [Clients -> Outcomes]
      /\ \A d \in Clients \ {c} : executed'[d] = executed[d] /\ outcome'[d] = outcome[d]
  BY <1>1 DEF Outcomes
<1>9. s \in Stages /\ s # "idle" /\ Request(what, i) \in Wires /\ Request(what, i) # NoWire
  BY RequestType DEF Stages
<1> HIDE DEF IInv, TypeOK
<1>10. QED
  BY <1>1, <1>3, <1>5, <1>6, <1>7, <1>8, <1>9, ClientStepInv DEF IInv, TypeOK, Ids

\* A call ends.
LEMMA EndFields ==
    ASSUME TypeOK, NEW c \in Clients, NEW o \in Outcomes, End(c, o)
    PROVE  /\ stage' = [stage EXCEPT ![c] = "idle"] /\ stage'[c] = "idle"
           /\ wire' = [wire EXCEPT ![c] = NoWire] /\ wire'[c] = NoWire
           /\ outcome' \in [Clients -> Outcomes] /\ outcome'[c] = o
           /\ \A d \in Clients \ {c} : outcome'[d] = outcome[d]
  BY DEF End, TypeOK

LEMMA EndInv ==
    ASSUME IInv, NEW c \in Clients, NEW o \in Outcomes, End(c, o),
           UNCHANGED <<setup, sessions, issued, calls, executed>>,
           id' \in [Clients -> Ids],
           troubles' \in 0..MaxTroubles, seen' \in [Clients -> SUBSET Events],
           \A d \in Clients : Spoke(d)' <=> Spoke(d),
           executed[c] > 1 => Spoke(c),
           o = "ok" => executed[c] > 0,
           o = "refused" => executed[c] = 0 \/ Spoke(c)
    PROVE  IInv'
<1>1. TypeOK
  BY DEF IInv
<1>2. /\ stage' = [stage EXCEPT ![c] = "idle"] /\ stage'[c] = "idle"
      /\ wire' = [wire EXCEPT ![c] = NoWire] /\ wire'[c] = NoWire
      /\ outcome' \in [Clients -> Outcomes] /\ outcome'[c] = o
      /\ \A d \in Clients \ {c} : outcome'[d] = outcome[d]
  BY <1>1, EndFields
<1>3. WireInv(c)' /\ ExecInv(c)'
  BY <1>2 DEF WireInv, ExecInv, Asked, Answered, NoWire
<1>4. "idle" \in Stages /\ NoWire \in Wires
  BY DEF Stages, Wires
<1>5. calls' \in [Clients -> 0..MaxCalls] /\ executed' \in [Clients -> 0..2]
  BY <1>1 DEF TypeOK
<1>6. QED
  BY <1>2, <1>3, <1>4, <1>5, ClientStepInv

\* A client that has read an answer sends another request of the same call.
LEMMA PostInv ==
    ASSUME IInv, NEW c \in Clients, NEW s \in {"first", "reopen", "second"},
           NEW what \in {"initialize", "call"}, NEW i \in Ids,
           what = "initialize" <=> s = "reopen",
           stage' = [stage EXCEPT ![c] = s],
           wire' = [wire EXCEPT ![c] = Request(what, i)],
           UNCHANGED <<setup, sessions, issued, calls, executed, seen, troubles, outcome>>,
           id' \in [Clients -> Ids], stage[c] # "idle",
           s = "first" => executed[c] = 0,
           executed[c] = 0 \/ (executed[c] = 1 /\ Spoke(c))
    PROVE  IInv'
<1>1. TypeOK /\ WireInv(c)
  BY DEF IInv
<1>2. stage'[c] = s /\ wire'[c] = Request(what, i) /\ outcome'[c] = "none"
  BY <1>1 DEF TypeOK, WireInv
<1>3. (Spoke(c)' <=> Spoke(c)) /\ executed'[c] = executed[c]
  BY DEF Spoke
<1>4. WireInv(c)' /\ ExecInv(c)'
  BY <1>2, <1>3, RequestType DEF WireInv, ExecInv, Asked, Answered, Opening
<1>5. s \in Stages /\ s # "idle" /\ Request(what, i) \in Wires /\ Request(what, i) # NoWire
  BY RequestType DEF Stages
<1>6. /\ calls' \in [Clients -> 0..MaxCalls] /\ troubles' \in 0..MaxTroubles
      /\ seen' \in [Clients -> SUBSET Events] /\ executed' \in [Clients -> 0..2]
      /\ outcome' \in [Clients -> Outcomes]
      /\ \A d \in Clients \ {c} : Spoke(d)' <=> Spoke(d)
  BY <1>1 DEF TypeOK, Spoke
<1>7. QED
  BY <1>4, <1>5, <1>6, ClientStepInv

LEMMA ReceiveSessionInv == ASSUME IInv, NEW c \in Clients, ReceiveSession(c) PROVE IInv'
<1>1. /\ TypeOK /\ WireInv(c) /\ ExecInv(c)
      /\ Answered(c) /\ stage[c] \in Opening
      /\ id' = [id EXCEPT ![c] = wire[c].id]
      /\ UNCHANGED <<setup, sessions, issued, calls, executed, seen, troubles>>
  BY DEF IInv, ReceiveSession, Answered
<1>2. wire[c].id \in Ids
  <2>1. wire[c] \in Replies
    BY <1>1 DEF TypeOK, Answered, NoWire, Requests
  <2>2. QED
    BY <2>1 DEF Replies
<1>3. id' \in [Clients -> Ids]
  BY <1>1, <1>2 DEF TypeOK
<1>4. /\ executed[c] = 0 \/ (executed[c] = 1 /\ Spoke(c))
      /\ stage[c] \in {"manual", "open"} => executed[c] = 0
  BY <1>1 DEF ExecInv, Opening
<1>5. ASSUME NEW o \in Outcomes, End(c, o), o # "ok" PROVE IInv'
  <2>1. troubles' \in 0..MaxTroubles /\ seen' \in [Clients -> SUBSET Events]
    BY <1>1 DEF TypeOK
  <2>2. \A d \in Clients : Spoke(d)' <=> Spoke(d)
    BY <1>1 DEF Spoke
  <2>3. QED
    BY <1>1, <1>3, <1>4, <1>5, <2>1, <2>2, EndInv
<1>6. ASSUME NEW s \in {"first", "second"}, Post(c, s, "call", wire[c].id),
             UNCHANGED outcome, s = "first" => stage[c] = "open"
      PROVE  IInv'
  <2>1. stage[c] # "idle" /\ (s = "first" => executed[c] = 0)
    BY <1>1, <1>4, <1>6 DEF Opening
  <2>2. /\ stage' = [stage EXCEPT ![c] = s]
        /\ wire' = [wire EXCEPT ![c] = Request("call", wire[c].id)]
    BY <1>6 DEF Post
  <2>3. QED
    BY <1>1, <1>2, <1>3, <1>4, <1>6, <2>1, <2>2, PostInv
<1>7. QED
  BY <1>1, <1>5, <1>6 DEF ReceiveSession, Outcomes, Opening

LEMMA ReceiveResultInv == ASSUME IInv, NEW c \in Clients, ReceiveResult(c) PROVE IInv'
<1>1. /\ TypeOK /\ WireInv(c) /\ ExecInv(c)
      /\ Answered(c) /\ stage[c] \in {"first", "second"}
      /\ UNCHANGED <<setup, id, sessions, issued, calls, executed, seen, troubles>>
  BY DEF IInv, ReceiveResult, Answered
<1>2. wire[c].status \in {"ok", "lost"} /\ id' \in [Clients -> Ids]
  BY <1>1 DEF WireInv, Opening, TypeOK, Ids
<1>3. CASE Retries(c) /\ ~Raises(Kind(c), wire[c]) /\ NeedsReinitialize(Kind(c), wire[c])
  <2>1. PostInitialize(c, "reopen", id[c]) /\ UNCHANGED outcome /\ stage[c] = "first"
    BY <1>3 DEF ReceiveResult, Retries
  <2>2. id[c] \in Ids
    BY <1>1 DEF TypeOK
  <2>3. PICK j \in Ids : /\ stage' = [stage EXCEPT ![c] = "reopen"]
                         /\ wire' = [wire EXCEPT ![c] = Request("initialize", j)]
    BY <1>1, <2>1, <2>2, PostInitializeFields
  <2>4. wire[c].status = "ok" => SpeaksOfSession(wire[c].says)
    BY <1>1, <1>3, <2>1 DEF NeedsReinitialize, SpeaksOfSession, ExecInv
  <2>5. executed[c] = 0 \/ (executed[c] = 1 /\ Spoke(c))
    BY <1>1, <1>2, <2>1, <2>4 DEF ExecInv
  <2>6. QED
    BY <1>1, <1>2, <2>1, <2>3, <2>5, PostInv
<1>4. CASE ~(Retries(c) /\ ~Raises(Kind(c), wire[c]) /\ NeedsReinitialize(Kind(c), wire[c]))
  <2>1. PICK o \in {"ok", "refused"} :
           /\ End(c, o)
           /\ o = "ok" <=> wire[c].status = "ok"
    BY <1>2, <1>4 DEF ReceiveResult
  <2>2. /\ executed[c] > 1 => Spoke(c)
        /\ o = "ok" => executed[c] > 0
        /\ o = "refused" => executed[c] = 0 \/ Spoke(c)
    BY <1>1, <1>2, <2>1 DEF ExecInv, TypeOK
  <2>3. troubles' \in 0..MaxTroubles /\ seen' \in [Clients -> SUBSET Events]
    BY <1>1 DEF TypeOK
  <2>4. \A d \in Clients : Spoke(d)' <=> Spoke(d)
    BY <1>1 DEF Spoke
  <2>5. o \in Outcomes
    BY DEF Outcomes
  <2>6. QED
    BY <1>1, <1>2, <2>1, <2>2, <2>3, <2>4, <2>5, EndInv
<1>5. QED
  BY <1>3, <1>4

\* The server answers a request: what the answer's status and the call's history
\* have to say of each other.
LEMMA AnswerInv ==
    ASSUME IInv, NEW c \in Clients, NEW status \in {"ok", "lost", "error"},
           NEW i \in Nat, NEW says \in Says, Answer(c, status, i, says), Asked(c),
           stage' = stage, setup' = setup, id' = id, calls' = calls, outcome' = outcome,
           issued' \in Nat, issued <= issued', sessions' \subseteq 1..issued', i <= issued',
           troubles' \in 0..MaxTroubles, seen' \in [Clients -> SUBSET Events],
           executed' \in [Clients -> 0..2],
           \A d \in Clients \ {c} : executed'[d] = executed[d] /\ (Spoke(d)' <=> Spoke(d)),
           Spoke(c) => Spoke(c)',
           stage[c] \in Opening => executed'[c] = executed[c],
           stage[c] \notin Opening =>
              /\ status \in {"ok", "lost"}
              /\ executed'[c] = IF status = "ok" THEN executed[c] + 1 ELSE executed[c]
              /\ status = "ok" /\ SpeaksOfSession(says) => Spoke(c)'
    PROVE  IInv'
<1>1. TypeOK /\ WireInv(c) /\ ExecInv(c)
  BY DEF IInv
<1>2. PICK w : /\ wire' = [wire EXCEPT ![c] = w]
               /\ w.at = "answered" /\ w.status = status /\ w.says = says
               /\ w.id \in {NoId, i}
               /\ w.recovery \in {"none", "reinitialize"}
               /\ w.recovery # "none" => SpeaksOfSession(says)
               /\ w # NoWire
               /\ (i <= issued') /\ issued' \in Nat => w \in Wires'
  BY <1>1, AnswerFields
<1>3. stage[c] # "idle" /\ stage[c] \in Stages
  BY <1>1 DEF TypeOK, Asked, NoWire
<1>4. wire'[c] = w /\ stage'[c] = stage[c] /\ outcome'[c] = outcome[c]
  BY <1>1, <1>2 DEF TypeOK
<1>5. WireInv(c)'
  BY <1>1, <1>2, <1>3, <1>4 DEF WireInv, Asked, Answered
<1>6. executed[c] \in 0..2
  BY <1>1 DEF TypeOK
<1>7. ExecInv(c)'
  <2>1. CASE stage[c] \in {"manual", "open", "reopen"}
    BY <1>1, <1>2, <1>4, <2>1 DEF ExecInv, Asked, Answered, Opening
  <2>2. CASE stage[c] = "first"
    BY <1>1, <1>2, <1>4, <2>2 DEF ExecInv, Asked, Answered, Opening
  <2>3. CASE stage[c] = "second"
    BY <1>1, <1>2, <1>4, <1>6, <2>3 DEF ExecInv, Asked, Answered, Opening
  <2>4. QED
    BY <1>3, <2>1, <2>2, <2>3 DEF Stages
<1>8. /\ id' \in [Clients -> Ids'] /\ calls' \in [Clients -> 0..MaxCalls]
      /\ outcome' \in [Clients -> Outcomes]
  BY <1>1 DEF TypeOK, Ids
<1>9. stage' = [stage EXCEPT ![c] = stage[c]]
  BY <1>1 DEF TypeOK
<1>10. w \in Wires'
  BY <1>2
<1>11. QED
  BY <1>2, <1>3, <1>5, <1>7, <1>8, <1>9, <1>10, CallStepInv

LEMMA OpenSessionInv == ASSUME IInv, NEW c \in Clients, OpenSession(c) PROVE IInv'
<1>1. /\ TypeOK /\ WireInv(c) /\ Asked(c) /\ stage[c] \in Opening
      /\ UNCHANGED <<setup, id, stage, calls, outcome, executed, seen, troubles>>
  BY DEF IInv, OpenSession, WireInv, Asked
<1>2. PICK i \in Nat : /\ Answer(c, "ok", i, "plain")
                       /\ issued' \in Nat /\ issued <= issued' /\ i <= issued'
                       /\ sessions' \subseteq 1..issued'
  <2>1. CASE wire[c].id = NoId /\ issued' = issued + 1 /\ sessions' = sessions \cup {issued + 1}
             /\ Answer(c, "ok", issued + 1, "plain")
    BY <1>1, <2>1 DEF TypeOK
  <2>2. CASE wire[c].id \in sessions /\ Answer(c, "ok", wire[c].id, "plain")
             /\ UNCHANGED <<issued, sessions>>
    <3>1. wire[c].id \in 1..issued /\ issued \in Nat /\ sessions \subseteq 1..issued
      BY <1>1, <2>2 DEF TypeOK
    <3>2. wire[c].id \in Nat /\ wire[c].id <= issued'
      BY <2>2, <3>1
    <3>3. QED
      BY <2>2, <3>1, <3>2
  <2>3. QED
    BY <2>1, <2>2 DEF OpenSession
<1>3. /\ \A d \in Clients : Spoke(d)' <=> Spoke(d)
      /\ "plain" \in Says /\ executed' = executed /\ executed' \in [Clients -> 0..2]
      /\ troubles' \in 0..MaxTroubles /\ seen' \in [Clients -> SUBSET Events]
  BY <1>1 DEF Spoke, Says, TypeOK
<1>4. QED
  BY <1>1, <1>2, <1>3, AnswerInv

LEMMA RunToolInv == ASSUME IInv, NEW c \in Clients, RunTool(c) PROVE IInv'
<1>1. /\ TypeOK /\ WireInv(c) /\ ExecInv(c) /\ Asked(c) /\ stage[c] \notin Opening
      /\ wire[c].id \in Nat /\ wire[c].id <= issued
      /\ executed' = [executed EXCEPT ![c] = IF @ < 3 THEN @ + 1 ELSE @]
      /\ UNCHANGED <<setup, id, stage, sessions, issued, calls, outcome, troubles>>
  <2>1. /\ TypeOK /\ WireInv(c) /\ ExecInv(c) /\ Asked(c) /\ wire[c].what = "call"
        /\ wire[c].id \in sessions
        /\ executed' = [executed EXCEPT ![c] = IF @ < 3 THEN @ + 1 ELSE @]
        /\ UNCHANGED <<setup, id, stage, sessions, issued, calls, outcome, troubles>>
    BY DEF IInv, RunTool, Asked
  <2>2. stage[c] \notin Opening
    BY <2>1 DEF WireInv
  <2>3. wire[c].id \in Nat /\ wire[c].id <= issued
    <3>1. sessions \subseteq 1..issued /\ issued \in Nat
      BY <2>1 DEF TypeOK
    <3>2. wire[c].id \in sessions
      BY <2>1
    <3>3. wire[c].id \in 1..issued
      BY <3>1, <3>2, Zenon
    <3>4. QED
      BY <3>1, <3>3
  <2>4. QED
    BY <2>1, <2>2, <2>3
<1>2. executed[c] \in 0..1
  <2>1. stage[c] \in {"first", "second"}
    BY <1>1 DEF TypeOK, Asked, NoWire, Stages, Opening
  <2>2. QED
    BY <1>1, <2>1 DEF ExecInv
<1>3. PICK says \in Says : /\ Answer(c, "ok", wire[c].id, says)
                           /\ seen' = [seen EXCEPT ![c] =
                                 IF SpeaksOfSession(says) THEN @ \cup {"spoke"} ELSE @]
  BY DEF RunTool
<1>4. executed' = [executed EXCEPT ![c] = executed[c] + 1]
  <2>1. executed[c] < 3
    BY <1>2
  <2>2. QED
    BY <1>1, <2>1
<1>5. /\ executed' \in [Clients -> 0..2] /\ executed'[c] = executed[c] + 1
      /\ \A d \in Clients \ {c} : executed'[d] = executed[d]
  BY <1>1, <1>2, <1>4 DEF TypeOK
<1>6. /\ seen' \in [Clients -> SUBSET Events]
      /\ \A d \in Clients \ {c} : Spoke(d)' <=> Spoke(d)
      /\ Spoke(c) => Spoke(c)'
      /\ SpeaksOfSession(says) => Spoke(c)'
  BY <1>1, <1>3 DEF Spoke, TypeOK, Events
<1>7. issued' \in Nat /\ issued <= issued' /\ sessions' \subseteq 1..issued'
      /\ troubles' \in 0..MaxTroubles
  BY <1>1 DEF TypeOK
<1>8. QED
  BY <1>1, <1>3, <1>5, <1>6, <1>7, AnswerInv

LEMMA RefuseSessionInv == ASSUME IInv, NEW c \in Clients, RefuseSession(c) PROVE IInv'
<1>1. /\ TypeOK /\ Asked(c) /\ Answer(c, "lost", NoId, "words")
      /\ UNCHANGED <<setup, id, stage, sessions, issued, calls, outcome, executed,
                     seen, troubles>>
  BY DEF IInv, RefuseSession, Asked
<1>2. /\ \A d \in Clients : Spoke(d)' <=> Spoke(d)
      /\ "words" \in Says /\ executed' = executed /\ executed' \in [Clients -> 0..2]
      /\ troubles' \in 0..MaxTroubles /\ seen' \in [Clients -> SUBSET Events]
      /\ issued' \in Nat /\ issued <= issued' /\ sessions' \subseteq 1..issued'
      /\ NoId \in Nat /\ NoId <= issued'
  BY <1>1 DEF Spoke, Says, TypeOK, NoId
<1>3. QED
  BY <1>1, <1>2, AnswerInv

\* Trouble is marked, counted, and nothing else.
LEMMA TroubleFields ==
    ASSUME TypeOK, NEW cs \in SUBSET Clients, Trouble(cs)
    PROVE  /\ troubles' \in 0..MaxTroubles
           /\ seen' \in [Clients -> SUBSET Events]
           /\ \A d \in Clients : Spoke(d)' <=> Spoke(d)
  BY BoundsAssumption DEF Trouble, TypeOK, Spoke, Events

LEMMA FailToOpenInv == ASSUME IInv, NEW c \in Clients, FailToOpen(c) PROVE IInv'
<1>1. /\ TypeOK /\ WireInv(c) /\ Asked(c) /\ stage[c] \in Opening
      /\ Trouble({c}) /\ Answer(c, "error", NoId, "plain")
      /\ UNCHANGED <<setup, id, stage, sessions, issued, calls, outcome, executed>>
  BY DEF IInv, FailToOpen, WireInv, Asked
<1>2. /\ "plain" \in Says /\ executed' = executed /\ executed' \in [Clients -> 0..2]
      /\ issued' \in Nat /\ issued <= issued' /\ sessions' \subseteq 1..issued'
      /\ NoId \in Nat /\ NoId <= issued'
  BY <1>1 DEF Says, TypeOK, NoId
<1>3. QED
  BY <1>1, <1>2, TroubleFields, AnswerInv

LEMMA BreakInv == ASSUME IInv, NEW c \in Clients, Break(c) PROVE IInv'
<1>1. /\ TypeOK /\ ExecInv(c) /\ WireInv(c) /\ wire[c].at # "none"
      /\ Trouble({c}) /\ End(c, "failed")
      /\ UNCHANGED <<setup, id, sessions, issued, calls, executed>>
  BY DEF IInv, Break, Fails
<1>2. executed[c] > 1 => Spoke(c)
  <2>1. stage[c] \in Stages \ {"idle"} /\ (Asked(c) \/ Answered(c))
    BY <1>1 DEF TypeOK, NoWire, Requests, Replies, Asked, Answered
  <2>2. executed[c] \in 0..2
    BY <1>1 DEF TypeOK
  <2>3. stage[c] = "first" /\ Answered(c) => executed[c] <= 1
    BY <1>1 DEF ExecInv, WireInv, Opening
  <2>4. QED
    BY <1>1, <2>1, <2>2, <2>3 DEF ExecInv, Stages
<1>3. id' \in [Clients -> Ids] /\ "failed" \in Outcomes
  BY <1>1 DEF TypeOK, Outcomes
<1>4. QED
  BY <1>1, <1>2, <1>3, TroubleFields, EndInv

LEMMA RestartInv == ASSUME IInv, Restart PROVE IInv'
<1>1. /\ TypeOK /\ Trouble(Clients) /\ sessions' = {}
      /\ UNCHANGED <<setup, id, stage, wire, issued, calls, outcome, executed>>
  BY DEF IInv, Restart
<1>2. TypeOK'
  BY <1>1, TroubleFields DEF TypeOK, Requests, Replies, Ids
<1>3. ASSUME NEW d \in Clients PROVE WireInv(d)' /\ ExecInv(d)'
  BY <1>1, TroubleFields, Frame DEF IInv
<1>4. QED
  BY <1>2, <1>3 DEF IInv

\* No step of a client, of the server or of the network breaks the invariant.
LEMMA StepIInv == IInv /\ [Next]_vars => IInv'
<1> SUFFICES ASSUME IInv, [Next]_vars PROVE IInv'
  OBVIOUS
<1>1. CASE UNCHANGED vars
  BY <1>1 DEF vars, IInv, TypeOK, WireInv, ExecInv, Asked, Answered, Spoke, Ids,
              Requests, Replies
<1>2. QED
  BY <1>1, BeginInv, ReceiveSessionInv, ReceiveResultInv, OpenSessionInv, RunToolInv,
     RefuseSessionInv, FailToOpenInv, BreakInv, RestartInv
     DEF Next, ClientStep, ServerStep, Quiescent

LEMMA InductiveInvariant == Spec => []IInv
  BY InitIInv, StepIInv, PTL DEF Spec

\* Every variable keeps its type, a client waits exactly while a request is
\* under way, and no call makes more than two attempts.
THEOREM TypeCorrect == Spec => []TypeOK
<1>1. IInv => TypeOK
  BY DEF IInv
<1>2. QED
  BY <1>1, InductiveInvariant, PTL

\* A call runs its tool once at most, unless the tool's answer speaks of sessions
\* (the retry of call_tool in both helpers).
THEOREM ExecutesOnce == Spec => []ExecutedOnce
<1>1. IInv => ExecutedOnce
  <2> SUFFICES ASSUME IInv, NEW c \in Clients, executed[c] > 1 PROVE Spoke(c)
    BY DEF ExecutedOnce, Spoke
  <2>1. TypeOK /\ ExecInv(c) /\ WireInv(c)
    BY DEF IInv
  <2>2. executed[c] = 2 /\ stage[c] \in Stages /\ (stage[c] = "idle" \/ Asked(c) \/ Answered(c))
    BY <2>1 DEF TypeOK, Requests, Replies, Asked, Answered
  <2>3. stage[c] = "first" /\ Answered(c) => executed[c] <= 1
    BY <2>1 DEF ExecInv, WireInv, Opening
  <2>4. QED
    BY <2>1, <2>2, <2>3 DEF ExecInv, Stages
<1>2. QED
  BY <1>1, InductiveInvariant, PTL

\* A call that returns a result has run its tool, and one that is refused for its
\* session has not, unless the tool's answer spoke of sessions.
THEOREM AnswersAreTrue == Spec => []AnswerIsTrue
<1>1. IInv => AnswerIsTrue
  <2> SUFFICES ASSUME IInv, NEW c \in Clients
               PROVE  /\ outcome[c] = "ok" => executed[c] > 0
                      /\ outcome[c] = "refused" => executed[c] = 0 \/ Spoke(c)
    BY DEF AnswerIsTrue, Spoke
  <2>1. stage[c] = "idle" \/ outcome[c] = "none"
    BY DEF IInv, WireInv
  <2>2. QED
    BY <2>1 DEF IInv, ExecInv
<1>2. QED
  BY <1>1, InductiveInvariant, PTL
----------------------------------------------------------------------------
Helper(c) == ~WantsJsonOnly(Kind(c))

\* The calls that must not be refused: nothing went wrong since they began, and
\* either they began with no session or a live one, or their client reads the
\* recovery member, and gets its session ids.
Covered(c) ==
    /\ "trouble" \notin seen[c]
    /\ ~("lost" \in seen[c] /\ Helper(c))
    /\ ~(setup.framing = "sse" /\ WantsJsonOnly(Kind(c)))

\* Such a call initializes without an id or with a live one, gets a live one,
\* and calls its tool in it; only the first attempt of a client that reads the
\* recovery member may be in a lost session, and is told so.
SessionInv(c) == Covered(c) =>
    /\ stage[c] = "idle" /\ calls[c] > 0 => outcome[c] \in {"ok", "opened"}
    /\ Asked(c) /\ stage[c] \in Opening => wire[c].id \in {NoId} \cup sessions
    /\ Answered(c) /\ stage[c] \in Opening =>
          wire[c].status = "ok" /\ wire[c].id \in sessions
    /\ Asked(c) /\ stage[c] \notin Opening =>
          wire[c].id \in sessions \/ (stage[c] = "first" /\ ~Helper(c))
    /\ Answered(c) /\ stage[c] \notin Opening =>
          \/ wire[c].status = "ok"
          \/ stage[c] = "first" /\ ~Helper(c) /\ wire[c].recovery # "none"
    /\ stage[c] = "first" /\ Helper(c) => id[c] \in sessions

QuietInv == \A c \in Clients : SessionInv(c)

\* A session that is opened for another call, or one marked with trouble, is no
\* harm.
LEMMA SessionFrame ==
    ASSUME NEW d \in Clients, SessionInv(d), setup' = setup, sessions \subseteq sessions',
           wire'[d] = wire[d], stage'[d] = stage[d], outcome'[d] = outcome[d],
           calls'[d] = calls[d], id'[d] = id[d], seen[d] \subseteq seen'[d]
    PROVE  SessionInv(d)'
<1>1. Covered(d)' => Covered(d)
  BY DEF Covered, Helper, Kind
<1>2. QED
  BY <1>1 DEF SessionInv, Asked, Answered, Helper, Kind

\* The proxy passes the id of an initialize on to those who can use it, and tells
\* a JSON-only client of a lost session.
LEMMA ProxiedSession ==
    ASSUME NEW c \in Clients, ~(setup.framing = "sse" /\ WantsJsonOnly(Kind(c))),
           NEW i \in Nat
    PROVE  /\ Proxied(Kind(c), setup.framing, "ok", i, "plain").id = i
           /\ Proxied(Kind(c), "json", "lost", i, "words").recovery # "none"
  BY DEF Proxied, Reply, Recovery, SpeaksOfSession

LEMMA StepQuiet == IInv /\ QuietInv /\ [Next]_vars => QuietInv'
<1> SUFFICES ASSUME IInv, QuietInv, [Next]_vars, NEW d \in Clients PROVE SessionInv(d)'
  BY DEF QuietInv
<1>0. /\ SessionInv(d) /\ TypeOK /\ WireInv(d)
      /\ stage[d] = "idle" <=> wire[d] = NoWire
  BY DEF QuietInv, IInv, TypeOK
<1>1. ASSUME NEW c \in Clients, CallTool(c) \/ Initialize(c) PROVE SessionInv(d)'
  <2>1. /\ stage[c] = "idle"
        /\ seen' = [seen EXCEPT ![c] =
                      IF id[c] \in {NoId} \cup sessions THEN {} ELSE {"lost"}]
        /\ UNCHANGED <<setup, id, sessions>>
    BY <1>1 DEF CallTool, Initialize, Begin
  <2>2. CASE d # c
    <3>1. /\ wire'[d] = wire[d] /\ stage'[d] = stage[d] /\ outcome'[d] = outcome[d]
          /\ calls'[d] = calls[d] /\ seen'[d] = seen[d]
      <4>1. Begin(c)
        BY <1>1 DEF CallTool, Initialize
      <4>2. outcome'[d] = outcome[d] /\ calls'[d] = calls[d] /\ seen'[d] = seen[d]
        BY <2>2, <4>1 DEF Begin
      <4>3. ASSUME NEW s, NEW what, NEW i, Post(c, s, what, i)
            PROVE  wire'[d] = wire[d] /\ stage'[d] = stage[d]
        BY <2>2, <4>3 DEF Post
      <4>4. \E s, what, i : Post(c, s, what, i)
        BY <1>1 DEF CallTool, Initialize, PostInitialize
      <4>5. QED
        BY <4>2, <4>3, <4>4
    <3>2. QED
      BY <1>0, <2>1, <3>1, SessionFrame
  <2>3. CASE d = c
    <3> SUFFICES ASSUME Covered(c)' PROVE SessionInv(c)'
      BY <2>3 DEF SessionInv
    <3>1. Helper(c) => id[c] \in {NoId} \cup sessions
      BY <1>0, <2>1 DEF Covered, Helper, Kind, TypeOK
    <3>2. id[c] \in Ids
      BY <1>0 DEF TypeOK
    <3>3. CASE CallTool(c) /\ id[c] # NoId
      <4>1. stage'[c] = "first" /\ wire'[c] = Request("call", id[c])
        BY <1>0, <3>3 DEF CallTool, Post, TypeOK
      <4>2. QED
        BY <2>1, <3>1, <3>2, <3>3, <4>1, RequestType
           DEF SessionInv, Asked, Answered, Opening, Helper, Kind
    <3>4. CASE PostInitialize(c, "open", id[c]) \/ PostInitialize(c, "manual", id[c])
      <4>1. PICK s \in {"open", "manual"}, j \in Ids :
               /\ stage'[c] = s /\ wire'[c] = Request("initialize", j)
               /\ j = NoId \/ (j = id[c] /\ Kind(c) = "javascript")
        BY <1>0, <3>2, <3>4, PostInitializeFields DEF TypeOK
      <4>2. j \in {NoId} \cup sessions
        BY <3>1, <4>1 DEF Helper, WantsJsonOnly
      <4>3. QED
        BY <2>1, <4>1, <4>2, RequestType DEF SessionInv, Asked, Answered, Opening
    <3>5. QED
      BY <1>1, <3>3, <3>4 DEF CallTool, Initialize
  <2>4. QED
    BY <2>2, <2>3
<1>2. ASSUME NEW c \in Clients, d # c,
             ReceiveSession(c) \/ ReceiveResult(c) \/ OpenSession(c) \/ RunTool(c)
             \/ RefuseSession(c)
      PROVE  SessionInv(d)'
  <2>1. /\ setup' = setup /\ sessions \subseteq sessions' /\ calls' = calls
        /\ id'[d] = id[d] /\ seen[d] \subseteq seen'[d]
    <3>1. CASE ReceiveSession(c)
      BY <1>2, <3>1 DEF ReceiveSession
    <3>2. CASE ReceiveResult(c)
      BY <3>2 DEF ReceiveResult
    <3>3. CASE OpenSession(c)
      BY <3>3 DEF OpenSession
    <3>4. CASE RunTool(c)
      BY <1>2, <3>4 DEF RunTool
    <3>5. CASE RefuseSession(c)
      BY <3>5 DEF RefuseSession
    <3>6. QED
      BY <1>2, <3>1, <3>2, <3>3, <3>4, <3>5
  <2>2. wire'[d] = wire[d] /\ stage'[d] = stage[d] /\ outcome'[d] = outcome[d]
    <3>1. ASSUME NEW o, End(c, o) PROVE wire'[d] = wire[d] /\ stage'[d] = stage[d]
                                        /\ outcome'[d] = outcome[d]
      BY <1>2, <3>1 DEF End
    <3>2. ASSUME NEW s, NEW what, NEW i, Post(c, s, what, i)
          PROVE  wire'[d] = wire[d] /\ stage'[d] = stage[d]
      BY <1>2, <3>2 DEF Post
    <3>3. ASSUME NEW status, NEW i, NEW says, Answer(c, status, i, says)
          PROVE  wire'[d] = wire[d]
      BY <1>2, <3>3 DEF Answer
    <3>4. CASE ReceiveSession(c)
      <4>1. stage[c] \in Opening
        BY <3>4 DEF ReceiveSession
      <4>2. QED
        BY <3>1, <3>2, <3>4, <4>1 DEF ReceiveSession, Opening
    <3>5. CASE ReceiveResult(c)
      BY <3>1, <3>2, <3>5 DEF ReceiveResult, PostInitialize
    <3>6. CASE OpenSession(c)
      BY <3>3, <3>6 DEF OpenSession
    <3>7. CASE RunTool(c)
      BY <3>3, <3>7 DEF RunTool
    <3>8. CASE RefuseSession(c)
      BY <3>3, <3>8 DEF RefuseSession
    <3>9. QED
      BY <1>2, <3>4, <3>5, <3>6, <3>7, <3>8
  <2>3. QED
    BY <1>0, <2>1, <2>2, SessionFrame
<1>3. ASSUME ReceiveSession(d) PROVE SessionInv(d)'
  <2>1. /\ Answered(d) /\ stage[d] \in Opening
        /\ id' = [id EXCEPT ![d] = wire[d].id]
        /\ UNCHANGED <<setup, sessions, calls, seen>>
    BY <1>3 DEF ReceiveSession, Answered
  <2> SUFFICES ASSUME Covered(d) PROVE SessionInv(d)'
    BY <2>1 DEF SessionInv, Covered, Helper, Kind
  <2>2. wire[d].status = "ok" /\ wire[d].id \in sessions /\ wire[d].id \in Ids
    <3>1. wire[d].status = "ok" /\ wire[d].id \in sessions
      BY <1>0, <2>1 DEF SessionInv
    <3>2. sessions \subseteq 1..issued /\ issued \in Nat
      BY <1>0 DEF TypeOK
    <3>3. wire[d].id \in 1..issued
      BY <3>1, <3>2, Zenon
    <3>4. QED
      BY <3>1, <3>2, <3>3 DEF Ids
  <2>3. CASE End(d, "opened")
    BY <1>0, <2>1, <2>3, EndFields DEF SessionInv, Outcomes, Asked, Answered, NoWire
  <2>4. ASSUME NEW s \in {"first", "second"}, Post(d, s, "call", wire[d].id)
        PROVE  SessionInv(d)'
    <3>1. stage'[d] = s /\ wire'[d] = Request("call", wire[d].id) /\ id'[d] = wire[d].id
      BY <1>0, <2>1, <2>4 DEF Post, TypeOK
    <3>2. QED
      BY <2>1, <2>2, <3>1, RequestType DEF SessionInv, Asked, Answered, Opening
  <2>5. QED
    BY <1>3, <2>1, <2>2, <2>3, <2>4 DEF ReceiveSession, Opening
<1>4. ASSUME ReceiveResult(d) PROVE SessionInv(d)'
  <2>1. /\ Answered(d) /\ stage[d] \in {"first", "second"} /\ stage[d] \notin Opening
        /\ UNCHANGED <<setup, id, sessions, calls, seen>>
    BY <1>4 DEF ReceiveResult, Answered, Opening
  <2> SUFFICES ASSUME Covered(d) PROVE SessionInv(d)'
    BY <2>1 DEF SessionInv, Covered, Helper, Kind
  <2>2. \/ wire[d].status = "ok"
        \/ stage[d] = "first" /\ ~Helper(d) /\ wire[d].recovery # "none"
    BY <1>0, <2>1 DEF SessionInv
  <2>3. CASE PostInitialize(d, "reopen", id[d]) /\ stage[d] = "first"
    <3>1. PICK j \in Ids :
             /\ stage' = [stage EXCEPT ![d] = "reopen"]
             /\ wire' = [wire EXCEPT ![d] = Request("initialize", j)]
             /\ j = NoId \/ (j = id[d] /\ Kind(d) = "javascript")
      BY <1>0, <2>3, PostInitializeFields DEF TypeOK
    <3>2. stage'[d] = "reopen" /\ wire'[d] = Request("initialize", j)
      BY <1>0, <3>1 DEF TypeOK
    <3>3. j \in {NoId} \cup sessions
      BY <1>0, <2>3, <3>1 DEF SessionInv, Helper, WantsJsonOnly
    <3>4. QED
      BY <2>1, <3>2, <3>3, RequestType DEF SessionInv, Asked, Answered, Opening
  <2>4. CASE End(d, "ok")
    BY <1>0, <2>1, <2>4, EndFields DEF SessionInv, Outcomes, Asked, Answered, NoWire
  <2>5. wire[d].status # "ok" => Retries(d) /\ ~Raises(Kind(d), wire[d])
                                 /\ NeedsReinitialize(Kind(d), wire[d])
    BY <2>1, <2>2 DEF Retries, Raises, NeedsReinitialize, Helper
  <2>6. QED
    BY <1>4, <2>3, <2>4, <2>5 DEF ReceiveResult, Retries
<1>5. ASSUME OpenSession(d) PROVE SessionInv(d)'
  <2>1. /\ Asked(d) /\ stage[d] \in Opening
        /\ UNCHANGED <<setup, id, stage, calls, outcome, seen>>
    BY <1>0, <1>5 DEF OpenSession, Asked, WireInv
  <2> SUFFICES ASSUME Covered(d) PROVE SessionInv(d)'
    BY <2>1 DEF SessionInv, Covered, Helper, Kind
  <2>2. PICK i \in Nat : Answer(d, "ok", i, "plain") /\ i \in sessions'
    <3>1. CASE Answer(d, "ok", issued + 1, "plain") /\ sessions' = sessions \cup {issued + 1}
      BY <1>0, <3>1 DEF TypeOK
    <3>2. CASE wire[d].id \in sessions /\ Answer(d, "ok", wire[d].id, "plain")
               /\ sessions' = sessions
      <4>1. wire[d].id \in Nat
        <5>1. sessions \subseteq 1..issued /\ issued \in Nat
          BY <1>0 DEF TypeOK
        <5>2. wire[d].id \in 1..issued
          BY <3>2, <5>1, Zenon
        <5>3. QED
          BY <5>1, <5>2
      <4>2. QED
        BY <3>2, <4>1
    <3>3. QED
      BY <1>5, <3>1, <3>2 DEF OpenSession
  <2>3. wire'[d] = Proxied(Kind(d), setup.framing, "ok", i, "plain")
    BY <1>0, <2>2 DEF Answer, TypeOK
  <2>4. wire'[d].at = "answered" /\ wire'[d].status = "ok" /\ wire'[d].id = i
    BY <2>3, ProxiedSession DEF Covered, Proxied, Reply
  <2>5. QED
    BY <2>1, <2>2, <2>4 DEF SessionInv, Asked, Answered, Opening
<1>6. ASSUME RunTool(d) PROVE SessionInv(d)'
  <2>1. /\ Asked(d) /\ stage[d] \notin Opening /\ wire[d].id \in sessions
        /\ UNCHANGED <<setup, id, stage, sessions, calls, outcome>>
        /\ seen[d] \subseteq seen'[d]
    BY <1>0, <1>6 DEF RunTool, Asked, WireInv
  <2>2. PICK says \in Says : Answer(d, "ok", wire[d].id, says)
    BY <1>6 DEF RunTool
  <2>3. wire'[d] = Proxied(Kind(d), setup.framing, "ok", wire[d].id, says)
    BY <1>0, <2>2 DEF Answer, TypeOK
  <2>4. wire'[d].at = "answered" /\ wire'[d].status = "ok"
    BY <2>3 DEF Proxied, Reply
  <2>5. Covered(d)' => Covered(d)
    BY <2>1 DEF Covered, Helper, Kind
  <2>6. stage[d] # "idle"
    BY <1>0, <2>1 DEF Asked, NoWire
  <2>7. QED
    BY <1>0, <2>1, <2>4, <2>5, <2>6 DEF SessionInv, Asked, Answered, Helper, Kind
<1>7. ASSUME RefuseSession(d) PROVE SessionInv(d)'
  <2>1. /\ Asked(d) /\ wire[d].id \notin sessions
        /\ wire[d].id = NoId => wire[d].what = "call"
        /\ Answer(d, "lost", NoId, "words")
        /\ UNCHANGED <<setup, id, stage, sessions, calls, outcome, seen>>
    BY <1>7 DEF RefuseSession, Asked
  <2> SUFFICES ASSUME Covered(d) PROVE SessionInv(d)'
    BY <2>1 DEF SessionInv, Covered, Helper, Kind
  <2>2. stage[d] = "first" /\ ~Helper(d)
    BY <1>0, <2>1 DEF SessionInv, WireInv, Asked
  <2>3. wire'[d] = Proxied(Kind(d), "json", "lost", NoId, "words")
    BY <1>0, <2>1 DEF Answer, TypeOK
  <2>4. wire'[d].at = "answered" /\ wire'[d].recovery # "none"
    BY <2>3, ProxiedSession DEF Covered, Proxied, Reply, NoId
  <2>5. QED
    BY <2>1, <2>2, <2>4 DEF SessionInv, Asked, Answered, Helper, Kind, Opening
<1>8. ASSUME NEW cs \in SUBSET Clients, Trouble(cs), d \in cs PROVE SessionInv(d)'
  BY <1>8 DEF Trouble, SessionInv, Covered
<1>9. ASSUME NEW c \in Clients, FailToOpen(c) \/ Break(c), d # c PROVE SessionInv(d)'
  <2>1. /\ Trouble({c}) /\ UNCHANGED <<setup, id, sessions, calls>>
        /\ wire'[d] = wire[d] /\ stage'[d] = stage[d] /\ outcome'[d] = outcome[d]
    <3>1. CASE FailToOpen(c)
      BY <1>9, <3>1 DEF FailToOpen, Answer
    <3>2. CASE Break(c)
      BY <1>9, <3>2 DEF Break, Fails, End
    <3>3. QED
      BY <1>9, <3>1, <3>2
  <2>2. seen'[d] = seen[d]
    BY <1>9, <2>1 DEF Trouble
  <2>3. QED
    BY <1>0, <2>1, <2>2, SessionFrame
<1>10. CASE UNCHANGED vars
  BY <1>0, <1>10, SessionFrame DEF vars
<1>11. QED
  <2>1. ASSUME NEW c \in Clients, FailToOpen(c) \/ Break(c) PROVE SessionInv(d)'
    <3>1. Trouble({c})
      BY <2>1 DEF FailToOpen, Break
    <3>2. QED
      BY <1>8, <1>9, <2>1, <3>1
  <2>2. Restart => SessionInv(d)'
    BY <1>8 DEF Restart
  <2>3. QED
    BY <1>1, <1>2, <1>3, <1>4, <1>5, <1>6, <1>7, <1>10, <2>1, <2>2
       DEF Next, ClientStep, ServerStep, Quiescent

\* A call during which nothing goes wrong is not refused for its session, but for
\* a helper that began with a lost one and a JSON-only client that never gets any.
THEOREM QuietCallsSucceed == Spec => []QuietCallSucceeds
<1>1. Init => QuietInv
  BY DEF Init, QuietInv, SessionInv, Asked, Answered, NoWire
<1>2. IInv /\ QuietInv => QuietCallSucceeds
  <2> SUFFICES ASSUME IInv, QuietInv, NEW c \in Clients,
                      stage[c] = "idle", calls[c] > 0, "trouble" \notin seen[c]
               PROVE  \/ outcome[c] \in {"ok", "opened"}
                      \/ "lost" \in seen[c] /\ ~WantsJsonOnly(Kind(c))
                      \/ setup.framing = "sse" /\ WantsJsonOnly(Kind(c))
    BY DEF QuietCallSucceeds
  <2>1. QED
    BY DEF QuietInv, SessionInv, Covered, Helper
<1>3. QED
  BY <1>1, <1>2, StepQuiet, InductiveInvariant, PTL DEF Spec
=============================================================================
