-------------------------- MODULE WriteToolsProofs --------------------------
(***************************************************************************)
(* Theorems about WriteTools, for any set of calls and any allowlists.     *)
(***************************************************************************)
EXTENDS WriteTools, SequenceTheorems, FiniteSetTheorems, TLAPS

\* The orders in which the write tools run their stages.
Connector == <<"attempt", "preview", "validate", "confirm", "write">>
Verified == <<"attempt", "preview", "validate", "confirm", "write", "verify">>
Service == <<"validate", "preview", "confirm", "write">>
Statement == <<"validate", "attempt", "preview", "confirm", "write">>
Package == <<"attempt", "validate", "preview", "confirm", "write">>
Orders == {Connector, Verified, Service, Statement, Package}

Stages == {"attempt", "preview", "validate", "confirm", "write", "verify"}

\* Call c has left stage s behind.
Passed(c, s) ==
    \E i \in DOMAIN Tool(c).stages : i < step[c] /\ Tool(c).stages[i] = s

\* What the stages a call has left behind have made sure of, and what it has
\* logged and written by then, as long as it is not answered.
OpenInv(c) == answer[c] = "none" =>
    /\ step[c] \in DOMAIN Tool(c).stages
    /\ Passed(c, "preview") => ~request[c].dryRun
    /\ Passed(c, "validate") => request[c].good
    /\ Passed(c, "confirm") => request[c].confirmed
    /\ Passed(c, "attempt") => trail[c] = <<"attempt">>
    /\ ~Passed(c, "attempt") => trail[c] = << >>
    /\ ~At(c, "write") /\ ~At(c, "verify") => effects[c] = 0 /\ outcome[c] = "none"
    /\ At(c, "verify") => outcome[c] = "ok"

\* The client's part of a write runs in the write stage of an approved call.
ClientInv(c) ==
    /\ outcome[c] = "ok" => effects[c] = 1
    /\ phase[c] = "calling" => At(c, "write") /\ outcome[c] = "none"
    /\ phase[c] = "calling" \/ effects[c] = 1 => c \in Approved
    /\ effects[c] = 1 /\ outcome[c] = "none" => phase[c] = "calling"

\* What the log holds of a write once its call is answered.
DoneInv(c) == answer[c] # "none" /\ effects[c] = 1 =>
    /\ request[c].tool # "manage_service" => trail[c] # << >> /\ trail[c][1] = "attempt"
    /\ Tool(c).results => trail[c] \in {<<"attempt", "success">>, <<"attempt", "failed">>}

CallInv(c) == OpenInv(c) /\ ClientInv(c) /\ DoneInv(c)

IInv == TypeOK /\ \A c \in Calls : CallInv(c)
----------------------------------------------------------------------------
\* Every tool of the table runs its stages in one of the five orders, and a
\* tool that logs outcomes also logs the attempt.
LEMMA ToolTable ==
    \A t \in DOMAIN Tools :
        /\ Tools[t].stages \in Orders
        /\ t # "manage_service" => Tools[t].stages # Service
        /\ Tools[t].results => t # "manage_service"
<1> SUFFICES ASSUME NEW t \in DOMAIN Tools
             PROVE  /\ Tools[t].stages \in Orders
                    /\ t # "manage_service" => Tools[t].stages # Service
                    /\ Tools[t].results => t # "manage_service"
  OBVIOUS
<1>1. CreateInput.stages = Connector
  BY DEF CreateInput, Connector
<1>2. AlterInput.stages = Verified
  BY DEF CreateInput, AlterInput, Verified
<1>3. /\ ManageService.stages = Service
      /\ ~ManageService.results
      /\ SqlExecute.stages = Statement
  BY DEF ManageService, SqlExecute, Service, Statement
<1>4. /\ RegisterCodePackage.stages = Package
      /\ CloneCodePackage.stages = Connector
      /\ RevertCodePackage.stages = Connector
  BY DEF RegisterCodePackage, CloneCodePackage, RevertCodePackage, Package, Connector
<1>5. /\ DeleteInput.stages = Connector
      /\ CreateOutput.stages = Connector
      /\ AlterOutput.stages = Connector
      /\ DeleteOutput.stages = Connector
  BY <1>1 DEF CreateInput, DeleteInput, CreateOutput, AlterOutput, DeleteOutput
<1>6. /\ CreateIntegrationTable.stages = Connector
      /\ DeleteIntegrationTables.stages = Connector
      /\ TestTransformSteps.stages = Connector
      /\ DeleteTopic.stages = Connector
  BY <1>1 DEF CreateInput, CreateIntegrationTable, DeleteIntegrationTables,
              TestTransformSteps, DeleteTopic
<1>7. /\ AlterIntegrationTable.stages = Verified
      /\ ConfigureTopic.stages = Verified
  BY <1>2 DEF AlterInput, CreateInput, AlterIntegrationTable, ConfigureTopic
<1>8. /\ Service # Connector /\ Service # Verified
      /\ Service # Statement /\ Service # Package
  BY DEF Service, Connector, Verified, Statement, Package
<1>9. t \in {"create_input", "alter_input", "delete_input",
             "create_output", "alter_output", "delete_output",
             "create_integration_table", "alter_integration_table", "delete_integration_tables",
             "test_integration_table_transform_steps", "configure_topic", "delete_topic",
             "manage_service", "sql_execute", "register_code_package",
             "clone_code_package", "revert_code_package"}
  BY DEF Tools
<1>10. /\ Tools["create_input"] = CreateInput
       /\ Tools["alter_input"] = AlterInput
       /\ Tools["delete_input"] = DeleteInput
       /\ Tools["create_output"] = CreateOutput
       /\ Tools["alter_output"] = AlterOutput
       /\ Tools["delete_output"] = DeleteOutput
       /\ Tools["create_integration_table"] = CreateIntegrationTable
       /\ Tools["alter_integration_table"] = AlterIntegrationTable
       /\ Tools["delete_integration_tables"] = DeleteIntegrationTables
       /\ Tools["test_integration_table_transform_steps"] = TestTransformSteps
       /\ Tools["configure_topic"] = ConfigureTopic
       /\ Tools["delete_topic"] = DeleteTopic
       /\ Tools["manage_service"] = ManageService
       /\ Tools["sql_execute"] = SqlExecute
       /\ Tools["register_code_package"] = RegisterCodePackage
       /\ Tools["clone_code_package"] = CloneCodePackage
       /\ Tools["revert_code_package"] = RevertCodePackage
  BY DEF Tools
<1>11. CASE t = "manage_service"
  BY <1>3, <1>10, <1>11 DEF Orders
<1>12. CASE t # "manage_service"
  <2>1. Tools[t].stages \in Orders \ {Service}
    BY <1>1, <1>2, <1>3, <1>4, <1>5, <1>6, <1>7, <1>8, <1>9, <1>10, <1>12 DEF Orders
  <2> QED
    BY <2>1, <1>12
<1> QED
  BY <1>11, <1>12

\* Whatever the order, a stage comes once, the write comes after the preview,
\* the validation and the confirmation, and only a verification comes after it;
\* and only Service writes without an attempt having been recorded.
Shape(s) ==
    /\ s \in Seq(Stages) /\ Len(s) <= 6 /\ 1 \in DOMAIN s
    /\ \A i, j \in DOMAIN s : s[i] = s[j] => i = j
    /\ \A i \in DOMAIN s : s[i] \notin {"write", "verify"} => i < Len(s)
    /\ \A i \in DOMAIN s : s[i] = "verify" => i = Len(s)
    /\ \A i \in DOMAIN s : i < Len(s) => (s[i + 1] = "verify" <=> s[i] = "write")
    /\ s[1] \notin {"write", "verify"}
    /\ \A i \in DOMAIN s : s[i] \in {"write", "verify"} =>
          /\ \E j \in DOMAIN s : j < i /\ s[j] = "preview"
          /\ \E j \in DOMAIN s : j < i /\ s[j] = "validate"
          /\ \E j \in DOMAIN s : j < i /\ s[j] = "confirm"
          /\ s # Service => \E j \in DOMAIN s : j < i /\ s[j] = "attempt"

\* The five orders have that shape.
LEMMA OrderShape == \A s \in Orders : Shape(s)
<1>1. Shape(Connector)
  BY DEF Shape, Connector, Stages
<1>2. Shape(Verified)
  BY DEF Shape, Verified, Stages
<1>3. Shape(Service)
  BY DEF Shape, Service, Stages
<1>4. Shape(Statement)
  BY DEF Shape, Statement, Stages
<1>5. Shape(Package)
  BY DEF Shape, Package, Stages
<1> QED
  BY <1>1, <1>2, <1>3, <1>4, <1>5 DEF Orders
----------------------------------------------------------------------------
\* The tool of a call, and the shape of its stages.
LEMMA CallTool ==
    ASSUME TypeOK, NEW c \in Calls
    PROVE  /\ Shape(Tool(c).stages)
           /\ request[c].tool # "manage_service" => Tool(c).stages # Service
           /\ Tool(c).results => request[c].tool # "manage_service"
BY ToolTable, OrderShape DEF TypeOK, Requests, Tool

\* A call that moves on leaves the stage it was at behind, and no other.
LEMMA PassedAdvance ==
    ASSUME TypeOK, NEW c \in Calls, step[c] \in DOMAIN Tool(c).stages,
           Advance(c), UNCHANGED request, NEW s
    PROVE  Passed(c, s)' <=> Passed(c, s) \/ Tool(c).stages[step[c]] = s
<1>1. Tool(c)' = Tool(c) /\ step'[c] = step[c] + 1
  BY DEF Advance, TypeOK, Tool
<1>2. Shape(Tool(c).stages)
  BY CallTool
<1>3. \A i \in DOMAIN Tool(c).stages : i < step[c] + 1 <=> i < step[c] \/ i = step[c]
  BY <1>2 DEF Shape
<1> QED
  BY <1>1, <1>3 DEF Passed

\* What concerns one call is left alone by a step that touches only others.
LEMMA OtherCall ==
    ASSUME TypeOK, NEW d \in Calls, CallInv(d), UNCHANGED <<allowed, request>>,
           UNCHANGED <<step[d], phase[d], effects[d], outcome[d], answer[d], trail[d]>>
    PROVE  CallInv(d)'
BY DEF CallInv, OpenInv, ClientInv, DoneInv, At, Passed, Tool, Approved, Permitted

\* A call at its write stage has been through everything that is asked of it.
LEMMA Cleared ==
    ASSUME TypeOK, NEW c \in Calls, OpenInv(c), At(c, "write") \/ At(c, "verify")
    PROVE  /\ ~request[c].dryRun /\ request[c].good /\ request[c].confirmed
           /\ request[c].tool # "manage_service" => trail[c] = <<"attempt">>
<1>1. Shape(Tool(c).stages) /\ step[c] \in DOMAIN Tool(c).stages
      /\ Tool(c).stages[step[c]] \in {"write", "verify"} /\ answer[c] = "none"
  BY CallTool DEF At
<1>2. Passed(c, "preview") /\ Passed(c, "validate") /\ Passed(c, "confirm")
  BY <1>1 DEF Shape, Passed
<1>3. request[c].tool # "manage_service" => Passed(c, "attempt")
  BY <1>1, CallTool DEF Shape, Passed
<1> QED
  BY <1>1, <1>2, <1>3 DEF OpenInv

\* The variables of a call other than c keep their values for it.
Others(c) == \A d \in Calls \ {c} :
    UNCHANGED <<step[d], phase[d], effects[d], outcome[d], answer[d], trail[d]>>

\* Two sequences of one element each, put together.
LEMMA ConcatOne == ASSUME NEW x, NEW y PROVE <<x>> \o <<y>> = <<x, y>>
<1> DEFINE s == <<x>> t == <<y>> S == {x, y}
<1>1. s \in Seq(S) /\ t \in Seq(S) /\ Len(s) = 1 /\ Len(t) = 1 /\ s[1] = x /\ t[1] = y
  OBVIOUS
<1>2. Len(s \o t) = 2 /\ (s \o t)[1] = x /\ (s \o t)[2] = y /\ s \o t \in Seq(S)
  <2>1. s \o t \in Seq(S) /\ Len(s \o t) = Len(s) + Len(t)
        /\ \A i \in 1 .. Len(s) + Len(t) :
              (s \o t)[i] = IF i <= Len(s) THEN s[i] ELSE t[i - Len(s)]
    <3> HIDE DEF s, t, S
    <3> QED
      BY <1>1, ConcatProperties
  <2> HIDE DEF s, t, S
  <2> QED
    BY <1>1, <2>1
<1>3. <<x, y>> \in Seq(S) /\ Len(<<x, y>>) = 2 /\ <<x, y>>[1] = x /\ <<x, y>>[2] = y
  OBVIOUS
<1>4. \A i \in 1 .. 2 : (s \o t)[i] = <<x, y>>[i]
  <2> HIDE DEF s, t
  <2> QED
    BY <1>2, <1>3
<1> QED
  BY <1>2, <1>3, <1>4, SeqEqual

\* Answering a call keeps the invariant, if a write that took effect is logged.
LEMMA FinishInv ==
    ASSUME IInv, NEW c \in Calls, answer[c] = "none", phase[c] = "idle",
           NEW a \in Answers \ {"none"}, NEW rs \in Seq(Records), Finish(c, a, rs),
           UNCHANGED <<allowed, request, step, upstream>>,
           effects[c] = 1 =>
               /\ At(c, "write") \/ At(c, "verify")
               /\ rs \in {<< >>, <<"success">>, <<"failed">>}
               /\ Tool(c).results => rs # << >>
    PROVE  /\ answer' \in [Calls -> Answers] /\ trail' \in [Calls -> Seq(Records)]
           /\ \A d \in Calls : CallInv(d)'
<1>1. trail[c] \o rs \in Seq(Records)
  BY DEF IInv, TypeOK
<1>2. answer' \in [Calls -> Answers] /\ trail' \in [Calls -> Seq(Records)]
      /\ answer'[c] = a /\ trail'[c] = trail[c] \o rs
  BY <1>1 DEF IInv, TypeOK, Finish
<1>3. Others(c)
  BY DEF Others, Finish, IInv, TypeOK, upstream
<1>4. CallInv(c)'
  <2>1. OpenInv(c)'
    BY <1>2 DEF OpenInv
  <2>2. ClientInv(c)'
    BY DEF IInv, CallInv, ClientInv, Approved, Permitted, Tool, upstream
  <2>3. ASSUME effects[c] = 1
        PROVE  /\ request[c].tool # "manage_service" => trail'[c] # << >> /\ trail'[c][1] = "attempt"
               /\ Tool(c).results => trail'[c] \in {<<"attempt", "success">>, <<"attempt", "failed">>}
    <3>1. request[c].tool # "manage_service" => trail[c] = <<"attempt">>
      BY <2>3, Cleared DEF IInv, CallInv
    <3>2. CASE request[c].tool # "manage_service"
      <4>1. <<"attempt">> \o << >> = <<"attempt">>
            /\ <<"attempt">> \o <<"success">> = <<"attempt", "success">>
            /\ <<"attempt">> \o <<"failed">> = <<"attempt", "failed">>
        BY ConcatOne, ConcatEmptySeq
      <4>2. trail[c] = <<"attempt">>
        BY <3>1, <3>2
      <4>3. CASE rs = << >>
        <5>1. trail'[c] = <<"attempt">>
          BY <1>2, <4>1, <4>2, <4>3
        <5>2. ~Tool(c).results
          BY <2>3, <4>3
        <5> QED
          BY <5>1, <5>2
      <4>4. CASE rs = <<"success">>
        <5>1. trail'[c] = <<"attempt", "success">>
          BY <1>2, <4>1, <4>2, <4>4
        <5> QED
          BY <5>1
      <4>5. CASE rs = <<"failed">>
        <5>1. trail'[c] = <<"attempt", "failed">>
          BY <1>2, <4>1, <4>2, <4>5
        <5> QED
          BY <5>1
      <4> QED
        BY <2>3, <4>3, <4>4, <4>5
    <3>3. CASE request[c].tool = "manage_service"
      BY <3>3, CallTool DEF IInv
    <3> QED
      BY <3>2, <3>3
  <2>4. DoneInv(c)'
    BY <2>3 DEF DoneInv, Tool, upstream
  <2> QED
    BY <2>1, <2>2, <2>4 DEF CallInv
<1>5. \A d \in Calls \ {c} : CallInv(d)'
  BY <1>3, OtherCall DEF IInv, Others
<1> QED
  BY <1>2, <1>4, <1>5

\* Moving on from a stage before the write keeps the invariant, if the stage
\* has made sure of what is its own to make sure of.
LEMMA AdvanceInv ==
    ASSUME IInv, NEW c \in Calls, NEW s \in Stages \ {"write", "verify"}, At(c, s),
           Advance(c), UNCHANGED <<allowed, request, upstream, answer>>,
           IF s = "attempt" THEN trail' = [trail EXCEPT ![c] = Append(@, "attempt")]
                            ELSE UNCHANGED trail,
           s = "preview" => ~request[c].dryRun,
           s = "validate" => request[c].good,
           s = "confirm" => request[c].confirmed
    PROVE  /\ step' \in [Calls -> 1..6] /\ trail' \in [Calls -> Seq(Records)]
           /\ \A d \in Calls : CallInv(d)'
<1> DEFINE st == Tool(c).stages
<1>1. Shape(st) /\ step[c] \in DOMAIN st /\ st[step[c]] = s /\ answer[c] = "none"
  BY CallTool DEF IInv, At
<1>2. step'[c] = step[c] + 1 /\ step[c] + 1 \in DOMAIN st /\ step' \in [Calls -> 1..6]
  <2>1. step[c] < Len(st) /\ Len(st) <= 6 /\ DOMAIN st = 1..Len(st) /\ Len(st) \in Nat
    BY <1>1 DEF Shape
  <2>2. step \in [Calls -> 1..6]
    BY DEF IInv, TypeOK
  <2>3. step[c] + 1 \in 1..Len(st) /\ step[c] + 1 \in 1..6
    BY <1>1, <2>1, <2>2
  <2> QED
    BY <2>1, <2>2, <2>3 DEF Advance
<1>3. \A x : Passed(c, x)' <=> Passed(c, x) \/ s = x
  BY <1>1, PassedAdvance DEF IInv
<1>4. trail' \in [Calls -> Seq(Records)]
      /\ trail'[c] = IF s = "attempt" THEN Append(trail[c], "attempt") ELSE trail[c]
  <2>1. Append(trail[c], "attempt") \in Seq(Records)
    BY DEF IInv, TypeOK, Records
  <2> QED
    BY <2>1 DEF IInv, TypeOK
<1>5. s = "attempt" => trail'[c] = <<"attempt">>
  <2>1. s = "attempt" => ~Passed(c, "attempt")
    <3>1. \A i \in DOMAIN st : st[i] = s => i = step[c]
      BY <1>1 DEF Shape
    <3>2. step[c] \in 1..6
      BY DEF IInv, TypeOK
    <3> QED
      BY <3>1, <3>2 DEF Passed
  <2>2. Append(<< >>, "attempt") = <<"attempt">>
    OBVIOUS
  <2> QED
    BY <1>1, <1>4, <2>1, <2>2 DEF IInv, CallInv, OpenInv
<1>6. effects[c] = 0 /\ outcome[c] = "none" /\ phase[c] = "idle"
  <2>1. ~At(c, "write") /\ ~At(c, "verify")
    BY <1>1 DEF At
  <2> QED
    BY <1>1, <2>1 DEF IInv, CallInv, OpenInv, ClientInv, TypeOK, Client!TypeOK
<1>7. ~At(c, "verify")'
  BY <1>1, <1>2 DEF At, Shape, Tool
<1>8. CallInv(c)'
  <2>1. OpenInv(c)'
    BY <1>1, <1>2, <1>3, <1>4, <1>5, <1>6, <1>7 DEF OpenInv, IInv, CallInv, Tool, upstream
  <2>2. ClientInv(c)' /\ DoneInv(c)'
    BY <1>6 DEF ClientInv, DoneInv, upstream
  <2> QED
    BY <2>1, <2>2 DEF CallInv
<1>9. \A d \in Calls \ {c} : CallInv(d)'
  BY OtherCall DEF IInv, TypeOK, Advance, upstream
<1> QED
  BY <1>2, <1>4, <1>8, <1>9
----------------------------------------------------------------------------
\* The initial states: nothing has been passed, logged or written.
LEMMA InitIInv == Init => IInv
<1> SUFFICES ASSUME Init PROVE IInv
  OBVIOUS
<1>1. TypeOK
  <2>1. allowed \in SUBSET Groups
    BY ConfiguredAssumption
       DEF Init, ToToolGroupPolicy, PolicyPresets, Groups, ReadGroups
  <2>2. step \in [Calls -> 1..6] /\ trail \in [Calls -> Seq(Records)]
    BY DEF Init
  <2> QED
    BY <2>1, <2>2 DEF Init, TypeOK, Client!Init, Client!TypeOK, Answers
<1>2. ASSUME NEW c \in Calls PROVE CallInv(c)
  <2>1. Shape(Tool(c).stages) /\ step[c] = 1 /\ 1 \in DOMAIN Tool(c).stages
    BY <1>1, CallTool DEF Init, Shape
  <2>2. \A x : ~Passed(c, x)
    BY <2>1 DEF Passed, Shape
  <2>3. ~At(c, "write") /\ ~At(c, "verify")
    BY <2>1 DEF At, Shape
  <2> QED
    BY <2>1, <2>2, <2>3
       DEF Init, Client!Init, CallInv, OpenInv, ClientInv, DoneInv
<1> QED
  BY <1>1, <1>2 DEF IInv

\* Counting keeps the counters' type.
LEMMA CountType ==
    ASSUME TypeOK, NEW s \in {"success", "error"}, Count(s)
    PROVE  metrics' \in [{"success", "error"} -> Nat]
BY DEF TypeOK, Count

\* A call that is at a stage other than the write is not writing.
LEMMA NotWriting ==
    ASSUME IInv, NEW c \in Calls, ~At(c, "write")
    PROVE  /\ phase[c] = "idle"
           /\ answer[c] = "none" /\ ~At(c, "verify") => effects[c] = 0
BY DEF IInv, TypeOK, Client!TypeOK, CallInv, ClientInv, OpenInv

\* The records an action adds to the log are records.
LEMMA RecordSeqs ==
    ASSUME NEW c, NEW r \in {"success", "failed"}
    PROVE  /\ << >> \in Seq(Records) /\ <<"rejected">> \in Seq(Records)
           /\ <<"previewed">> \in Seq(Records) /\ <<"policy_denial">> \in Seq(Records)
           /\ Result(c, r) \in Seq(Records)
           /\ <<"policy_denial">> \o Result(c, r) \in Seq(Records)
<1>1. Result(c, r) \in {<< >>, <<r>>}
  BY DEF Result
<1>2. << >> \in Seq(Records) /\ <<r>> \in Seq(Records)
      /\ <<"rejected">> \in Seq(Records) /\ <<"previewed">> \in Seq(Records)
      /\ <<"policy_denial">> \in Seq(Records)
  BY DEF Records
<1>3. <<"policy_denial">> \o Result(c, r) \in Seq(Records)
  BY <1>1, <1>2, ConcatProperties
<1> QED
  BY <1>1, <1>2, <1>3

\* What every step keeps of the type invariant, put together with the rest.
LEMMA TogetherIInv ==
    ASSUME IInv, UNCHANGED <<allowed, request>>, contacted' \in SUBSET Calls,
           step' \in [Calls -> 1..6], Client!TypeOK', answer' \in [Calls -> Answers],
           trail' \in [Calls -> Seq(Records)],
           metrics' \in [{"success", "error"} -> Nat], \A d \in Calls : CallInv(d)'
    PROVE  IInv'
BY DEF IInv, TypeOK

\* No step of a call leaves the inductive invariant: one step per action, by
\* what answering and moving on have in common.
LEMMA StepIInv == IInv /\ [Next]_vars => IInv'
<1> SUFFICES ASSUME IInv, [Next]_vars PROVE IInv'
  OBVIOUS
<1>0. TypeOK
  BY DEF IInv
<1>a. UNCHANGED upstream => Client!TypeOK'
  BY <1>0 DEF TypeOK, Client!TypeOK, upstream
<1>b. contacted \in SUBSET Calls /\ step \in [Calls -> 1..6] /\ answer \in [Calls -> Answers]
      /\ trail \in [Calls -> Seq(Records)] /\ metrics \in [{"success", "error"} -> Nat]
  BY <1>0 DEF TypeOK
<1>1. ASSUME NEW c \in Calls, RecordAttempt(c) PROVE IInv'
  <2>1. step' \in [Calls -> 1..6] /\ trail' \in [Calls -> Seq(Records)]
        /\ \A d \in Calls : CallInv(d)'
    BY <1>1, AdvanceInv DEF RecordAttempt, Stages
  <2> QED
    BY <1>1, <1>a, <1>b, <2>1, TogetherIInv DEF RecordAttempt
<1>2. ASSUME NEW c \in Calls, Preview(c) PROVE IInv'
  <2> USE <1>2 DEF Preview
  <2>1. answer[c] = "none" /\ phase[c] = "idle" /\ effects[c] = 0
    BY NotWriting DEF At
  <2>2. CASE ~request[c].dryRun
    <3>1. step' \in [Calls -> 1..6] /\ trail' \in [Calls -> Seq(Records)]
          /\ \A d \in Calls : CallInv(d)'
      BY <2>2, AdvanceInv DEF Stages
    <3> QED
      BY <1>a, <1>b, <2>2, <3>1, TogetherIInv
  <2>3. CASE request[c].dryRun
    <3>1. PICK a \in {"preview", "rejected"},
               rs \in {<< >>, <<"policy_denial">>, <<"previewed">>} : Finish(c, a, rs)
      BY <2>3
    <3>2. a \in Answers \ {"none"} /\ rs \in Seq(Records)
      BY RecordSeqs DEF Answers
    <3>3. answer' \in [Calls -> Answers] /\ trail' \in [Calls -> Seq(Records)]
          /\ \A d \in Calls : CallInv(d)'
      BY <2>1, <2>3, <3>1, <3>2, FinishInv
    <3>4. metrics' \in [{"success", "error"} -> Nat]
      BY <1>0, <1>b, <2>3, CountType
    <3>5. contacted' \in SUBSET Calls /\ UNCHANGED step
      BY <1>b, <2>3 DEF LookUpService
    <3> QED
      BY <1>a, <1>b, <3>3, <3>4, <3>5, TogetherIInv
  <2> QED
    BY <2>2, <2>3
<1>3. ASSUME NEW c \in Calls, Validate(c) PROVE IInv'
  <2> USE <1>3 DEF Validate
  <2>1. answer[c] = "none" /\ phase[c] = "idle" /\ effects[c] = 0
    BY NotWriting DEF At
  <2>2. contacted' \in SUBSET Calls
    BY <1>b DEF LookUpService
  <2>3. CASE request[c].good /\ Advance(c) /\ UNCHANGED <<answer, trail>>
    <3>1. step' \in [Calls -> 1..6] /\ trail' \in [Calls -> Seq(Records)]
          /\ \A d \in Calls : CallInv(d)'
      BY <2>3, AdvanceInv DEF Stages
    <3> QED
      BY <1>a, <1>b, <2>2, <2>3, <3>1, TogetherIInv
  <2>4. CASE Reject(c)
    <3>1. PICK rs \in {<< >>, <<"rejected">>} : Finish(c, "rejected", rs)
      BY <2>4 DEF Reject
    <3>2. rs \in Seq(Records) /\ "rejected" \in Answers \ {"none"} /\ UNCHANGED step
      BY <2>4, RecordSeqs DEF Answers, Reject
    <3>3. answer' \in [Calls -> Answers] /\ trail' \in [Calls -> Seq(Records)]
          /\ \A d \in Calls : CallInv(d)'
      BY <2>1, <3>1, <3>2, FinishInv
    <3> QED
      BY <1>a, <1>b, <2>2, <3>2, <3>3, TogetherIInv
  <2> QED
    BY <2>3, <2>4
<1>4. ASSUME NEW c \in Calls, Confirm(c) PROVE IInv'
  <2> USE <1>4 DEF Confirm
  <2>1. answer[c] = "none" /\ phase[c] = "idle" /\ effects[c] = 0
    BY NotWriting DEF At
  <2>2. CASE request[c].confirmed /\ Advance(c) /\ UNCHANGED <<answer, trail>>
    <3>1. step' \in [Calls -> 1..6] /\ trail' \in [Calls -> Seq(Records)]
          /\ \A d \in Calls : CallInv(d)'
      BY <2>2, AdvanceInv DEF Stages
    <3> QED
      BY <1>a, <1>b, <2>2, <3>1, TogetherIInv
  <2>3. CASE Reject(c)
    <3>1. PICK rs \in {<< >>, <<"rejected">>} : Finish(c, "rejected", rs)
      BY <2>3 DEF Reject
    <3>2. rs \in Seq(Records) /\ "rejected" \in Answers \ {"none"} /\ UNCHANGED step
      BY <2>3, RecordSeqs DEF Answers, Reject
    <3>3. answer' \in [Calls -> Answers] /\ trail' \in [Calls -> Seq(Records)]
          /\ \A d \in Calls : CallInv(d)'
      BY <2>1, <3>1, <3>2, FinishInv
    <3> QED
      BY <1>a, <1>b, <3>2, <3>3, TogetherIInv
  <2> QED
    BY <2>2, <2>3
<1>5. ASSUME NEW c \in Calls, Deny(c) PROVE IInv'
  <2> USE <1>5 DEF Deny
  <2>1. answer[c] = "none" /\ effects[c] = 0
    BY DEF At, IInv, CallInv, ClientInv, Approved, TypeOK, Client!TypeOK
  <2>2. answer' \in [Calls -> Answers] /\ trail' \in [Calls -> Seq(Records)]
        /\ \A d \in Calls : CallInv(d)'
    <3>1. PICK rs \in Seq(Records) : Finish(c, "rejected", rs)
      BY RecordSeqs
    <3>2. "rejected" \in Answers \ {"none"} /\ phase[c] = "idle"
      BY DEF Answers
    <3> QED
      BY <2>1, <3>1, <3>2, FinishInv
  <2> QED
    BY <1>a, <1>b, <2>2, TogetherIInv
<1>6. ASSUME NEW c \in Calls, StartWrite(c) PROVE IInv'
  <2> USE <1>6 DEF StartWrite, Client!Call
  <2>1. Client!TypeOK'
    BY <1>0 DEF TypeOK, Client!TypeOK
  <2>2. ~request[c].dryRun /\ request[c].good /\ request[c].confirmed
    BY Cleared DEF IInv, CallInv
  <2>3. c \in Approved /\ answer[c] = "none"
    BY <2>2 DEF Approved, At
  <2>4. phase'[c] = "calling" /\ effects'[c] = 0 /\ outcome'[c] = "none"
    BY <1>0 DEF TypeOK, Client!TypeOK
  <2>5. CallInv(c)'
    BY <2>3, <2>4
       DEF IInv, CallInv, OpenInv, ClientInv, DoneInv, At, Passed, Tool, Approved, Permitted
  <2>6. \A d \in Calls \ {c} : CallInv(d)'
    BY <1>0, OtherCall DEF IInv, TypeOK, Client!TypeOK
  <2> QED
    BY <1>b, <2>1, <2>5, <2>6, TogetherIInv
<1>7. ASSUME NEW c \in Calls, AbortWrite(c) PROVE IInv'
  <2> USE <1>7 DEF AbortWrite
  <2>1. answer[c] = "none" /\ (effects[c] = 1 => (Tool(c).results => Result(c, "failed") # << >>))
    BY DEF At, Result
  <2>2. Result(c, "failed") \in {<< >>, <<"success">>, <<"failed">>}
    BY DEF Result
  <2>3. answer' \in [Calls -> Answers] /\ trail' \in [Calls -> Seq(Records)]
        /\ \A d \in Calls : CallInv(d)'
    BY <2>1, <2>2, RecordSeqs, FinishInv DEF Answers
  <2>4. metrics' \in [{"success", "error"} -> Nat] /\ contacted' \in SUBSET Calls
    BY <1>0, <1>b, CountType
  <2> QED
    BY <1>a, <1>b, <2>3, <2>4, TogetherIInv
<1>8. ASSUME NEW c \in Calls, ClientStep(c) PROVE IInv'
  <2> USE <1>8 DEF ClientStep, Client!TakeEffect, Client!Return, Client!Outcomes
  <2>1. Client!TypeOK'
    BY <1>0 DEF TypeOK, Client!TypeOK
  <2>2. CallInv(c)'
    BY <1>0
       DEF TypeOK, Client!TypeOK, IInv, CallInv, OpenInv, ClientInv, DoneInv,
           At, Passed, Tool, Approved, Permitted
  <2>3. \A d \in Calls \ {c} : CallInv(d)'
    BY <1>0, OtherCall DEF IInv, TypeOK, Client!TypeOK
  <2> QED
    BY <1>b, <2>1, <2>2, <2>3, TogetherIInv
<1>9. ASSUME NEW c \in Calls, WriteReturned(c) PROVE IInv'
  <2> USE <1>9 DEF WriteReturned
  <2>1. answer[c] = "none"
    BY DEF At
  <2>2. metrics' \in [{"success", "error"} -> Nat]
    BY <1>0, CountType
  <2>3. CASE \E r \in {"success", "failed"}, a \in {"failed", "applied"} :
                Finish(c, a, Result(c, r)) /\ UNCHANGED step
    <3>1. PICK r \in {"success", "failed"}, a \in {"failed", "applied"} :
                Finish(c, a, Result(c, r)) /\ UNCHANGED step
      BY <2>3
    <3>2. Result(c, r) \in {<< >>, <<"success">>, <<"failed">>}
          /\ (Tool(c).results => Result(c, r) # << >>)
      BY DEF Result
    <3>3. answer' \in [Calls -> Answers] /\ trail' \in [Calls -> Seq(Records)]
          /\ \A d \in Calls : CallInv(d)'
      BY <2>1, <3>1, <3>2, RecordSeqs, FinishInv DEF Answers
    <3> QED
      BY <1>a, <1>b, <2>2, <3>1, <3>3, TogetherIInv
  <2>4. CASE outcome[c] = "ok" /\ step[c] < Len(Tool(c).stages) /\ Advance(c)
             /\ UNCHANGED <<answer, trail>>
    <3> DEFINE st == Tool(c).stages
    <3>1. Shape(st) /\ step[c] \in DOMAIN st /\ st[step[c]] = "write"
      BY <1>0, CallTool DEF At
    <3>2. step[c] + 1 \in DOMAIN st /\ st[step[c] + 1] = "verify" /\ step[c] + 1 \in 1..6
      <4>1. DOMAIN st = 1..Len(st) /\ Len(st) \in Nat /\ Len(st) <= 6 /\ step[c] < Len(st)
            /\ st[step[c] + 1] = "verify"
        BY <2>4, <3>1 DEF Shape
      <4>2. step[c] \in 1..6
        BY <1>b
      <4> QED
        BY <4>1, <4>2
    <3>3. step' \in [Calls -> 1..6] /\ step'[c] = step[c] + 1
      BY <1>b, <2>4, <3>2 DEF Advance
    <3>4. \A x : Passed(c, x)' <=> Passed(c, x) \/ "write" = x
      BY <1>0, <2>4, <3>1, PassedAdvance
    <3>5. At(c, "verify")' /\ ~At(c, "write")'
      BY <2>1, <2>4, <3>2, <3>3 DEF At, Tool
    <3>6. CallInv(c)'
      BY <2>1, <2>4, <3>2, <3>3, <3>4, <3>5
         DEF IInv, CallInv, OpenInv, ClientInv, DoneInv, Tool, Approved, Permitted, upstream
    <3>7. \A d \in Calls \ {c} : CallInv(d)'
      BY <1>0, <1>b, <2>4, OtherCall DEF IInv, Advance, upstream
    <3> QED
      BY <1>a, <1>b, <2>2, <2>4, <3>3, <3>6, <3>7, TogetherIInv
  <2> QED
    BY <2>3, <2>4
<1>10. ASSUME NEW c \in Calls, Verify(c) PROVE IInv'
  <2> USE <1>10 DEF Verify
  <2>1. answer[c] = "none" /\ phase[c] = "idle"
    BY NotWriting DEF At
  <2>2. PICK r \in {"success", "failed"}, a \in {"failed", "applied", "unverified"} :
              Finish(c, a, Result(c, r))
    OBVIOUS
  <2>3. Result(c, r) \in {<< >>, <<"success">>, <<"failed">>}
        /\ (Tool(c).results => Result(c, r) # << >>)
    BY DEF Result
  <2>4. answer' \in [Calls -> Answers] /\ trail' \in [Calls -> Seq(Records)]
        /\ \A d \in Calls : CallInv(d)'
    BY <2>1, <2>2, <2>3, RecordSeqs, FinishInv DEF Answers
  <2> QED
    BY <1>a, <1>b, <2>4, TogetherIInv
<1>11. ASSUME UNCHANGED vars PROVE IInv'
  <2>1. \A d \in Calls : CallInv(d)'
    BY <1>0, <1>11, OtherCall DEF vars, upstream, IInv
  <2> QED
    BY <1>a, <1>b, <1>11, <2>1, TogetherIInv DEF vars
<1> QED
  BY <1>1, <1>2, <1>3, <1>4, <1>5, <1>6, <1>7, <1>8, <1>9, <1>10, <1>11
     DEF Next, Step, Quiescent

\* The inductive invariant holds of every behaviour.
THEOREM InductiveInvariant == Spec => []IInv
BY InitIInv, StepIInv, PTL DEF Spec

\* The audit log only ever holds known records, the counters are numbers, and
\* every call is at a stage of its tool.
THEOREM TypeCorrect == Spec => []TypeOK
<1>1. IInv => TypeOK
  BY DEF IInv
<1> QED
  BY <1>1, InductiveInvariant, PTL

\* However the calls interleave, a write that took effect stands in the audit
\* log between its attempt and one outcome.
THEOREM WritesLogged == Spec => []WritesAreLogged
<1>1. ASSUME IInv, NEW c \in Calls, effects[c] = 1
      PROVE  /\ request[c].tool # "manage_service" => trail[c] # << >> /\ trail[c][1] = "attempt"
             /\ Tool(c).results /\ answer[c] # "none" =>
                   trail[c] \in {<<"attempt", "success">>, <<"attempt", "failed">>}
  <2>1. CASE answer[c] # "none"
    BY <1>1, <2>1 DEF IInv, CallInv, DoneInv
  <2>2. CASE answer[c] = "none"
    <3>1. At(c, "write") \/ At(c, "verify")
      BY <1>1, <2>2 DEF IInv, CallInv, OpenInv
    <3>2. request[c].tool # "manage_service" => trail[c] = <<"attempt">>
      BY <1>1, <3>1, Cleared DEF IInv, CallInv
    <3>3. ~(Tool(c).results /\ answer[c] # "none")
      BY <2>2
    <3>4. request[c].tool # "manage_service" => trail[c] # << >> /\ trail[c][1] = "attempt"
      BY <3>2
    <3> QED
      BY <3>3, <3>4
  <2> QED
    BY <2>1, <2>2
<1>2. IInv => WritesAreLogged
  BY <1>1 DEF WritesAreLogged
<1> QED
  BY <1>2, InductiveInvariant, PTL
----------------------------------------------------------------------------
\* The calls that are counted are finitely many at any time, however many the
\* server handles, and their number is what the counters show.
CountInv ==
    /\ IsFiniteSet(Succeeded) /\ IsFiniteSet(Raised)
    /\ CountedOnce

\* A finite set that gains one member is one larger.
LEMMA JoinedBy ==
    ASSUME NEW S, NEW T, NEW x, IsFiniteSet(S), x \notin S, T = S \cup {x}
    PROVE  IsFiniteSet(T) /\ Cardinality(T) = Cardinality(S) + 1
BY FS_AddElement

\* A step of one call that counts nothing and changes neither set for it, or
\* that counts the call in the set it joins, keeps the counters right.
LEMMA CountStep ==
    ASSUME TypeOK, CountInv, NEW c \in Calls, Others(c), UNCHANGED <<allowed, request>>,
           \/ /\ UNCHANGED metrics
              /\ c \in Succeeded' <=> c \in Succeeded
              /\ c \in Raised' <=> c \in Raised
           \/ /\ Count("success")
              /\ c \notin Succeeded /\ c \in Succeeded'
              /\ c \in Raised' <=> c \in Raised
           \/ /\ Count("error")
              /\ c \in Succeeded' <=> c \in Succeeded
              /\ c \notin Raised /\ c \in Raised'
    PROVE  CountInv'
<1>1. \A d \in Calls \ {c} : /\ d \in Succeeded' <=> d \in Succeeded
                             /\ d \in Raised' <=> d \in Raised
  BY DEF Others, Succeeded, Raised, Settled, At, Tool, Permitted
<1>2. /\ Succeeded \subseteq Calls /\ Succeeded' \subseteq Calls
      /\ Raised \subseteq Calls /\ Raised' \subseteq Calls
  BY DEF Succeeded, Raised
<1>3. \A s \in {"success", "error"} : Count(s) =>
          \A r \in {"success", "error"} : metrics'[r] = metrics[r] + IF r = s THEN 1 ELSE 0
  BY DEF Count, TypeOK
<1>4. metrics["success"] \in Nat /\ metrics["error"] \in Nat
  BY DEF TypeOK
<1>5. CASE /\ UNCHANGED metrics
           /\ c \in Succeeded' <=> c \in Succeeded
           /\ c \in Raised' <=> c \in Raised
  <2>1. Succeeded' = Succeeded /\ Raised' = Raised
    BY <1>1, <1>2, <1>5
  <2> QED
    BY <1>5, <2>1 DEF CountInv, CountedOnce
<1>6. CASE /\ Count("success")
           /\ c \notin Succeeded /\ c \in Succeeded'
           /\ c \in Raised' <=> c \in Raised
  <2>1. Succeeded' = Succeeded \cup {c} /\ Raised' = Raised
    BY <1>1, <1>2, <1>6
  <2>2. IsFiniteSet(Succeeded') /\ Cardinality(Succeeded') = Cardinality(Succeeded) + 1
    BY <1>6, <2>1, JoinedBy DEF CountInv
  <2>3. metrics'["success"] = metrics["success"] + 1 /\ metrics'["error"] = metrics["error"]
    BY <1>3, <1>4, <1>6
  <2> QED
    BY <2>1, <2>2, <2>3 DEF CountInv, CountedOnce
<1>7. CASE /\ Count("error")
           /\ c \in Succeeded' <=> c \in Succeeded
           /\ c \notin Raised /\ c \in Raised'
  <2>1. Succeeded' = Succeeded /\ Raised' = Raised \cup {c}
    BY <1>1, <1>2, <1>7
  <2>2. IsFiniteSet(Raised') /\ Cardinality(Raised') = Cardinality(Raised) + 1
    BY <1>7, <2>1, JoinedBy DEF CountInv
  <2>3. metrics'["success"] = metrics["success"] /\ metrics'["error"] = metrics["error"] + 1
    BY <1>3, <1>4, <1>7
  <2> QED
    BY <2>1, <2>2, <2>3 DEF CountInv, CountedOnce
<1> QED
  BY <1>5, <1>6, <1>7

\* What is particular to sql_execute: its statement is validated before the
\* preview, which passes _run_tool, and the confirmation comes after it.
LEMMA SqlStages ==
    ASSUME IInv, NEW c \in Calls, request[c].tool = "sql_execute"
    PROVE  /\ Tool(c).gated /\ Tool(c).accepts /\ ~Tool(c).looksUp
           /\ At(c, "preview") => request[c].good
           /\ At(c, "confirm") => ~request[c].dryRun
<1>1. Tool(c) = SqlExecute
  BY DEF Tool, Tools
<1>2. /\ Tool(c).gated /\ Tool(c).accepts /\ ~Tool(c).looksUp
      /\ Tool(c).stages = Statement
  BY <1>1 DEF SqlExecute, ManageService, Statement
<1>3. ASSUME At(c, "preview") PROVE request[c].good
  <2>1. step[c] = 3
    BY <1>2, <1>3 DEF At, Statement
  <2>2. Passed(c, "validate")
    BY <1>2, <2>1 DEF Passed, Statement
  <2> QED
    BY <1>3, <2>2 DEF At, IInv, CallInv, OpenInv
<1>4. ASSUME At(c, "confirm") PROVE ~request[c].dryRun
  <2>1. step[c] = 4
    BY <1>2, <1>4 DEF At, Statement
  <2>2. Passed(c, "preview")
    BY <1>2, <2>1 DEF Passed, Statement
  <2> QED
    BY <1>4, <2>2 DEF At, IInv, CallInv, OpenInv
<1> QED
  BY <1>2, <1>3, <1>4

\* A call whose write is still to return is counted nowhere; one that has no
\* outcome is counted for its answer alone.
LEMMA NotCounted ==
    ASSUME IInv, NEW c \in Calls, answer[c] = "none", ~At(c, "verify")
    PROVE  /\ c \notin Succeeded /\ c \notin Raised
           /\ ~At(c, "write") => outcome[c] = "none"
BY DEF IInv, CallInv, OpenInv, Succeeded, Raised, Settled

\* Nothing is counted at first.
LEMMA InitCount == Init => CountInv
<1> SUFFICES ASSUME Init PROVE CountInv
  OBVIOUS
<1>1. Succeeded = {} /\ Raised = {}
  BY DEF Init, Client!Init, Succeeded, Raised, Settled
<1>2. metrics["success"] = 0 /\ metrics["error"] = 0
  BY DEF Init
<1> QED
  BY <1>1, <1>2, FS_EmptySet DEF CountInv, CountedOnce

\* A call that is not answered and has no outcome is counted nowhere, whatever
\* it did; the answer of one that has none decides whether it is.
LEMMA CountedByAnswer ==
    ASSUME NEW c \in Calls, outcome'[c] = "none", UNCHANGED <<allowed, request>>
    PROVE  /\ c \in Succeeded' <=> answer'[c] = "preview" /\ Tool(c).gated
           /\ c \in Raised' <=>
                \/ answer'[c] = "failed"
                \/ /\ answer'[c] = "rejected" /\ Permitted(c)
                   /\ request[c].tool = "sql_execute" /\ request[c].dryRun /\ request[c].good
<1>1. /\ Tool(c)' = Tool(c) /\ request'[c] = request[c]
      /\ Permitted(c)' <=> Permitted(c)
  BY DEF Tool, Permitted
<1>2. ~Settled(c)'
  BY DEF Settled
<1> QED
  BY <1>1, <1>2 DEF Succeeded, Raised

\* No step of a call counts it twice, or in both counters, or leaves uncounted
\* what _run_tool has ended: one step per action.
LEMMA StepCount == IInv /\ CountInv /\ [Next]_vars => CountInv'
<1> SUFFICES ASSUME IInv, CountInv, [Next]_vars PROVE CountInv'
  OBVIOUS
<1>0. TypeOK
  BY DEF IInv
<1> DEFINE Silent(c) == /\ UNCHANGED metrics
                        /\ c \notin Succeeded /\ c \notin Succeeded'
                        /\ c \notin Raised /\ c \notin Raised'
<1>1. ASSUME NEW c \in Calls, RecordAttempt(c) PROVE CountInv'
  <2> USE <1>1 DEF RecordAttempt
  <2>1. answer[c] = "none" /\ answer'[c] = "none" /\ ~At(c, "write") /\ ~At(c, "verify")
    BY DEF At
  <2>2. outcome[c] = "none" /\ outcome'[c] = "none"
    BY <2>1, NotCounted DEF upstream
  <2>3. Silent(c)
    BY <2>1, <2>2, NotCounted, CountedByAnswer
  <2>4. Others(c)
    BY <1>0 DEF Others, Advance, TypeOK, upstream
  <2> QED
    BY <1>0, <2>3, <2>4, CountStep
<1>2. ASSUME NEW c \in Calls, Preview(c) PROVE CountInv'
  <2> USE <1>2 DEF Preview
  <2>1. answer[c] = "none" /\ ~At(c, "write") /\ ~At(c, "verify")
    BY DEF At
  <2>2. outcome[c] = "none" /\ outcome'[c] = "none"
    BY <2>1, NotCounted DEF upstream
  <2>3. c \notin Succeeded /\ c \notin Raised
    BY <2>1, NotCounted
  <2>4. Others(c)
    BY <1>0 DEF Others, Advance, Finish, TypeOK, upstream
  <2>5. CASE ~request[c].dryRun
    <3>1. answer'[c] = "none" /\ UNCHANGED metrics
      BY <2>1, <2>5
    <3>2. Silent(c)
      BY <2>2, <2>3, <3>1, CountedByAnswer
    <3> QED
      BY <1>0, <2>4, <3>2, CountStep
  <2>6. CASE request[c].dryRun /\ Tool(c).gated /\ ~Permitted(c)
    <3>1. answer'[c] = "rejected" /\ UNCHANGED metrics
      BY <1>0, <2>6 DEF Finish, TypeOK
    <3>2. Silent(c)
      BY <2>2, <2>3, <2>6, <3>1, CountedByAnswer
    <3> QED
      BY <1>0, <2>4, <3>2, CountStep
  <2>7. CASE request[c].dryRun /\ Tool(c).gated /\ Permitted(c)
    <3>1. CASE Finish(c, "preview", << >>) /\ Count("success")
      <4>1. answer'[c] = "preview"
        BY <1>0, <3>1 DEF Finish, TypeOK
      <4>2. c \in Succeeded' /\ c \notin Raised'
        BY <2>2, <2>7, <4>1, CountedByAnswer
      <4> QED
        BY <1>0, <2>3, <2>4, <3>1, <4>2, CountStep
    <3>2. CASE /\ request[c].tool = "sql_execute"
               /\ Finish(c, "rejected", << >>)
               /\ Count("error")
      <4>1. answer'[c] = "rejected"
        BY <1>0, <3>2 DEF Finish, TypeOK
      <4>2. request[c].good
        BY <3>2, SqlStages
      <4>3. c \notin Succeeded' /\ c \in Raised'
        BY <2>2, <2>7, <3>2, <4>1, <4>2, CountedByAnswer
      <4> QED
        BY <1>0, <2>3, <2>4, <3>2, <4>3, CountStep
    <3> QED
      BY <2>7, <3>1, <3>2
  <2>8. CASE request[c].dryRun /\ ~Tool(c).gated
    <3>1. answer'[c] = "preview" /\ UNCHANGED metrics
      BY <1>0, <2>8 DEF Finish, TypeOK
    <3>2. Silent(c)
      BY <2>2, <2>3, <2>8, <3>1, CountedByAnswer
    <3> QED
      BY <1>0, <2>4, <3>2, CountStep
  <2> QED
    BY <2>5, <2>6, <2>7, <2>8
<1>3. ASSUME NEW c \in Calls, Validate(c) PROVE CountInv'
  <2> USE <1>3 DEF Validate
  <2>1. answer[c] = "none" /\ ~At(c, "write") /\ ~At(c, "verify")
    BY DEF At
  <2>2. outcome[c] = "none" /\ outcome'[c] = "none"
    BY <2>1, NotCounted DEF upstream
  <2>3. Others(c)
    BY <1>0 DEF Others, Advance, Reject, Finish, TypeOK, upstream
  <2>4. \/ answer'[c] = "none"
        \/ answer'[c] = "rejected" /\ (request[c].tool = "sql_execute" => ~request[c].good)
    BY <1>0, <2>1, SqlStages DEF Reject, Finish, TypeOK
  <2>5. Silent(c)
    BY <2>1, <2>2, <2>4, NotCounted, CountedByAnswer
  <2> QED
    BY <1>0, <2>3, <2>5, CountStep
<1>4. ASSUME NEW c \in Calls, Confirm(c) PROVE CountInv'
  <2> USE <1>4 DEF Confirm
  <2>1. answer[c] = "none" /\ ~At(c, "write") /\ ~At(c, "verify")
    BY DEF At
  <2>2. outcome[c] = "none" /\ outcome'[c] = "none"
    BY <2>1, NotCounted DEF upstream
  <2>3. Others(c)
    BY <1>0 DEF Others, Advance, Reject, Finish, TypeOK, upstream
  <2>4. \/ answer'[c] = "none"
        \/ answer'[c] = "rejected" /\ (request[c].tool = "sql_execute" => ~request[c].dryRun)
    BY <1>0, <2>1, SqlStages DEF Reject, Finish, TypeOK
  <2>5. Silent(c)
    BY <2>1, <2>2, <2>4, NotCounted, CountedByAnswer
  <2> QED
    BY <1>0, <2>3, <2>5, CountStep
<1>5. ASSUME NEW c \in Calls, Deny(c) PROVE CountInv'
  <2> USE <1>5 DEF Deny
  <2>1. answer[c] = "none" /\ ~At(c, "verify")
    BY DEF At
  <2>2. outcome'[c] = "none" /\ answer'[c] = "rejected" /\ ~Permitted(c)
    BY <1>0 DEF Finish, TypeOK, upstream
  <2>3. Others(c)
    BY <1>0 DEF Others, Finish, TypeOK, upstream
  <2>4. Silent(c)
    BY <2>1, <2>2, NotCounted, CountedByAnswer
  <2> QED
    BY <1>0, <2>3, <2>4, CountStep
<1>6. ASSUME NEW c \in Calls, StartWrite(c) PROVE CountInv'
  <2> USE <1>6 DEF StartWrite, Client!Call
  <2>1. answer[c] = "none" /\ answer'[c] = "none" /\ ~At(c, "verify")
    BY <1>0, CallTool DEF At, Shape
  <2>2. outcome'[c] = "none"
    BY <1>0 DEF TypeOK, Client!TypeOK
  <2>3. Others(c)
    BY <1>0 DEF Others, TypeOK, Client!TypeOK
  <2>4. Silent(c)
    BY <2>1, <2>2, NotCounted, CountedByAnswer
  <2> QED
    BY <1>0, <2>3, <2>4, CountStep
<1>7. ASSUME NEW c \in Calls, AbortWrite(c) PROVE CountInv'
  <2> USE <1>7 DEF AbortWrite
  <2>1. answer[c] = "none" /\ ~At(c, "verify")
    BY DEF At
  <2>2. outcome'[c] = "none" /\ answer'[c] = "failed"
    BY <1>0 DEF Finish, TypeOK, upstream
  <2>3. Others(c)
    BY <1>0 DEF Others, Finish, TypeOK, upstream
  <2>4. c \notin Succeeded /\ c \notin Succeeded' /\ c \notin Raised /\ c \in Raised'
    BY <2>1, <2>2, NotCounted, CountedByAnswer
  <2> QED
    BY <1>0, <2>3, <2>4, CountStep
<1>8. ASSUME NEW c \in Calls, ClientStep(c) PROVE CountInv'
  <2> USE <1>8 DEF ClientStep, Client!TakeEffect, Client!Return
  <2>1. At(c, "write") /\ At(c, "write")' /\ ~At(c, "verify")
    BY DEF At, Tool
  <2>2. answer[c] = "none" /\ answer'[c] = "none"
    BY DEF At
  <2>3. c \notin Succeeded' /\ c \notin Raised'
    BY <2>1, <2>2 DEF Succeeded, Raised, Settled
  <2>4. Others(c)
    BY <1>0 DEF Others, TypeOK, Client!TypeOK
  <2>5. Silent(c)
    BY <2>1, <2>2, <2>3, NotCounted
  <2> QED
    BY <1>0, <2>4, <2>5, CountStep
<1>9. ASSUME NEW c \in Calls, WriteReturned(c) PROVE CountInv'
  <2> USE <1>9 DEF WriteReturned
  <2>1. answer[c] = "none" /\ ~At(c, "verify")
    BY DEF At
  <2>2. c \notin Succeeded /\ c \notin Raised
    BY <2>1, NotCounted
  <2>3. Others(c)
    BY <1>0 DEF Others, Advance, Finish, TypeOK, upstream
  <2>4. outcome'[c] = outcome[c] /\ outcome[c] # "none" /\ phase'[c] = "idle"
    BY DEF upstream
  <2>5. CASE outcome[c] # "ok"
    <3>1. answer'[c] = "failed" /\ Count("error")
      BY <1>0, <2>5 DEF Finish, TypeOK
    <3>2. c \notin Succeeded' /\ c \in Raised'
      BY <2>4, <2>5, <3>1 DEF Succeeded, Raised, Settled, At
    <3> QED
      BY <1>0, <2>2, <2>3, <3>1, <3>2, CountStep
  <2>6. CASE outcome[c] = "ok" /\ step[c] = Len(Tool(c).stages)
    <3>1. answer'[c] = "applied" /\ Count("success")
      BY <1>0, <2>6 DEF Finish, TypeOK
    <3>2. c \in Succeeded' /\ c \notin Raised'
      BY <2>4, <2>6, <3>1 DEF Succeeded, Raised, Settled, At
    <3> QED
      BY <1>0, <2>2, <2>3, <3>1, <3>2, CountStep
  <2>7. CASE outcome[c] = "ok" /\ step[c] < Len(Tool(c).stages)
    <3>1. answer'[c] = "none" /\ Count("success") /\ step'[c] = step[c] + 1
      BY <1>0, <2>1, <2>7 DEF Advance, TypeOK
    <3>2. Tool(c)' = Tool(c)
      BY DEF Tool
    <3>3. ~At(c, "write")'
      BY <1>0, <2>7, <3>1, <3>2, CallTool DEF At, Shape
    <3>4. c \in Succeeded' /\ c \notin Raised'
      BY <2>4, <2>7, <3>1, <3>3 DEF Succeeded, Raised, Settled
    <3> QED
      BY <1>0, <2>2, <2>3, <3>1, <3>4, CountStep
  <2> QED
    BY <2>5, <2>6, <2>7
<1>10. ASSUME NEW c \in Calls, Verify(c) PROVE CountInv'
  <2> USE <1>10 DEF Verify
  <2>1. /\ answer[c] = "none" /\ ~At(c, "write") /\ outcome[c] = "ok" /\ phase[c] = "idle"
        /\ outcome'[c] = "ok" /\ phase'[c] = "idle"
    BY NotWriting DEF At, IInv, CallInv, OpenInv, upstream
  <2>2. answer'[c] \in {"applied", "unverified", "failed"}
    BY <1>0 DEF Finish, TypeOK
  <2>3. c \in Succeeded /\ c \in Succeeded' /\ c \notin Raised /\ c \notin Raised'
    BY <2>1, <2>2 DEF Succeeded, Raised, Settled, At
  <2>4. Others(c)
    BY <1>0 DEF Others, Finish, TypeOK, upstream
  <2> QED
    BY <1>0, <2>3, <2>4, CountStep
<1>11. ASSUME UNCHANGED vars PROVE CountInv'
  BY <1>11
     DEF vars, upstream, CountInv, CountedOnce, Succeeded, Raised, Settled, At, Tool, Permitted
<1> QED
  BY <1>1, <1>2, <1>3, <1>4, <1>5, <1>6, <1>7, <1>8, <1>9, <1>10, <1>11
     DEF Next, Step, Quiescent

\* The counters can be reconciled with the calls at any moment: an accepted
\* write or gated preview is one success, and a call that raised inside
\* _run_tool one error, whatever the verifier and the audit log say of it.
THEOREM EveryCallCountsOnce == Spec => []CountedOnce
<1>1. CountInv => CountedOnce
  BY DEF CountInv
<1> QED
  BY <1>1, InitIInv, StepIInv, InitCount, StepCount, PTL DEF Spec
----------------------------------------------------------------------------
\* Only a tool that looks services up sends anything for a dry run.
LookUpInv == \A c \in Calls : request[c].dryRun /\ c \in contacted => Tool(c).looksUp

\* A step of call c keeps that, if it sends nothing, sends a lookup, or sends
\* the write of a call that is no dry run.
LEMMA LookUpStep ==
    ASSUME LookUpInv, NEW c \in Calls, UNCHANGED request,
           \/ UNCHANGED contacted
           \/ /\ contacted' = contacted \cup {c}
              /\ Tool(c).looksUp \/ ~request[c].dryRun
    PROVE  LookUpInv'
BY DEF LookUpInv, Tool

\* No tool sends anything but a lookup for a dry run, whether it validates
\* before the preview or after it.
THEOREM DryRunsOnlyLookUp == Spec => []DryRunOnlyLooksUp
<1>1. Init => LookUpInv
  BY DEF Init, LookUpInv
<1>2. IInv /\ LookUpInv /\ [Next]_vars => LookUpInv'
  <2> SUFFICES ASSUME IInv, LookUpInv, [Next]_vars PROVE LookUpInv'
    OBVIOUS
  <2>1. ASSUME NEW c \in Calls, RecordAttempt(c) \/ Confirm(c) \/ Deny(c) \/ ClientStep(c)
                                \/ WriteReturned(c) \/ Verify(c)
        PROVE  LookUpInv'
    BY <2>1, LookUpStep DEF RecordAttempt, Confirm, Deny, ClientStep, WriteReturned, Verify
  <2>2. ASSUME NEW c \in Calls, Preview(c) \/ Validate(c) PROVE LookUpInv'
    BY <2>2, LookUpStep DEF Preview, Validate, LookUpService
  <2>3. ASSUME NEW c \in Calls, StartWrite(c) \/ AbortWrite(c) PROVE LookUpInv'
    <3>1. At(c, "write")
      BY <2>3 DEF StartWrite, AbortWrite
    <3>2. ~request[c].dryRun
      BY <3>1, Cleared DEF IInv, CallInv
    <3>3. QED
      BY <2>3, <3>2, LookUpStep DEF StartWrite, AbortWrite
  <2>4. ASSUME UNCHANGED vars PROVE LookUpInv'
    BY <2>4 DEF vars, LookUpInv, Tool
  <2>5. QED
    BY <2>1, <2>2, <2>3, <2>4 DEF Next, Step, Quiescent
<1>3. IInv /\ LookUpInv => DryRunOnlyLooksUp
  BY DEF IInv, TypeOK, Client!TypeOK, CallInv, ClientInv, Approved, LookUpInv,
         DryRunOnlyLooksUp
<1>4. QED
  BY <1>1, <1>2, <1>3, InitIInv, StepIInv, PTL DEF Spec
----------------------------------------------------------------------------
\* A call that is answered says in answer and log what became of its write:
\* the last record it added, if any, decides.
LEMMA LastRecord ==
    ASSUME NEW s \in Seq(Records), NEW rs \in Seq(Records), rs # << >>
    PROVE  /\ s \o rs # << >>
           /\ (s \o rs)[Len(s \o rs)] = rs[Len(rs)]
BY ConcatProperties DEF Records

\* Answering a call closes it in the abstract specification, when what answer
\* and log say agrees with what was written.
LEMMA FinishCloses ==
    ASSUME IInv, NEW c \in Calls, NEW a \in Answers \ {"none"}, answer[c] = "none",
           NEW rs \in Seq(Records), Finish(c, a, rs),
           UNCHANGED <<allowed, request, effects>>,
           NEW l \in Promise!Ledgers, Ledger(c)' = l,
           a \in {"applied", "unverified"} \/ l = "success" => effects[c] = 1,
           a \in {"preview", "rejected"} \/ l \in {"rejected", "previewed"} => effects[c] = 0
    PROVE  Promise!Close(c, a, l)
<1>1. answer' = [answer EXCEPT ![c] = a] /\ answer \in [Calls -> Answers]
      /\ trail \in [Calls -> Seq(Records)] /\ trail' = [trail EXCEPT ![c] = @ \o rs]
  BY DEF Finish, IInv, TypeOK
<1>2. \A d \in Calls : Ledger(d)' = IF d = c THEN l ELSE Ledger(d)
  BY <1>1 DEF Ledger
<1>3. Approved' = Approved
  BY DEF Approved, Permitted, Tool
<1> QED
  BY <1>1, <1>2, <1>3
     DEF Promise!Close, Promise!Wrote, Promise!WroteNot, Promise!LedgerWrote,
         Promise!LedgerWroteNot

\* What the log says of a call that is being answered is the last record the
\* answer adds, if that is an outcome: before it there is at most the attempt.
LEMMA LedgerAfter ==
    ASSUME IInv, NEW c \in Calls, NEW a \in Answers \ {"none"}, answer[c] = "none",
           NEW rs \in Seq(Records), Finish(c, a, rs)
    PROVE  Ledger(c)' = IF rs # << >> /\ rs[Len(rs)] \in Promise!Ledgers
                        THEN rs[Len(rs)] ELSE "none"
<1>1. answer'[c] = a /\ trail'[c] = trail[c] \o rs /\ trail[c] \in Seq(Records)
      /\ a # "none"
  BY DEF Finish, IInv, TypeOK
<1>2. trail[c] = << >> \/ trail[c] = <<"attempt">>
  BY DEF IInv, CallInv, OpenInv
<1>3. \A r \in Records : r \in Promise!Ledgers <=> r \in {"success", "failed", "rejected", "previewed"}
  BY DEF Records, Promise!Ledgers, Promise!LedgerWrote, Promise!LedgerWroteNot
<1>4. CASE rs = << >>
  <2>1. trail'[c] = trail[c]
    BY <1>1, <1>4, ConcatEmptySeq
  <2>2. Ledger(c)' = "none"
    <3>1. CASE trail[c] = << >>
      BY <1>1, <2>1, <3>1 DEF Ledger
    <3>2. CASE trail[c] = <<"attempt">>
      <4>1. trail'[c][Len(trail'[c])] = "attempt"
        BY <2>1, <3>2
      <4> QED
        BY <4>1 DEF Ledger
    <3> QED
      BY <1>2, <3>1, <3>2
  <2> QED
    BY <1>4, <2>2
<1>5. CASE rs # << >>
  <2>1. trail'[c] # << >> /\ trail'[c][Len(trail'[c])] = rs[Len(rs)]
    BY <1>1, <1>5, LastRecord
  <2>2. rs[Len(rs)] \in Records
    BY <1>5
  <2> QED
    BY <1>1, <1>3, <1>5, <2>1, <2>2 DEF Ledger
<1> QED
  BY <1>4, <1>5

\* The last record of a denial, and of any other answer.
LEMMA LastOf ==
    ASSUME NEW c, NEW r \in {"success", "failed"}
    PROVE  /\ Result(c, r) # << >> => Result(c, r)[Len(Result(c, r))] = r
           /\ LET rs == <<"policy_denial">> \o Result(c, "failed")
              IN  rs # << >> /\ rs[Len(rs)] \in {"policy_denial", "failed"}
<1>1. Result(c, r) = << >> \/ Result(c, r) = <<r>>
  BY DEF Result
<1>2. <<"policy_denial">> \o << >> = <<"policy_denial">>
  BY ConcatEmptySeq
<1>3. <<"policy_denial">> \o <<"failed">> = <<"policy_denial", "failed">>
  BY ConcatOne
<1>4. CASE Result(c, "failed") = << >>
  BY <1>1, <1>2, <1>4
<1>5. CASE Result(c, "failed") = <<"failed">>
  BY <1>1, <1>3, <1>5
<1> QED
  BY <1>4, <1>5 DEF Result

\* Every step of a call maps to a step of ApprovedWrite or to none: the write's
\* effect to TakeEffect, an answer to Close, all the rest to stuttering.
LEMMA StepPromise == IInv /\ [Next]_vars => [Promise!Next]_Promise!vars
<1> SUFFICES ASSUME IInv, [Next]_vars
             PROVE  Promise!Next \/ UNCHANGED Promise!vars
  OBVIOUS
<1> DEFINE Stutters == UNCHANGED Promise!vars
           Closes(c) == \E a \in Promise!Answers, l \in Promise!Ledgers : Promise!Close(c, a, l)
<1>1. ASSUME NEW c \in Calls, answer[c] = "none", UNCHANGED <<allowed, request, effects>>,
             NEW a \in Answers \ {"none"}, NEW rs \in Seq(Records), Finish(c, a, rs),
             a \in {"applied", "unverified"} => effects[c] = 1,
             a \in {"preview", "rejected"} => effects[c] = 0,
             rs # << >> => /\ rs[Len(rs)] = "success" => effects[c] = 1
                           /\ rs[Len(rs)] \in {"rejected", "previewed"} => effects[c] = 0
      PROVE  Promise!Next
  <2>1. PICK l \in Promise!Ledgers : Ledger(c)' = l /\
              l = IF rs # << >> /\ rs[Len(rs)] \in Promise!Ledgers THEN rs[Len(rs)] ELSE "none"
    BY <1>1, LedgerAfter DEF Promise!Ledgers
  <2>2. /\ l = "success" => effects[c] = 1
        /\ l \in {"rejected", "previewed"} => effects[c] = 0
    BY <1>1, <2>1
  <2>3. Promise!Close(c, a, l)
    BY <1>1, <2>1, <2>2, FinishCloses
  <2>4. a \in Promise!Answers
    BY DEF Answers, Promise!Answers, Promise!Wrote, Promise!WroteNot
  <2> QED
    BY <2>3, <2>4 DEF Promise!Next
<1>2. ASSUME UNCHANGED <<allowed, request, effects, answer, trail>> PROVE Stutters
  BY <1>2 DEF Promise!vars, Approved, Permitted, Tool, Ledger
<1>3. ASSUME NEW c \in Calls, RecordAttempt(c) PROVE Stutters
  <2>1. UNCHANGED <<allowed, request, effects, answer>> /\ answer[c] = "none"
    BY <1>3 DEF RecordAttempt, upstream, At
  <2>2. \A d \in Calls \ {c} : trail'[d] = trail[d]
    BY <1>3 DEF RecordAttempt, IInv, TypeOK
  <2>3. \A d \in Calls : Ledger(d)' = Ledger(d)
    BY <2>1, <2>2 DEF Ledger
  <2> QED
    BY <2>1, <2>3 DEF Promise!vars, Approved, Permitted, Tool
<1>4. ASSUME NEW c \in Calls, Preview(c) PROVE Promise!Next \/ Stutters
  <2> USE <1>4 DEF Preview
  <2>1. answer[c] = "none" /\ effects[c] = 0 /\ UNCHANGED <<allowed, request, effects>>
    BY NotWriting DEF At, upstream
  <2>2. CASE ~request[c].dryRun
    BY <1>2, <2>1, <2>2
  <2>3. CASE request[c].dryRun
    <3>1. PICK a \in {"preview", "rejected"},
               rs \in {<< >>, <<"policy_denial">>, <<"previewed">>} : Finish(c, a, rs)
      BY <2>3
    <3>2. a \in Answers \ {"none"} /\ rs \in Seq(Records)
      BY RecordSeqs DEF Answers
    <3>3. rs # << >> => rs[Len(rs)] \in {"policy_denial", "previewed"}
      BY <3>1
    <3> QED
      BY <1>1, <2>1, <3>1, <3>2, <3>3
  <2> QED
    BY <2>2, <2>3
<1>5. ASSUME NEW c \in Calls, Reject(c), answer[c] = "none", effects[c] = 0,
             UNCHANGED <<allowed, request, effects>>
      PROVE  Promise!Next
  <2>1. PICK rs \in {<< >>, <<"rejected">>} : Finish(c, "rejected", rs)
    BY <1>5 DEF Reject
  <2>2. "rejected" \in Answers \ {"none"} /\ rs \in Seq(Records)
        /\ (rs # << >> => rs[Len(rs)] = "rejected")
    <3>1. << >> \in Seq(Records) /\ <<"rejected">> \in Seq(Records)
      BY RecordSeqs
    <3>2. rs # << >> => rs[Len(rs)] = "rejected"
      BY <2>1
    <3> QED
      BY <2>1, <3>1, <3>2 DEF Answers
  <2> QED
    BY <1>1, <1>5, <2>1, <2>2
<1>6. ASSUME NEW c \in Calls, Validate(c) \/ Confirm(c) PROVE Promise!Next \/ Stutters
  <2>1. answer[c] = "none" /\ effects[c] = 0 /\ UNCHANGED <<allowed, request, effects>>
    BY <1>6, NotWriting DEF Validate, Confirm, At, upstream
  <2>2. Reject(c) \/ UNCHANGED <<answer, trail>>
    BY <1>6 DEF Validate, Confirm
  <2> QED
    BY <1>2, <1>5, <2>1, <2>2
<1>7. ASSUME NEW c \in Calls, Deny(c) PROVE Promise!Next
  <2> DEFINE rs == <<"policy_denial">> \o Result(c, "failed")
  <2>1. answer[c] = "none" /\ effects[c] = 0 /\ UNCHANGED <<allowed, request, effects>>
    BY <1>7 DEF Deny, At, upstream, IInv, CallInv, ClientInv, Approved, TypeOK, Client!TypeOK
  <2>2. Finish(c, "rejected", rs) /\ rs \in Seq(Records) /\ "rejected" \in Answers \ {"none"}
        /\ rs # << >> /\ rs[Len(rs)] \in {"policy_denial", "failed"}
    BY <1>7, RecordSeqs, LastOf DEF Deny, Answers
  <2> HIDE DEF rs
  <2> QED
    BY <1>1, <2>1, <2>2
<1>8. ASSUME NEW c \in Calls, StartWrite(c) PROVE Stutters
  <2>1. effects[c] = 0
    BY <1>8 DEF StartWrite, Client!Call, IInv, CallInv, ClientInv, TypeOK, Client!TypeOK
  <2>2. effects' = effects
    BY <1>8, <2>1 DEF StartWrite, Client!Call, IInv, TypeOK, Client!TypeOK
  <2> QED
    BY <1>2, <1>8, <2>2 DEF StartWrite
<1>9. ASSUME NEW c \in Calls, NEW r \in {"success", "failed"},
             NEW a \in {"failed", "applied", "unverified"}, Finish(c, a, Result(c, r)),
             answer[c] = "none", UNCHANGED <<allowed, request, effects>>,
             r = "success" => effects[c] = 1, a # "failed" => effects[c] = 1
      PROVE  Promise!Next
  <2>1. Result(c, r) \in Seq(Records) /\ a \in Answers \ {"none"}
        /\ (Result(c, r) # << >> => Result(c, r)[Len(Result(c, r))] = r)
    BY RecordSeqs, LastOf DEF Answers
  <2> QED
    BY <1>1, <1>9, <2>1
<1>10. ASSUME NEW c \in Calls, AbortWrite(c) PROVE Promise!Next
  <2>1. answer[c] = "none" /\ UNCHANGED <<allowed, request, effects>>
        /\ Finish(c, "failed", Result(c, "failed"))
    BY <1>10 DEF AbortWrite, At, upstream
  <2> QED
    BY <1>9, <2>1
<1>11. ASSUME NEW c \in Calls, ClientStep(c) PROVE Promise!Next \/ Stutters
  <2>1. answer[c] = "none" /\ UNCHANGED <<allowed, request, answer, trail>>
    BY <1>11 DEF ClientStep, At
  <2>2. CASE Client!TakeEffect(c)
    <3>1. c \in Approved /\ effects[c] = 0 /\ effects' = [effects EXCEPT ![c] = 1]
      BY <2>2 DEF Client!TakeEffect, IInv, CallInv, ClientInv
    <3>2. UNCHANGED <<Approved, [d \in Calls |-> Ledger(d)]>>
      BY <2>1 DEF Approved, Permitted, Tool, Ledger
    <3> QED
      BY <2>1, <3>1, <3>2 DEF Promise!Next, Promise!TakeEffect
  <2>3. CASE \E o \in Client!Outcomes : Client!Return(c, o)
    BY <1>2, <2>1, <2>3 DEF Client!Return
  <2> QED
    BY <1>11, <2>2, <2>3 DEF ClientStep
<1>12. ASSUME NEW c \in Calls, WriteReturned(c) PROVE Promise!Next \/ Stutters
  <2> USE <1>12 DEF WriteReturned
  <2>1. answer[c] = "none" /\ UNCHANGED <<allowed, request, effects>>
        /\ (outcome[c] = "ok" => effects[c] = 1)
    BY DEF At, upstream, IInv, CallInv, ClientInv
  <2>2. CASE Finish(c, "failed", Result(c, "failed"))
    BY <1>9, <2>1, <2>2
  <2>3. CASE outcome[c] = "ok" /\ Finish(c, "applied", Result(c, "success"))
    BY <1>9, <2>1, <2>3
  <2>4. CASE UNCHANGED <<answer, trail>>
    BY <1>2, <2>1, <2>4
  <2> QED
    BY <2>2, <2>3, <2>4
<1>13. ASSUME NEW c \in Calls, Verify(c) PROVE Promise!Next
  <2>1. answer[c] = "none" /\ UNCHANGED <<allowed, request, effects>> /\ effects[c] = 1
    BY <1>13 DEF Verify, At, upstream, IInv, CallInv, OpenInv, ClientInv
  <2> QED
    BY <1>9, <1>13, <2>1 DEF Verify
<1>14. ASSUME UNCHANGED vars PROVE Stutters
  BY <1>2, <1>14 DEF vars, upstream
<1> QED
  BY <1>3, <1>4, <1>6, <1>7, <1>8, <1>10, <1>11, <1>12, <1>13, <1>14
     DEF Next, Step, Quiescent

\* The stages of the write tools keep the promise of ApprovedWrite: an
\* unapproved call writes nothing, and answer and log tell the truth.
THEOREM WritesAreApproved == Spec => OnlyApprovedWrites
<1>1. Init => Promise!Init
  BY DEF Init, Client!Init, Promise!Init, Approved, Ledger
<1> QED
  BY <1>1, StepPromise, InductiveInvariant, PTL DEF Spec, OnlyApprovedWrites, Promise!Spec
=============================================================================
