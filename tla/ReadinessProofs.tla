-------------------------- MODULE ReadinessProofs --------------------------
(***************************************************************************)
(* Theorems about Readiness, for any requests and any number of expiries.  *)
(***************************************************************************)
EXTENDS Readiness, TLAPS

\* What the places of a request say of its two threads: nothing is started
\* before its time, or twice.
PlaceInv(r) ==
    /\ pc[r] # "answered" => answer[r] = "none"
    /\ pc[r] \in {"new", "check"} => thread[r] = "none"
    /\ pc[r] = "new" => check[r] = "none"
    /\ pc[r] = "check" => check[r] # "none" /\ setup.configured
    /\ Kind(r) = "health" /\ setup.configured /\ pc[r] \in {"probe", "answered"} =>
          state[r] # "not_configured"

\* The holder of a request is written by the check of that request, and by
\* nothing else after it was started.
HolderInv(r) ==
    /\ check[r] \in {"running", "raised"} =>
          holder[r] = IF Kind(r) = "ready" THEN "unset true" ELSE "unset false"
    /\ check[r] \in {"true", "false"} => holder[r] = check[r]

\* What was concluded from a check or a probe stays true of it.
ConclusionInv(r) ==
    /\ state[r] = "ready" => check[r] = "true"
    /\ answer[r] = "ok" =>
          /\ setup.configured => check[r] = "true"
          /\ thread[r] = "answered"
    /\ Kind(r) = "ready" /\ setup.configured =>
          /\ answer[r] = "ready" => check[r] \in {"true", "raised"}
          /\ answer[r] = "not_ready" => check[r] = "false"

RequestInv(r) == PlaceInv(r) /\ HolderInv(r) /\ ConclusionInv(r)

IInv == TypeOK /\ \A r \in Requests : RequestInv(r)
----------------------------------------------------------------------------
LEMMA InitIInv == Init => IInv
<1> SUFFICES ASSUME Init PROVE IInv
  OBVIOUS
<1>1. TypeOK
  <2>1. \A r \in Requests : lock = r <=> thread[r] = "login"
    BY NobodyAssumption DEF Init
  <2>2. /\ setup \in Setups
        /\ loop \in Requests \cup {Nobody} /\ lock \in Requests \cup {Nobody}
        /\ session \in BOOLEAN
    BY Zenon DEF Init
  <2>3. expiries \in 0..MaxExpiries
    BY ExpiriesAssumption, SMT DEF Init
  <2>4. QED
    BY <2>1, <2>2, <2>3 DEF Init, TypeOK, Answers
<1>2. \A r \in Requests : RequestInv(r)
  BY DEF Init, RequestInv, PlaceInv, HolderInv, ConclusionInv
<1>3. QED
  BY <1>1, <1>2 DEF IInv

\* A request whose own state is left alone keeps its invariant.
LEMMA Frame ==
  ASSUME NEW d \in Requests, RequestInv(d), setup' = setup,
         pc'[d] = pc[d], check'[d] = check[d], holder'[d] = holder[d],
         state'[d] = state[d], thread'[d] = thread[d], answer'[d] = answer[d]
  PROVE  RequestInv(d)'
  BY DEF RequestInv, PlaceInv, HolderInv, ConclusionInv, Kind

LEMMA StepIInv == IInv /\ [Next]_vars => IInv'
<1> SUFFICES ASSUME IInv, [Next]_vars PROVE IInv'
  OBVIOUS
<1> USE DEF IInv
<1>a. /\ thread \in [Requests -> {"none", "entering", "login", "posting", "answered", "failed"}]
      /\ lock \in Requests \cup {Nobody}
      /\ \A d \in Requests : lock = d <=> thread[d] = "login"
  BY DEF TypeOK, Ended
<1>b. expiries \in Nat /\ expiries <= MaxExpiries
  <2>1. expiries \in 0..MaxExpiries
    BY Zenon DEF TypeOK
  <2>2. QED
    BY <2>1, ExpiriesAssumption
<1>c. /\ pc \in [Requests -> {"new", "check", "probe", "answered"}]
      /\ state \in [Requests -> {"not_configured", "ready", "not_ready", "timeout"}]
      /\ answer \in [Requests -> Answers]
  BY DEF TypeOK
<1>1. ASSUME NEW r \in Requests, Start(r) PROVE IInv'
  <2>0. /\ pc[r] = "new" /\ UNCHANGED <<setup, state, lock, session, expiries>>
        /\ loop' \in {loop, r, Nobody}
        /\ \/ /\ setup.configured /\ Kind(r) # "other"
              /\ pc' = [pc EXCEPT ![r] = "check"]
              /\ check' = [check EXCEPT ![r] = "running"]
              /\ holder' = [holder EXCEPT ![r] =
                              IF Kind(r) = "ready" THEN "unset true" ELSE "unset false"]
              /\ UNCHANGED <<thread, answer>>
           \/ /\ Kind(r) = "ready" /\ ~setup.configured
              /\ pc' = [pc EXCEPT ![r] = "answered"]
              /\ answer' = [answer EXCEPT ![r] = "ready"]
              /\ UNCHANGED <<check, holder, thread>>
           \/ /\ Kind(r) = "other" \/ (Kind(r) = "health" /\ ~setup.configured)
              /\ pc' = [pc EXCEPT ![r] = "probe"]
              /\ thread' = [thread EXCEPT ![r] = "entering"]
              /\ UNCHANGED <<check, holder, answer>>
    BY <1>1 DEF Start, StartCheck, StartProbe, Reply, Goto, Holder
  <2>1. thread[r] = "none" /\ answer[r] = "none" /\ check[r] = "none"
    BY <2>0 DEF RequestInv, PlaceInv
  <2>2. TypeOK'
    <3>1. \A d \in Requests : lock' = d <=> thread'[d] = "login"
      BY <1>a, <2>0, <2>1
    <3>2. loop' \in Requests \cup {Nobody}
      BY <2>0 DEF TypeOK
    <3>3. /\ pc' \in [Requests -> {"new", "check", "probe", "answered"}]
          /\ check' \in [Requests -> {"none", "running", "true", "false", "raised"}]
          /\ thread' \in [Requests -> {"none", "entering", "login", "posting"} \cup Ended]
          /\ answer' \in [Requests -> Answers]
      BY <2>0 DEF TypeOK, Answers
    <3>4. holder' \in [Requests -> {"unset", "unset true", "unset false", "true", "false"}]
      BY <2>0 DEF TypeOK
    <3>5. QED
      BY <2>0, <3>1, <3>2, <3>3, <3>4 DEF TypeOK
  <2>3. ASSUME NEW d \in Requests, d # r PROVE RequestInv(d)'
    <3>1. /\ setup' = setup /\ pc'[d] = pc[d] /\ check'[d] = check[d]
          /\ holder'[d] = holder[d] /\ state'[d] = state[d]
          /\ thread'[d] = thread[d] /\ answer'[d] = answer[d]
      BY <2>0, <2>3 DEF TypeOK
    <3>2. QED
      BY <3>1, Frame
  <2>4. RequestInv(r)'
    <3>1. PlaceInv(r)'
      BY <2>0, <2>1 DEF TypeOK, RequestInv, PlaceInv, Kind
    <3>2. HolderInv(r)'
      BY <2>0, <2>1 DEF TypeOK, RequestInv, HolderInv, Kind
    <3>3. ConclusionInv(r)'
      BY <2>0, <2>1 DEF TypeOK, RequestInv, ConclusionInv, Kind
    <3>4. QED
      BY <3>1, <3>2, <3>3 DEF RequestInv
  <2>5. QED
    BY <2>2, <2>3, <2>4
<1>2. ASSUME NEW r \in Requests, JoinCheck(r) PROVE IInv'
  <2>0. /\ pc[r] = "check" /\ UNCHANGED <<setup, check, holder, lock, session, expiries>>
        /\ \/ /\ Kind(r) = "ready" /\ UNCHANGED <<state, thread>>
              /\ answer' = [answer EXCEPT ![r] = CheckSays(r)]
              /\ pc' = [pc EXCEPT ![r] = "answered"]
              /\ loop' = IF loop = r THEN Nobody ELSE loop
           \/ /\ Kind(r) # "ready" /\ UNCHANGED <<answer, loop>>
              /\ state' = [state EXCEPT ![r] = CheckSays(r)]
              /\ thread' = [thread EXCEPT ![r] = "entering"]
              /\ pc' = [pc EXCEPT ![r] = "probe"]
    BY <1>2 DEF JoinCheck, Reply, StartProbe, Goto
  <2>1. /\ CheckSays(r) \in {"ready", "not_ready", "timeout"}
        /\ thread[r] = "none" /\ answer[r] = "none" /\ setup.configured
        /\ CheckSays(r) = "ready" => \/ check[r] = "true"
                                     \/ check[r] = "raised" /\ Kind(r) = "ready"
        /\ CheckSays(r) = "not_ready" => \/ check[r] = "false"
                                         \/ check[r] = "raised" /\ Kind(r) # "ready"
    BY <2>0 DEF TypeOK, RequestInv, PlaceInv, HolderInv, CheckSays, Holder
  <2>2. TypeOK'
    <3>1. \A d \in Requests : lock' = d <=> thread'[d] = "login"
      BY <1>a, <2>0, <2>1
    <3>2. loop' \in Requests \cup {Nobody}
      BY <2>0 DEF TypeOK
    <3>3. /\ pc' \in [Requests -> {"new", "check", "probe", "answered"}]
          /\ state' \in [Requests -> {"not_configured", "ready", "not_ready", "timeout"}]
          /\ thread' \in [Requests -> {"none", "entering", "login", "posting"} \cup Ended]
          /\ answer' \in [Requests -> Answers]
      BY <1>a, <1>c, <2>0, <2>1 DEF Answers, Ended
    <3>4. QED
      BY <2>0, <3>1, <3>2, <3>3 DEF TypeOK
  <2>3. ASSUME NEW d \in Requests, d # r PROVE RequestInv(d)'
    <3>1. /\ setup' = setup /\ pc'[d] = pc[d] /\ check'[d] = check[d]
          /\ holder'[d] = holder[d] /\ state'[d] = state[d]
          /\ thread'[d] = thread[d] /\ answer'[d] = answer[d]
      BY <2>0, <2>3 DEF TypeOK
    <3>2. QED
      BY <3>1, Frame
  <2>4. RequestInv(r)'
    <3>1. PlaceInv(r)'
      BY <2>0, <2>1 DEF TypeOK, RequestInv, PlaceInv, Kind
    <3>2. HolderInv(r)'
      BY <2>0 DEF RequestInv, HolderInv, Kind
    <3>3. ConclusionInv(r)'
      BY <2>0, <2>1 DEF TypeOK, RequestInv, ConclusionInv, Kind
    <3>4. QED
      BY <3>1, <3>2, <3>3 DEF RequestInv
  <2>5. QED
    BY <2>2, <2>3, <2>4
<1>3. ASSUME NEW r \in Requests, ReplyHealth(r) PROVE IInv'
  <2>1. TypeOK'
    BY <1>3, NobodyAssumption, ExpiriesAssumption
       DEF TypeOK, Ended, Answers, server, client, ReplyHealth, Reply, Goto
  <2>2. ASSUME NEW d \in Requests, d # r PROVE RequestInv(d)'
    <3>1. /\ setup' = setup /\ pc'[d] = pc[d] /\ check'[d] = check[d]
          /\ holder'[d] = holder[d] /\ state'[d] = state[d]
          /\ thread'[d] = thread[d] /\ answer'[d] = answer[d]
      BY <1>3, <2>2 DEF TypeOK, server, client, ReplyHealth, Reply, Goto
    <3>2. QED
      BY <3>1, Frame
  <2>3. RequestInv(r)'
    BY <1>3
       DEF TypeOK, RequestInv, PlaceInv, HolderInv, ConclusionInv, Kind, Ended, server,
           client, ReplyHealth, Reply, Goto
  <2>4. QED
    BY <2>1, <2>2, <2>3
<1>4. ASSUME NEW r \in Requests, ReplyOther(r) PROVE IInv'
  <2>1. TypeOK'
    BY <1>4, NobodyAssumption, ExpiriesAssumption
       DEF TypeOK, Ended, Answers, server, client, ReplyOther, Reply, Goto
  <2>2. ASSUME NEW d \in Requests, d # r PROVE RequestInv(d)'
    <3>1. /\ setup' = setup /\ pc'[d] = pc[d] /\ check'[d] = check[d]
          /\ holder'[d] = holder[d] /\ state'[d] = state[d]
          /\ thread'[d] = thread[d] /\ answer'[d] = answer[d]
      BY <1>4, <2>2 DEF TypeOK, server, client, ReplyOther, Reply, Goto
    <3>2. QED
      BY <3>1, Frame
  <2>3. RequestInv(r)'
    BY <1>4
       DEF TypeOK, RequestInv, PlaceInv, HolderInv, ConclusionInv, Kind, Ended, server,
           client, ReplyOther, Reply, Goto
  <2>4. QED
    BY <2>1, <2>2, <2>3
<1>5. ASSUME NEW r \in Requests, CheckEnds(r) PROVE IInv'
  <2>1. TypeOK'
    BY <1>5, NobodyAssumption, ExpiriesAssumption
       DEF TypeOK, Ended, Answers, server, client, CheckEnds, Holder
  <2>2. ASSUME NEW d \in Requests, d # r PROVE RequestInv(d)'
    <3>1. /\ setup' = setup /\ pc'[d] = pc[d] /\ check'[d] = check[d]
          /\ holder'[d] = holder[d] /\ state'[d] = state[d]
          /\ thread'[d] = thread[d] /\ answer'[d] = answer[d]
      BY <1>5, <2>2 DEF TypeOK, server, client, CheckEnds, Holder
    <3>2. QED
      BY <3>1, Frame
  <2>3. RequestInv(r)'
    <3>1. /\ check[r] = "running" /\ UNCHANGED <<setup, pc, state, thread, answer>>
          /\ \/ check'[r] = "true" /\ holder'[r] = "true"
             \/ check'[r] = "false" /\ holder'[r] = "false"
             \/ check'[r] = "raised" /\ holder'[r] = holder[r]
      BY <1>5 DEF TypeOK, CheckEnds, Holder, server, client
    <3>2. PlaceInv(r)'
      BY <3>1 DEF RequestInv, PlaceInv, Kind
    <3>3. HolderInv(r)'
      BY <3>1 DEF RequestInv, HolderInv, Kind
    <3>4. ConclusionInv(r)'
      BY <3>1 DEF RequestInv, ConclusionInv, Kind
    <3>5. QED
      BY <3>2, <3>3, <3>4 DEF RequestInv
  <2>4. QED
    BY <2>1, <2>2, <2>3
<1>6. ASSUME NEW r \in Requests, Enter(r) PROVE IInv'
  <2>0. /\ thread[r] = "entering"
        /\ \/ thread' = [thread EXCEPT ![r] = "posting"] /\ lock' = lock
           \/ thread' = [thread EXCEPT ![r] = "login"] /\ lock = Nobody /\ lock' = r
    BY <1>6, Zenon DEF Enter
  <2>1. TypeOK'
    <3>1. \A d \in Requests : lock' = d <=> thread'[d] = "login"
      BY <1>a, <2>0, NobodyAssumption DEF Ended
    <3>2. lock' \in Requests \cup {Nobody}
      BY <2>0 DEF TypeOK
    <3>3. thread' \in [Requests -> {"none", "entering", "login", "posting"} \cup Ended]
      BY <1>a, <2>0 DEF Ended
    <3>4. session' \in BOOLEAN
      BY <1>6, Zenon DEF TypeOK, Enter
    <3>5. expiries' \in 0..MaxExpiries
      BY <1>6, ExpiriesAssumption DEF TypeOK, Enter
    <3>6. UNCHANGED <<setup, pc, loop, check, holder, state, answer>>
      BY <1>6 DEF server, Enter
    <3>7. QED
      BY <3>1, <3>2, <3>3, <3>4, <3>5, <3>6 DEF TypeOK
  <2>2. ASSUME NEW d \in Requests, d # r PROVE RequestInv(d)'
    <3>1. /\ setup' = setup /\ pc'[d] = pc[d] /\ check'[d] = check[d]
          /\ holder'[d] = holder[d] /\ state'[d] = state[d]
          /\ thread'[d] = thread[d] /\ answer'[d] = answer[d]
      BY <1>6, <2>2 DEF TypeOK, server, client, Enter
    <3>2. QED
      BY <3>1, Frame
  <2>3. RequestInv(r)'
    BY <1>6
       DEF TypeOK, RequestInv, PlaceInv, HolderInv, ConclusionInv, Kind, Ended, server,
           client, Enter
  <2>4. QED
    BY <2>1, <2>2, <2>3
<1>7. ASSUME NEW r \in Requests, EndLogin(r) PROVE IInv'
  <2>1. TypeOK'
    <3>1. \A d \in Requests : lock' = d <=> thread'[d] = "login"
      BY <1>7, NobodyAssumption DEF TypeOK, Ended, EndLogin
    <3>2. lock' \in Requests \cup {Nobody}
      BY <1>7 DEF TypeOK, EndLogin
    <3>3. thread' \in [Requests -> {"none", "entering", "login", "posting"} \cup Ended]
      BY <1>7 DEF TypeOK, Ended, EndLogin
    <3>4. session' \in BOOLEAN
      BY <1>7, Zenon DEF TypeOK, EndLogin
    <3>5. expiries' \in 0..MaxExpiries
      BY <1>7, ExpiriesAssumption DEF TypeOK, EndLogin
    <3>6. UNCHANGED <<setup, pc, loop, check, holder, state, answer>>
      BY <1>7 DEF server, EndLogin
    <3>7. QED
      BY <3>1, <3>2, <3>3, <3>4, <3>5, <3>6 DEF TypeOK
  <2>2. ASSUME NEW d \in Requests, d # r PROVE RequestInv(d)'
    <3>1. /\ setup' = setup /\ pc'[d] = pc[d] /\ check'[d] = check[d]
          /\ holder'[d] = holder[d] /\ state'[d] = state[d]
          /\ thread'[d] = thread[d] /\ answer'[d] = answer[d]
      BY <1>7, <2>2 DEF TypeOK, server, client, EndLogin
    <3>2. QED
      BY <3>1, Frame
  <2>3. RequestInv(r)'
    BY <1>7
       DEF TypeOK, RequestInv, PlaceInv, HolderInv, ConclusionInv, Kind, Ended, server,
           client, EndLogin
  <2>4. QED
    BY <2>1, <2>2, <2>3
<1>8. ASSUME NEW r \in Requests, EndPost(r) PROVE IInv'
  <2>0. /\ thread[r] = "posting" /\ lock' = lock
        /\ \E e \in Ended \cup {"entering"} : thread' = [thread EXCEPT ![r] = e]
    BY <1>8 DEF EndPost
  <2>1. TypeOK'
    <3>1. \A d \in Requests : lock' = d <=> thread'[d] = "login"
      BY <1>a, <2>0, NobodyAssumption DEF Ended
    <3>2. lock' \in Requests \cup {Nobody}
      BY <1>8 DEF TypeOK, EndPost
    <3>3. thread' \in [Requests -> {"none", "entering", "login", "posting"} \cup Ended]
      BY <1>a, <2>0 DEF Ended
    <3>4. session' \in BOOLEAN
      BY <1>8, Zenon DEF TypeOK, EndPost
    <3>5. expiries' \in 0..MaxExpiries
      <4>1. \/ expiries' = expiries
            \/ expiries < MaxExpiries /\ expiries' = expiries + 1
        BY <1>8, Zenon DEF EndPost
      <4>2. QED
        BY <1>b, <4>1, ExpiriesAssumption
    <3>6. UNCHANGED <<setup, pc, loop, check, holder, state, answer>>
      BY <1>8 DEF server, EndPost
    <3>7. QED
      BY <3>1, <3>2, <3>3, <3>4, <3>5, <3>6 DEF TypeOK
  <2>2. ASSUME NEW d \in Requests, d # r PROVE RequestInv(d)'
    <3>1. /\ setup' = setup /\ pc'[d] = pc[d] /\ check'[d] = check[d]
          /\ holder'[d] = holder[d] /\ state'[d] = state[d]
          /\ thread'[d] = thread[d] /\ answer'[d] = answer[d]
      BY <1>8, <2>2 DEF TypeOK, server, client, EndPost
    <3>2. QED
      BY <3>1, Frame
  <2>3. RequestInv(r)'
    BY <1>8
       DEF TypeOK, RequestInv, PlaceInv, HolderInv, ConclusionInv, Kind, Ended, server,
           client, EndPost
  <2>4. QED
    BY <2>1, <2>2, <2>3
<1>9. CASE UNCHANGED vars
  <2>1. TypeOK'
    BY <1>9 DEF TypeOK, vars, server, client
  <2>2. \A d \in Requests : RequestInv(d)'
    BY <1>9, Frame DEF vars, server, client
  <2>3. QED
    BY <2>1, <2>2
<1>10. QED
  BY <1>1, <1>2, <1>3, <1>4, <1>5, <1>6, <1>7, <1>8, <1>9
     DEF Next, ServerStep, ThreadStep, Quiescent

LEMMA InductiveInvariant == Spec => []IInv
  BY InitIInv, StepIInv, PTL DEF Spec

\* Every variable keeps its type, and the client's lock is held exactly while one
\* of the threads logs in, the forgotten ones included.
THEOREM TypeCorrect == Spec => []TypeOK
<1>1. IInv => TypeOK
  BY DEF IInv
<1>2. QED
  BY <1>1, InductiveInvariant, PTL

\* observability_health says "ok" only of its own check and its own probe.
THEOREM HealthTrue == Spec => []HealthIsTrue
<1>1. IInv => HealthIsTrue
  BY DEF IInv, RequestInv, ConclusionInv, HealthIsTrue
<1>2. QED
  BY <1>1, InductiveInvariant, PTL

\* /ready says "ready" only after its own check ended, with True or by raising,
\* and "not_ready" only after it ended with False.
THEOREM ReadyTrue == Spec => []ReadyIsTrue
<1>1. IInv => ReadyIsTrue
  BY DEF IInv, RequestInv, ConclusionInv, ReadyIsTrue
<1>2. QED
  BY <1>1, InductiveInvariant, PTL
=============================================================================
