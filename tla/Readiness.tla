----------------------------- MODULE Readiness -----------------------------
(***************************************************************************)
(* /ready, /readyz and the tool observability_health (src/src/faircom_mcp/ *)
(* server.py): each starts a daemon thread for the readiness check, and    *)
(* the tool another one that lists the services upstream, joins it for two *)
(* seconds, and leaves it behind if it is still running.  The endpoints    *)
(* join on the event loop, which serves nobody else meanwhile; the tool    *)
(* does so or not, depending on the version of FastMCP.                    *)
(*                                                                         *)
(* The upstream probe shares the session client with all tool calls.  Of   *)
(* the client, whose steps are SessionClient, this module keeps what makes *)
(* callers wait for each other: the lock held while one of them logs in.   *)
(* The readiness check is external: it may return, raise, or never end.    *)
(***************************************************************************)
EXTENDS Naturals

CONSTANTS
    Requests,     \* requests to the server
    Nobody,       \* no request
    MaxExpiries   \* bound: sessions the upstream drops

ASSUME NobodyAssumption == Nobody \notin Requests
ASSUME ExpiriesAssumption == MaxExpiries \in Nat

VARIABLES
    setup,     \* what the server and the requests are; constant
    pc,        \* pc[r]: where the code that answers r is
    loop,      \* the request that keeps the event loop, or Nobody
    check,     \* check[r]: the readiness check thread of r
    holder,    \* holder[r]: its result_holder or ready_holder
    state,     \* state[r]: readiness_state of the tool
    thread,    \* thread[r]: where r's thread is in the session client
    lock,      \* the request whose thread holds the client's lock, or Nobody
    session,   \* whether the client has a session token
    answer,    \* answer[r]: what r was answered
    expiries   \* counts MaxExpiries

server == <<pc, loop, state, answer>>
client == <<thread, lock, session, expiries>>
vars == <<setup, server, check, holder, client>>

\* kind: an endpoint, the tool, or any other tool call upstream.  configured:
\* whether create_server was given a readiness_check.  onLoop: whether FastMCP
\* runs tools on the event loop.  permitted: the policy of the group "admin".
Setups == [kind : [Requests -> {"ready", "health", "other"}],
           configured : BOOLEAN, onLoop : BOOLEAN, permitted : BOOLEAN]

Kind(r) == setup.kind[r]
NeedsLoop(r) == Kind(r) = "ready" \/ setup.onLoop
Answers == {"none", "ready", "not_ready", "timeout", "ok", "degraded", "denied", "done"}
Ended == {"answered", "failed"}
----------------------------------------------------------------------------
Init ==
    /\ setup \in Setups
    /\ pc = [r \in Requests |-> "new"]
    /\ loop = Nobody
    /\ check = [r \in Requests |-> "none"]
    /\ holder = [r \in Requests |-> "unset"]
    /\ state = [r \in Requests |-> "not_configured"]
    /\ thread = [r \in Requests |-> "none"]
    /\ lock = Nobody
    /\ session = FALSE
    /\ answer = [r \in Requests |-> "none"]
    /\ expiries = 0

\* Mutant of Holder: one holder for all requests.
SharedHolder(r) == CHOOSE s \in Requests : TRUE

\* Every request makes a holder of its own for its thread.
Holder(r) == r

\* The endpoints' holder starts as True, the tool's as False.
StartCheck(r) ==
    /\ check' = [check EXCEPT ![r] = "running"]
    /\ holder' = [holder EXCEPT ![Holder(r)] =
                    IF Kind(r) = "ready" THEN "unset true" ELSE "unset false"]

Goto(r, place) == pc' = [pc EXCEPT ![r] = place]

StartProbe(r) ==
    /\ thread' = [thread EXCEPT ![r] = "entering"]
    /\ Goto(r, "probe")

Reply(r, a) ==
    /\ answer' = [answer EXCEPT ![r] = a]
    /\ Goto(r, "answered")
    /\ loop' = IF loop = r THEN Nobody ELSE loop

\* The request gets the event loop, or a worker thread.
Start(r) ==
    /\ pc[r] = "new" /\ loop = Nobody
    /\ \/ /\ Kind(r) # "other" /\ setup.configured
          /\ StartCheck(r)
          /\ Goto(r, "check")
          /\ loop' = IF NeedsLoop(r) THEN r ELSE Nobody
          /\ UNCHANGED <<thread, answer>>
       \/ /\ Kind(r) = "ready" /\ ~setup.configured
          /\ Reply(r, "ready")
          /\ UNCHANGED <<check, holder, thread>>
       \/ /\ Kind(r) = "other" \/ (Kind(r) = "health" /\ ~setup.configured)
          /\ StartProbe(r)
          /\ loop' = IF NeedsLoop(r) THEN r ELSE Nobody
          /\ UNCHANGED <<check, holder, answer>>
    /\ UNCHANGED <<setup, state, lock, session, expiries>>

\* Mutant of JoinEnds: the thread is joined without a timeout.
JoinEndsWithThread(alive) == ~alive

\* thread.join(timeout=2.0): over when the thread is, or when time is up.
JoinEnds(alive) == TRUE

\* Mutant of CheckSays: only the holder is looked at.
CheckSaysHolder(r) ==
    IF holder[Holder(r)] \in {"true", "unset true"} THEN "ready" ELSE "not_ready"

\* What a request makes of its check: is_alive, or else the holder.
CheckSays(r) ==
    IF check[r] = "running" THEN "timeout"
    ELSE IF holder[Holder(r)] \in {"true", "unset true"} THEN "ready" ELSE "not_ready"

\* The check is joined.  The endpoint answers, the tool goes on to the upstream.
JoinCheck(r) ==
    /\ pc[r] = "check" /\ JoinEnds(check[r] = "running")
    /\ IF Kind(r) = "ready"
       THEN Reply(r, CheckSays(r)) /\ UNCHANGED <<state, thread>>
       ELSE /\ state' = [state EXCEPT ![r] = CheckSays(r)]
            /\ StartProbe(r)
            /\ UNCHANGED <<answer, loop>>
    /\ UNCHANGED <<setup, check, holder, lock, session, expiries>>

\* The upstream probe is joined and the tool answers: ok when both are.  The
\* policy gate comes last, after the probes.
ReplyHealth(r) ==
    /\ pc[r] = "probe" /\ Kind(r) = "health"
    /\ JoinEnds(thread[r] \notin Ended)
    /\ Reply(r, IF ~setup.permitted THEN "denied"
                ELSE IF state[r] \in {"ready", "not_configured"} /\ thread[r] = "answered"
                THEN "ok" ELSE "degraded")
    /\ UNCHANGED <<setup, check, holder, state, client>>

\* Any other tool waits for its action, however long that takes.
ReplyOther(r) ==
    /\ pc[r] = "probe" /\ Kind(r) = "other" /\ thread[r] \in Ended
    /\ Reply(r, "done")
    /\ UNCHANGED <<setup, check, holder, state, client>>
----------------------------------------------------------------------------
(* The threads.  One that was given up goes on.                            *)

CheckEnds(r) ==
    /\ check[r] = "running"
    /\ \/ /\ check' = [check EXCEPT ![r] = "true"]
          /\ holder' = [holder EXCEPT ![Holder(r)] = "true"]
       \/ /\ check' = [check EXCEPT ![r] = "false"]
          /\ holder' = [holder EXCEPT ![Holder(r)] = "false"]
       \/ check' = [check EXCEPT ![r] = "raised"] /\ UNCHANGED holder
    /\ UNCHANGED <<setup, server, client>>

\* json_action: with a session the action is posted, without one the thread
\* takes the lock and logs in, unless another has done so before it.
Enter(r) ==
    /\ thread[r] = "entering"
    /\ \/ session /\ thread' = [thread EXCEPT ![r] = "posting"] /\ UNCHANGED lock
       \/ /\ ~session /\ lock = Nobody
          /\ lock' = r
          /\ thread' = [thread EXCEPT ![r] = "login"]
    /\ UNCHANGED <<setup, server, check, holder, session, expiries>>

\* Mutant of EndLogin: a login that fails keeps the lock.
EndLoginLocked(r) ==
    /\ thread[r] = "login"
    /\ \/ /\ session' = TRUE /\ lock' = Nobody
          /\ thread' = [thread EXCEPT ![r] = "posting"]
       \/ thread' = [thread EXCEPT ![r] = "failed"] /\ UNCHANGED <<session, lock>>
    /\ UNCHANGED <<setup, server, check, holder, expiries>>

\* createSession returns, or fails or times out; the lock is released.
EndLogin(r) ==
    /\ thread[r] = "login"
    /\ lock' = Nobody
    /\ \/ session' = TRUE /\ thread' = [thread EXCEPT ![r] = "posting"]
       \/ thread' = [thread EXCEPT ![r] = "failed"] /\ UNCHANGED session
    /\ UNCHANGED <<setup, server, check, holder, expiries>>

\* Mutant of EndPost: a refused action is sent again without end.
EndPostAgain(r) ==
    /\ thread[r] = "posting"
    /\ \/ /\ \E e \in Ended : thread' = [thread EXCEPT ![r] = e]
          /\ UNCHANGED <<session, expiries>>
       \/ /\ session' = FALSE
          /\ thread' = [thread EXCEPT ![r] = "entering"]
          /\ UNCHANGED expiries
    /\ UNCHANGED <<setup, server, check, holder, lock>>

\* The action is answered, fails or times out, or is refused for its session and
\* sent again (how often is SessionClient's matter).
EndPost(r) ==
    /\ thread[r] = "posting"
    /\ \/ /\ \E e \in Ended : thread' = [thread EXCEPT ![r] = e]
          /\ UNCHANGED <<session, expiries>>
       \/ /\ expiries < MaxExpiries
          /\ expiries' = expiries + 1
          /\ session' = FALSE
          /\ thread' = [thread EXCEPT ![r] = "entering"]
    /\ UNCHANGED <<setup, server, check, holder, lock>>
----------------------------------------------------------------------------
ServerStep(r) == Start(r) \/ JoinCheck(r) \/ ReplyHealth(r) \/ ReplyOther(r)
ThreadStep(r) == Enter(r) \/ EndLogin(r) \/ EndPost(r)

Quiescent ==
    /\ \A r \in Requests : pc[r] = "answered" /\ thread[r] \in {"none"} \cup Ended
    /\ UNCHANGED vars

Next == (\E r \in Requests : ServerStep(r) \/ ThreadStep(r) \/ CheckEnds(r)) \/ Quiescent

Spec == Init /\ [][Next]_vars

\* The loop takes up every request, joins time out after two seconds and
\* upstream requests after the client's timeout; the check may never end.
FairSpec == Spec /\ \A r \in Requests : WF_vars(ServerStep(r)) /\ WF_vars(ThreadStep(r))
----------------------------------------------------------------------------
\* The lock is held exactly while a thread logs in.
TypeOK ==
    /\ setup \in Setups
    /\ pc \in [Requests -> {"new", "check", "probe", "answered"}]
    /\ loop \in Requests \cup {Nobody}
    /\ check \in [Requests -> {"none", "running", "true", "false", "raised"}]
    /\ holder \in [Requests -> {"unset", "unset true", "unset false", "true", "false"}]
    /\ state \in [Requests -> {"not_configured", "ready", "not_ready", "timeout"}]
    /\ thread \in [Requests -> {"none", "entering", "login", "posting"} \cup Ended]
    /\ \A r \in Requests : lock = r <=> thread[r] = "login"
    /\ lock \in Requests \cup {Nobody} /\ session \in BOOLEAN
    /\ answer \in [Requests -> Answers]
    /\ expiries \in 0..MaxExpiries

\* "ok" is said of what this very request has found: its own check returned
\* True and its own probe was answered.  A thread left behind by an earlier
\* request, and ending late, has no say in it.
HealthIsTrue ==
    \A r \in Requests : answer[r] = "ok" =>
        /\ setup.configured => check[r] = "true"
        /\ thread[r] = "answered"

\* /ready takes requests only after a check that ended: one that returned True
\* or, since the holder starts as True, one that raised.
ReadyIsTrue ==
    \A r \in Requests : Kind(r) = "ready" /\ setup.configured =>
        /\ answer[r] = "ready" => check[r] \in {"true", "raised"}
        /\ answer[r] = "not_ready" => check[r] = "false"

\* Every request is answered although checks may hang for ever, and so is every
\* other tool call that waits for the lock a forgotten probe holds.
EveryoneIsAnswered == \A r \in Requests : <>(answer[r] # "none")

\* A probe that was given up comes to its end: the threads left behind by a slow
\* upstream go away.
ProbesEnd ==
    \A r \in Requests : thread[r] = "entering" ~> thread[r] \in Ended
=============================================================================
