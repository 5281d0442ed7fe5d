--------------------------- MODULE SessionClient ---------------------------
(***************************************************************************)
(* FaircomAPIClient (src/src/faircom_mcp/api/client.py): one client object *)
(* shared by every thread that talks to FairCom.  Each Caller is a thread  *)
(* inside json_action: the tools' own (FastMCP runs synchronous tools on   *)
(* the event loop's thread or, from its later releases on, in a pool) and  *)
(* the probes', which outlive the two seconds their caller waits for them. *)
(*                                                                         *)
(* The client caches one session token.  A caller reads it without the     *)
(* lock; finding none, it takes _session_lock, looks again, and logs in    *)
(* with createSession while it holds the lock.  A caller whose action is   *)
(* refused with what looks like an expired session empties the cache,      *)
(* takes a token again and sends the action a second and last time.        *)
(*                                                                         *)
(* The FairCom server is external: it grants sessions, drops them whenever *)
(* it likes, and answers a request in one of the ways json_action tells    *)
(* apart.  The unlocked test-and-return of lines 301-302 is one step: the  *)
(* interpreter's lock admits no switch between its two loads.              *)
(***************************************************************************)
EXTENDS Integers, FiniteSets

CONSTANTS
    Callers,      \* the threads that share the client
    NoCaller,     \* the owner of a free lock
    MaxCalls,     \* bound: calls each caller makes
    MaxFaults,    \* bound: sessions dropped, and refusals that only look like it
    Lookalikes    \* for an error that only reads like an expired session,
                  \* whether the action behind it may have been applied

ASSUME CallersAssumption == NoCaller \notin Callers
ASSUME BoundsAssumption == MaxCalls \in Nat /\ MaxFaults \in Nat
ASSUME LookalikesAssumption == Lookalikes \subseteq BOOLEAN

VARIABLES
    auth,          \* AuthConfig.token: the configured token, or NoToken when
                   \* the client logs in with a username and password
    sessionToken,  \* _session_auth_token
    lockOwner,     \* _session_lock
    pc,            \* where each caller is in json_action
    leg,           \* 1 while it sends body, 2 while it sends refreshed_body
    sent,          \* sent[c][l]: the authToken of leg l's body
    granted,       \* the token of the createSession response under way
    reply,         \* what the caller's last POST came to
    result,        \* what its latest json_action returned or raised
    applied,       \* how often the upstream applied its latest action
    alive,         \* the sessions the upstream honours
    issued,        \* the last session the upstream granted
    faults,        \* how many faults the upstream has produced
    calls          \* how many calls each caller has made

client == <<auth, sessionToken, lockOwner>>
caller == <<pc, leg, sent, granted, reply, result, applied, calls>>
upstream == <<alive, issued, faults>>
vars == <<client, caller, upstream>>

NoToken == 0
Token == Nat \ {NoToken}
PCs == {"idle", "token", "lock", "login", "granted", "inflight", "reply",
        "invalidate"}
Replies == {"none", "ok", "failed", "expired", "lookalike"}
Results == {"none", "ok", "failed", "refused"}

Init ==
    /\ auth \in {NoToken, 1}
    /\ sessionToken = auth
    /\ lockOwner = NoCaller
    /\ pc = [c \in Callers |-> "idle"]
    /\ leg = [c \in Callers |-> 1]
    /\ sent = [c \in Callers |-> [l \in {1, 2} |-> NoToken]]
    /\ granted = [c \in Callers |-> NoToken]
    /\ reply = [c \in Callers |-> "none"]
    /\ result = [c \in Callers |-> "none"]
    /\ applied = [c \in Callers |-> 0]
    /\ alive = {1} \cap {auth}
    /\ issued = auth
    /\ faults = 0
    /\ calls = [c \in Callers |-> 0]
----------------------------------------------------------------------------
\* json_action is called: the locals of the previous call are gone.
Invoke(c) ==
    /\ pc[c] = "idle"
    /\ calls[c] < MaxCalls
    /\ calls' = [calls EXCEPT ![c] = @ + 1]
    /\ pc' = [pc EXCEPT ![c] = "token"]
    /\ leg' = [leg EXCEPT ![c] = 1]
    /\ sent' = [sent EXCEPT ![c] = [l \in {1, 2} |-> NoToken]]
    /\ reply' = [reply EXCEPT ![c] = "none"]
    /\ result' = [result EXCEPT ![c] = "none"]
    /\ applied' = [applied EXCEPT ![c] = 0]
    /\ UNCHANGED <<client, upstream, granted>>

\* Mutant of Post: the second attempt sends body again, not refreshed_body.
PostBodyAgain(c, t) ==
    /\ sent' = [sent EXCEPT ![c][leg[c]] = IF leg[c] = 2 THEN sent[c][1] ELSE t]
    /\ pc' = [pc EXCEPT ![c] = "inflight"]

\* The token goes into the leg's body and the body is posted.
Post(c, t) ==
    /\ sent' = [sent EXCEPT ![c][leg[c]] = t]
    /\ pc' = [pc EXCEPT ![c] = "inflight"]

\* json_action returns or raises.
Finish(c, r) ==
    /\ result' = [result EXCEPT ![c] = r]
    /\ pc' = [pc EXCEPT ![c] = "idle"]

\* The unlocked look at the cache.
ReadToken(c) ==
    /\ pc[c] = "token"
    /\ \/ sessionToken # NoToken /\ Post(c, sessionToken)
       \/ /\ sessionToken = NoToken
          /\ pc' = [pc EXCEPT ![c] = "lock"]
          /\ UNCHANGED sent
    /\ UNCHANGED <<client, upstream, leg, granted, reply, result, applied, calls>>

\* Mutant of ReadTokenUnderLock: the lock without the second look.
LoginWithoutSecondLook(c) ==
    /\ pc[c] = "lock"
    /\ lockOwner = NoCaller
    /\ lockOwner' = c
    /\ pc' = [pc EXCEPT ![c] = "login"]
    /\ UNCHANGED <<auth, sessionToken, upstream, leg, sent, granted, reply,
                   result, applied, calls>>

\* With the lock taken the cache is looked at again: a token another caller
\* fetched meanwhile is used and the lock released, otherwise createSession is
\* posted with the lock kept.
ReadTokenUnderLock(c) ==
    /\ pc[c] = "lock"
    /\ lockOwner = NoCaller
    /\ \/ sessionToken # NoToken /\ Post(c, sessionToken) /\ UNCHANGED lockOwner
       \/ /\ sessionToken = NoToken
          /\ lockOwner' = c
          /\ pc' = [pc EXCEPT ![c] = "login"]
          /\ UNCHANGED sent
    /\ UNCHANGED <<auth, sessionToken, upstream, leg, granted, reply, result,
                   applied, calls>>

\* External: the upstream serves createSession and its answer is on the way.
UpstreamLogin(c) ==
    /\ pc[c] = "login"
    /\ issued' = issued + 1
    /\ alive' = alive \cup {issued'}
    /\ granted' = [granted EXCEPT ![c] = issued']
    /\ pc' = [pc EXCEPT ![c] = "granted"]
    /\ UNCHANGED <<client, faults, leg, sent, reply, result, applied, calls>>

\* The answer holds a token: it is cached, the lock released, the body posted.
StoreToken(c) ==
    /\ pc[c] = "granted"
    /\ sessionToken' = granted[c]
    /\ granted' = [granted EXCEPT ![c] = NoToken]
    /\ lockOwner' = NoCaller
    /\ Post(c, granted[c])
    /\ UNCHANGED <<auth, upstream, leg, reply, result, applied, calls>>

\* Mutant of LoginFails: the lock is not released on the way out.
LoginFailsLockKept(c) ==
    /\ pc[c] \in {"login", "granted"}
    /\ granted' = [granted EXCEPT ![c] = NoToken]
    /\ Finish(c, "refused")
    /\ UNCHANGED <<client, upstream, leg, sent, reply, applied, calls>>

\* createSession raises, before the upstream saw it or after it granted a
\* session whose token never arrived.  The exception leaves the with block and
\* then json_action: createSession itself is never sent again.
LoginFails(c) ==
    /\ pc[c] \in {"login", "granted"}
    /\ granted' = [granted EXCEPT ![c] = NoToken]
    /\ lockOwner' = NoCaller
    /\ Finish(c, "refused")
    /\ UNCHANGED <<auth, sessionToken, upstream, leg, sent, reply, applied, calls>>
----------------------------------------------------------------------------
\* External, seen through _request_json_internal with idempotent=False: one
\* POST, never repeated by the transport.  It returns a payload, or raises an
\* error (a timeout, a refused connection, a status of 400 or more, a body
\* that is not JSON, an errorCode), behind which the action may or may not have
\* been applied: what a timed-out request does later is counted here.
Answer(c, r, hasEffect) ==
    /\ pc[c] = "inflight"
    /\ reply' = [reply EXCEPT ![c] = r]
    /\ applied' = [applied EXCEPT ![c] = IF hasEffect THEN @ + 1 ELSE @]
    /\ pc' = [pc EXCEPT ![c] = "reply"]
    /\ UNCHANGED <<client, leg, sent, granted, result, calls, alive, issued>>

AnswerLive(c) ==
    /\ sent[c][leg[c]] \in alive
    /\ \/ Answer(c, "ok", TRUE)
       \/ Answer(c, "failed", TRUE)
    /\ UNCHANGED faults

AnswerError(c) == Answer(c, "failed", FALSE) /\ UNCHANGED faults

AnswerExpired(c) ==
    /\ sent[c][leg[c]] \notin alive
    /\ Answer(c, "expired", FALSE)
    /\ UNCHANGED faults

AnswerLookalike(c) ==
    /\ faults < MaxFaults
    /\ faults' = faults + 1
    /\ \E hasEffect \in Lookalikes :
        /\ hasEffect => sent[c][leg[c]] \in alive
        /\ Answer(c, "lookalike", hasEffect)

\* External: the upstream drops a session (idle timeout, restart).
Expire(t) ==
    /\ faults < MaxFaults
    /\ faults' = faults + 1
    /\ alive' = alive \ {t}
    /\ UNCHANGED <<client, caller, issued>>
----------------------------------------------------------------------------
\* Mutant of IsSessionExpiredError: every upstream error passes for one.
AnyError(r) == r \in {"failed", "expired", "lookalike"}

\* _is_session_expired_error: errorCode 12031, or a text with "12031", or one
\* with both "authtoken" and "session".
IsSessionExpiredError(r) == r \in {"expired", "lookalike"}

\* Mutant of HandleReply: the second attempt is caught by the same handler.
RetryWithoutEnd(c) ==
    /\ pc[c] = "reply"
    /\ \/ /\ IsSessionExpiredError(reply[c])
          /\ pc' = [pc EXCEPT ![c] = "invalidate"]
          /\ UNCHANGED result
       \/ /\ ~IsSessionExpiredError(reply[c])
          /\ Finish(c, IF reply[c] = "ok" THEN "ok" ELSE "failed")
    /\ UNCHANGED <<client, upstream, leg, sent, granted, reply, applied, calls>>

\* The try block of json_action ends: a payload is returned, an error that
\* does not read like an expired session is raised, and so is any error of the
\* second leg; the first leg's expired session is dealt with.
HandleReply(c) ==
    /\ pc[c] = "reply"
    /\ \/ /\ IsSessionExpiredError(reply[c]) /\ leg[c] = 1
          /\ pc' = [pc EXCEPT ![c] = "invalidate"]
          /\ UNCHANGED result
       \/ /\ ~(IsSessionExpiredError(reply[c]) /\ leg[c] = 1)
          /\ Finish(c, CASE reply[c] = "ok" -> "ok"
                         [] reply[c] = "expired" -> "refused"
                         [] OTHER -> "failed")
    /\ UNCHANGED <<client, upstream, leg, sent, granted, reply, applied, calls>>

\* Mutant of Invalidate: the cached token stays.
InvalidateForgotten(c) ==
    /\ pc[c] = "invalidate"
    /\ leg' = [leg EXCEPT ![c] = @ + 1]
    /\ pc' = [pc EXCEPT ![c] = "token"]
    /\ UNCHANGED <<client, upstream, sent, granted, reply, result, applied, calls>>

\* _invalidate_session_auth_token: nothing with a configured token, otherwise
\* the cache is emptied under the lock, whatever token is in it by now.
Invalidate(c) ==
    /\ pc[c] = "invalidate"
    /\ auth = NoToken => lockOwner = NoCaller
    /\ sessionToken' = auth
    /\ leg' = [leg EXCEPT ![c] = @ + 1]
    /\ pc' = [pc EXCEPT ![c] = "token"]
    /\ UNCHANGED <<auth, lockOwner, upstream, sent, granted, reply, result,
                   applied, calls>>
----------------------------------------------------------------------------
\* What a caller inside json_action does next, or has done to it: its thread is
\* scheduled, and a request is answered or timed out (httpx timeout_seconds).
Step(c) ==
    \/ ReadToken(c)
    \/ ReadTokenUnderLock(c)
    \/ UpstreamLogin(c)
    \/ StoreToken(c)
    \/ LoginFails(c)
    \/ AnswerLive(c)
    \/ AnswerError(c)
    \/ AnswerExpired(c)
    \/ AnswerLookalike(c)
    \/ HandleReply(c)
    \/ Invalidate(c)

Quiescent ==
    /\ \A c \in Callers : pc[c] = "idle" /\ calls[c] = MaxCalls
    /\ UNCHANGED vars

Next ==
    \/ \E c \in Callers : Invoke(c) \/ Step(c)
    \/ \E t \in alive : Expire(t)
    \/ Quiescent

Spec == Init /\ [][Next]_vars

\* Every thread keeps being scheduled and every request ends.
FairSpec == Spec /\ \A c \in Callers : WF_vars(Step(c))
----------------------------------------------------------------------------
TypeOK ==
    /\ auth \in {NoToken, 1}
    /\ sessionToken \in Nat
    /\ lockOwner \in Callers \cup {NoCaller}
    /\ pc \in [Callers -> PCs]
    /\ leg \in [Callers -> {1, 2}]
    /\ sent \in [Callers -> [{1, 2} -> Nat]]
    /\ granted \in [Callers -> Nat]
    /\ reply \in [Callers -> Replies]
    /\ result \in [Callers -> Results]
    /\ applied \in [Callers -> Nat]
    /\ alive \in SUBSET Token
    /\ issued \in Nat
    /\ faults \in Nat
    /\ calls \in [Callers -> Nat]

\* A caller has a createSession outstanding (_get_action_auth_token 305-331).
LoggingIn(c) == pc[c] \in {"login", "granted"}

\* The double-checked lock of _get_action_auth_token does its work: two
\* callers are never logging in at once, and nobody logs in while a usable
\* token is cached, so a burst of callers meeting an empty cache costs one
\* createSession.
SingleLogin ==
    /\ \A c, d \in Callers : LoggingIn(c) /\ LoggingIn(d) => c = d
    /\ (\E c \in Callers : LoggingIn(c)) => sessionToken = NoToken

\* A token that a caller was refused with is gone for good: from the moment it
\* goes for its second attempt the cache never holds that token again, however
\* the other callers' logins and invalidations interleave, and what it sends
\* second is another token.
RefusedTokenGone ==
    auth = NoToken =>
        \A c \in Callers : leg[c] = 2 =>
            /\ sessionToken # sent[c][1]
            /\ sent[c][2] # sent[c][1]

\* One fault is survived: until the upstream has produced a second one, no
\* json_action of a password client is refused by it, the whole point of the
\* re-login of lines 226-232.  (A login that itself fails is not counted.)
OneExpirySurvived ==
    auth = NoToken /\ faults <= 1 =>
        \A c \in Callers : pc[c] = "reply" /\ leg[c] = 2 => reply[c] # "expired"

\* json_action keeps what ActionCall promises: at most one effect per call
\* although a refused action is sent again, success only with the effect, and
\* refusal only without it.
Abstract == INSTANCE ActionCall WITH
    phase <- [c \in Callers |-> IF pc[c] = "idle" THEN "idle" ELSE "calling"],
    effects <- applied,
    outcome <- result

EffectAtMostOnce == Abstract!Spec

\* Every json_action returns or raises: no lock is left behind by a login that
\* fails, and no caller sends a third time.
EveryCallReturns == \A c \in Callers : pc[c] # "idle" ~> pc[c] = "idle"
=============================================================================
