------------------------ MODULE SessionClientProofs ------------------------
(***************************************************************************)
(* Theorems about SessionClient, for any set of callers and any bounds.    *)
(***************************************************************************)
EXTENDS SessionClient, TLAPS

\* _session_lock is held by a caller exactly while its createSession is out,
\* and then the cache is empty: only ReadTokenUnderLock takes the lock, only
\* with an empty cache, and emptying or filling the cache needs the lock.
LockInv ==
    /\ \A c \in Callers : LoggingIn(c) <=> lockOwner = c
    /\ lockOwner # NoCaller => sessionToken = NoToken
    /\ auth # NoToken => sessionToken = auth

\* A caller on its first attempt has no second body yet, and one that has
\* posted holds a real token; the handler of an expired session is entered
\* from the first attempt only.
LegInv == \A c \in Callers :
    /\ pc[c] = "invalidate" => leg[c] = 1
    /\ leg[c] = 1 => sent[c][2] = NoToken
    /\ pc[c] \in {"inflight", "reply", "invalidate"} => sent[c][leg[c]] > NoToken
    /\ leg[c] = 2 => sent[c][1] > NoToken
    /\ pc[c] = "granted" => granted[c] > NoToken

\* Sessions are numbered in the order the upstream grants them, and nobody
\* holds one that has not been granted.
IssuedInv ==
    /\ sessionToken <= issued
    /\ \A c \in Callers :
        /\ granted[c] <= issued
        /\ \A l \in {1, 2} : sent[c][l] <= issued

\* Every token a second attempt can still meet is younger than the one it was
\* refused with.
YoungerInv ==
    auth = NoToken =>
        \A c \in Callers : leg[c] = 2 =>
            /\ sessionToken # NoToken => sessionToken > sent[c][1]
            /\ \A d \in Callers : pc[d] = "granted" => granted[d] > sent[c][1]
            /\ sent[c][2] # NoToken => sent[c][2] > sent[c][1]

IInv == TypeOK /\ LockInv /\ LegInv /\ IssuedInv /\ YoungerInv
----------------------------------------------------------------------------
USE DEF NoToken

\* Posting a token changes the body of the current leg and nothing else.
Posted(c, t) ==
    /\ sent' \in [Callers -> [{1, 2} -> Nat]]
    /\ pc' \in [Callers -> PCs]
    /\ sent'[c][leg[c]] = t
    /\ \A l \in {1, 2} : l # leg[c] => sent'[c][l] = sent[c][l]
    /\ \A d \in Callers : d # c => sent'[d] = sent[d] /\ pc'[d] = pc[d]
    /\ pc'[c] = "inflight"

\* Post(c, t) writes t into the caller's current body, leaves every other body
\* and caller alone, and puts the caller in flight.
LEMMA PostBody ==
    ASSUME TypeOK, NEW c \in Callers, NEW t \in Nat, Post(c, t)
    PROVE  Posted(c, t)
<1> USE DEF TypeOK, PCs
<1>1. sent[c] \in [{1, 2} -> Nat] /\ leg[c] \in {1, 2}
  OBVIOUS
<1>2. [sent[c] EXCEPT ![leg[c]] = t] \in [{1, 2} -> Nat]
  BY <1>1
<1>3. sent' = [sent EXCEPT ![c] = [sent[c] EXCEPT ![leg[c]] = t]]
  BY DEF Post
<1>4. sent' \in [Callers -> [{1, 2} -> Nat]]
  BY <1>2, <1>3
<1>5. QED
  BY <1>1, <1>3, <1>4 DEF Post, Posted

\* A new client satisfies the inductive invariant.
LEMMA InitIInv == Init => IInv
  BY CallersAssumption
     DEF Init, IInv, TypeOK, LockInv, LegInv, IssuedInv, YoungerInv, LoggingIn,
         PCs, Replies, Results, Token

\* No step of a caller or of the upstream leaves the inductive invariant: one
\* step per action, and under it one per conjunct the action can disturb.
LEMMA StepIInv == IInv /\ [Next]_vars => IInv'
<1> SUFFICES ASSUME IInv, [Next]_vars PROVE IInv'
  OBVIOUS
<1> USE CallersAssumption
    DEF IInv, TypeOK, LockInv, LegInv, IssuedInv, YoungerInv, LoggingIn,
        PCs, Replies, Results, Token
<1>1. ASSUME NEW c \in Callers, Invoke(c) PROVE IInv'
  BY <1>1 DEF Invoke, client, upstream
<1>2. ASSUME NEW c \in Callers, ReadToken(c) PROVE IInv'
  <2> USE <1>2 DEF ReadToken, client, upstream
  <2>1. CASE sessionToken # NoToken
    <3>1. Posted(c, sessionToken)
      BY <2>1, PostBody
    <3>2. UNCHANGED <<client, upstream, leg, granted, reply, result, applied, calls>>
      BY <2>1
    <3> USE <2>1, <3>1, <3>2 DEF Posted
    <3>3. TypeOK'
      OBVIOUS
    <3>4. LockInv'
      OBVIOUS
    <3>5. LegInv'
      OBVIOUS
    <3>6. IssuedInv'
      OBVIOUS
    <3>7. YoungerInv'
      OBVIOUS
    <3>8. QED
      BY <3>3, <3>4, <3>5, <3>6, <3>7
  <2>2. CASE sessionToken = NoToken
    <3>1. TypeOK'
      BY <2>2
    <3>2. LockInv'
      BY <2>2
    <3>3. LegInv' /\ IssuedInv'
      BY <2>2
    <3>4. YoungerInv'
      BY <2>2
    <3>5. QED
      BY <3>1, <3>2, <3>3, <3>4
  <2>3. QED
    BY <2>1, <2>2
<1>3. ASSUME NEW c \in Callers, ReadTokenUnderLock(c) PROVE IInv'
  <2> USE <1>3 DEF ReadTokenUnderLock, client, upstream
  <2>1. CASE sessionToken # NoToken
    <3>1. Posted(c, sessionToken)
      BY <2>1, PostBody
    <3>2. UNCHANGED <<client, upstream, leg, granted, reply, result, applied, calls>>
      BY <2>1
    <3> USE <2>1, <3>1, <3>2 DEF Posted
    <3>3. TypeOK'
      OBVIOUS
    <3>4. LockInv'
      OBVIOUS
    <3>5. LegInv'
      OBVIOUS
    <3>6. IssuedInv'
      OBVIOUS
    <3>7. YoungerInv'
      OBVIOUS
    <3>8. QED
      BY <3>3, <3>4, <3>5, <3>6, <3>7
  <2>2. CASE sessionToken = NoToken
    <3>1. TypeOK'
      BY <2>2
    <3>2. LockInv'
      BY <2>2
    <3>3. LegInv' /\ IssuedInv'
      BY <2>2
    <3>4. YoungerInv'
      BY <2>2
    <3>5. QED
      BY <3>1, <3>2, <3>3, <3>4
  <2>3. QED
    BY <2>1, <2>2
<1>4. ASSUME NEW c \in Callers, UpstreamLogin(c) PROVE IInv'
  BY <1>4 DEF UpstreamLogin, client
<1>5. ASSUME NEW c \in Callers, StoreToken(c) PROVE IInv'
  <2>1. Posted(c, granted[c])
    BY <1>5, PostBody DEF StoreToken
  <2> USE <1>5, <2>1 DEF StoreToken, Posted, upstream
  <2>2. TypeOK'
    OBVIOUS
  <2>3. LockInv'
    OBVIOUS
  <2>4. LegInv'
    OBVIOUS
  <2>5. IssuedInv'
    OBVIOUS
  <2>6. YoungerInv'
    OBVIOUS
  <2>7. QED
    BY <2>2, <2>3, <2>4, <2>5, <2>6
<1>6. ASSUME NEW c \in Callers, LoginFails(c) PROVE IInv'
  BY <1>6 DEF LoginFails, Finish, upstream
<1>7. ASSUME NEW c \in Callers, NEW r \in Replies, NEW e \in BOOLEAN,
             Answer(c, r, e), faults' \in Nat
      PROVE IInv'
  BY <1>7 DEF Answer, client
<1>8. ASSUME NEW c \in Callers, HandleReply(c) PROVE IInv'
  <2> USE <1>8 DEF HandleReply, client, upstream
  <2>1. CASE IsSessionExpiredError(reply[c]) /\ leg[c] = 1
    <3>1. pc' = [pc EXCEPT ![c] = "invalidate"] /\ UNCHANGED result
      BY <2>1
    <3>2. TypeOK' /\ LockInv'
      BY <2>1, <3>1
    <3>3. LegInv' /\ IssuedInv' /\ YoungerInv'
      BY <2>1, <3>1
    <3>4. QED
      BY <3>2, <3>3
  <2>2. CASE ~(IsSessionExpiredError(reply[c]) /\ leg[c] = 1)
    <3>1. PICK r \in Results : Finish(c, r)
      BY <2>2
    <3>2. QED
      BY <2>2, <3>1 DEF Finish
  <2>3. QED
    BY <2>1, <2>2
<1>9. ASSUME NEW c \in Callers, Invalidate(c) PROVE IInv'
  <2> USE <1>9 DEF Invalidate, upstream
  <2>1. TypeOK'
    OBVIOUS
  <2>2. LockInv'
    OBVIOUS
  <2>3. LegInv' /\ IssuedInv'
    OBVIOUS
  <2>4. YoungerInv'
    OBVIOUS
  <2>5. QED
    BY <2>1, <2>2, <2>3, <2>4
<1>10. ASSUME NEW t \in alive, Expire(t) PROVE IInv'
  BY <1>10 DEF Expire, client, caller
<1>11. CASE UNCHANGED vars
  BY <1>11 DEF vars, client, caller, upstream
<1>12. QED
  <2>1. ASSUME NEW c \in Callers, AnswerLive(c) PROVE IInv'
    BY <2>1, <1>7 DEF AnswerLive
  <2>2. ASSUME NEW c \in Callers, AnswerError(c) PROVE IInv'
    BY <2>2, <1>7 DEF AnswerError
  <2>3. ASSUME NEW c \in Callers, AnswerExpired(c) PROVE IInv'
    BY <2>3, <1>7 DEF AnswerExpired
  <2>4. ASSUME NEW c \in Callers, AnswerLookalike(c) PROVE IInv'
    <3>1. PICK e \in Lookalikes : Answer(c, "lookalike", e)
      BY <2>4 DEF AnswerLookalike
    <3>2. e \in BOOLEAN /\ "lookalike" \in Replies /\ faults' \in Nat
      BY <2>4, LookalikesAssumption DEF AnswerLookalike
    <3>3. QED
      BY <3>1, <3>2, <1>7
  <2>5. QED
    BY <1>1, <1>2, <1>3, <1>4, <1>5, <1>6, <1>8, <1>9, <1>10, <1>11,
       <2>1, <2>2, <2>3, <2>4
       DEF Next, Step, Quiescent

\* The inductive invariant holds of every behaviour of the client.
THEOREM InductiveInvariant == Spec => []IInv
  BY InitIInv, StepIInv, PTL DEF Spec

\* Type correctness: in particular no caller ever starts a third attempt.
THEOREM TypeCorrect == Spec => []TypeOK
  BY InductiveInvariant, PTL DEF IInv

\* At most one createSession is outstanding, and only while the cache is empty.
THEOREM LoginsExclude == Spec => []SingleLogin
<1>1. IInv => SingleLogin
  BY CallersAssumption DEF IInv, LockInv, SingleLogin, LoggingIn, TypeOK
<1>2. QED
  BY <1>1, InductiveInvariant, PTL

\* A token some caller was refused with is never cached or sent by it again.
THEOREM RefusedTokensStayGone == Spec => []RefusedTokenGone
<1>1. IInv => RefusedTokenGone
  BY DEF IInv, TypeOK, LegInv, YoungerInv, RefusedTokenGone
<1>2. QED
  BY <1>1, InductiveInvariant, PTL
----------------------------------------------------------------------------
\* The action has no effect before its reply, an effect with a payload and none
\* with a refusal: what makes sending it again harmless.
EffectInv == \A c \in Callers :
    /\ applied[c] \in {0, 1}
    /\ pc[c] \notin {"idle", "reply"} => applied[c] = 0
    /\ pc[c] = "reply" /\ reply[c] = "ok" => applied[c] = 1
    /\ pc[c] = "reply" /\ IsSessionExpiredError(reply[c]) => applied[c] = 0
    /\ pc[c] = "reply" => reply[c] # "none"

Phase == [c \in Callers |-> IF pc[c] = "idle" THEN "idle" ELSE "calling"]

\* A step that moves no caller into or out of json_action and touches neither
\* its effects nor its outcome is a stutter of ActionCall.
LEMMA InnerStep ==
    ASSUME TypeOK, UNCHANGED <<applied, result>>,
           \A c \in Callers : pc'[c] = "idle" <=> pc[c] = "idle"
    PROVE  UNCHANGED Abstract!vars
<1>1. Phase' = Phase
  BY DEF Phase
<1>2. QED
  BY <1>1 DEF Abstract!vars, Phase

\* A caller that leaves json_action makes a Return step of ActionCall.
LEMMA FinishStep ==
    ASSUME TypeOK, NEW c \in Callers, NEW r \in Results \ {"none"}, Finish(c, r),
           pc[c] # "idle", UNCHANGED applied,
           r = "ok" => applied[c] = 1, r = "refused" => applied[c] = 0
    PROVE  Abstract!Next
<1>1. Abstract!Return(c, r)
  <2>1. Phase[c] = "calling" /\ Phase' = [Phase EXCEPT ![c] = "idle"]
    BY DEF Phase, Finish, TypeOK
  <2>2. result' = [result EXCEPT ![c] = r]
    BY DEF Finish
  <2>3. QED
    BY <2>1, <2>2 DEF Abstract!Return, Phase
<1>2. r \in Abstract!Outcomes
  BY DEF Results, Abstract!Outcomes
<1>3. QED
  BY <1>1, <1>2 DEF Abstract!Next

\* Every step of the client is one of ActionCall or a stutter, and keeps the
\* invariant that links applied to where the caller is.
LEMMA StepEffect ==
    ASSUME TRUE \notin Lookalikes, IInv, EffectInv, [Next]_vars
    PROVE  EffectInv' /\ (Abstract!Next \/ UNCHANGED Abstract!vars)
<1> USE DEF IInv, TypeOK, EffectInv
<1>1. ASSUME NEW c \in Callers, Invoke(c)
      PROVE  EffectInv' /\ Abstract!Next
  <2>1. EffectInv'
    BY <1>1 DEF Invoke
  <2>2. Phase[c] = "idle" /\ Phase' = [Phase EXCEPT ![c] = "calling"]
    BY <1>1 DEF Invoke, Phase
  <2>3. Abstract!Call(c)
    BY <1>1, <2>2 DEF Invoke, Abstract!Call, Phase
  <2>4. QED
    BY <2>1, <2>3 DEF Abstract!Next
<1>2. ASSUME NEW c \in Callers,
             \/ ReadToken(c) \/ ReadTokenUnderLock(c) \/ UpstreamLogin(c)
             \/ StoreToken(c) \/ Invalidate(c)
      PROVE  EffectInv' /\ UNCHANGED Abstract!vars
  <2>1. /\ UNCHANGED <<applied, reply, result>>
        /\ pc[c] \notin {"idle", "reply"}
        /\ pc[c] = "invalidate" => applied[c] = 0
        /\ \E p \in PCs \ {"idle", "reply"} : pc' = [pc EXCEPT ![c] = p]
    BY <1>2 DEF ReadToken, ReadTokenUnderLock, UpstreamLogin, StoreToken,
                Invalidate, Post, PCs
  <2>2. QED
    BY <2>1, InnerStep
<1>3. ASSUME NEW c \in Callers, LoginFails(c)
      PROVE  EffectInv' /\ Abstract!Next
  <2>1. EffectInv'
    BY <1>3 DEF LoginFails, Finish
  <2>2. Finish(c, "refused") /\ pc[c] # "idle" /\ applied[c] = 0 /\ UNCHANGED applied
    BY <1>3 DEF LoginFails
  <2>3. QED
    BY <2>1, <2>2, FinishStep DEF Results
<1>4. ASSUME NEW c \in Callers, NEW r \in Replies \ {"none"}, NEW e \in BOOLEAN,
             Answer(c, r, e), r = "ok" => e, IsSessionExpiredError(r) => ~e
      PROVE  EffectInv' /\ (Abstract!Next \/ UNCHANGED Abstract!vars)
  <2>1. EffectInv'
    BY <1>4 DEF Answer
  <2>2. Phase' = Phase /\ Phase[c] = "calling" /\ UNCHANGED result
    BY <1>4 DEF Answer, Phase
  <2>3. CASE e = TRUE
    <3>1. applied[c] = 0 /\ applied' = [applied EXCEPT ![c] = 1]
      <4>1. applied' = [applied EXCEPT ![c] = IF TRUE THEN @ + 1 ELSE @]
        BY <1>4, <2>3 DEF Answer
      <4>2. pc[c] = "inflight" /\ applied[c] = 0
        BY <1>4 DEF Answer
      <4>3. QED
        BY <4>1, <4>2
    <3>2. Abstract!TakeEffect(c)
      BY <2>2, <3>1 DEF Abstract!TakeEffect, Phase
    <3>3. QED
      BY <2>1, <3>2 DEF Abstract!Next
  <2>4. CASE e = FALSE
    BY <1>4, <2>1, <2>4, InnerStep DEF Answer
  <2>5. QED
    BY <2>3, <2>4
<1>5. ASSUME NEW c \in Callers, HandleReply(c)
      PROVE  EffectInv' /\ (Abstract!Next \/ UNCHANGED Abstract!vars)
  <2>1. CASE IsSessionExpiredError(reply[c]) /\ leg[c] = 1
    BY <1>5, <2>1, InnerStep DEF HandleReply
  <2>2. CASE ~(IsSessionExpiredError(reply[c]) /\ leg[c] = 1)
    <3>1. PICK r \in Results \ {"none"} :
              /\ Finish(c, r)
              /\ r = "ok" => reply[c] = "ok"
              /\ r = "refused" => reply[c] = "expired"
      BY <1>5, <2>2 DEF HandleReply, Results
    <3>2. EffectInv'
      BY <1>5, <3>1 DEF HandleReply, Finish
    <3>3. QED
      BY <1>5, <3>1, <3>2, FinishStep DEF HandleReply, IsSessionExpiredError
  <2>3. QED
    BY <2>1, <2>2
<1>6. ASSUME NEW t \in alive, Expire(t)
      PROVE  EffectInv' /\ UNCHANGED Abstract!vars
  BY <1>6, InnerStep DEF Expire, caller
<1>7. CASE UNCHANGED vars
  BY <1>7, InnerStep DEF vars, caller
<1>8. QED
  <2> USE DEF Replies, IsSessionExpiredError
  <2>1. ASSUME NEW c \in Callers,
               AnswerLive(c) \/ AnswerError(c) \/ AnswerExpired(c)
        PROVE  EffectInv' /\ (Abstract!Next \/ UNCHANGED Abstract!vars)
    BY <2>1, <1>4 DEF AnswerLive, AnswerError, AnswerExpired
  <2>2. ASSUME NEW c \in Callers, AnswerLookalike(c)
        PROVE  EffectInv' /\ (Abstract!Next \/ UNCHANGED Abstract!vars)
    <3>1. PICK e \in Lookalikes : Answer(c, "lookalike", e)
      BY <2>2 DEF AnswerLookalike
    <3>2. e = FALSE
      BY <3>1, LookalikesAssumption
    <3>3. QED
      BY <3>1, <3>2, <1>4
  <2>3. QED
    BY <1>1, <1>2, <1>3, <1>5, <1>6, <1>7, <2>1, <2>2 DEF Next, Step, Quiescent

\* json_action implements ActionCall, for any callers, calls and faults, as long
\* as an upstream error that reads like an expired session never hides an action
\* that was applied.
THEOREM EffectsAtMostOnce ==
    ASSUME TRUE \notin Lookalikes
    PROVE  Spec => EffectAtMostOnce
<1>1. Init => EffectInv /\ Abstract!Init
  <2>1. Init => EffectInv
    BY DEF Init, EffectInv
  <2>2. Init => Phase = [c \in Callers |-> "idle"]
    BY DEF Init, Phase
  <2>3. QED
    BY <2>1, <2>2 DEF Init, Phase, Abstract!Init
<1>2. IInv /\ EffectInv /\ [Next]_vars => EffectInv' /\ [Abstract!Next]_(Abstract!vars)
  BY StepEffect
<1>3. QED
  BY <1>1, <1>2, InductiveInvariant, PTL DEF Spec, EffectAtMostOnce, Abstract!Spec
----------------------------------------------------------------------------
\* The caller has met a fault: it is on its second attempt or about to be.
Told(c) ==
    \/ leg[c] = 2
    \/ pc[c] = "invalidate"
    \/ pc[c] = "reply" /\ IsSessionExpiredError(reply[c])

Dropped == (1 .. issued) \ alive

\* Until the second fault at most one session is dropped, and every caller that
\* was told so was told so about that one (or misled, and then none is).
FaultInv ==
    auth = NoToken =>
        /\ faults = 0 => Dropped = {}
        /\ faults <= 1 => \A t, u \in Dropped : t = u
        /\ \A c \in Callers : Told(c) =>
            /\ faults >= 1
            /\ faults = 1 => \A t \in Dropped : t = sent[c][1]

\* A client never changes the way it authenticates.
LEMMA AuthFixed == ASSUME [Next]_vars PROVE UNCHANGED auth
<1>1. ASSUME NEW c \in Callers,
             Invoke(c) \/ ReadToken(c) \/ UpstreamLogin(c) \/ HandleReply(c)
      PROVE  UNCHANGED auth
  BY <1>1 DEF Invoke, ReadToken, UpstreamLogin, HandleReply, client
<1>2. ASSUME NEW c \in Callers,
             \/ ReadTokenUnderLock(c) \/ StoreToken(c) \/ LoginFails(c)
             \/ Invalidate(c)
      PROVE  UNCHANGED auth
  BY <1>2 DEF ReadTokenUnderLock, StoreToken, LoginFails, Invalidate
<1>3. ASSUME NEW c \in Callers,
             \/ AnswerLive(c) \/ AnswerError(c) \/ AnswerExpired(c)
             \/ AnswerLookalike(c)
      PROVE  UNCHANGED auth
  BY <1>3 DEF AnswerLive, AnswerError, AnswerExpired, AnswerLookalike, Answer, client
<1>4. ASSUME NEW t \in alive, Expire(t)
      PROVE  UNCHANGED auth
  BY <1>4 DEF Expire, client
<1>5. CASE UNCHANGED vars
  BY <1>5 DEF vars, client
<1>6. QED
  BY <1>1, <1>2, <1>3, <1>4, <1>5 DEF Next, Step, Quiescent

\* No step leaves the invariant that follows the one dropped session.
LEMMA StepFault == IInv /\ FaultInv /\ OneExpirySurvived /\ [Next]_vars
                       => FaultInv' /\ OneExpirySurvived'
<1> SUFFICES ASSUME IInv, FaultInv, OneExpirySurvived, [Next]_vars, auth = NoToken
             PROVE  FaultInv' /\ OneExpirySurvived'
  BY AuthFixed DEF FaultInv, OneExpirySurvived
<1> USE DEF IInv, TypeOK, LegInv, IssuedInv, YoungerInv, FaultInv, OneExpirySurvived,
            Told, Dropped, Token
<1>1. ASSUME NEW c \in Callers, Invoke(c) PROVE FaultInv' /\ OneExpirySurvived'
  BY <1>1 DEF Invoke, client, upstream
<1>2. ASSUME NEW c \in Callers, NEW t \in Nat, Posted(c, t),
             pc[c] \notin {"reply", "invalidate"}, leg[c] = 2 => sent[c][1] = sent'[c][1],
             UNCHANGED <<auth, upstream, leg, reply>>
      PROVE  FaultInv' /\ OneExpirySurvived'
  BY <1>2 DEF Posted, upstream
<1>3. ASSUME NEW c \in Callers,
             \/ ReadToken(c) \/ ReadTokenUnderLock(c) \/ StoreToken(c)
             \/ LoginFails(c)
      PROVE  FaultInv' /\ OneExpirySurvived'
  <2>1. /\ UNCHANGED <<auth, upstream, leg, reply>>
        /\ pc[c] \notin {"reply", "invalidate"}
    BY <1>3 DEF ReadToken, ReadTokenUnderLock, StoreToken, LoginFails, client
  <2>2. ASSUME NEW t \in Nat, Post(c, t) PROVE FaultInv' /\ OneExpirySurvived'
    <3>1. Posted(c, t)
      BY <2>2, PostBody
    <3>2. leg[c] = 2 => sent[c][1] = sent'[c][1]
      BY <3>1 DEF Posted
    <3>3. QED
      BY <1>2, <2>1, <3>1, <3>2
  <2>3. ASSUME NEW p \in {"idle", "lock", "login"}, pc' = [pc EXCEPT ![c] = p],
               UNCHANGED sent
        PROVE  FaultInv' /\ OneExpirySurvived'
    BY <2>1, <2>3 DEF upstream
  <2>4. QED
    BY <1>3, <2>2, <2>3 DEF ReadToken, ReadTokenUnderLock, StoreToken, LoginFails, Finish
<1>4. ASSUME NEW c \in Callers, UpstreamLogin(c)
      PROVE  FaultInv' /\ OneExpirySurvived'
  <2>1. Dropped' \subseteq Dropped
    BY <1>4 DEF UpstreamLogin
  <2>2. QED
    BY <1>4, <2>1 DEF UpstreamLogin, client
<1>5. ASSUME NEW c \in Callers, NEW r \in {"ok", "failed"}, NEW e \in BOOLEAN,
             Answer(c, r, e), UNCHANGED faults
      PROVE  FaultInv' /\ OneExpirySurvived'
  BY <1>5 DEF Answer, client, IsSessionExpiredError
<1>6. ASSUME NEW c \in Callers, AnswerExpired(c)
      PROVE  FaultInv' /\ OneExpirySurvived'
  <2>1. sent[c][leg[c]] \in Dropped
    BY <1>6 DEF AnswerExpired, Answer
  <2>2. faults <= 1 => leg[c] = 1
    BY <1>6, <2>1 DEF AnswerExpired, Answer
  <2>3. QED
    BY <1>6, <2>1, <2>2 DEF AnswerExpired, Answer, client
<1>7. ASSUME NEW c \in Callers, AnswerLookalike(c)
      PROVE  FaultInv' /\ OneExpirySurvived'
  <2>1. faults' = faults + 1 /\ \E e \in Lookalikes : Answer(c, "lookalike", e)
    BY <1>7 DEF AnswerLookalike
  <2>2. /\ pc' = [pc EXCEPT ![c] = "reply"] /\ reply' = [reply EXCEPT ![c] = "lookalike"]
        /\ UNCHANGED <<auth, leg, sent, alive, issued>>
    BY <2>1 DEF Answer, client
  <2>3. Dropped' = Dropped
    BY <2>2
  <2>4. QED
    BY <2>1, <2>2, <2>3
<1>8. ASSUME NEW c \in Callers, HandleReply(c) \/ Invalidate(c)
      PROVE  FaultInv' /\ OneExpirySurvived'
  BY <1>8 DEF HandleReply, Invalidate, Finish, client, upstream, IsSessionExpiredError
<1>9. ASSUME NEW t \in alive, Expire(t)
      PROVE  FaultInv' /\ OneExpirySurvived'
  <2>1. Dropped' \subseteq Dropped \cup {t} /\ faults' = faults + 1
    BY <1>9 DEF Expire
  <2>2. QED
    BY <1>9, <2>1 DEF Expire, client, caller
<1>10. CASE UNCHANGED vars
  BY <1>10 DEF vars, client, caller, upstream
<1>11. QED
  BY <1>1, <1>3, <1>4, <1>5, <1>6, <1>7, <1>8, <1>9, <1>10
     DEF Next, Step, Quiescent, AnswerLive, AnswerError

\* Until a second fault no password client's call is refused by the upstream.
THEOREM OneFaultIsSurvived == Spec => []OneExpirySurvived
<1>1. Init => FaultInv /\ OneExpirySurvived
  BY DEF Init, FaultInv, OneExpirySurvived, Told, Dropped
<1>2. QED
  BY <1>1, StepFault, InductiveInvariant, PTL DEF Spec
=============================================================================
