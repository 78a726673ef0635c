-------------------------- MODULE ModelCallsProofs --------------------------
(* What is proved of ModelCalls and its circuit breaker, for any number of *)
(* callers, any thresholds and any delays.                                 *)
EXTENDS ModelCalls, TLAPS

\* What the counters of the breaker stand for: while it is closed, failures
\* is covered by the failures seen in a row; while it is half-open, probes
\* is covered by the successes in a row.
CountsCovered ==
  /\ breaker.state = "closed" =>
       /\ breaker.failures < FailureThreshold
       /\ breaker.failures > 0 => streak.kind = "error" /\ streak.length >= breaker.failures
  /\ breaker.state = "half_open" =>
       /\ breaker.probes < HalfOpenMaxCalls
       /\ breaker.probes > 0 => streak.kind = "answer" /\ streak.length >= breaker.probes

BreakerInv == breaker \in Breaker /\ streak \in Streak /\ CountsCovered

LEMMA Thresholds ==
  /\ FailureThreshold \in Nat /\ FailureThreshold > 0
  /\ RecoveryTimeout \in Nat /\ RecoveryTimeout > 0
  /\ HalfOpenMaxCalls \in Nat /\ HalfOpenMaxCalls > 0
BY BreakerAssumption

LEMMA StreakBoundType ==
  /\ StreakBound \in Nat
  /\ FailureThreshold <= StreakBound /\ HalfOpenMaxCalls <= StreakBound
BY Thresholds DEF StreakBound

\* The updates of several fields that the operators of the breaker make.
LEMMA BreakerUpdates ==
  ASSUME NEW b \in Breaker, NEW s \in {"closed", "open", "half_open"},
         NEW f \in 0 .. FailureThreshold, NEW p \in 0 .. HalfOpenMaxCalls,
         NEW a \in 0 .. RecoveryTimeout
  PROVE /\ [b EXCEPT !.state = s, !.probes = p] \in Breaker
        /\ [b EXCEPT !.state = s, !.failures = f, !.probes = p] \in Breaker
        /\ [b EXCEPT !.state = s, !.probes = p, !.age = a] \in Breaker
BY DEF Breaker

LEMMA FailureUpdate ==
  ASSUME NEW b \in Breaker, NEW s \in {"closed", "open", "half_open"},
         NEW f \in 0 .. FailureThreshold, NEW a \in 0 .. RecoveryTimeout
  PROVE [b EXCEPT !.failures = f, !.age = a, !.state = s] \in Breaker
BY DEF Breaker

\* An operator of the breaker keeps it a breaker.
LEMMA BreakerType ==
  ASSUME NEW b \in Breaker
  PROVE /\ Looked(b) \in Breaker
        /\ Older(b) \in Breaker
        /\ OnSuccess(b) \in Breaker
        /\ (b.state = "closed" => b.failures < FailureThreshold) => OnFailure(b) \in Breaker
<1> USE Thresholds
<1>0. /\ 0 \in 0 .. FailureThreshold /\ 0 \in 0 .. HalfOpenMaxCalls
      /\ 0 \in 0 .. RecoveryTimeout
  OBVIOUS
<1>1. Looked(b) \in Breaker
  BY <1>0, BreakerUpdates DEF Looked
<1>2. Older(b) \in Breaker
  BY DEF Breaker, Older
<1>3. OnSuccess(b) \in Breaker
  <2>1. CASE b.state = "half_open" /\ b.probes + 1 >= HalfOpenMaxCalls
    BY <1>0, <2>1, BreakerUpdates DEF OnSuccess
  <2>2. CASE b.state = "half_open" /\ ~(b.probes + 1 >= HalfOpenMaxCalls)
    BY <2>2 DEF OnSuccess, Breaker
  <2>3. CASE b.state # "half_open"
    BY <2>3 DEF OnSuccess, Breaker
  <2> QED BY <2>1, <2>2, <2>3
<1>4. ASSUME b.state = "closed" => b.failures < FailureThreshold
      PROVE  OnFailure(b) \in Breaker
  <2>1. CASE b.state = "half_open"
    BY <1>0, <2>1, BreakerUpdates DEF OnFailure
  <2>2. CASE b.state = "closed"
    <3>1. PICK f \in 0 .. FailureThreshold : f = b.failures + 1
      BY <1>4, <2>2 DEF Breaker
    <3>2. CASE b.failures + 1 >= FailureThreshold
      <4>1. OnFailure(b) = [b EXCEPT !.failures = f, !.age = 0, !.state = "open"]
        BY <2>2, <3>1, <3>2 DEF OnFailure
      <4>2. [b EXCEPT !.failures = f, !.age = 0, !.state = "open"] \in Breaker
        BY <1>0, <3>1, FailureUpdate
      <4> QED BY <4>1, <4>2
    <3>3. CASE ~(b.failures + 1 >= FailureThreshold)
      <4>1. OnFailure(b) = [b EXCEPT !.failures = f, !.age = 0, !.state = "closed"]
        BY <2>2, <3>1, <3>3 DEF OnFailure
      <4>2. [b EXCEPT !.failures = f, !.age = 0, !.state = "closed"] \in Breaker
        BY <1>0, <3>1, FailureUpdate
      <4> QED BY <4>1, <4>2
    <3> QED BY <3>2, <3>3
  <2>3. CASE b.state = "open"
    BY <2>3 DEF Breaker, OnFailure
  <2> QED BY <2>1, <2>2, <2>3 DEF Breaker
<1> QED BY <1>1, <1>2, <1>3, <1>4

LEMMA LongerType ==
  ASSUME streak \in Streak, NEW kind \in {"answer", "error"}
  PROVE /\ Longer(kind) \in Streak
        /\ Longer(kind).kind = kind
        /\ Longer(kind).length > 0
        /\ streak.kind = kind => Longer(kind).length >= streak.length
        /\ streak.kind = kind /\ streak.length < StreakBound =>
             Longer(kind).length = streak.length + 1
BY StreakBoundType, Thresholds DEF Streak, Longer, StreakBound

\* Each step leaves the breaker and the streak alone, looks at the breaker,
\* lets time pass, or counts an outcome.
LEMMA StepOfNext ==
  ASSUME [Next]_vars
  PROVE \/ UNCHANGED <<breaker, streak>>
        \/ breaker' = Looked(breaker) /\ streak' = streak
        \/ breaker' = Older(breaker) /\ streak' = streak
        \/ breaker' = OnSuccess(breaker) /\ streak' = Longer("answer")
        \/ breaker' = OnFailure(breaker) /\ streak' = Longer("error")
BY DEF Next, vars, BeginCall, Step, Reject, Send, Wake, Finish, Cancel, Tick, Flip

LEMMA BreakerInvStep == BreakerInv /\ [Next]_vars => BreakerInv'
<1> SUFFICES ASSUME BreakerInv, [Next]_vars PROVE BreakerInv'
  OBVIOUS
<1>1. CASE UNCHANGED <<breaker, streak>>
  BY <1>1 DEF BreakerInv, CountsCovered
<1>2. CASE breaker' = Looked(breaker) /\ streak' = streak
  <2>1. breaker' \in Breaker /\ streak' \in Streak
    BY <1>2, BreakerType DEF BreakerInv
  <2>2. CASE Looked(breaker) = breaker
    BY <1>2, <2>2 DEF BreakerInv, CountsCovered
  <2>3. CASE Looked(breaker) = [breaker EXCEPT !.state = "half_open", !.probes = 0]
    <3>1. breaker'.state = "half_open" /\ breaker'.probes = 0
      BY <1>2, <2>3 DEF BreakerInv, Breaker
    <3> QED BY <2>1, <3>1, Thresholds DEF BreakerInv, CountsCovered
  <2> QED BY <2>2, <2>3 DEF Looked
<1>3. CASE breaker' = Older(breaker) /\ streak' = streak
  BY <1>3, BreakerType DEF BreakerInv, CountsCovered, Older, Breaker
<1>4. CASE breaker' = OnSuccess(breaker) /\ streak' = Longer("answer")
  <2>1. breaker' \in Breaker /\ streak' \in Streak
    BY <1>4, BreakerType, LongerType DEF BreakerInv
  <2>2. CountsCovered'
    BY <1>4, <2>1, LongerType, StreakBoundType, Thresholds
    DEF BreakerInv, CountsCovered, OnSuccess, Breaker, Streak
  <2> QED BY <2>1, <2>2 DEF BreakerInv
<1>5. CASE breaker' = OnFailure(breaker) /\ streak' = Longer("error")
  <2>1. breaker' \in Breaker /\ streak' \in Streak
    BY <1>5, BreakerType, LongerType DEF BreakerInv, CountsCovered
  <2>2. CountsCovered'
    BY <1>5, <2>1, LongerType, StreakBoundType, Thresholds
    DEF BreakerInv, CountsCovered, OnFailure, Breaker, Streak
  <2> QED BY <2>1, <2>2 DEF BreakerInv
<1> QED BY <1>1, <1>2, <1>3, <1>4, <1>5, StepOfNext

LEMMA BreakerInvariant == Spec => []BreakerInv
<1>1. Init => BreakerInv
  BY Thresholds, StreakBoundType
  DEF Init, BreakerInv, CountsCovered, Closed, Breaker, Streak
<1> QED BY <1>1, BreakerInvStep, PTL DEF Spec

\* The breaker opens only after failure_threshold failures in a row or a
\* failed probe, and closes only after half_open_max_calls successes in a
\* row, whichever calls they belong to (_on_success and _on_failure).
THEOREM BreakerIsJustified == Spec => BreakerJustified
<1>1. BreakerInv /\ [Next]_vars => ChangeJustified
  <2> SUFFICES ASSUME BreakerInv, [Next]_vars PROVE ChangeJustified
    OBVIOUS
  <2>1. CASE UNCHANGED <<breaker, streak>>
    BY <2>1 DEF ChangeJustified
  <2>2. CASE breaker' = Looked(breaker) /\ streak' = streak
    BY <2>2 DEF ChangeJustified, Looked, BreakerInv, Breaker
  <2>3. CASE breaker' = Older(breaker) /\ streak' = streak
    BY <2>3 DEF ChangeJustified, Older, BreakerInv, Breaker
  <2>4. CASE breaker' = OnSuccess(breaker) /\ streak' = Longer("answer")
    BY <2>4, LongerType, StreakBoundType, Thresholds
    DEF ChangeJustified, OnSuccess, BreakerInv, CountsCovered, Breaker, Streak
  <2>5. CASE breaker' = OnFailure(breaker) /\ streak' = Longer("error")
    BY <2>5, LongerType, StreakBoundType, Thresholds
    DEF ChangeJustified, OnFailure, BreakerInv, CountsCovered, Breaker, Streak
  <2> QED BY <2>1, <2>2, <2>3, <2>4, <2>5, StepOfNext
<1> QED BY <1>1, BreakerInvariant, PTL DEF Spec, BreakerJustified

-----------------------------------------------------------------------------
(* Types.                                                                  *)

LEMMA Delays ==
  /\ LastAttempt \in Nat /\ LastAttempt > 1 /\ LastAttempt \in 1 .. LastAttempt
  /\ \A k \in 1 .. LastAttempt - 1 : RetryDelays[k] \in Nat /\ RateLimitDelays[k] \in Nat
BY CallsAssumption DEF LastAttempt

LEMMA IdleType == Idle \in CallState
BY Delays DEF Idle, CallState

LEMMA BackoffType ==
  ASSUME NEW s \in CallState, s.attempt # LastAttempt,
         NEW d \in {RetryDelays, RateLimitDelays}
  PROVE Backoff(s, d) \in CallState
<1>1. s.attempt \in 1 .. LastAttempt - 1 /\ s.attempt + 1 \in 1 .. LastAttempt
  BY Delays DEF CallState
<1>2. d[s.attempt] \in Nat
  BY <1>1, Delays
<1> QED BY <1>1, <1>2 DEF Backoff, CallState

LEMMA BeginType ==
  ASSUME NEW s \in CallState, NEW p \in {"idle", "ready", "request", "backoff"}, NEW i \in BOOLEAN
  PROVE [s EXCEPT !.pc = p, !.images = i] \in CallState
BY DEF CallState

LEMMA LastTryType ==
  ASSUME NEW s \in CallState, NEW p \in {"idle", "ready", "request", "backoff"},
         NEW k \in 1 .. LastAttempt, NEW i \in BOOLEAN
  PROVE [s EXCEPT !.pc = p, !.attempt = k, !.images = i] \in CallState
BY DEF CallState

LEMMA RetryType ==
  ASSUME NEW s \in CallState, NEW outcome \in Outcomes
  PROVE Retry(s, outcome) \in CallState
<1>1. CASE outcome = "answer" \/ s.attempt = LastAttempt
  BY <1>1, IdleType DEF Retry, StripImages
<1>2. CASE outcome = "permanent" /\ s.attempt # LastAttempt
  <2>1. [s EXCEPT !.pc = "ready", !.attempt = LastAttempt, !.images = FALSE] \in CallState
    BY Delays, LastTryType
  <2> QED BY <1>2, <2>1, IdleType DEF Retry, StripImages
<1>3. CASE outcome \in {"transient", "rate"} /\ s.attempt # LastAttempt
  BY <1>3, BackoffType DEF Retry, StripImages
<1> QED BY <1>1, <1>2, <1>3 DEF Outcomes, Errors

LEMMA TypeStep == TypeOK /\ BreakerInv /\ [Next]_vars => TypeOK'
<1> SUFFICES ASSUME TypeOK, BreakerInv, [Next]_vars PROVE TypeOK'
  OBVIOUS
<1>1. breaker' \in Breaker /\ streak' \in Streak
  BY BreakerInvStep DEF BreakerInv
<1>2. call' \in [Callers -> CallState]
  <2>1. ASSUME NEW c \in Callers, BeginCall(c) PROVE call' \in [Callers -> CallState]
    BY <2>1, IdleType, BeginType DEF BeginCall, TypeOK
  <2>2. ASSUME NEW c \in Callers, Reject(c) PROVE call' \in [Callers -> CallState]
    BY <2>2, RetryType DEF Reject, TypeOK, Outcomes, Errors
  <2>3. ASSUME NEW c \in Callers, Send(c) PROVE call' \in [Callers -> CallState]
    BY <2>3 DEF Send, TypeOK, CallState
  <2>4. ASSUME NEW c \in Callers, NEW outcome \in Outcomes, Finish(c, outcome)
        PROVE call' \in [Callers -> CallState]
    <3>1. [call[c] EXCEPT !.doomed = FALSE] \in CallState
      BY DEF TypeOK, CallState
    <3> QED BY <2>4, <3>1, RetryType DEF Finish, TypeOK
  <2>5. ASSUME NEW c \in Callers, Wake(c) PROVE call' \in [Callers -> CallState]
    BY <2>5 DEF Wake, TypeOK, CallState
  <2>6. ASSUME NEW c \in Callers, Cancel(c) PROVE call' \in [Callers -> CallState]
    BY <2>6, IdleType DEF Cancel, TypeOK
  <2>7. CASE Tick
    BY <2>7 DEF Tick, TypeOK, CallState
  <2>8. CASE Flip \/ UNCHANGED vars
    BY <2>8 DEF Flip, TypeOK, vars
  <2> QED BY <2>1, <2>2, <2>3, <2>4, <2>5, <2>6, <2>7, <2>8 DEF Next, Step
<1>3. healthy' \in BOOLEAN /\ cancels' \in 0 .. MaxCancels
  <2>1. ASSUME NEW c \in Callers, BeginCall(c) \/ Step(c)
        PROVE healthy' = healthy /\ cancels' = cancels
    BY <2>1 DEF BeginCall, Step, Reject, Send, Finish, Wake
  <2>2. ASSUME NEW c \in Callers, Cancel(c)
        PROVE healthy' = healthy /\ cancels' \in 0 .. MaxCancels
    BY <2>2, CallsAssumption DEF Cancel, TypeOK
  <2>3. CASE Tick \/ Flip \/ UNCHANGED vars
    BY <2>3 DEF Tick, Flip, vars, TypeOK
  <2> QED BY <2>1, <2>2, <2>3 DEF Next, TypeOK
<1> QED BY <1>1, <1>2, <1>3 DEF TypeOK

\* Every variable keeps its type: attempts stay within the delays, the
\* counters of the breaker within its thresholds.
THEOREM CallsTypeCorrect == Spec => []TypeOK
<1>1. Init => TypeOK
  BY IdleType, Thresholds, StreakBoundType, CallsAssumption
  DEF Init, TypeOK, Closed, Breaker, Streak
<1> QED BY <1>1, TypeStep, BreakerInvariant, PTL DEF Spec
=============================================================================
