----------------------------- MODULE ModelCalls -----------------------------
(***************************************************************************)
(* The calls of one language model provider: chat_with_retry of            *)
(* src/nanobot/providers/base.py around chat of litellm_provider.py, which *)
(* asks the circuit breaker before a request and tells it how the request  *)
(* ended.  Callers (turns, subagents, consolidations, heartbeat) make call *)
(* after call; requests are long awaits, so the breaker has changed when   *)
(* they end.  The service on the other side fails when it is not healthy,  *)
(* and requests it failed may be answered late.                            *)
(***************************************************************************)
EXTENDS CircuitBreaker, Sequences, FiniteSets

CONSTANTS
  Callers,         \* the coroutines that call the model
  RetryDelays,     \* _CHAT_RETRY_DELAYS, in steps of the clock
  RateLimitDelays, \* _RATE_LIMIT_RETRY_DELAYS
  MaxCancels       \* bound: calls that are cancelled (timeout, /stop)

ASSUME CallsAssumption ==
  /\ RetryDelays \in Seq(Nat \ {0}) /\ RateLimitDelays \in Seq(Nat \ {0})
  /\ RetryDelays # <<>>
  /\ Len(RetryDelays) <= Len(RateLimitDelays)
  /\ MaxCancels \in Nat

VARIABLES
  breaker,
  call,     \* each caller's chat_with_retry
  healthy,  \* the service answers what it is sent
  streak,   \* history: the kind and number of the latest outcomes in a row
  cancels

vars == <<breaker, call, healthy, streak, cancels>>

LastAttempt == Len(RetryDelays) + 1  \* chat_with_retry's attempts
StreakBound == IF FailureThreshold > HalfOpenMaxCalls THEN FailureThreshold
               ELSE HalfOpenMaxCalls

\* How a request or an attempt ends: with an answer, with an error that
\* _is_transient_error knows (of the rate limit or not), with another one.
Errors == {"transient", "rate", "permanent"}
Outcomes == {"answer"} \cup Errors

\* images: the prompt has images that can be stripped.  doomed: the service
\* was not healthy when the request was sent.
CallState == [pc : {"idle", "ready", "request", "backoff"}, attempt : 1 .. LastAttempt,
              wait : Nat, images : BOOLEAN, doomed : BOOLEAN]
Streak == [kind : {"answer", "error"}, length : 0 .. StreakBound]

Idle == [pc |-> "idle", attempt |-> 1, wait |-> 0, images |-> FALSE, doomed |-> FALSE]

TypeOK ==
  /\ breaker \in Breaker
  /\ call \in [Callers -> CallState]
  /\ healthy \in BOOLEAN
  /\ streak \in Streak
  /\ cancels \in 0 .. MaxCancels

Init ==
  /\ breaker = Closed
  /\ call = [c \in Callers |-> Idle]
  /\ healthy \in BOOLEAN
  /\ streak = [kind |-> "answer", length |-> 0]
  /\ cancels = 0

-----------------------------------------------------------------------------

BeginCall(c) ==
  /\ call[c].pc = "idle"
  /\ \E images \in BOOLEAN :
       call' = [call EXCEPT ![c] = [Idle EXCEPT !.pc = "ready", !.images = images]]
  /\ UNCHANGED <<breaker, healthy, streak, cancels>>

\* Mutant: a retry is not counted as an attempt.
BackoffUncounted(s, delays) ==
  [s EXCEPT !.pc = "backoff", !.wait = delays[s.attempt]]

Backoff(s, delays) ==
  [s EXCEPT !.pc = "backoff", !.attempt = @ + 1, !.wait = delays[s.attempt]]

\* _strip_image_content, for messages that have images.
StripImages(s) == [s EXCEPT !.images = FALSE]

\* What chat_with_retry does with the outcome of an attempt: the attempt
\* after the delays, and the one without images, are the last.
Retry(s, outcome) ==
  IF outcome = "answer" \/ s.attempt = LastAttempt THEN Idle
  ELSE IF outcome # "permanent"
       THEN Backoff(s, IF outcome = "rate" THEN RateLimitDelays ELSE RetryDelays)
  ELSE IF s.images
       THEN [StripImages(s) EXCEPT !.pc = "ready", !.attempt = LastAttempt]
  ELSE Idle

\* Mutant: a rejection counts as a failure.
RejectCounted(c) ==
  /\ call[c].pc = "ready" /\ ~IsAvailable(breaker)
  /\ breaker' = OnFailure(breaker)
  /\ call' = [call EXCEPT ![c] = Retry(@, "transient")]
  /\ UNCHANGED <<healthy, streak, cancels>>

\* The breaker is open: the answer "temporarily unavailable" is an error of
\* the transient kind, made at once.
Reject(c) ==
  /\ call[c].pc = "ready" /\ ~IsAvailable(breaker)
  /\ call' = [call EXCEPT ![c] = Retry(@, "transient")]
  /\ UNCHANGED <<breaker, healthy, streak, cancels>>

\* Nothing limits the number of requests that are under way half-open.
Send(c) ==
  /\ call[c].pc = "ready" /\ IsAvailable(breaker)
  /\ breaker' = Looked(breaker)
  /\ call' = [call EXCEPT ![c] = [@ EXCEPT !.pc = "request", !.doomed = ~healthy]]
  /\ UNCHANGED <<healthy, streak, cancels>>

Longer(kind) ==
  [kind |-> kind,
   length |-> IF streak.kind # kind THEN 1
              ELSE IF streak.length < StreakBound THEN streak.length + 1
              ELSE StreakBound]

\* acompletion returns or raises; the breaker is told, in whatever state it
\* is by now, and chat_with_retry goes on without an await.
Finish(c, outcome) ==
  /\ call[c].pc = "request"
  /\ outcome \in Errors => call[c].doomed \/ ~healthy
  /\ IF outcome = "answer"
     THEN breaker' = OnSuccess(breaker) /\ streak' = Longer("answer")
     ELSE breaker' = OnFailure(breaker) /\ streak' = Longer("error")
  /\ call' = [call EXCEPT ![c] = Retry([@ EXCEPT !.doomed = FALSE], outcome)]
  /\ UNCHANGED <<healthy, cancels>>

Wake(c) ==
  /\ call[c].pc = "backoff" /\ call[c].wait = 0
  /\ call' = [call EXCEPT ![c].pc = "ready"]
  /\ UNCHANGED <<breaker, healthy, streak, cancels>>

\* CancelledError passes every handler: the breaker is told nothing.
Cancel(c) ==
  /\ cancels < MaxCancels /\ cancels' = cancels + 1
  /\ call[c].pc \in {"request", "backoff"}
  /\ call' = [call EXCEPT ![c] = Idle]
  /\ UNCHANGED <<breaker, healthy, streak>>

Tick ==
  /\ breaker' = Older(breaker)
  /\ call' = [c \in Callers |-> [call[c] EXCEPT !.wait = IF @ > 0 THEN @ - 1 ELSE 0]]
  /\ UNCHANGED <<healthy, streak, cancels>>

Flip ==
  /\ healthy' = ~healthy
  /\ UNCHANGED <<breaker, call, streak, cancels>>

Step(c) ==
  \/ Reject(c) \/ Send(c) \/ Wake(c)
  \/ \E outcome \in Outcomes : Finish(c, outcome)

Next ==
  \/ \E c \in Callers : BeginCall(c) \/ Step(c) \/ Cancel(c)
  \/ Tick \/ Flip

Spec == Init /\ [][Next]_vars

(* The event loop runs whoever can go on, requests have a timeout, time    *)
(* passes; the heartbeat, among others, makes one call after the other.    *)
FairSpec ==
  /\ Spec /\ WF_vars(Tick)
  /\ \A c \in Callers : WF_vars(Step(c)) /\ WF_vars(BeginCall(c))

-----------------------------------------------------------------------------

\* The breaker opens only after failure_threshold failures in a row or a
\* failed probe, and closes only after half_open_max_calls successes in a
\* row, though the calls that end may have begun in another state of it
\* (_on_success, _on_failure).
ChangeJustified ==
  /\ breaker.state = "closed" /\ breaker'.state = "open" =>
       streak'.kind = "error" /\ streak'.length >= FailureThreshold
  /\ breaker'.state = "closed" /\ breaker.state # "closed" =>
       streak'.kind = "answer" /\ streak'.length >= HalfOpenMaxCalls
BreakerJustified == [][ChangeJustified]_vars

\* Once the service stays healthy, the breaker closes and stays closed,
\* whatever late failures, rejections and cancellations came before.
BreakerRecovers == <>[]healthy => <>[](breaker.state = "closed")

\* Every call of chat_with_retry returns: attempts are counted across
\* rejections, retries and the request without images.
CallsReturn == \A c \in Callers : call[c].pc # "idle" ~> call[c].pc = "idle"
=============================================================================
