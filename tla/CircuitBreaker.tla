--------------------------- MODULE CircuitBreaker ---------------------------
(***************************************************************************)
(* The circuit breaker of src/nanobot/providers/circuit_breaker.py as a    *)
(* record and the operators that change it.  One breaker is shared by all  *)
(* calls of a provider: turns, subagents, consolidations, heartbeat.       *)
(***************************************************************************)
EXTENDS Naturals

CONSTANTS
  FailureThreshold,  \* failure_threshold
  RecoveryTimeout,   \* recovery_timeout, in steps of the clock
  HalfOpenMaxCalls   \* half_open_max_calls

ASSUME BreakerAssumption ==
  {FailureThreshold, RecoveryTimeout, HalfOpenMaxCalls} \subseteq Nat \ {0}

\* age is the time since _last_failure_time, as far as it matters.
Breaker == [state : {"closed", "open", "half_open"},
            failures : 0 .. FailureThreshold,
            probes : 0 .. HalfOpenMaxCalls,
            age : 0 .. RecoveryTimeout]

Closed == [state |-> "closed", failures |-> 0, probes |-> 0, age |-> 0]

Older(b) == [b EXCEPT !.age = IF @ < RecoveryTimeout THEN @ + 1 ELSE @]

\* The property "state": looking at an open breaker half-opens it once the
\* timeout is over.
Looked(b) ==
  IF b.state = "open" /\ b.age = RecoveryTimeout
  THEN [b EXCEPT !.state = "half_open", !.probes = 0]
  ELSE b

IsAvailable(b) == Looked(b).state # "open"

\* Mutant: a success does not reset the count of failures.
OnSuccessKeeps(b) ==
  IF b.state = "half_open"
  THEN IF b.probes + 1 >= HalfOpenMaxCalls
       THEN [b EXCEPT !.state = "closed", !.failures = 0, !.probes = 0]
       ELSE [b EXCEPT !.probes = @ + 1]
  ELSE b

\* _on_success: of any call, also one that began before the breaker opened.
OnSuccess(b) ==
  IF b.state = "half_open"
  THEN IF b.probes + 1 >= HalfOpenMaxCalls
       THEN [b EXCEPT !.state = "closed", !.failures = 0, !.probes = 0]
       ELSE [b EXCEPT !.probes = @ + 1]
  ELSE IF b.state = "closed" THEN [b EXCEPT !.failures = 0] ELSE b

\* Mutant: every failure counts, also one of a call that began before the
\* breaker opened.
OnFailureCounts(b) ==
  [b EXCEPT !.failures = @ + 1, !.age = 0, !.probes = 0,
            !.state = IF b.state = "half_open" \/ b.failures + 1 >= FailureThreshold
                      THEN "open" ELSE @]

\* _on_failure: a failure of an open breaker only renews its time.
OnFailure(b) ==
  CASE b.state = "half_open" -> [b EXCEPT !.state = "open", !.probes = 0, !.age = 0]
    [] b.state = "closed" ->
         [b EXCEPT !.failures = @ + 1, !.age = 0,
                   !.state = IF b.failures + 1 >= FailureThreshold THEN "open" ELSE @]
    [] OTHER -> [b EXCEPT !.age = 0]
=============================================================================
