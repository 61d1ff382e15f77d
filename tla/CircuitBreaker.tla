---------------------------- MODULE CircuitBreaker ----------------------------
(***************************************************************************)
(* The circuit breaker of resilience.rs: one record per backend, changed   *)
(* only through the operators below, each called under the breaker's lock  *)
(* with the time the caller read.  A time is a natural number of ticks.    *)
(* The code stores the Open to HalfOpen change when somebody looks         *)
(* (state(now)); Observe is that look, and every caller stores its result. *)
(***************************************************************************)
EXTENDS Naturals

CONSTANTS
  Threshold,   \* failures in a row that open the breaker (failureThreshold)
  ResetAfter   \* ticks an open breaker waits before a trial (resetTimeout)

ASSUME BreakerAssumption == Threshold \in Nat /\ ResetAfter \in Nat

Breakers == [state: {"Closed", "Open", "HalfOpen"}, failures: Nat, openedAt: Nat]

NewBreaker == [state |-> "Closed", failures |-> 0, openedAt |-> 0]

Observe(b, now) ==
  IF b.state = "Open" /\ now >= b.openedAt + ResetAfter
  THEN [b EXCEPT !.state = "HalfOpen"]
  ELSE b

Allow(b, now) == Observe(b, now).state # "Open"

\* A success that forgets to clear the count.
RecordSuccess_keepsCount(b) == [b EXCEPT !.state = "Closed"]

RecordSuccess(b) == [b EXCEPT !.failures = 0, !.state = "Closed"]

Trip(now) == [state |-> "Open", failures |-> Threshold, openedAt |-> now]

RecordFailure(b, now) ==
  LET seen == Observe(b, now) IN
  IF seen.state = "HalfOpen" \/ seen.failures + 1 >= Threshold
  THEN Trip(now)
  ELSE [seen EXCEPT !.failures = @ + 1]
===============================================================================
