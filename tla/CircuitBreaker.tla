--------------------------- MODULE CircuitBreaker ---------------------------
(***************************************************************************)
(* The circuit breaker that guards the embedding service: class            *)
(* CircuitBreaker of retrieval/embedding_errors.py.  Every method of the   *)
(* class runs under one lock, so a method is one operator from the         *)
(* breaker's value before the call to its value after it; the modules that *)
(* use the breaker make one action of each call.                           *)
(*                                                                         *)
(* The clock is abstracted to one bit.  `cooled' says that at least        *)
(* recovery_timeout seconds have passed since opened_at; the code reads    *)
(* the clock only for that comparison.  last_failure_ts is written and     *)
(* never read by the code, so it is left out.                              *)
(***************************************************************************)
EXTENDS Naturals

CONSTANTS
    FailureThreshold,   \* failure_threshold: failures that open the circuit
    SuccessThreshold,   \* success_threshold: half-open successes that close it
    FailureCap          \* bound on failure_count (see RecordFailure)

ASSUME ThresholdAssumption ==
    /\ FailureThreshold \in Nat \ {0}
    /\ SuccessThreshold \in Nat \ {0}
    /\ FailureCap \in Nat
    /\ FailureThreshold <= FailureCap

BreakerState == {"closed", "open", "half_open"}

\* The fields of a CircuitBreaker.
Breaker == [state         : BreakerState,
            failureCount  : 0 .. FailureCap,
            successCount  : Nat,
            probeInFlight : BOOLEAN,
            cooled        : BOOLEAN]

\* __init__ and reset(): closed, nothing counted, no probe.
InitialBreaker == [state |-> "closed", failureCount |-> 0, successCount |-> 0,
                   probeInFlight |-> FALSE, cooled |-> FALSE]

\* `failure_count += 1'.  Above the threshold the count is only reported by
\* get_state(), so it saturates at FailureCap.
OneMoreFailure(b) ==
    IF b.failureCount < FailureCap THEN b.failureCount + 1 ELSE b.failureCount

\* Mutant: the half-open state is never entered.
NeverHalfOpen(b) == b

\* _maybe_transition_to_half_open_locked: an open breaker that has cooled
\* becomes half-open with a free probe slot.  Every reader of the state calls it.
MaybeHalfOpen(b) ==
    IF b.state = "open" /\ b.cooled
    THEN [b EXCEPT !.state = "half_open", !.probeInFlight = FALSE,
                   !.successCount = 0, !.cooled = FALSE]
    ELSE b

\* Mutant: a half-open breaker admits callers whether or not a probe is out.
AdmitsAnyProbe(b) == MaybeHalfOpen(b).state # "open"

\* allow_request(): what it returns ...
Admits(b) ==
    LET c == MaybeHalfOpen(b)
    IN  \/ c.state = "closed"
        \/ c.state = "half_open" /\ ~c.probeInFlight

\* ... and the breaker it leaves: a half-open breaker's probe slot is taken.
AfterAllowRequest(b) ==
    LET c == MaybeHalfOpen(b)
    IN  IF c.state = "half_open" THEN [c EXCEPT !.probeInFlight = TRUE] ELSE c

\* is_open: reads the state without the half-open check.
IsOpen(b) == b.state \in {"open", "half_open"}

\* Mutant: the probe slot is not released by a success that leaves the
\* breaker half-open.
KeepsSlotOnSuccess(b) ==
    CASE b.state = "half_open" ->
           IF b.successCount + 1 >= SuccessThreshold
           THEN InitialBreaker
           ELSE [b EXCEPT !.successCount = @ + 1]
      [] b.state = "closed" -> [b EXCEPT !.failureCount = 0, !.successCount = 0]
      [] OTHER -> b

\* record_success(): in half_open it frees the probe slot and closes after
\* SuccessThreshold successes; in closed it clears the counts; in open nothing.
RecordSuccess(b) ==
    CASE b.state = "half_open" ->
           IF b.successCount + 1 >= SuccessThreshold
           THEN InitialBreaker
           ELSE [b EXCEPT !.successCount = @ + 1, !.probeInFlight = FALSE]
      [] b.state = "closed" -> [b EXCEPT !.failureCount = 0, !.successCount = 0]
      [] OTHER -> b

\* record_failure(): a half-open breaker reopens, a closed one opens at the
\* threshold, an open one ignores it.  Opening restarts the recovery timeout.
RecordFailure(b) ==
    CASE b.state = "half_open" ->
           [b EXCEPT !.state = "open", !.successCount = 0, !.cooled = FALSE,
                     !.failureCount = OneMoreFailure(b), !.probeInFlight = FALSE]
      [] b.state = "closed" ->
           IF OneMoreFailure(b) >= FailureThreshold
           THEN [b EXCEPT !.state = "open", !.failureCount = OneMoreFailure(b),
                          !.cooled = FALSE]
           ELSE [b EXCEPT !.failureCount = OneMoreFailure(b)]
      [] OTHER -> b
=============================================================================
