------------------------- MODULE FailureManagement -------------------------
(***************************************************************************)
(* crates/runtime/src/failure_management.rs: the circuit breaker and the   *)
(* retry budget of a route destination, as operators on their records.     *)
(* CircuitBreaker.tla and Http1Connection.tla give them callers.             *)
(*                                                                         *)
(* The code compares time stamps only with now.saturating_sub(stamp), so a *)
(* stamp is kept as its age, capped where no comparison can tell ages      *)
(* apart any more.  A caller reads the clock before it takes the mutex:    *)
(* when the call runs, its "now" is s <= Skew ticks old.                   *)
(***************************************************************************)
EXTENDS Integers

CONSTANTS
    OpenFailureThreshold,      \* CircuitBreakerPolicy.open_failure_threshold
    HalfOpenSuccessThreshold,  \* CircuitBreakerPolicy.half_open_success_threshold
    OpenDuration,              \* CircuitBreakerPolicy.open_duration, in ticks
    MinRetryTokens,            \* RetryBudgetPolicy.min_retry_tokens
    RetryPercent,              \* RetryBudgetPolicy.retry_percent
    RetryWindow,               \* RetryBudgetPolicy.window, in ticks
    Skew                       \* longest wait between a clock read and the mutex

\* What CircuitBreaker::new and RetryBudget::new accept.
ASSUME FailurePolicyAssumption ==
    /\ OpenFailureThreshold \in Nat \ {0}
    /\ HalfOpenSuccessThreshold \in Nat \ {0}
    /\ OpenDuration \in Nat \ {0}
    /\ RetryWindow \in Nat \ {0}
    /\ MinRetryTokens \in Nat
    /\ RetryPercent \in Nat
    /\ Skew \in Nat

SatSub(a, b) == IF a > b THEN a - b ELSE 0

\* now.saturating_sub(stamp), for a stamp of this age and a clock read s ago, which
\* also stands for a SystemTime clock that was set back by s since the stamp.
Elapsed(age, s) == SatSub(age, s)

Older(age, cap) == IF age < cap THEN age + 1 ELSE cap

----------------------------------------------------------------------------
(* CircuitBreaker *)

BreakerStates == {"Closed", "Open", "HalfOpen"}

BreakerAgeCap == OpenDuration + Skew

BreakerRecord ==
    [state                : BreakerStates,
     consecutive_failures : Nat,
     half_open_successes  : Nat,
     opened_age           : Nat,
     half_open_admitted   : Nat,
     half_open_window_age : Nat]

NewBreaker ==
    [state                |-> "Closed",
     consecutive_failures |-> 0,
     half_open_successes  |-> 0,
     opened_age           |-> BreakerAgeCap,
     half_open_admitted   |-> 0,
     half_open_window_age |-> BreakerAgeCap]

FailureClasses == {"Connect", "Timeout", "Overloaded", "Temporary", "Permanent"}

IsRetryable(class) == class \in {"Connect", "Timeout", "Overloaded", "Temporary"}

CountsTowardBreaker(class) == class /= "Permanent"

\* The breaker starts, or starts again, a half-open probe window.
ArmProbeWindow(b, s) ==
    [b EXCEPT !.state = "HalfOpen",
              !.half_open_admitted = 0,
              !.half_open_window_age = s]

\* MUTANT: probes that never report are not re-armed.
ArmedOnce(b, s) ==
    IF b.state = "Open" /\ Elapsed(b.opened_age, s) >= OpenDuration
    THEN ArmProbeWindow(b, s)
    ELSE b

\* Open becomes HalfOpen after the cool-down; an old half-open window is re-armed.
Armed(b, s) ==
    IF \/ b.state = "Open" /\ Elapsed(b.opened_age, s) >= OpenDuration
       \/ b.state = "HalfOpen" /\ Elapsed(b.half_open_window_age, s) >= OpenDuration
    THEN ArmProbeWindow(b, s)
    ELSE b

ProbeBudget(b) == SatSub(HalfOpenSuccessThreshold, b.half_open_successes)

\* What allow_request returns.
AdmitsRequest(b, s) ==
    LET a == Armed(b, s) IN
    \/ a.state = "Closed"
    \/ a.state = "HalfOpen" /\ a.half_open_admitted < ProbeBudget(a)

\* MUTANT: admitted probes are not counted.
AllowRequestUncounted(b, s) == Armed(b, s)

\* What allow_request leaves in the record.
AllowRequest(b, s) ==
    LET a == Armed(b, s) IN
    IF a.state = "HalfOpen" /\ a.half_open_admitted < ProbeBudget(a)
    THEN [a EXCEPT !.half_open_admitted = @ + 1]
    ELSE a

RecordSuccess(b) ==
    CASE b.state = "Closed" -> [b EXCEPT !.consecutive_failures = 0]
      [] b.state = "Open" -> b
      [] b.state = "HalfOpen" ->
            IF b.half_open_successes + 1 >= HalfOpenSuccessThreshold
            THEN [b EXCEPT !.state = "Closed",
                           !.consecutive_failures = 0,
                           !.half_open_successes = 0]
            ELSE [b EXCEPT !.half_open_successes = @ + 1]

\* MUTANT: a failure reported to an open breaker does not restart the cool-down.
RecordFailureIgnoredWhileOpen(b, s, class) ==
    IF ~CountsTowardBreaker(class) \/ b.state = "Open" THEN b
    ELSE IF b.state = "Closed" /\ b.consecutive_failures + 1 < OpenFailureThreshold
    THEN [b EXCEPT !.consecutive_failures = @ + 1]
    ELSE [b EXCEPT !.state = "Open",
                   !.consecutive_failures = OpenFailureThreshold,
                   !.opened_age = s,
                   !.half_open_successes = 0]

\* MUTANT: re-opening keeps the probe successes of the failed period.
RecordFailureKeepsSuccesses(b, s, class) ==
    IF ~CountsTowardBreaker(class) THEN b
    ELSE IF b.state = "Closed" /\ b.consecutive_failures + 1 < OpenFailureThreshold
    THEN [b EXCEPT !.consecutive_failures = @ + 1]
    ELSE [b EXCEPT !.state = "Open",
                   !.consecutive_failures = OpenFailureThreshold,
                   !.opened_age = s]

RecordFailure(b, s, class) ==
    CASE ~CountsTowardBreaker(class) -> b
      [] CountsTowardBreaker(class) /\ b.state = "Closed" ->
            IF b.consecutive_failures + 1 >= OpenFailureThreshold
            THEN [b EXCEPT !.state = "Open",
                           !.consecutive_failures = @ + 1,
                           !.opened_age = s,
                           !.half_open_successes = 0]
            ELSE [b EXCEPT !.consecutive_failures = @ + 1]
      [] CountsTowardBreaker(class) /\ b.state = "HalfOpen" ->
            [b EXCEPT !.state = "Open",
                      !.consecutive_failures = OpenFailureThreshold,
                      !.opened_age = s,
                      !.half_open_successes = 0]
      [] CountsTowardBreaker(class) /\ b.state = "Open" ->
            [b EXCEPT !.opened_age = s]

\* One tick of the clock, as the breaker's stamps see it.
AgeBreaker(b) ==
    [b EXCEPT !.opened_age = Older(@, BreakerAgeCap),
              !.half_open_window_age = Older(@, BreakerAgeCap)]

----------------------------------------------------------------------------
(* RetryBudget *)

BudgetAgeCap == RetryWindow + Skew

BudgetRecord ==
    [window_age : Nat, base_request_count : Nat, retry_count : Nat]

NewBudget == [window_age |-> BudgetAgeCap, base_request_count |-> 0, retry_count |-> 0]

ResetRetryWindowIfNeeded(q, s) ==
    IF Elapsed(q.window_age, s) >= RetryWindow
    THEN [window_age |-> s, base_request_count |-> 0, retry_count |-> 0]
    ELSE q

RetryCapacity(q) == (q.base_request_count * RetryPercent) \div 100 + MinRetryTokens

RecordBaseRequest(q, s) ==
    [ResetRetryWindowIfNeeded(q, s) EXCEPT !.base_request_count = @ + 1]

AllowsRetry(q, s) ==
    LET w == ResetRetryWindowIfNeeded(q, s) IN
    SatSub(RetryCapacity(w), w.retry_count) > 0

AllowRetry(q, s) ==
    LET w == ResetRetryWindowIfNeeded(q, s) IN
    IF SatSub(RetryCapacity(w), w.retry_count) > 0
    THEN [w EXCEPT !.retry_count = @ + 1]
    ELSE w

AgeBudget(q) == [q EXCEPT !.window_age = Older(@, BudgetAgeCap)]
============================================================================
