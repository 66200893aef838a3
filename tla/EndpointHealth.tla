--------------------------- MODULE EndpointHealth ---------------------------
(***************************************************************************)
(* The health record of one upstream endpoint and what a signal does to it *)
(* (crates/runtime/src/upstream_health.rs), as operators on the record.    *)
(* UpstreamHealth.tla keeps the records and gives the operators callers.   *)
(*                                                                         *)
(* Durations are in ticks.  passive_failures holds the counter of every    *)
(* protocol class; the aggregate of the code is their maximum, so a        *)
(* comparison of the aggregate with a threshold is one over the counters.  *)
(***************************************************************************)
EXTENDS Integers, Sequences, FiniteSets

CONSTANTS
    DegradedFailures,      \* EndpointHealthPolicy.degraded_failure_threshold
    UnhealthyFailures,     \* .unhealthy_failure_threshold
    EjectionFailures,      \* .ejection_failure_threshold
    RecoverySuccesses,     \* .recovery_success_threshold
    EjectionDuration,      \* .ejection_duration
    WarmupDuration,        \* .warmup_duration
    ConsecutiveFailures,   \* .consecutive_passive_failure_ejection_threshold
    WindowSize,            \* .outlier_window_size
    SuccessPercent,        \* .success_rate_ejection_threshold_percent
    BudgetPercent,         \* .cluster_ejection_budget_percent
    SlowStartPercent,      \* .slow_start_min_weight_percent
    MaxCount,              \* where the failure counters saturate (u32::MAX)
    Protocols,             \* ProtocolHealthClass
    Weights                \* the weights an endpoint is configured with

\* The policy is not validated by the code.  A counter can reach every
\* threshold; EndpointMetadata.validate refuses a zero weight.
ASSUME HealthPolicyAssumption ==
    /\ {DegradedFailures, UnhealthyFailures, EjectionFailures, RecoverySuccesses,
        ConsecutiveFailures} \subseteq 0..MaxCount
    /\ MaxCount \in Nat
    /\ EjectionDuration \in Nat
    /\ WarmupDuration \in Nat
    /\ WindowSize \in Nat
    /\ SuccessPercent \in 0..255
    /\ BudgetPercent \in 0..255
    /\ SlowStartPercent \in 0..255
    /\ Weights \subseteq Nat \ {0}
    /\ Protocols /= {}

Statuses == {"Healthy", "Degraded", "Unhealthy", "Ejected", "Warming"}

\* EndpointHealthStatus::is_available
Available == {"Healthy", "Degraded", "Warming"}

HealthRecord ==
    [status             : Statuses,
     active_failures    : 0..MaxCount,
     passive_failures   : [Protocols -> 0..MaxCount],
     recovery_successes : 0..MaxCount,
     effective_weight   : Nat,
     remaining_ejection : 0..EjectionDuration,
     warmup_elapsed     : 0..WarmupDuration,
     nominal_weight     : Weights,
     window             : Seq(BOOLEAN)]

NoPassiveFailures == [p \in Protocols |-> 0]

SatInc(n) == IF n < MaxCount THEN n + 1 ELSE MaxCount

Smaller(a, b) == IF a < b THEN a ELSE b

Larger(a, b) == IF a < b THEN b ELSE a

\* A ready endpoint is admitted warming, with weight 1; any other at full weight.
NewRecord(ready, weight) ==
    LET warming == ready /\ WarmupDuration /= 0
    IN  [status             |-> IF warming THEN "Warming" ELSE "Healthy",
         active_failures    |-> 0,
         passive_failures   |-> NoPassiveFailures,
         recovery_successes |-> 0,
         effective_weight   |-> IF warming THEN 1 ELSE weight,
         remaining_ejection |-> 0,
         warmup_elapsed     |-> 0,
         nominal_weight     |-> weight,
         window             |-> <<>>]

\* combined_failures() >= n
FailuresReach(r, n) ==
    \E p \in Protocols : Smaller(r.active_failures + r.passive_failures[p], MaxCount) >= n

\* MUTANT: the ejected endpoint keeps its weight.
EjectWithWeight(r) ==
    [r EXCEPT !.status = "Ejected",
              !.remaining_ejection = EjectionDuration,
              !.recovery_successes = 0]

Eject(r) ==
    [r EXCEPT !.status = "Ejected",
              !.remaining_ejection = EjectionDuration,
              !.effective_weight = 0,
              !.recovery_successes = 0]

\* Where a failure leaves the record; below every threshold it stays as it is.
TransitionOnFailures(r, force) ==
    IF r.status = "Ejected" THEN r
    ELSE IF force \/ FailuresReach(r, EjectionFailures) THEN Eject(r)
    ELSE IF FailuresReach(r, UnhealthyFailures)
         THEN [r EXCEPT !.status = "Unhealthy", !.effective_weight = 0]
    ELSE IF FailuresReach(r, DegradedFailures)
         THEN [r EXCEPT !.status = "Degraded", !.effective_weight = r.nominal_weight]
    ELSE r

ClearFailures(r) ==
    [r EXCEPT !.active_failures = 0,
              !.passive_failures = NoPassiveFailures,
              !.recovery_successes = 0]

\* A recovered endpoint is healthy at once only when there is no warm-up.
Readmit(r) ==
    IF WarmupDuration = 0
    THEN [r EXCEPT !.status = "Healthy", !.effective_weight = r.nominal_weight]
    ELSE [r EXCEPT !.status = "Warming", !.warmup_elapsed = 0, !.effective_weight = 1]

TransitionOnSuccess(r) ==
    LET counted == [r EXCEPT !.recovery_successes = SatInc(r.recovery_successes)]
    IN  IF r.status = "Ejected" THEN r
        ELSE IF r.status \in {"Healthy", "Warming"} THEN ClearFailures(r)
        ELSE IF counted.recovery_successes < RecoverySuccesses THEN counted
        ELSE Readmit(ClearFailures(counted))

PushResult(window, success) ==
    LET pushed == Append(window, success)
    IN  IF WindowSize = 0 THEN window
        ELSE IF Len(pushed) > WindowSize THEN Tail(pushed) ELSE pushed

\* passive_failure_triggers_ejection: a run of failures, or a full window with
\* too few successes.
TriggersEjection(r) ==
    \/ /\ ConsecutiveFailures > 0
       /\ \E p \in Protocols : r.passive_failures[p] >= ConsecutiveFailures
    \/ /\ WindowSize /= 0
       /\ Len(r.window) >= WindowSize
       /\ Cardinality({i \in DOMAIN r.window : r.window[i]}) * 100
              < SuccessPercent * Len(r.window)

\* MUTANT: a failure does not interrupt the run of recovery successes.
OnActiveFailureKeepsRun(r) ==
    TransitionOnFailures([r EXCEPT !.active_failures = SatInc(r.active_failures)], FALSE)

OnActiveFailure(r) ==
    TransitionOnFailures([r EXCEPT !.active_failures = SatInc(r.active_failures),
                                   !.recovery_successes = 0], FALSE)

OnPassiveFailure(r, p) ==
    LET failed == [r EXCEPT !.passive_failures[p] = SatInc(r.passive_failures[p]),
                            !.window = PushResult(r.window, FALSE),
                            !.recovery_successes = 0]
    IN  TransitionOnFailures(failed, TriggersEjection(failed))

OnActiveSuccess(r) == TransitionOnSuccess(r)

OnPassiveSuccess(r, p) ==
    TransitionOnSuccess([r EXCEPT !.passive_failures[p] = 0,
                                  !.window = PushResult(r.window, TRUE)])

\* The conversions to u16 lose nothing: the share of the default policy, the only
\* one the program uses, is 10 percent, so that no value exceeds the u16 nominal.
WarmupWeight(nominal, elapsed) ==
    LET progressive == (nominal * elapsed) \div Larger(WarmupDuration, 1)
        minimum     == Larger((nominal * Larger(SlowStartPercent, 1)) \div 100, 1)
    IN  IF elapsed >= WarmupDuration THEN nominal
        ELSE Smaller(Larger(progressive, minimum), nominal)

\* The ejection timer of advance_time: an expired ejection leaves the endpoint
\* unhealthy, its failure counters as they were.
AgeEjection(r, elapsed) ==
    IF r.status /= "Ejected" THEN r
    ELSE IF elapsed >= r.remaining_ejection
         THEN [r EXCEPT !.remaining_ejection = 0, !.status = "Unhealthy"]
    ELSE [r EXCEPT !.remaining_ejection = r.remaining_ejection - elapsed]

\* The warm-up timer of advance_time; nothing tells times past WarmupDuration apart.
AgeWarmup(r, elapsed) ==
    LET warmed == Smaller(r.warmup_elapsed + elapsed, WarmupDuration)
    IN  IF r.status /= "Warming" THEN r
        ELSE [r EXCEPT !.warmup_elapsed = warmed,
                       !.effective_weight = WarmupWeight(r.nominal_weight, warmed),
                       !.status = IF warmed >= WarmupDuration THEN "Healthy" ELSE "Warming"]

Aged(r, elapsed) == AgeWarmup(AgeEjection(r, elapsed), elapsed)
=============================================================================
