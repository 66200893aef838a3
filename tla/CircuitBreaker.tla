--------------------------- MODULE CircuitBreaker ---------------------------
(***************************************************************************)
(* The circuit breaker of one route destination, called by concurrent      *)
(* requests (crates/runtime/src/failure_management.rs).  A request asks    *)
(* allow_request, runs against the upstream without the lock, and later    *)
(* reports record_success or record_failure - or never reports: a          *)
(* downstream write error and a cancelled task return early.  The breaker  *)
(* may have changed state any number of times in between.                  *)
(***************************************************************************)
EXTENDS FailureManagement, Functions

CONSTANT Requests   \* concurrent users of the breaker

VARIABLES
    breaker,        \* CircuitBreaker.record
    phase,          \* what each request holds: nothing, or an admission
    healed,         \* environment: the upstream has recovered for good
    cool_age,       \* history: real time since the last counted failure
    probes_at,      \* history: probes admitted a ticks ago, by a
    probe_lost      \* history: a probe of this window never reported

history == <<cool_age, probes_at, probe_lost>>
vars == <<breaker, phase, healed, history>>

\* A span of real time in which the breaker cannot have armed two windows.
ProbeSpan == SatSub(OpenDuration, Skew)

TypeOK ==
    /\ breaker \in BreakerRecord
    /\ phase \in [Requests -> {"idle", "plain", "probe"}]
    /\ healed \in BOOLEAN
    /\ cool_age \in Nat
    /\ probes_at \in [0..(ProbeSpan - 1) -> Nat]
    /\ probe_lost \in BOOLEAN

Init ==
    /\ breaker = NewBreaker
    /\ phase = [r \in Requests |-> "idle"]
    /\ healed = FALSE
    /\ cool_age = BreakerAgeCap
    /\ probes_at = [a \in 0..(ProbeSpan - 1) |-> 0]
    /\ probe_lost = FALSE

\* allow_request turned the request away.
Rejected(r, s) ==
    /\ phase[r] = "idle"
    /\ ~AdmitsRequest(breaker, s)
    /\ breaker' = AllowRequest(breaker, s)
    /\ UNCHANGED <<phase, healed, history>>

\* allow_request let the request through; any admission that is not from a
\* closed breaker is a probe.
Admitted(r, s) ==
    /\ phase[r] = "idle"
    /\ AdmitsRequest(breaker, s)
    /\ breaker' = AllowRequest(breaker, s)
    /\ UNCHANGED <<healed, cool_age>>
    /\ IF breaker.state = "Closed"
       THEN /\ phase' = [phase EXCEPT ![r] = "plain"]
            /\ UNCHANGED <<probes_at, probe_lost>>
       ELSE /\ phase' = [phase EXCEPT ![r] = "probe"]
            /\ probes_at' = [probes_at EXCEPT ![0] = @ + 1]
            /\ probe_lost' = (probe_lost /\ Armed(breaker, s) = breaker)

Succeed(r) ==
    /\ phase[r] /= "idle"
    /\ breaker' = RecordSuccess(breaker)
    /\ phase' = [phase EXCEPT ![r] = "idle"]
    /\ UNCHANGED <<healed, cool_age, probes_at, probe_lost>>

Fail(r, s, class) ==
    /\ phase[r] /= "idle"
    /\ ~healed
    /\ breaker' = RecordFailure(breaker, s, class)
    /\ phase' = [phase EXCEPT ![r] = "idle"]
    /\ cool_age' = IF CountsTowardBreaker(class) THEN 0 ELSE cool_age
    /\ probe_lost' = (probe_lost \/ (phase[r] = "probe" /\ ~CountsTowardBreaker(class)))
    /\ UNCHANGED <<healed, probes_at>>

\* The request ends without reporting an outcome.
Lose(r) ==
    /\ phase[r] /= "idle"
    /\ ~healed
    /\ phase' = [phase EXCEPT ![r] = "idle"]
    /\ probe_lost' = (probe_lost \/ phase[r] = "probe")
    /\ UNCHANGED <<breaker, healed, cool_age, probes_at>>

Tick ==
    /\ breaker' = AgeBreaker(breaker)
    /\ cool_age' = Older(cool_age, BreakerAgeCap)
    /\ probes_at' = [a \in 0..(ProbeSpan - 1) |-> IF a = 0 THEN 0 ELSE probes_at[a - 1]]
    /\ UNCHANGED <<phase, healed, probe_lost>>

\* Environment: from now on every request succeeds and reports.
Heal ==
    /\ ~healed
    /\ healed' = TRUE
    /\ UNCHANGED <<breaker, phase, history>>

Arrive(r) == \E s \in 0..Skew : Rejected(r, s) \/ Admitted(r, s)

Next ==
    \/ \E r \in Requests :
          \/ Arrive(r)
          \/ Succeed(r)
          \/ \E s \in 0..Skew, class \in FailureClasses : Fail(r, s, class)
          \/ Lose(r)
    \/ Tick
    \/ Heal

Spec == Init /\ [][Next]_vars

\* Time passes, clients keep arriving, and what succeeds reports so.
Fairness ==
    /\ WF_vars(Tick)
    /\ \A r \in Requests : WF_vars(Arrive(r)) /\ WF_vars(Succeed(r))

FairSpec == Spec /\ Fairness

----------------------------------------------------------------------------

\* The values a breaker's counters can have in each of its states.
Shape(b) ==
    /\ b.half_open_admitted <= HalfOpenSuccessThreshold
    /\ b.state = "Closed" =>
          b.consecutive_failures < OpenFailureThreshold /\ b.half_open_successes = 0
    /\ b.state = "Open" =>
          b.consecutive_failures = OpenFailureThreshold /\ b.half_open_successes = 0
    /\ b.state = "HalfOpen" =>
          b.half_open_successes < HalfOpenSuccessThreshold

(***************************************************************************)
(* The counters agree with the state, whatever the order in which requests *)
(* of different periods report: a closed breaker has seen fewer failures   *)
(* in a row than open it and carries no probe successes over, an open one  *)
(* has forgotten the probe successes of the period that failed, and a      *)
(* half-open one lacks at least one success (record_success and            *)
(* record_failure reset exactly the counters each transition needs).       *)
(***************************************************************************)
BreakerShape == Shape(breaker)

(***************************************************************************)
(* The cool-down: allow_request takes the breaker out of Open only when    *)
(* open_duration, less the time a caller waited for the lock, has really   *)
(* passed since the last counted failure - of any request, however late it *)
(* reported (the Open arm of record_failure restarts the cool-down).       *)
(***************************************************************************)
CoolDown ==
    [][breaker.state = "Open" /\ breaker'.state /= "Open" =>
          /\ breaker'.state = "HalfOpen"
          /\ cool_age + Skew >= OpenDuration]_vars

(***************************************************************************)
(* "Only admit as many probes as are needed to close the breaker": within  *)
(* any span shorter than the cool-down, at most two windows' worth of      *)
(* probes reach a recovering upstream, re-arming, re-opening and late      *)
(* reports included.                                                       *)
(***************************************************************************)
ProbeRate == SumFunction(probes_at) <= 2 * HalfOpenSuccessThreshold

(***************************************************************************)
(* Once the upstream answers again the breaker closes: no lost probe and   *)
(* no half-spent probe budget keeps it half-open for ever, because         *)
(* allow_request re-arms the window after another cool-down.               *)
(***************************************************************************)
Recovers == healed ~> breaker.state = "Closed"
============================================================================
