--------------------------- MODULE UpstreamHealth ---------------------------
(***************************************************************************)
(* UpstreamHealthRegistry (crates/runtime/src/upstream_health.rs): which   *)
(* endpoints exist, and the health record kept for each.  Registration     *)
(* holds the topology lock for writing; a signal holds it for reading and  *)
(* the records for writing; advance_time holds only the records.  So every *)
(* call is one step, and calls of requests, of the probe loop and of       *)
(* discovery come in any order, for endpoints that may be gone already.    *)
(* Metrics and the ring of recent events are left out.                     *)
(***************************************************************************)
EXTENDS EndpointHealth

CONSTANTS
    Clusters,
    Endpoints,
    NoRecord,      \* records has no entry for the key
    MaxElapsed     \* longest time between two calls of advance_time

ASSUME RegistryAssumption ==
    /\ IsFiniteSet(Endpoints)
    /\ NoRecord \notin HealthRecord
    /\ MaxElapsed \in Nat \ {0}

VARIABLES
    clusters,      \* EndpointRegistry.clusters: the names registered
    state,         \* EndpointRegistry.clusters: the state of every endpoint
    records,       \* UpstreamHealthRegistry.records
    ejected_for,   \* history: time advanced since the endpoint was ejected
    run            \* history: successes in a row while readmission is pending

history == <<ejected_for, run>>
vars == <<clusters, state, records, history>>

Keys == Clusters \X Endpoints

\* Draining and Unavailable are one here: the registry only asks is_ready().
EndpointStates == {"Ready", "NotReady"}

Registered(k) == state[k] /= "absent"

Tracked(k) == records[k] /= NoRecord

TypeOK ==
    /\ clusters \subseteq Clusters
    /\ state \in [Keys -> EndpointStates \cup {"absent"}]
    /\ records \in [Keys -> HealthRecord \cup {NoRecord}]
    /\ ejected_for \in [Keys -> 0..EjectionDuration]
    /\ run \in [Keys -> 0..MaxCount]

Init ==
    /\ clusters = {}
    /\ state = [k \in Keys |-> "absent"]
    /\ records = [k \in Keys |-> NoRecord]
    /\ ejected_for = [k \in Keys |-> 0]
    /\ run = [k \in Keys |-> 0]

\* A cluster arrives with its endpoints, all of one state and one weight.
InsertCluster(c, members, st, weight) ==
    LET added == {c} \X members
    IN  /\ c \notin clusters
        /\ clusters' = clusters \cup {c}
        /\ state' = [k \in Keys |-> IF k \in added THEN st ELSE state[k]]
        /\ records' = [k \in Keys |-> IF k \in added THEN NewRecord(st = "Ready", weight)
                                      ELSE records[k]]
        /\ run' = [k \in Keys |-> IF k \in added THEN 0 ELSE run[k]]
        /\ UNCHANGED ejected_for

RemoveCluster(c) ==
    /\ c \in clusters
    /\ clusters' = clusters \ {c}
    /\ state' = [k \in Keys |-> IF k[1] = c THEN "absent" ELSE state[k]]
    /\ records' = [k \in Keys |-> IF k[1] = c THEN NoRecord ELSE records[k]]
    /\ UNCHANGED history

InsertEndpoint(k, st, weight) ==
    /\ k[1] \in clusters
    /\ ~Registered(k)
    /\ state' = [state EXCEPT ![k] = st]
    /\ records' = [records EXCEPT ![k] = NewRecord(st = "Ready", weight)]
    /\ run' = [run EXCEPT ![k] = 0]
    /\ UNCHANGED <<clusters, ejected_for>>

RemoveEndpoint(k) ==
    /\ Registered(k)
    /\ state' = [state EXCEPT ![k] = "absent"]
    /\ records' = [records EXCEPT ![k] = NoRecord]
    /\ UNCHANGED <<clusters, history>>

\* The health record is not touched.
SetEndpointState(k, st) ==
    /\ Registered(k)
    /\ state[k] /= st
    /\ state' = [state EXCEPT ![k] = st]
    /\ UNCHANGED <<clusters, records, history>>

\* The keys of k's cluster that hold a record.
Peers(recs, k) == {j \in Keys : j[1] = k[1] /\ recs[j] /= NoRecord}

Ejected(recs, k) == {j \in Peers(recs, k) : recs[j].status = "Ejected"}

AllowedEjections(recs, k) == (Cardinality(Peers(recs, k)) * BudgetPercent + 99) \div 100

\* MUTANT: the budget counts the ejections before this one.
CanApplyEjectionBudgetLate(recs, k) ==
    \/ BudgetPercent >= 100
    \/ Cardinality(Ejected(recs, k) \ {k}) <= AllowedEjections(recs, k)

\* recs already holds the ejection of k.
CanApplyEjectionBudget(recs, k) ==
    \/ BudgetPercent >= 100
    \/ /\ AllowedEjections(recs, k) /= 0
       /\ Cardinality(Ejected(recs, k)) <= AllowedEjections(recs, k)

\* An ejection the budget refuses leaves the endpoint unhealthy.
Capped(k, new) ==
    LET recs == [records EXCEPT ![k] = new]
    IN  IF /\ new.status = "Ejected"
           /\ records[k].status /= "Ejected"
           /\ ~CanApplyEjectionBudget(recs, k)
        THEN [new EXCEPT !.status = "Unhealthy",
                         !.remaining_ejection = 0,
                         !.effective_weight = 0]
        ELSE new

\* apply_signal, once the record has taken the signal.
ApplySignal(k, new) ==
    /\ records' = [records EXCEPT ![k] = Capped(k, new)]
    /\ UNCHANGED <<clusters, state>>

Fail(k, new) ==
    /\ Tracked(k)
    /\ ApplySignal(k, new)
    /\ run' = [run EXCEPT ![k] = 0]
    /\ ejected_for' = [ejected_for EXCEPT ![k] = IF records[k].status = "Ejected" THEN @ ELSE 0]

Succeed(k, new) ==
    /\ Tracked(k)
    /\ ApplySignal(k, new)
    /\ run' = [run EXCEPT ![k] = IF records[k].status \in {"Unhealthy", "Degraded"}
                                 THEN Smaller(@ + 1, RecoverySuccesses) ELSE 0]
    /\ UNCHANGED ejected_for

NoteActiveFailure(k) == Tracked(k) /\ Fail(k, OnActiveFailure(records[k]))

NotePassiveFailure(k, p) == Tracked(k) /\ Fail(k, OnPassiveFailure(records[k], p))

NoteActiveSuccess(k) == Tracked(k) /\ Succeed(k, OnActiveSuccess(records[k]))

NotePassiveSuccess(k, p) == Tracked(k) /\ Succeed(k, OnPassiveSuccess(records[k], p))

AdvanceTime(elapsed) ==
    /\ records' = [k \in Keys |-> IF Tracked(k) THEN Aged(records[k], elapsed) ELSE NoRecord]
    /\ ejected_for' = [k \in Keys |->
           IF Tracked(k) /\ records[k].status = "Ejected"
           THEN Smaller(ejected_for[k] + elapsed, EjectionDuration) ELSE 0]
    /\ UNCHANGED <<clusters, state, run>>

FailureNoted(k) ==
    \/ NoteActiveFailure(k)
    \/ \E p \in Protocols : NotePassiveFailure(k, p)

SuccessNoted(k) ==
    \/ NoteActiveSuccess(k)
    \/ \E p \in Protocols : NotePassiveSuccess(k, p)

Register ==
    \/ \E c \in Clusters, members \in SUBSET Endpoints, st \in EndpointStates, w \in Weights :
           InsertCluster(c, members, st, w)
    \/ \E c \in Clusters : RemoveCluster(c)
    \/ \E k \in Keys, st \in EndpointStates, w \in Weights : InsertEndpoint(k, st, w)
    \/ \E k \in Keys : RemoveEndpoint(k)
    \/ \E k \in Keys, st \in EndpointStates : SetEndpointState(k, st)

Next ==
    \/ Register
    \/ \E k \in Keys : FailureNoted(k) \/ SuccessNoted(k)
    \/ \E elapsed \in 1..MaxElapsed : AdvanceTime(elapsed)

Spec == Init /\ [][Next]_vars

----------------------------------------------------------------------------
\* The fields of a record agree: traffic weight exactly when the endpoint may be
\* selected, an ejection timer only while ejected, and no endpoint at full health
\* or warming up to it with failures that should have demoted it.
RecordShape(r) ==
    /\ r.effective_weight = 0 <=> r.status \notin Available
    /\ r.effective_weight <= r.nominal_weight
    /\ r.status \in {"Healthy", "Degraded"} => r.effective_weight = r.nominal_weight
    /\ r.status /= "Ejected" => r.remaining_ejection = 0
    /\ r.status \in {"Healthy", "Warming"} =>
         \/ r.active_failures = 0 /\ r.passive_failures = NoPassiveFailures
         \/ ~FailuresReach(r, DegradedFailures)

\* Registry and records describe the same endpoints, so that no reader meets
\* InconsistentState, and every record is well formed, whatever order failures,
\* successes, timers, the budget cap and re-registration come in
\* (transition_on_failures, transition_on_success, advance_time, apply_signal).
HealthShape ==
    \A k \in Keys :
        /\ Tracked(k) <=> Registered(k)
        /\ Registered(k) => k[1] \in clusters
        /\ Tracked(k) => RecordShape(records[k])

\* An ejection is only started while the share of ejected endpoints of the
\* cluster, this one included, stays within cluster_ejection_budget_percent,
\* rounded up to a whole endpoint
\* (can_apply_ejection_budget runs after the record was changed).
EjectionsWithinBudget ==
    [][\A k \in Keys :
          /\ Tracked(k) /\ records[k].status /= "Ejected"
          /\ records'[k] /= NoRecord /\ records'[k].status = "Ejected"
          /\ BudgetPercent < 100
          => Cardinality(Ejected(records', k)) * 100
                 <= Cardinality(Peers(records', k)) * BudgetPercent + 99]_vars

\* "Duration for which an endpoint remains ejected": no signal of a request or
\* a probe ends an ejection early, only its removal does (apply_signal,
\* advance_time).
EjectionServed ==
    [][\A k \in Keys :
          /\ Tracked(k) /\ records[k].status = "Ejected"
          /\ records'[k] /= NoRecord /\ records'[k].status /= "Ejected"
          => ejected_for'[k] >= EjectionDuration]_vars

\* An unhealthy or degraded endpoint is taken back to warm-up or health only by
\* recovery_success_threshold successes with no failure between them, none of
\* them from before its ejection ended (transition_on_success).
ReadmissionEarned ==
    [][\A k \in Keys :
          /\ Tracked(k) /\ records[k].status \in {"Unhealthy", "Degraded"}
          /\ records'[k] /= NoRecord /\ records'[k].status \in {"Warming", "Healthy"}
          => run'[k] >= RecoverySuccesses]_vars

\* "Success threshold required for unhealthy or degraded endpoints to recover":
\* an unhealthy endpoint carries traffic again only after that many successes.
\* TLC refutes it: a failure can promote it to Degraded (upstream_health.rs:852).
SelectableOnlyAfterRecovery ==
    [][\A k \in Keys :
          /\ Tracked(k) /\ records[k].status = "Unhealthy"
          /\ records'[k] /= NoRecord /\ records'[k].status \in Available
          => run'[k] >= RecoverySuccesses]_vars

(* An ejection is honoured to its end and beyond: nothing but its timer    *)
(* ends it, and the endpoint earns its readmission afterwards.             *)
EjectionHonoured == EjectionServed /\ ReadmissionEarned
=============================================================================
