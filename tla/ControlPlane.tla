---------------------------- MODULE ControlPlane ----------------------------
(***************************************************************************)
(* The control plane as a whole: the registry, the nodes, the fleet        *)
(* coordinator, operators who also act on single nodes, and restarts of    *)
(* nodes and of the control plane.  A fleet operation borrows the          *)
(* registry, so nothing is published while it runs; a restart of the       *)
(* control plane drops it half way.                                        *)
(***************************************************************************)
EXTENDS SnapshotRegistry

----------------------------------------------------------------------------
(***************************************************************************)
(* What happens to a published snapshot on a node: DataplaneSnapshotManager*)
(* (crates/runtime/src/config_application.rs) activates it and remembers   *)
(* the last known good one, RolloutCoordinator (crates/admin-api/src/      *)
(* rollout.rs) rolls versions out and back, and PromotionCoordinator       *)
(* (promotion.rs) asks for an acknowledgement before a risky rollout.      *)
(*                                                                         *)
(* A node is one process that holds a manager and a coordinator, both in   *)
(* memory.  An activation hook accepts a snapshot or refuses it; it is an  *)
(* input of the operations.  Of a coordinator's history the last entry is  *)
(* kept, and counters are left out.                                        *)
(***************************************************************************)
CONSTANT Nodes    \* the dataplane nodes

VARIABLES
    node,         \* manager and coordinator of every node
    published     \* history: every record any registry has published

nodeVars == <<node, published>>

Applied == [version : Versions, digest : Digests]

NewNode ==
    [active |-> None, lastKnownGood |-> None, lifecycle |-> "idle",
     failure |-> None, successful |-> <<>>, last |-> None]

ValidateApplyRequest(record, fieldsOk) ==
    Trim[record.version] \notin Malformed /\ fieldsOk

RecordFailure(nd, category) ==
    [nd EXCEPT !.failure = category, !.lifecycle = "apply_failed"]

AppliedOf(record) == [version |-> record.version, digest |-> record.digest]

ApplyOutcome(nd, record, fieldsOk, hookOk) ==
    IF \/ ~ValidateApplyRequest(record, fieldsOk)
       \/ ~VerifyIntegrity(record.digest, record.attestation)
    THEN "integrity"
    ELSE IF nd.active = AppliedOf(record) THEN "unchanged"
         ELSE IF hookOk THEN "applied" ELSE "activation"

MutantTrimsVersion(nd, record, fieldsOk, hookOk) ==
    LET outcome == ApplyOutcome(nd, record, fieldsOk, hookOk)
        trimmed == [AppliedOf(record) EXCEPT !.version = Trim[record.version]]
    IN CASE outcome = "applied" ->
               [nd EXCEPT !.active = trimmed, !.lastKnownGood = trimmed,
                          !.failure = None, !.lifecycle = "active"]
         [] outcome = "unchanged" -> [nd EXCEPT !.lifecycle = "active"]
         [] OTHER -> RecordFailure(nd, outcome)

ApplyAt(nd, record, fieldsOk, hookOk) ==
    LET outcome == ApplyOutcome(nd, record, fieldsOk, hookOk) IN
    CASE outcome = "applied" ->
            [nd EXCEPT !.active = AppliedOf(record),
                       !.lastKnownGood = AppliedOf(record),
                       !.failure = None, !.lifecycle = "active"]
      [] outcome = "unchanged" -> [nd EXCEPT !.lifecycle = "active"]
      [] OTHER -> RecordFailure(nd, outcome)

----------------------------------------------------------------------------
(* RolloutCoordinator.  Every operation yields the node after it and what  *)
(* the caller is told: applied, unchanged or an error.                     *)

Entry(action, result, target) ==
    [action |-> action, result |-> result, target |-> target]

Refused(nd, action, target) ==
    [node |-> [nd EXCEPT !.last = Entry(action, "rejected", target)],
     result |-> "rejected"]

MutantPushedOnce(successful, version) ==
    IF version \in Range(successful) THEN successful ELSE Append(successful, version)

PushSuccessful(successful, version) ==
    IF successful # <<>> /\ Last(successful) = version
    THEN successful ELSE Append(successful, version)

ExecuteAction(nd, action, record, fieldsOk, hookOk) ==
    LET outcome == ApplyOutcome(nd, record, fieldsOk, hookOk)
        after   == ApplyAt(nd, record, fieldsOk, hookOk)
        result  == IF outcome \in {"applied", "unchanged"} THEN outcome ELSE "rejected"
    IN [node |-> [after EXCEPT
                    !.successful = IF outcome = "applied"
                                   THEN PushSuccessful(after.successful, record.version)
                                   ELSE after.successful,
                    !.last = Entry(action, result, record.version)],
        result |-> result]

ValidateRolloutRequest(version, fieldsOk) ==
    Trim[version] \notin Malformed /\ fieldsOk

RolloutAt(nd, reg, version, fieldsOk, hookOk) ==
    IF \/ ~ValidateRolloutRequest(version, fieldsOk)
       \/ version \notin DOMAIN reg.records
    THEN Refused(nd, "rollout", version)
    ELSE ExecuteAction(nd, "rollout", reg.records[version], fieldsOk, hookOk)

(* The most recent successful version that is not the active one.          *)
RollbackCandidate(nd) ==
    LET others == {i \in DOMAIN nd.successful : nd.active = None \/ nd.successful[i] # nd.active.version}
    IN IF others = {} THEN None ELSE nd.successful[Max(others)]

(* With an explicit target an ill-formed request leaves no trace; without  *)
(* one the actor and the reason are not looked at before the apply.        *)
RollbackAt(nd, reg, target, fieldsOk, hookOk) ==
    LET version == IF target = None THEN RollbackCandidate(nd) ELSE target IN
    IF target # None /\ ~ValidateRolloutRequest(target, fieldsOk)
    THEN [node |-> nd, result |-> "rejected"]
    ELSE IF \/ version = None
            \/ target # None /\ target \notin Range(nd.successful)
            \/ version \notin DOMAIN reg.records
         THEN Refused(nd, "rollback", version)
         ELSE ExecuteAction(nd, "rollback", reg.records[version], fieldsOk, hookOk)

----------------------------------------------------------------------------
(* PromotionCoordinator and the staged acknowledgement it shares with the  *)
(* listener canary.                                                        *)

PreviewPossible(reg, candidate, base) ==
    /\ Trim[candidate] \in DOMAIN reg.records
    /\ Baseline(reg, base) \in DOMAIN reg.records

RequiresStagedAck(reg, candidate, base) ==
    PreviewSeverity(reg, base, reg.records[Trim[candidate]].digest) # "low"

PromotionAllowed(reg, candidate, base, ack) ==
    /\ PreviewPossible(reg, candidate, base)
    /\ RequiresStagedAck(reg, candidate, base) => ack

----------------------------------------------------------------------------
NodeInit ==
    /\ node = [n \in Nodes |-> NewNode]
    /\ published = {}

RegistryStep(requests) ==
    /\ RegistryNext(requests)
    /\ published' = published \cup Range(registry'.records)
    /\ UNCHANGED node

NodeStep(n, after) ==
    /\ Use("node")
    /\ restoring = Idle
    /\ node' = [node EXCEPT ![n] = after]
    /\ UNCHANGED <<registryVars, published>>

Rollout(n, version, fieldsOk, hookOk) ==
    NodeStep(n, RolloutAt(node[n], registry, version, fieldsOk, hookOk).node)

Rollback(n, target, fieldsOk, hookOk) ==
    NodeStep(n, RollbackAt(node[n], registry, target, fieldsOk, hookOk).node)

(* The preview trims the candidate; the rollout gets it as it came.        *)
Promote(n, candidate, base, ack, hookOk) ==
    /\ budget.node > 0
    /\ PromotionAllowed(registry, candidate, base, ack)
    /\ NodeStep(n, RolloutAt(node[n], registry, candidate, TRUE, hookOk).node)

NodeRestart(n) == node[n] # NewNode /\ NodeStep(n, NewNode)

----------------------------------------------------------------------------
(***************************************************************************)
(* FleetRolloutCoordinator (crates/admin-api/src/fleet.rs) over several    *)
(* nodes, the health gates of a staged rollout (fleet_gate.rs,             *)
(* fleet_staged.rs, fleet_status.rs), and ListenerCanaryCoordinator        *)
(* (listener_canary.rs), which drives all of them.                         *)
(*                                                                         *)
(* The coordinator calls the nodes one after the other, so an operation is *)
(* a sequence of steps between which operators may act on single nodes.    *)
(* A call (FleetNodeBackend, a trait without an implementation in the      *)
(* repository) reaches the node and is answered, does not reach it, or     *)
(* reaches it and its answer is lost.                                      *)
(***************************************************************************)
CONSTANTS
    NodeIds,       \* node_ids of the fleet requests, in order
    Strategies,    \* FleetRolloutStrategy values asked for
    GateModes,     \* FleetHealthGateMode of the gate policy
    RollbackModes, \* FleetAutoRollbackMode of the rollback policy
    Signals,       \* health signals a node may report
    MinReady,      \* min_ready_percent of the gate policy
    MaxError       \* max_error_percent of the gate policy

VARIABLES
    op,            \* what the coordinator is doing
    report         \* the last answer it gave

fleetVars == <<op, report>>
vars == <<registryVars, nodeVars, fleetVars, budget>>

Resting == [phase |-> "idle"]

CanarySize(strategy) == IF strategy.kind = "canary" THEN strategy.nodes ELSE 0

ValidateFleetRequest(strategy) ==
    /\ NodeIds # <<>>
    /\ IsInjective(NodeIds)
    /\ strategy.kind = "canary" => strategy.nodes > 0

(* A failed call stops a sequential rollout, and a canary rollout while it *)
(* is among the canary nodes.                                              *)
MutantHaltsOneLate(strategy, i) ==
    \/ strategy.kind = "sequential"
    \/ i < CanarySize(strategy)

HaltsAfterFailure(strategy, i) ==
    \/ strategy.kind = "sequential"
    \/ i <= CanarySize(strategy)

Started(action, strategy, record, canary) ==
    [phase |-> "apply", action |-> action, strategy |-> strategy,
     record |-> record, canary |-> canary, i |-> 1, halted |-> FALSE,
     outcomes |-> <<>>, seen |-> <<>>, since |-> budget.node]

FleetInit ==
    /\ op = Resting
    /\ report = None

MayBegin == op = Resting /\ restoring = Idle /\ budget.fleet > 0

Begin(started) ==
    /\ Use("fleet")
    /\ op' = started
    /\ report' = None
    /\ UNCHANGED <<registryVars, nodeVars>>

FleetRolloutStart(version, strategy) ==
    /\ MayBegin
    /\ ValidateFleetRequest(strategy)
    /\ ValidateRolloutRequest(version, TRUE)
    /\ version \in DOMAIN registry.records
    /\ Begin(Started("rollout", strategy, registry.records[version], None))

Sequential == [kind |-> "sequential"]

FleetRollbackStart(version) ==
    /\ MayBegin
    /\ ValidateFleetRequest(Sequential)
    /\ ValidateRolloutRequest(version, TRUE)
    /\ version \in DOMAIN registry.records
    /\ Begin(Started("rollback", Sequential, registry.records[version], None))

Choosing(canary) ==
    [phase |-> "target", i |-> 1, shared |-> None, canary |-> canary]

FleetRollbackToShared ==
    /\ MayBegin
    /\ ValidateFleetRequest(Sequential)
    /\ Begin(Choosing(None))

End(answer) == op' = Resting /\ report' = answer

Failed(reason) == [kind |-> "error", reason |-> reason]

(* shared_rollback_candidate: the last known good version of every node,   *)
(* one status call after the other, then the lookup of the version.        *)
SharedCandidateStep ==
    /\ op.phase = "target"
    /\ UNCHANGED <<registryVars, nodeVars>>
    /\ \/ Use("faults") /\ End(Failed("status_unavailable"))
       \/ /\ UNCHANGED budget
          /\ LET good == node[NodeIds[op.i]].lastKnownGood IN
             IF \/ good = None
                \/ op.shared # None /\ op.shared # good.version
             THEN End(Failed("no_shared_candidate"))
             ELSE IF op.i < Len(NodeIds)
                  THEN /\ op' = [op EXCEPT !.i = op.i + 1, !.shared = good.version]
                       /\ UNCHANGED report
                  ELSE IF good.version \in DOMAIN registry.records
                       THEN /\ op' = Started("rollback", Sequential,
                                             registry.records[good.version], op.canary)
                            /\ UNCHANGED report
                       ELSE End(Failed("unknown_version"))

NodeOperation(nd, hookOk) ==
    IF op.action = "rollout"
    THEN RolloutAt(nd, registry, op.record.version, TRUE, hookOk)
    ELSE RollbackAt(nd, registry, op.record.version, TRUE, hookOk)

Advance(outcome, halted) ==
    LET last == op.i = Len(NodeIds) IN
    op' = [op EXCEPT !.outcomes = Append(op.outcomes, outcome),
                     !.halted = halted,
                     !.i = IF last THEN 1 ELSE op.i + 1,
                     !.phase = IF last THEN "report" ELSE "apply"]

SkipNode ==
    /\ op.phase = "apply"
    /\ op.halted
    /\ Advance("skipped", TRUE)
    /\ UNCHANGED <<registryVars, nodeVars, report, budget>>

CallNode(hookOk) ==
    /\ op.phase = "apply"
    /\ ~op.halted
    /\ LET n   == NodeIds[op.i]
           did == NodeOperation(node[n], hookOk)
       IN /\ node' = [node EXCEPT ![n] = did.node]
          /\ IF did.result = "rejected"
             THEN Advance("failed", HaltsAfterFailure(op.strategy, op.i))
             ELSE Advance(did.result, FALSE)
    /\ UNCHANGED <<registryVars, published, report, budget>>

(* The call does not reach the node, or its answer does not come back.     *)
CallLost ==
    /\ op.phase = "apply"
    /\ ~op.halted
    /\ Use("faults")
    /\ LET n == NodeIds[op.i] IN
       \/ UNCHANGED node
       \/ node' = [node EXCEPT ![n] = NodeOperation(node[n], TRUE).node]
    /\ Advance("failed", HaltsAfterFailure(op.strategy, op.i))
    /\ UNCHANGED <<registryVars, published, report>>

----------------------------------------------------------------------------
(* build_convergence_report.  A status is late when it was observed after  *)
(* the divergence deadline; only a node that does not run the desired      *)
(* snapshot is judged by it.                                               *)

NodeConvergence(nd, late) ==
    IF nd.active = AppliedOf(op.record) THEN "converged"
    ELSE IF late THEN "diverged" ELSE "pending"

Seen(state, good) == [state |-> state, good |-> good]

Observe(seen) ==
    LET last == op.i = Len(NodeIds) IN
    op' = [op EXCEPT !.seen = Append(op.seen, seen),
                     !.i = IF last THEN 1 ELSE op.i + 1,
                     !.phase = IF last THEN "finish" ELSE "report"]

ReportNode ==
    /\ op.phase = "report"
    /\ LET nd == node[NodeIds[op.i]] IN
       \/ /\ \E late \in BOOLEAN :
                Observe(Seen(NodeConvergence(nd, late), nd.lastKnownGood))
          /\ UNCHANGED budget
       \/ Use("faults") /\ Observe(Seen("unavailable", None))
    /\ UNCHANGED <<registryVars, nodeVars, report>>

SeenAs(state) == {i \in DOMAIN op.seen : op.seen[i].state = state}

ConvergenceState ==
    IF SeenAs("converged") = DOMAIN NodeIds THEN "converged"
    ELSE IF SeenAs("unavailable") # {} \/ "failed" \in Range(op.outcomes)
         THEN "degraded"
         ELSE IF SeenAs("diverged") # {} THEN "diverged" ELSE "progressing"

RecommendedAction(state) ==
    CASE state = "converged"   -> "observe_only"
      [] state = "progressing" -> "wait_for_convergence"
      [] state = "diverged"    -> "rollback_fleet"
      [] state = "degraded"    -> IF SeenAs("unavailable") # {}
                                  THEN "investigate_partition"
                                  ELSE "retry_failed_nodes"

SharedLastKnownGood ==
    LET goods == {s.good : s \in Range(op.seen)} IN
    IF None \notin goods /\ Cardinality({g.version : g \in goods}) = 1
    THEN (CHOOSE g \in goods : TRUE).version
    ELSE None

Response ==
    [kind |-> "response", action |-> op.action, strategy |-> op.strategy,
     desired |-> AppliedOf(op.record), state |-> ConvergenceState,
     recommended |-> RecommendedAction(ConvergenceState),
     shared |-> SharedLastKnownGood, outcomes |-> op.outcomes, seen |-> op.seen]

----------------------------------------------------------------------------
(* Staged waves and their gates.                                           *)

PlanStagedRollout(waves) ==
    /\ waves # <<>>
    /\ \A w \in DOMAIN waves :
          /\ waves[w].nodes # {}
          /\ waves[w].maxParallel \in 1 .. Cardinality(waves[w].nodes)
          /\ waves[w].nodes \subseteq Range(NodeIds)
          /\ \A other \in 1 .. w - 1 : waves[w].nodes \cap waves[other].nodes = {}
    /\ UNION {wave.nodes : wave \in Range(waves)} = Range(NodeIds)

CanaryWaves(size) ==
    LET wave(nodes) == [nodes |-> nodes, maxParallel |-> 1]
        first == Range(SubSeq(NodeIds, 1, size))
        rest  == Range(NodeIds) \ first
    IN IF rest = {} THEN <<wave(first)>> ELSE <<wave(first), wave(rest)>>

Failing(signal) == signal.ready < MinReady \/ signal.error > MaxError

EvaluateWaveGate(wave, signals, mode, timedOut) ==
    LET missing == {n \in wave.nodes : signals[n] = None}
        failing == {n \in wave.nodes \ missing : Failing(signals[n])}
        bad     == missing \cup failing
    IN [verdict  |-> IF mode = "best_effort" \/ bad = {} THEN "passed"
                     ELSE IF timedOut THEN "failed" ELSE "pending",
        degraded |-> CASE mode = "best_effort"          -> bad # {}
                       [] mode = "required" /\ bad = {} -> FALSE
                       [] mode = "required" /\ bad # {} -> timedOut \/ failing # {},
        timedOut |-> timedOut]

ShouldAutoRollback(mode, timedOut) ==
    \/ mode = "on_failed_gate" /\ ~timedOut
    \/ mode = "on_failed_or_timed_out"

DecideAbort(gate, mode) ==
    LET abort == \/ gate.verdict = "failed"
                 \/ gate.verdict = "pending" /\ gate.timedOut
    IN [abort    |-> abort,
        rollback |-> abort /\ ShouldAutoRollback(mode, gate.timedOut),
        reason   |-> CASE ~abort -> None
                       [] abort /\ gate.timedOut -> "timed_out"
                       [] abort /\ ~gate.timedOut -> "failed"]

WaveState(gate, aborted) ==
    CASE aborted -> "aborted"
      [] ~aborted /\ gate.verdict = "passed"  -> "passed"
      [] ~aborted /\ gate.verdict = "failed"  -> "failed"
      [] ~aborted /\ gate.verdict = "pending" -> "in_progress"

StagedState(canary, attempted) ==
    CASE attempted -> "rolled_back"
      [] ~attempted /\ canary.decision.abort -> "aborted"
      [] ~attempted /\ ~canary.decision.abort ->
            IF canary.response.state \in {"converged", "degraded"}
            THEN canary.response.state ELSE "progressing"

StatusSurface(canary, rollback) ==
    [kind |-> "surface", state |-> StagedState(canary, rollback # None),
     desired |-> canary.response.desired, rollback |-> rollback,
     waves |-> [w \in DOMAIN canary.gates |->
                  WaveState(canary.gates[w], w = 1 /\ canary.decision.abort)],
     decision |-> canary.decision]

----------------------------------------------------------------------------
(* ListenerCanaryCoordinator::apply.                                       *)

ListenerCanaryStart(candidate, base, ack, size) ==
    LET version == Trim[candidate] IN
    /\ MayBegin
    /\ size \in 1 .. Len(NodeIds)
    /\ PreviewPossible(registry, candidate, base)
    /\ RequiresStagedAck(registry, candidate, base) => ack
    /\ PlanStagedRollout(CanaryWaves(size))
    /\ ValidateFleetRequest([kind |-> "canary", nodes |-> size])
    /\ ValidateRolloutRequest(version, TRUE)
    /\ \E mode \in GateModes, rollbackMode \in RollbackModes :
          Begin(Started("rollout", [kind |-> "canary", nodes |-> size],
                        registry.records[version],
                        [mode |-> mode, rollbackMode |-> rollbackMode]))

(* The gates of all waves are evaluated right after the rollout; only the  *)
(* first one decides.                                                      *)
EvaluateGates(signals, late) ==
    /\ op.phase = "gates"
    /\ LET waves    == CanaryWaves(op.strategy.nodes)
           gates    == [w \in DOMAIN waves |->
                          EvaluateWaveGate(waves[w], signals, op.canary.mode, late[w])]
           decision == DecideAbort(gates[1], op.canary.rollbackMode)
           canary   == [response |-> Response, gates |-> gates,
                        decision |-> decision]
       IN IF decision.rollback
          THEN op' = Choosing(canary) /\ UNCHANGED report
          ELSE End(StatusSurface(canary, None))
    /\ UNCHANGED <<registryVars, nodeVars, budget>>

(* A fleet operation ends; a canary goes on to its gates, and an automatic *)
(* rollback gives the canary its outcome.                                  *)
FleetOperationDone ==
    /\ op.phase = "finish"
    /\ IF op.canary = None THEN End(Response)
       ELSE IF op.action = "rollout"
            THEN op' = [op EXCEPT !.phase = "gates"] /\ UNCHANGED report
            ELSE End(StatusSurface(op.canary,
                        [succeeded |-> ConvergenceState = "converged",
                         target    |-> AppliedOf(op.record)]))
    /\ UNCHANGED <<registryVars, nodeVars, budget>>

NodeSignals == [Range(NodeIds) -> Signals \cup {None}]

Lateness == {late \in [1 .. 2 -> BOOLEAN] : late[1] => late[2]}

FleetProgress ==
    \/ SharedCandidateStep
    \/ SkipNode
    \/ \E hookOk \in BOOLEAN : CallNode(hookOk)
    \/ CallLost
    \/ ReportNode
    \/ \E signals \in NodeSignals, late \in Lateness : EvaluateGates(signals, late)
    \/ FleetOperationDone

----------------------------------------------------------------------------
CONSTANTS
    Requests,     \* publication requests that are made
    Bases         \* baselines and rollback targets that are named

ASSUME ControlPlaneAssumption ==
    /\ MaxAudit \in Nat
    /\ NodeIds \in Seq(Nodes)
    /\ Strategies \subseteq [kind : {"immediate", "sequential"}] \cup [kind : {"canary"}, nodes : Nat]
    /\ Requests \subseteq PublishRequests
    /\ Bases \subseteq Versions \cup {None}
    /\ Budgets \subseteq [publish : Nat, upkeep : Nat, node : Nat, fleet : Nat, faults : Nat]
    /\ None \notin Applied

Init ==
    /\ RegistryInit
    /\ NodeInit
    /\ FleetInit

RegistryTurn ==
    /\ op = Resting
    /\ RegistryStep(Requests)
    /\ UNCHANGED fleetVars

RestartDropsOperation ==
    /\ op # Resting
    /\ Restart
    /\ op' = Resting
    /\ report' = None
    /\ UNCHANGED nodeVars

OperatorTurn ==
    /\ UNCHANGED fleetVars
    /\ \E n \in Nodes :
          \/ \E version \in Versions, ok, hookOk \in BOOLEAN :
                Rollout(n, version, ok, hookOk)
          \/ \E target \in Bases, ok, hookOk \in BOOLEAN :
                Rollback(n, target, ok, hookOk)
          \/ \E candidate \in Versions, base \in Bases, ack, hookOk \in BOOLEAN :
                Promote(n, candidate, base, ack, hookOk)
          \/ NodeRestart(n)

FleetStart ==
    \/ \E version \in Versions :
          \/ \E strategy \in Strategies : FleetRolloutStart(version, strategy)
          \/ FleetRollbackStart(version)
    \/ FleetRollbackToShared
    \/ \E candidate \in Versions, base \in Bases, ack \in BOOLEAN,
          size \in 1 .. Len(NodeIds) :
          ListenerCanaryStart(candidate, base, ack, size)

Next ==
    \/ RegistryTurn
    \/ RestartDropsOperation
    \/ OperatorTurn
    \/ FleetStart
    \/ FleetProgress

Spec == Init /\ [][Next]_vars

----------------------------------------------------------------------------
AuditEvents == {"published", "unchanged", "rejected"}

Registries ==
    [records : UNION {[S -> Record] : S \in SUBSET Versions},
     byDigest : UNION {[S -> Versions] : S \in SUBSET Digests},
     history : Seq(Versions), audit : Seq(AuditEvents)]

Entries ==
    [action : {"rollout", "rollback"}, result : {"applied", "unchanged", "rejected"},
     target : Versions \cup {None}]

NodeStates ==
    [active : Applied \cup {None}, lastKnownGood : Applied \cup {None},
     lifecycle : {"idle", "active", "apply_failed"},
     failure : {None, "integrity", "activation"},
     successful : Seq(Versions), last : Entries \cup {None}]

(* The registry, the nodes and the fleet operation keep their shape.       *)
TypeOK ==
    /\ registry \in Registries
    /\ \A n \in Nodes : node[n] \in NodeStates
    /\ published \subseteq Record
    /\ op.phase \in {"idle", "target", "apply", "report", "finish", "gates"}
    /\ op # Resting => op.i \in DOMAIN NodeIds

(* The three indexes of the registry agree (publish_at, restore_record):   *)
(* a version has one record, a digest one version, the history lists every *)
(* version once, and every record carries an attestation its snapshot      *)
(* accepts.                                                                *)
RegistryConsistent ==
    /\ Range(registry.history) = DOMAIN registry.records
    /\ IsInjective(registry.history)
    /\ Range(registry.byDigest) = DOMAIN registry.records
    /\ \A v \in DOMAIN registry.records :
          LET record == registry.records[v] IN
          /\ record.version = v
          /\ record.digest \in DOMAIN registry.byDigest
          /\ registry.byDigest[record.digest] = v
          /\ VerifyIntegrity(record.digest, record.attestation)

(* A version, once published, keeps its snapshot and its place in the      *)
(* history, whatever is published or restored later in the life of the     *)
(* service.                                                                *)
PublishedForGood ==
    [][\/ registry' = NewRegistry
       \/ /\ Len(registry.history) <= Len(registry'.history)
          /\ SubSeq(registry'.history, 1, Len(registry.history)) = registry.history
          /\ \A v \in DOMAIN registry.records :
                registry'.records[v] = registry.records[v]]_vars

(* restore_durable_state rebuilds exactly the registry the envelope was    *)
(* written from: no record of an intact envelope is dropped or reordered,  *)
(* none is refused but one whose snapshot does not compile from its view,  *)
(* and the audit log is the retained end of the one exported.              *)
DurableRestoreComplete ==
    /\ restoring.kind = "durable" /\ envelope.intact =>
          /\ Exported(registry) \o restoring.queue = envelope.records
          /\ restoring.queue # <<>> /\ Recompiles(Head(restoring.queue).digest) =>
                RestorableRecord(registry, Head(restoring.queue))
    /\ envelope # None => Len(envelope.audit) <= MaxAudit

(* docs/runbooks/disaster-recovery.md: the restored registry contains      *)
(* every expected version.  restore_durable_state accepts every record of  *)
(* an intact envelope.  TLC refutes it: a snapshot with discovery does not *)
(* compile from its view (compiler.rs:595).                                *)
EveryVersionRestored ==
    restoring.kind = "durable" /\ envelope.intact /\ restoring.queue # <<>> =>
       RestorableRecord(registry, Head(restoring.queue))

(* A manager's last known good snapshot is the active one: apply_at        *)
(* changes them together, and a failed apply changes neither.              *)
LastKnownGoodIsActive ==
    \A n \in Nodes : node[n].lastKnownGood = node[n].active

(* A coordinator's list of successful versions ends with what its node     *)
(* runs, so a rollback without a target never goes back to that.           *)
ActiveIsLastSuccess ==
    \A n \in Nodes :
       /\ node[n].active = None <=> node[n].successful = <<>>
       /\ node[n].active # None =>
             Last(node[n].successful) = node[n].active.version

(* A sequential rollout stops at the first node that fails, a canary       *)
(* rollout at a canary node that fails: no node after it is changed by the *)
(* operation (execute_action, halted).                                     *)
UntouchedAfterFailure ==
    [][\A i \in DOMAIN NodeIds :
          /\ op.phase = "apply" /\ op' # op /\ op' # Resting
          /\ node'[NodeIds[i]] # node[NodeIds[i]]
          => \A earlier \in 1 .. i - 1 :
                op.outcomes[earlier] = "failed" =>
                   /\ op.strategy.kind # "sequential"
                   /\ op.strategy.kind = "canary" => earlier > op.strategy.nodes]_vars

(* A fleet operation that reports convergence leaves every node of the     *)
(* request on the desired version and digest, unless somebody acted on a   *)
(* node while it ran.                                                      *)
ConvergedIsTrue ==
    op.phase = "finish" /\ ConvergenceState = "converged" /\ budget.node = op.since =>
       \A i \in DOMAIN NodeIds : node[NodeIds[i]].active = AppliedOf(op.record)

Delivery == INSTANCE SnapshotDelivery WITH
    Records <- Record, delivered <- published,
    serving <- [n \in Nodes |-> node[n].active]

(* The control plane implements SnapshotDelivery.                          *)
DeliversPublished == Delivery!Spec

(* docs/runbooks/upgrade-rollback-policy.md: a rollback goes to the prior  *)
(* known good version.  An automatic rollback reported as successful takes *)
(* the fleet off the candidate whose gate failed, when every node has run  *)
(* another version before.  TLC refutes it (fleet.rs:575).                 *)
RollbackLeavesCandidate ==
    report # None /\ report.kind = "surface" /\ report.rollback # None
       /\ report.rollback.succeeded
       /\ (\A n \in Nodes : Range(node[n].successful) \ {report.desired.version} # {})
       => report.rollback.target # report.desired

(* The registry is one story in memory, in its envelope and while it is    *)
(* rebuilt: its indexes agree and an intact envelope is restored whole.    *)
RegistrySound == RegistryConsistent /\ DurableRestoreComplete

(* What the nodes are said to run is what they run, in their own records   *)
(* and in the convergence a fleet operation reports.                       *)
NodesTruthful == TypeOK /\ LastKnownGoodIsActive /\ ActiveIsLastSuccess /\ ConvergedIsTrue
=============================================================================
