-------------------------- MODULE ListenerAdmission --------------------------
(* Admission of connections by one listener (listener_runtime.rs, http3.rs,  *)
(* source_guards.rs, proxy_protocol.rs, overload.rs, and the in-place update *)
(* in supervisor.rs).  Each accepted connection is a task; a step ends where *)
(* the task awaits or where another thread can see a half-done update.       *)
(*                                                                           *)
(* The abuse protection sits behind a fair lock: a waiting writer stops new  *)
(* readers.  Most reads take the lock and give it back in one step; the      *)
(* tasks in HoldingPhases keep it across an await.                           *)
EXTENDS Naturals, Sequences, FiniteSets, Functions

----------------------------------------------------------------------------
(* The overload manager of one listener (overload_management.rs): signal    *)
(* samples in a sliding window, the state they classify to, the brownout    *)
(* features that state disables, and the shedding decision.  A manager is   *)
(* a record; the operators are the calls on it at time now.                 *)
CONSTANTS
    SignalWindow,   \* OverloadPolicy::signal_window
    Thresholds,     \* <<constrained, shedding, brownout>> signal thresholds
    Features        \* brownout feature -> the traffic class it belongs to

OverloadStates == <<"normal", "constrained", "shedding", "brownout">>

TrafficClasses == {"critical", "default", "best_effort"}

(* OverloadPolicy::validate *)
ValidOverloadPolicy ==
    /\ SignalWindow > 0
    /\ \A i \in 1..3 : Thresholds[i] > 0
    /\ Thresholds[1] <= Thresholds[2] /\ Thresholds[2] <= Thresholds[3]

NewManager == [state |-> "normal", samples |-> <<>>, disabled |-> {}]

(* classify_state: the thresholds are ordered, so the state is as high as   *)
(* the number of thresholds the count has reached.                          *)
ClassifyState(count) ==
    OverloadStates[1 + Cardinality({i \in 1..3 : count >= Thresholds[i]})]

ShouldDisable(state, class) ==
    \/ state = "shedding" /\ class = "best_effort"
    \/ state = "brownout" /\ class # "critical"

DisabledFor(state) == {f \in DOMAIN Features : ShouldDisable(state, Features[f])}

(* evict_old_samples: pops from the front while the sample is old.          *)
Evicted(samples, now) ==
    LET young == {i \in 1..Len(samples) : now - samples[i].at < SignalWindow}
        first == CHOOSE i \in 1..(Len(samples) + 1) :
                    /\ i \in young \cup {Len(samples) + 1}
                    /\ \A j \in young : i <= j
    IN SubSeq(samples, first, Len(samples))

ActiveCount(samples) == SumFunction([i \in DOMAIN samples |-> Cardinality(samples[i].kinds)])

(* record_signal *)
RecordSignal(m, now, kinds) ==
    LET samples == Evicted(Append(m.samples, [at |-> now, kinds |-> kinds]), now)
        state == ClassifyState(ActiveCount(samples))
    IN [state |-> state, samples |-> samples, disabled |-> DisabledFor(state)]

(* snapshot and metrics: old samples go, the state is not classified anew.  *)
Observe(m, now) == [m EXCEPT !.samples = Evicted(@, now)]

(* decide *)
Sheds(m, class) ==
    \/ m.state = "constrained" /\ class = "best_effort"
    \/ m.state \in {"shedding", "brownout"} /\ class # "critical"

----------------------------------------------------------------------------
CONSTANTS
    Connections,
    Peers,          \* peer address of each connection
    Aggregation,    \* SourceAggregation of the source quota
    ListenerSpecs,  \* the limits a listener may be started with or updated to
    Prefaces        \* what a peer may send before its own bytes

VARIABLES
    listener,   \* kind, tls, proxy protocol mode, lifecycle state
    limit,      \* admission_limit
    counters,   \* ListenerRuntimeCounters
    manager,    \* overload_runtime: none, or one overload manager
    policy,     \* abuse_policy: the limits /status and /readyz report
    guards,     \* abuse_protection states of this listener, the last in force
    update,     \* the in-place update in progress
    conn,       \* the task of each connection
    now

admissionVars == <<listener, limit, counters, manager, policy, guards, update, conn, now>>

NoManager == [state |-> "none", samples |-> <<>>, disabled |-> {}]

NoQuota == [perSource |-> 0, tracked |-> 0]

(* Limits as validate_hostile_edge_policy lets them pass: a quota that is    *)
(* configured has no zero in it.                                             *)
ASSUME AdmissionAssumption ==
    /\ IsFiniteSet(Connections)
    /\ \A spec \in ListenerSpecs :
          /\ spec.limit \in Nat
          /\ spec.quota \in {NoQuota} \cup [perSource : Nat \ {0}, tracked : Nat \ {0}]
          /\ spec.handshakes \in Nat

-----------------------------------------------------------------------------
(* Addresses <<family, network, host>>; a mapped address is IPv4 written as  *)
(* IPv6.  normalize_source_key: aggregation drops the host of its family.    *)
SourceKey(ip) ==
    LET family == IF ip[1] = "mapped" THEN "v4" ELSE ip[1] IN
    IF (Aggregation = "ipv4_subnet24" /\ family = "v4") \/ (Aggregation = "ipv6_subnet64" /\ family = "v6")
    THEN <<family, ip[2]>> ELSE <<family, ip[2], ip[3]>>

(* The PROXY protocol readers and parsers.  A preface is what the peer sends *)
(* before its own bytes; it names a source, or no source, or is malformed.   *)
PrefaceSource(mode, preface, peer) ==
    IF mode = "disabled" THEN peer
    ELSE IF preface.version # mode \/ ~preface.wellFormed THEN "error"
    ELSE IF preface.command = "local" \/ preface.transport = "unknown" THEN peer
    ELSE IF preface.transport \in {"tcp4", "tcp6"} THEN preface.source
    ELSE "error"

-----------------------------------------------------------------------------
(* One ListenerAbuseProtectionState: the leases per source, the handshakes   *)
(* in flight and the reasons it has rejected for.                            *)
NewGuard(spec) ==
    [quota |-> spec.quota, handshakes |-> spec.handshakes,
     bySource |-> <<>>, inflight |-> 0, rejected |-> {}]

(* SourceQuotaTracker::try_acquire *)
SourceVerdict(g, key) ==
    IF g.quota = NoQuota THEN "unlimited"
    ELSE IF key \in DOMAIN g.bySource
         THEN IF g.bySource[key] >= g.quota.perSource THEN "source_quota_exceeded" ELSE "leased"
         ELSE IF Cardinality(DOMAIN g.bySource) >= g.quota.tracked
              THEN "tracked_source_limit_reached" ELSE "leased"

Leased(g, key) ==
    LET leases == IF key \in DOMAIN g.bySource THEN g.bySource[key] ELSE 0
    IN  [g EXCEPT !.bySource = [k \in DOMAIN g.bySource \cup {key} |->
                                   IF k = key THEN leases + 1 ELSE g.bySource[k]]]

(* SourceQuotaTracker::release: a source without leases is forgotten.        *)
Unleased(g, key) ==
    LET table == g.bySource
    IN  [g EXCEPT !.bySource = IF table[key] = 1 THEN Restrict(table, DOMAIN table \ {key})
                                                 ELSE [table EXCEPT ![key] = @ - 1]]

Rejected(g, reason) == [g EXCEPT !.rejected = @ \cup {reason}]

InForce == Len(guards)

(* Dropping a task's lease and permit gives them back to the state that      *)
(* granted them, which an update may have replaced meanwhile.                *)
DropLease(gs, c) ==
    IF conn[c].lease = 0 THEN gs
    ELSE [gs EXCEPT ![conn[c].lease] = Unleased(@, SourceKey(conn[c].source))]

DropPermit(gs, c) ==
    IF conn[c].permit = 0 THEN gs ELSE [gs EXCEPT ![conn[c].permit].inflight = @ - 1]

(* All tasks dropped at once: what a guard is left with.                     *)
LeaseHolders(i, key) == {c \in Connections : conn[c].lease = i /\ SourceKey(conn[c].source) = key}

PermitHolders(i) == {c \in Connections : conn[c].permit = i}

AllDropped(g, i) ==
    [g EXCEPT !.bySource = [key \in {k \in DOMAIN @ : @[k] > Cardinality(LeaseHolders(i, k))} |->
                               @[key] - Cardinality(LeaseHolders(i, key))],
              !.inflight = @ - Cardinality(PermitHolders(i))]

-----------------------------------------------------------------------------
(* snapshot_listener_overload: with a manager its state, otherwise whether   *)
(* the listener is full.                                                     *)
OverloadSeen(active, shed) ==
    IF manager # NoManager
    THEN (IF shed THEN RecordSignal(manager, now, {"concurrency_limited"}) ELSE Observe(manager, now)).state
    ELSE IF active >= limit THEN "shedding" ELSE "normal"

ManagerAfter(shed) ==
    IF manager = NoManager THEN manager
    ELSE IF shed THEN RecordSignal(manager, now, {"concurrency_limited"}) ELSE Observe(manager, now)

(* snapshot_listener_overload_status *)
OverloadReported == IF manager # NoManager THEN manager.state ELSE counters.overload

(* ListenerAbuseProtectionStatus::from_runtime: saturation by the reported   *)
(* policy against the counts of the state in force.                          *)
AbuseReasons ==
    LET g == guards[InForce] IN
    g.rejected
      \cup (IF policy.quota # NoQuota /\ Cardinality(DOMAIN g.bySource) >= policy.quota.tracked
            THEN {"tracked_source_capacity_saturated"} ELSE {})
      \cup (IF policy.handshakes > 0 /\ g.inflight >= policy.handshakes
            THEN {"handshake_guard_saturated"} ELSE {})

(* reduce_listener_readiness *)
NotReadyReasons ==
    (CASE listener.state = "running" -> {}
       [] listener.state = "draining" -> {"listener_draining"}
       [] OTHER -> {"listener_not_running"})
      \cup ({OverloadReported} \cap {"shedding", "brownout"})
      \cup (AbuseReasons \cap {"tracked_source_capacity_saturated", "handshake_guard_saturated"})

-----------------------------------------------------------------------------
Idle == [phase |-> "idle", source |-> <<>>, lease |-> 0, permit |-> 0,
         slot |-> FALSE, seen |-> <<>>, sync |-> "none"]

(* start_managed_listener *)
StartListener(kind, tls, mode, spec) ==
    /\ listener = [kind |-> kind, tls |-> tls, mode |-> mode, state |-> "running"]
    /\ limit = spec.limit
    /\ counters = [accepted |-> 0, active |-> 0, shed |-> 0, completed |-> 0, overload |-> "normal"]
    /\ manager = IF spec.managed THEN NewManager ELSE NoManager
    /\ policy = [quota |-> spec.quota, handshakes |-> spec.handshakes]
    /\ guards = <<NewGuard(spec)>>
    /\ update = [pc |-> "none"]
    /\ conn = [c \in Connections |-> Idle]
    /\ now = 0

WriterWaiting == update.pc = "protection"

HoldingPhases == {"rejected", "answering"}

(* The admin listener admits in its accept loop, one connection at a time.   *)
LoopPhases == {"source", "handshake", "slot", "cas"} \cup HoldingPhases

LoopBusy == listener.kind # "public" /\ \E c \in Connections :
                conn[c].phase \in (IF listener.kind = "admin" THEN LoopPhases ELSE {"slot", "cas"})

Move(c, phase) == conn' = [conn EXCEPT ![c].phase = phase]

FirstPhase ==
    CASE listener.kind = "public" -> "preface"
      [] listener.kind = "admin" -> "source"
      [] listener.kind = "http3" -> "slot"

(* accept: the public loop spawns the task at once, HTTP/3 counts and takes  *)
(* a slot first.                                                             *)
Accept(c) ==
    /\ conn[c].phase = "idle" /\ listener.state = "running" /\ ~LoopBusy
    /\ conn' = [conn EXCEPT ![c].source = Peers[c], ![c].phase = FirstPhase]
    /\ counters' = IF listener.kind = "http3" THEN [counters EXCEPT !.accepted = @ + 1] ELSE counters
    /\ UNCHANGED <<listener, limit, manager, policy, guards, update, now>>

(* resolve_downstream_addr_from_proxy_protocol; the reader has a deadline.   *)
ReadPreface(c, preface) ==
    /\ conn[c].phase = "preface"
    /\ LET source == PrefaceSource(listener.mode, preface, Peers[c]) IN
       conn' = IF source = "error" THEN [conn EXCEPT ![c] = [Idle EXCEPT !.phase = "done"]]
               ELSE [conn EXCEPT ![c].source = source, ![c].phase = "source"]
    /\ UNCHANGED <<listener, limit, counters, manager, policy, guards, update, now>>

(* try_acquire_source under the read lock.  A rejected TCP task keeps the    *)
(* lock; the HTTP/3 task gives it back and ends the connection.              *)
AcquireSource(c) ==
    /\ conn[c].phase = "source" /\ ~WriterWaiting
    /\ LET g == guards[InForce]
           key == SourceKey(conn[c].source)
           verdict == SourceVerdict(g, key)
           http3 == listener.kind = "http3"
       IN \/ /\ verdict = "unlimited"
             /\ UNCHANGED guards
             /\ Move(c, IF http3 THEN "serving" ELSE "handshake")
          \/ /\ verdict = "leased"
             /\ guards' = [guards EXCEPT ![InForce] = Leased(@, key)]
             /\ conn' = [conn EXCEPT ![c].lease = InForce,
                                     ![c].phase = IF http3 THEN "serving" ELSE "handshake"]
          \/ /\ verdict \notin {"unlimited", "leased"}
             /\ guards' = [guards EXCEPT ![InForce] = Rejected(@, verdict)]
             /\ Move(c, IF http3 THEN "finished" ELSE "rejected")
    /\ UNCHANGED <<listener, limit, counters, manager, policy, update, now>>

(* try_acquire_handshake under the read lock; without TLS the permit goes    *)
(* back at once.                                                             *)
AcquireHandshake(c) ==
    /\ conn[c].phase = "handshake" /\ ~WriterWaiting
    /\ LET g == guards[InForce] IN
       \/ /\ g.handshakes > 0 /\ g.inflight >= g.handshakes
          /\ guards' = [DropLease(guards, c) EXCEPT ![InForce] = Rejected(@, "handshake_limit_reached")]
          /\ conn' = [conn EXCEPT ![c].lease = 0, ![c].phase = "rejected"]
          /\ UNCHANGED counters
       \/ /\ g.handshakes = 0 \/ g.inflight < g.handshakes
          /\ LET keeps == g.handshakes > 0 /\ listener.tls IN
             /\ guards' = IF keeps THEN [guards EXCEPT ![InForce].inflight = @ + 1] ELSE guards
             /\ conn' = [conn EXCEPT ![c].permit = IF keeps THEN InForce ELSE 0, ![c].phase = "slot"]
          /\ counters' = [counters EXCEPT !.accepted = @ + 1]
    /\ UNCHANGED <<listener, limit, manager, policy, update, now>>

(* The rejection path: the snapshot reads the lock a second time while the   *)
(* task still holds it, then the answer is written.                          *)
SnapshotRejection(c) ==
    /\ conn[c].phase = "rejected" /\ ~WriterWaiting
    /\ Move(c, "answering")
    /\ UNCHANGED <<listener, limit, counters, manager, policy, guards, update, now>>

AnswerRejection(c) ==
    /\ conn[c].phase = "answering"
    /\ Move(c, "done")
    /\ UNCHANGED <<listener, limit, counters, manager, policy, guards, update, now>>

(* try_acquire_listener_slot: two loads, then a compare-and-exchange that    *)
(* starts over when the count has moved.                                     *)
LoadSlot(c) ==
    /\ conn[c].phase = "slot"
    /\ conn' = [conn EXCEPT ![c].seen = <<counters.active, limit>>, ![c].phase = "cas"]
    /\ UNCHANGED <<listener, limit, counters, manager, policy, guards, update, now>>

SlotTaken(c) ==
    /\ conn[c].seen[1] < conn[c].seen[2] /\ counters.active = conn[c].seen[1]
    /\ counters' = [counters EXCEPT !.active = @ + 1]
    /\ conn' = [conn EXCEPT ![c].slot = TRUE, ![c].phase = "admitted",
                            ![c].sync = OverloadSeen(counters.active + 1, FALSE)]
    /\ manager' = ManagerAfter(FALSE)
    /\ UNCHANGED guards

MutantSlotMoved(c) ==
    /\ conn[c].seen[1] < conn[c].seen[2] /\ counters.active # conn[c].seen[1]
    /\ Move(c, "cas")
    /\ UNCHANGED <<counters, manager, guards>>

SlotMoved(c) ==
    /\ conn[c].seen[1] < conn[c].seen[2] /\ counters.active # conn[c].seen[1]
    /\ Move(c, "slot")
    /\ UNCHANGED <<counters, manager, guards>>

(* Shed: lease and permit are dropped, the shed is counted and signalled.    *)
SlotRefused(c) ==
    /\ conn[c].seen[1] >= conn[c].seen[2]
    /\ guards' = DropPermit(DropLease(guards, c), c)
    /\ counters' = [counters EXCEPT !.shed = @ + 1]
    /\ conn' = [conn EXCEPT ![c].lease = 0, ![c].permit = 0, ![c].phase = "shedding",
                            ![c].sync = OverloadSeen(counters.active, TRUE)]
    /\ manager' = ManagerAfter(TRUE)

ExchangeSlot(c) ==
    /\ conn[c].phase = "cas"
    /\ SlotTaken(c) \/ SlotMoved(c) \/ SlotRefused(c)
    /\ UNCHANGED <<listener, limit, policy, update, now>>

PhaseAfterStore(phase) ==
    CASE phase = "shedding" -> "done"
      [] phase = "finished" -> "closing"
      [] OTHER -> IF listener.tls THEN "securing" ELSE "serving"

(* sync_listener_overload_snapshot stores the state it computed a moment     *)
(* ago; the task goes on.                                                    *)
StoreOverload(c) ==
    /\ conn[c].phase \in {"admitted", "shedding", "finished"} /\ conn[c].sync # "none"
    /\ counters' = [counters EXCEPT !.overload = conn[c].sync]
    /\ conn' = [conn EXCEPT ![c].sync = "none", ![c].phase = PhaseAfterStore(conn[c].phase)]
    /\ UNCHANGED <<listener, limit, manager, policy, guards, update, now>>

(* The TLS or QUIC handshake succeeds or fails; either way the permit goes   *)
(* back.  The configured handshake timeout is not applied.                   *)
EndHandshake(c, succeeds) ==
    /\ conn[c].phase = "securing"
    /\ guards' = DropPermit(guards, c)
    /\ conn' = [conn EXCEPT ![c].permit = 0,
                            ![c].phase = IF ~succeeds THEN "finished"
                                         ELSE IF listener.kind = "http3" THEN "source" ELSE "serving"]
    /\ UNCHANGED <<listener, limit, counters, manager, policy, update, now>>

(* proxy_http1_connection, proxy_http2_connection or the HTTP/3 request loop *)
(* returns; the HTTP/3 lease is local to that loop and goes with it.         *)
EndServing(c) ==
    /\ conn[c].phase = "serving"
    /\ LET drops == listener.kind = "http3" IN
       /\ guards' = IF drops THEN DropLease(guards, c) ELSE guards
       /\ conn' = [conn EXCEPT ![c].phase = "finished", ![c].lease = IF drops THEN 0 ELSE @]
    /\ UNCHANGED <<listener, limit, counters, manager, policy, update, now>>

MutantReleaseSlot(c) ==
    /\ conn[c].phase = "finished" /\ conn[c].sync = "none"
    /\ counters' = [counters EXCEPT !.completed = @ + 1]
    /\ conn' = [conn EXCEPT ![c].slot = FALSE, ![c].sync = OverloadSeen(counters.active, FALSE)]
    /\ manager' = ManagerAfter(FALSE)
    /\ UNCHANGED <<listener, limit, policy, guards, update, now>>

(* The end of the task: the slot first, then the overload state is computed. *)
ReleaseSlot(c) ==
    /\ conn[c].phase = "finished" /\ conn[c].sync = "none"
    /\ counters' = [counters EXCEPT !.active = @ - 1, !.completed = @ + 1]
    /\ conn' = [conn EXCEPT ![c].slot = FALSE, ![c].sync = OverloadSeen(counters.active - 1, FALSE)]
    /\ manager' = ManagerAfter(FALSE)
    /\ UNCHANGED <<listener, limit, policy, guards, update, now>>

(* The abuse snapshot reads the lock once more; then the lease is dropped.   *)
EndTask(c) ==
    /\ conn[c].phase = "closing" /\ ~WriterWaiting
    /\ guards' = DropLease(guards, c)
    /\ conn' = [conn EXCEPT ![c].lease = 0, ![c].phase = "done"]
    /\ UNCHANGED <<listener, limit, counters, manager, policy, update, now>>

-----------------------------------------------------------------------------
(* apply_update: limit and overload manager, then the reported policy, then  *)
(* under the write lock a fresh abuse protection state.                      *)
BeginUpdate(spec) ==
    /\ update.pc = "none" /\ listener.state = "running"
    /\ limit' = spec.limit
    /\ manager' = IF spec.managed THEN NewManager ELSE NoManager
    /\ update' = [pc |-> "policy", spec |-> spec]
    /\ UNCHANGED <<listener, counters, policy, guards, conn, now>>

WritePolicy ==
    /\ update.pc = "policy"
    /\ policy' = [quota |-> update.spec.quota, handshakes |-> update.spec.handshakes]
    /\ update' = [update EXCEPT !.pc = "protection"]
    /\ UNCHANGED <<listener, limit, counters, manager, guards, conn, now>>

WriteProtection ==
    /\ update.pc = "protection"
    /\ \A c \in Connections : conn[c].phase \notin HoldingPhases
    /\ guards' = Append(guards, NewGuard(update.spec))
    /\ update' = [pc |-> "none"]
    /\ UNCHANGED <<listener, limit, counters, manager, policy, conn, now>>

-----------------------------------------------------------------------------
(* Shutdown ends the accept loop; the tasks drain until the drain timeout,   *)
(* when the loop returns and its tasks are dropped with their guards.        *)
Shutdown ==
    /\ listener.state = "running" /\ ~LoopBusy /\ update.pc = "none"
    /\ listener' = [listener EXCEPT !.state = "draining"]
    /\ UNCHANGED <<limit, counters, manager, policy, guards, update, conn, now>>

Drained ==
    /\ listener.state = "draining"
    /\ \A c \in Connections : conn[c].phase \in {"idle", "done"}
    /\ listener' = [listener EXCEPT !.state = "stopped"]
    /\ UNCHANGED <<limit, counters, manager, policy, guards, update, conn, now>>

DrainTimeout ==
    /\ listener.state = "draining"
    /\ \E c \in Connections : conn[c].phase \notin {"idle", "done"}
    /\ listener' = [listener EXCEPT !.state = "drain_timeout_expired"]
    /\ guards' = [i \in 1..InForce |-> AllDropped(guards[i], i)]
    /\ conn' = [c \in Connections |-> [Idle EXCEPT !.phase = "done"]]
    /\ UNCHANGED <<limit, counters, manager, policy, update, now>>

Tick ==
    /\ now' = now + 1
    /\ UNCHANGED <<listener, limit, counters, manager, policy, guards, update, conn>>

-----------------------------------------------------------------------------
(* The steps of an accepted connection's task.                               *)
TaskStep(c, prefaces) ==
    \/ \E p \in prefaces : ReadPreface(c, p)
    \/ AcquireSource(c) \/ AcquireHandshake(c) \/ SnapshotRejection(c) \/ AnswerRejection(c)
    \/ LoadSlot(c) \/ ExchangeSlot(c) \/ StoreOverload(c)
    \/ \E succeeds \in BOOLEAN : EndHandshake(c, succeeds)
    \/ EndServing(c) \/ ReleaseSlot(c) \/ EndTask(c)

AdmissionInit ==
    \E kind \in {"public", "admin", "http3"}, tls \in BOOLEAN,
       mode \in {"disabled", "v1", "v2"}, spec \in ListenerSpecs :
        StartListener(kind, kind = "http3" \/ tls, mode, spec)

AdmissionNext ==
    \/ \E c \in Connections : Accept(c) \/ TaskStep(c, Prefaces)
    \/ \E spec \in ListenerSpecs : BeginUpdate(spec)
    \/ WritePolicy \/ WriteProtection
    \/ Shutdown \/ Drained \/ DrainTimeout
    \/ Tick

AdmissionSpec == AdmissionInit /\ [][AdmissionNext]_admissionVars

-----------------------------------------------------------------------------
AdmissionTypeOK ==
    /\ listener.state \in {"running", "draining", "stopped", "drain_timeout_expired"}
    /\ counters \in [accepted : Nat, active : Nat, shed : Nat, completed : Nat,
                     overload : Range(OverloadStates)]
    /\ \A c \in Connections : conn[c].lease \in 0..InForce /\ conn[c].permit \in 0..InForce

(* Every slot counted in active_connections belongs to a task that will give *)
(* it back: the counter is plain arithmetic, not a guard object.             *)
SlotsHeld ==
    listener.state # "drain_timeout_expired" =>
        counters.active = Cardinality({c \in Connections : conn[c].slot})

(* The source quota and the handshake guard, also those an update replaced,  *)
(* count exactly the leases and permits that tasks hold of them and stay     *)
(* within the limits they were built with.                                   *)
GuardsCountLeases ==
    \A i \in 1..InForce :
        LET g == guards[i]
            holders == {c \in Connections : conn[c].lease = i}
        IN /\ \A key \in {SourceKey(conn[c].source) : c \in holders} \cup DOMAIN g.bySource :
                /\ key \in DOMAIN g.bySource
                /\ g.bySource[key] = Cardinality({c \in holders : SourceKey(conn[c].source) = key})
                /\ g.bySource[key] <= g.quota.perSource
           /\ Cardinality(DOMAIN g.bySource) <= g.quota.tracked
           /\ g.inflight = Cardinality({c \in Connections : conn[c].permit = i})
           /\ g.inflight <= g.handshakes

(* An accepted connection is shed, completed, holding a slot or still asking *)
(* for one: the counters /status reports add up at every moment.             *)
ConnectionsAccounted ==
    listener.state # "drain_timeout_expired" =>
        counters.accepted = counters.shed + counters.completed
            + Cardinality({c \in Connections : conn[c].slot \/ conn[c].phase \in {"slot", "cas"}})

(* With no update in progress, readiness reports a saturated guard exactly   *)
(* when that guard would turn the next new source or handshake away.         *)
SaturationTruthful ==
    update.pc = "none" =>
        LET g == guards[InForce] IN
        /\ ("tracked_source_capacity_saturated" \in NotReadyReasons) <=>
               (SourceVerdict(g, <<"a source without leases">>) = "tracked_source_limit_reached")
        /\ ("handshake_guard_saturated" \in NotReadyReasons) <=>
               (g.handshakes > 0 /\ g.inflight >= g.handshakes)

(* The features a manager disables always match the state it reports, and it *)
(* sheds a traffic class only with every class of lower priority.            *)
BrownoutCoherent ==
    manager # NoManager =>
        /\ manager.disabled = DisabledFor(manager.state)
        /\ ~Sheds(manager, "critical")
        /\ Sheds(manager, "default") => Sheds(manager, "best_effort")

(* The count of active connections grows only up to a limit that was in      *)
(* force when the admitted task looked, whatever the other tasks do between. *)
AdmittedUnderLimit ==
    [][counters'.active > counters.active =>
         \E c \in Connections : /\ ~conn[c].slot /\ conn'[c].slot
                                /\ counters'.active <= conn[c].seen[2]]_admissionVars

(* Slots, source leases and handshake permits are exactly those of the       *)
(* connections being served, and the overload state they feed is truthful.   *)
ListenerSound ==
    /\ [](AdmissionTypeOK /\ SlotsHeld /\ GuardsCountLeases /\ ConnectionsAccounted)
    /\ [](SaturationTruthful /\ BrownoutCoherent)
    /\ AdmittedUnderLimit

(* A comment in run_public_listener_loop says that a slow rejection write    *)
(* must never stall the other connections: one that waits for the source     *)
(* quota gets its verdict.                                                   *)
RejectionNeverStalls ==
    \A c \in Connections : conn[c].phase = "source" ~> conn[c].phase # "source"

=============================================================================
