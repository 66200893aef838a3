----------------------------- MODULE Discovery -----------------------------
(***************************************************************************)
(* DiscoveryMembershipReconciler (crates/runtime/src/discovery.rs) on one  *)
(* upstream cluster: several discovery sources advertise endpoints, and    *)
(* each snapshot of a source is merged into the registry of endpoints that *)
(* serve.                                                                  *)
(*                                                                         *)
(* A snapshot maps endpoint ids to definitions (address, zone, locality    *)
(* and weight are one value; Bad is a definition that the conversion to an *)
(* endpoint refuses).  A reconcile call touches the registry once per      *)
(* endpoint, and every touch takes the registry's lock on its own, so a    *)
(* configuration reload can remove the cluster between two of them: a call *)
(* is one step per endpoint.                                               *)
(***************************************************************************)
EXTENDS Integers, FiniteSets, FiniteSetsExt, Functions

CONSTANTS
    Sources,      \* discovery sources of the cluster, as numbers: the order of the map
    Ids,          \* endpoint ids, as numbers: the order of the maps
    Definitions,  \* what a source may say of an endpoint
    Bad,          \* a definition that into_upstream_endpoint refuses
    DrainGrace,
    MaxNow,       \* bound on the clock
    NoCall,
    Absent        \* the registry has no such cluster

(* Partial functions from endpoint ids: the code's maps.                   *)
Maps(R) == UNION {[S -> R] : S \in SUBSET Ids}

Registries == Maps([def : Definitions, state : {"ready", "draining"}])

Calls ==
    [source : Sources, generation : Nat, endpoints : Maps(Definitions),
     changed : SUBSET Ids, removed : SUBSET Ids, activated : SUBSET Ids, draining : SUBSET Ids]

(* Names are compared as the numbers that stand for them.                  *)
ASSUME DiscoveryAssumption ==
    /\ Sources \subseteq Nat /\ Ids \subseteq Nat
    /\ DrainGrace \in Nat /\ MaxNow \in Nat
    /\ Absent \notin Registries /\ NoCall \notin Calls

VARIABLES
    members,      \* active_endpoints_by_source
    applied,      \* applied_generations, -1 for none
    deadlines,    \* draining_deadlines
    lifecycle,    \* endpoint_lifecycle
    registry,     \* endpoints of the cluster in UpstreamHealthRegistry, or Absent
    now,
    call,         \* the reconcile call in progress
    outcome,      \* how the last call ended
    received,     \* the snapshots delivered so far, by source and generation
    disturbed     \* the cluster was missing at some time

discoveryVars == <<members, applied, deadlines, lifecycle, registry, now, call,
                   outcome, received, disturbed>>

Empty == [i \in {} |-> i]
Put(f, i, x) == [j \in DOMAIN f \cup {i} |-> IF j = i THEN x ELSE f[j]]
Drop(f, S) == Restrict(f, DOMAIN f \ S)

(* The first source of the cluster is not ordered by generation            *)
(* (KubernetesEndpointSlice), the others are.                              *)
HasMonotonicGenerations(s) == s # Min(Sources)

(* The sources that advertise i besides s; the first of them is taken.     *)
OtherSources(s, i) == {t \in Sources \ {s} : i \in DOMAIN members[t]}
OtherSourceDefinition(s, i) == members[Min(OtherSources(s, i))][i]

DiscoveryInit ==
    /\ members = [s \in Sources |-> Empty]
    /\ applied = [s \in Sources |-> -1]
    /\ deadlines = Empty
    /\ lifecycle = Empty
    /\ registry = Empty
    /\ now = 0
    /\ call = NoCall
    /\ outcome = "none"
    /\ received = [s \in Sources |-> Empty]
    /\ disturbed = FALSE

----------------------------------------------------------------------------
Stale(s, g) == HasMonotonicGenerations(s) /\ g < applied[s]

(* reconcile_snapshot up to its first change: a stale generation and an    *)
(* invalid endpoint end the call before anything is touched.               *)
ReconcileSnapshot(s, g, endpoints) ==
    /\ call = NoCall
    /\ received' = [received EXCEPT ![s] = Put(@, g, endpoints)]
    /\ IF Stale(s, g) \/ Bad \in Range(endpoints)
       THEN /\ outcome' = IF Stale(s, g) THEN "stale" ELSE "invalid"
            /\ UNCHANGED call
       ELSE /\ call' = [source |-> s, generation |-> g, endpoints |-> endpoints,
                        changed |-> {i \in DOMAIN endpoints :
                                       ~(i \in DOMAIN members[s]
                                         /\ members[s][i] = endpoints[i])},
                        removed |-> DOMAIN members[s] \ DOMAIN endpoints,
                        activated |-> {}, draining |-> {}]
            /\ UNCHANGED outcome
    /\ UNCHANGED <<members, applied, deadlines, lifecycle, registry, now, disturbed>>

Fail(why) == outcome' = why /\ call' = NoCall

(* remove_endpoint (a missing one is ignored) followed by insert_endpoint. *)
Reinstall(i, d, replace, done) ==
    IF registry = Absent THEN Fail("failed") /\ UNCHANGED registry
    ELSE IF ~replace /\ i \in DOMAIN registry THEN Fail("duplicate") /\ UNCHANGED registry
    ELSE /\ registry' = Put(registry, i, [def |-> d, state |-> "ready"])
         /\ call' = done
         /\ UNCHANGED outcome

InRegistry(s, i) ==
    i \in DOMAIN deadlines \/ i \in DOMAIN members[s] \/ OtherSources(s, i) # {}

(* One endpoint that is new or changed in the snapshot.                    *)
ChangeEndpoint ==
    /\ call # NoCall /\ call.changed # {}
    /\ LET i == Min(call.changed)
           s == call.source
           d == call.endpoints[i]
           next == [call EXCEPT !.changed = @ \ {i}]
       IN /\ deadlines' = Drop(deadlines, {i})
          /\ IF /\ OtherSources(s, i) # {} /\ OtherSourceDefinition(s, i) = d
                /\ i \notin DOMAIN deadlines /\ i \notin DOMAIN members[s]
             THEN call' = next /\ UNCHANGED <<registry, outcome>>
             ELSE Reinstall(i, d, InRegistry(s, i), [next EXCEPT !.activated = @ \cup {i}])
    /\ UNCHANGED <<members, applied, lifecycle, now, received, disturbed>>

MutantDrainsShared ==
    /\ call # NoCall /\ call.changed = {} /\ call.removed # {}
    /\ LET i == Min(call.removed)
       IN /\ call' = [call EXCEPT !.removed = @ \ {i}, !.draining = @ \cup {i}]
          /\ registry' = IF registry # Absent /\ i \in DOMAIN registry
                         THEN [registry EXCEPT ![i].state = "draining"] ELSE registry
          /\ deadlines' = Put(deadlines, i, now + DrainGrace)
    /\ UNCHANGED <<members, applied, lifecycle, now, received, disturbed, outcome>>

(* One endpoint that the snapshot no longer lists: it adopts the           *)
(* definition of another source, or starts to drain.                       *)
RemoveEndpoint ==
    /\ call # NoCall /\ call.changed = {} /\ call.removed # {}
    /\ LET i == Min(call.removed)
           s == call.source
           next == [call EXCEPT !.removed = @ \ {i}]
       IN IF OtherSources(s, i) # {}
          THEN /\ IF OtherSourceDefinition(s, i) # members[s][i]
                  THEN Reinstall(i, OtherSourceDefinition(s, i), TRUE,
                                 [next EXCEPT !.activated = @ \cup {i}])
                  ELSE call' = next /\ UNCHANGED <<registry, outcome>>
               /\ UNCHANGED deadlines
          ELSE /\ call' = [next EXCEPT !.draining = @ \cup {i}]
               /\ registry' = IF registry # Absent /\ i \in DOMAIN registry
                              THEN [registry EXCEPT ![i].state = "draining"] ELSE registry
               /\ deadlines' = Put(deadlines, i, now + DrainGrace)
               /\ UNCHANGED outcome
    /\ UNCHANGED <<members, applied, lifecycle, now, received, disturbed>>

(* LifecycleStateMachine::start_draining, and force_remove on an error.    *)
StartDraining(state) == IF state = "active" THEN "draining" ELSE "removed"

(* record_endpoint_activated for what was installed, then                  *)
(* record_endpoint_draining for what was withdrawn.                        *)
RecordLifecycle(activated, draining) ==
    [i \in DOMAIN lifecycle \cup activated \cup draining |->
        IF i \in draining
        THEN StartDraining(IF i \in DOMAIN lifecycle \ activated THEN lifecycle[i] ELSE "active")
        ELSE IF i \in activated THEN "active" ELSE lifecycle[i]]

(* record_endpoint_drained and record_endpoint_removed.                    *)
RecordRemoved(expired) == Drop(lifecycle, expired)

(* The end of reconcile_snapshot: memberships, generation and lifecycles.  *)
FinishReconcile ==
    /\ call # NoCall /\ call.changed = {} /\ call.removed = {}
    /\ members' = [members EXCEPT ![call.source] = call.endpoints]
    /\ applied' = [applied EXCEPT ![call.source] = call.generation]
    /\ lifecycle' = RecordLifecycle(call.activated, call.draining)
    /\ call' = NoCall
    /\ outcome' = "applied"
    /\ UNCHANGED <<deadlines, registry, now, received, disturbed>>

Expired(t) == {i \in DOMAIN deadlines : deadlines[i] <= t}

(* advance_time: what has drained long enough leaves the registry and the  *)
(* lifecycle table.                                                        *)
AdvanceTime ==
    /\ call = NoCall
    /\ now < MaxNow
    /\ now' = now + 1
    /\ deadlines' = Drop(deadlines, Expired(now'))
    /\ lifecycle' = RecordRemoved(Expired(now'))
    /\ registry' = IF registry = Absent THEN Absent ELSE Drop(registry, Expired(now'))
    /\ UNCHANGED <<members, applied, call, outcome, received, disturbed>>

(* A configuration reload removes the cluster and adds it again, empty.    *)
RemoveCluster ==
    /\ registry # Absent
    /\ registry' = Absent
    /\ disturbed' = TRUE
    /\ UNCHANGED <<members, applied, deadlines, lifecycle, now, call, outcome, received>>

InsertCluster ==
    /\ registry = Absent
    /\ registry' = Empty
    /\ UNCHANGED <<members, applied, deadlines, lifecycle, now, call, outcome,
                   received, disturbed>>

Continue == ChangeEndpoint \/ RemoveEndpoint \/ FinishReconcile

(* A source that counts its generations publishes one content under each   *)
(* of them; they may arrive in any order and more than once.               *)
Deliver(s, g, endpoints) ==
    /\ (HasMonotonicGenerations(s) /\ g \in DOMAIN received[s]) => received[s][g] = endpoints
    /\ ReconcileSnapshot(s, g, endpoints)

DiscoveryNext ==
    \/ \E s \in Sources, g \in Nat, endpoints \in Maps(Definitions) : Deliver(s, g, endpoints)
    \/ Continue
    \/ AdvanceTime
    \/ RemoveCluster \/ InsertCluster

DiscoverySpec == DiscoveryInit /\ [][DiscoveryNext]_discoveryVars

----------------------------------------------------------------------------
DiscoveryTypeOK ==
    /\ \A s \in Sources : DOMAIN members[s] \subseteq Ids
    /\ DOMAIN deadlines \cup DOMAIN lifecycle \subseteq Ids
    /\ Range(lifecycle) \subseteq {"active", "draining"}
    /\ registry = Absent \/ DOMAIN registry \subseteq Ids
    /\ now \in 0..MaxNow
    /\ outcome \in {"none", "stale", "invalid", "failed", "duplicate", "applied"}

Advertised == UNION {DOMAIN members[s] : s \in Sources}

(* Between calls, the registry, the memberships, the drain deadlines and   *)
(* the lifecycle table tell one story, whatever the order in which several *)
(* sources added, changed and withdrew an endpoint (discovery.rs:302-359): *)
(* what any source advertises serves with the definition of one of them,   *)
(* and everything else that is installed drains against a deadline.        *)
OneStory ==
    (call = NoCall /\ ~disturbed) =>
        /\ DOMAIN registry = Advertised \cup DOMAIN deadlines
        /\ Advertised \cap DOMAIN deadlines = {}
        /\ \A i \in Advertised :
              /\ registry[i].state = "ready"
              /\ lifecycle[i] = "active"
              /\ \E s \in Sources : i \in DOMAIN members[s] /\ registry[i].def = members[s][i]
        /\ \A i \in DOMAIN deadlines :
              registry[i].state = "draining" /\ lifecycle[i] = "draining"
        /\ DOMAIN lifecycle = DOMAIN registry

(* "an endpoint that reappears during its drain window is reactivated      *)
(* instead of failing the update" (docs/configuration.md): no update is    *)
(* ever refused because the endpoint is already installed, and one fails   *)
(* only when the cluster itself is missing.                                *)
UpdatesSucceed ==
    /\ outcome # "duplicate"
    /\ outcome = "failed" => disturbed

(* "Out-of-order delivery must never resurrect endpoints removed by a      *)
(* newer generation" (discovery.rs:270): for a source with ordered         *)
(* generations the memberships are those of the newest valid generation    *)
(* received, in whatever order the generations came.                       *)
NewestWins ==
    (call = NoCall /\ ~disturbed) =>
        \A s \in {s \in Sources : HasMonotonicGenerations(s)} :
            LET valid == {g \in DOMAIN received[s] : Bad \notin Range(received[s][g])} IN
            valid # {} => members[s] = received[s][Max(valid)]

(* An endpoint leaves an existing cluster only after nobody advertises it  *)
(* and its drain window is over (advance_time, discovery.rs:405-435).      *)
DrainHonoured ==
    [][(registry # Absent /\ registry' # Absent) =>
         \A i \in DOMAIN registry \ DOMAIN registry' :
            /\ i \in DOMAIN deadlines /\ deadlines[i] <= now'
            /\ disturbed \/ i \notin Advertised]_discoveryVars

(* Discovery tells one story of an endpoint, with every update of every    *)
(* source applied in the order of its generations.                         *)
DiscoverySound ==
    [](DiscoveryTypeOK /\ OneStory /\ UpdatesSucceed /\ NewestWins) /\ DrainHonoured
=============================================================================
