---------------------------- MODULE MCKubernetes ----------------------------
(***************************************************************************)
(* Small instances of the Kubernetes integration.  A behaviour follows one *)
(* of three mixes: the gateway controller with its endpoint slices, the    *)
(* endpoint slices feeding the runtime's discovery next to a second        *)
(* source, or the replicas competing for the lease.                        *)
(***************************************************************************)
EXTENDS Leadership, GatewayController, Discovery, TLC

CONSTANTS
    d1, d2,         \* definitions of an endpoint
    Mixes           \* how often each kind of step may happen

VARIABLES
    feed,           \* what the second discovery source publishes, by generation
    offered,        \* per key, the newest generation offered since it was popped
    handled,        \* per service, in how many handled entries it occurred
    budget

allVars == <<vars, ctlVars, sliceVars, discoveryVars, feed, offered, handled, budget>>

----------------------------------------------------------------------------
Pair(a, b) == [i \in {j \in {1, 2} : <<a, b>>[j] # "no"} |-> <<a, b>>[i]]

MCDefinitions == {d1, d2, Bad}

MCFeeds ==
    {<<Pair(d1, d1), Pair("no", Bad), Pair(d2, "no")>>,
     <<Pair(d1, "no"), Pair("no", "no"), Pair(d2, d1)>>}

Slice(service, generation, endpoints) ==
    [service |-> service, generation |-> generation, malformed |-> FALSE,
     endpoints |-> endpoints]
Usable(a) == [address |-> a, usable |-> TRUE]
Unusable(a) == [address |-> a, usable |-> FALSE]

MCSlices ==
    {Slice("s1", 1, [i \in {1} |-> Usable(d1)]),
     Slice("s1", 2, [i \in {1, 2} |-> IF i = 1 THEN Unusable(d1) ELSE Usable(d2)]),
     Slice("s1", 3, [i \in {1} |-> Usable(d2)]),
     [Slice("s1", 4, [i \in {} |-> i]) EXCEPT !.malformed = TRUE]}

Parent(g, section) == [foreign |-> FALSE, gateway |-> g, section |-> section]
Rule(matches, service) ==
    [matches |-> matches, backends |-> <<[service |-> service, port |-> 80]>>]
Route(parents, rules) == [hostnames |-> FALSE, parents |-> parents, rules |-> rules]
Service(endpoints) == [ports |-> {80}, endpoints |-> endpoints]

MCEmptyResources ==
    [classes |-> [x \in {} |-> x], gateways |-> [x \in {} |-> x],
     routes |-> [x \in {} |-> x], services |-> [x \in {} |-> x]]

OneRoute(endpoints) ==
    [classes  |-> [x \in {"c1"} |-> "supported"],
     gateways |-> [x \in {"g1"} |-> [class |-> "c1",
                                     listeners |-> [l \in {"a", "b"} |-> "http"]]],
     routes   |-> [x \in {"h1"} |-> Route(<<Parent("g1", "a")>>, <<Rule(<<"/x">>, "s1")>>)],
     services |-> [x \in {"s1"} |-> Service(endpoints)]]

(* A second route without parents, which is left out of the translation.   *)
WithOrphan ==
    [OneRoute({[id |-> 1, address |-> d1]}) EXCEPT
        !.routes = @ @@ [x \in {"h2"} |-> Route(<<>>, <<Rule(<<"/y">>, "s2")>>)],
        !.services = @ @@ [x \in {"s2"} |-> Service({[id |-> 1, address |-> d2]})]]

TwoRoutes ==
    [WithOrphan EXCEPT
        !.routes["h1"].parents = <<Parent("g1", "b"), Parent("g1", "a")>>,
        !.routes["h2"].parents = <<Parent("g1", "b")>>]

BadReference == [OneRoute({}) EXCEPT !.routes["h1"].parents = <<Parent("g1", "c")>>]
BadRule == [OneRoute({}) EXCEPT !.routes["h1"].rules = <<Rule(<<"">>, "s1")>>]
BadListener == [OneRoute({}) EXCEPT !.gateways["g1"].listeners["a"] = "https"]
TwiceAttached ==
    [WithOrphan EXCEPT !.routes["h1"].parents = <<Parent("g1", "a"), Parent("g1", "a")>>]

MCMixes ==
    {[part |-> "controller", submits |-> 2, slices |-> 0, failures |-> 1, flips |-> 1,
      candidates |-> 0, keys |-> Keys,
      resources |-> {WithOrphan, TwoRoutes, BadReference, BadListener, TwiceAttached}],
     [part |-> "controller", submits |-> 3, slices |-> 0, failures |-> 1, flips |-> 0,
      candidates |-> 0, keys |-> {1}, resources |-> {WithOrphan, BadRule}],
     [part |-> "controller", submits |-> 1, slices |-> 3, failures |-> 1, flips |-> 0,
      candidates |-> 1, keys |-> {1}, resources |-> {OneRoute({})}],
     [part |-> "discovery", slices |-> 2, deliveries |-> 4, reloads |-> 0],
     [part |-> "discovery", slices |-> 1, deliveries |-> 3, reloads |-> 1],
     [part |-> "leadership", shutdowns |-> 2]}

----------------------------------------------------------------------------
Use(kind) == budget[kind] > 0 /\ budget' = [budget EXCEPT ![kind] = @ - 1]

MCInit ==
    /\ Init /\ InitController /\ InitSlices /\ DiscoveryInit
    /\ budget \in Mixes
    /\ feed \in IF budget.part = "discovery" THEN MCFeeds ELSE {<<>>}
    /\ offered = [k \in Keys |-> 0]
    /\ handled = [s \in {"s1", "s2"} |-> 0]

OnlyLeadership ==
    /\ budget.part = "leadership"
    /\ UNCHANGED <<ctlVars, sliceVars, discoveryVars, feed, offered, handled>>

LeaseAges == OnlyLeadership /\ Tick /\ UNCHANGED budget
ReplicaSteps(r) == OnlyLeadership /\ Step(r) /\ UNCHANGED budget
Shutdown == OnlyLeadership /\ Use("shutdowns") /\ \E r \in Replicas : BeginRelinquish(r)

SliceUpdate ==
    /\ Use("slices")
    /\ \E n \in {1, 2} : DeleteSlice(n) \/ \E slice \in MCSlices : UpsertSlice(n, slice)
    /\ UNCHANGED <<vars, ctlVars, discoveryVars, feed, offered, handled>>

Submit ==
    /\ Use("submits")
    /\ \E k \in budget.keys, g \in 1..2, r \in budget.resources :
          /\ SubmitReconcile(k, r, g)
          /\ offered' = [offered EXCEPT ![k] = Max({@, g})]
    /\ UNCHANGED sliceVars
    /\ UNCHANGED handled

Drive ==
    /\ DriveOnce
    /\ offered' = [k \in Keys |-> IF k \in Due THEN 0 ELSE offered[k]]
    /\ UNCHANGED <<sliceVars, handled, budget>>

Reconcile ==
    /\ \E failure \in {"none", "publish", "rollout"} :
          /\ ReconcileEntry(failure)
          /\ IF failure = "none" THEN UNCHANGED budget ELSE Use("failures")
          /\ offered' = [offered EXCEPT ![Head(driving).key] =
                            IF failure = "none" THEN @ ELSE Head(driving).generation]
    /\ handled' = [s \in DOMAIN handled |->
                     IF s \in DOMAIN Head(driving).resources.services /\ handled[s] < 2
                     THEN handled[s] + 1 ELSE handled[s]]

Candidate ==
    /\ Use("candidates")
    /\ \E failure \in {"none", "publish"} : PublishCandidate(failure)
    /\ UNCHANGED <<offered, handled>>

Lose == Use("flips") /\ SetLeading(FALSE) /\ UNCHANGED <<sliceVars, offered, handled>>
Gain == SetLeading(TRUE) /\ UNCHANGED <<sliceVars, offered, handled, budget>>
Wait == PassTime /\ UNCHANGED <<sliceVars, offered, handled, budget>>

OnlyController == budget.part = "controller" /\ UNCHANGED <<vars, discoveryVars, feed>>

ControllerInput == OnlyController /\ (Submit \/ Candidate \/ Lose)
ControllerWork == OnlyController /\ (Drive \/ Reconcile \/ Gain \/ Wait)

DeliverSlices ==
    /\ SlicesOf("s1") # {}
    /\ Deliver(1, DiscoverySnapshot("s1").generation, DiscoverySnapshot("s1").endpoints)

DiscoveryStep ==
    /\ budget.part = "discovery"
    /\ \/ Use("deliveries") /\ DeliverSlices
       \/ Use("deliveries") /\ \E g \in DOMAIN feed : Deliver(2, g, feed[g])
       \/ Continue /\ UNCHANGED budget
       \/ AdvanceTime /\ UNCHANGED budget
       \/ Use("reloads") /\ RemoveCluster
       \/ InsertCluster /\ UNCHANGED budget
    /\ UNCHANGED <<vars, ctlVars, sliceVars, feed, offered, handled>>

MCNext ==
    \/ LeaseAges
    \/ \E r \in Replicas : ReplicaSteps(r)
    \/ Shutdown
    \/ ControllerInput
    \/ ControllerWork
    \/ DiscoveryStep
    \/ /\ budget.part # "leadership"
       /\ driving = <<>> /\ call = NoCall
       /\ SliceUpdate

(* Replicas keep evaluating the lease, the runtime is driven while time    *)
(* passes, and leadership comes back.                                      *)
MCSpec ==
    /\ MCInit /\ [][MCNext]_allVars
    /\ \A r \in Replicas : WF_allVars(ReplicaSteps(r))
    /\ WF_allVars(LeaseAges)
    /\ WF_allVars(ControllerWork)

----------------------------------------------------------------------------
(* The queue never gives up a newer generation for an older one, whether   *)
(* the older one is a late submission or a retry (enqueue, main.rs:298).   *)
NewestQueued == \A k \in DOMAIN queue : queue[k].generation = offered[k]

(* An accepted slice update is never dropped before the first reconcile of *)
(* its service: once the service is no longer pending, the pipeline's      *)
(* resources carry the usable endpoints of all its slices (flush_into,     *)
(* endpoint_slices.rs:194).  A second entry for the service brings its own *)
(* endpoints and is not covered.                                           *)
SlicesMerged ==
    driving = <<>> =>
        \A s \in DOMAIN resources.services \ pending :
            (handled[s] = 1 /\ SlicesOf(s) # {}) =>
                resources.services[s].endpoints = FlushedEndpoints(s)

(* Whatever was submitted is reconciled to a verdict once the backend      *)
(* stops failing and leadership is back (drive_once, main.rs:576).         *)
Converges ==
    (budget.part = "controller" /\ DOMAIN queue # {}) ~>
        (DOMAIN queue = {} /\ driving = <<>> /\ status.state \in {"ready", "invalid"})

(* A replica that was fenced can lead again: leadership never ends with    *)
(* everybody lost or standing by (evaluate, main.rs:464-481).              *)
SomeoneLeads ==
    (budget.part = "leadership") => []<>(\E r \in Replicas : state[r] = "leader")

(* What the controller reports and publishes is what was asked of it last, *)
(* over retries, late submissions and slice updates: a ready status names  *)
(* the active snapshot, the snapshot is closed under its references, the   *)
(* newest generation stays queued and accepted slices are merged.          *)
ControllerSound ==
    ControllerTypeOK /\ ReadyIsActive /\ ActiveIsClosed /\ NewestQueued /\ SlicesMerged

(* The controller gets its work done and some replica leads again.         *)
WorkDone == Converges /\ SomeoneLeads
=============================================================================
