-------------------------- MODULE GatewayController --------------------------
(***************************************************************************)
(* The Kubernetes gateway controller: the coalescing reconcile queue and   *)
(* ControllerRuntime::drive_once (binaries/lb-k8s-controller), the         *)
(* pipeline that merges EndpointSlices into the resources                  *)
(* (controller_pipeline.rs), the reconciler that translates, publishes and *)
(* rolls out (operator.rs), and its backend, whose publish and rollout     *)
(* calls may fail.                                                         *)
(*                                                                         *)
(* A snapshot, its digest and the version derived from it are one value:   *)
(* the translated configuration.  Every method takes the runtime by        *)
(* mutable reference, so nothing interleaves with a drive_once call; the   *)
(* entries it has popped are handled one per step.  not_before is kept as  *)
(* the time that is left.  Metrics and the event list are left out.        *)
(***************************************************************************)
EXTENDS Integers, FiniteSets, FiniteSetsExt, Functions, SequencesExt

----------------------------------------------------------------------------
(***************************************************************************)
(* EndpointSliceController (crates/k8s-integration/src/endpoint_slices.rs):*)
(* the slices known to the controller, the services whose endpoints have   *)
(* to be recomputed, and the two consumers of the slices: the resource set *)
(* of the gateway controller and the discovery snapshots of the runtime.   *)
(*                                                                         *)
(* A slice is [service, generation, malformed, endpoints]: endpoints maps  *)
(* ids to [address, usable], usable for ready, serving and not terminating.*)
(* All slices of a service use one port.  Counters are left out.           *)
(***************************************************************************)
VARIABLES
    slices,       \* slice number (the order of names) -> slice
    pending       \* pending_services

sliceVars == <<slices, pending>>

InitSlices ==
    /\ slices = [n \in {} |-> n]
    /\ pending = {}

(* upsert_slice: a malformed slice is refused, one that is not newer than  *)
(* the slice it replaces is ignored.                                       *)
AcceptsSlice(n, slice) ==
    ~slice.malformed /\ (n \in DOMAIN slices => slice.generation > slices[n].generation)

MutantUpsertNotPending(n, slice) ==
    IF AcceptsSlice(n, slice)
    THEN /\ slices' = [m \in DOMAIN slices \cup {n} |-> IF m = n THEN slice ELSE slices[m]]
         /\ pending' = IF n \in DOMAIN slices THEN pending ELSE pending \cup {slice.service}
    ELSE UNCHANGED sliceVars

UpsertSlice(n, slice) ==
    IF AcceptsSlice(n, slice)
    THEN /\ slices' = [m \in DOMAIN slices \cup {n} |-> IF m = n THEN slice ELSE slices[m]]
         /\ pending' = pending \cup {slice.service}
    ELSE UNCHANGED sliceVars

DeleteSlice(n) ==
    /\ n \in DOMAIN slices
    /\ slices' = Restrict(slices, DOMAIN slices \ {n})
    /\ pending' = pending \cup {slices[n].service}

SlicesOf(service) == {n \in DOMAIN slices : slices[n].service = service}

UsableOf(n) == {i \in DOMAIN slices[n].endpoints : slices[n].endpoints[i].usable}

(* flush_into: the services with pending updates get the usable endpoints  *)
(* of all their slices.  Two slices that list one id yield it twice.       *)
FlushedEndpoints(service) ==
    UNION {{[id |-> i, address |-> slices[n].endpoints[i].address] : i \in UsableOf(n)} :
             n \in SlicesOf(service)}

FlushInto(resources) ==
    [resources EXCEPT !.services =
        [s \in DOMAIN @ |-> IF s \in pending
                            THEN [@[s] EXCEPT !.endpoints = FlushedEndpoints(s)]
                            ELSE @[s]]]

(* build_discovery_snapshots: the newest generation of the slices of a     *)
(* service; an id in several slices is taken from the last of them.  A     *)
(* service without slices yields no snapshot.                              *)
DiscoverySnapshot(service) ==
    [generation |-> Max({slices[n].generation : n \in SlicesOf(service)}),
     endpoints  |-> [i \in UNION {UsableOf(n) : n \in SlicesOf(service)} |->
                       LET last == Max({n \in SlicesOf(service) : i \in UsableOf(n)})
                       IN slices[last].endpoints[i].address]]

----------------------------------------------------------------------------
(***************************************************************************)
(* translate_gateway_api (crates/k8s-integration/src/lib.rs) and the       *)
(* checks of the configuration compiler that its output can fail.          *)
(*                                                                         *)
(* A resource set is a record of functions from names to resources of one  *)
(* namespace; a parent reference to another namespace is marked as such.   *)
(* A listener is named by its gateway and section, a route by its          *)
(* HTTPRoute, rule and match, a cluster by service and port.  An endpoint  *)
(* is a pair of an id and the place it was learnt from, so that one id can *)
(* be listed twice.  Messages are left out: an error is the resource it    *)
(* blames and its category.                                                *)
(***************************************************************************)
TranslationError(kind, name, category) ==
    [kind |-> kind, name |-> name, category |-> category]

ControlledGateways(r) ==
    {g \in DOMAIN r.gateways :
        /\ r.gateways[g].class \in DOMAIN r.classes
        /\ r.classes[r.gateways[g].class] = "supported"}

GatewayErrors(r) ==
    {TranslationError("Gateway", g,
        IF r.gateways[g].class \in DOMAIN r.classes THEN "unsupported"
                                                    ELSE "invalid_reference") :
        g \in DOMAIN r.gateways \ ControlledGateways(r)}
    \cup {TranslationError("Gateway", g, "unsupported") :
            g \in {g \in ControlledGateways(r) :
                     \E l \in DOMAIN r.gateways[g].listeners :
                        r.gateways[g].listeners[l] # "http"}}

(* Only plain HTTP listeners without a hostname become listeners.          *)
Listeners(r) ==
    UNION {{<<g, l>> : l \in {l \in DOMAIN r.gateways[g].listeners :
                                r.gateways[g].listeners[l] = "http"}} :
             g \in ControlledGateways(r)}

AttachedParents(r, route) ==
    SelectSeq(route.parents,
              LAMBDA p : ~p.foreign /\ <<p.gateway, p.section>> \in Listeners(r))

ParentErrors(r, name) ==
    {TranslationError("HTTPRoute", name,
        IF p.foreign THEN "unsupported" ELSE "invalid_reference") :
        p \in Range(r.routes[name].parents)
                \ Range(AttachedParents(r, r.routes[name]))}

(* What is wrong with one rule; rules are only looked at when a parent is  *)
(* attached.                                                               *)
RuleProblem(r, rule) ==
    IF rule.matches = <<>> \/ rule.backends = <<>> THEN "invalid_shape"
    ELSE IF Len(rule.backends) # 1 THEN "unsupported"
    ELSE IF \/ Head(rule.backends).service \notin DOMAIN r.services
            \/ Head(rule.backends).port
                 \notin r.services[Head(rule.backends).service].ports
         THEN "invalid_reference"
    ELSE IF "" \in Range(rule.matches) THEN "invalid_shape"
    ELSE "none"

RouteErrors(r, name) ==
    LET route == r.routes[name] IN
    IF route.hostnames THEN {TranslationError("HTTPRoute", name, "unsupported")}
    ELSE IF route.rules = <<>>
         THEN {TranslationError("HTTPRoute", name, "invalid_shape")}
    ELSE ParentErrors(r, name)
         \cup IF AttachedParents(r, route) = <<>> THEN {}
              ELSE {TranslationError("HTTPRoute", name, RuleProblem(r, rule)) :
                      rule \in {rule \in Range(route.rules) :
                                  RuleProblem(r, rule) # "none"}}

TranslationErrors(r) ==
    GatewayErrors(r) \cup UNION {RouteErrors(r, name) : name \in DOMAIN r.routes}

----------------------------------------------------------------------------
(* The configuration of a resource set without errors.                     *)

ClusterOf(rule) == <<Head(rule.backends).service, Head(rule.backends).port>>

RouteNames(r) ==
    UNION {UNION {{<<name, i, j>> : j \in DOMAIN r.routes[name].rules[i].matches} :
                    i \in DOMAIN r.routes[name].rules} :
             name \in {name \in DOMAIN r.routes :
                         AttachedParents(r, r.routes[name]) # <<>>}}

Bound(r, listener) ==
    {rn \in RouteNames(r) :
       \E p \in Range(r.routes[rn[1]].parents) : <<p.gateway, p.section>> = listener}

Translate(r) ==
    [listeners |-> [l \in Listeners(r) |-> Bound(r, l)],
     routes    |-> [rn \in RouteNames(r) |-> ClusterOf(r.routes[rn[1]].rules[rn[2]])],
     clusters  |-> [c \in {ClusterOf(r.routes[rn[1]].rules[rn[2]]) : rn \in RouteNames(r)}
                      |-> r.services[c[1]].endpoints]]

(* compile_snapshot on such a configuration: a listener may not list a     *)
(* route twice, and a cluster needs endpoints with distinct ids.           *)
Compiles(r) ==
    /\ \A name \in DOMAIN r.routes :
          IsInjective(AttachedParents(r, r.routes[name]))
    /\ \A c \in DOMAIN Translate(r).clusters :
          /\ Translate(r).clusters[c] # {}
          /\ \A e, f \in Translate(r).clusters[c] : e.id = f.id => e = f

(* translation_condition_reason: the category that is reported.            *)
ConditionReason(errors) ==
    LET categories == {e.category : e \in errors} IN
    IF "unsupported" \in categories THEN "UnsupportedDesiredState"
    ELSE IF "invalid_reference" \in categories THEN "InvalidReferences"
         ELSE "InvalidDesiredState"

----------------------------------------------------------------------------
CONSTANTS
    Keys,           \* reconcile keys, as numbers: the order of the queue
    Debounce,       \* reconcile_debounce
    RequeueDelay,   \* the default delay, bounded by max_requeue_delay
    NoConfig,
    EmptyResources  \* GatewayApiResourceSet::default

VARIABLES
    queue,          \* ReconcileQueue: key -> [resources, generation, wait]
    driving,        \* the entries popped by the drive_once call in progress
    leading,        \* LeadershipState allows writes
    resources,      \* resources of the pipeline
    report,         \* last_translation_report: its errors
    status,         \* OperatorStatus
    published,      \* snapshots the backend knows
    active          \* snapshot the backend's data plane runs

ctlVars == <<queue, driving, leading, resources, report, status, published, active>>

Status(state, generation, desired, reason) ==
    [state |-> state, generation |-> generation, desired |-> desired,
     active |-> active', reason |-> reason]

InitController ==
    /\ queue = [k \in {} |-> k]
    /\ driving = <<>>
    /\ leading = FALSE
    /\ resources = EmptyResources
    /\ report = {}
    /\ status = [state |-> "progressing", generation |-> 0, desired |-> NoConfig,
                 active |-> NoConfig, reason |-> "Progressing"]
    /\ published = {}
    /\ active = NoConfig

----------------------------------------------------------------------------
(* enqueue: a queued entry is updated unless the new one is older, and     *)
(* keeps the earlier of the two times.                                     *)
Enqueue(q, k, entry) ==
    [j \in DOMAIN q \cup {k} |->
        IF j # k THEN q[j]
        ELSE IF k \notin DOMAIN q THEN entry
        ELSE [(IF entry.generation >= q[k].generation THEN entry ELSE q[k])
                EXCEPT !.wait = Min({entry.wait, q[k].wait})]]

SubmitReconcile(k, r, generation) ==
    /\ driving = <<>>
    /\ queue' = Enqueue(queue, k, [resources |-> r, generation |-> generation, wait |-> Debounce])
    /\ UNCHANGED <<driving, leading, resources, report, status, published, active>>

PassTime ==
    /\ driving = <<>>
    /\ \E k \in DOMAIN queue : queue[k].wait > 0
    /\ queue' = [k \in DOMAIN queue |-> [queue[k] EXCEPT !.wait = Max({@ - 1, 0})]]
    /\ UNCHANGED <<driving, leading, resources, report, status, published, active>>

SetLeading(b) ==
    /\ driving = <<>>
    /\ leading # b
    /\ leading' = b
    /\ UNCHANGED <<queue, driving, resources, report, status, published, active>>

Due == {k \in DOMAIN queue : queue[k].wait = 0}

(* drive_once: without leadership nothing is popped.                       *)
DriveOnce ==
    /\ driving = <<>>
    /\ leading
    /\ Due # {}
    /\ driving' = [i \in 1..Cardinality(Due) |->
                     LET k == SetToSortSeq(Due, <)[i] IN queue[k] @@ [key |-> k]]
    /\ queue' = Restrict(queue, DOMAIN queue \ Due)
    /\ UNCHANGED <<leading, resources, report, status, published, active>>

----------------------------------------------------------------------------
(* The reconciler on a resource set; failure names the backend call that   *)
(* fails, if any.                                                          *)

(* Nothing to do: the data plane runs the snapshot and the reconciler      *)
(* knows that it wanted it.                                                *)
Unchanged(desired) == active = desired /\ status.desired = desired

ReconcileInvalid(r, generation) ==
    /\ TranslationErrors(r) # {}
    /\ report' = TranslationErrors(r)
    /\ UNCHANGED <<published, active>>
    /\ status' = Status("invalid", generation, NoConfig, ConditionReason(TranslationErrors(r)))

ReconcileUncompiled(r, generation) ==
    /\ TranslationErrors(r) = {} /\ ~Compiles(r)
    /\ report' = {}
    /\ UNCHANGED <<published, active>>
    /\ status' = Status("invalid", generation, NoConfig, "SnapshotInvalid")

ReconcileValid(r, generation, failure) ==
    /\ TranslationErrors(r) = {} /\ Compiles(r)
    /\ report' = {}
    /\ LET desired == Translate(r) IN
       IF Unchanged(desired)
       THEN /\ failure = "none"
            /\ UNCHANGED <<published, active>>
            /\ status' = Status("ready", generation, desired, "Converged")
       ELSE CASE failure = "publish" ->
                   /\ UNCHANGED <<published, active>>
                   /\ status' = Status("progressing", generation, desired, "PublishFailed")
              [] failure = "rollout" ->
                   /\ published' = published \cup {desired}
                   /\ UNCHANGED active
                   /\ status' = Status("progressing", generation, desired, "RolloutFailed")
              [] OTHER ->
                   /\ published' = published \cup {desired}
                   /\ active' = desired
                   /\ status' = Status("ready", generation, desired, "Converged")

(* materialize_resources.                                                  *)
Materialize(r) ==
    /\ resources' = FlushInto(r)
    /\ pending' = pending \ DOMAIN r.services
    /\ UNCHANGED slices

MutantNotRequeued(entry, failure) == queue

(* schedule_requeue after a backend error: the entry as it was submitted.  *)
Requeued(entry, failure) ==
    IF failure = "none" THEN queue
    ELSE Enqueue(queue, entry.key,
                 [resources |-> entry.resources, generation |-> entry.generation,
                  wait |-> RequeueDelay])

(* One popped entry: the pipeline takes over its resources, merges the     *)
(* pending slices and reconciles.                                          *)
ReconcileEntry(failure) ==
    /\ driving # <<>>
    /\ LET entry == Head(driving)
           r == FlushInto(entry.resources)
       IN /\ Materialize(entry.resources)
          /\ \/ failure = "none" /\ ReconcileInvalid(r, entry.generation)
             \/ failure = "none" /\ ReconcileUncompiled(r, entry.generation)
             \/ ReconcileValid(r, entry.generation, failure)
          /\ queue' = Requeued(entry, failure)
    /\ driving' = Tail(driving)
    /\ UNCHANGED leading

(* publish_candidate_at: the candidate of the current resources is built   *)
(* and published without a rollout; the status stays as it is.             *)
PublishCandidate(failure) ==
    /\ driving = <<>>
    /\ Materialize(resources)
    /\ LET r == FlushInto(resources)
           valid == TranslationErrors(r) = {} /\ Compiles(r)
       IN /\ report' = IF valid THEN {} ELSE report
          /\ published' = IF valid /\ failure = "none" THEN published \cup {Translate(r)}
                                                       ELSE published
    /\ UNCHANGED <<queue, driving, leading, status, active>>

(* project_managed_resource_status: a resource that an error blames is     *)
(* invalid, any other takes over the state of the operator.                *)
ManagedResourceState(kind, name) ==
    IF \E e \in report : e.kind = kind /\ e.name = name THEN "invalid" ELSE status.state

----------------------------------------------------------------------------
ControllerTypeOK ==
    /\ DOMAIN queue \subseteq Keys
    /\ \A k \in DOMAIN queue : queue[k].wait \in 0..Max({Debounce, RequeueDelay})
    /\ leading \in BOOLEAN
    /\ status.state \in {"ready", "progressing", "invalid"}
    /\ status.reason \in {"Progressing", "Converged", "PublishFailed", "RolloutFailed",
                          "UnsupportedDesiredState", "InvalidReferences",
                          "InvalidDesiredState", "SnapshotInvalid"}

(* "Ready" is never claimed for a snapshot that does not run, through      *)
(* failed publications, failed rollouts and retries (operator.rs:299-305); *)
(* and no Gateway or HTTPRoute is reported ready unless the operator is.   *)
ReadyIsActive ==
    /\ status.active = active
    /\ status.state = "ready" => status.desired = active /\ active # NoConfig
    /\ \A e \in report : status.state = "invalid" /\ ManagedResourceState(e.kind, e.name) = "invalid"

(* The running snapshot is closed and complete whatever sets were          *)
(* submitted: every listener's routes exist and are reachable through some *)
(* listener, every route leads to a cluster with endpoints of distinct ids *)
(* (translate_gateway_api, lib.rs:455-600).                                *)
ActiveIsClosed ==
    active # NoConfig =>
        /\ UNION Range(active.listeners) = DOMAIN active.routes
        /\ Range(active.routes) = DOMAIN active.clusters
        /\ \A c \in DOMAIN active.clusters :
              /\ active.clusters[c] # {}
              /\ Cardinality({e.id : e \in active.clusters[c]}) = Cardinality(active.clusters[c])

=============================================================================
