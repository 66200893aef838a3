------------------------- MODULE ConfigCompilation --------------------------
(***************************************************************************)
(* What happens to a workspace configuration after the validator:          *)
(*   - compiler.rs turns it into a snapshot (WorkspaceSnapshot), whose     *)
(*     digest names it everywhere else, diffs two snapshots, and turns a   *)
(*     stored view back into a configuration;                              *)
(*   - the data plane's workspace_serve turns it into the running          *)
(*     listeners: backend pools, limiters, failure managers and the        *)
(*     policies in force for every destination of every route.             *)
(* A compilation has no effect before it returns, so it is a record whose  *)
(* ok says whether it came back without an error; the order of the checks  *)
(* only decides which error is reported.                                   *)
(***************************************************************************)
EXTENDS ConfigValidation

Has(resources, name) == \E r \in Range(resources) : r.name = name

\* iter().find(|r| r.name == name): by the name as it is written.
Find(resources, name) ==
  resources[CHOOSE i \in DOMAIN resources :
              /\ resources[i].name = name
              /\ \A j \in 1..(i - 1) : resources[j].name # name]

-----------------------------------------------------------------------------
(***************************************************************************)
(* The strong models of net-core and proto-http.                           *)
(***************************************************************************)
EffectiveLimit(listener, defaults) ==
  IF listener.limits = -1 THEN defaults.limits ELSE listener.limits

AllowsUnspecified(listener, defaults) ==
  listener.allow_unspecified \/ defaults.allow_unspecified

ListenerConfigValid(listener, defaults) ==
  /\ ~Blank(listener.name)
  /\ EffectiveLimit(listener, defaults) # 0
  /\ listener.address \in {"any", "v6_any"} => AllowsUnspecified(listener, defaults)
  /\ listener.bind_mode = "dual" => listener.address = "v6_any"
  /\ listener.bind_mode = "v6_only" => listener.address \in {"v6", "v6_any"}
  /\ listener.tls.present => listener.tls.source.paths = "ok"

compile_listeners(config) ==
  /\ ~Repeats(NamesOf(config.listeners))
  /\ \A l \in Range(config.listeners) : ListenerConfigValid(l, config.defaults)

compile_rule(route) ==
  /\ ~Blank(route.name)
  /\ route.match.prefix # "blank"
  /\ "bad" \notin route.match.filters \cup route.match.methods
                  \cup route.match.content_types \cup route.match.grpc

compile_http_route_rules(config) ==
  /\ ~Repeats(NamesOf(config.routes))
  /\ \A r \in Range(config.routes) : compile_rule(r)

UpstreamEndpointValid(endpoint) ==
  /\ ~Blank(endpoint.id)
  /\ endpoint.address \notin {"port0", "any"}
  /\ endpoint.weight # 0
  /\ endpoint.zone # "blank"

UpstreamClusterValid(cluster) ==
  LET ids == [i \in DOMAIN cluster.endpoints |-> cluster.endpoints[i].id]
  IN  /\ ~Blank(cluster.name)
      /\ ~Repeats(ids)
      /\ \A e \in Range(cluster.endpoints) : UpstreamEndpointValid(e)

compile_upstream_clusters(config) ==
  /\ ~Repeats(NamesOf(config.clusters))
  /\ \A c \in Range(config.clusters) : UpstreamClusterValid(c)

-----------------------------------------------------------------------------
(***************************************************************************)
(* Snapshots.  The digest is taken over everything in the view, so two     *)
(* views have the same digest exactly when they are equal (SHA-256 is      *)
(* taken to be collision free).                                            *)
(***************************************************************************)
ListenerSnapshot(listener, defaults) ==
  [listener EXCEPT !.limits = EffectiveLimit(listener, defaults),
                   !.allow_unspecified = AllowsUnspecified(listener, defaults)]

RouteSnapshot(route) ==
  [name |-> route.name, match |-> route.match,
   destinations |-> normalized_destinations(route),
   policies |-> route.policies, upgrade |-> route.upgrade]

UpstreamClusterSnapshot(cluster) ==
  [name |-> cluster.name, endpoints |-> cluster.endpoints,
   affinity |-> cluster.affinity, policies |-> cluster.policies]

Map(seq, Op(_)) == [i \in DOMAIN seq |-> Op(seq[i])]

WorkspaceSnapshotView(config) ==
  [name |-> config.name, security |-> config.security, policies |-> config.policies,
   listeners |-> Map(config.listeners, LAMBDA l : ListenerSnapshot(l, config.defaults)),
   routes |-> Map(config.routes, RouteSnapshot),
   clusters |-> Map(config.clusters, UpstreamClusterSnapshot)]

NoSnapshot == [ok |-> FALSE]

compile_workspace_snapshot(config) ==
  IF /\ validate_workspace_config(config) = {}
     /\ compile_listeners(config)
     /\ compile_http_route_rules(config)
     /\ compile_upstream_clusters(config)
  THEN [ok |-> TRUE, view |-> WorkspaceSnapshotView(config)]
  ELSE NoSnapshot

compute_digest(view) == view

\* A stored view as a configuration again: every default is spelled out in
\* the listeners, single destinations become lists, and discovery is gone.
workspace_config_from_snapshot_view(view, foundation) ==
  [name |-> view.name, security |-> view.security, policies |-> view.policies,
   defaults |-> foundation, listeners |-> view.listeners,
   routes |-> Map(view.routes, LAMBDA r :
     [name |-> r.name, match |-> r.match, cluster |-> NoName,
      destinations |-> r.destinations, policies |-> r.policies, upgrade |-> r.upgrade]),
   clusters |-> Map(view.clusters, LAMBDA c :
     [name |-> c.name, endpoints |-> c.endpoints, discovery |-> "none",
      affinity |-> c.affinity, policies |-> c.policies])]

from_view(view, foundation) ==
  compile_workspace_snapshot(workspace_config_from_snapshot_view(view, foundation))

resource_fingerprint(resource) == resource

diff_named_resources(previous, next) ==
  {[name |-> n,
    kind |-> IF ~Has(previous, n) THEN "added"
             ELSE IF ~Has(next, n) THEN "removed" ELSE "updated"] :
     n \in {m \in Range(NamesOf(previous) \o NamesOf(next)) :
              \/ Has(previous, m) # Has(next, m)
              \/ resource_fingerprint(Find(previous, m))
                   # resource_fingerprint(Find(next, m))}}

\* What an updated route's detail mentions; an upgrade policy is not in it.
describe_route_change(previous, next) ==
  {f \in {"destinations", "match", "policies"} : previous[f] # next[f]}

diff_route_resources(previous, next) ==
  {[change |-> c,
    detail |-> IF c.kind # "updated" THEN {}
               ELSE describe_route_change(Find(previous, c.name), Find(next, c.name))] :
     c \in diff_named_resources(previous, next)}

diff(previous, next) ==
  [listeners |-> diff_named_resources(previous.listeners, next.listeners),
   routes    |-> diff_route_resources(previous.routes, next.routes),
   clusters  |-> diff_named_resources(previous.clusters, next.clusters)]
-----------------------------------------------------------------------------
pick_effective_policy_name(listener, route, destination) ==
  IF destination # NoName THEN destination ELSE IF route # NoName THEN route ELSE listener

merge_effective_policy_refs(listener, route, destination) ==
  listener \o route \o destination

PickedKinds == AuthKinds \cup ResilienceKinds \cup {"transform", "mirror", "fault"}

Resolves(config, kind, name) == name = NoName \/ Has(config.policies[kind], name)

SpecOf(config, kind, name) == Find(config.policies[kind], name).spec

\* The transform specs of the three layers, outermost first.
TransformLayers(config, bindings) ==
  LET named == SelectSeq(bindings, LAMBDA b : b.single["transform"] # NoName)
  IN  Map(named, LAMBDA b : SpecOf(config, "transform", b.single["transform"]))

\* The last layer that sets a rewrite decides it.
LastRewrite(layers, field) ==
  LET set == SelectSeq(layers, LAMBDA l : l[field] # "none")
  IN  IF set = <<>> THEN "none" ELSE Last(set)[field]

merge_request_transform_layers(layers) ==
  [path |-> LastRewrite(layers, "path"), host |-> LastRewrite(layers, "host"),
   headers |-> FlattenSeq(Map(layers, LAMBDA l : l.request))]

merge_response_transform_layers(layers) ==
  [headers |-> FlattenSeq(Map(layers, LAMBDA l : l.response))]

EffectiveRouteDestinationPolicy(config, listener, route, destination) ==
  LET cluster  == Find(config.clusters, destination.cluster)
      bindings == <<listener.policies, route.policies, destination.policies>>
      layers   == TransformLayers(config, bindings)
      own      == destination.policies.single["identity"]
  IN  [single |-> [k \in PickedKinds |-> pick_effective_policy_name(
                     bindings[1].single[k], bindings[2].single[k], bindings[3].single[k])],
       identity |-> IF own # NoName THEN own ELSE cluster.policies.single["identity"],
       limits |-> [k \in LimitKinds |-> merge_effective_policy_refs(
                     bindings[1].limits[k], bindings[2].limits[k], bindings[3].limits[k])],
       request  |-> merge_request_transform_layers(layers),
       response |-> merge_response_transform_layers(layers)]

TransformsResolve(config, listener, route) ==
  \A b \in {listener.policies, route.policies}
           \cup {d.policies : d \in Range(normalized_destinations(route))} :
    Resolves(config, "transform", b.single["transform"])

resolve_listener_upgrade_policies(config, listener) ==
  [listener |-> listener.upgrade,
   routes |-> {<<r.name, r.upgrade>> : r \in
     {x \in Range(config.routes) : x.name \in Range(listener.routes) /\ x.upgrade # <<>>}}]

(***************************************************************************)
(* The constructors of the runtime objects, each with its own checks.      *)
(***************************************************************************)
LocalRateLimiterBuilds(spec) == 0 \notin spec.counts

LocalConcurrencyLimiterBuilds(spec) == 0 \notin spec.counts

\* resolve_named_timeout_hierarchy, then TimeoutHierarchy::validate.
TimeoutHierarchyBuilds(spec) ==
  /\ 0 \notin {spec.request, PerTry(spec), spec.connect, spec.idle}
  /\ PerTry(spec) <= spec.request
  /\ spec.connect <= PerTry(spec)
  /\ spec.idle <= PerTry(spec)

RetryBudgetBuilds(spec) == spec.window # 0

CircuitBreakerBuilds(spec) == 0 \notin spec.counts

OverloadManagerBuilds(spec) ==
  LET names == [i \in DOMAIN spec.features |-> normalize_component(spec.features[i])]
  IN  /\ 0 \notin {spec.window, spec.constrained, spec.shedding, spec.brownout}
      /\ spec.constrained <= spec.shedding /\ spec.shedding <= spec.brownout
      /\ \A n \in Range(names) : ~Blank(n)
      /\ ~Repeats(names)

HttpCacheStoreBuilds(spec) ==
  /\ 0 \notin {spec.max_entries, spec.max_bytes, spec.max_object}
  /\ spec.max_object <= spec.max_bytes

\* A remote key set is refused, a file is read and parsed at once.
JwtAuthPolicyBuilds(spec) == spec.jwks \in {"inline", "file"} /\ spec.text = "ok"

ExternalAuthPolicyBuilds(spec) == spec.protocol = "http" /\ spec.endpoint = "ok"

UpstreamIdentityPolicyBuilds(spec) == spec.bundle = "ok"

PolicyBuilds(kind, spec) ==
  CASE kind = "rate"          -> LocalRateLimiterBuilds(spec)
    [] kind = "concurrency"   -> LocalConcurrencyLimiterBuilds(spec)
    [] kind = "retry"         -> RetryBudgetBuilds(spec)
    [] kind = "timeouts"      -> TimeoutHierarchyBuilds(spec)
    [] kind = "breaker"       -> CircuitBreakerBuilds(spec)
    [] kind = "overload"      -> OverloadManagerBuilds(spec)
    [] kind = "cache"         -> HttpCacheStoreBuilds(spec)
    [] kind = "jwt"           -> JwtAuthPolicyBuilds(spec)
    [] kind = "external_auth" -> ExternalAuthPolicyBuilds(spec)
    [] kind = "identity"      -> UpstreamIdentityPolicyBuilds(spec)
    [] OTHER                  -> TRUE

Builds(config, kind, name) ==
  name = NoName \/ /\ Has(config.policies[kind], name)
                   /\ PolicyBuilds(kind, SpecOf(config, kind, name))

\* None when no resilience policy is in force; otherwise the defaults, which
\* are valid, stand in for the ones that are not.
resolve_destination_failure_manager(config, policy) ==
  \A k \in ResilienceKinds : Builds(config, k, policy.single[k])

compile_route_destination_policy_runtime(config, policy) ==
  /\ \A k \in LimitKinds : \A n \in Range(policy.limits[k]) : Builds(config, k, n)
  /\ resolve_destination_failure_manager(config, policy)
  /\ \A k \in {"mirror", "fault"} : Builds(config, k, policy.single[k])

compile_route_destination_auth_runtime(config, policy) ==
  /\ \A k \in AuthKinds : Builds(config, k, policy.single[k])
  /\ Builds(config, "identity", policy.identity)

(***************************************************************************)
(* A listener.                                                             *)
(***************************************************************************)
ServedRoutes(config, listener) == {Find(config.routes, n) : n \in Range(listener.routes)}

compile_route_backends(config, listener) ==
  /\ listener.routes # <<>>
  /\ \A n \in Range(listener.routes) : Has(config.routes, n)
  /\ \A r \in ServedRoutes(config, listener) :
       LET destinations == normalized_destinations(r)
       IN  /\ destinations # <<>>
           /\ \A d \in Range(destinations) :
                /\ Has(config.clusters, d.cluster)
                /\ Find(config.clusters, d.cluster).endpoints # <<>>
                /\ Len(destinations) > 1 => d.weight # 0

\* Every cluster gets a pool of its own for mirrored requests.
compile_mirror_backend_pools(config) ==
  \A c \in Range(config.clusters) : UpstreamClusterValid(c)

CompiledPolicies(config, listener) ==
  {EffectiveRouteDestinationPolicy(config, listener, r, d) :
     <<r, d>> \in {<<x, y>> \in ServedRoutes(config, listener)
                      \X UNION {Range(normalized_destinations(z)) :
                                z \in ServedRoutes(config, listener)} :
                   y \in Range(normalized_destinations(x))}}

compile_proxy_config(config, listener) ==
  /\ compile_route_backends(config, listener)
  /\ compile_mirror_backend_pools(config)
  /\ \A r \in ServedRoutes(config, listener) : TransformsResolve(config, listener, r)
  /\ \A p \in CompiledPolicies(config, listener) :
       /\ compile_route_destination_policy_runtime(config, p)
       /\ compile_route_destination_auth_runtime(config, p)
  /\ "bad" \notin config.security.trusted_cidrs \cup config.security.anonymous_cidrs

\* Certificates, keys and OCSP files are read here; "bad" is one that is not
\* there or does not parse.
build_tls_cert_resolver(tls) ==
  \A s \in {tls.source} \cup {c.source : c \in Range(tls.sni)} :
    s.paths = "ok" /\ s.ocsp \in {"none", "ok"}

build_tls_server_config(tls) ==
  /\ tls.present
  /\ build_tls_cert_resolver(tls)
  /\ \A c \in Range(tls.sni) : "bad" \notin Range(c.names)

compile_https_proxy_config(config, listener) ==
  listener.tls.present /\ compile_proxy_config(config, listener)
                       /\ build_tls_server_config(listener.tls)

compile_http3_proxy_config(config, listener) ==
  listener.tls.present /\ compile_proxy_config(config, listener)
                       /\ build_tls_server_config(listener.tls)

RouteCachePolicies(config, listener) ==
  {r.policies.single["cache"] :
     r \in {x \in Range(config.routes) : x.name \in Range(listener.routes)}} \ {NoName}

resolve_listener_http_cache_policy(config, listener) ==
  LET own == listener.policies.single["cache"]
      routed == RouteCachePolicies(config, listener)
  IN  IF own # NoName THEN Builds(config, "cache", own)
      ELSE Cardinality(routed) <= 1 /\ \A n \in routed : Builds(config, "cache", n)

compile_listener_guards(config, listener) ==
  /\ Resolves(config, "overload", listener.policies.single["overload"])
  /\ Resolves(config, "edge", listener.policies.single["edge"])

compile_admin_policy(listener) == "bad" \notin listener.admin.cidrs

ListenerCompiles(config, listener) ==
  /\ compile_listener_guards(config, listener)
  /\ CASE listener.class = "public" ->
            /\ listener.protocol \in {"http1", "https"} =>
                 resolve_listener_http_cache_policy(config, listener)
            /\ CASE listener.protocol \in {"http1", "http2"} ->
                      compile_proxy_config(config, listener)
                 [] listener.protocol = "https" -> compile_https_proxy_config(config, listener)
                 [] listener.protocol = "http3" -> compile_http3_proxy_config(config, listener)
                 [] OTHER -> FALSE
       [] OTHER ->
            /\ listener.protocol \in {"http1", "https"}
            /\ compile_admin_policy(listener)
            /\ listener.protocol = "https" => build_tls_server_config(listener.tls)

compile_workspace_runtime(config) ==
  LET snapshot == compile_workspace_snapshot(config)
  IN  IF snapshot.ok /\ \A l \in Range(config.listeners) : ListenerCompiles(config, l)
      THEN snapshot
      ELSE NoSnapshot

\* ListenerOverloadRuntime::new runs when the compiled listener is spawned.
ListenerStarts(config, listener) ==
  Builds(config, "overload", listener.policies.single["overload"])
=============================================================================
