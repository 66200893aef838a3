---------------------------- MODULE Configuration ---------------------------
(***************************************************************************)
(* The life of a workspace configuration: it is edited on disk, a reload   *)
(* compiles it and, when that succeeds, the data plane runs it; a stored   *)
(* view of the running snapshot is compiled again by whoever restores it   *)
(* (the control plane after a restart, a rollback).  A reload reads the    *)
(* file once, so an edit is never seen half-way.                           *)
(***************************************************************************)
EXTENDS ConfigCompilation

CONSTANTS
  Bases,      \* the configurations the file starts with
  Edits(_, _), \* the configurations the next edit, of this number, can lead to
  MaxEdits,   \* a bound on the edits
  Foundation  \* ListenerDefaultsConfig and HttpDefaultsConfig of foundation()

VARIABLES
  draft,     \* the file
  edits,     \* how often it was edited
  running    \* [config, view]: what was last compiled and runs

vars == <<draft, edits, running>>

Init ==
  /\ draft \in Bases
  /\ edits = 0
  /\ running = [config |-> draft, view |-> WorkspaceSnapshotView(draft)]

Edit ==
  /\ edits < MaxEdits
  /\ draft' \in Edits(draft, edits + 1)
  /\ edits' = edits + 1
  /\ UNCHANGED running

Reload ==
  LET compiled == compile_workspace_runtime(draft)
  IN  /\ running' = IF compiled.ok THEN [config |-> draft, view |-> compiled.view]
                    ELSE running
      /\ UNCHANGED <<draft, edits>>

Restore ==
  LET config == workspace_config_from_snapshot_view(running.view, Foundation)
      again  == from_view(running.view, Foundation)
  IN  /\ running' = IF again.ok THEN [config |-> config, view |-> again.view] ELSE running
      /\ UNCHANGED <<draft, edits>>

Next == Edit \/ Reload \/ Restore

Spec == Init /\ [][Next]_vars

-----------------------------------------------------------------------------
BindingsOf(config) ==
  {l.policies : l \in Range(config.listeners)}
  \cup {r.policies : r \in Range(config.routes)}
  \cup {c.policies : c \in Range(config.clusters)}
  \cup UNION {{d.policies : d \in Range(r.destinations)} : r \in Range(config.routes)}

\* Every name is written without white space around it.
Tidy(config) ==
  /\ \A s \in {config.listeners, config.routes, config.clusters}
               \cup {config.policies[k] : k \in PolicyKinds} :
       \A x \in Range(s) : ~x.name.pad
  /\ \A l \in Range(config.listeners) : \A n \in Range(l.routes) : ~n.pad
  /\ \A r \in Range(config.routes) :
       \A d \in Range(normalized_destinations(r)) : ~d.cluster.pad
  /\ \A p \in Range(config.policies["mirror"]) : ~p.spec.target.pad
  /\ \A b \in BindingsOf(config) :
       /\ \A k \in LimitKinds : \A n \in Range(b.limits[k]) : ~n.pad
       /\ \A k \in SingleKinds : ~b.single[k].pad

\* What serve mode does not offer, or finds out only when it reads a file,
\* although the validator accepts it.
NotServed(config) ==
  \/ \E l \in Range(config.listeners) :
       \/ l.address \in {"any", "v6_any"} /\ ~AllowsUnspecified(l, config.defaults)
       \/ l.protocol \notin {"http1", "https"} /\ l.class = "admin"
       \/ l.protocol = "tcp"
       \/ l.class = "public" /\ l.routes = <<>>
       \/ l.tls.present /\ ~build_tls_cert_resolver(l.tls)
       \/ Cardinality(RouteCachePolicies(config, l)) > 1
  \/ \E c \in Range(config.clusters) :
       c.endpoints = <<>> \/ \E e \in Range(c.endpoints) : e.address \in {"port0", "any"}
  \/ \E k \in {"cache", "jwt", "external_auth", "identity"} :
       \E p \in Range(config.policies[k]) : ~PolicyBuilds(k, p.spec)

\* <<listener, route, destination>> of everything a configuration serves.
Served(config) ==
  UNION {UNION {{<<l, r, d>> : d \in Range(normalized_destinations(r))} :
                r \in ServedRoutes(config, l)} :
         l \in {x \in Range(config.listeners) : x.class = "public"}}

InForce(config) ==
  {[at |-> <<x[1].name, x[2].name, x[3].cluster>>,
    policy |-> EffectiveRouteDestinationPolicy(config, x[1], x[2], x[3]),
    upgrades |-> resolve_listener_upgrade_policies(config, x[1])] :
   x \in Served(config)}

(***************************************************************************)
(* The file and the running configuration have the shape the deserializer  *)
(* gives them, and the snapshot that is reported and the listeners that    *)
(* run were compiled from the same configuration.                          *)
(***************************************************************************)
TypeOK ==
  /\ edits \in 0..MaxEdits
  /\ IsWorkspaceConfig(draft) /\ IsWorkspaceConfig(running.config)
  /\ running.view = WorkspaceSnapshotView(running.config)

(***************************************************************************)
(* What the validator accepts the data plane can run: when the names carry *)
(* no white space and the configuration asks for nothing serve mode lacks, *)
(* compiling it (snapshot, pools, limiters, failure managers, auth         *)
(* policies, TLS) and starting its overload managers cannot fail.  The     *)
(* validator repeats the checks of some dozen constructors by hand.        *)
(***************************************************************************)
AcceptedServes ==
  (/\ validate_workspace_config(draft) = {}
   /\ Tidy(draft)
   /\ ~NotServed(draft))
  => /\ compile_workspace_runtime(draft).ok
     /\ \A l \in Range(draft.listeners) : ListenerStarts(draft, l)

(***************************************************************************)
(* No destination of the running configuration mirrors its requests to the *)
(* cluster they go to anyway, wherever the mirror policy in force was      *)
(* bound.                                                                  *)
(***************************************************************************)
NoSelfMirror ==
  Tidy(running.config) =>
    \A x \in Served(running.config) :
      LET policy == EffectiveRouteDestinationPolicy(running.config, x[1], x[2], x[3])
          name   == policy.single["mirror"]
      IN  name # NoName => SpecOf(running.config, "mirror", name).target # x[3].cluster

(***************************************************************************)
(* A request is charged once to every limit: the limits of listener, route *)
(* and destination are concatenated, and no policy is in the result twice. *)
(***************************************************************************)
LimitsChargedOnce ==
  Tidy(running.config) =>
    \A x \in Served(running.config) :
      LET policy == EffectiveRouteDestinationPolicy(running.config, x[1], x[2], x[3])
      IN  \A k \in LimitKinds : ~Repeats(policy.limits[k])

(***************************************************************************)
(* The policy in force is the most specific one bound: a destination's own *)
(* wins over its route's, a route's over its listener's, and one bound     *)
(* further out is in force when nothing inside names another.              *)
(***************************************************************************)
MostSpecificInForce ==
  \A x \in Served(running.config) :
    LET policy == EffectiveRouteDestinationPolicy(running.config, x[1], x[2], x[3])
        bound(k) == <<x[1].policies.single[k], x[2].policies.single[k],
                      x[3].policies.single[k]>>
    IN  \A k \in PickedKinds :
          \A i \in 1..3 :
            (bound(k)[i] # NoName /\ \A j \in (i + 1)..3 : bound(k)[j] = NoName)
            => policy.single[k] = bound(k)[i]

(***************************************************************************)
(* Restoring the view of a running snapshot whose clusters list their      *)
(* endpoints gives back the same digest, and the same policies and upgrade *)
(* protocols in force at every destination, whatever defaults the original *)
(* relied on.                                                              *)
(***************************************************************************)
RestoredAsRun ==
  LET config == workspace_config_from_snapshot_view(running.view, Foundation)
      again  == from_view(running.view, Foundation)
  IN  (\A c \in Range(running.config.clusters) : c.endpoints # <<>>)
      => /\ again.ok
         /\ compute_digest(again.view) = compute_digest(running.view)
         /\ InForce(config) = InForce(running.config)

(***************************************************************************)
(* A reload that changes the digest shows in the diff of the two           *)
(* snapshots, unless it only changed policy specs, the security section,   *)
(* the workspace name or the order of the resources.                       *)
(***************************************************************************)
DiffShows(was, is) ==
  LET changes == diff(was, is)
  IN  (compute_digest(was) # compute_digest(is) /\ \A f \in DOMAIN changes : changes[f] = {})
      => \A f \in {"listeners", "routes", "clusters"} : Range(was[f]) = Range(is[f])

----------------------------------------------------------------------------
(***************************************************************************)
(* Two listeners (one public, one admin), two routes and two clusters, a   *)
(* policy of every kind, and edits that change one field each; two edits   *)
(* reach every combination of two fields.  The bases differ in how the     *)
(* policies are bound, in TLS, and in the names being padded.              *)
(***************************************************************************)
N(i) == [id |-> i, pad |-> FALSE, up |-> FALSE]

Padded(name) == [name EXCEPT !.pad = TRUE]

Blanked(name) == [name EXCEPT !.id = 0]

MCFoundation == [limits |-> 3, http1 |-> 1, http2 |-> 1, allow_unspecified |-> FALSE]

OkSpec ==
  [rate           |-> [scope |-> [kind |-> "route", names |-> <<N(11)>>], counts |-> {1}],
   concurrency    |-> [scope |-> [kind |-> "listener", names |-> <<N(1)>>], counts |-> {1}],
   retry          |-> [window |-> 1],
   timeouts       |-> [request |-> 3, attempt |-> 2, per_try |-> -1, connect |-> 1, idle |-> 2],
   breaker        |-> [counts |-> {1, 2}],
   overload       |-> [window |-> 1, constrained |-> 1, shedding |-> 2, brownout |-> 2,
                       features |-> <<N(1), N(2)>>],
   edge           |-> [quota |-> TRUE, handshake |-> FALSE, counts |-> {1}],
   cache          |-> [methods |-> <<"GET">>, default_ttl |-> 1, max_ttl |-> 2,
                       max_object |-> 1, statuses |-> {200}, vary |-> <<>>,
                       key |-> [headers |-> <<"a">>, host |-> FALSE, method |-> FALSE],
                       max_entries |-> 1, max_bytes |-> 2],
   transform      |-> [path |-> "ok", host |-> "none", request |-> <<>>,
                       response |-> <<[name |-> "ok", value |-> "ok"]>>],
   mirror         |-> [percentage |-> 1, target |-> N(22), methods |-> {}],
   fault          |-> [delay |-> TRUE, abort |-> FALSE, delay_counts |-> {1},
                       abort_percentage |-> 0, status |-> 0],
   jwt            |-> [issuers |-> {"i"}, audiences |-> {"a"}, jwks |-> "inline",
                       text |-> "ok", refresh |-> 0],
   external_auth  |-> [endpoint |-> "ok", timeout |-> 1, headers |-> {}, mappings |-> {},
                       protocol |-> "http"],
   authorization  |-> [rules |-> <<[name |-> N(1), matchers |-> {"claim"}]>>],
   identity       |-> [spire |-> FALSE, socket |-> "none", domain |-> "none",
                       bundle |-> "ok", bundle_file |-> FALSE, refresh |-> 0,
                       allowed_ids |-> {"ok"}, allowed_domains |-> {}],
   classification |-> [challenge |-> 1, block |-> 2, weights |-> {1}, headers |-> {},
                       texts |-> {}, counts |-> {1}]]

Policy(kind, spec) == <<[name |-> N(31), spec |-> spec]>>

Bind(kinds) == [NoBinding EXCEPT !.single = [k \in SingleKinds |->
                                               IF k \in kinds THEN N(31) ELSE NoName]]

BindLimit(binding, kind) == [binding EXCEPT !.limits[kind] = <<N(31)>>]

OkTls ==
  [present |-> TRUE, source |-> [paths |-> "ok", ocsp |-> "none"],
   sni |-> <<[names |-> <<"a">>, source |-> [paths |-> "ok", ocsp |-> "ok"]]>>,
   resumption |-> "stateful", cache_size |-> 1, tickets |-> 0, alpn |-> <<"h2">>]

DefaultAdmin ==
  [default |-> TRUE, cidrs |-> {}, rate |-> 1, retained |-> 1, auth |-> "bearer",
   secret |-> "ok", permissions |-> <<"read">>, operators |-> <<>>, skew |-> 1, ttl |-> 1]

PublicListener ==
  [name |-> N(1), class |-> "public", protocol |-> "http1", address |-> "v4",
   bind_mode |-> "single", allow_unspecified |-> FALSE, limits |-> -1,
   proxy_protocol |-> FALSE, upgrade |-> <<>>, tls |-> NoTls, admin |-> DefaultAdmin,
   routes |-> <<N(11), N(12)>>, policies |-> NoBinding]

AdminListener ==
  [PublicListener EXCEPT !.name = N(2), !.class = "admin", !.address = "loopback",
                         !.routes = <<>>]

OkMatch ==
  [prefix |-> "ok", filters |-> {}, methods |-> {"POST"}, content_types |-> {"grpc"},
   grpc |-> {"ok"}]

WeightedRoute ==
  [name |-> N(11), match |-> OkMatch, cluster |-> NoName,
   destinations |-> <<[cluster |-> N(22), weight |-> 1, policies |-> NoBinding],
                      [cluster |-> N(21), weight |-> 2, policies |-> NoBinding]>>,
   policies |-> NoBinding, upgrade |-> <<>>]

PlainRoute ==
  [WeightedRoute EXCEPT !.name = N(12), !.cluster = N(21), !.destinations = <<>>]

Endpoint == [id |-> N(1), address |-> "v4", weight |-> 1, zone |-> "none"]

Cluster(i) ==
  [name |-> N(i), endpoints |-> <<Endpoint>>,
   discovery |-> "none", affinity |-> "none", policies |-> NoBinding]

Plain ==
  [name |-> N(9),
   security |-> [dev_mode |-> FALSE, acknowledgement |-> "none", enforced |-> TRUE,
                 signers |-> <<[identity |-> N(1), key |-> "ok", too_long |-> FALSE]>>,
                 anonymous_cidrs |-> {}, trusted_cidrs |-> {}],
   defaults |-> [MCFoundation EXCEPT !.limits = 2],
   policies |-> [k \in PolicyKinds |-> Policy(k, OkSpec[k])],
   listeners |-> <<PublicListener, AdminListener>>,
   routes |-> <<WeightedRoute, PlainRoute>>,
   clusters |-> <<Cluster(21), Cluster(22)>>]

\* Everything bound somewhere it may be bound.
Bound ==
  [Plain EXCEPT
     !.listeners[1].policies = BindLimit(Bind(ResilienceKinds \cup {"overload", "edge", "cache",
                                  "classification", "transform"}), "concurrency"),
     !.routes[1].policies = BindLimit(Bind(AuthKinds \cup {"transform"}), "rate"),
     !.routes[1].destinations[2].policies = Bind({"mirror", "fault", "identity"}),
     !.clusters[2].policies = Bind({"identity", "breaker"})]

Secure ==
  [Plain EXCEPT !.listeners[1].protocol = "https", !.listeners[1].tls = OkTls,
                !.listeners[2].protocol = "https", !.listeners[2].tls = OkTls]

MCBases == {Plain, Bound, Secure}

-----------------------------------------------------------------------------
(***************************************************************************)
(* The edits, field by field.                                              *)
(***************************************************************************)
SpecVariants(k, s) ==
  CASE k \in LimitKinds ->
         {[s EXCEPT !.counts = {0}], [s EXCEPT !.scope.kind = "destination",
                                               !.scope.names = <<N(11), N(21)>>],
          [s EXCEPT !.scope.names[1] = Blanked(@)]}
    [] k = "retry" -> {[s EXCEPT !.window = 0]}
    [] k = "timeouts" ->
         {[s EXCEPT !.per_try = t] : t \in 0..4} \cup {[s EXCEPT !.attempt = t] : t \in {0, 1, 4}}
         \cup {[s EXCEPT !.request = 0], [s EXCEPT !.idle = 3]}
    [] k = "breaker" -> {[s EXCEPT !.counts = {0, 1}]}
    [] k = "overload" ->
         {[s EXCEPT !.brownout = b] : b \in 0..3}
         \cup {[s EXCEPT !.features[2] = n] :
                 n \in {[N(1) EXCEPT !.up = TRUE], Padded(N(1)), Blanked(N(1))}}
    [] k = "edge" -> {[s EXCEPT !.quota = FALSE], [s EXCEPT !.counts = {0}]}
    [] k = "cache" ->
         {[s EXCEPT !.max_object = 3], [s EXCEPT !.max_bytes = 0], [s EXCEPT !.default_ttl = 3],
          [s EXCEPT !.methods = <<"GET", "GET">>], [s EXCEPT !.key.headers = <<>>],
          [s EXCEPT !.statuses = {99}], [s EXCEPT !.vary = <<"framing">>]}
    [] k = "transform" ->
         {[s EXCEPT !.path = p] : p \in {"none", "blank"}}
         \cup {[s EXCEPT !.response[1].name = "framing"], [s EXCEPT !.response = <<>>],
               [s EXCEPT !.request = <<[name |-> "host", value |-> "ok"]>>]}
    [] k = "mirror" ->
         {[s EXCEPT !.target = n] : n \in {N(21), N(29), Padded(N(22)), Blanked(N(22))}}
         \cup {[s EXCEPT !.percentage = 0], [s EXCEPT !.methods = {"bad"}]}
    [] k = "fault" ->
         {[s EXCEPT !.delay = FALSE], [s EXCEPT !.abort = TRUE],
          [s EXCEPT !.abort = TRUE, !.abort_percentage = 1, !.status = 500]}
    [] k = "jwt" ->
         {[s EXCEPT !.issuers = {}], [s EXCEPT !.jwks = "none"], [s EXCEPT !.jwks = "remote"],
          [s EXCEPT !.jwks = "remote", !.refresh = 1], [s EXCEPT !.text = "bad"],
          [s EXCEPT !.jwks = "file", !.refresh = 1]}
    [] k = "external_auth" ->
         {[s EXCEPT !.endpoint = "bad"], [s EXCEPT !.protocol = "grpc"], [s EXCEPT !.timeout = 0],
          [s EXCEPT !.mappings = {[source |-> "blank", target |-> "ok"]}]}
    [] k = "authorization" -> {[s EXCEPT !.rules[1].matchers = {}], [s EXCEPT !.rules = <<>>]}
    [] k = "identity" ->
         {[s EXCEPT !.bundle = "bad"], [s EXCEPT !.allowed_ids = {}], [s EXCEPT !.spire = TRUE],
          [s EXCEPT !.spire = TRUE, !.domain = "blank"], [s EXCEPT !.bundle_file = TRUE]}
    [] k = "classification" -> {[s EXCEPT !.block = 1], [s EXCEPT !.weights = {0}]}

\* One policy of the kind changed, renamed, or joined by a second one.
PolicyVariants(k, ps) ==
  {<<[ps[1] EXCEPT !.spec = s]>> : s \in SpecVariants(k, ps[1].spec)}
  \cup {<<[ps[1] EXCEPT !.name = n]>> : n \in {Padded(ps[1].name), Blanked(ps[1].name)}}
  \cup {Append(ps, [ps[1] EXCEPT !.name = n]) : n \in {ps[1].name, N(32)}}

BindingVariants(b) ==
  {[b EXCEPT !.single[k] = n] : k \in SingleKinds, n \in {N(31), N(32), Padded(N(31)), NoName}}
  \cup {[b EXCEPT !.limits[k] = r] : k \in LimitKinds,
                                     r \in {<<N(31)>>, <<Padded(N(31))>>, <<N(31), N(31)>>}}

ListenerVariants(l) ==
  {[l EXCEPT !.name = n] : n \in {N(2), N(3), Padded(l.name), Blanked(l.name)}}
  \cup {[l EXCEPT !.protocol = p] : p \in {"http1", "http2", "https", "http3", "tcp"}}
  \cup {[l EXCEPT !.class = c] : c \in {"public", "admin"}}
  \cup {[l EXCEPT !.address = a, !.bind_mode = m] :
          a \in {"v4", "any", "v6_any"}, m \in {"single", "dual"}}
  \cup {[l EXCEPT !.allow_unspecified = TRUE], [l EXCEPT !.limits = 0], [l EXCEPT !.limits = 1],
        [l EXCEPT !.proxy_protocol = TRUE], [l EXCEPT !.upgrade = <<"websocket">>]}
  \cup {[l EXCEPT !.tls = t] : t \in {NoTls, OkTls, [OkTls EXCEPT !.alpn = <<"h3">>],
                                      [OkTls EXCEPT !.source.paths = "bad"],
                                      [OkTls EXCEPT !.cache_size = 0],
                                      [OkTls EXCEPT !.sni[1].names = <<"a", "a">>]}}
  \cup {[l EXCEPT !.admin.default = FALSE, !.admin.cidrs = c] : c \in {{}, {"bad"}}}
  \cup {[l EXCEPT !.admin.auth = "signed", !.admin.operators = o] :
          o \in {<<>>, <<[id |-> N(1), secret |-> "ok", permissions |-> <<"read">>]>>}}
  \cup {[l EXCEPT !.routes = r] : r \in {<<>>, <<N(11)>>, <<N(11), N(19)>>, <<Padded(N(11))>>}}
  \cup {[l EXCEPT !.policies = b] : b \in BindingVariants(l.policies)}

RouteVariants(r) ==
  {[r EXCEPT !.name = n] : n \in {N(11), N(13), Padded(r.name)}}
  \cup {[r EXCEPT !.match.prefix = "blank"], [r EXCEPT !.match.methods = {"GET"}],
        [r EXCEPT !.match.filters = {"bad"}], [r EXCEPT !.upgrade = <<"websocket">>]}
  \cup {[r EXCEPT !.cluster = n] : n \in {N(21), Padded(N(21)), N(29), NoName}}
  \cup {[r EXCEPT !.policies = b] : b \in BindingVariants(r.policies)}
  \cup IF r.destinations = <<>> THEN {}
       ELSE {[r EXCEPT !.destinations[2].weight = 0], [r EXCEPT !.destinations = Tail(@)]}
            \cup {[r EXCEPT !.destinations[2].cluster = n] : n \in {N(22), Padded(N(22)), N(29)}}
            \cup {[r EXCEPT !.destinations[2].policies = b] :
                    b \in BindingVariants(r.destinations[2].policies)}

ClusterVariants(c) ==
  {[c EXCEPT !.name = n] : n \in {N(21), N(23), Padded(c.name)}}
  \cup {[c EXCEPT !.endpoints = e] :
          e \in {<<>>, c.endpoints \o c.endpoints, <<[Endpoint EXCEPT !.address = "port0"]>>,
                 <<[Endpoint EXCEPT !.weight = 0]>>}}
  \cup {[c EXCEPT !.endpoints = <<>>, !.discovery = "ok"], [c EXCEPT !.discovery = "ok"],
        [c EXCEPT !.affinity = "blank"]}
  \cup {[c EXCEPT !.policies = b] : b \in BindingVariants(c.policies)}

SecurityVariants(s) ==
  {[s EXCEPT !.dev_mode = TRUE, !.acknowledgement = a, !.enforced = FALSE] : a \in {"none", "ok"}}
  \cup {[s EXCEPT !.enforced = FALSE], [s EXCEPT !.signers = @ \o @],
        [s EXCEPT !.signers[1].key = "bad"], [s EXCEPT !.trusted_cidrs = {"bad"}],
        [s EXCEPT !.anonymous_cidrs = {"bad"}]}

FieldEdits(config) ==
  UNION {{[config EXCEPT !.policies[k] = p] : p \in PolicyVariants(k, config.policies[k])} :
         k \in PolicyKinds}
  \cup UNION {{[config EXCEPT !.listeners[i] = l] : l \in ListenerVariants(config.listeners[i])} :
              i \in DOMAIN config.listeners}
  \cup UNION {{[config EXCEPT !.routes[i] = r] : r \in RouteVariants(config.routes[i])} :
              i \in DOMAIN config.routes}
  \cup UNION {{[config EXCEPT !.clusters[i] = c] : c \in ClusterVariants(config.clusters[i])} :
              i \in DOMAIN config.clusters}
  \cup {[config EXCEPT !.security = s] : s \in SecurityVariants(config.security)}
  \cup {[config EXCEPT !.defaults.limits = 0], [config EXCEPT !.defaults.allow_unspecified = TRUE],
        [config EXCEPT !.name = Blanked(@)],
        [config EXCEPT !.listeners = Tail(@)], [config EXCEPT !.routes = Reverse(@)]}

\* The first edit prepares a combination, the second changes any field.
Preludes(config) ==
  {[config EXCEPT !.policies["mirror"][1].spec.target = N(21)],
   [config EXCEPT !.policies["timeouts"][1].spec.per_try = 1,
                  !.policies["cache"] = Append(@, [@[1] EXCEPT !.name = N(32)])],
   [config EXCEPT !.routes[1].destinations[2].policies.limits["rate"] = <<N(31)>>],
   [config EXCEPT !.policies["rate"][1].name = Padded(@),
                  !.routes[1].policies.limits["rate"] = <<Padded(N(31))>>],
   [config EXCEPT !.clusters[1].endpoints = <<>>, !.clusters[1].discovery = "ok"]}

MCEdits(config, n) == IF n = MaxEdits THEN FieldEdits(config) ELSE Preludes(config)

=============================================================================
