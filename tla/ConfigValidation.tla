-------------------------- MODULE ConfigValidation --------------------------
(***************************************************************************)
(* The validator of a workspace configuration                              *)
(* (crates/config-model/src/validator), which every reload, publication    *)
(* and start-up runs before anything is compiled.  A report is the set of  *)
(* <<category, code>> of the errors the code pushes.                       *)
(***************************************************************************)
EXTENDS Integers, Sequences, FiniteSets, Functions, SequencesExt

----------------------------------------------------------------------------
(***************************************************************************)
(* The shape of a workspace configuration (crates/config-model/src), as    *)
(* far as the validator and the compilers tell its values apart.           *)
(*                                                                         *)
(* A name is [id, pad, up]: what is left after trimming and lowercasing,   *)
(* and whether white space surrounds it or it has capitals; id 0 is the    *)
(* empty name and NoName an absent reference.  A text is "ok", "blank" or  *)
(* "bad" (present, and refused by the parser or the reader of its kind).   *)
(* The counts of a policy that are all refused at zero, and nothing else,  *)
(* are the set counts; texts does the same for its required texts.  A      *)
(* number that may be left out is -1 then.                                 *)
(***************************************************************************)
Name == [id : Int, pad : BOOLEAN, up : BOOLEAN]

NoName == [id |-> -1, pad |-> FALSE, up |-> FALSE]

Text == {"ok", "blank", "bad"}

OptionalText == Text \cup {"none"}

LimitKinds == {"rate", "concurrency"}

AuthKinds == {"jwt", "external_auth", "authorization"}

ResilienceKinds == {"retry", "timeouts", "breaker"}

SingleKinds ==
  AuthKinds \cup ResilienceKinds
  \cup {"overload", "edge", "cache", "transform", "mirror", "fault", "identity",
        "classification"}

PolicyKinds == LimitKinds \cup SingleKinds

-----------------------------------------------------------------------------
(***************************************************************************)
(* The policies.                                                           *)
(***************************************************************************)
TargetKind == {"listener", "route", "destination", "cluster"}

LocalLimitScopeConfig == [kind : TargetKind, names : Seq(Name)]

LocalRateLimitPolicyConfig == [scope : LocalLimitScopeConfig, counts : SUBSET Nat]

LocalConcurrencyLimitPolicyConfig == [scope : LocalLimitScopeConfig, counts : SUBSET Nat]

RetryBudgetPolicyConfig == [window : Nat]

TimeoutHierarchyConfig ==
  [request : Nat, attempt : Nat, per_try : Nat \cup {-1}, connect : Nat, idle : Nat]

CircuitBreakerPolicyConfig == [counts : SUBSET Nat]

OverloadResponsePolicyConfig ==
  [window : Nat, constrained : Nat, shedding : Nat, brownout : Nat, features : Seq(Name)]

HostileEdgeProtectionPolicyConfig == [quota : BOOLEAN, handshake : BOOLEAN, counts : SUBSET Nat]

HeaderName == {"ok", "bad", "framing", "host", "a", "b", "blank"}

HeaderMutationConfig == [name : HeaderName, value : OptionalText]

TransformPolicyConfig ==
  [path : OptionalText, host : OptionalText, request : Seq(HeaderMutationConfig),
   response : Seq(HeaderMutationConfig)]

TrafficMirrorPolicyConfig == [percentage : Nat, target : Name, methods : SUBSET Text]

FaultInjectionPolicyConfig ==
  [delay : BOOLEAN, abort : BOOLEAN, delay_counts : SUBSET Nat, abort_percentage : Nat,
   status : Nat]

CacheKeyPolicyConfig == [headers : Seq(HeaderName), host : BOOLEAN, method : BOOLEAN]

HttpCachePolicyConfig ==
  [methods : Seq({"GET", "HEAD"}), default_ttl : Nat, max_ttl : Nat, max_object : Nat,
   statuses : SUBSET Nat, vary : Seq(HeaderName), key : CacheKeyPolicyConfig,
   max_entries : Nat, max_bytes : Nat]

JwtAuthPolicyConfig ==
  [issuers : SUBSET {"i"}, audiences : SUBSET {"a"}, jwks : {"none", "file", "remote", "inline"},
   text : Text, refresh : Nat]

ExternalAuthPolicyConfig ==
  [endpoint : Text, protocol : {"http", "grpc"}, timeout : Nat, headers : SUBSET Text,
   mappings : SUBSET [source : Text, target : Text]]

AuthorizationPolicyConfig ==
  [rules : Seq([name : Name, matchers : SUBSET {"claim", "scope", "role"}])]

UpstreamIdentityPolicyConfig ==
  [spire : BOOLEAN, socket : OptionalText, domain : OptionalText, bundle : Text,
   bundle_file : BOOLEAN, refresh : Nat, allowed_ids : SUBSET Text,
   allowed_domains : SUBSET Text]

RequestClassificationPolicyConfig ==
  [challenge : Nat, block : Nat, weights : SUBSET Nat, headers : SUBSET Text,
   texts : SUBSET Text, counts : SUBSET Nat]

SpecOfKind ==
  [rate |-> LocalRateLimitPolicyConfig, concurrency |-> LocalConcurrencyLimitPolicyConfig,
   retry |-> RetryBudgetPolicyConfig, timeouts |-> TimeoutHierarchyConfig,
   breaker |-> CircuitBreakerPolicyConfig, overload |-> OverloadResponsePolicyConfig,
   edge |-> HostileEdgeProtectionPolicyConfig, transform |-> TransformPolicyConfig,
   mirror |-> TrafficMirrorPolicyConfig, fault |-> FaultInjectionPolicyConfig,
   cache |-> HttpCachePolicyConfig, jwt |-> JwtAuthPolicyConfig,
   external_auth |-> ExternalAuthPolicyConfig, authorization |-> AuthorizationPolicyConfig,
   identity |-> UpstreamIdentityPolicyConfig,
   classification |-> RequestClassificationPolicyConfig]

IsPolicyResources(policies) ==
  /\ DOMAIN policies = PolicyKinds
  /\ \A k \in PolicyKinds : policies[k] \in Seq([name : Name, spec : SpecOfKind[k]])

PolicyBindingConfig == [limits : [LimitKinds -> Seq(Name)], single : [SingleKinds -> Name]]

-----------------------------------------------------------------------------
(***************************************************************************)
(* The resources.  limits stands for the four overrides of a listener      *)
(* (connections, backlog, idle and drain timeout).                         *)
(***************************************************************************)
CertificateSourceConfig == [paths : Text, ocsp : OptionalText]

NoTls == [present |-> FALSE]

ListenerTlsTerminationConfig ==
  [present : {TRUE}, source : CertificateSourceConfig,
   sni : Seq([names : Seq(HeaderName), source : CertificateSourceConfig]),
   resumption : {"disabled", "stateful", "tickets", "hybrid"}, cache_size : Nat,
   tickets : Nat, alpn : Seq({"h1", "h2", "h3"})]

Permissions == Seq({"read", "audit", "write"})

AdminListenerPolicyConfig ==
  [default : BOOLEAN, cidrs : SUBSET Text, rate : Nat, retained : Nat,
   auth : {"bearer", "signed"}, secret : Text, permissions : Permissions,
   operators : Seq([id : Name, secret : Text, permissions : Permissions]),
   skew : Nat, ttl : Nat]

Upgrades == Seq({"websocket"})

ListenerResourceConfig ==
  [name : Name, class : {"public", "admin"},
   protocol : {"tcp", "http1", "http2", "https", "http3"},
   address : {"loopback", "v4", "any", "v6", "v6_any"},
   bind_mode : {"single", "dual", "v6_only"}, allow_unspecified : BOOLEAN,
   limits : Nat \cup {-1}, proxy_protocol : BOOLEAN, upgrade : Upgrades,
   tls : ListenerTlsTerminationConfig \cup {NoTls}, admin : AdminListenerPolicyConfig,
   routes : Seq(Name), policies : PolicyBindingConfig]

RouteMatchConfig ==
  [prefix : Text, filters : SUBSET Text, methods : SUBSET {"GET", "POST", "bad"},
   content_types : SUBSET {"grpc", "other", "bad"}, grpc : SUBSET Text]

RouteDestinationConfig == [cluster : Name, weight : Nat, policies : PolicyBindingConfig]

RouteConfig ==
  [name : Name, match : RouteMatchConfig, cluster : Name,
   destinations : Seq(RouteDestinationConfig), policies : PolicyBindingConfig,
   upgrade : Upgrades]

UpstreamEndpointConfig ==
  [id : Name, address : {"v4", "any", "port0"}, weight : Nat, zone : OptionalText]

UpstreamClusterConfig ==
  [name : Name, endpoints : Seq(UpstreamEndpointConfig), discovery : OptionalText,
   affinity : OptionalText, policies : PolicyBindingConfig]

WorkspaceSecurityConfig ==
  [dev_mode : BOOLEAN, acknowledgement : OptionalText, enforced : BOOLEAN,
   signers : Seq([identity : Name, key : Text, too_long : BOOLEAN]),
   anonymous_cidrs : SUBSET Text, trusted_cidrs : SUBSET Text]

WorkspaceDefaultsConfig ==
  [limits : Nat, http1 : Nat, http2 : Nat, allow_unspecified : BOOLEAN]

IsWorkspaceConfig(config) ==
  /\ config.name \in Name
  /\ config.security \in WorkspaceSecurityConfig
  /\ config.defaults \in WorkspaceDefaultsConfig
  /\ IsPolicyResources(config.policies)
  /\ config.listeners \in Seq(ListenerResourceConfig)
  /\ config.routes \in Seq(RouteConfig)
  /\ config.clusters \in Seq(UpstreamClusterConfig)

----------------------------------------------------------------------------
Trim(name) == [name EXCEPT !.pad = FALSE]

normalize_component(name) == [Trim(name) EXCEPT !.up = FALSE]

Blank(name) == name.id = 0

Schema(found, code) == IF found THEN {<<"schema", code>>} ELSE {}

Semantic(found, code) == IF found THEN {<<"semantic", code>>} ELSE {}

Named(names) == SelectSeq(names, LAMBDA n : ~Blank(n))

Trimmed(names) == [i \in DOMAIN names |-> Trim(names[i])]

\* A sequence some element of which occurs twice.
Repeats(s) == ~IsInjective(s)

All(seq, errors(_)) == UNION {errors(x) : x \in Range(seq)}

NamesOf(resources) == [i \in DOMAIN resources |-> resources[i].name]

(***************************************************************************)
(* Resource and policy names: blank ones are refused, the others must be   *)
(* distinct once trimmed.                                                  *)
(***************************************************************************)
collect_named_resources(resources) ==
  LET names == Trimmed(NamesOf(resources))
  IN  Schema(\E n \in Range(names) : Blank(n), "EmptyResourceName")
      \cup Schema(Repeats(Named(names)), "DuplicateResourceName")

register_policy_name(policies) ==
  LET names == Trimmed(NamesOf(policies))
  IN  Schema(\E n \in Range(names) : Blank(n), "EmptyResourceName")
      \cup Schema(Repeats(Named(names)), "DuplicateResourceName")

Known(resources) == Range(Named(Trimmed(NamesOf(resources))))

(***************************************************************************)
(* Security posture and shared defaults.                                   *)
(***************************************************************************)
validate_anonymous_source_filter(security) ==
  Schema("bad" \in security.anonymous_cidrs, "InvalidSecurityDefaults")

validate_security(security) ==
  LET signers == security.signers
      names   == [i \in DOMAIN signers |-> Trim(signers[i].identity)]
      blank(s) == Blank(s.identity) \/ s.key = "blank"
  IN  Schema(security.dev_mode /\ security.acknowledgement /= "ok",
             "InvalidSecurityDefaults")
      \cup Semantic(~security.enforced /\ ~security.dev_mode, "InsecureModeGated")
      \cup Schema(security.enforced /\ \E s \in Range(signers) : blank(s),
                  "InvalidSecurityDefaults")
      \cup Schema(\E s \in Range(signers) : s.too_long \/ s.key /= "ok",
                  "InvalidSecurityDefaults")
      \cup Schema(Repeats(names), "InvalidSecurityDefaults")
      \cup validate_anonymous_source_filter(security)
      \cup Schema("bad" \in security.trusted_cidrs, "InvalidSecurityDefaults")

validate_workspace_basics(config) == Schema(Blank(config.name), "EmptyWorkspaceName")

validate_defaults(defaults) ==
  Schema(defaults.limits = 0, "InvalidListenerDefaults")
  \cup Schema(defaults.http1 = 0, "InvalidHttp1Defaults")
  \cup Schema(defaults.http2 = 0, "InvalidHttp2Defaults")

(***************************************************************************)
(* The policies, kind by kind: an operator maps the spec of a policy to    *)
(* the errors it raises.                                                   *)
(***************************************************************************)
Field(found) == Schema(found, "InvalidPolicyField")

validate_local_limit_scope(scope) == Field(\E n \in Range(scope.names) : Blank(n))

validate_rate_limit_policy(spec) ==
  validate_local_limit_scope(spec.scope) \cup Field(0 \in spec.counts)

validate_concurrency_limit_policy(spec) ==
  validate_local_limit_scope(spec.scope) \cup Field(0 \in spec.counts)

validate_retry_budget(spec) == Field(spec.window = 0)

\* The per-try timeout takes the attempt timeout's place when it is set.
PerTry(spec) == IF spec.per_try = -1 THEN spec.attempt ELSE spec.per_try

validate_timeout_hierarchy(spec) ==
  Field(\/ 0 \in {spec.request, spec.attempt, PerTry(spec), spec.connect, spec.idle}
        \/ PerTry(spec) > spec.request
        \/ spec.connect > PerTry(spec)
        \/ spec.idle > PerTry(spec))

validate_circuit_breaker(spec) == Field(0 \in spec.counts)

validate_overload_policy(spec) ==
  LET names == [i \in DOMAIN spec.features |-> normalize_component(spec.features[i])]
  IN  Field(\/ 0 \in {spec.window, spec.constrained, spec.shedding, spec.brownout}
            \/ spec.constrained > spec.shedding
            \/ spec.shedding > spec.brownout)
      \cup Field(\E n \in Range(names) : Blank(n))
      \cup Schema(Repeats(Named(names)), "DuplicateResourceName")

validate_hostile_edge_policy(spec) ==
  Field(~spec.quota /\ ~spec.handshake) \cup Field(0 \in spec.counts)

\* The hop-by-hop and framing headers no transform may touch; a request
\* transform may not touch Host either.
DisallowedHeaders(target) ==
  IF target = "request" THEN {"framing", "host"} ELSE {"framing"}

validate_header_mutations(mutations, target) ==
  Field(\E m \in Range(mutations) : m.name \in DisallowedHeaders(target) \cup {"bad"})
  \cup Field(\E m \in Range(mutations) : m.name # "bad" /\ m.value \in {"blank", "bad"})

validate_named_header_list(headers) ==
  LET present == SelectSeq(headers, LAMBDA h : h # "blank")
  IN  Field("blank" \in Range(headers) \/ "framing" \in Range(headers))
      \cup Schema(Repeats(present), "DuplicateResourceName")

validate_cache_key_policy(key) ==
  validate_named_header_list(key.headers)
  \cup Field(~key.host /\ ~key.method /\ key.headers = <<>>)

validate_http_cache_policy(spec) ==
  Field(spec.methods = <<>>)
  \cup Schema(Repeats(spec.methods), "DuplicateResourceName")
  \cup Field(0 \in {spec.default_ttl, spec.max_ttl, spec.max_object}
             \/ spec.default_ttl > spec.max_ttl)
  \cup Field(spec.statuses = {} \/ \E s \in spec.statuses : s \notin 100..599)
  \cup validate_named_header_list(spec.vary)
  \cup validate_cache_key_policy(spec.key)
  \cup Field(0 \in {spec.max_entries, spec.max_bytes})

validate_transform_policy(spec) ==
  Field(spec.path = "none" /\ spec.host = "none" /\ spec.request = <<>>
        /\ spec.response = <<>>)
  \cup Field(spec.path \in {"blank", "bad"})
  \cup Field(spec.host \in {"blank", "bad"})
  \cup validate_header_mutations(spec.request, "request")
  \cup validate_header_mutations(spec.response, "response")

validate_traffic_mirror(spec, clusters) ==
  Field(spec.percentage = 0)
  \cup Field(Blank(spec.target))
  \cup Semantic(~Blank(spec.target) /\ Trim(spec.target) \notin Known(clusters),
                "InvalidUpstreamReference")
  \cup Field("bad" \in spec.methods)

validate_fault_injection(spec) ==
  Field(~spec.delay /\ ~spec.abort)
  \cup Field(spec.delay /\ 0 \in spec.delay_counts)
  \cup Field(spec.abort /\ (spec.abort_percentage = 0 \/ spec.status \notin 400..599))

validate_jwt_auth_policy(spec) ==
  Field(spec.issuers = {}) \cup Field(spec.audiences = {})
  \cup Field(spec.jwks = "none")
  \cup Field(spec.jwks # "none" /\ spec.text = "blank")
  \cup Field(spec.jwks \in {"file", "remote"} /\ spec.refresh = 0)

validate_external_auth_policy(spec) ==
  Field(spec.endpoint = "blank") \cup Field(spec.timeout = 0)
  \cup Field("bad" \in spec.headers)
  \cup Field(\E m \in spec.mappings : m.source = "blank" \/ m.target = "bad")

validate_authorization_policy(spec) ==
  Field(\E r \in Range(spec.rules) : Blank(r.name))
  \cup Field(\E r \in Range(spec.rules) : r.matchers = {})

validate_upstream_identity_policy(spec) ==
  Field(spec.spire /\ "blank" \in {spec.socket, spec.domain})
  \cup Field(spec.bundle = "blank")
  \cup Field(spec.bundle_file /\ spec.refresh = 0)
  \cup Field(spec.allowed_ids = {} /\ spec.allowed_domains = {})
  \cup Field("bad" \in spec.allowed_ids)

validate_request_classification_policy(spec) ==
  Field(spec.challenge >= spec.block)
  \cup Field(spec.weights \subseteq {0})
  \cup Field("bad" \in spec.headers)
  \cup Field("blank" \in spec.texts)
  \cup Field(0 \in spec.counts)

SpecErrors(kind, spec, clusters) ==
  CASE kind = "rate"           -> validate_rate_limit_policy(spec)
    [] kind = "concurrency"    -> validate_concurrency_limit_policy(spec)
    [] kind = "retry"          -> validate_retry_budget(spec)
    [] kind = "timeouts"       -> validate_timeout_hierarchy(spec)
    [] kind = "breaker"        -> validate_circuit_breaker(spec)
    [] kind = "overload"       -> validate_overload_policy(spec)
    [] kind = "edge"           -> validate_hostile_edge_policy(spec)
    [] kind = "cache"          -> validate_http_cache_policy(spec)
    [] kind = "transform"      -> validate_transform_policy(spec)
    [] kind = "mirror"         -> validate_traffic_mirror(spec, clusters)
    [] kind = "fault"          -> validate_fault_injection(spec)
    [] kind = "jwt"            -> validate_jwt_auth_policy(spec)
    [] kind = "external_auth"  -> validate_external_auth_policy(spec)
    [] kind = "authorization"  -> validate_authorization_policy(spec)
    [] kind = "identity"       -> validate_upstream_identity_policy(spec)
    [] kind = "classification" -> validate_request_classification_policy(spec)

PolicyRegistryErrors(config) ==
  UNION {register_policy_name(config.policies[k])
         \cup All(config.policies[k],
                  LAMBDA p : SpecErrors(k, p.spec, config.clusters)) :
         k \in PolicyKinds}

(***************************************************************************)
(* A binding lists limit policies and names at most one policy of every    *)
(* other kind.  A target is [kind, names]: what the binding belongs to.    *)
(***************************************************************************)
validate_scope_match(scope, target) ==
  /\ scope.kind = target.kind
  /\ \A i \in DOMAIN scope.names :
       normalize_component(scope.names[i]) = normalize_component(target.names[i])

validate_multi_policy_refs(refs, policies) ==
  LET names == Trimmed(refs)
  IN  Schema(\E n \in Range(names) : Blank(n), "InvalidPolicyReference")
      \cup Semantic(Repeats(Named(names)), "DuplicatePolicyReference")
      \cup Semantic(~(Range(Named(names)) \subseteq Known(policies)),
                    "InvalidPolicyReference")

MutantScopeUnchecked(refs, policies, target) == {}

\* The scopes are filed under the policy's name as it is written, and looked
\* up by the trimmed reference.
validate_limit_scopes(refs, policies, target) ==
  Semantic(\E r \in Range(refs), p \in Range(policies) :
             /\ Trim(r) = p.name
             /\ ~validate_scope_match(p.spec.scope, target),
           "InvalidPolicyScope")

validate_single_policy_ref(ref, policies) ==
  Schema(Blank(ref), "InvalidPolicyReference")
  \cup Semantic(ref # NoName /\ ~Blank(ref) /\ Trim(ref) \notin Known(policies),
                "InvalidPolicyReference")

\* The kinds a binding of a target may not name.
MisplacedKinds(target) ==
  CASE target = "listener"    -> {"mirror", "fault", "identity"}
    [] target = "route"       -> {"edge", "mirror", "fault", "identity"}
    [] target = "destination" -> {"edge", "overload", "cache"}
    [] target = "cluster"     -> {"edge", "transform", "mirror", "fault",
                                  "classification"} \cup AuthKinds

validate_mirror_target(binding, target, config) ==
  Semantic(/\ target.kind = "destination"
           /\ \E p \in Range(config.policies["mirror"]) :
                /\ p.name = binding.single["mirror"]
                /\ p.spec.target = target.names[2],
           "InvalidPolicyField")

validate_policy_binding(binding, target, config) ==
  UNION {validate_multi_policy_refs(binding.limits[k], config.policies[k])
         \cup validate_limit_scopes(binding.limits[k], config.policies[k], target) :
         k \in LimitKinds}
  \cup UNION {validate_single_policy_ref(binding.single[k], config.policies[k]) :
              k \in SingleKinds}
  \cup Semantic(\E k \in MisplacedKinds(target.kind) : binding.single[k] # NoName,
                "InvalidPolicyScope")
  \cup validate_mirror_target(binding, target, config)

(***************************************************************************)
(* Listeners.                                                              *)
(***************************************************************************)
ListenerField(found) == Schema(found, "InvalidListenerField")

UpgradeCapable(listener) ==
  listener.class = "public" /\ listener.protocol \in {"http1", "https"}

validate_upgrade_policy(protocols, code) == Schema(Repeats(protocols), code)

validate_bind_mode(listener) ==
  LET v6 == listener.address \in {"v6", "v6_any"}
  IN  ListenerField(listener.bind_mode # "single" /\ ~v6)
      \cup ListenerField(listener.bind_mode = "dual" /\ v6 /\ listener.address # "v6_any")

CertificateErrors(source) ==
  ListenerField(source.paths = "blank") \cup ListenerField(source.ocsp = "blank")

validate_tls_termination(listener) ==
  LET tls   == listener.tls
      sni   == tls.sni
      names == FlattenSeq([i \in DOMAIN sni |-> sni[i].names])
      valid == SelectSeq(names, LAMBDA n : n # "bad")
  IN  IF listener.protocol \notin {"https", "http3"}
      THEN Semantic(tls.present, "InvalidListenerField")
      ELSE IF ~tls.present THEN ListenerField(TRUE)
      ELSE CertificateErrors(tls.source)
           \cup All(sni, LAMBDA c : CertificateErrors(c.source))
           \cup ListenerField(\E c \in Range(sni) : c.names = <<>>)
           \cup ListenerField("bad" \in Range(names) \/ Repeats(valid))
           \cup ListenerField(tls.resumption \in {"stateful", "hybrid"} /\ tls.cache_size = 0)
           \cup ListenerField(tls.resumption \in {"tickets", "hybrid"} /\ tls.tickets = 0)
           \cup ListenerField(tls.alpn = <<>> \/ Repeats(tls.alpn))
           \cup ListenerField(listener.protocol = "http3" /\ Range(tls.alpn) # {"h3"})

validate_admin_permissions(permissions) ==
  ListenerField(permissions = <<>> \/ Repeats(permissions))

validate_admin_listener_policy(listener, dev_mode) ==
  LET admin == listener.admin
      ids   == [i \in DOMAIN admin.operators |-> Trim(admin.operators[i].id)]
  IN  IF listener.class # "admin" THEN Semantic(~admin.default, "InvalidListenerField")
      ELSE Semantic(/\ listener.protocol = "http1"
                    /\ listener.address # "loopback"
                    /\ ~dev_mode, "InvalidListenerField")
           \cup ListenerField("bad" \in admin.cidrs)
           \cup ListenerField(0 \in {admin.rate, admin.retained})
           \cup IF admin.auth = "bearer"
                THEN ListenerField(admin.secret = "blank")
                     \cup validate_admin_permissions(admin.permissions)
                ELSE ListenerField(admin.operators = <<>> \/ 0 \in {admin.skew, admin.ttl})
                     \cup ListenerField(\E o \in Range(admin.operators) :
                                          Blank(o.id) \/ o.secret = "blank")
                     \cup Schema(Repeats(Named(ids)), "DuplicateResourceName")
                     \cup All(admin.operators,
                              LAMBDA o : validate_admin_permissions(o.permissions))

validate_listener_routes(listener, config) ==
  LET refs == Trimmed(listener.routes)
  IN  Schema(\E r \in Range(refs) : Blank(r), "InvalidRouteReference")
      \cup Semantic(Repeats(Named(refs)), "DuplicateResourceName")
      \cup Semantic(~(Range(Named(refs)) \subseteq Known(config.routes)),
                    "InvalidRouteReference")
      \cup Semantic(/\ ~UpgradeCapable(listener)
                    /\ \E r \in Range(config.routes) :
                         r.name \in Range(refs) /\ r.upgrade # <<>>,
                    "InvalidListenerField")

validate_listener(listener, config) ==
  Schema(Blank(listener.name), "EmptyResourceName")
  \cup ListenerField(listener.limits = 0)
  \cup validate_bind_mode(listener)
  \cup Semantic(listener.protocol = "tcp" /\ listener.routes # <<>>,
                "UnsupportedListenerRouting")
  \cup Semantic(/\ listener.proxy_protocol
                /\ listener.class # "public" \/ listener.protocol = "http3",
                "InvalidListenerField")
  \cup Semantic(listener.protocol = "http3" /\ listener.class # "public",
                "InvalidListenerField")
  \cup validate_upgrade_policy(listener.upgrade, "InvalidListenerField")
  \cup Semantic(listener.upgrade # <<>> /\ ~UpgradeCapable(listener),
                "InvalidListenerField")
  \cup validate_tls_termination(listener)
  \cup validate_admin_listener_policy(listener, config.security.dev_mode)
  \cup validate_listener_routes(listener, config)
  \cup validate_policy_binding(listener.policies,
         [kind |-> "listener", names |-> <<listener.name>>], config)

(***************************************************************************)
(* Routes.                                                                 *)
(***************************************************************************)
NoBinding ==
  [limits |-> [k \in LimitKinds |-> <<>>], single |-> [k \in SingleKinds |-> NoName]]

\* The order of RouteDestinationConfig: by cluster name, then by weight.
Before(d, e) ==
  LET key(x) == <<IF x.cluster.pad THEN 0 ELSE 1, x.cluster.id, x.weight>>
      a == key(d)
      b == key(e)
  IN  \E i \in 1..3 : a[i] < b[i] /\ \A j \in 1..(i - 1) : a[j] = b[j]

normalized_destinations(route) ==
  SortSeq(IF route.destinations # <<>> THEN route.destinations
          ELSE IF route.cluster = NoName THEN <<>>
          ELSE <<[cluster |-> route.cluster, weight |-> 1, policies |-> NoBinding]>>,
          Before)

validate_route_match(match) ==
  LET grpc == match.grpc # {}
  IN  Schema(\/ match.prefix = "blank"
             \/ "bad" \in match.filters \cup match.methods \cup match.content_types
                          \cup match.grpc
             \/ grpc /\ "grpc" \notin match.content_types
             \/ grpc /\ ~(match.methods \subseteq {"POST"}), "InvalidRouteMatch")

validate_route_destinations(route, config) ==
  LET destinations == normalized_destinations(route)
      names == [i \in DOMAIN destinations |-> Trim(destinations[i].cluster)]
      named == SelectSeq(destinations, LAMBDA d : ~Blank(d.cluster))
  IN  Schema(route.cluster # NoName /\ route.destinations # <<>>,
             "InvalidUpstreamReference")
      \cup Schema(names = <<>> \/ \E n \in Range(names) : Blank(n),
                  "InvalidUpstreamReference")
      \cup Schema(\E d \in Range(named) : d.weight = 0, "InvalidUpstreamReference")
      \cup Semantic(Repeats(Named(names)), "InvalidUpstreamReference")
      \cup Semantic(~(Range(Named(names)) \subseteq Known(config.clusters)),
                    "InvalidUpstreamReference")
      \cup IF route.destinations = <<>> THEN {}
           ELSE All(named, LAMBDA d : validate_policy_binding(d.policies,
                  [kind |-> "destination", names |-> <<route.name, Trim(d.cluster)>>],
                  config))

validate_route(route, config) ==
  Schema(Blank(route.name), "EmptyResourceName")
  \cup validate_upgrade_policy(route.upgrade, "InvalidRouteMatch")
  \cup validate_route_match(route.match)
  \cup validate_route_destinations(route, config)
  \cup validate_policy_binding(route.policies,
         [kind |-> "route", names |-> <<route.name>>], config)

(***************************************************************************)
(* Upstream clusters.                                                      *)
(***************************************************************************)
UpstreamField(found) == Schema(found, "InvalidUpstreamField")

\* discovery is "none", or the state of the texts and the port it needs.
validate_discovery_source(discovery) == UpstreamField(discovery \in {"blank", "bad"})

\* The header or cookie a hash affinity uses must be a token.
validate_affinity(affinity) == UpstreamField(affinity \in {"blank", "bad"})

validate_upstream_cluster(cluster, config) ==
  LET endpoints == cluster.endpoints
      ids       == [i \in DOMAIN endpoints |-> Trim(endpoints[i].id)]
  IN  Schema(Blank(cluster.name), "EmptyResourceName")
      \cup UpstreamField(\E e \in Range(endpoints) :
                          Blank(e.id) \/ e.weight = 0 \/ e.zone = "blank")
      \cup Schema(Repeats(Named(ids)), "DuplicateResourceName")
      \cup UpstreamField((endpoints = <<>>) = (cluster.discovery = "none"))
      \cup validate_discovery_source(cluster.discovery)
      \cup validate_affinity(cluster.affinity)
      \cup validate_policy_binding(cluster.policies,
             [kind |-> "cluster", names |-> <<cluster.name>>], config)

validate_workspace_config(config) ==
  validate_workspace_basics(config)
  \cup validate_defaults(config.defaults)
  \cup validate_security(config.security)
  \cup collect_named_resources(config.listeners)
  \cup collect_named_resources(config.routes)
  \cup collect_named_resources(config.clusters)
  \cup PolicyRegistryErrors(config)
  \cup All(config.listeners, LAMBDA l : validate_listener(l, config))
  \cup All(config.routes, LAMBDA r : validate_route(r, config))
  \cup All(config.clusters, LAMBDA c : validate_upstream_cluster(c, config))

=============================================================================
