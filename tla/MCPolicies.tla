----------------------------- MODULE MCPolicies -----------------------------
(***************************************************************************)
(* Small instances of the policies: which are in force (the configuration  *)
(* is validated, compiled, run and restored), and what they decide of a    *)
(* request: the screening of its source, its authentication and            *)
(* authorization, the classification of its content, the policy plugins,   *)
(* its route and the headers it is forwarded with.  A behaviour follows    *)
(* one mix, which names the part, its configuration and how often the      *)
(* steps of the environment happen.                                        *)
(***************************************************************************)
EXTENDS SourceScreening, RequestAuth, RequestClassification, PolicyPlugins, Http1Messages

CONSTANTS
    Bases, Edits(_, _), MaxEdits, Foundation,
    Mixes

VARIABLES
    draft, edits, running,  \* of Configuration
    budget

Workspace == INSTANCE Configuration

(* The configurations and edits themselves need none of these constants.   *)
NoEdits(config, n) == {}

Samples == INSTANCE Configuration WITH Bases <- {}, Edits <- NoEdits, Foundation <- <<>>

MCBases == Samples!MCBases

MCEdits(config, n) == Samples!MCEdits(config, n)

MCFoundation == Samples!MCFoundation

workspaceVars == <<draft, edits, running>>

allVars == <<screenVars, authVars, classVars, pluginVars, messageVars, workspaceVars, budget>>

Has(part) == budget.part = part

Use(kind) == budget[kind] > 0 /\ budget' = [budget EXCEPT ![kind] = @ - 1]

----------------------------------------------------------------------------
(* Sources: two proxies, one trusted, and clients of two subnets, one of   *)
(* them in a refused category.                                             *)
At(host) == [host |-> host, mapped |-> FALSE]

Mapped4(host) == [host |-> host, mapped |-> TRUE]

MCSourcePolicy ==
    [trust_enabled |-> TRUE, trusted_proxies |-> {"edge", "inner"},
     filter_enabled |-> TRUE, deny |-> {"denied"}, denied_categories |-> {"tor"},
     listed |-> [tor |-> {"relay"}, vpn |-> {"a1"}],
     aggregation |-> "ipv4_subnet_24",
     subnet |-> [edge |-> "e", inner |-> "i", a1 |-> "a", a2 |-> "a", b |-> "b", c |-> "c"],
     window |-> 1, max_unmatched |-> 1, max_signatures |-> 1, base_ban |-> 2, max_ban |-> 3,
     max_tracked |-> 2]

From(peer) ==
    [peer |-> peer, forwarded |-> <<>>, xff |-> <<>>, matched |-> TRUE, path |-> "p", names |-> {}]

Lost(peer) == [From(peer) EXCEPT !.matched = FALSE]

Shape(peer, names) == [From(peer) EXCEPT !.names = names]

ChainHosts == {At("inner"), At("a1"), Mapped4("edge"), Refused}

Chains == {<<>>} \cup [1..1 -> ChainHosts] \cup [1..2 -> ChainHosts] \cup [1..3 -> ChainHosts]

SourceMix(kind, arrivals, lapses) ==
    [part |-> "sources", kind |-> kind, arrivals |-> arrivals, lapses |-> lapses]

SourceRequests ==
    [chains  |-> {[From(peer) EXCEPT !.xff = xff, !.forwarded = forwarded] :
                     peer \in {At("edge"), Mapped4("inner"), At("b"), At("denied"), At("relay")},
                     xff \in Chains, forwarded \in {<<>>, <<At("b")>>}},
     subnet  |-> {From(At("a1")), Lost(At("a1")), Lost(Mapped4("a2"))},
     crowd   |-> {Lost(At("a1")), Lost(At("b")), Lost(At("c")), From(At("a1"))},
     probing |-> {Shape(At("a1"), {"x"}), Shape(At("a1"), {"y"}),
                  [Shape(At("a1"), {"y"}) EXCEPT !.path = "q"]}]

SourceMixes ==
    {SourceMix("chains", 1, 0), SourceMix("subnet", 4, 2), SourceMix("crowd", 4, 2), SourceMix("probing", 4, 2)}

ScreeningStep ==
    /\ Has("sources")
    /\ \/ \E i \in SlotIds, r \in SourceRequests[budget.kind] : Use("arrivals") /\ ScreenArrive(i, r)
       \/ Use("lapses") /\ ScreenTick
       \/ \E i \in SlotIds : ScreenStep(i) /\ UNCHANGED budget
    /\ UNCHANGED <<authVars, classVars, pluginVars, messageVars, workspaceVars>>

----------------------------------------------------------------------------
(* Authentication: two keys, a file that is rewritten or damaged.          *)
Entry(key) == [kid |-> key, key |-> key]

Token(key) ==
    [form |-> "bearer", kid |-> key, key |-> key, addressed |-> TRUE, exp |-> 9, claims |-> {"sub"}]

Asking(token, headers) == [token |-> token, headers |-> headers]

NoJwt == [source |-> "none", refresh_secs |-> 0]

FileJwt(refresh) ==
    [source |-> "file", refresh_secs |-> refresh, clock_skew_secs |-> 1, required_claims |-> {"sub"}]

NoExternal == [bound |-> FALSE]

Calling(fail_open, required) ==
    [bound |-> TRUE, fail_open |-> fail_open,
     mappings |-> <<[source |-> "role", target |-> "x-auth-roles", required |-> FALSE],
                    [source |-> "roles", target |-> "x-auth-roles", required |-> required]>>]

Auth(jwt, external) ==
    [jwt |-> jwt, external |-> external, identity_bound |-> FALSE, authorization_bound |-> FALSE,
     claim_headers |-> [team |-> {"team", "x-auth-team", "x-auth-claim-team"}], rules |-> <<>>,
     default_decision |-> "allow"]

Rule(action, claims, roles) ==
    [action |-> action, any_claims |-> claims, required_scopes |-> {}, required_roles |-> roles]

Ruled(auth) ==
    [auth EXCEPT !.authorization_bound = TRUE, !.default_decision = "deny",
                 !.rules = <<Rule("deny", {"team"}, {}), Rule("allow", {}, {"admin"})>>]

AuthMix(policy, requests, contexts, files, arrivals, rewrites, lapses) ==
    [part |-> "auth", policy |-> policy, requests |-> requests, contexts |-> contexts, files |-> files,
     arrivals |-> arrivals, rewrites |-> rewrites, lapses |-> lapses]

Plain == <<>>

Roles(roles) == [n \in {"x-auth-roles"} |-> roles]

MCKeyFiles == {{Entry("k1")}, {Entry("k2")}, {Entry("k1"), Entry("k2")}, {}}

MCAuthContexts ==
    {<<>>, [n \in {"roles"} |-> {"admin"}], [n \in {"roles"} |-> {"user"}], [n \in {"role"} |-> {"admin"}],
     [role |-> {"admin"}, roles |-> {"user"}]}

AuthMixes ==
    {AuthMix(Auth(FileJwt(refresh), NoExternal), {Asking(Token("k1"), Plain), Asking(Token("k2"), Plain)},
             {}, MCKeyFiles, 3, 2, 3) : refresh \in {0, 2}}
    \cup
    {AuthMix(Auth(FileJwt(1), NoExternal),
             {Asking([Token("k1") EXCEPT !.form = "none"], Plain), Asking([Token("k1") EXCEPT !.addressed = FALSE], Plain),
              Asking([Token("k1") EXCEPT !.claims = {}], Plain), Asking([Token("k1") EXCEPT !.exp = 1], Plain),
              Asking([Token("k1") EXCEPT !.kid = "other"], Plain)}, {}, MCKeyFiles, 2, 1, 3)}
    \cup
    {AuthMix(auth, {Asking(Token("k1"), Plain), Asking(Token("k1"), Roles({"admin"})),
                    Asking(Token("k1"), [n \in {"team", "x-auth-roles"} |-> {"admin"}])},
             MCAuthContexts, {}, 2, 0, 0) :
         auth \in {Ruled(Auth(NoJwt, Calling(open, required))) : open \in BOOLEAN, required \in BOOLEAN}
                      \cup {[Auth(NoJwt, NoExternal) EXCEPT !.identity_bound = TRUE],
                            [Auth([source |-> "inline", refresh_secs |-> 0, clock_skew_secs |-> 0,
                                   required_claims |-> {}, inline_keys |-> {Entry("k1")}], NoExternal)
                                EXCEPT !.authorization_bound = TRUE]}}

MCAuthPolicies == {mix.policy : mix \in AuthMixes}

MCAuthRequests == UNION {mix.requests : mix \in AuthMixes}

AuthenticationStep ==
    /\ Has("auth")
    /\ \/ \E i \in AuthTasks, r \in budget.requests : Use("arrivals") /\ AuthArrive(i, r)
       \/ \E file \in budget.files : Use("rewrites") /\ RewriteKeyFile(file)
       \/ Use("lapses") /\ AuthTick
       \/ \E i \in AuthTasks : AuthStep(i) /\ UNCHANGED budget
       \/ \E i \in AuthTasks, reply \in ServiceReplies, c \in budget.contexts :
              ExternalAuth(i, reply, c) /\ UNCHANGED budget
    /\ UNCHANGED <<screenVars, classVars, pluginVars, messageVars, workspaceVars>>

----------------------------------------------------------------------------
(* Classification: every policy meets every first request, and evidence is *)
(* added to it.                                                            *)
Weights(weight) ==
    [header_anomaly |-> weight, user_agent_anomaly |-> 40, body_anomaly |-> weight, reputation |-> 40,
     bot_signal |-> 30]

Classifier(weight, block, escalate) ==
    [max_header_value_length |-> 8, suspicious_headers |-> {"x-scan"}, max_header_count |-> 2,
     max_duplicate_headers |-> 1, max_inspect_bytes |-> 2, max_body_bytes |-> 4, fallback |-> 20,
     weights |-> Weights(weight), block_threshold |-> block, challenge_threshold |-> 40, tag_min |-> 20,
     trusted_principals |-> {"ops"}, escalate_tag |-> escalate, escalate_challenge |-> escalate]

Body(length, allowlisted) ==
    [length |-> length, patterns |-> {}, non_printable |-> {}, allowlisted |-> allowlisted, textual |-> TRUE]

Evidence(body, bots, principal, fail_open) ==
    [headers |-> <<>>, body |-> body, reputation |-> <<"good">>, bots |-> bots, disposition |-> "none",
     principal |-> principal, fail_open |-> fail_open, risk_tier |-> "none", shedding |-> "admit",
     overload |-> "normal"]

Headers ==
    {[name |-> "x-scan", length |-> 4, patterns |-> 0], [name |-> "user-agent", length |-> 9, patterns |-> 1]}

ClassifyMixes ==
    {[part |-> "classify", policy |-> Classifier(weight, block, escalate), pieces |-> 4, first |-> first] :
        weight \in {20, 255}, block \in {60, 100}, escalate \in BOOLEAN,
        first \in {Evidence(Body(2, FALSE), <<"good">>, "ops", FALSE),
                   Evidence(Body(5, TRUE), <<"error">>, "guest", FALSE),
                   Evidence(Body(2, FALSE), <<"error">>, "guest", TRUE)}}

ClassificationStep ==
    /\ Has("classify")
    /\ Use("pieces")
    /\ \/ \E header \in Headers : MoreHeaders(header)
       \/ WorseBody
       \/ \E chain \in {"reputation", "bots"} : WorseVerdict(chain)
       \/ WorseOverload
    /\ UNCHANGED <<screenVars, authVars, pluginVars, messageVars, workspaceVars>>

----------------------------------------------------------------------------
(* Plugins and extensions, by the same names.                              *)
PluginMixes ==
    {[part |-> "plugins", evaluations |-> 4, switches |-> 1, lapses |-> 3, calls |-> 0],
     [part |-> "plugins", evaluations |-> 0, switches |-> 0, lapses |-> 0, calls |-> 5]}

PluginStep ==
    /\ Has("plugins")
    /\ \/ Use("calls") /\ \E n \in PluginNames : ExtensionCall(n)
       \/ UNCHANGED budget /\ budget.evaluations > 0 /\ \E n \in PluginNames : Registration(n)
       \/ Use("switches") /\ \E n \in PluginNames : Switch(n)
       \/ Use("evaluations") /\ \E n \in PluginNames : Evaluation(n)
       \/ WorkerEnds /\ UNCHANGED budget
       \/ Use("lapses") /\ PluginTick
    /\ UNCHANGED <<screenVars, authVars, classVars, messageVars, workspaceVars>>

----------------------------------------------------------------------------
(* Messages: every head of a response after a few requests, every framing  *)
(* and hop of a request, and routes by host, path, method, header and      *)
(* query with their transforms.                                            *)
HeadsOf(fields) ==
    LET with[i \in 0..Len(fields)] ==
            IF i = 0 THEN {<<>>}
            ELSE with[i - 1] \cup {WithHeader(h, fields[i][1], v) : h \in with[i - 1], v \in fields[i][2]}
    IN  with[Len(fields)]

Origin(path, query) ==
    [form |-> "origin", scheme |-> "none", authority |-> "none", path |-> path, query |-> query,
     embeds_url |-> FALSE, fragment |-> FALSE]

Absolute(authority, path) ==
    [Origin(path, NoQuery) EXCEPT !.form = "absolute", !.scheme = "http", !.authority = authority]

Sent(method, target, headers, http10) ==
    [method |-> method, target |-> target, headers |-> headers, http10 |-> http10]

HostIs(host) == [n \in {"host"} |-> <<host>>]

Proxy(client) ==
    [client |-> client, source |-> "c1", rules |-> <<>>, listener_transform |-> NoTransform,
     transforms |-> <<>>, destination_request |-> [set |-> FALSE],
     destination_response |-> [set |-> FALSE], listener_response |-> <<>>, responses |-> <<>>,
     listener_websocket |-> TRUE, websocket |-> {}, reject_unmatched |-> FALSE]

Answers ==
    {[status |-> status, http10 |-> http10, headers |-> headers,
      body |-> IF "content-length" \in DOMAIN headers /\ "transfer-encoding" \notin DOMAIN headers
               THEN headers["content-length"][1] ELSE 2] :
        status \in {200, 204}, http10 \in BOOLEAN,
        headers \in HeadsOf(
            <<<<"content-length", {<<0>>, <<3>>, <<3, 3>>, <<3, 4>>, <<-1>>}>>,
              <<"transfer-encoding", {<<"chunked">>, <<"gzip">>, <<"gzip", "chunked">>, <<"chunked", "gzip">>}>>,
              <<"connection", {<<"close">>, <<"keep-alive", "x-hop">>}>>,
              <<"x-hop", {<<"1">>}>>, <<"keep-alive", {<<"1">>}>>>>)}

(* A mix names the requests and the responses of its exchanges.            *)
MessageMix(configured, inputs) == [part |-> "messages", configured |-> configured, inputs |-> inputs]

PlainAnswer == [status |-> 200, http10 |-> FALSE, headers |-> [n \in {"content-length"} |-> <<3>>], body |-> 3]

Switching ==
    {[PlainAnswer EXCEPT !.status = 101, !.body = 0, !.headers = headers] :
        headers \in HeadsOf(<<<<"connection", {<<"upgrade">>}>>, <<"upgrade", {<<"websocket">>, <<"other">>}>>>>)}

Asked ==
    LET Root == [Origin(<<"/">>, NoQuery) EXCEPT !.authority = "a"]
    IN  {Sent(method, Root, HostIs("a"), http10) : method \in {"GET", "HEAD"}, http10 \in BOOLEAN}
        \cup {Sent("GET", Root, WithHeader(HostIs("a"), "connection", <<"close">>), FALSE)}

AnswerMixes == {MessageMix(Proxy(client), "answers") : client \in {"http1", "http3"}}

RequestHeads ==
    HeadsOf(<<<<"host", {<<"a">>, <<"a", "b">>}>>,
              <<"content-length", {<<0>>, <<3>>, <<3, 3>>, <<3, 4>>, <<-1>>}>>,
              <<"transfer-encoding", {<<"chunked">>, <<"gzip", "chunked">>}>>,
              <<"connection", {<<"close", "x-hop">>, <<"upgrade">>}>>,
              <<"upgrade", {<<"websocket">>, <<"other">>}>>,
              <<"te", {<<"1">>}>>, <<"x-hop", {<<"1">>}>>, <<"x-forwarded-for", {<<"1">>}>>>>)

Framed ==
    {Sent(method, Origin(<<"/">>, NoQuery), headers, FALSE) : method \in {"GET", "POST"}, headers \in RequestHeads}

RequestMixes == {MessageMix(Proxy("http1"), "framing")}

RouteRule(label, prefix) ==
    [label |-> label, prefix |-> prefix, hostnames |-> {}, methods |-> {}, header_matches |-> {},
     query_matches |-> {}, content_types |-> {}, grpc_services |-> {}, grpc_methods |-> {}, source_cidrs |-> {}]

Match(kind, name, value) == [kind |-> kind, name |-> name, value |-> value]

RuleLists ==
    {<<RouteRule("r1", <<"/">>), [RouteRule("r2", <<"/">>) EXCEPT !.hostnames = {"a"}],
       [RouteRule("r3", <<"/">>) EXCEPT !.hostnames = {"b"}, !.methods = {"GET"}],
       [RouteRule("r4", <<"/">>) EXCEPT !.hostnames = {"a", "b"}]>>,
     <<[RouteRule("r1", <<"/", "s">>) EXCEPT !.header_matches = {Match("present", "x-beta", "")}],
       [RouteRule("r2", <<"/", "s">>) EXCEPT !.query_matches = {Match("exact", "q", "1")}],
       [RouteRule("r3", <<"/", "s">>) EXCEPT !.query_matches = {Match("absent", "q", "")}],
       RouteRule("r4", <<"/", "s", "x2F">>)>>,
     <<[RouteRule("r1", <<"/">>) EXCEPT !.grpc_services = {"s"}, !.content_types = {"application/grpc"}],
       [RouteRule("r2", <<"/">>) EXCEPT !.content_types = {"application/grpc"}],
       [RouteRule("r3", <<"/", "s">>) EXCEPT !.source_cidrs = {"c2"}],
       [RouteRule("r4", <<"/", "s">>) EXCEPT !.header_matches = {Match("absent", "x-beta", "")}]>>}

Rewrites ==
    {[NoTransform EXCEPT !.host_rewrite = host, !.path_rewrite = rewrite, !.header_mutations = mutations] :
        host \in {"none", "b"},
        rewrite \in {NoRewrite, [match_prefix |-> <<"/", "s">>, replacement |-> <<"/">>, set |-> TRUE]},
        mutations \in {<<>>, <<[kind |-> "set", name |-> "x-beta", value |-> "2"],
                               [kind |-> "remove", name |-> "content-type"]>>}}

Routed ==
    {Sent(method, target, headers, FALSE) :
        method \in {"GET", "POST"},
        target \in {Origin(path, query) : path \in {<<"/">>, <<"/", "s", "/", "m">>, <<"/", "s", "x2f">>, <<"/", "xzz">>},
                                         query \in {NoQuery, <<<<"q", "1">>>>, <<<<"", "">>>>}}
                    \cup {Absolute(authority, path) : authority \in {"A", "b", "bad"}, path \in {<<>>, <<"/", "s">>}}
                    \cup {[Origin(<<"/", "s">>, <<<<"q", "1">>>>) EXCEPT !.embeds_url = TRUE],
                          [Origin(<<"/", "s">>, NoQuery) EXCEPT !.form = "other"]},
        headers \in {HostIs("a"), HostIs("adot"), HostIs("bad"), WithHeader(HostIs("b"), "x-beta", <<"1">>),
                     WithHeader(HostIs("A"), "content-type", <<"application/grpc+proto">>)}}

Http3Routed ==
    {[request EXCEPT !.target.authority = request.headers["host"][1]] :
        request \in {r \in Routed : r.target.form = "origin"}}
    \cup
    {[request EXCEPT !.headers = WithHeader(<<>>, "content-length", <<7>>)] :
        request \in {r \in Routed : r.target.form = "absolute"}}

RoutingMixes ==
    {MessageMix([Proxy("http1") EXCEPT
                    !.rules = rules, !.reject_unmatched = TRUE, !.listener_transform = first,
                    !.transforms = [l \in {"r1", "r4"} |-> second],
                    !.responses = [l \in {"r2"} |-> <<[kind |-> "set", name |-> "server", value |-> "x"]>>]],
                "routing") :
        rules \in RuleLists, first \in {NoTransform, [NoTransform EXCEPT !.host_rewrite = "a"]}, second \in Rewrites}
    \cup
    {MessageMix([Proxy("http3") EXCEPT
                    !.rules = rules, !.destination_request = [set |-> TRUE, transform |-> second],
                    !.destination_response = [set |-> TRUE, mutations |-> <<>>]], "http3") :
        rules \in RuleLists, second \in Rewrites}

Requests ==
    [answers |-> Asked, framing |-> Framed, routing |-> Routed, http3 |-> Http3Routed]

Responses ==
    [answers |-> Answers, framing |-> Switching \cup {PlainAnswer}, routing |-> {PlainAnswer}, http3 |-> {PlainAnswer}]

MessageMixes == AnswerMixes \cup RequestMixes \cup RoutingMixes

MessageStep ==
    /\ Has("messages")
    /\ \/ \E raw \in Requests[budget.inputs], length \in {0, 2} :
              (setup.client = "http1" => length = 0) /\ ReceiveRequest(raw, length)
       \/ ForwardRequest
       \/ \E raw \in Responses[budget.inputs] : ReceiveResponse(raw)
    /\ UNCHANGED <<screenVars, authVars, classVars, pluginVars, workspaceVars, budget>>

----------------------------------------------------------------------------
WorkspaceStep ==
    /\ Has("workspaces")
    /\ Workspace!Next
    /\ UNCHANGED <<screenVars, authVars, classVars, pluginVars, messageVars, budget>>

WorkspaceMixes == {[part |-> "workspaces"]}

----------------------------------------------------------------------------
AllMixes == WorkspaceMixes \cup SourceMixes \cup AuthMixes \cup ClassifyMixes \cup PluginMixes \cup MessageMixes

Init ==
    /\ budget \in Mixes
    /\ ScreeningInit
    /\ IF budget.part = "auth"
       THEN IF budget.policy.jwt.source = "file"
            THEN \E file \in MCKeyFiles \ {{}} : AuthInit(budget.policy, file)
            ELSE AuthInit(budget.policy, {})
       ELSE AuthInit(Auth(NoJwt, NoExternal), {})
    /\ IF budget.part = "classify" THEN ClassificationInit(budget.policy, budget.first)
       ELSE ClassificationInit(Classifier(20, 100, FALSE), Evidence(Body(0, TRUE), <<>>, "guest", FALSE))
    /\ PluginsInit
    /\ IF budget.part = "workspaces" THEN Workspace!Init ELSE draft = <<>> /\ edits = 0 /\ running = <<>>
    /\ MessagesInit(IF budget.part = "messages" THEN budget.configured ELSE Proxy("http1"))

Next == ScreeningStep \/ AuthenticationStep \/ ClassificationStep \/ PluginStep \/ MessageStep \/ WorkspaceStep

Spec == Init /\ [][Next]_allVars
----------------------------------------------------------------------------
(* The properties of Configuration, of its part of the behaviours.         *)

(* What runs and what is reported were compiled from the same file         *)
(* (compile_workspace_runtime).                                            *)
WorkspaceTypeOK == Has("workspaces") => Workspace!TypeOK

(* What the validator accepts, the constructors of the data plane accept:  *)
(* a file without padded names that asks for nothing serve mode lacks      *)
(* compiles and starts.                                                    *)
AcceptedServes == Has("workspaces") => Workspace!AcceptedServes

(* No destination mirrors its requests to the cluster they go to, wherever *)
(* the mirror policy in force was bound (validate_mirror_target).          *)
NoSelfMirror == Has("workspaces") => Workspace!NoSelfMirror

(* A request is charged once to every limit of its listener, route and     *)
(* destination (validate_limit_scopes, EffectiveRouteDestinationPolicy).   *)
LimitsChargedOnce == Has("workspaces") => Workspace!LimitsChargedOnce

(* The policy in force is the most specific one bound                      *)
(* (pick_effective_policy_name).                                           *)
MostSpecificInForce == Has("workspaces") => Workspace!MostSpecificInForce

(* A snapshot restored from its view has the digest and the policies in    *)
(* force of the one that ran (workspace_config_from_snapshot_view).        *)
RestoredAsRun == Has("workspaces") => Workspace!RestoredAsRun

(* A reload that changes the digest shows in the diff of the two snapshots *)
(* unless it changed policy specs, the security section, the name or the   *)
(* order alone (WorkspaceSnapshotView::diff).                              *)
DiffExplains == [][Has("workspaces") => Workspace!DiffShows(running.view, running'.view)]_running

----------------------------------------------------------------------------
(* What was validated is what runs: it starts, with each limit and mirror  *)
(* where it was bound, and comes back the same from a stored snapshot.     *)
ConfigurationSound ==
    /\ [](WorkspaceTypeOK /\ AcceptedServes /\ NoSelfMirror /\ LimitsChargedOnce)
    /\ [](MostSpecificInForce /\ RestoredAsRun)
    /\ DiffExplains

(* Sources are known by an address somebody trusted vouched for, and are   *)
(* banned for what they did, as long as they earned; trusted principals    *)
(* are spared by the classification of content.                            *)
ScreeningSound ==
    /\ [](ScreenTypeOK /\ ClientVouched /\ BanServed /\ BanEarned /\ BansEscalate)
    /\ [](ClassificationTypeOK /\ TrustedSpared)
    /\ SuspicionNeverRelaxes
=============================================================================
