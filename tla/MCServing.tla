----------------------------- MODULE MCServing -----------------------------
(***************************************************************************)
(* Small instances of what serves a request beside the HTTP/1.1 connection *)
(* itself.  A behaviour follows one mix: cached serving of a listener, the *)
(* distribution of cache purges, the streams of one HTTP/2 connection, the *)
(* relay of one HTTP/1.1 body, or one session of relayed bytes.            *)
(***************************************************************************)
EXTENDS HttpCache, CacheFanout, Http2Streams, Http1Bodies, ByteRelay

CONSTANTS
    Mixes           \* the part, its configuration and how often steps happen

VARIABLES budget

allVars == <<cacheVars, fanoutVars, h2Vars, bodyVars, relayVars, budget>>

Has(part) == budget.part = part

Use(kind) == budget[kind] > 0 /\ budget' = [budget EXCEPT ![kind] = @ - 1]

----------------------------------------------------------------------------
(* Cached serving                                                          *)
MCTags == <<"v1", "v2">>

MCLimits == [max_entries |-> 2, max_bytes |-> 5, max_object_bytes |-> 3, overhead |-> 1]

Policy ==
    [methods |-> {"GET", "HEAD"}, default_ttl |-> 1, max_ttl |-> 2, swr |-> 1, sie |-> 2,
     cacheable_status_codes |-> {200, 404}, honor_cache_control |-> TRUE,
     allow_set_cookie_storage |-> FALSE, authorization |-> "bypass", revalidation_enabled |-> TRUE,
     include_host |-> TRUE, include_method |-> FALSE, query |-> "include_all",
     key_headers |-> <<>>, vary_headers |-> <<>>]

PathA == <<"a">>
PathAX == <<"a", "x">>
PathB == <<"b">>

Get(path) ==
    [method |-> "GET", path |-> path, query |-> "q", host |-> "h", authority |-> "none",
     target_fault |-> FALSE, authorization |-> "none", cookie |-> FALSE, has_body |-> FALSE,
     headers |-> <<>>, tags |-> {}]

Directives ==
    [malformed |-> FALSE, no_store |-> FALSE, private |-> FALSE, no_cache |-> FALSE,
     max_age |-> None, s_maxage |-> None, swr |-> None, sie |-> None]

Headers ==
    [set_cookie |-> FALSE, vary |-> {}, cc |-> Directives, pragma_no_cache |-> FALSE, age |-> None,
     expires |-> None, date |-> None, tagged |-> TRUE, body_kind |-> "length", length |-> 1]

CacheMix(connections, policy, requests, answers, statuses, counts) ==
    [part |-> "cache", conns |-> connections, policy |-> policy, requests |-> requests, answers |-> answers, statuses |-> statuses,
     targets |-> {[kind |-> "prefix", prefix |-> PathA]}, arrivals |-> counts[1], ticks |-> counts[2],
     changes |-> counts[3], failures |-> counts[4], purges |-> counts[5], reloads |-> counts[6], sweeps |-> counts[7]]

(* Freshness, renewal and fallback of one representation.                  *)
FreshnessMixes ==
    {CacheMix({1}, Policy, {Get(PathA)}, {Headers, [Headers EXCEPT !.cc.max_age = 9, !.age = 5]}, {200, 304, 500}, <<4, 4, 1, 1, 0, 0, 0>>),
     CacheMix({1, 2}, Policy, {Get(PathA)}, {Headers}, {200, 304, 500}, <<3, 2, 1, 0, 0, 0, 0>>),
     CacheMix({1}, [Policy EXCEPT !.revalidation_enabled = FALSE], {Get(PathA)}, {Headers}, {200, 500}, <<3, 3, 1, 1, 0, 0, 0>>),
     CacheMix({1}, Policy, {Get(PathA), [Get(PathA) EXCEPT !.tags = {"v2"}]}, {Headers}, {200, 304}, <<3, 3, 1, 0, 0, 0, 0>>),
     CacheMix({1}, [Policy EXCEPT !.honor_cache_control = FALSE, !.swr = 0], {Get(PathA)},
              {Headers, [Headers EXCEPT !.tagged = FALSE]}, {200, 304}, <<3, 3, 1, 0, 0, 0, 1>>)}

(* What an origin may say about storing its answer.                        *)
OriginHeaders ==
    {[Headers EXCEPT !.cc.no_store = TRUE], [Headers EXCEPT !.cc.private = TRUE],
     [Headers EXCEPT !.cc.no_cache = TRUE], [Headers EXCEPT !.cc.malformed = TRUE],
     [Headers EXCEPT !.pragma_no_cache = TRUE], [Headers EXCEPT !.age = Malformed],
     [Headers EXCEPT !.expires = 3, !.date = 1, !.age = 1], [Headers EXCEPT !.expires = 1, !.date = 3],
     [Headers EXCEPT !.expires = 3], [Headers EXCEPT !.expires = Malformed],
     [Headers EXCEPT !.expires = 3, !.date = Malformed],
     [Headers EXCEPT !.cc.s_maxage = 2, !.cc.max_age = 0, !.cc.swr = 0, !.cc.sie = 1],
     [Headers EXCEPT !.cc.max_age = 0, !.cc.swr = 0, !.cc.sie = 0],
     [Headers EXCEPT !.set_cookie = TRUE], [Headers EXCEPT !.vary = {"*"}],
     [Headers EXCEPT !.vary = {"cookie"}], [Headers EXCEPT !.body_kind = "chunked"],
     [Headers EXCEPT !.body_kind = "none", !.length = 0], [Headers EXCEPT !.length = 3], [Headers EXCEPT !.length = 4]}

StorageMixes == {CacheMix({1}, Policy, {Get(PathA)}, OriginHeaders, {200, 404}, <<2, 3, 1, 0, 0, 0, 0>>)}

(* Who a stored answer may be given to.                                    *)
Audience ==
    {Get(PathA), [Get(PathA) EXCEPT !.authorization = "u1"], [Get(PathA) EXCEPT !.authorization = "u2"],
     [Get(PathA) EXCEPT !.cookie = TRUE], [Get(PathA) EXCEPT !.method = "HEAD"],
     [Get(PathA) EXCEPT !.method = "POST", !.has_body = TRUE], [Get(PathA) EXCEPT !.has_body = TRUE],
     [Get(PathA) EXCEPT !.host = "g"], [Get(PathA) EXCEPT !.host = "g", !.authority = "h"],
     [Get(PathA) EXCEPT !.host = "missing"], [Get(PathA) EXCEPT !.query = "other"]}

Varied == {Get(PathA)} \cup {[Get(PathA) EXCEPT !.headers = [enc |-> v]] : v \in {<<1, 2>>, <<-2, 1>>, <<1>>}}

AudienceMixes ==
    {CacheMix({1}, [Policy EXCEPT !.authorization = a, !.include_method = m, !.include_host = ~m], Audience, {Headers}, {200},
              <<2, 0, 0, 0, 0, 0, 0>>) : a \in {"bypass", "partition"}, m \in BOOLEAN}
    \cup {CacheMix({1}, [Policy EXCEPT !.vary_headers = <<"enc">>, !.key_headers = <<"lang">>], Varied,
                   {[Headers EXCEPT !.vary = {"enc"}]}, {200}, <<3, 0, 0, 0, 0, 0, 0>>)}

(* A store at its limits, purges and reloads.                              *)
PressureMixes ==
    {CacheMix({1}, Policy, {Get(PathA), Get(PathAX), Get(PathB)},
              {Headers, [Headers EXCEPT !.length = 2]}, {200}, <<4, 1, 0, 0, 0, 0, 1>>),
     CacheMix({1, 2}, Policy, {Get(PathA), Get(PathAX), Get(PathB)}, {Headers}, {200}, <<3, 1, 0, 0, 0, 0, 0>>),
     CacheMix({1, 2}, [Policy EXCEPT !.vary_headers = <<"enc">>], {Get(PathA), [Get(PathAX) EXCEPT !.headers = [enc |-> <<1>>]]},
              {Headers}, {200, 304}, <<3, 1, 1, 0, 1, 0, 0>>),
     CacheMix({1, 2}, Policy, {Get(PathA)}, {Headers}, {200}, <<3, 0, 1, 1, 1, 1, 0>>)}

MCPaths == {PathA, PathAX, PathB}

CacheStep ==
    /\ Has("cache") /\ UNCHANGED <<fanoutVars, h2Vars, bodyVars, relayVars>>
    /\ \/ Use("ticks") /\ Tick
       \/ Use("changes") /\ OriginChanges(PathA)
       \/ Use("reloads") /\ ReloadListener
       \/ UNCHANGED budget /\ ReplaceScopes
       \/ Use("purges") /\ \E t \in budget.targets : AskPurge(t)
       \/ UNCHANGED budget /\ RunPurge
       \/ Use("sweeps") /\ PurgeExpired(1)
       \/ \E c \in budget.conns :
            \/ UNCHANGED budget /\ Accept(c)
            \/ UNCHANGED budget /\ Deliver(c, budget.policy)
            \/ Use("arrivals") /\ \E r \in budget.requests : Arrive(c, budget.policy, r)
            \/ Use("failures") /\ \E allowed \in BOOLEAN : FailUpstream(c, allowed)
            \/ UNCHANGED budget /\ \E h \in budget.answers, s \in budget.statuses : OriginAnswers(c, h, s)

(* A stored response is served only to requests that agree with the one it *)
(* was fetched for on the path, the credentials, the configured key parts  *)
(* and Vary headers, with no cookie involved                               *)
(* (build_http_cache_key_material, resolve_cache_request).                 *)
RightAudienceHeld == Has("cache") => RightAudience(budget.policy)

(* What is served from the store was current within the longest life the   *)
(* policy allows before the request was looked up, unless it was renewed   *)
(* on the client's validator (freshness, refresh_revalidated_entry).       *)
BoundedStalenessHeld == Has("cache") => BoundedStaleness(budget.policy)

----------------------------------------------------------------------------
(* Distribution of purges                                                  *)
Peer(node) ==
    [node |-> node, actor |-> "peer", secret_env |-> "S", secret_set |-> TRUE, path |-> "/cache/invalidate",
     loopback |-> TRUE, scheme |-> "https", ca_env |-> "CA", ca_set |-> TRUE, pin |-> "none",
     server_name |-> "none", connect_timeout |-> 1,
     response_timeout |-> 1, has_scope |-> TRUE]

Service(transport, peers) == [purge_enabled |-> TRUE, transport |-> transport, peers |-> peers]

Key(path) == storage_key(Policy, Get(path))

Ask(target) == [target |-> target, fault |-> "none"]

BelowA == [kind |-> "prefix", prefix |-> PathA]

Purges == {Ask(BelowA), Ask([kind |-> "exact", key |-> Key(PathB)]), [Ask(BelowA) EXCEPT !.fault = "path_prefix"]}

FanoutMix(n1, n2, requests, purges, losses, seconds) ==
    [part |-> "fanout", services |-> ("n1" :> n1) @@ ("n2" :> n2) @@ ("n3" :> Service("local_only", <<>>)),
     requests |-> requests, asks |-> purges, losses |-> losses, seconds |-> seconds]

FanoutMixes ==
    {FanoutMix(Service("http_peer", <<Peer("n2"), Peer("n3")>>), Service("local_only", <<>>), {Ask(BelowA)}, 1, 1, 1),
     FanoutMix(Service("http_peer", <<[Peer("n2") EXCEPT !.pin = "matches"]>>), Service("http_peer", <<Peer("n1")>>), {Ask(BelowA)}, 2, 0, 0),
     FanoutMix(Service("http_peer", <<[Peer("n2") EXCEPT !.pin = "differs"], [Peer("n3") EXCEPT !.ca_set = FALSE]>>),
               Service("local_only", <<>>), {Ask(BelowA)}, 1, 0, 0),
     FanoutMix(Service("http_peer", <<Peer("n2")>>), Service("local_only", <<>>), {Ask(BelowA)}, 2, 1, 1),
     FanoutMix(Service("http_peer", <<[Peer("n2") EXCEPT !.secret_set = FALSE], [Peer("n3") EXCEPT !.has_scope = FALSE]>>),
               [Service("local_only", <<>>) EXCEPT !.purge_enabled = FALSE], Purges, 2, 0, 0),
     FanoutMix(Service("in_memory_bus", <<Peer("n2"), [Peer("n3") EXCEPT !.has_scope = FALSE]>>),
               Service("in_memory_bus", <<Peer("n1")>>), Purges, 3, 0, 0)}

FanoutStep ==
    /\ Has("fanout") /\ UNCHANGED <<cacheVars, h2Vars, bodyVars, relayVars>>
    /\ \/ Use("seconds") /\ SecondPasses
       \/ Use("losses") /\ \E m \in wire : Lose(m)
       \/ UNCHANGED budget /\ \E m \in wire : PeerHandles(m) \/ \E n \in CacheNodes : ReceiveAnswer(n, m)
       \/ \E n \in CacheNodes :
            \/ Use("asks") /\ \E r \in budget.requests : StartPurge(n, budget.services[n], r)
            \/ UNCHANGED budget /\ (PurgeProgress(n, budget.services[n]) \/ ReadResponse(n))

(* A purge response claims no delivery that did not happen, and is         *)
(* recorded as degraded exactly when some peer was not a success           *)
(* (publish_to_peer, docs/runbooks/cache-operations.md).                   *)
DeliveriesHappenedHeld == Has("fanout") => DeliveriesHappened(budget.services)

----------------------------------------------------------------------------
(* Streams of an HTTP/2 connection                                         *)
Deaths == {"io", "goaway", "protocol"}

H2Policy ==
    [enforce_circuit_breaker |-> TRUE, enforce_retry_budget |-> TRUE, enforce_timeout_hierarchy |-> TRUE,
     hedging |-> "none", mirror |-> FALSE, mirror_target |-> "m"]

H2Get == [target |-> "u", end_stream |-> TRUE, idempotent |-> TRUE, grpc |-> FALSE, one_message |-> TRUE, fails |-> {}]
H2Post == [H2Get EXCEPT !.end_stream = FALSE, !.idempotent = FALSE]
H2Grpc == [H2Post EXCEPT !.grpc = TRUE]

H2Answer(status, body, grpc) == [status |-> status, body |-> body, grpc |-> grpc, one_message |-> TRUE, whole |-> FALSE]

H2Mix(config, streamSet, requests, answers, outcomes, counts) ==
    [part |-> "http2", warm |-> {}, deadly |-> {"io"}, config |-> config, streams |-> streamSet, requests |-> requests, answers |-> answers,
     outcomes |-> outcomes, deaths |-> counts[1], expiries |-> counts[2], resets |-> counts[3],
     link_failures |-> counts[4], ticks |-> counts[5], ejections |-> counts[6], stalls |-> counts[7]]

Ok200 == H2Answer(200, FALSE, "none")

(* Streams that share connections that die, grow old or stay silent.      *)
StaleMixes ==
    {[H2Mix(H2Policy, {1, 2}, {H2Get}, {Ok200}, {}, <<1, 0, 0, 0, 0, 1, 0>>) EXCEPT !.deadly = Deaths],
     [H2Mix(H2Policy, {1, 2}, {H2Get}, {Ok200}, {}, <<2, 0, 0, 0, 0, 0, 0>>) EXCEPT !.warm = {"u"}],
     H2Mix(H2Policy, {1, 2, 3}, {H2Get}, {Ok200}, {}, <<0, 0, 0, 0, 0, 0, 0>>),
     H2Mix([H2Policy EXCEPT !.enforce_retry_budget = FALSE], {1, 2}, {H2Get}, {Ok200}, {}, <<0, 1, 0, 1, 0, 0, 1>>),
     H2Mix(H2Policy, {1, 2}, {H2Get, [H2Get EXCEPT !.idempotent = FALSE]}, {Ok200, H2Answer(503, FALSE, "none")}, {},
           <<1, 0, 0, 0, 1, 0, 0>>)}

(* A stale connection and a hedged retry.                                 *)
HedgeMixes ==
    {H2Mix([H2Policy EXCEPT !.hedging = h, !.enforce_circuit_breaker = FALSE], {1, 2}, {H2Get}, {Ok200}, {}, <<2, 0, 0, 0, 0, 0, 0>>)
        : h \in {"single", "hedged"}}
    \cup {H2Mix([H2Policy EXCEPT !.hedging = "hedged"], {1, 2}, {H2Get}, {Ok200}, {}, <<1, 0, 0, 0, 0, 0, 1>>),
          [H2Mix([H2Policy EXCEPT !.hedging = "hedged", !.enforce_circuit_breaker = FALSE],
                 {1, 2}, {H2Get}, {Ok200}, {}, <<1, 0, 0, 0, 0, 0, 0>>) EXCEPT !.warm = {"u"}]}

BodyOutcomes == {"limit", "deadline", "idle", "error"}

(* Bodies in both directions, and gRPC calls.                              *)
BodyMixes ==
    {H2Mix([H2Policy EXCEPT !.enforce_timeout_hierarchy = t], {1}, {H2Post, H2Get},
           {Ok200, H2Answer(200, TRUE, "none"), H2Answer(501, TRUE, "none")}, BodyOutcomes, <<1, 0, 1, 0, 0, 0, 1>>) : t \in BOOLEAN}
    \cup {H2Mix(H2Policy, {1, 2}, {H2Grpc}, {H2Answer(200, TRUE, "none"), H2Answer(200, TRUE, "unavailable")}, {"error"},
                <<0, 0, 0, 1, 0, 0, 0>>),
          H2Mix(H2Policy, {1}, {H2Grpc, [H2Grpc EXCEPT !.one_message = FALSE]},
                {H2Answer(200, b, g) : b \in BOOLEAN, g \in {"none", "unavailable", "deadline", "exhausted"}}, BodyOutcomes,
                <<1, 0, 1, 0, 0, 0, 1>>)}

(* Streams answered before they are dispatched, and mirrored ones.         *)
CheckMixes ==
    {H2Mix([H2Policy EXCEPT !.mirror = TRUE], {1, 2},
           {H2Get} \cup {[H2Get EXCEPT !.fails = f] : f \in {{"jwt", "authorization"}, {"external_denied"}, {"fault_abort"}}},
           {Ok200}, {}, <<0, 0, 0, 0, 0, 0, 0>>),
     H2Mix([H2Policy EXCEPT !.mirror = TRUE, !.mirror_target = "u"], {1}, {H2Get}, {Ok200}, {}, <<1, 0, 0, 1, 0, 0, 1>>)}

H2TaskStep(t) ==
    \/ LookupClient(t) \/ EvictClient(t) \/ TakeRegistry(t) \/ FreshClient(t)
    \/ ConnectClient(t) \/ SendRequest(t) \/ SendFails(t)
    \/ \E a \in budget.answers : HeadersArrive(t, a)
    \/ \E error \in Deaths : ResponseError(t, error)

H2StreamStep(s) ==
    \/ BeginStream(s) \/ Screen(s) \/ Authorize(s) \/ InjectFault(s) \/ AllowDispatch(s)
    \/ TakeRetry(s) \/ LaunchHedge(s) \/ DeliverHead(s) \/ ReturnPermit(s) \/ CountDown(s)
    \/ \E role \in {"first", "second"} : RaceHedge(s, role) \/ AwaitOther(s, role)
    \/ \E sent \in BOOLEAN : ResendGrpc(s, sent) \/ DeliverGrpc(s, sent)
    \/ \E o \in {"ok"} \cup budget.outcomes : RequestBody(s, o) \/ RelayBody(s, o) \/ BufferAnswer(s, o)

(* What the tasks do on their own: every wait ends, if only by its timeout. *)
Http2Progress ==
    /\ Has("http2") /\ UNCHANGED <<cacheVars, fanoutVars, bodyVars, relayVars, budget>>
    /\ \/ \E s \in budget.streams : H2StreamStep(s)
       \/ \E t \in budget.streams \X Roles : H2TaskStep(t)

Http2Step ==
    \/ Http2Progress
    \/ /\ Has("http2") /\ UNCHANGED <<cacheVars, fanoutVars, bodyVars, relayVars>>
       /\ \/ UNCHANGED budget /\ \E s \in budget.streams, r \in budget.requests :
                (\A q \in budget.streams : q < s => pcOf(q) /= "off") /\ AcceptStream(s, r)
          \/ Use("stalls") /\ \E t \in budget.streams \X Roles :
                \/ DispatchDeadline(t) \/ ResponseTimeout(t) \/ ResponseError(t, "reset")
                \/ \E how \in {"timeout", "refused"} : ConnectFails(t, how)
          \/ Use("deaths") /\ \E c \in DOMAIN clients, how \in budget.deadly : ClientDies(c, how)
          \/ Use("expiries") /\ \E c \in DOMAIN clients : ClientExpires(c)
          \/ Use("resets") /\ \E s \in budget.streams : PeerResets(s)
          \/ Use("link_failures") /\ LinkFails
          \/ Use("ticks") /\ PolicyTick
          \/ Use("ejections") /\ EjectEndpoint

----------------------------------------------------------------------------
(* Bodies: well-formed and malformed ones, cut into reads in every way,    *)
(* with the head of the next message behind them.                          *)
Given(mode, body, payload, valid) ==
    [mode |-> mode, body |-> body, payload |-> payload, valid |-> valid, length |-> Len(payload),
     next |-> IF mode \in {"close", "raw"} THEN <<>> ELSE <<"1", "CR", "LF">>, closes |-> TRUE]

ChunkedBodies ==
    LET last == <<"0", "CR", "LF", "CR", "LF">>
    IN  {<<<<"2", "CR", "LF", "CR", "LF", "CR", "LF">> \o last, <<"CR", "LF">>, TRUE>>,
         <<<<"1", "blank", ";", "x", "CR", "LF", "a", "CR", "LF">> \o last, <<"a">>, TRUE>>,
         <<<<"1", "CR", "LF", "1", "CR", "LF", "0", "1", "CR", "LF", "b", "CR", "LF", "0", "CR", "LF", "t", "CR", "LF",
             "CR", "LF">>, <<"1", "b">>, TRUE>>,
         <<<<"1", "CR", "LF", "a", "b", "CR", "LF">> \o last, <<"a">>, FALSE>>,
         <<<<"x", "CR", "LF">> \o last, <<>>, FALSE>>,
         <<<<"f", "CR", "LF", "a", "CR", "LF">> \o last, <<"a">>, FALSE>>,
         <<<<"2", "CR", "LF", "a", "b", "CR", "LF", "2", "CR", "LF", "a", "b", "CR", "LF">> \o last,
           <<"a", "b", "a", "b">>, FALSE>>,
         <<<<"0", "0", "1", "CR", "LF", "a", "CR", "LF">> \o last, <<"a">>, FALSE>>,
         <<<<"1", ";", "x", "x", "x", "x", "x", "x", "CR", "LF", "a", "CR", "LF">> \o last, <<"a">>, TRUE>>,
         <<<<"0", "CR", "LF", "t", "CR", "LF", "t", "CR", "LF", "CR", "LF">>, <<>>, FALSE>>}

Bodies ==
    {Given(mode, b[1], b[2], b[3]) : mode \in {"framed", "payload"}, b \in ChunkedBodies}
    \cup {Given("length", <<"a", "CR", "b">>, <<"a", "CR", "b">>, TRUE)}
    \cup {Given("length", <<"a", "b", "a", "b">>, <<"a", "b", "a", "b">>, TRUE)}
    \cup {Given(mode, s, s, TRUE) : mode \in {"close", "raw"}, s \in {<<>>, <<"a", "CR", "b">>, <<"a", "b", "a", "b">>}}

(* The same bodies cut short, by a close or by silence.                    *)
CutBodies ==
    UNION {{[sent EXCEPT !.body = SubSeq(@, 1, n), !.valid = FALSE, !.next = <<>>, !.closes = closes] :
                closes \in BOOLEAN, n \in 0..(Len(sent.body) - 1)} :
           sent \in {b \in Bodies : b.valid /\ b.mode \in {"framed", "payload", "length"}}}

RelayBodyMixes == {[part |-> "body", sent |-> sent] : sent \in Bodies \cup CutBodies}

BodyStep ==
    /\ Has("body") /\ UNCHANGED <<cacheVars, fanoutVars, h2Vars, relayVars, budget>>
    /\ BodyProgress \/ BodyIoError

----------------------------------------------------------------------------
(* Sessions of relayed bytes, some of them half-closed, silent or stuck.   *)
Offer(mode, hello, client, server, early) ==
    [mode |-> mode, inspect |-> hello.kind /= "none", hello |-> hello,
     bytes |-> [w \in Ways |-> IF w = "client" THEN client ELSE server],
     buffered |-> [w \in Ways |-> IF w = "client" THEN early[1] ELSE early[2]],
     closes |-> [w \in Ways |-> TRUE], stuck |-> {}]

Hello(kind, length) == [kind |-> kind, length |-> length]

SessionMixes ==
    {[part |-> "relay", offer |-> [offer EXCEPT !.closes = [w \in Ways |-> w \in closing], !.stuck = stuck]] :
        closing \in SUBSET Ways, stuck \in SUBSET Ways,
        offer \in {Offer("tcp", Hello("none", 0), <<1, 2>>, <<3, 4>>, <<0, 0>>),
                   Offer("tcp", Hello("tls", 2), <<1, 2, 3>>, <<4>>, <<0, 0>>),
                   Offer("tcp", Hello("tls", 5), <<1, 2, 3, 4>>, <<5>>, <<0, 0>>),
                   Offer("tcp", Hello("plain", 0), <<1, 2>>, <<3>>, <<0, 0>>),
                   Offer("tcp", Hello("malformed", 0), <<1>>, <<>>, <<0, 0>>),
                   Offer("upgrade", Hello("none", 0), <<1, 2>>, <<3, 4>>, <<1, 0>>),
                   Offer("upgrade", Hello("none", 0), <<1>>, <<3, 4>>, <<0, 2>>)}}

SessionProgress ==
    /\ Has("relay") /\ UNCHANGED <<cacheVars, fanoutVars, h2Vars, bodyVars, budget>>
    /\ RelayProgress

SessionStep ==
    /\ Has("relay") /\ UNCHANGED <<cacheVars, fanoutVars, h2Vars, bodyVars, budget>>
    /\ RelayNext

(* Sessions end (proxy_tcp_stream, relay_upgraded_streams): a silent peer  *)
(* is timed out whichever half is closed, unless every direction that is   *)
(* left is writing to a peer that does not read.                           *)
SessionsEnd == <>(Has("relay") => SessionOver)

----------------------------------------------------------------------------
WireMixes == RelayBodyMixes \cup SessionMixes

MCMixes == FreshnessMixes \cup StorageMixes \cup AudienceMixes \cup PressureMixes \cup FanoutMixes
    \cup StaleMixes \cup HedgeMixes \cup BodyMixes \cup CheckMixes
    \cup WireMixes

Init ==
    /\ budget \in Mixes
    /\ CacheInit(MCPaths)
    /\ FanoutInit(IF Has("fanout") THEN {Key(PathA), Key(PathB)} ELSE {},
                  IF Has("fanout") THEN budget.services ELSE [n \in CacheNodes |-> Service("local_only", <<>>)])
    /\ Http2Init(IF Has("http2") THEN budget.config ELSE H2Policy, IF Has("http2") THEN budget.warm ELSE {})
    /\ IF Has("body") THEN \E read \in 0..Len(budget.sent.body \o budget.sent.next) : RelayInit(budget.sent, read)
       ELSE RelayInit(Given("raw", <<>>, <<>>, TRUE), 0)
    /\ SessionInit(IF Has("relay") THEN budget.offer ELSE Offer("tcp", Hello("none", 0), <<>>, <<>>, <<0, 0>>))

Next == CacheStep \/ FanoutStep \/ Http2Step \/ BodyStep \/ SessionStep

ServiceProgress ==
    /\ Has("fanout") /\ UNCHANGED <<cacheVars, h2Vars, bodyVars, relayVars, budget>>
    /\ \E n \in CacheNodes : PurgeProgress(n, budget.services[n])

Spec == Init /\ [][Next]_allVars /\ WF_allVars(ServiceProgress) /\ WF_allVars(Http2Progress)
        /\ WF_allVars(SessionProgress)

----------------------------------------------------------------------------
(* The cache stays within its bounds, and what it serves is for the right  *)
(* audience, young enough and not purged.                                  *)
CacheSound ==
    CacheTypeOK /\ StoreAccounted /\ RightAudienceHeld /\ BoundedStalenessHeld /\ PurgeHolds

(* A purge is applied once by every peer that answered, and reported so.   *)
FanoutSound == FanoutTypeOK /\ DeliveriesHappenedHeld /\ ReplaySafe

(* The streams of a connection give back what they took, share no upstream *)
(* client that one of them gave up, send no request twice that may not be, *)
(* and neither cut, lose nor hide an answer.                               *)
StreamsSound ==
    /\ Http2TypeOK /\ StreamSlotsExact /\ GivenUpNotOffered /\ ResentOnlyWhenSafe
    /\ CompleteIsWhole /\ FailuresTold /\ NoAnswerDiscarded

(* However a body is cut into reads, the same bytes are relayed and the    *)
(* next message is left whole.                                             *)
BodiesSound ==
    BodyTypeOK /\ RelayedWhole /\ CutsDoNotMatter /\ NextMessageIntact /\ WrittenInOrder

(* Every wait in serving ends: purges return, streams and sessions end.    *)
ServingEnds == PurgesReturn /\ StreamsEnd /\ SessionsEnd
=============================================================================
