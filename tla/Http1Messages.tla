--------------------------- MODULE Http1Messages ---------------------------
(***************************************************************************)
(* The messages of one exchange as the HTTP/1.1 proxy reads, routes,       *)
(* rewrites and writes them (crates/proto-http/src/lib.rs and              *)
(* crates/runtime/src/http1_proxy): the head of the request, the head the  *)
(* upstream receives, the head of the response, and the head and framing   *)
(* the client receives.  An HTTP/3 client is served through                *)
(* proxy_http1_request_with_downstream_addr, with whole bodies.            *)
(*                                                                         *)
(* Heads arrive whole and parsed (httparse is external); how bodies are    *)
(* relayed is in Http1Bodies.  Connection names no framing header: that    *)
(* would be a malformed message (RFC 9110 7.6.1).                          *)
(***************************************************************************)
EXTENDS Integers, Sequences, FiniteSets, SequencesExt

----------------------------------------------------------------------------
(***************************************************************************)
(* How a request finds its route and what the route's transforms make of   *)
(* it (crates/proto-http/src/lib.rs and                                    *)
(* crates/runtime/src/http1_proxy/request_transforms.rs): pure functions.  *)
(*                                                                         *)
(* A path is a sequence of characters; "%2f" is a percent-encoded one.     *)
(* Headers are a function from the names present to the sequence of their  *)
(* values, in the order received; the lists of Connection and              *)
(* Transfer-Encoding are split into their tokens.  A target is a record:   *)
(*   form       "origin", "absolute" or "other" ("*", the empty target)    *)
(*   scheme, authority   of the absolute form                              *)
(*   path       <<>> when the absolute form ends with its authority        *)
(*   query      NoQuery, or the pairs after the question mark              *)
(*   embeds_url whether :// occurs in the query                            *)
(*   fragment   whether # occurs                                           *)
(***************************************************************************)
NoQuery == <<<<"no query", "">>>>

Failed(why) == [failed |-> why]

IsFailed(result) == "failed" \in DOMAIN result

(* A host as written, and as canonicalize_host compares it: lower case,    *)
(* without the final dot; white space, slashes, @ and commas are refused.  *)
HostSpellings == [a |-> "a", A |-> "a", adot |-> "a", b |-> "b"]

canonicalize_host(value) ==
    IF value \in DOMAIN HostSpellings THEN HostSpellings[value] ELSE "invalid"

(* Percent-encoded characters are written in upper case, and no other      *)
(* character changes.                                                      *)
PercentEncoded == [x2f |-> "x2F", x2F |-> "x2F"]

canonicalize_percent_encoded(path) ==
    [i \in DOMAIN path |-> IF path[i] \in DOMAIN PercentEncoded THEN PercentEncoded[path[i]] ELSE path[i]]

WellEncoded(path) == \A i \in DOMAIN path : path[i] /= "xzz"

(* The pairs of a query as a set: they are sorted and only looked up.      *)
QueryPairs(query) == IF query = NoQuery THEN {} ELSE ToSet(query)

(* The query of an absolute target that has no path is not looked at.      *)
canonicalize_request_target(target) ==
    LET query == IF target.form = "absolute" /\ target.path = <<>> THEN NoQuery ELSE target.query
        path == IF target.path = <<>> THEN <<"/">> ELSE target.path
    IN  IF target.form = "other" THEN Failed("unsupported_form")
        ELSE IF target.fragment THEN Failed("fragment_not_allowed")
        ELSE IF target.form = "absolute" /\ target.scheme \notin {"http", "https"}
             THEN Failed("unsupported_form")
        ELSE IF target.form = "absolute" /\ canonicalize_host(target.authority) = "invalid"
             THEN Failed("invalid_authority")
        ELSE IF ~WellEncoded(path) THEN Failed("invalid_percent_encoding")
        ELSE IF \E pair \in QueryPairs(query) : pair = <<"", "">> THEN Failed("invalid_query")
        ELSE [authority |-> IF target.form = "absolute" THEN canonicalize_host(target.authority) ELSE "none",
              path |-> canonicalize_percent_encoded(path), query_pairs |-> QueryPairs(query)]

ValueOf(headers, name) == IF name \in DOMAIN headers THEN headers[name][1] ELSE "none"

(* /service/method of a gRPC call.                                         *)
extract_grpc_path_components(path) ==
    IF Len(path) = 4 /\ path[1] = "/" /\ path[3] = "/" /\ {path[2], path[4]} \cap {"/", "x2F"} = {}
    THEN <<path[2], path[4]>> ELSE <<"none", "none">>

canonicalize_route_match_input(input) ==
    LET target == canonicalize_request_target(input.target)
        host == canonicalize_host(input.host)
    IN  IF IsFailed(target) THEN target
        ELSE [path |-> target.path,
              authority |-> IF host /= "invalid" THEN host ELSE target.authority,
              method |-> input.method, headers |-> input.headers, query_pairs |-> target.query_pairs,
              content_type |-> ValueOf(input.headers, "content-type"),
              grpc |-> extract_grpc_path_components(target.path), source |-> input.source]

----------------------------------------------------------------------------
(* Routes                                                                  *)
header_match_satisfied(matcher, headers) ==
    CASE matcher.kind = "exact" -> matcher.name \in DOMAIN headers
                                     /\ matcher.value \in ToSet(headers[matcher.name])
      [] matcher.kind = "present" -> matcher.name \in DOMAIN headers
      [] matcher.kind = "absent" -> matcher.name \notin DOMAIN headers

query_match_satisfied(matcher, pairs) ==
    CASE matcher.kind = "exact" -> <<matcher.name, matcher.value>> \in pairs
      [] matcher.kind = "present" -> \E pair \in pairs : pair[1] = matcher.name
      [] matcher.kind = "absent" -> \A pair \in pairs : pair[1] /= matcher.name

GrpcTypes == {"application/grpc", "application/grpc+proto"}

Allows(listed, value) == listed = {} \/ value \in listed

route_rule_matches(rule, input) ==
    /\ IsPrefix(rule.prefix, input.path)
    /\ Allows(rule.hostnames, input.authority)
    /\ Allows(rule.methods, input.method)
    /\ \A matcher \in rule.header_matches : header_match_satisfied(matcher, input.headers)
    /\ \A matcher \in rule.query_matches : query_match_satisfied(matcher, input.query_pairs)
    /\ \/ Allows(rule.content_types, input.content_type)
       \/ "application/grpc" \in rule.content_types /\ input.content_type \in GrpcTypes
    /\ Allows(rule.grpc_services, input.grpc[1])
    /\ Allows(rule.grpc_methods, input.grpc[2])
    /\ Allows(rule.source_cidrs, input.source)

Flag(condition) == IF condition THEN 1 ELSE 0

specificity_key(rule) ==
    <<Len(rule.prefix), Flag(rule.hostnames /= {}), Flag(rule.methods /= {}),
      Cardinality(rule.header_matches), Cardinality(rule.query_matches), Flag(rule.content_types /= {}),
      Cardinality(rule.grpc_services), Cardinality(rule.grpc_methods), Flag(rule.source_cidrs /= {})>>

(* The order of tuples: the first component that differs decides.          *)
MoreSpecific(key, other) ==
    \E i \in DOMAIN key : key[i] > other[i] /\ \A j \in 1..(i - 1) : key[j] = other[j]

NoRoute == [label |-> "none"]

(* One pass over the rules; a rule replaces the best one found only when   *)
(* it is more specific.                                                    *)
match_canonical_route(input, rules) ==
    LET best[i \in 0..Len(rules)] ==
            IF i = 0 THEN NoRoute
            ELSE IF route_rule_matches(rules[i], input)
                    /\ (best[i - 1] = NoRoute
                          \/ MoreSpecific(specificity_key(rules[i]), specificity_key(best[i - 1])))
                 THEN rules[i] ELSE best[i - 1]
    IN  best[Len(rules)].label

match_route_request_with_context(input, rules) ==
    LET canonical == canonicalize_route_match_input(input)
    IN  IF IsFailed(canonical) THEN "none" ELSE match_canonical_route(canonical, rules)

----------------------------------------------------------------------------
(* Transforms: a record of path_rewrite (NoRewrite, or the prefix to match *)
(* and its replacement), host_rewrite ("none" or a host) and mutations.    *)
NoRewrite == [match_prefix |-> <<>>, replacement |-> <<>>, set |-> FALSE]

NoTransform == [path_rewrite |-> NoRewrite, host_rewrite |-> "none", header_mutations |-> <<>>]

merge_request_transforms(listener, route) ==
    [path_rewrite |-> IF route.path_rewrite.set THEN route.path_rewrite ELSE listener.path_rewrite,
     host_rewrite |-> IF route.host_rewrite /= "none" THEN route.host_rewrite ELSE listener.host_rewrite,
     header_mutations |-> listener.header_mutations \o route.header_mutations]

WithHeader(headers, name, values) ==
    [n \in DOMAIN headers \cup {name} |-> IF n = name THEN values ELSE headers[n]]

WithoutHeaders(headers, names) == [n \in DOMAIN headers \ names |-> headers[n]]

apply_http1_header_mutations(headers, mutations) ==
    LET after[i \in 0..Len(mutations)] ==
            IF i = 0 THEN headers
            ELSE IF mutations[i].kind = "set"
                 THEN WithHeader(after[i - 1], mutations[i].name, <<mutations[i].value>>)
                 ELSE WithoutHeaders(after[i - 1], {mutations[i].name})
    IN  after[Len(mutations)]

rewrite_path_and_query(path, rewrite) ==
    IF rewrite.set /\ IsPrefix(rewrite.match_prefix, path)
    THEN rewrite.replacement \o SubSeq(path, Len(rewrite.match_prefix) + 1, Len(path))
    ELSE path

(* Any :// makes the target an absolute one here, the query's included.    *)
rewrite_http1_request_target(target, transform) ==
    LET path == IF target.path = <<>> THEN <<"/">> ELSE target.path
        rewritten == rewrite_path_and_query(path, transform.path_rewrite)
    IN  IF target.form = "other" \/ (target.form = "origin" /\ target.embeds_url)
        THEN Failed("unsupported_form")
        ELSE IF target.fragment THEN Failed("fragment_not_allowed")
        ELSE IF target.form = "absolute" /\ target.scheme \notin {"http", "https"}
             THEN Failed("unsupported_form")
        ELSE [target EXCEPT !.path = rewritten,
                            !.authority = IF target.form = "absolute" /\ transform.host_rewrite /= "none"
                                          THEN transform.host_rewrite ELSE @]

apply_request_transform(request, transform) ==
    LET rewrites == transform.path_rewrite.set \/ transform.host_rewrite /= "none"
        target == IF rewrites THEN rewrite_http1_request_target(request.target, transform)
                  ELSE request.target
        mutated == apply_http1_header_mutations(request.headers, transform.header_mutations)
    IN  IF IsFailed(target) THEN target
        ELSE [request EXCEPT
                !.target = target,
                !.headers = IF transform.host_rewrite = "none" THEN mutated
                            ELSE WithHeader(mutated, "host", <<transform.host_rewrite>>)]

----------------------------------------------------------------------------
VARIABLES
    setup,      \* the proxy's configuration and the client's protocol
    message     \* the exchange: how far it is and what was read and written

messageVars == <<setup, message>>

MessagesInit(configured) == setup = configured /\ message = [stage |-> "idle"]

----------------------------------------------------------------------------
(* Framing.  A body kind is "none", "chunked", "close" or "length" with    *)
(* its length; -1 stands for a length that is not made of digits.          *)
Kind(kind) == [kind |-> kind, length |-> 0]

Codings(headers) == IF "transfer-encoding" \in DOMAIN headers THEN headers["transfer-encoding"] ELSE <<>>

HasToken(headers, name, token) == name \in DOMAIN headers /\ token \in ToSet(headers[name])

detect_body_kind(headers) ==
    LET lengths == IF "content-length" \in DOMAIN headers THEN headers["content-length"] ELSE <<>>
    IN  IF HasToken(headers, "transfer-encoding", "chunked") THEN Kind("chunked")
        ELSE IF lengths = <<>> THEN Kind("none")
        ELSE IF Cardinality(ToSet(lengths)) > 1 THEN Failed("conflicting content-length headers")
        ELSE IF lengths[1] < 0 THEN Failed("invalid content-length header")
        ELSE IF lengths[1] = 0 THEN Kind("none")
        ELSE [kind |-> "length", length |-> lengths[1]]

Bodiless(status, method) == method = "HEAD" \/ status \in 100..199 \cup {204, 304}

(* Chunked counts only as the last coding; without any length the body     *)
(* ends with the connection.                                               *)
detect_response_body_kind(headers, status, method) ==
    LET kind == detect_body_kind(headers)
    IN  IF Bodiless(status, method) THEN Kind("none")
        ELSE IF Codings(headers) /= <<>>
             THEN Kind(IF Last(Codings(headers)) = "chunked" THEN "chunked" ELSE "close")
        ELSE IF kind = Kind("none") /\ "content-length" \notin DOMAIN headers THEN Kind("close")
        ELSE kind

has_non_chunked_transfer_coding(headers) == \E c \in ToSet(Codings(headers)) : c /= "chunked"

validate_http1_request_hardening(headers) ==
    IF "host" \notin DOMAIN headers THEN "missing required host header"
    ELSE IF Len(headers["host"]) > 1 THEN "multiple host headers"
    ELSE IF {"content-length", "transfer-encoding"} \subseteq DOMAIN headers THEN "ambiguous length"
    ELSE IF has_non_chunked_transfer_coding(headers) THEN "unsupported transfer-encoding"
    ELSE "none"

(* The headers of one hop, and those Connection names.                     *)
HopByHop ==
    {"connection", "proxy-connection", "keep-alive", "upgrade", "proxy-authenticate",
     "proxy-authorization", "te", "trailer", "x-forwarded-for", "x-forwarded-proto"}

MutantKeepFraming(headers, body_kind) ==
    WithoutHeaders(headers, HopByHop \cup (IF "connection" \in DOMAIN headers THEN ToSet(headers["connection"]) ELSE {}))

filter_headers(headers, body_kind) ==
    WithoutHeaders(headers,
        HopByHop \cup (IF "connection" \in DOMAIN headers THEN ToSet(headers["connection"]) ELSE {})
                 \cup (IF body_kind.kind = "chunked" THEN {} ELSE {"transfer-encoding"})
                 \cup (IF body_kind.kind = "length" THEN {} ELSE {"content-length"}))

Closing(headers, keep_alive) ==
    IF keep_alive THEN headers ELSE WithHeader(headers, "connection", <<"close">>)

normalize_request_headers(headers, client, keep_alive, body_kind) ==
    Closing(WithHeader(filter_headers(headers, body_kind), "x-forwarded-for", <<client>>), keep_alive)

NotChunked(coding) == coding /= "chunked"

(* A body that ended with the connection is sent on in chunks.             *)
normalize_response_headers(headers, keep_alive, body_kind) ==
    LET filtered == filter_headers(headers, body_kind)
    IN  Closing(IF body_kind.kind = "close"
                THEN WithHeader(filtered, "transfer-encoding",
                                Append(SelectSeq(Codings(headers), NotChunked), "chunked"))
                ELSE filtered, keep_alive)

reframe_buffered_headers(headers, body_length) ==
    WithHeader(WithoutHeaders(headers, {"transfer-encoding", "trailer"}), "content-length", <<body_length>>)

----------------------------------------------------------------------------
(* The request                                                             *)
absolute_form_authority(target) ==
    IF target.form /= "absolute" THEN "none"
    ELSE IF target.scheme \notin {"http", "https"} \/ canonicalize_host(target.authority) = "invalid"
    THEN "invalid" ELSE target.authority

(* The authority of an absolute target replaces the Host header.           *)
read_request_head(raw) ==
    LET fault == validate_http1_request_hardening(raw.headers)
        authority == absolute_form_authority(raw.target)
        headers == IF authority = "none" THEN raw.headers ELSE WithHeader(raw.headers, "host", <<authority>>)
        body_kind == detect_body_kind(headers)
    IN  IF fault /= "none" THEN Failed(fault)
        ELSE IF authority = "invalid" THEN Failed("invalid absolute-form target")
        ELSE IF IsFailed(body_kind) THEN body_kind
        ELSE [method |-> raw.method, target |-> raw.target, headers |-> headers, body_kind |-> body_kind,
              http10 |-> raw.http10,
              keep_alive |-> ~raw.http10 /\ ~HasToken(headers, "connection", "close")]

(* What handle_http3_request makes of a request of an HTTP/3 client.       *)
Http3Request(raw, body_length) ==
    LET addressed == IF "host" \in DOMAIN raw.headers THEN raw.headers
                     ELSE WithHeader(raw.headers, "host", <<raw.target.authority>>)
    IN  [method |-> raw.method, target |-> [raw.target EXCEPT !.form = "origin"], http10 |-> FALSE,
         headers |-> IF body_length = 0 THEN addressed
                     ELSE WithHeader(addressed, "content-length", <<body_length>>),
         body_kind |-> IF body_length = 0 THEN Kind("none") ELSE [kind |-> "length", length |-> body_length],
         keep_alive |-> FALSE]

Refuse1(status, why) == message' = [stage |-> "refused", status |-> status, why |-> why]

MatchInput(request, host) ==
    [target |-> request.target, host |-> host, method |-> request.method,
     headers |-> request.headers, source |-> setup.source]

(* Reads a request and looks for its route.                                *)
ReceiveRequest(raw, body_length) ==
    /\ message.stage = "idle"
    /\ LET request == IF setup.client = "http3" THEN Http3Request(raw, body_length) ELSE read_request_head(raw)
           host == IF setup.client = "http3" THEN raw.target.authority ELSE request.headers["host"][1]
       IN  IF IsFailed(request) THEN Refuse1(400, request.failed)
           ELSE message' = [stage |-> "read", raw |-> raw, request |-> request, host |-> host,
                            route |-> match_route_request_with_context(MatchInput(request, host), setup.rules)]
    /\ UNCHANGED setup

RouteTransform(route) == IF route \in DOMAIN setup.transforms THEN setup.transforms[route] ELSE NoTransform

effective_request_transform(route) ==
    merge_request_transforms(setup.listener_transform, RouteTransform(route))

(* The transform of the destination starts again from the request as read  *)
(* and takes the place of the listener's and the route's.                  *)
Transformed(read) ==
    LET first == apply_request_transform(read.request, effective_request_transform(read.route))
    IN  IF IsFailed(first) \/ ~setup.destination_request.set THEN first
        ELSE apply_request_transform(read.request, setup.destination_request.transform)

SingleValue(headers, name) ==
    IF name \in DOMAIN headers /\ Len(headers[name]) = 1 THEN headers[name][1] ELSE "none"

route_allows_requested_upgrade(route) == setup.listener_websocket \/ route \in setup.websocket

(* What classify_requested_upgrade finds: "none", "websocket" or what is wrong.       *)
classify_requested_upgrade(request) ==
    LET asked == HasToken(request.headers, "connection", "upgrade")
        protocol == SingleValue(request.headers, "upgrade")
    IN  IF protocol = "none" THEN IF asked THEN "missing_upgrade_header" ELSE "none"
        ELSE IF ~asked THEN "missing_connection_upgrade"
        ELSE IF protocol /= "websocket" THEN "unsupported_protocol"
        ELSE IF request.method /= "GET" THEN "invalid_method"
        ELSE IF request.body_kind.kind /= "none" THEN "body_not_allowed"
        ELSE "websocket"

append_upgrade_headers(headers, source) ==
    LET kept == {"connection", "upgrade"} \cap DOMAIN source
    IN  [n \in DOMAIN headers \cup kept |->
            (IF n \in DOMAIN headers THEN headers[n] ELSE <<>>) \o (IF n \in kept THEN source[n] ELSE <<>>)]

(* Transforms, routes and writes the request.  Its upgrade was classified  *)
(* before the transform of the destination; an HTTP/3 client has none.     *)
ForwardRequest ==
    /\ message.stage = "read"
    /\ LET listener == apply_request_transform(message.request, effective_request_transform(message.route))
           request == Transformed(message)
           upgrade == IF setup.client = "http3" THEN "none" ELSE classify_requested_upgrade(listener)
           headers == normalize_request_headers(request.headers, setup.source, request.keep_alive, request.body_kind)
       IN  IF IsFailed(listener) THEN Refuse1(400, "invalid transformed request target")
           ELSE IF upgrade \notin {"none", "websocket"} THEN Refuse1(400, upgrade)
           ELSE IF upgrade = "websocket" /\ ~route_allows_requested_upgrade(message.route) THEN Refuse1(400, "policy_denied")
           ELSE IF message.route = "none" /\ setup.reject_unmatched THEN Refuse1(403, "route not allowed")
           ELSE IF IsFailed(request) THEN Refuse1(400, "invalid transformed request target")
           ELSE message' = [message EXCEPT !.stage = "sent"]
                           @@ [forwarded |-> [method |-> request.method, target |-> request.target,
                                              headers |-> IF upgrade = "websocket"
                                                          THEN append_upgrade_headers(headers, request.headers)
                                                          ELSE headers],
                               sent |-> request, upgrade |-> upgrade]
    /\ UNCHANGED setup

----------------------------------------------------------------------------
read_response_head(raw, method) ==
    LET body_kind == detect_response_body_kind(raw.headers, raw.status, method)
    IN  IF IsFailed(body_kind) THEN body_kind
        ELSE [status |-> raw.status, headers |-> raw.headers, body |-> raw.body, body_kind |-> body_kind,
              keep_alive |->
                /\ raw.http10 => HasToken(raw.headers, "connection", "keep-alive")
                /\ ~HasToken(raw.headers, "connection", "close")
                /\ body_kind.kind /= "close"
                /\ ~({"transfer-encoding", "content-length"} \subseteq DOMAIN raw.headers)]

response_accepts_requested_upgrade(response) ==
    HasToken(response.headers, "connection", "upgrade") /\ SingleValue(response.headers, "upgrade") = "websocket"

(* The destination's response transform replaces the others, which add up. *)
effective_destination_response_transform ==
    IF setup.destination_response.set THEN setup.destination_response.mutations
    ELSE setup.listener_response \o (IF message.route \in DOMAIN setup.responses
                                     THEN setup.responses[message.route] ELSE <<>>)

(* The head and the framing of the body that a client of HTTP/1 receives.  *)
Streamed(response) ==
    LET http10 == message.sent.http10
        mutated == apply_http1_header_mutations(
                       normalize_response_headers(response.headers, TRUE, response.body_kind),
                       effective_destination_response_transform)
        raw == http10 /\ response.body_kind.kind \in {"chunked", "close"}
    IN  [status |-> response.status,
         headers |-> Closing(IF raw THEN WithoutHeaders(mutated, {"transfer-encoding", "trailer"}) ELSE mutated,
                             message.sent.keep_alive),
         framing |-> IF raw THEN "raw"
                     ELSE IF response.body_kind.kind = "close" THEN "chunked" ELSE response.body_kind.kind,
         body |-> response.body, persistent |-> message.sent.keep_alive]

is_http3_forbidden_header ==
    {"connection", "keep-alive", "proxy-connection", "transfer-encoding", "upgrade", "te"}

(* The whole response an HTTP/3 client receives, framed by HTTP/3.         *)
Buffered(response) ==
    LET normalized == normalize_response_headers(response.headers, TRUE, response.body_kind)
        mutated == apply_http1_header_mutations(
                       IF response.body_kind.kind = "none" THEN normalized
                       ELSE reframe_buffered_headers(normalized, response.body),
                       effective_destination_response_transform)
    IN  [status |-> response.status, headers |-> WithoutHeaders(mutated, is_http3_forbidden_header),
         framing |-> "http3", body |-> response.body, persistent |-> FALSE]

(* The upstream's connection is kept for the next request when its         *)
(* response allows it.                                                     *)
Answer1(answer, delivered, reused) ==
    message' = [message EXCEPT !.stage = "answered"]
               @@ [answer |-> answer, delivered |-> delivered, reused |-> reused]

ReceiveResponse(raw) ==
    /\ message.stage = "sent"
    /\ LET response == read_response_head(raw, message.forwarded.method)
           tunnel == message.upgrade = "websocket" /\ raw.status = 101
           coded == has_non_chunked_transfer_coding(raw.headers)
       IN  IF IsFailed(response) THEN Refuse1(502, response.failed)
           ELSE IF tunnel /\ ~response_accepts_requested_upgrade(response) THEN Refuse1(502, "malformed_101")
           ELSE IF tunnel
                THEN Answer1(raw, [status |-> 101, framing |-> "tunnel", body |-> 0, persistent |-> FALSE,
                              headers |-> append_upgrade_headers(
                                  normalize_response_headers(response.headers, TRUE, response.body_kind),
                                  response.headers)], FALSE)
           ELSE IF coded /\ (setup.client = "http3" \/ message.sent.http10) THEN Refuse1(502, "unsupported coding")
           ELSE IF setup.client = "http3" THEN Answer1(raw, Buffered(response), FALSE)
           ELSE Answer1(raw, Streamed(response), response.keep_alive)
    /\ UNCHANGED setup

----------------------------------------------------------------------------
(* Properties                                                              *)

(* The exchange moves through its stages with the records each one needs.  *)
MessagesTypeOK ==
    /\ message.stage \in {"idle", "read", "sent", "answered", "refused"}
    /\ message.stage \in {"read", "sent", "answered"} => message.request.body_kind.kind \in {"none", "length", "chunked"}
    /\ message.stage = "answered" =>
           message.delivered.framing \in {"none", "length", "chunked", "raw", "http3", "tunnel"}

(* How a recipient of HTTP/1.1 finds the end of a message (RFC 9112 6.3):  *)
(* without a body by its kind, else by the last coding, else by the        *)
(* length, else a response ends with the connection.                       *)
ReadAs(headers, none) ==
    IF Codings(headers) /= <<>> THEN IF Last(Codings(headers)) = "chunked" THEN Kind("chunked") ELSE Kind("close")
    ELSE IF "content-length" \in DOMAIN headers
         THEN [kind |-> "length", length |-> headers["content-length"][1]]
    ELSE none

(* The client finds the end of a response where the proxy puts it: what    *)
(* the forwarded head announces (normalize_response_headers and the        *)
(* HTTP/1.0 and buffered reframing) is the framing the body is relayed in, *)
(* and a body that ends with the connection comes on one that closes.  A   *)
(* response that announced length 0 is excepted: its length is dropped.    *)
AnswerReadAsSent ==
    message.stage = "answered" /\ message.delivered.framing /= "tunnel" =>
        LET head == message.delivered.headers
            body == message.delivered.body
            framing == message.delivered.framing
            end == ReadAs(head, Kind("close"))
        IN  \/ Bodiless(message.delivered.status, message.forwarded.method)
            \/ framing = "none" /\ body = 0
            \/ framing = "length" /\ end = [kind |-> "length", length |-> body]
            \/ framing = "chunked" /\ end = Kind("chunked")
            \/ framing = "raw" /\ end = Kind("close") /\ ~message.delivered.persistent
            \/ framing = "http3" /\ (body = 0 \/ end = [kind |-> "length", length |-> body])

(* The upstream reads the request's body where the client ended it: the    *)
(* forwarded head (read_request_head, filter_headers) announces exactly    *)
(* the body the proxy relays, by one kind of framing header, even when the *)
(* request carried repeated lengths or an HTTP/3 client's own length.      *)
RequestReadAsSent ==
    message.stage \in {"sent", "answered"} =>
        LET head == message.forwarded.headers
        IN  /\ ReadAs(head, Kind("none")) = message.request.body_kind
            /\ ~({"content-length", "transfer-encoding"} \subseteq DOMAIN head)
            /\ "content-length" \in DOMAIN head => Cardinality(ToSet(head["content-length"])) = 1

(* A connection to an upstream is used again only after a response whose   *)
(* end every reader places alike: not after one with both framing headers, *)
(* one that ends with the connection or one that asked for its close       *)
(* (read_response_head).                                                   *)
ReusedOnlyWhenClear ==
    message.stage = "answered" /\ message.reused =>
        LET head == message.answer.headers
        IN  /\ ~({"transfer-encoding", "content-length"} \subseteq DOMAIN head)
            /\ ~HasToken(head, "connection", "close")
            /\ \/ Bodiless(message.answer.status, message.forwarded.method)
               \/ ReadAs(head, Kind("close")) /= Kind("close")

(* Nothing meant for one hop crosses the proxy in either direction: no     *)
(* hop-by-hop header, none that Connection names, and Connection and       *)
(* Upgrade only as the proxy's own close or an upgrade it allowed.         *)
HopsStopped ==
    LET Own == {"connection", "upgrade", "x-forwarded-for"}
        Named(headers) == IF "connection" \in DOMAIN headers THEN ToSet(headers["connection"]) ELSE {}
        Stopped(received, sent, tunnel) ==
            /\ (HopByHop \cup Named(received)) \cap DOMAIN sent \subseteq Own
            /\ "upgrade" \in DOMAIN sent => tunnel
            /\ "connection" \in DOMAIN sent => ToSet(sent["connection"]) = {"close"} \/ tunnel
    IN  /\ message.stage \in {"sent", "answered"} =>
               /\ Stopped(message.raw.headers, message.forwarded.headers, message.upgrade = "websocket")
               /\ message.forwarded.headers["x-forwarded-for"] = <<setup.source>>
        /\ message.stage = "answered" =>
               Stopped(message.answer.headers, message.delivered.headers, message.delivered.framing = "tunnel")

(* Routing, the Host header and the target speak of one host: the route    *)
(* was matched on the host the upstream reads (unless a transform rewrote  *)
(* it), and an absolute target names the same one (read_request_head and   *)
(* apply_request_transform).                                               *)
HostAgrees ==
    message.stage \in {"sent", "answered"} =>
        LET host == message.forwarded.headers["host"][1]
            transform == IF setup.destination_request.set THEN setup.destination_request.transform
                         ELSE effective_request_transform(message.route)
        IN  /\ message.forwarded.target.form = "absolute" => message.forwarded.target.authority = host
            /\ host = IF transform.host_rewrite = "none" THEN message.host ELSE transform.host_rewrite
            /\ message.raw.target.form = "absolute" /\ setup.client = "http1" =>
                   message.host = message.raw.target.authority

(* The route in force is the first of the most specific rules that match,  *)
(* and how the client spelled the host and the path's percent encoding     *)
(* makes no difference (match_canonical_route and the canonical forms).    *)
MostSpecificRoute ==
    message.stage \in {"read", "sent", "answered"} =>
        LET input == MatchInput(message.request, message.host)
            canonical == canonicalize_route_match_input(input)
            Spelled(path) == [i \in DOMAIN path |-> IF path[i] = "x2f" THEN "x2F" ELSE path[i]]
            matching == IF IsFailed(canonical) THEN {}
                        ELSE {i \in DOMAIN setup.rules : route_rule_matches(setup.rules[i], canonical)}
            Better(i, j) == MoreSpecific(specificity_key(setup.rules[i]), specificity_key(setup.rules[j]))
        IN  /\ IF matching = {} THEN message.route = "none"
               ELSE \E i \in matching :
                        /\ setup.rules[i].label = message.route
                        /\ \A j \in matching : ~Better(j, i) /\ (j < i => Better(i, j))
            /\ \A host \in DOMAIN HostSpellings :
                   canonicalize_host(host) = canonicalize_host(message.host) =>
                       match_route_request_with_context(
                           [input EXCEPT !.host = host, !.target.path = Spelled(@)], setup.rules) = message.route

(* Client, proxy and upstream agree on every message: on where its body    *)
(* ends, on its host and route, and on the connection it leaves behind.    *)
MessagesSound ==
    /\ MessagesTypeOK /\ AnswerReadAsSent /\ RequestReadAsSent /\ ReusedOnlyWhenClear
    /\ HopsStopped /\ HostAgrees /\ MostSpecificRoute
=============================================================================
