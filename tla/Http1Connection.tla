-------------------------- MODULE Http1Connection --------------------------
(***************************************************************************)
(* One downstream HTTP/1.1 connection of the proxy                         *)
(* (crates/runtime/src/http1_proxy): the request loop of                   *)
(* proxy_http1_connection_with_downstream_addr and the dispatch loop of    *)
(* process_uncached_request, with the upstream connection it keeps open    *)
(* between requests and the failure policy (circuit breaker, retry budget) *)
(* of the route destination, shared with other connections.                *)
(*                                                                         *)
(* One action per step between two awaits.  Bytes are abstracted to the    *)
(* request they belong to: pending is what the upstream still has to       *)
(* answer on the connection, upstream_buffer what was read and not yet     *)
(* consumed.                                                               *)
(***************************************************************************)
EXTENDS FailureManagement, Sequences

CONSTANTS
    MaxRequests,    \* bound: requests on the connection
    Targets,        \* upstream targets a route can select
    Http3Targets,   \* those reached over HTTP/3
    NoTarget,       \* no upstream connection is open
    Configs,        \* the proxy configurations explored
    Requests,       \* the request heads explored
    UpstreamStatuses        \* what an upstream answers

ConfigRecord ==
    [enforce_circuit_breaker   : BOOLEAN,
     enforce_retry_budget      : BOOLEAN,
     enforce_timeout_hierarchy : BOOLEAN,
     response_cache            : BOOLEAN]

RequestRecord ==
    {r \in [body : BOOLEAN, http10 : BOOLEAN, keep_alive : BOOLEAN, safe : BOOLEAN,
            upgrade : BOOLEAN, target : Targets] :
        (r.safe => ~r.body) /\ (r.http10 => ~r.keep_alive)}

ASSUME ConnectionAssumption ==
    /\ MaxRequests \in Nat
    /\ Http3Targets \subseteq Targets
    /\ NoTarget \notin Targets
    /\ Configs \subseteq ConfigRecord
    /\ Requests \subseteq RequestRecord
    /\ UpstreamStatuses \subseteq {"Ok", "NotModified", "ServerError", "Unavailable", "NotImplemented",
                           "Switching", "Interim"}

VARIABLES
    config,           \* destination policy flags and whether a response cache is set
    pc,               \* where the connection task is
    req,              \* number of the request being served
    request,          \* its head: what the control flow looks at
    plan,             \* what the cache lookup armed: key, stale and revalidation entries
    retried,          \* retried_stale_reuse
    reused,           \* reused_existing_connection
    upstream,         \* target of the open upstream connection, or NoTarget
    pending,          \* requests written on it and not answered yet
    upstream_buffer,  \* bytes read from an upstream and not consumed
    response,         \* the response head being handled
    breaker, budget,  \* the destination's FailureManager
    seen              \* history of the request, see SeenRecord

conn == <<upstream, pending, upstream_buffer>>
failure == <<breaker, budget>>
connectionVars == <<config, pc, req, request, plan, retried, reused, conn, response,
          failure, seen>>

\* Fetch{key, stale_fallback, revalidation_entry}, Bypass or no cache at all.
Plans ==
    {p \in [key : BOOLEAN, stale : BOOLEAN, revalidate : BOOLEAN] :
        (p.revalidate => p.stale) /\ (p.stale => p.key)}

NoPlan == [key |-> FALSE, stale |-> FALSE, revalidate |-> FALSE]

\* What a read left in the buffer: a whole response, or a piece (the start of a
\* head, some of a body, the first bytes of a tunnel).
Bytes == [of : 1..MaxRequests, whole : BOOLEAN]

Piece(of) == [of |-> of, whole |-> FALSE]

\* A head put together from a piece and the head of another response.
Mixed == 0

Responses == [of : {Mixed} \cup 1..MaxRequests, status : UpstreamStatuses, keep_alive : BOOLEAN]

NoResponse == [of |-> 0, status |-> "None", keep_alive |-> FALSE]

SeenRecord ==
    [heads   : Nat,      \* response heads written for the request
     sends   : Nat,      \* times it was written to an upstream
     owed    : Int,      \* breaker admissions less reported outcomes
     foreign : BOOLEAN,  \* it was given the response of another request, or a mixed one
     cut     : BOOLEAN]  \* an exchange of the connection was left before its response was read

NothingSeen == [heads |-> 0, sends |-> 0, owed |-> 0, foreign |-> FALSE, cut |-> FALSE]

ProgramPoints ==
    {"idle", "policy", "attempt", "connect", "send", "ask", "pay", "body", "await",
     "response", "relay", "tunnel", "stalled", "closed"}

ConnectionTypeOK ==
    /\ config \in ConfigRecord
    /\ pc \in ProgramPoints
    /\ req \in 0..MaxRequests
    /\ request \in Requests
    /\ plan \in Plans
    /\ retried \in BOOLEAN /\ reused \in BOOLEAN
    /\ upstream \in Targets \cup {NoTarget}
    /\ pending \in Seq(1..MaxRequests)
    /\ upstream_buffer \in Seq(Bytes)
    /\ response \in Responses \cup {NoResponse}
    /\ breaker \in BreakerRecord /\ budget \in BudgetRecord
    /\ seen \in SeenRecord

ConnectionInit ==
    /\ config \in Configs
    /\ pc = "idle"
    /\ req = 0
    /\ request \in Requests
    /\ plan = NoPlan
    /\ retried = FALSE /\ reused = FALSE
    /\ upstream = NoTarget /\ pending = <<>> /\ upstream_buffer = <<>>
    /\ response = NoResponse
    /\ breaker = NewBreaker /\ budget = NewBudget
    /\ seen = NothingSeen

----------------------------------------------------------------------------
(* Pieces of handlers *)

\* After a response the loop reads the next head; it leaves when the client asked
\* for that, and when the client could not be written to.
NextRequest == pc' \in {"closed"} \cup {p \in {"idle"} : request.keep_alive}

\* seen, once a response head was written, the response in hand or what it says was
\* handed on, bytes were left in the buffer, the breaker admitted, an outcome was
\* reported to it.
WithHead(r) == [r EXCEPT !.heads = @ + 1]
WithResponse(r) == [WithHead(r) EXCEPT !.foreign = @ \/ response.of /= req]
WithLeft(r, bytes) == [r EXCEPT !.cut = @ \/ bytes /= <<>>]
WithAdmission(r) == [r EXCEPT !.owed = IF config.enforce_circuit_breaker THEN @ + 1 ELSE @]
WithReport(r) == [r EXCEPT !.owed = IF config.enforce_circuit_breaker THEN @ - 1 ELSE @]

RecordDestinationSuccess ==
    breaker' = IF config.enforce_circuit_breaker THEN RecordSuccess(breaker) ELSE breaker

RecordDestinationFailure(class) ==
    breaker' = IF config.enforce_circuit_breaker
               THEN RecordFailure(breaker, 0, class) ELSE breaker

ServerErrors == {"ServerError", "Unavailable", "NotImplemented"}

ClassifyHttp1ResponseFailure(status) ==
    CASE status = "Unavailable" -> "Overloaded"
      [] status = "NotImplemented" -> "Permanent"
      [] status = "ServerError" -> "Temporary"

RecordResponse(status) ==
    IF status \in ServerErrors
    THEN RecordDestinationFailure(ClassifyHttp1ResponseFailure(status))
    ELSE RecordDestinationSuccess

\* record_destination_timeout looks at another flag.
RecordDestinationTimeout ==
    breaker' = IF config.enforce_timeout_hierarchy
               THEN RecordFailure(breaker, 0, "Timeout") ELSE breaker

WithTimeoutReport(r) ==
    [r EXCEPT !.owed = IF config.enforce_timeout_hierarchy THEN @ - 1 ELSE @]

\* drop_upstream_connection: the connection goes, the bytes read from it stay.
DropUpstream ==
    /\ upstream' = NoTarget
    /\ pending' = <<>>

Errors ==
    {"Connect", "ConnectTimeout", "RequestIo", "ParseRequest", "ParseResponse",
     "IdleRequestBody", "IdleResponseHead", "IdleResponseBody", "IdleTunnel", "BodyLimit",
     "ResponseIo"}

ErrorAllowsStaleIfError(error) ==
    error \in {"Connect", "ConnectTimeout", "ParseResponse", "RequestIo",
               "IdleRequestBody", "IdleResponseHead"}

\* Once the head went downstream a stale response must not follow it.
ResponseStartedErrorAsIs(error) == error

ResponseStartedError(error) ==
    IF plan.stale /\ ErrorAllowsStaleIfError(error) THEN "ResponseIo" ELSE error

\* process_uncached_request returned Err: either a stale response is served and
\* the loop goes on, or the connection ends.  What was read and not consumed stays.
Failed(error, r, bytes) ==
    /\ upstream' = NoTarget /\ pending' = <<>>
    /\ upstream_buffer' = bytes
    /\ IF plan.stale /\ ErrorAllowsStaleIfError(error)
       THEN seen' = WithHead(WithLeft(r, bytes)) /\ NextRequest
       ELSE seen' = r /\ pc' = "closed"

----------------------------------------------------------------------------
(* The request loop *)

\* read_request_head returned a head.  It parses whatever comes next: after a local
\* answer to a request whose body was not read, that is the body.
ReadHead ==
    /\ pc = "idle" /\ req < MaxRequests
    /\ req' = req + 1
    /\ request' \in Requests
    /\ seen' = [NothingSeen EXCEPT !.cut = seen.cut]
    /\ plan' = NoPlan /\ retried' = FALSE /\ reused' = FALSE /\ response' = NoResponse
    /\ pc' = "policy"
    /\ UNCHANGED <<config, conn, failure>>

\* EOF, an idle timeout or bytes that are no request head.
NoMoreRequests ==
    /\ pc = "idle"
    /\ pc' = "closed"
    /\ UNCHANGED <<config, req, request, plan, retried, reused, conn, response,
                   failure, seen>>

\* A check before dispatch answers locally.
AnswerLocally ==
    /\ pc = "policy"
    /\ seen' = WithHead(seen)
    /\ UNCHANGED <<config, req, request, plan, retried, reused, conn, response,
                   failure>>

\* Invalid forwarding headers, or a source that is blocked or gets blocked now.
RefuseSource == AnswerLocally /\ pc' = "closed"

\* The request transform of the route fails.
RefuseTransform == AnswerLocally /\ NextRequest

\* A malformed upgrade, or one the route does not allow.
RefuseUpgrade == AnswerLocally /\ pc' = "closed"

\* No route or no eligible backend; a source with too many unmatched requests
\* gets blocked.
RefuseRoute(blocked) == AnswerLocally /\ (IF blocked THEN pc' = "closed" ELSE NextRequest)

\* The destination's authentication, transform, authorization, identity, local
\* limits or injected fault.
RefuseByDestination == AnswerLocally /\ NextRequest

ServeFromCache ==
    /\ pc = "policy"
    /\ config.response_cache /\ ~request.body
    /\ seen' = WithHead(seen)
    /\ NextRequest
    /\ UNCHANGED <<config, req, request, plan, retried, reused, conn, response,
                   failure>>

\* A miss, a revalidation, a bypass or no cache: process_uncached_request starts.
Dispatch ==
    /\ pc = "policy"
    /\ plan' \in (IF config.response_cache /\ ~request.body THEN Plans ELSE {NoPlan})
    /\ budget' = IF config.enforce_retry_budget THEN RecordBaseRequest(budget, 0) ELSE budget
    /\ pc' = "attempt"
    /\ UNCHANGED <<config, req, request, retried, reused, conn, response, breaker,
                   seen>>

\* An HTTP/3 target: the body is collected and sent with the request, and the
\* answer comes back whole.  The breaker is not asked, and told the outcome.
DispatchHttp3(status) ==
    /\ pc = "attempt" /\ request.target \in Http3Targets
    /\ DropUpstream
    /\ NextRequest
    /\ IF status = "Draining"
       THEN seen' = WithHead(seen) /\ UNCHANGED breaker
       ELSE seen' = WithHead(WithReport(seen)) /\ RecordResponse(status)
    /\ UNCHANGED <<config, req, request, plan, retried, reused, upstream_buffer, response,
                   budget>>

\* Collecting the body failed, or the exchange.
FailHttp3(error) ==
    /\ pc = "attempt" /\ request.target \in Http3Targets
    /\ error /= "ResponseIo" => request.body
    /\ Failed(error, seen, upstream_buffer)
    /\ UNCHANGED <<config, req, request, plan, retried, reused, response, failure>>

----------------------------------------------------------------------------
(* One attempt *)

\* "route destination circuit open"
RejectOpenCircuit ==
    /\ pc = "attempt" /\ request.target \notin Http3Targets
    /\ config.enforce_circuit_breaker /\ ~AdmitsRequest(breaker, 0)
    /\ breaker' = AllowRequest(breaker, 0)
    /\ seen' = WithHead(seen)
    /\ NextRequest
    /\ UNCHANGED <<config, req, request, plan, retried, reused, conn, response,
                   budget>>

AdmitAttempt ==
    /\ pc = "attempt" /\ request.target \notin Http3Targets
    /\ config.enforce_circuit_breaker => AdmitsRequest(breaker, 0)
    /\ breaker' = IF config.enforce_circuit_breaker THEN AllowRequest(breaker, 0) ELSE breaker
    /\ seen' = WithAdmission(seen)
    /\ pc' = "connect"
    /\ UNCHANGED <<config, req, request, plan, retried, reused, conn, response,
                   budget>>

\* The kept connection is to the same target and not past the reuse timeout.
ReuseConnection ==
    /\ pc = "connect" /\ upstream = request.target
    /\ reused' = TRUE
    /\ pc' = "send"
    /\ UNCHANGED <<config, req, request, plan, retried, conn, response, failure,
                   seen>>

OpenConnection ==
    /\ pc = "connect"
    /\ upstream' = request.target /\ pending' = <<>>
    /\ reused' = FALSE
    /\ pc' = "send"
    /\ UNCHANGED <<config, req, request, plan, retried, upstream_buffer, response,
                   failure, seen>>

FailToConnect(error) ==
    /\ pc = "connect"
    /\ IF error = "ConnectTimeout"
       THEN /\ RecordDestinationTimeout
            /\ Failed(error, WithTimeoutReport(seen), upstream_buffer)
       ELSE /\ RecordDestinationFailure("Connect")
            /\ Failed(error, WithReport(seen), upstream_buffer)
    /\ UNCHANGED <<config, req, request, plan, retried, reused, response, budget>>

RetryStaleReuseOfAny == reused /\ ~retried
RetryStaleReuseAlways == request.safe
RetryStaleReuse == reused /\ ~retried /\ request.safe

\* The upstream failed before it answered.  A request that may be replayed asks
\* allow_destination_retry, any other ends with this error.
UpstreamFailed(class, error, retryable, bytes) ==
    /\ RecordDestinationFailure(class)
    /\ IF RetryStaleReuse /\ retryable
       THEN /\ DropUpstream
            /\ upstream_buffer' = bytes
            /\ seen' = WithLeft(WithReport(seen), bytes)
            /\ pc' = "ask"
       ELSE Failed(error, WithReport(seen), bytes)

\* allow_destination_retry, called with no selected upstream (the endpoint's health
\* is not consulted), asks the breaker and then the budget, each under a lock of its
\* own.  The classes that lead here are retryable, their errors allow a stale response.
AskForRetry ==
    /\ pc = "ask"
    /\ breaker' = IF config.enforce_circuit_breaker THEN AllowRequest(breaker, 0) ELSE breaker
    /\ IF config.enforce_circuit_breaker => AdmitsRequest(breaker, 0)
       THEN /\ seen' = WithAdmission(seen)
            /\ pc' = "pay"
            /\ UNCHANGED conn
       ELSE Failed("ParseResponse", seen, upstream_buffer)
    /\ UNCHANGED <<config, req, request, plan, retried, reused, response, budget>>

\* The retry begins another attempt, which asks the breaker again.
PayForRetry ==
    /\ pc = "pay"
    /\ budget' = IF config.enforce_retry_budget THEN AllowRetry(budget, 0) ELSE budget
    /\ IF config.enforce_retry_budget => AllowsRetry(budget, 0)
       THEN /\ retried' = TRUE
            /\ pc' = "attempt"
            /\ UNCHANGED <<conn, seen>>
       ELSE UNCHANGED retried /\ Failed("ParseResponse", seen, upstream_buffer)
    /\ UNCHANGED <<config, req, request, plan, reused, response, breaker>>

SendHead ==
    /\ pc = "send"
    /\ pending' = Append(pending, req)
    /\ seen' = [seen EXCEPT !.sends = @ + 1]
    /\ pc' = "body"
    /\ UNCHANGED <<config, req, request, plan, retried, reused, upstream, upstream_buffer,
                   response, failure>>

FailToSendHead ==
    /\ pc = "send"
    /\ UpstreamFailed("Connect", "RequestIo", TRUE, upstream_buffer)
    /\ UNCHANGED <<config, req, request, plan, retried, reused, response, budget>>

\* bounded_dispatch_timeout found the request or attempt deadline passed before
\* the body was relayed or the response awaited: a local 504, and the upstream
\* connection is kept as it is, with its exchange open.
PassDeadline ==
    /\ pc \in {"body", "await"} /\ config.enforce_timeout_hierarchy
    /\ RecordDestinationTimeout
    /\ seen' = [WithHead(WithTimeoutReport(seen)) EXCEPT !.cut = TRUE]
    /\ NextRequest
    /\ UNCHANGED <<config, req, request, plan, retried, reused, conn, response, budget>>

RelayRequestBody ==
    /\ pc = "body"
    /\ pc' = "await"
    /\ UNCHANGED <<config, req, request, plan, retried, reused, conn, response, failure,
                   seen>>

\* relay_body failed: by the client's hand (it reset or closed the connection,
\* stalled, or sent too much) or because the upstream took no more bytes.
FailRequestBody(error) ==
    /\ pc = "body" /\ request.body
    /\ IF error = "IdleRequestBody"
       THEN /\ RecordDestinationTimeout
            /\ Failed(error, WithTimeoutReport(seen), upstream_buffer)
       ELSE /\ RecordDestinationFailure("Temporary")
            /\ Failed(error, WithReport(seen), upstream_buffer)
    /\ UNCHANGED <<config, req, request, plan, retried, reused, response, budget>>

----------------------------------------------------------------------------
(* The response *)

HasBody(status) == status \notin {"NotModified", "Switching", "Interim"}

\* What follows a head in the read that ended it: some of its body or of the
\* tunnel or, after an interim response, the final one.
Following(of, status) ==
    {<<>>} \cup
    (CASE HasBody(status) \/ status = "Switching" -> {<<Piece(of)>>}
       [] status = "Interim" -> {<<[of |-> of, whole |-> TRUE]>>}
       [] status = "NotModified" -> {})

WholeHeadRead == upstream_buffer /= <<>> /\ Head(upstream_buffer).whole

\* read_response_head returned a head: the one at the front of the buffer, or the
\* next the upstream sends, with a piece that was left in the buffer as its start.
ReadResponseHead(status, keep) ==
    /\ pc = "await"
    /\ \/ /\ ~WholeHeadRead
          /\ response' = [of |-> IF upstream_buffer = <<>> THEN Head(pending) ELSE Mixed,
                          status |-> status, keep_alive |-> keep]
          /\ upstream_buffer' \in Following(Head(pending), status)
          /\ pending' = IF status = "Interim" /\ upstream_buffer' = <<>>
                        THEN pending ELSE Tail(pending)
       \/ /\ WholeHeadRead
          /\ response' = [of |-> Head(upstream_buffer).of, status |-> status,
                          keep_alive |-> keep]
          /\ upstream_buffer' \in Following(Head(upstream_buffer).of, status)
          /\ UNCHANGED pending
    /\ pc' = "response"
    /\ UNCHANGED <<config, req, request, plan, retried, reused, upstream, failure, seen>>

\* The buffer when a read of a head fails or times out: what was there, or part of
\* the head.
PartialHead == {upstream_buffer} \cup {b \in {<<Piece(req)>>} : upstream_buffer = <<>>}

\* The upstream closed or reset the connection (retryable), or sent bytes that
\* are no response head.
FailResponseHead(retryable, bytes) ==
    /\ pc = "await"
    /\ UpstreamFailed("Temporary", "ParseResponse", retryable, bytes)
    /\ UNCHANGED <<config, req, request, plan, retried, reused, response, budget>>

TimeOutResponseHeadKeepsConnection(bytes) ==
    /\ pc = "await"
    /\ RecordDestinationTimeout
    /\ seen' = WithHead(WithTimeoutReport(seen))
    /\ plan.stale
    /\ NextRequest
    /\ UNCHANGED <<config, req, request, plan, retried, reused, conn, response, budget>>

TimeOutResponseHead(bytes) ==
    /\ pc = "await"
    /\ RecordDestinationTimeout
    /\ Failed("IdleResponseHead", WithTimeoutReport(seen), bytes)
    /\ UNCHANGED <<config, req, request, plan, retried, reused, response, budget>>

Switching == request.upgrade /\ response.status = "Switching"
NotModified == response.status = "NotModified" /\ plan.revalidate
StaleInstead == response.status \in ServerErrors /\ plan.stale

\* The 101 goes to the client, and the bytes of both sides are relayed from now on.
OpenTunnel ==
    /\ pc = "response" /\ Switching
    /\ seen' = WithResponse(seen)
    /\ pc' = "tunnel"
    /\ UNCHANGED <<config, req, request, plan, retried, reused, conn, response, failure>>

\* Both sides closed the tunnel.
CloseTunnel ==
    /\ pc = "tunnel"
    /\ RecordDestinationSuccess
    /\ seen' = WithReport(seen)
    /\ DropUpstream
    /\ upstream_buffer' = <<>>
    /\ pc' = "closed"
    /\ UNCHANGED <<config, req, request, plan, retried, reused, response, budget>>

\* A side went quiet, or could not be read from or written to.  The error of the
\* request direction is one that a stale entry is served after, tunnel or not.
FailTunnel(error, bytes) ==
    /\ pc = "tunnel"
    /\ IF error = "IdleTunnel"
       THEN RecordDestinationTimeout /\ Failed(error, WithTimeoutReport(seen), bytes)
       ELSE RecordDestinationFailure("Temporary") /\ Failed(error, WithReport(seen), bytes)
    /\ UNCHANGED <<config, req, request, plan, retried, reused, response, budget>>

\* A 101 without valid upgrade headers, or a transfer coding an HTTP/1.0 client
\* cannot take: no outcome is reported.
RefuseResponse ==
    /\ pc = "response"
    /\ Switching \/ (~NotModified /\ ~StaleInstead /\ request.http10)
    /\ Failed("ParseResponse", seen, upstream_buffer)
    /\ UNCHANGED <<config, req, request, plan, retried, reused, response, failure>>

\* 304: the cached entry is refreshed with its headers and served.
ServeRevalidated ==
    /\ pc = "response" /\ ~Switching /\ NotModified
    /\ RecordDestinationSuccess
    /\ seen' = WithResponse(WithReport(seen))
    /\ IF response.keep_alive THEN UNCHANGED <<upstream, pending>> ELSE DropUpstream
    /\ NextRequest
    /\ UNCHANGED <<config, req, request, plan, retried, reused, upstream_buffer, response,
                   budget>>

\* 5xx with a stale entry armed: the entry is served, the response's body is never
\* read, and what came of it with the head stays in the buffer.
ServeStaleInstead ==
    /\ pc = "response" /\ ~Switching /\ StaleInstead
    /\ RecordDestinationSuccess
    /\ seen' = WithHead(WithLeft(WithReport(seen), upstream_buffer))
    /\ DropUpstream
    /\ NextRequest
    /\ UNCHANGED <<config, req, request, plan, retried, reused, upstream_buffer, response,
                   budget>>

RelayResponseHead ==
    /\ pc = "response" /\ ~Switching /\ ~NotModified /\ ~StaleInstead
    /\ seen' = [WithResponse(seen) EXCEPT !.cut = @ \/ response.status = "Interim"]
    /\ pc' = "relay"
    /\ UNCHANGED <<config, req, request, plan, retried, reused, conn, response,
                   failure>>

RelayResponseBody ==
    /\ pc = "relay"
    /\ RecordResponse(response.status)
    /\ seen' = WithReport(seen)
    /\ upstream_buffer' = IF HasBody(response.status) THEN <<>> ELSE upstream_buffer
    /\ IF response.keep_alive THEN UNCHANGED <<upstream, pending>> ELSE DropUpstream
    /\ IF response.status = "Switching" THEN pc' = "closed" ELSE NextRequest
    /\ UNCHANGED <<config, req, request, plan, retried, reused, response, budget>>

\* The relay failed, while filling the cache (not reported) or not, or its
\* deadline had passed, which is looked at before any body that was not filled.
FailResponseBody(error, filling) ==
    /\ pc = "relay"
    /\ error /= "Deadline" => HasBody(response.status)
    /\ filling => plan.key /\ error /= "Deadline"
    /\ error = "Deadline" => config.enforce_timeout_hierarchy
    /\ CASE filling ->
              /\ Failed(ResponseStartedError(error), seen, upstream_buffer)
              /\ UNCHANGED breaker
         [] ~filling /\ error \in {"Deadline", "IdleResponseBody"} ->
              /\ Failed("IdleResponseBody", WithTimeoutReport(seen), upstream_buffer)
              /\ RecordDestinationTimeout
         [] ~filling /\ error \notin {"Deadline", "IdleResponseBody"} ->
              /\ Failed(ResponseStartedError(error), WithReport(seen), upstream_buffer)
              /\ RecordDestinationFailure("Temporary")
    /\ UNCHANGED <<config, req, request, plan, retried, reused, response, budget>>

----------------------------------------------------------------------------
(* Environment *)

\* The response could not be written downstream: the task returns at once.
DownstreamGone ==
    /\ pc = "response" \/ (pc = "attempt" /\ request.target \in Http3Targets)
    /\ pc' = "closed"
    /\ UNCHANGED <<config, req, request, plan, retried, reused, conn, response,
                   failure, seen>>

\* A peer stops reading for good: every point leads to a write (the answer to the
\* client, a stale entry, the request, a body, a tunnel), and no write has a timeout.
Stall ==
    /\ pc \notin {"idle", "stalled", "closed"}
    /\ pc' = "stalled"
    /\ UNCHANGED <<config, req, request, plan, retried, reused, conn, response, failure, seen>>

\* The destination's other connections ask and tell its breaker, and draw on its
\* budget (bound: they add requests to a window of fewer than MaxRequests).  Neither
\* matters to a connection that has ended.
OthersReport ==
    /\ pc \notin {"stalled", "closed"}
    /\ \/ /\ config.enforce_circuit_breaker
          /\ \/ breaker' = RecordSuccess(breaker)
             \/ \E class \in FailureClasses : breaker' = RecordFailure(breaker, 0, class)
             \/ breaker' = AllowRequest(breaker, 0)
          /\ UNCHANGED budget
       \/ /\ config.enforce_retry_budget
          /\ \/ budget.base_request_count < MaxRequests /\ budget' = RecordBaseRequest(budget, 0)
             \/ budget' = AllowRetry(budget, 0)
          /\ UNCHANGED breaker
    /\ UNCHANGED <<config, pc, req, request, plan, retried, reused, conn, response, seen>>

\* The clock.
Tick ==
    /\ pc \notin {"stalled", "closed"}
    /\ breaker' = AgeBreaker(breaker)
    /\ budget' = AgeBudget(budget)
    /\ UNCHANGED <<config, pc, req, request, plan, retried, reused, conn, response,
                   seen>>

Step ==
    \/ ReadHead \/ NoMoreRequests
    \/ RefuseSource \/ RefuseTransform \/ RefuseUpgrade \/ RefuseByDestination
    \/ \E blocked \in BOOLEAN : RefuseRoute(blocked)
    \/ ServeFromCache \/ Dispatch
    \/ \E status \in {"Ok", "Draining"} \cup ServerErrors : DispatchHttp3(status)
    \/ \E error \in {"ResponseIo", "RequestIo", "ParseRequest", "IdleRequestBody", "BodyLimit"} :
          FailHttp3(error)
    \/ RejectOpenCircuit \/ AdmitAttempt
    \/ ReuseConnection \/ OpenConnection
    \/ \E error \in {"Connect", "ConnectTimeout"} : FailToConnect(error)
    \/ SendHead \/ FailToSendHead \/ AskForRetry \/ PayForRetry
    \/ PassDeadline
    \/ RelayRequestBody
    \/ \E error \in {"RequestIo", "ParseRequest", "IdleRequestBody", "BodyLimit"} :
          FailRequestBody(error)
    \/ \E status \in UpstreamStatuses, keep \in BOOLEAN : ReadResponseHead(status, keep)
    \/ \E retryable \in BOOLEAN, bytes \in PartialHead : FailResponseHead(retryable, bytes)
    \/ \E bytes \in PartialHead : TimeOutResponseHead(bytes)
    \/ OpenTunnel
    \/ RefuseResponse \/ ServeRevalidated \/ ServeStaleInstead
    \/ RelayResponseHead \/ RelayResponseBody
    \/ \E error \in {"ParseResponse", "IdleResponseBody", "BodyLimit", "ResponseIo", "Deadline"},
          filling \in BOOLEAN : FailResponseBody(error, filling)

\* A tunnel lasts as long as its two sides want.
EndTunnel ==
    \/ CloseTunnel
    \/ \E error \in {"IdleTunnel", "RequestIo", "ResponseIo"}, bytes \in {<<>>, upstream_buffer} :
          FailTunnel(error, bytes)

ConnectionNext == Step \/ EndTunnel \/ DownstreamGone \/ Stall \/ OthersReport \/ Tick

ConnectionSpec == ConnectionInit /\ [][ConnectionNext]_connectionVars

\* Every read and every connect is bounded by a timeout and a write ends while its
\* peer reads, so the task takes its next step unless a peer stalled it.  Nothing
\* makes a tunnel end.
FairSpec == ConnectionSpec /\ WF_connectionVars(Step)

----------------------------------------------------------------------------
(* Properties *)

\* Every request gets a response head before the next one is read, and no second
\* one: no path answers twice (a stale or local response after a started one) or not
\* at all and goes on.  The exception is a tunnel whose request side fails while a
\* stale entry is armed: the entry is written into it (response_started_error is not
\* applied to relay_upgraded_streams).
OneResponse ==
    /\ seen.heads <= IF Switching /\ plan.stale THEN 2 ELSE 1
    /\ pc = "idle" /\ req > 0 => seen.heads >= 1

\* A request is written upstream twice at most, and twice only if it is
\* idempotent and replayable (retry_stale_reuse).
ReplayOnlySafe == seen.sends <= 2 /\ (seen.sends = 2 => request.safe)

\* The breaker never hears more outcomes of a request than it granted admissions,
\* and at most one admission per attempt, and one for the retry, stays unreported
\* (a retry is admitted twice: by allow_destination_retry and by the loop).  HTTP/3
\* is told of without being admitted.
ReportsMatchAdmissions ==
    config.enforce_circuit_breaker =>
        seen.owed \in IF request.target \in Http3Targets THEN {-1, 0}
                      ELSE 0..(IF retried THEN 2 ELSE 1)

\* A request is answered with the response to itself, never with one the upstream
\* sent for an earlier request of the connection or with a head made of two.
OwnResponse == ~seen.foreign

\* Retries, reused and dropped connections and cached answers never mix up responses
\* by themselves: only a connection on which an exchange was left before its response
\* was read can (a local 504, an interim response, a head half read, the body of a
\* response a stale entry was served for).
OwnResponseUnlessCut == seen.foreign => seen.cut

\* A request that was read is answered or its connection closed, unless it became a
\* tunnel or a peer stopped reading.
Answered == (pc = "policy") ~> (pc \in {"idle", "closed", "tunnel", "stalled"})

\* The attempts of a request are accounted for, with its destination and with the
\* breaker, through stale connections and retries: what was sent twice may be sent
\* twice, and no outcome is reported that was not admitted (retry_stale_reuse,
\* destination_policies.rs).
AttemptsAccounted == ReplayOnlySafe /\ ReportsMatchAdmissions
=============================================================================
