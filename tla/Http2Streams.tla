---------------------------- MODULE Http2Streams ----------------------------
(***************************************************************************)
(* One downstream HTTP/2 connection (crates/runtime/src/http2_proxy): the  *)
(* task of each accepted stream, the upstream connections the streams of   *)
(* the connection share, retries and hedged retries, mirrored requests,    *)
(* and the failure policy of the destination.                              *)
(*                                                                         *)
(* A task is <<s, role>>: the stream's own task, the two attempts of a     *)
(* retry, and the mirrored request.  One action per step between two       *)
(* awaits.  The clients mutex is held over a connect; a remove_client that *)
(* has to wait for it runs when it gets it.                                *)
(***************************************************************************)
EXTENDS FailureManagement, Sequences, FiniteSets, Functions

CONSTANTS
    StreamIds,              \* streams the peer opens
    MaxConcurrentStreams,   \* Http2Limits.max_concurrent_streams
    DestinationSlots        \* concurrency limit of the destination's policy

Roles == {"stream", "first", "second", "mirror"}
Tasks == StreamIds \X Roles
Free == <<>>
NoClient == 0

\* What the control flow looks at in a request.  fails: the checks it would fail.
StreamRequest ==
    [target : STRING, end_stream : BOOLEAN, idempotent : BOOLEAN, grpc : BOOLEAN,
     one_message : BOOLEAN, fails : SUBSET STRING]

VARIABLES
    h2config,    \* destination policy flags, hedging and mirroring
    streams,     \* what a stream's task knows, see NewStream
    tasks,       \* where each task is: pc, its client, and the clients it saw expired
    clients,     \* every upstream connection made: state, completed streams, given up
    registry,    \* UpstreamClientRegistry.clients: target -> client
    registryLock,\* the task that holds the clients mutex over a connect
    permits,     \* free permits of the stream semaphore
    leases,      \* streams holding a concurrency lease of the destination
    active,      \* MetricsState.active_streams
    manager,     \* the destination's breaker and retry budget, and what each stream told them
    ejected,     \* the selected endpoint is ejected
    link         \* the downstream connection: open or failed

h2Vars == <<h2config, streams, tasks, clients, registry, registryLock, permits, leases, active,
            manager, ejected, link>>

\* An upstream's answer; whole: its body was read to its end.
NoStreamAnswer == [status |-> 0, body |-> FALSE, grpc |-> "none", one_message |-> TRUE, whole |-> FALSE]

\* sends: how often the request was written upstream.  blame: how the upstream
\* failed the stream.
NewStream ==
    [request |-> [target |-> "", end_stream |-> TRUE, idempotent |-> FALSE, grpc |-> FALSE,
                  one_message |-> TRUE, fails |-> {}],
     prior |-> FALSE, retried |-> FALSE, grpc_retried |-> FALSE, answer |-> NoStreamAnswer,
     first_error |-> "none", out |-> "none", status |-> 0, reset |-> FALSE,
     sends |-> 0, blame |-> "none", passive |-> "none"]

NewTask == [pc |-> "off", client |-> NoClient, old |-> {}, result |-> "none", answer |-> NoStreamAnswer]

NewClient == [state |-> "live", completed |-> FALSE, expired |-> FALSE, given_up |-> FALSE]

\* warm: the targets earlier streams of the connection have completed on.
Http2Init(config, warm) ==
    /\ h2config = config
    /\ streams = [s \in StreamIds |-> NewStream]
    /\ tasks = [t \in Tasks |-> NewTask]
    /\ clients = [c \in 1..Cardinality(warm) |-> [NewClient EXCEPT !.completed = TRUE]]
    /\ \E order \in Bijection(warm, DOMAIN clients) : registry = order
    /\ registryLock = Free
    /\ permits = MaxConcurrentStreams
    /\ leases = {}
    /\ active = 0
    /\ manager = [breaker |-> NewBreaker, budget |-> NewBudget, told |-> [s \in StreamIds |-> {}]]
    /\ ejected = FALSE
    /\ link = "open"

Own(s) == <<s, "stream">>
pcOf(s) == tasks[Own(s)].pc
TargetOf(t) == IF t[2] = "mirror" THEN h2config.mirror_target ELSE streams[t[1]].request.target

\* The stream's task moves to pc; sr is its record afterwards.  Its lease of the
\* destination ends with proxy_one_http2_stream.
Move(s, pc, sr) ==
    /\ tasks' = [tasks EXCEPT ![Own(s)].pc = pc]
    /\ streams' = [streams EXCEPT ![s] = sr]
    /\ leases' = IF pc = "leaving" THEN leases \ {s} ELSE leases

----------------------------------------------------------------------------
(* The destination's failure policy *)

record_destination_failure(m, s, class) ==
    IF h2config.enforce_circuit_breaker
    THEN [m EXCEPT !.breaker = RecordFailure(@, 0, class), !.told[s] = @ \cup {"failure"}] ELSE m

\* A timeout reaches the breaker only through an enforced timeout hierarchy.
record_destination_timeout(m, s) ==
    IF h2config.enforce_timeout_hierarchy
    THEN [m EXCEPT !.breaker = RecordFailure(@, 0, "Timeout"), !.told[s] = @ \cup {"failure"}] ELSE m

record_destination_success(m, s) ==
    IF h2config.enforce_circuit_breaker
    THEN [m EXCEPT !.breaker = RecordSuccess(@), !.told[s] = @ \cup {"success"}] ELSE m

\* What allow_destination_retry returns, and what it leaves in the manager.
RetryAllowed(m, class) ==
    /\ ~ejected
    /\ h2config.enforce_circuit_breaker => AdmitsRequest(m.breaker, 0)
    /\ h2config.enforce_retry_budget => IsRetryable(class) /\ AllowsRetry(m.budget, 0)

AfterRetryCheck(m, class) ==
    LET asked == h2config.enforce_circuit_breaker /\ ~ejected IN
    [m EXCEPT !.breaker = IF asked THEN AllowRequest(@, 0) ELSE @,
              !.budget = IF /\ h2config.enforce_retry_budget /\ ~ejected /\ IsRetryable(class)
                            /\ asked => AdmitsRequest(m.breaker, 0)
                         THEN AllowRetry(@, 0) ELSE @]

classify_http2_response_failure(status) ==
    CASE status = 503 -> "Overloaded"
      [] status \in {501, 505} -> "Permanent"
      [] status \in 500..599 \ {501, 503, 505} -> "Temporary"
      [] OTHER -> "none"

classify_grpc_response_failure_with_policy(status) ==
    CASE status = "deadline" -> "Timeout" [] status = "exhausted" -> "Overloaded"
      [] status = "unavailable" -> "Temporary" [] OTHER -> "none"

\* The verdict of an answer on the destination, for the breaker.
AnswerClass(sr) ==
    LET grpc == IF sr.request.grpc THEN classify_grpc_response_failure_with_policy(sr.answer.grpc) ELSE "none"
    IN  IF grpc /= "none" THEN grpc ELSE classify_http2_response_failure(sr.answer.status)

RecordAnswer(s) ==
    LET class == AnswerClass(streams[s])
    IN  IF class = "none" THEN record_destination_success(manager, s)
        ELSE record_destination_failure(manager, s, class)

\* record_passive_health_result: only the errors of the upstream, and answers below 500.
PassiveFailures == {"UpstreamReady", "UpstreamRequest", "UpstreamResponse", "ResponseTimeout"}

record_passive_health_result(sr, result) ==
    [sr EXCEPT !.passive = IF result \in PassiveFailures THEN "failure"
                           ELSE IF result = "Ok" /\ sr.answer.status < 500 THEN "success" ELSE @]

\* The connection's error, as the stream's error: a graceful GOAWAY is a drain.
classify_http2_upstream_error(error, fallback) ==
    IF error = "goaway" THEN "UpstreamGracefulDrain" ELSE fallback

http2_stale_reuse_retryable_error(error) == error \in {"io", "goaway"}

----------------------------------------------------------------------------
(* Ends of a stream *)

\* send_local_response, then what follows it unless the peer had reset the stream.
Respond(s, sr, status, after(_)) ==
    Move(s, "leaving", IF sr.reset THEN [sr EXCEPT !.out = "gone"] ELSE after([sr EXCEPT !.out = "local", !.status = status]))

Plain(sr) == sr

\* The failure is reported to the pool's passive health after the answer.
Fail(s, sr, status, error) ==
    LET Passive(x) == record_passive_health_result(x, error) IN Respond(s, sr, status, Passive)

\* The checks before a stream is dispatched, in order, and what each answers.
LocalChecks ==
    <<<<"client_ip", 400>>, <<"anonymous_source", 403>>, <<"route_enumeration", 403>>,
      <<"query_probe", 403>>, <<"transform", 400>>, <<"unmatched_route", 403>>, <<"no_backend", 502>>,
      <<"jwt", 401>>, <<"destination_transform", 400>>,
      <<"external_denied", 403>>, <<"external_unavailable", 503>>, <<"external_invalid", 502>>,
      <<"upstream_identity", 503>>, <<"authorization", 403>>>>

\* The status of the first check the request fails among from..to, or 0.
LocalAnswer(request, from, to) ==
    LET failing == {i \in from..to : LocalChecks[i][1] \in request.fails}
    IN  IF failing = {} THEN 0
        ELSE LocalChecks[CHOOSE i \in failing : \A j \in failing : i <= j][2]

----------------------------------------------------------------------------
(* A stream up to its dispatch *)

\* The accept loop spawns the stream's task.
AcceptStream(s, r) ==
    /\ link = "open" /\ pcOf(s) = "off"
    /\ Move(s, "spawned", [streams[s] EXCEPT !.request = r])
    /\ UNCHANGED <<h2config, clients, registry, registryLock, permits, active, manager, ejected, link>>

\* try_acquire_owned, or REFUSED_STREAM.
BeginStream(s) ==
    /\ pcOf(s) = "spawned"
    /\ IF permits = 0
       THEN Move(s, "done", [streams[s] EXCEPT !.out = "refused"]) /\ UNCHANGED <<permits, active>>
       ELSE Move(s, "screen", streams[s]) /\ permits' = permits - 1 /\ active' = active + 1
    /\ UNCHANGED <<h2config, clients, registry, registryLock, manager, ejected, link>>

\* The checks up to the external authorization call.
Screen(s) ==
    /\ pcOf(s) = "screen"
    /\ LET status == LocalAnswer(streams[s].request, 1, 9)
       IN  IF status /= 0 THEN Respond(s, streams[s], status, Plain) ELSE Move(s, "authorize", streams[s])
    /\ UNCHANGED <<h2config, clients, registry, registryLock, permits, active, manager, ejected, link>>

\* The call returned: the remaining checks, then the destination's local limits.
Authorize(s) ==
    /\ pcOf(s) = "authorize"
    /\ LET status == LocalAnswer(streams[s].request, 10, 14)
           over == Cardinality(leases) >= DestinationSlots
       IN  IF status /= 0 \/ over
           THEN Respond(s, streams[s], IF status /= 0 THEN status ELSE 429, Plain)
           ELSE /\ tasks' = [tasks EXCEPT ![Own(s)].pc = "fault"]
                /\ leases' = leases \cup {s}
                /\ UNCHANGED streams
    /\ UNCHANGED <<h2config, clients, registry, registryLock, permits, active, manager, ejected, link>>

\* maybe_spawn_shadow_http2_request: only a request without a body is mirrored.
Mirrored(s) == h2config.mirror /\ streams[s].request.end_stream

\* The injected delay is over: abort, or mirror the request and count it.
InjectFault(s) ==
    /\ pcOf(s) = "fault"
    /\ IF "fault_abort" \in streams[s].request.fails
       THEN Respond(s, streams[s], 500, Plain) /\ UNCHANGED manager
       ELSE /\ tasks' = [tasks EXCEPT ![Own(s)].pc = "allow",
                                      ![<<s, "mirror">>].pc =
                             IF Mirrored(s) THEN "lookup" ELSE @]
            /\ manager' = IF h2config.enforce_retry_budget
                          THEN [manager EXCEPT !.budget = RecordBaseRequest(@, 0)] ELSE manager
            /\ UNCHANGED <<streams, leases>>
    /\ UNCHANGED <<h2config, clients, registry, registryLock, permits, active, ejected, link>>

\* The top of the dispatch loop.
AllowDispatch(s) ==
    /\ pcOf(s) = "allow"
    /\ IF h2config.enforce_circuit_breaker
       THEN /\ manager' = [manager EXCEPT !.breaker = AllowRequest(@, 0)]
            /\ IF AdmitsRequest(manager.breaker, 0) THEN Move(s, "lookup", streams[s])
               ELSE Respond(s, streams[s], 503, Plain)
       ELSE Move(s, "lookup", streams[s]) /\ UNCHANGED manager
    /\ UNCHANGED <<h2config, clients, registry, registryLock, permits, active, ejected, link>>

----------------------------------------------------------------------------
(* UpstreamClientRegistry *)

Without(target) == [k \in DOMAIN registry \ {target} |-> registry[k]]

With(target, c) == [k \in DOMAIN registry \cup {target} |-> IF k = target THEN c ELSE registry[k]]

Cached(t) == IF TargetOf(t) \in DOMAIN registry THEN registry[TargetOf(t)] ELSE NoClient

\* The task got client c; the stream remembers whether a stream had completed on it.
HandedOut(t, c, prior) ==
    /\ tasks' = [tasks EXCEPT ![t].pc = "send", ![t].client = c]
    /\ streams' = IF t[2] = "stream" THEN [streams EXCEPT ![t[1]].prior = prior] ELSE streams

Expired == {c \in 1..Len(clients) : clients[c].expired}

\* The first look of ensure_client; it reads the clock once.
LookupClient(t) ==
    /\ tasks[t].pc = "lookup" /\ registryLock = Free
    /\ LET c == Cached(t) IN
       IF c /= NoClient /\ c \notin Expired THEN HandedOut(t, c, clients[c].completed)
       ELSE /\ tasks' = [tasks EXCEPT ![t].pc = IF c = NoClient THEN "take" ELSE "evict", ![t].old = Expired]
            /\ UNCHANGED streams
    /\ UNCHANGED <<h2config, clients, registry, registryLock, permits, leases, active, manager, ejected, link>>

EvictClient(t) ==
    /\ tasks[t].pc = "evict" /\ registryLock = Free
    /\ registry' = Without(TargetOf(t))
    /\ tasks' = [tasks EXCEPT ![t].pc = "take"]
    /\ UNCHANGED <<h2config, streams, clients, registryLock, permits, leases, active, manager, ejected, link>>

\* The second look, under the lock that the connect then keeps.
TakeRegistry(t) ==
    /\ tasks[t].pc = "take" /\ registryLock = Free
    /\ LET c == Cached(t) IN
       IF c /= NoClient /\ c \notin tasks[t].old
       THEN HandedOut(t, c, clients[c].completed) /\ UNCHANGED <<registry, registryLock>>
       ELSE /\ registry' = Without(TargetOf(t))
            /\ registryLock' = t
            /\ tasks' = [tasks EXCEPT ![t].pc = "connecting"]
            /\ UNCHANGED streams
    /\ UNCHANGED <<h2config, clients, permits, leases, active, manager, ejected, link>>

ConnectClient(t) ==
    /\ tasks[t].pc = "connecting"
    /\ clients' = Append(clients, NewClient)
    /\ registry' = With(TargetOf(t), Len(clients'))
    /\ registryLock' = Free
    /\ HandedOut(t, Len(clients'), FALSE)
    /\ UNCHANGED <<h2config, permits, leases, active, manager, ejected, link>>

\* remove_client, by a task that gives its connection up.  It removes whatever
\* client the target has by then.
remove_client(t) ==
    /\ registryLock = Free
    /\ clients' = [clients EXCEPT ![tasks[t].client].given_up = TRUE]
    /\ registry' = Without(TargetOf(t))

----------------------------------------------------------------------------
(* Dispatch, retry and the answer of the upstream *)

SafeToRetry(sr) == sr.request.end_stream /\ sr.request.idempotent

Live(t) == clients[tasks[t].client].state = "live"

\* The error a task sees on its connection, or on its stream alone.
Errors(t) == (IF Live(t) THEN {"reset"} ELSE {clients[tasks[t].client].state})

\* An attempt of a retry ends: its result is for the stream's task to take.
AttemptEnds(t, result, sr) ==
    /\ tasks' = [tasks EXCEPT ![t].pc = "ended", ![t].result = result]
    /\ streams' = [streams EXCEPT ![t[1]] = sr]
    /\ UNCHANGED leases

MirrorEnds(t) ==
    /\ tasks' = [tasks EXCEPT ![t].pc = "ended"]
    /\ UNCHANGED <<streams, leases>>

Blamed(sr, how) == [sr EXCEPT !.blame = how]

\* The connect timed out or was refused.
ConnectFails(t, how) ==
    /\ tasks[t].pc = "connecting"
    /\ registryLock' = Free
    /\ LET s == t[1]
           sr == IF how = "timeout" THEN Blamed(streams[s], "timeout")
                 ELSE Blamed(streams[s], "error")
       IN  /\ manager' = IF t[2] = "mirror" THEN manager
                         ELSE IF how = "timeout" THEN record_destination_timeout(manager, t[1])
                         ELSE record_destination_failure(manager, t[1], "Connect")
           /\ CASE t[2] = "mirror" -> MirrorEnds(t)
                [] t[2] = "stream" /\ how = "timeout" -> Fail(s, sr, 504, "ResponseTimeout")
                [] t[2] = "stream" /\ how = "refused" -> Fail(s, sr, 502, "UpstreamRequest")
                [] OTHER -> AttemptEnds(t, IF how = "timeout" THEN "timeout" ELSE "UpstreamResponse", sr)
    /\ UNCHANGED <<h2config, clients, registry, permits, active, ejected, link>>

\* poll_ready and send_request succeed: the request is on the connection.
SendRequest(t) ==
    /\ tasks[t].pc = "send" /\ Live(t)
    /\ tasks' = [tasks EXCEPT ![t].pc =
                    IF t[2] = "stream" /\ ~streams[t[1]].request.end_stream THEN "request_body" ELSE "response"]
    /\ streams' = IF t[2] = "mirror" THEN streams ELSE [streams EXCEPT ![t[1]].sends = @ + 1]
    /\ UNCHANGED <<h2config, clients, registry, registryLock, permits, leases, active, manager, ejected, link>>

\* The conditions of a stale-connection retry, before the policy is asked.
MayRetryStale(s, error) ==
    /\ streams[s].prior
    /\ SafeToRetry(streams[s])
    /\ ~streams[s].retried
    /\ http2_stale_reuse_retryable_error(error)

\* poll_ready or send_request fails on a dead connection.
SendFails(t) ==
    /\ tasks[t].pc = "send" /\ ~Live(t)
    /\ LET s == t[1]
           error == clients[tasks[t].client].state
           m == record_destination_failure(manager, t[1], "Temporary")
           sr == Blamed(streams[s], IF error = "goaway" THEN "drain" ELSE "error")
           asks == t[2] = "stream" /\ MayRetryStale(s, error)
       IN  IF t[2] = "mirror"
           THEN MirrorEnds(t) /\ UNCHANGED <<clients, registry, manager>>
           ELSE /\ remove_client(t)
                /\ manager' = IF asks THEN AfterRetryCheck(m, "Temporary") ELSE m
                /\ CASE asks /\ RetryAllowed(m, "Temporary") ->
                            Move(s, "allow", [sr EXCEPT !.retried = TRUE, !.blame = "none"])
                     [] t[2] = "stream" /\ ~(asks /\ RetryAllowed(m, "Temporary")) ->
                            Fail(s, sr, 502, classify_http2_upstream_error(error, "UpstreamReady"))
                     [] OTHER -> AttemptEnds(t, classify_http2_upstream_error(error, "UpstreamReady"), sr)
    /\ UNCHANGED <<h2config, registryLock, permits, active, ejected, link>>

\* How a body relay can end: ok once data and trailers were passed on to the end.
\* The buffered form keeps the payload as well; the third only reads it.
relay_recv_body_to_send_stream == {"ok", "limit", "idle", "error"}
relay_recv_body_to_send_stream_buffered == {"ok", "limit", "idle", "error"}
read_recv_body_to_buffer == {"ok", "limit", "idle", "error"}

\* The payload was sent, or the flow-control window or the stream failed it.
send_buffered_stream_payload == BOOLEAN

\* What is left of the request and attempt timeouts may be nothing.
bounded_dispatch_timeout == IF h2config.enforce_timeout_hierarchy THEN {"deadline"} ELSE {}

\* The request body is relayed to its end, or one of the ways it is not.
RequestBody(s, outcome) ==
    /\ pcOf(s) = "request_body"
    /\ outcome \in bounded_dispatch_timeout \cup
            (IF SafeToRetry(streams[s]) \/ streams[s].request.grpc
             THEN relay_recv_body_to_send_stream_buffered ELSE relay_recv_body_to_send_stream)
    /\ outcome = "error" => ~Live(Own(s)) \/ streams[s].reset
    /\ LET sr == streams[s]
           blamed == IF Live(Own(s)) THEN sr ELSE Blamed(sr, "error")
       IN  CASE outcome = "ok" -> Move(s, "response", sr) /\ UNCHANGED manager
             [] outcome = "limit" -> Respond(s, sr, 413, Plain) /\ UNCHANGED manager
             [] outcome = "deadline" -> /\ Respond(s, sr, 504, Plain)
                                        /\ manager' = record_destination_timeout(manager, s)
             [] outcome = "idle" -> /\ Respond(s, sr, 408, Plain)
                                    /\ manager' = record_destination_timeout(manager, s)
             [] outcome = "error" -> /\ Respond(s, blamed, 502, Plain)
                                     /\ manager' = record_destination_failure(manager, s, "Temporary")
    /\ UNCHANGED <<h2config, clients, registry, registryLock, permits, active, ejected, link>>

AfterAnswer(sr) == IF sr.request.grpc THEN "buffer" ELSE "head"

\* The response head arrives.
HeadersArrive(t, a) ==
    /\ tasks[t].pc \in {"response", "grpc_response"} /\ Live(t)
    /\ LET s == t[1] sr == [streams[s] EXCEPT !.answer = a] IN
       CASE t[2] = "mirror" -> /\ clients' = [clients EXCEPT ![tasks[t].client].completed = TRUE]
                               /\ MirrorEnds(t)
         [] t[2] = "stream" -> Move(s, AfterAnswer(sr), sr) /\ UNCHANGED clients
         [] OTHER -> /\ tasks' = [tasks EXCEPT ![t].pc = "ended", ![t].result = "answer", ![t].answer = a]
                     /\ UNCHANGED <<streams, clients, leases>>
    /\ UNCHANGED <<h2config, registry, registryLock, permits, active, manager, ejected, link>>

\* bounded_dispatch_timeout finds the request or attempt timeout already spent.
DispatchDeadline(t) ==
    /\ tasks[t].pc \in {"response", "grpc_response"} /\ t[2] /= "mirror"
    /\ bounded_dispatch_timeout /= {}
    /\ manager' = record_destination_timeout(manager, t[1])
    /\ LET sr == Blamed(streams[t[1]], "timeout")
       IN  IF t[2] = "stream" THEN Respond(t[1], sr, 504, Plain) ELSE AttemptEnds(t, "timeout", sr)
    /\ UNCHANGED <<h2config, clients, registry, registryLock, permits, active, ejected, link>>

\* No response head within the timeout.
ResponseTimeout(t) ==
    /\ tasks[t].pc \in {"response", "grpc_response"}
    /\ IF t[2] = "mirror" THEN MirrorEnds(t) /\ UNCHANGED <<clients, registry, manager>>
       ELSE /\ remove_client(t)
            /\ manager' = record_destination_timeout(manager, t[1])
            /\ LET sr == Blamed(streams[t[1]], "timeout")
               IN  IF t[2] = "stream" THEN Fail(t[1], sr, 504, "ResponseTimeout") ELSE AttemptEnds(t, "timeout", sr)
    /\ UNCHANGED <<h2config, registryLock, permits, active, ejected, link>>

\* The retry's attempts start; an unhedged retry runs in the stream's own task.
StartRetry(s, sr) ==
    /\ tasks' = [tasks EXCEPT ![Own(s)].pc = IF h2config.hedging = "hedged" THEN "hedge_delay" ELSE "retry_wait",
                              ![<<s, "first">>].pc = IF h2config.hedging = "none" THEN "lookup" ELSE "fresh"]
    /\ streams' = [streams EXCEPT ![s] = sr]
    /\ UNCHANGED leases

\* The response future fails.  A stale connection may be retried; the retry is
\* asked for before the failure is recorded, and a retried failure is not.
ResponseError(t, error) ==
    /\ tasks[t].pc \in {"response", "grpc_response"} /\ error \in Errors(t)
    /\ IF t[2] = "mirror" THEN MirrorEnds(t) /\ UNCHANGED <<clients, registry, manager>>
       ELSE LET s == t[1]
                asks == tasks[t].pc = "response" /\ t[2] = "stream" /\ MayRetryStale(s, error)
                asked == IF asks THEN AfterRetryCheck(manager, "Temporary") ELSE manager
                sr == Blamed(streams[s], "error")
            IN  /\ remove_client(t)
                /\ IF asks /\ RetryAllowed(manager, "Temporary")
                   THEN manager' = asked /\ StartRetry(s, [streams[s] EXCEPT !.retried = TRUE])
                   ELSE /\ manager' = record_destination_failure(asked, s, "Temporary")
                        /\ IF t[2] = "stream" THEN Fail(s, sr, 502, "UpstreamResponse")
                           ELSE AttemptEnds(t, classify_http2_upstream_error(error, "UpstreamResponse"), sr)
    /\ UNCHANGED <<h2config, registryLock, permits, active, ejected, link>>

----------------------------------------------------------------------------
(* execute_with_hedge *)

\* A hedged attempt starts on a fresh connection.
FreshClient(t) ==
    /\ tasks[t].pc = "fresh" /\ registryLock = Free
    /\ registry' = Without(TargetOf(t))
    /\ tasks' = [tasks EXCEPT ![t].pc = "lookup"]
    /\ UNCHANGED <<h2config, streams, clients, registryLock, permits, leases, active, manager, ejected, link>>

Ended(s, role) == tasks[<<s, role>>].pc = "ended"
Won(s, role) == Ended(s, role) /\ tasks[<<s, role>>].result = "answer"
Other(role) == IF role = "first" THEN "second" ELSE "first"

\* The stream goes on with the answer of this attempt; the other one is aborted.
UseAnswer(s, role) ==
    LET sr == [streams[s] EXCEPT !.answer = tasks[<<s, role>>].answer]
        other == <<s, Other(role)>>
    IN  /\ tasks' = [tasks EXCEPT ![Own(s)].pc = AfterAnswer(sr),
                                  ![other].pc = IF @ \in {"off", "ended"} THEN @ ELSE "aborted"]
        /\ streams' = [streams EXCEPT ![s] = sr]
        /\ registryLock' = IF registryLock = other THEN Free ELSE registryLock
        /\ UNCHANGED leases

\* The retry failed with this error.
RetryFails(s, error) ==
    /\ Fail(s, streams[s], IF error = "timeout" THEN 504 ELSE 502,
            IF error = "timeout" THEN "ResponseTimeout" ELSE error)
    /\ UNCHANGED registryLock

TakeAttempt(s, role) ==
    IF Won(s, role) THEN UseAnswer(s, role) ELSE RetryFails(s, tasks[<<s, role>>].result)

\* An unhedged retry, or one that ended within the hedge delay.
TakeRetry(s) ==
    /\ pcOf(s) \in {"retry_wait", "hedge_delay"} /\ Ended(s, "first")
    /\ TakeAttempt(s, "first")
    /\ UNCHANGED <<h2config, clients, registry, permits, active, manager, ejected, link>>

LaunchHedge(s) ==
    /\ pcOf(s) = "hedge_delay" /\ ~Ended(s, "first")
    /\ tasks' = [tasks EXCEPT ![Own(s)].pc = "hedge_race", ![<<s, "second">>].pc = "fresh"]
    /\ UNCHANGED <<h2config, streams, clients, registry, registryLock, permits, leases, active, manager, ejected, link>>

\* MUTANT: the first attempt to end decides, whatever its result.
MutantFirstEnds(s, role) ==
    /\ pcOf(s) = "hedge_race" /\ Ended(s, role)
    /\ TakeAttempt(s, role)
    /\ UNCHANGED <<h2config, clients, registry, permits, active, manager, ejected, link>>

\* The first to succeed wins; after a failure the other one is awaited.
RaceHedge(s, role) ==
    /\ pcOf(s) = "hedge_race" /\ Ended(s, role)
    /\ IF Won(s, role) THEN UseAnswer(s, role)
       ELSE /\ Move(s, IF role = "first" THEN "hedge_second" ELSE "hedge_first",
                    [streams[s] EXCEPT !.first_error = tasks[<<s, role>>].result])
            /\ UNCHANGED registryLock
    /\ UNCHANGED <<h2config, clients, registry, permits, active, manager, ejected, link>>

AwaitOther(s, role) ==
    /\ pcOf(s) = (IF role = "first" THEN "hedge_first" ELSE "hedge_second") /\ Ended(s, role)
    /\ IF Won(s, role) THEN UseAnswer(s, role) ELSE RetryFails(s, streams[s].first_error)
    /\ UNCHANGED <<h2config, clients, registry, permits, active, manager, ejected, link>>

----------------------------------------------------------------------------
(* The answer goes downstream *)

\* mark_used and note_completed_stream on the stream's first client, passive success.
NoteCompleted(s) == clients' = [clients EXCEPT ![tasks[Own(s)].client].completed = TRUE]

\* A plain answer: the head, and the breaker is told before the body is relayed.
DeliverHead(s) ==
    /\ pcOf(s) = "head"
    /\ LET sr == streams[s]
           whole == [sr EXCEPT !.out = "complete", !.answer.whole = TRUE]
       IN  IF sr.reset
           THEN Move(s, "leaving", [sr EXCEPT !.out = "gone"]) /\ UNCHANGED <<manager, clients>>
           ELSE /\ manager' = RecordAnswer(s)
                /\ IF sr.answer.body THEN Move(s, "relay", [sr EXCEPT !.out = "head"]) /\ UNCHANGED clients
                   ELSE Move(s, "leaving", record_passive_health_result(whole, "Ok")) /\ NoteCompleted(s)
    /\ UNCHANGED <<h2config, registry, registryLock, permits, active, ejected, link>>

\* The body of a plain answer.  A body over the limit is reset downstream and
\* counts as a completed stream.
RelayBody(s, outcome) ==
    /\ pcOf(s) = "relay"
    /\ outcome \in bounded_dispatch_timeout \cup relay_recv_body_to_send_stream
    /\ LET sr == streams[s]
           ended == [sr EXCEPT !.out = IF outcome = "ok" THEN "complete" ELSE "reset",
                               !.answer.whole = outcome = "ok"]
       IN  CASE outcome \in {"ok", "limit"} ->
                    /\ Move(s, "leaving", record_passive_health_result(ended, "Ok"))
                    /\ NoteCompleted(s) /\ UNCHANGED manager
             [] outcome \in {"deadline", "idle"} ->
                    /\ Move(s, "leaving", ended)
                    /\ manager' = record_destination_timeout(manager, s) /\ UNCHANGED clients
             [] outcome = "error" ->
                    /\ Move(s, "leaving", ended)
                    /\ manager' = record_destination_failure(manager, s, "Temporary") /\ UNCHANGED clients
    /\ UNCHANGED <<h2config, registry, registryLock, permits, active, ejected, link>>

\* A gRPC answer is read whole before any of it is sent on.  Its failure may be
\* retried once on the stream's first connection, when both sides sent at most
\* one message.  An answer cut short leaves the stream without a response.
BufferAnswer(s, outcome) ==
    /\ pcOf(s) = "buffer"
    /\ outcome \in bounded_dispatch_timeout \cup read_recv_body_to_buffer
    /\ outcome /= "ok" => streams[s].answer.body
    /\ LET sr == [streams[s] EXCEPT !.answer.whole = outcome = "ok"]
           class == classify_grpc_response_failure_with_policy(sr.answer.grpc)
           asks == /\ class /= "none" /\ ~sr.grpc_retried
                   /\ sr.request.one_message /\ sr.answer.one_message
           asked == IF asks THEN AfterRetryCheck(manager, class) ELSE manager
       IN  CASE outcome = "ok" /\ asks /\ RetryAllowed(manager, class) ->
                    /\ manager' = record_destination_failure(asked, s, class)
                    /\ Move(s, "grpc_send", [sr EXCEPT !.grpc_retried = TRUE])
             [] outcome = "ok" /\ ~(asks /\ RetryAllowed(manager, class)) ->
                    manager' = asked /\ Move(s, "grpc_deliver", sr)
             [] outcome = "limit" -> Respond(s, sr, 502, Plain) /\ UNCHANGED manager
             [] outcome = "deadline" -> /\ Respond(s, sr, 504, Plain)
                                        /\ manager' = record_destination_timeout(manager, s)
             [] outcome = "idle" -> /\ Move(s, "leaving", [sr EXCEPT !.out = "dropped"])
                                    /\ manager' = record_destination_timeout(manager, s)
             [] outcome = "error" -> /\ Move(s, "leaving", [sr EXCEPT !.out = "dropped"])
                                     /\ manager' = record_destination_failure(manager, s, "Temporary")
    /\ UNCHANGED <<h2config, clients, registry, registryLock, permits, active, ejected, link>>

\* The retry of a gRPC request, with its buffered body.
ResendGrpc(s, sent) ==
    /\ pcOf(s) = "grpc_send" /\ sent \in send_buffered_stream_payload
    /\ IF Live(Own(s))
       THEN /\ LET sr == [streams[s] EXCEPT !.sends = @ + 1]
               IN  IF sent THEN Move(s, "grpc_response", sr)
                   ELSE Move(s, "leaving", [sr EXCEPT !.out = "dropped"])
            /\ UNCHANGED <<clients, registry, manager>>
       ELSE /\ ~sent
            /\ remove_client(Own(s))
            /\ manager' = record_destination_failure(manager, s, "Temporary")
            /\ Fail(s, Blamed(streams[s], "error"), 502, "UpstreamReady")
    /\ UNCHANGED <<h2config, registryLock, permits, active, ejected, link>>

\* The buffered gRPC answer is sent; the breaker hears of it only when it is.
DeliverGrpc(s, sent) ==
    /\ pcOf(s) = "grpc_deliver" /\ sent \in send_buffered_stream_payload
    /\ LET sr == streams[s] IN
       IF sr.reset \/ ~sent
       THEN /\ Move(s, "leaving", [sr EXCEPT !.out = IF sr.reset THEN "gone" ELSE "dropped"])
            /\ UNCHANGED <<manager, clients>>
       ELSE /\ manager' = RecordAnswer(s)
            /\ Move(s, "leaving", record_passive_health_result([sr EXCEPT !.out = "complete"], "Ok"))
            /\ NoteCompleted(s)
    /\ UNCHANGED <<h2config, registry, registryLock, permits, active, ejected, link>>

----------------------------------------------------------------------------
(* The end of a stream, of the connection, and the surroundings *)

\* handle_http2_stream drops the permit, and then counts the stream down.
ReturnPermit(s) ==
    /\ pcOf(s) = "leaving"
    /\ permits' = permits + 1
    /\ Move(s, "left", streams[s])
    /\ UNCHANGED <<h2config, clients, registry, registryLock, active, manager, ejected, link>>

CountDown(s) ==
    /\ pcOf(s) = "left"
    /\ active' = active - 1
    /\ Move(s, "done", streams[s])
    /\ UNCHANGED <<h2config, clients, registry, registryLock, permits, manager, ejected, link>>

Running(s) == pcOf(s) \notin {"off", "spawned", "left", "done", "aborted"}

\* accept fails.  With traffic seen and no stream active the loop just ends;
\* otherwise the connection returns and its JoinSet aborts every stream task,
\* with the unhedged retry that runs inside it.  Spawned attempts go on.
LinkFails ==
    LET seen == \E s \in StreamIds : pcOf(s) \notin {"off", "spawned"} /\ streams[s].out /= "refused"
        aborted == {s \in StreamIds : pcOf(s) \notin {"off", "done"}}
        gone(t) == /\ t[1] \in aborted
                   /\ \/ t[2] = "stream"
                      \/ t[2] = "first" /\ h2config.hedging = "none" /\ tasks[t].pc \notin {"off", "ended"}
    IN  /\ link = "open" /\ link' = "failed"
        /\ IF seen /\ active = 0
           THEN UNCHANGED <<streams, tasks, permits, leases, registryLock>>
           ELSE /\ tasks' = [t \in Tasks |-> IF gone(t) THEN [tasks[t] EXCEPT !.pc = "aborted"] ELSE tasks[t]]
                /\ streams' = [s \in StreamIds |-> IF s \in aborted THEN [streams[s] EXCEPT !.reset = TRUE] ELSE streams[s]]
                /\ permits' = permits + Cardinality({s \in StreamIds : Running(s)})
                /\ leases' = leases \ aborted
                /\ registryLock' = IF registryLock \in Tasks /\ gone(registryLock) THEN Free ELSE registryLock
        /\ UNCHANGED <<h2config, clients, registry, active, manager, ejected>>

\* The peer resets a stream it opened.
PeerResets(s) ==
    /\ pcOf(s) \notin {"off", "left", "done", "aborted"} /\ ~streams[s].reset
    /\ streams' = [streams EXCEPT ![s].reset = TRUE]
    /\ UNCHANGED <<h2config, tasks, clients, registry, registryLock, permits, leases, active, manager, ejected, link>>

ClientDies(c, how) ==
    /\ clients[c].state = "live"
    /\ clients' = [clients EXCEPT ![c].state = how]
    /\ UNCHANGED <<h2config, streams, tasks, registry, registryLock, permits, leases, active, manager, ejected, link>>

\* reuse_expired: older than the idle timeout.  A used client is no younger.
ClientExpires(c) ==
    /\ ~clients[c].expired
    /\ clients' = [clients EXCEPT ![c].expired = TRUE]
    /\ UNCHANGED <<h2config, streams, tasks, registry, registryLock, permits, leases, active, manager, ejected, link>>

\* Time passes for the failure policy; the endpoint is ejected or comes back.
PolicyTick ==
    /\ manager' = [manager EXCEPT !.breaker = AgeBreaker(@), !.budget = AgeBudget(@)]
    /\ UNCHANGED <<h2config, streams, tasks, clients, registry, registryLock, permits, leases, active, ejected, link>>

EjectEndpoint ==
    /\ ejected' = ~ejected
    /\ UNCHANGED <<h2config, streams, tasks, clients, registry, registryLock, permits, leases, active, manager, link>>

----------------------------------------------------------------------------
(* Properties *)

\* The state of the streams, their tasks and the upstream connections.
Http2TypeOK ==
    /\ permits \in 0..MaxConcurrentStreams
    /\ active \in 0..(2 * Cardinality(StreamIds))
    /\ \A s \in StreamIds : streams[s].request \in StreamRequest \/ streams[s] = NewStream
    /\ \A t \in Tasks : tasks[t].client \in 0..Len(clients)
    /\ \A k \in DOMAIN registry : registry[k] \in 1..Len(clients)
    /\ registryLock = Free \/ registryLock \in Tasks
    /\ manager.breaker \in BreakerRecord /\ manager.budget \in BudgetRecord

\* Every way a stream can end, aborts of the connection included, gives its
\* permit and its lease of the destination back, and neither is handed out
\* over its limit (handle_http2_stream, enforce_destination_local_limits).
StreamSlotsExact ==
    /\ permits + Cardinality({s \in StreamIds : Running(s)}) = MaxConcurrentStreams
    /\ Cardinality(leases) <= DestinationSlots
    /\ \A s \in leases : Running(s) /\ pcOf(s) /= "leaving"

\* A connection a stream has given up (dead, or silent until the timeout) is never
\* offered to another one, although remove_client removes by target and other
\* tasks replace clients meanwhile (UpstreamClientRegistry).
GivenUpNotOffered == \A k \in DOMAIN registry : ~clients[registry[k]].given_up

\* Only an idempotent request without a body is written again after a
\* connection error, on at most one connection per attempt; any other request
\* is written twice only as a unary gRPC call the upstream has answered.
ResentOnlyWhenSafe ==
    \A s \in StreamIds :
        LET sr == streams[s]
            attempts == IF ~sr.retried THEN 0 ELSE IF h2config.hedging = "hedged" THEN 2 ELSE 1
        IN  /\ sr.sends <= 1 + attempts + (IF sr.grpc_retried THEN 1 ELSE 0)
            /\ attempts > 0 => SafeToRetry(sr)
            /\ sr.grpc_retried => sr.request.grpc /\ sr.request.one_message

\* What the peer receives as a complete answer is an answer the upstream
\* completed: one cut by a limit, a timeout or an error is reset or replaced by a
\* local answer (relay_recv_body_to_send_stream, read_recv_body_to_buffer).
CompleteIsWhole == \A s \in StreamIds : streams[s].out = "complete" => streams[s].answer.whole

\* A stream that failed because of its upstream has told the breaker so, also
\* when the failing attempt was a retry or a hedge, and also when the peer is
\* gone.  Timeouts are told only when the timeout hierarchy is enforced.
FailuresTold ==
    \A s \in StreamIds :
        /\ pcOf(s) \in {"leaving", "left", "done"} /\ streams[s].out \in {"local", "gone"}
        /\ IF streams[s].blame = "timeout" THEN h2config.enforce_timeout_hierarchy
           ELSE streams[s].blame /= "none" /\ h2config.enforce_circuit_breaker
        => "failure" \in manager.told[s]

\* A retry that is hedged fails only when both attempts failed
\* (execute_with_hedge): no answer of the upstream is thrown away.
NoAnswerDiscarded ==
    \A s \in StreamIds :
        /\ pcOf(s) \in {"leaving", "left", "done"} /\ streams[s].answer = NoStreamAnswer
        => \A role \in {"first", "second"} : ~Won(s, role)

Quiet == \A s \in StreamIds : pcOf(s) \in {"off", "done", "aborted"}

\* Every stream the accept loop takes ends, whatever the peer, the upstream and
\* the other streams do: every wait of a stream's task is bounded by a timeout.
StreamsEnd == ~Quiet ~> Quiet
=============================================================================
