----------------------------- MODULE CacheFanout -----------------------------
(* The cache admin service of each node and the distribution of purges to    *)
(* its peers (crates/admin-api/src/cache.rs, cache_transport.rs): local      *)
(* application first, then one peer after another, each with bounded         *)
(* retries over a network that loses and delays requests and answers.  The   *)
(* peers' admin listener admits a signed request once per nonce and applies  *)
(* the event to the store of its scope.                                      *)
EXTENDS HttpCacheStore

CONSTANTS
    CacheNodes,
    MaxAttempts,        \* retry_policy.max_attempts before normalisation
    MaxFailureDetails,
    MaxHistory

VARIABLES
    nodeStores,     \* per node: the store of the scope
    call,           \* per node: the purge its service is working on
    wire,           \* signed requests and answers under way
    nonces,         \* per node: nonces its admin listener has admitted
    nextEvent,      \* NEXT_INVALIDATION_EVENT_SEQUENCE
    second,         \* the clock requests are stamped with
    history,        \* per node: purge history of its service
    appliedLog      \* per node: every event its store applied, in order

fanoutVars == <<nodeStores, call, wire, nonces, nextEvent, second, history, appliedLog>>

NoEvent == [id |-> 0, issuer |-> "none", fault |-> "none", target |-> [kind |-> "none"]]

NoCall ==
    [phase |-> "none", event |-> NoEvent, peers |-> <<>>, attempts |-> 0, purged |-> 0,
     success |-> {}, duplicate |-> {}, failed |-> {}, details |-> 0]

(* HttpCachePeerConfig::validate: every origin must be a loopback address,   *)
(* and an https one needs a trust anchor.                                    *)
ValidPeer(peer) ==
    /\ peer.node # "" /\ peer.actor # "" /\ peer.secret_env # "" /\ peer.path = "/cache/invalidate"
    /\ peer.loopback
    /\ peer.scheme = "https" => peer.ca_env # "none"
    /\ peer.ca_env # "" /\ peer.server_name # ""
    /\ peer.connect_timeout > 0 /\ peer.response_timeout > 0

Attempts == Max({MaxAttempts, 1})

(* publish_to_https_peer connects only with trust anchors it can load; a     *)
(* valid peer's server name parses.                                          *)
publish_to_https_peer(peer) == peer.scheme = "https" => peer.ca_set

(* The pin of the peer's certificate is compared after the request was       *)
(* written: a bad pin fails the attempt and does not keep the request back.  *)
verify_tls_peer_pin(peer) == peer.scheme = "https" => peer.pin \in {"none", "matches"}

parse_peer_response(result) == result \in {"applied", "duplicate"}

Entry(size) ==
    [metadata |-> [status |-> 200, stored_at |-> 0, fresh_until |-> 9, swr_until |-> None,
                   sie_until |-> None, etag |-> NoTag, last_modified |-> NoTag],
     size |-> size, body |-> "b"]

(* with_http_peer_transport: nothing is built with an invalid peer.          *)
FanoutInit(keys, service) ==
    /\ \A n \in CacheNodes : \A p \in Range(service[n].peers) : ValidPeer(p)
    /\ nodeStores = [n \in CacheNodes |-> FoldSet(LAMBDA k, s : insert(s, 0, k, Entry(1)), EmptyStore, keys)]
    /\ call = [n \in CacheNodes |-> NoCall]
    /\ wire = {}
    /\ nonces = [n \in CacheNodes |-> {}]
    /\ nextEvent = 1 /\ second = 0
    /\ history = [n \in CacheNodes |-> <<>>]
    /\ appliedLog = [n \in CacheNodes |-> <<>>]

(* push_history                                                              *)
WithHistory(n, entry) ==
    [history EXCEPT ![n] = Append(IF Len(@) = MaxHistory THEN Tail(@) ELSE @, entry)]

HistoryEntry(result, purged, failed) == [result |-> result, purged |-> purged, degraded |-> failed # {}]

(* The scope is the listener's name and passes validate_scope.               *)
validate_actor_reason(request) == request.fault \notin {"actor", "reason"}

validate_path_prefix(request) == request.target.kind = "prefix" => request.fault # "path_prefix"

Applied(n, event) ==
    LET outcome == apply_invalidation_event(nodeStores[n], event)
    IN /\ nodeStores' = [nodeStores EXCEPT ![n] = outcome.store]
       /\ appliedLog' = IF outcome.result = "applied"
                        THEN [appliedLog EXCEPT ![n] = Append(@, event.id)] ELSE appliedLog

(* purge, up to the first delivery.                                          *)
StartPurge(n, service, request) ==
    LET event == [id |-> nextEvent, issuer |-> n, fault |-> "none", target |-> request.target]
        mine == Targeted(nodeStores[n], request.target)
    IN /\ call[n].phase = "none"
       /\ validate_actor_reason(request)
       /\ service.purge_enabled => validate_path_prefix(request)
       /\ IF ~service.purge_enabled
          THEN /\ history' = WithHistory(n, HistoryEntry("rejected", 0, {}))
               /\ UNCHANGED <<nodeStores, call, nextEvent, appliedLog>>
          ELSE IF service.transport = "local_only"
          THEN /\ nodeStores' = [nodeStores EXCEPT ![n] = PurgeStore(@, request.target)]
               /\ history' = WithHistory(n, HistoryEntry(IF mine = {} THEN "no_match" ELSE "purged", Cardinality(mine), {}))
               /\ UNCHANGED <<call, nextEvent, appliedLog>>
          ELSE /\ Applied(n, event)
               /\ nextEvent' = nextEvent + 1
               /\ call' = [call EXCEPT ![n] = [NoCall EXCEPT !.phase = "next", !.event = event,
                                                !.peers = service.peers, !.purged = Cardinality(mine)]]
               /\ UNCHANGED history
       /\ UNCHANGED <<wire, nonces, second>>

(* Bus: publish holds the subscriber list and applies to each in turn; the   *)
(* subscribers of another scope are skipped.                                 *)
BusDeliver(n, service) ==
    LET peer == Head(call[n].peers).node
        outcome == apply_invalidation_event(nodeStores[peer], call[n].event)
    IN /\ call[n].phase = "next" /\ call[n].peers # <<>> /\ service.transport = "in_memory_bus"
       /\ IF Head(call[n].peers).has_scope
          THEN /\ Applied(peer, call[n].event)
               /\ call' = [call EXCEPT ![n].peers = Tail(@), ![n].purged = @ + outcome.purged,
                                       ![n].success = @ \cup {peer},
                                       ![n].duplicate = IF outcome.result = "duplicate" THEN @ \cup {peer} ELSE @]
          ELSE call' = [call EXCEPT ![n].peers = Tail(@)] /\ UNCHANGED <<nodeStores, appliedLog>>
       /\ UNCHANGED <<wire, nonces, nextEvent, second, history>>

(* publish_to_peer: the request is stamped with the second it is sent in and *)
(* its nonce names the event and that second.  A peer whose secret is not in *)
(* the environment is never reached.                                         *)
Nonce(n) == <<call[n].event.id, second>>

Attempt(n, service) ==
    LET peer == Head(call[n].peers)
    IN /\ call[n].phase = "next" /\ call[n].peers # <<>> /\ service.transport = "http_peer"
       /\ call' = [call EXCEPT ![n].phase = "waiting", ![n].attempts = @ + 1]
       /\ wire' = IF peer.secret_set /\ publish_to_https_peer(peer)
                  THEN wire \cup {[kind |-> "request", from |-> n, to |-> peer.node, try |-> call[n].attempts + 1,
                                   event |-> call[n].event, nonce |-> Nonce(n), has_scope |-> peer.has_scope]}
                  ELSE wire
       /\ UNCHANGED <<nodeStores, nonces, nextEvent, second, history, appliedLog>>

(* The peer's admin listener (authorize_admin_request, then                  *)
(* handle_admin_cache_invalidate): a nonce is good once.                     *)
PeerHandles(m) ==
    LET peer == m.to
        replayed == m.nonce \in nonces[peer]
        outcome == apply_invalidation_event(nodeStores[peer], m.event)
        reply(result, purged) == [kind |-> "answer", from |-> peer, to |-> m.from, try |-> m.try,
                                  event |-> m.event, result |-> result, purged |-> purged]
    IN /\ m \in wire /\ m.kind = "request"
       /\ nonces' = [nonces EXCEPT ![peer] = @ \cup {m.nonce}]
       /\ IF replayed \/ ~m.has_scope
          THEN /\ wire' = (wire \ {m}) \cup {reply("refused", 0)}
               /\ UNCHANGED <<nodeStores, appliedLog>>
          ELSE /\ Applied(peer, m.event)
               /\ wire' = (wire \ {m}) \cup {reply(outcome.result, outcome.purged)}
       /\ UNCHANGED <<call, nextEvent, second, history>>

(* The network drops a request or an answer.                                 *)
Lose(m) ==
    /\ m \in wire
    /\ wire' = wire \ {m}
    /\ UNCHANGED <<nodeStores, call, nonces, nextEvent, second, history, appliedLog>>

(* An attempt fails: try again or count the peer as failed, keeping bounded  *)
(* detail.                                                                   *)
AttemptFailed(n) ==
    LET peer == Head(call[n].peers).node
    IN call' = IF call[n].attempts >= Attempts
               THEN [call EXCEPT ![n].phase = "next", ![n].peers = Tail(@), ![n].attempts = 0,
                                 ![n].failed = @ \cup {peer}, ![n].details = Least(@ + 1, MaxFailureDetails)]
               ELSE [call EXCEPT ![n].phase = "next"]

(* The answer of the current attempt; the connection of an earlier attempt   *)
(* is gone.                                                                  *)
ReceiveAnswer(n, m) ==
    LET peer == Head(call[n].peers).node
    IN /\ m \in wire /\ m.kind = "answer" /\ m.to = n
       /\ call[n].phase = "waiting" /\ verify_tls_peer_pin(Head(call[n].peers)) /\ m.from = peer /\ m.event = call[n].event /\ m.try = call[n].attempts
       /\ wire' = wire \ {m}
       /\ IF parse_peer_response(m.result)
          THEN call' = [call EXCEPT ![n].phase = "next", ![n].peers = Tail(@), ![n].attempts = 0,
                                    ![n].success = @ \cup {peer}, ![n].purged = @ + m.purged,
                                    ![n].duplicate = IF m.result = "duplicate" THEN @ \cup {peer} ELSE @]
          ELSE AttemptFailed(n)
       /\ UNCHANGED <<nodeStores, nonces, nextEvent, second, history, appliedLog>>

(* Connect, write or read timed out, the environment lacks the secret or the *)
(* trust anchors, or the pin does not match.                                 *)
TimeOutAttempt(n) ==
    /\ call[n].phase = "waiting"
    /\ AttemptFailed(n)
    /\ UNCHANGED <<nodeStores, wire, nonces, nextEvent, second, history, appliedLog>>

Outcome(n) == HistoryEntry(IF call[n].purged = 0 THEN "no_match" ELSE "purged", call[n].purged, call[n].failed)

(* The end of purge: counters, history and the response.                     *)
FinishPurge(n) ==
    /\ call[n].phase = "next" /\ call[n].peers = <<>>
    /\ history' = WithHistory(n, Outcome(n))
    /\ call' = [call EXCEPT ![n].phase = "returned"]
    /\ UNCHANGED <<nodeStores, wire, nonces, nextEvent, second, appliedLog>>

(* The operator reads the response and may ask again.                        *)
ReadResponse(n) ==
    /\ call[n].phase = "returned"
    /\ call' = [call EXCEPT ![n] = NoCall]
    /\ UNCHANGED <<nodeStores, wire, nonces, nextEvent, second, history, appliedLog>>

SecondPasses ==
    /\ second' = second + 1
    /\ UNCHANGED <<nodeStores, call, wire, nonces, nextEvent, history, appliedLog>>

PurgeProgress(n, service) ==
    \/ BusDeliver(n, service) \/ Attempt(n, service) \/ TimeOutAttempt(n) \/ FinishPurge(n)

----------------------------------------------------------------------------
(* Histories stay bounded and every peer of a finished purge is counted once *)
(* (push_history, HttpCachePeerTransport::publish).                          *)
FanoutTypeOK ==
    \A n \in CacheNodes :
        /\ Len(history[n]) <= MaxHistory
        /\ call[n].success \cap call[n].failed = {}
        /\ call[n].duplicate \subseteq call[n].success
        /\ call[n].attempts <= Attempts
        /\ nodeStores[n].total_bytes = Cardinality(DOMAIN nodeStores[n].entries)

(* The response never claims a delivery that did not happen: the issuer and  *)
(* every peer counted as a success have applied the event, and the purge is  *)
(* recorded as degraded exactly when some peer was not a success             *)
(* (docs/runbooks/cache-operations.md).                                      *)
DeliveriesHappened(services) ==
    \A n \in CacheNodes : call[n].phase = "returned" =>
        LET reached == {p.node : p \in {q \in Range(services[n].peers) :
                            services[n].transport = "http_peer" \/ q.has_scope}}
        IN /\ \A p \in call[n].success \cup {n} : call[n].event.id \in Range(appliedLog[p])
           /\ call[n].success \cup call[n].failed = reached
           /\ Last(history[n]).degraded = (call[n].success # reached)

(* A store applies an event again only after MaxApplied other events: lost   *)
(* answers, retries and late requests never purge twice before that          *)
(* (apply_invalidation_event, docs/runbooks/cache-invalidation.md).          *)
ReplaySafe ==
    \A n \in CacheNodes : \A i, j \in DOMAIN appliedLog[n] :
        i < j /\ appliedLog[n][i] = appliedLog[n][j] => j - i > MaxApplied

(* Every purge returns: attempts per peer are bounded, so no unreachable     *)
(* peer holds the service (and its lock) for ever.                           *)
PurgesReturn == \A n \in CacheNodes : call[n].phase # "none" ~> call[n].phase \in {"none", "returned"}

(* A peer counted as failed did not accept the event                         *)
(* (docs/runbooks/cache-invalidation.md).                                    *)
FailedDidNotAccept ==
    \A n \in CacheNodes : call[n].phase = "returned" =>
        \A p \in call[n].failed : call[n].event.id \notin Range(appliedLog[p])
=============================================================================
