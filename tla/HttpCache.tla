----------------------------- MODULE HttpCache -----------------------------
(* Cached serving of one listener: connections whose requests look up the    *)
(* shared store, go to the origin, and store, renew or fall back to what     *)
(* they found (http1_proxy), while operators purge the scope and reloads     *)
(* replace the store under connections that keep the one they started with.  *)
EXTENDS HttpCacheStore

CONSTANTS
    CacheConns,     \* client connections
    Tags            \* the validator of each version of a representation

VARIABLES
    stores,     \* the store of each configuration applied so far
    accepting,  \* the configuration new connections are served with
    scope,      \* the configuration whose store the admin API reaches
    conns,      \* per connection: its configuration and its request in flight
    origin,     \* per path: when each superseded version stopped being current
    purge,      \* the purge command, and what was in flight when it ran
    served,     \* the answer the last step gave from a stored entry
    clock

cacheVars == <<stores, accepting, scope, conns, origin, purge, served, clock>>

NoRequest == [method |-> "none"]

Idle(gen) ==
    [phase |-> "idle", gen |-> gen, request |-> NoRequest, now |-> 0, key |-> {},
     fallback |-> {}, reval |-> {}, answer |-> {}]

CacheInit(paths) ==
    /\ stores = <<EmptyStore>> /\ accepting = 1 /\ scope = 1
    /\ conns = [c \in CacheConns |-> [Idle(0) EXCEPT !.phase = "closed"]]
    /\ origin = [p \in paths |-> <<>>]
    /\ purge = [phase |-> "none", gen |-> 0, target |-> [kind |-> "none"], carried |-> {}]
    /\ served = <<>>
    /\ clock = 0

Version(path) == Len(origin[path]) + 1

(* now() of the store, and the origin changing what it serves.               *)
Tick ==
    /\ clock' = clock + 1
    /\ served' = <<>>
    /\ UNCHANGED <<stores, accepting, scope, conns, origin, purge>>

OriginChanges(path) ==
    /\ Version(path) < Len(Tags)
    /\ origin' = [origin EXCEPT ![path] = Append(@, clock)]
    /\ served' = <<>>
    /\ UNCHANGED <<stores, accepting, scope, conns, purge, clock>>

Accept(c) ==
    /\ conns[c].phase = "closed"
    /\ conns' = [conns EXCEPT ![c] = Idle(accepting)]
    /\ served' = <<>>
    /\ UNCHANGED <<stores, accepting, scope, origin, purge, clock>>

Serve(request, entry, kind, at) ==
    served' = <<[request |-> request, entry |-> entry, kind |-> kind, at |-> at]>>

(* resolve_cache_request on a key that could be built: answered from the     *)
(* entry, or fetched with what the entry is good for meanwhile.              *)
Resolve(policy, hit, entry) ==
    LET renewable == should_revalidate_entry(policy, entry)
    IN CASE hit = "fresh" \/ (hit = "stale_while_revalidate" /\ ~renewable) -> "hit"
         [] hit # "miss" /\ renewable -> "revalidate"
         [] hit = "stale_if_error" -> "stale_if_error"
         [] OTHER -> "miss"

CacheBypassed(policy, request) ==
    \/ ~request_method_is_cache_lookup_eligible(policy, request.method)
    \/ request.has_body
    \/ KeyRefused(policy, request)

Arrive(c, policy, request) ==
    LET gen == conns[c].gen
        key == storage_key(policy, request)
        found == lookup(stores[gen], clock, key)
        entry == stores[gen].entries[key].entry
        plan == IF found.hit = "miss" THEN "miss" ELSE Resolve(policy, found.hit, entry)
        asked == [Idle(gen) EXCEPT !.phase = "asked", !.request = request, !.now = clock]
    IN /\ conns[c].phase = "idle"
       /\ IF CacheBypassed(policy, request)
          THEN /\ conns' = [conns EXCEPT ![c] = asked]
               /\ UNCHANGED stores /\ served' = <<>>
          ELSE /\ stores' = [stores EXCEPT ![gen] = found.store]
               /\ IF plan = "hit"
                  THEN Serve(request, entry, found.hit, clock) /\ UNCHANGED conns
                  ELSE /\ conns' = [conns EXCEPT ![c] = [asked EXCEPT
                              !.key = {key},
                              !.fallback = IF plan = "miss" THEN {} ELSE {entry},
                              !.reval = IF plan = "revalidate" THEN {entry} ELSE {}]]
                       /\ served' = <<>>
       /\ UNCHANGED <<accepting, scope, origin, purge, clock>>

(* append_conditional_revalidation_headers adds the stored validators to the *)
(* ones the client sent.                                                     *)
AskedTags(flight) ==
    (flight.request.tags \cup UNION {{e.metadata.etag, e.metadata.last_modified} : e \in flight.reval}) \ {NoTag}

Statuses(flight) ==
    {200, 404, 500} \cup (IF Tags[Version(flight.request.path)] \in AskedTags(flight) THEN {304} ELSE {})

(* The origin answers with the version it has now, under some headers.       *)
OriginAnswers(c, headers, status) ==
    LET flight == conns[c]
        path == flight.request.path
        body == [path |-> path, version |-> Version(path), wanted |-> flight.request,
                 vary |-> headers.vary, after |-> purge.phase = "done", borrowed |-> FALSE]
    IN /\ flight.phase = "asked"
       /\ status \in Statuses(flight)
       /\ conns' = [conns EXCEPT ![c].phase = "answered",
              ![c].answer = {headers @@ [status |-> status, body |-> body,
                                         etag |-> IF headers.tagged THEN Tags[Version(path)] ELSE NoTag,
                                         last_modified |-> NoTag]}]
       /\ served' = <<>>
       /\ UNCHANGED <<stores, accepting, scope, origin, purge, clock>>

Finish(c) == conns' = [conns EXCEPT ![c] = Idle(conns[c].gen)]

Store(gen, now, key, entry) == stores' = [stores EXCEPT ![gen] = insert(@, now, key, entry)]

(* Whether a 304 confirmed a validator of the client's and not the entry's   *)
(* own is kept beside the entry.                                             *)
Renewed(policy, entry, response, now) ==
    [refresh_revalidated_entry(policy, entry, response, now) EXCEPT
       !.body.borrowed = @ \/ Tags[response.body.version] # entry.metadata.etag]

(* The answer: a 304 renews and serves the entry, an error status gives way  *)
(* to the fallback, anything else is relayed and stored if it may be.        *)
Deliver(c, policy) ==
    LET flight == conns[c]
        response == CHOOSE r \in flight.answer : TRUE
        fill == build_cacheable_response_entry(policy, flight.request, response, flight.now)
    IN /\ flight.phase = "answered"
       /\ Finish(c)
       /\ \/ /\ response.status = 304 /\ flight.reval # {}
             /\ \E old \in flight.reval, key \in flight.key :
                  LET entry == Renewed(policy, old, response, flight.now)
                  IN Store(flight.gen, flight.now, key, entry) /\ Serve(flight.request, entry, "renewed", flight.now)
          \/ /\ response.status = 500 /\ flight.fallback # {}
             /\ \E entry \in flight.fallback : Serve(flight.request, entry, "fallback", flight.now)
             /\ UNCHANGED stores
          \/ /\ ~(response.status = 304 /\ flight.reval # {})
             /\ ~(response.status = 500 /\ flight.fallback # {})
             /\ served' = <<>>
             /\ IF flight.key = {} \/ fill = {} THEN UNCHANGED stores
                ELSE \E key \in flight.key, entry \in fill : Store(flight.gen, flight.now, key, entry)
       /\ UNCHANGED <<accepting, scope, origin, purge, clock>>

(* The exchange fails.  Errors that allow it fall back to the entry; after   *)
(* the head of an answer went out they are relabelled, and the connection    *)
(* ends, as it does without a fallback.                                      *)
FailUpstream(c, allowed) ==
    LET flight == conns[c]
    IN /\ flight.phase \in {"asked", "answered"}
       /\ IF allowed /\ flight.phase = "asked" /\ flight.fallback # {}
          THEN /\ \E entry \in flight.fallback : Serve(flight.request, entry, "fallback", flight.now)
               /\ Finish(c)
          ELSE /\ conns' = [conns EXCEPT ![c] = [Idle(0) EXCEPT !.phase = "closed"]]
               /\ served' = <<>>
       /\ UNCHANGED <<stores, accepting, scope, origin, purge, clock>>

(* handle_admin_cache_purge: the scope is looked up first and purged on a    *)
(* blocking thread.                                                          *)
AskPurge(target) ==
    /\ purge.phase = "none"
    /\ purge' = [purge EXCEPT !.phase = "asked", !.gen = scope, !.target = target]
    /\ served' = <<>>
    /\ UNCHANGED <<stores, accepting, scope, conns, origin, clock>>

InFlightBodies ==
    UNION {{e.body : e \in conns[c].reval} \cup {a.body : a \in conns[c].answer} : c \in CacheConns}

RunPurge ==
    /\ purge.phase = "asked"
    /\ stores' = [stores EXCEPT ![purge.gen] = PurgeStore(@, purge.target)]
    /\ purge' = [purge EXCEPT !.phase = "done", !.carried = InFlightBodies]
    /\ served' = <<>>
    /\ UNCHANGED <<accepting, scope, conns, origin, clock>>

PurgeExpired(gen) ==
    /\ gen \in DOMAIN stores
    /\ stores' = [stores EXCEPT ![gen] = purge_expired(@, clock)]
    /\ served' = <<>>
    /\ UNCHANGED <<accepting, scope, conns, origin, purge, clock>>

(* A reload builds a store per listener, hands it to new connections, and    *)
(* replaces the scopes once every listener is updated.                       *)
ReloadListener ==
    /\ accepting = scope
    /\ stores' = Append(stores, EmptyStore)
    /\ accepting' = Len(stores) + 1
    /\ served' = <<>>
    /\ UNCHANGED <<scope, conns, origin, purge, clock>>

ReplaceScopes ==
    /\ accepting # scope
    /\ scope' = accepting
    /\ served' = <<>>
    /\ UNCHANGED <<stores, accepting, conns, origin, purge, clock>>

----------------------------------------------------------------------------
(* Every store holds valid entries under the keys they were looked up with,  *)
(* and every connection is served by a store that exists                     *)
(* (http_cache.rs, compile_runtime.rs).                                      *)
CacheTypeOK ==
    /\ accepting \in DOMAIN stores /\ scope \in DOMAIN stores
    /\ \A g \in DOMAIN stores : \A k \in DOMAIN stores[g].entries :
         LET record == stores[g].entries[k]
         IN /\ record.entry.metadata \in HttpCacheMetadata(Nat, {NoTag} \cup Range(Tags))
            /\ ValidMetadata(record.entry.metadata)
            /\ record.sequence < stores[g].next_sequence /\ record.tick \in 0..clock
    /\ \A c \in CacheConns : conns[c].phase # "closed" => conns[c].gen \in DOMAIN stores
    /\ Len(served) <= 1

(* A store never exceeds its configured entries, bytes or object size, its   *)
(* byte count is the sum of what it holds, and every entry that came in is   *)
(* still there, evicted, expired or removed, whatever order fills, renewals, *)
(* lookups and purges come in (insert, evict_until_within_bounds, lookup).   *)
StoreAccounted ==
    \A g \in DOMAIN stores :
        LET s == stores[g]
        IN /\ WithinLimits(s)
           /\ store_metrics(s).max_object_bytes <= StoreLimits.max_object_bytes
           /\ s.total_bytes = FoldFunction(+, 0, [k \in DOMAIN s.entries |-> s.entries[k].size])
           /\ s.inserted = Cardinality(DOMAIN s.entries) + s.evicted + s.expired + s.removed

(* What a stored answer is given to: a request that agrees with the one it   *)
(* was fetched for on the path, the credentials, the configured key parts    *)
(* and the configured Vary headers; no cookie is involved on either side     *)
(* (build_http_cache_key_material, resolve_cache_request).                   *)
SameAudience(policy, a, b) ==
    /\ a.path = b.path /\ a.authorization = b.authorization /\ ~a.cookie /\ ~b.cookie
    /\ policy.include_host => a.host = b.host
    /\ policy.query = "include_all" => a.query = b.query
    /\ \A n \in Range(policy.vary_headers) \cup Range(policy.key_headers) :
         canonical_header_values(a, n) = canonical_header_values(b, n)

RightAudience(policy) ==
    \A i \in DOMAIN served : SameAudience(policy, served[i].request, served[i].entry.body.wanted)

(* How long after it stopped being current a version may still be served: a  *)
(* fresh or renewed one within the longest freshness of the policy, a stale  *)
(* one within the stale windows on top (docs/cache.md).                      *)
LongestLife(policy, kind) ==
    Max({policy.max_ttl, IF policy.honor_cache_control THEN 0 ELSE policy.default_ttl})
    + (IF kind = "fresh" THEN 0 ELSE IF kind = "stale_while_revalidate" THEN policy.swr ELSE Max({policy.swr, policy.sie}))

StillCurrentAfter(body, since) ==
    body.version > Len(origin[body.path]) \/ origin[body.path][body.version] >= since

(* A version served from the store at some time was still current within the *)
(* longest life the policy allows before the request was looked up: entries  *)
(* live from the lookup of the request that fetched them, so a slow origin   *)
(* only shortens it.  Entries renewed on a validator of the client's are     *)
(* excepted (derive_cache_metadata, freshness, refresh_revalidated_entry).   *)
BoundedStaleness(policy) ==
    \A i \in DOMAIN served :
        LET answer == served[i]
        IN ~answer.entry.body.borrowed =>
             StillCurrentAfter(answer.entry.body, answer.at - LongestLife(policy, answer.kind))

(* After a purge the store it ran on holds nothing below the target except   *)
(* what the origin sent later and what requests in flight carried across it  *)
(* (handle_admin_cache_purge; the fill does not look for a purge).           *)
PurgeHolds ==
    purge.phase = "done" =>
        \A k \in {e \in DOMAIN stores[purge.gen].entries : IsPrefix(purge.target.prefix, e.path)} :
            LET body == stores[purge.gen].entries[k].entry.body
            IN body.after \/ \E b \in purge.carried : [b EXCEPT !.borrowed = FALSE] = [body EXCEPT !.borrowed = FALSE]

(* A stored answer is only given to requests that agree with the one it was  *)
(* fetched for on every header its own Vary names (response_has_unsafe_vary).*)
VaryRespected ==
    \A i \in DOMAIN served : \A n \in served[i].entry.body.vary :
        canonical_header_values(served[i].request, n) = canonical_header_values(served[i].entry.body.wanted, n)
=============================================================================
