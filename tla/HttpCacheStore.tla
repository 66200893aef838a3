--------------------------- MODULE HttpCacheStore ---------------------------
(* The bounded response store of crates/runtime/src/http_cache.rs as         *)
(* operators on a store state, the cache key of a request, and what of an    *)
(* origin response may be stored and for how long                            *)
(* (http1_proxy/cache_headers_and_freshness.rs).  Every operation of the     *)
(* store runs under its mutex, so each operator is one step.  Durations are  *)
(* ticks of one clock; a path is its sequence of segments, the last one      *)
(* empty when the path ends with a slash.                                    *)
EXTENDS Integers, Sequences, FiniteSets, SequencesExt, FiniteSetsExt, Functions, TLC

CONSTANTS
    StoreLimits,    \* HttpCacheStoreConfig, and the bytes an entry takes beside its body
    MaxApplied      \* invalidation events a store remembers (256)

None == -1          \* Option::None of a number
Malformed == -2     \* a header value that does not parse
NoTag == "none"     \* no validator

----------------------------------------------------------------------------
(* Entries and their freshness                                               *)

HttpCacheMetadata(times, tags) ==
    [status : Nat, stored_at : times, fresh_until : times, swr_until : times \cup {None},
     sie_until : times \cup {None}, etag : tags, last_modified : tags]

expires_at(m) ==
    LET windows == {m.swr_until, m.sie_until} \ {None}
    IN IF windows = {} THEN m.fresh_until ELSE Max(windows)

freshness(m, now) ==
    CASE now >= expires_at(m) -> "expired"
      [] now < m.fresh_until -> "fresh"
      [] now < m.swr_until -> "stale_while_revalidate"
      [] now < m.sie_until -> "stale_if_error"
      [] OTHER -> "expired"

ValidMetadata(m) ==
    /\ m.fresh_until >= m.stored_at
    /\ m.swr_until # None => m.swr_until >= m.fresh_until
    /\ m.sie_until # None => m.sie_until >= m.fresh_until

EmptyStore ==
    [entries |-> <<>>, total_bytes |-> 0, next_sequence |-> 0, applied |-> <<>>,
     inserted |-> 0, evicted |-> 0, expired |-> 0, removed |-> 0]

remove_from_state(s, keys) ==
    [s EXCEPT !.entries = Restrict(@, DOMAIN @ \ keys),
              !.total_bytes = @ - FoldFunctionOnSet(+, 0, [k \in DOMAIN s.entries |-> s.entries[k].size],
                                                    keys \cap DOMAIN s.entries)]

(* Store and hit of one lookup: an entry past every window is dropped, any   *)
(* other becomes the most recently used.                                     *)
lookup(s, now, key) ==
    IF key \notin DOMAIN s.entries THEN [store |-> s, hit |-> "miss"]
    ELSE LET found == freshness(s.entries[key].entry.metadata, now)
         IN [store |-> IF found = "expired"
                       THEN [remove_from_state(s, {key}) EXCEPT !.expired = @ + 1]
                       ELSE [s EXCEPT !.entries[key].tick = now],
             hit |-> IF found = "expired" THEN "miss" ELSE found]

(* Least recently used first, then first inserted.                           *)
oldest_entry_key(s) ==
    CHOOSE k \in DOMAIN s.entries : \A j \in DOMAIN s.entries :
        \/ s.entries[k].tick < s.entries[j].tick
        \/ s.entries[k].tick = s.entries[j].tick /\ s.entries[k].sequence <= s.entries[j].sequence

WithinLimits(s) ==
    Cardinality(DOMAIN s.entries) <= StoreLimits.max_entries /\ s.total_bytes <= StoreLimits.max_bytes

evict_until_within_bounds(s) ==
    LET rounds[n \in 0..Cardinality(DOMAIN s.entries)] ==
            IF n = 0 THEN s
            ELSE IF WithinLimits(rounds[n - 1]) THEN rounds[n - 1]
            ELSE [remove_from_state(rounds[n - 1], {oldest_entry_key(rounds[n - 1])})
                  EXCEPT !.evicted = @ + 1]
    IN rounds[Cardinality(DOMAIN s.entries)]

InsertAccepted(entry) ==
    ValidMetadata(entry.metadata) /\ entry.size <= StoreLimits.max_object_bytes

(* now is when the request was looked up, not when its answer arrived.       *)
insert(s, now, key, entry) ==
    LET replaced == key \in DOMAIN s.entries
        without == remove_from_state(s, {key})
    IN IF ~InsertAccepted(entry) THEN s
       ELSE evict_until_within_bounds(
              [without EXCEPT
                 !.entries = (key :> [entry |-> entry, size |-> entry.size,
                                      sequence |-> s.next_sequence, tick |-> now]) @@ @,
                 !.total_bytes = @ + entry.size, !.next_sequence = @ + 1,
                 !.inserted = IF replaced THEN @ ELSE @ + 1])

MutantMatchWholeKey(key, prefix) ==
    key.vary = <<>> /\ (prefix = <<"">> \/ IsPrefix(prefix, key.path))

(* The prefix itself, everything below it at a segment boundary, or the root.*)
storage_key_matches_path_prefix(key, prefix) == prefix = <<"">> \/ IsPrefix(prefix, key.path)

(* Exact key, or every key below a path prefix.                              *)
Targeted(s, target) ==
    IF target.kind = "exact" THEN DOMAIN s.entries \cap {target.key}
    ELSE {k \in DOMAIN s.entries : storage_key_matches_path_prefix(k, target.prefix)}

PurgeStore(s, target) ==
    [remove_from_state(s, Targeted(s, target)) EXCEPT !.removed = @ + Cardinality(Targeted(s, target))]

(* validate_invalidation_event: an event is invalid in one field at most.    *)
validate_invalidation_event(event) == event.fault = "none"

MutantNeverSeen(s, event) == FALSE

SeenEvent(s, event) == <<event.issuer, event.id>> \in Range(s.applied)

(* Duplicate events change nothing; the memory of events is bounded.         *)
apply_invalidation_event(s, event) ==
    IF ~validate_invalidation_event(event) THEN [store |-> s, result |-> "invalid", purged |-> 0]
    ELSE IF SeenEvent(s, event) THEN [store |-> s, result |-> "duplicate", purged |-> 0]
    ELSE LET all == Append(s.applied, <<event.issuer, event.id>>)
         IN [store |-> [PurgeStore(s, event.target) EXCEPT
                          !.applied = SubSeq(all, Max({1, Len(all) - MaxApplied + 1}), Len(all))],
             result |-> "applied", purged |-> Cardinality(Targeted(s, event.target))]

purge_expired(s, now) ==
    LET old == {k \in DOMAIN s.entries : now >= expires_at(s.entries[k].entry.metadata)}
    IN [remove_from_state(s, old) EXCEPT !.expired = @ + Cardinality(old)]

(* Entry count, bytes and largest object of the metrics and the snapshot.    *)
store_metrics(s) ==
    [entry_count |-> Cardinality(DOMAIN s.entries), total_bytes |-> s.total_bytes,
     max_object_bytes |-> Max({0} \cup {s.entries[k].size : k \in DOMAIN s.entries})]

----------------------------------------------------------------------------
(* Keys.  A header value is the sequence of its comma separated tokens, each *)
(* a number whose sign is the case it is written in.                         *)

canonical_header_values(request, name) ==
    IF name \notin DOMAIN request.headers THEN <<>>
    ELSE LET lower == [i \in DOMAIN request.headers[name] |-> Max({request.headers[name][i], -request.headers[name][i]})]
         IN SortSeq(lower, <)

selected_header_names(names) == Range(names) \ {""}

(* build_http_cache_key_material and storage_key, given that the host and    *)
(* the target are valid; the credential stands for its hash.                 *)
storage_key(policy, request) ==
    [path |-> request.path, host |-> IF policy.include_host THEN request.host ELSE "any",
     method |-> IF policy.include_method THEN request.method ELSE "any",
     query |-> IF policy.query = "include_all" THEN request.query ELSE "any",
     auth |-> IF policy.authorization = "partition" THEN request.authorization ELSE "any",
     headers |-> [n \in selected_header_names(policy.key_headers) |-> canonical_header_values(request, n)],
     vary |-> [n \in selected_header_names(policy.vary_headers) |-> canonical_header_values(request, n)]]

(* Why a request has no key.                                                 *)
KeyRefused(policy, request) ==
    \/ request.host = "missing" \/ request.target_fault
    \/ request.authority # "none" /\ request.authority # request.host
    \/ request.authorization # "none" /\ policy.authorization = "bypass"
    \/ request.cookie

request_method_is_cache_lookup_eligible(policy, method) == method \in policy.methods

----------------------------------------------------------------------------
(* What may be stored                                                        *)

is_disallowed_cache_vary_header(name) ==
    name \in {"authorization", "cookie", "set-cookie", "connection", "keep-alive", "te", "trailer",
              "transfer-encoding", "upgrade", "forwarded", "x-forwarded-for", "x-forwarded-proto",
              "proxy-authenticate", "proxy-authorization", "proxy-connection"}

response_has_unsafe_vary(response) ==
    \E name \in response.vary : name \in {"", "*"} \/ is_disallowed_cache_vary_header(name)

response_is_cacheable(policy, response) ==
    /\ response.status \in policy.cacheable_status_codes
    /\ response.set_cookie => policy.allow_set_cookie_storage
    /\ ~response_has_unsafe_vary(response)

Least(a, b) == IF a < b THEN a ELSE b

duration_if_non_zero(seconds) == IF seconds = 0 THEN None ELSE seconds

NotStorable == [fresh_for |-> None, swr_for |-> None, sie_for |-> None]

(* Seconds the origin declares the response fresh for, None when its Age,    *)
(* Expires or Date does not parse.                                           *)
DeclaredFreshness(policy, response) ==
    LET age == IF response.age = None THEN 0 ELSE response.age
        declared == IF response.cc.s_maxage # None THEN response.cc.s_maxage ELSE response.cc.max_age
        less(seconds) == Max({0, seconds - age})
    IN CASE response.age = Malformed -> None
         [] declared # None -> less(declared)
         [] response.expires = None -> policy.default_ttl
         [] response.expires = Malformed -> None
         [] response.date = None -> policy.default_ttl
         [] response.date = Malformed -> None
         [] OTHER -> less(Max({0, response.expires - response.date}))

derive_freshness_windows_from_origin(policy, response) ==
    LET capped(declared, own) == duration_if_non_zero(Least(IF declared = None THEN own ELSE declared, own))
        seconds == DeclaredFreshness(policy, response)
    IN IF \/ response.cc.malformed \/ response.cc.no_store \/ response.cc.private \/ response.cc.no_cache
          \/ response.pragma_no_cache \/ seconds = None
       THEN NotStorable
       ELSE [fresh_for |-> Least(seconds, policy.max_ttl),
             swr_for |-> capped(response.cc.swr, policy.swr), sie_for |-> capped(response.cc.sie, policy.sie)]

(* NoMetadata when nothing of the response's life is left.                   *)
NoMetadata == [status |-> 0]

derive_cache_metadata(policy, response, status, now) ==
    LET w == IF policy.honor_cache_control THEN derive_freshness_windows_from_origin(policy, response)
             ELSE [fresh_for |-> policy.default_ttl, swr_for |-> duration_if_non_zero(policy.swr),
                   sie_for |-> duration_if_non_zero(policy.sie)]
        until(window) == IF window = None THEN None ELSE now + w.fresh_for + window
    IN IF w.fresh_for = None \/ (w.fresh_for = 0 /\ w.swr_for = None /\ w.sie_for = None) THEN NoMetadata
       ELSE [status |-> status, stored_at |-> now, fresh_until |-> now + w.fresh_for,
             swr_until |-> until(w.swr_for), sie_until |-> until(w.sie_for),
             etag |-> response.etag, last_modified |-> response.last_modified]

should_revalidate_entry(policy, entry) ==
    policy.revalidation_enabled /\ (entry.metadata.etag # NoTag \/ entry.metadata.last_modified # NoTag)

(* A 304 renews the times of the entry and keeps its validators unless the   *)
(* origin sent new ones; when it allows no storage the entry stays as it is. *)
refresh_revalidated_entry(policy, entry, response, now) ==
    LET m == derive_cache_metadata(policy, response, entry.metadata.status, now)
        keep(new, old) == IF new = NoTag THEN old ELSE new
    IN IF m = NoMetadata THEN entry
       ELSE [entry EXCEPT !.metadata =
               [m EXCEPT !.etag = keep(m.etag, entry.metadata.etag),
                         !.last_modified = keep(m.last_modified, entry.metadata.last_modified)]]

(* Only a GET with a body of known length within both limits is collected.   *)
build_cacheable_response_entry(policy, request, response, now) ==
    LET m == derive_cache_metadata(policy, response, response.status, now)
        storable == /\ request.method = "GET" /\ response_is_cacheable(policy, response)
                    /\ m # NoMetadata
                    /\ \/ response.body_kind = "none"
                       \/ response.body_kind = "length" /\ response.length <= StoreLimits.max_object_bytes
    IN IF storable THEN {[metadata |-> m, size |-> response.length + StoreLimits.overhead, body |-> response.body]} ELSE {}
=============================================================================
