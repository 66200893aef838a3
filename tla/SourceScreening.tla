-------------------------- MODULE SourceScreening --------------------------
(***************************************************************************)
(* What the HTTP proxies do with the source of a request before they look  *)
(* for an upstream: the client address is resolved through the trusted     *)
(* proxies, refused sources are turned away, and a source that keeps       *)
(* asking for routes that do not exist, or for ever new query shapes of    *)
(* one route, is banned for a while (crates/runtime/src/                   *)
(* trusted_client_ip.rs, anonymous_sources.rs, route_enumeration.rs and    *)
(* their callers in http1_proxy and http2_proxy).                          *)
(*                                                                         *)
(* Requests run concurrently; each call on the protection state takes its  *)
(* mutex once, so the calls of one request interleave with those of the    *)
(* others.  Time is counted in ticks.  An address is a record of the host  *)
(* it names and of whether it is spelled as an IPv4-mapped IPv6 address.   *)
(***************************************************************************)
EXTENDS Integers, Sequences, FiniteSets, FiniteSetsExt

CONSTANTS
    SlotIds,                    \* requests in progress at the same time
    SourcePolicy                \* TrustedClientIpPolicy, AnonymousSourceFilterPolicy and
                                \* RouteEnumerationProtectionPolicy of the listener

VARIABLES
    clock,      \* Instant::now(), in ticks
    sources,    \* RouteEnumerationProtectionState.sources: key -> SourceState
    slots,      \* the requests in progress
    bans,       \* every ban given to a source that is still tracked (history)
    asked       \* every unmatched request and query shape counted (history)

screenVars == <<clock, sources, slots, bans, asked>>

Idle == [pc |-> "idle"]

ScreeningInit ==
    /\ clock = 0 /\ sources = <<>> /\ bans = {} /\ asked = {}
    /\ slots = [i \in SlotIds |-> Idle]

----------------------------------------------------------------------------
(* The client address.                                                     *)
canonicalize_ip(address) == [address EXCEPT !.mapped = FALSE]

is_trusted_proxy(address) == canonicalize_ip(address).host \in SourcePolicy.trusted_proxies

(* The chain lists the client first and the nearest proxy last; it is      *)
(* walked back from the peer for as long as the hop reached is trusted.    *)
resolve_client_from_chain(peer, chain) ==
    LET hop[i \in 0..Len(chain)] ==
            IF i = 0 THEN peer
            ELSE IF is_trusted_proxy(hop[i - 1]) THEN chain[Len(chain) + 1 - i] ELSE hop[i - 1]
    IN  canonicalize_ip(hop[Len(chain)])

Refused == [host |-> "refused", mapped |-> FALSE]

(* Forwarded is preferred to X-Forwarded-For; a header from a peer that is *)
(* not trusted, or one with an element that names no address, refuses the  *)
(* request.                                                                *)
resolve_from_header_iter(peer, request) ==
    LET chain == IF request.forwarded # <<>> THEN request.forwarded ELSE request.xff
    IN  IF ~SourcePolicy.trust_enabled \/ chain = <<>> THEN canonicalize_ip(peer)
        ELSE IF ~is_trusted_proxy(peer) \/ \E i \in DOMAIN chain : chain[i] = Refused THEN Refused
        ELSE resolve_client_from_chain(canonicalize_ip(peer), chain)

(* AnonymousSourceFilterState::classify_and_record: the deny list, then    *)
(* each category that is switched on.                                      *)
AnonymousBlocked(client) ==
    /\ SourcePolicy.filter_enabled
    /\ \/ client.host \in SourcePolicy.deny
       \/ \E category \in SourcePolicy.denied_categories :
              client.host \in SourcePolicy.listed[category]

----------------------------------------------------------------------------
(* Bans.                                                                   *)
normalize_source_key(client) ==
    IF SourcePolicy.aggregation = "exact_ip" THEN client.host ELSE SourcePolicy.subnet[client.host]

NewSource == [last_seen |-> clock, ban_level |-> 0, banned_until |-> 0, unmatched |-> <<>>,
              signatures |-> {}]

Fresh(seen_at) == clock - seen_at <= SourcePolicy.window

MutantForgive(source) ==
    LET fresh == SelectSeq(source.unmatched, Fresh)
    IN  [source EXCEPT !.unmatched = fresh,
                       !.signatures = {s \in @ : Fresh(s.seen_at)},
                       !.banned_until = IF fresh = <<>> THEN 0 ELSE @]

prune_source_state(source) ==
    [source EXCEPT !.unmatched = SelectSeq(@, Fresh),
                   !.signatures = {s \in @ : Fresh(s.seen_at)},
                   !.banned_until = IF @ <= clock THEN 0 ELSE @]

Banned(source) == source.banned_until > clock

(* Every call on a tracked source prunes it and notes the visit.           *)
Visited(source) == [prune_source_state(source) EXCEPT !.last_seen = clock]

(* evict_oldest_source removes one of the sources seen least recently (the *)
(* first in key order among equals).                                       *)
Oldest == {k \in DOMAIN sources :
               \A other \in DOMAIN sources : sources[k].last_seen <= sources[other].last_seen}

(* The keys that remain once room has been made for a source.              *)
Kept(key) ==
    IF key \in DOMAIN sources \/ Cardinality(DOMAIN sources) < SourcePolicy.max_tracked
    THEN {DOMAIN sources}
    ELSE {DOMAIN sources \ {k} : k \in Oldest}

ensure_source_state(key) == IF key \in DOMAIN sources THEN sources[key] ELSE NewSource

(* Writes back a source; bans of the sources that were evicted for it are  *)
(* forgotten with them.                                                    *)
Put(key, kept, source) ==
    sources' = [k \in kept \cup {key} |-> IF k = key THEN source ELSE sources[k]]

(* The duration doubles with every ban, up to the longest one.             *)
activate_ban(source) ==
    [source EXCEPT !.ban_level = @ + 1,
                   !.banned_until =
                       clock + Min({SourcePolicy.base_ban * 2 ^ Min({source.ban_level, 8}),
                                    SourcePolicy.max_ban}),
                   !.unmatched = <<>>, !.signatures = {}]

NoteBan(key, kept, source) ==
    bans' = {b \in bans : b.key \in kept}
                \cup (IF Banned(source)
                      THEN {[key |-> key, from |-> clock, until |-> source.banned_until,
                             last |-> Cardinality(asked) + 1]}
                      ELSE {})

(* What a source asked for, in the order it was counted.                   *)
Unmatched == [path |-> "none", names |-> {}]

NoteAsked(key, shape) ==
    asked' = asked \cup {[key |-> key, shape |-> shape, at |-> clock, nr |-> Cardinality(asked) + 1]}

----------------------------------------------------------------------------
(* A request.                                                              *)
Refuse(i, status) ==
    slots' = [slots EXCEPT ![i] = [@ EXCEPT !.pc = "answered", !.status = status]]

Go(i, pc) == slots' = [slots EXCEPT ![i] = [@ EXCEPT !.pc = pc]]

(* The head is read, the client address resolved and the source filter     *)
(* asked.                                                                  *)
ScreenArrive(i, request) ==
    LET client == resolve_from_header_iter(request.peer, request)
        task == [pc |-> "blocked?", request |-> request, client |-> client, arrived |-> clock,
                 status |-> 0]
    IN  /\ slots[i].pc = "idle"
        /\ slots' = [slots EXCEPT ![i] =
               IF client = Refused THEN [task EXCEPT !.pc = "answered", !.status = 400]
               ELSE IF AnonymousBlocked(client) THEN [task EXCEPT !.pc = "answered", !.status = 403]
               ELSE task]
        /\ UNCHANGED <<clock, sources, bans, asked>>

is_blocked(i) ==
    LET key == normalize_source_key(slots[i].client)
    IN  /\ slots[i].pc = "blocked?"
        /\ IF key \notin DOMAIN sources
           THEN Go(i, "route") /\ UNCHANGED sources
           ELSE /\ sources' = [sources EXCEPT ![key] = Visited(@)]
                /\ IF Banned(Visited(sources[key])) THEN Refuse(i, 403) ELSE Go(i, "route")
        /\ UNCHANGED <<clock, bans, asked>>

(* A matched route: the shape of the query, the names of its parameters,   *)
(* is remembered for the authority and path asked for.                     *)
record_query_probe(i) ==
    LET request == slots[i].request
        key == normalize_source_key(slots[i].client)
        shape == [path |-> request.path, names |-> request.names]
        source == Visited(ensure_source_state(key))
        counted == [source EXCEPT !.signatures =
                        {s \in @ : s.shape # shape} \cup {[shape |-> shape, seen_at |-> clock]}]
        shapes == {s \in counted.signatures : s.shape.path = request.path}
        over == Cardinality(shapes) > SourcePolicy.max_signatures
    IN  /\ slots[i].pc = "route" /\ request.matched /\ request.names # {}
        /\ \E kept \in Kept(key) :
             IF Banned(source)
             THEN Put(key, kept, source) /\ Refuse(i, 403) /\ UNCHANGED <<bans, asked>>
             ELSE LET after == IF over THEN activate_ban(counted) ELSE counted
                  IN  /\ Put(key, kept, after)
                      /\ NoteBan(key, kept, after)
                      /\ NoteAsked(key, shape)
                      /\ IF over THEN Refuse(i, 403) ELSE Go(i, "forwarded")
        /\ UNCHANGED clock

(* A matched route asked for without a query goes on.                      *)
NoProbe(i) ==
    /\ slots[i].pc = "route" /\ slots[i].request.matched /\ slots[i].request.names = {}
    /\ Go(i, "forwarded")
    /\ UNCHANGED <<clock, sources, bans, asked>>

(* No route: the request is answered 403 either way, the visit counted.    *)
record_unmatched_route(i) ==
    LET key == normalize_source_key(slots[i].client)
        source == Visited(ensure_source_state(key))
        counted == [source EXCEPT !.unmatched = Append(@, clock)]
        over == Len(counted.unmatched) > SourcePolicy.max_unmatched
    IN  /\ slots[i].pc = "route" /\ ~slots[i].request.matched
        /\ \E kept \in Kept(key) :
             IF Banned(source)
             THEN Put(key, kept, source) /\ UNCHANGED <<bans, asked>>
             ELSE LET after == IF over THEN activate_ban(counted) ELSE counted
                  IN  /\ Put(key, kept, after)
                      /\ NoteBan(key, kept, after)
                      /\ NoteAsked(key, Unmatched)
        /\ Refuse(i, 403)
        /\ UNCHANGED clock

(* The answer, or the upstream's, has been delivered.                      *)
ScreenDone(i) ==
    /\ slots[i].pc \in {"answered", "forwarded"}
    /\ slots' = [slots EXCEPT ![i] = Idle]
    /\ UNCHANGED <<clock, sources, bans, asked>>

ScreenTick ==
    /\ clock' = clock + 1
    /\ UNCHANGED <<sources, slots, bans, asked>>

ScreenStep(i) ==
    is_blocked(i) \/ record_query_probe(i) \/ NoProbe(i) \/ record_unmatched_route(i) \/ ScreenDone(i)

----------------------------------------------------------------------------
ScreenTypeOK ==
    /\ clock \in Nat
    /\ Cardinality(DOMAIN sources) <= SourcePolicy.max_tracked
    /\ \A k \in DOMAIN sources :
           /\ sources[k].last_seen \in 0..clock /\ sources[k].ban_level \in Nat
           /\ Len(sources[k].unmatched) <= SourcePolicy.max_unmatched
    /\ \A i \in SlotIds :
           slots[i].pc \in {"idle", "blocked?", "route", "forwarded", "answered"}

(* The address a request is attributed to is the nearest hop, seen from    *)
(* this proxy, that is not a trusted proxy, or the farthest one when all   *)
(* are: no hop behind an untrusted one is believed (trusted_client_ip.rs,  *)
(* resolve_client_from_chain).                                             *)
ClientVouched ==
    \A i \in SlotIds :
        slots[i].pc # "idle" /\ slots[i].client # Refused =>
            LET request == slots[i].request
                chain == IF request.forwarded # <<>> THEN request.forwarded ELSE request.xff
                hops == <<request.peer>> \o
                            (IF SourcePolicy.trust_enabled
                             THEN [n \in DOMAIN chain |-> chain[Len(chain) + 1 - n]] ELSE <<>>)
            IN  \E n \in DOMAIN hops :
                    /\ slots[i].client = canonicalize_ip(hops[n])
                    /\ \A m \in 1..n - 1 : is_trusted_proxy(hops[m])
                    /\ n = Len(hops) \/ ~is_trusted_proxy(hops[n])

(* A source serves its ban: no request that arrived after the ban was      *)
(* given is forwarded while it lasts, whatever else the requests in        *)
(* progress do to the table, unless the full table forgot the source       *)
(* (route_enumeration.rs, is_blocked and evict_oldest_source).             *)
BanServed ==
    \A i \in SlotIds :
        slots[i].pc = "forwarded" =>
            ~\E b \in bans : /\ b.key = normalize_source_key(slots[i].client)
                             /\ b.from < slots[i].arrived /\ clock < b.until

(* What a source was counted for since its previous ban and within the     *)
(* evaluation window that led to ban b.                                    *)
Counted(b) ==
    {a \in asked : /\ a.key = b.key /\ a.nr <= b.last /\ b.from - a.at <= SourcePolicy.window
                   /\ \A earlier \in bans :
                          earlier.key = b.key /\ earlier.last < b.last => a.nr > earlier.last}

(* A ban is earned: within the window, and since the ban before, the       *)
(* source asked more often than allowed for a route that does not exist,   *)
(* or for more query shapes of one path than allowed (prune_source_state,  *)
(* record_unmatched_route, record_query_probe).                            *)
BanEarned ==
    \A b \in bans :
        \/ Cardinality({a \in Counted(b) : a.shape = Unmatched}) > SourcePolicy.max_unmatched
        \/ \E a \in Counted(b) :
               Cardinality({other.shape : other \in {o \in Counted(b) : o.shape.path = a.shape.path}})
                   > SourcePolicy.max_signatures

(* The bans of a tracked source follow one another, and each is at least   *)
(* twice as long as the one before until the longest duration is reached   *)
(* (activate_ban).                                                         *)
BansEscalate ==
    \A b1, b2 \in bans :
        b1.key = b2.key /\ b1.last < b2.last =>
            /\ b1.until <= b2.from
            /\ b2.until - b2.from >= Min({2 * (b1.until - b1.from), SourcePolicy.max_ban})
            /\ b2.until - b2.from <= SourcePolicy.max_ban
=============================================================================
