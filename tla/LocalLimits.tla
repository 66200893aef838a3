----------------------------- MODULE LocalLimits -----------------------------
(* The local limits of a route destination (local_limits.rs) and the request *)
(* path that asks them (enforce_destination_local_limits): rate limiters     *)
(* first, then concurrency limiters whose leases the request keeps until it  *)
(* ends.  The configuration may be replaced while requests hold leases.      *)
EXTENDS Naturals, Sequences, FiniteSets, SequencesExt, FiniteSetsExt, Functions, TLC

CONSTANTS
    LimitRequests,
    Names,          \* route and cluster names, as sequences of characters
    Rates,          \* rate limiters, in order: [scope, keyKind, max, window, tracked]
    Caps,           \* concurrency limiters, in order: [scope, keyKind, max, tracked]
    MaxComponentLen \* MAX_NORMALIZED_COMPONENT_LEN

VARIABLES
    windows,    \* per rate limiter: key -> [started, count, seen]
    counts,     \* per concurrency limiter: key -> leases
    tally,      \* per concurrency limiter: active, acquired, rejected
    lease,      \* per request: the leases it holds, or how it ended
    allowed,    \* per rate limiter: <<key, time>> of each request let through
    clock

limitVars == <<windows, counts, tally, lease, allowed, clock>>

(* normalize_component on names over the characters used here.               *)
NormalizeComponent(name) ==
    LET kept == {i \in 1..Len(name) : \E j, k \in 1..Len(name) :
                    j <= i /\ i <= k /\ name[j] # " " /\ name[k] # " "}
        body == IF kept = {} THEN <<>> ELSE SubSeq(name, Min(kept), Max(kept))
        plain == [i \in 1..Min({Len(body), MaxComponentLen}) |->
                    CASE body[i] = "A" -> "a" [] body[i] \in {"/", " "} -> "_" [] OTHER -> body[i]]
    IN IF plain = <<>> THEN "missing" ELSE plain

Normalized == [name \in Names |-> NormalizeComponent(name)]

(* normalize_limit_key: the scope and the value the limiter shards by.       *)
LimitKey(limiter, context) ==
    <<limiter.scope,
      CASE limiter.keyKind = "global" -> "global"
        [] limiter.keyKind = "source_ip" -> context.source
        [] limiter.keyKind = "route_name" -> Normalized[context.route]
        [] limiter.keyKind = "upstream_cluster" -> Normalized[context.cluster]>>

(* LocalRateLimitConfig::validate, LocalConcurrencyLimitConfig::validate;    *)
(* a normalised scope is never empty, so that check refuses nothing.         *)
ValidLimit(limiter) ==
    /\ limiter.max > 0 /\ limiter.tracked > 0
    /\ "window" \in DOMAIN limiter => limiter.window > 0

NewLimiters ==
    /\ windows = [i \in 1..Len(Rates) |-> <<>>]
    /\ counts = [i \in 1..Len(Caps) |-> <<>>]
    /\ tally = [i \in 1..Len(Caps) |-> [active |-> 0, acquired |-> 0, rejected |-> 0]]

LimitsInit ==
    /\ NewLimiters
    /\ lease = [r \in LimitRequests |-> [state |-> "new", held |-> {}]]
    /\ allowed = [i \in 1..Len(Rates) |-> {}]
    /\ clock = 0

(* evict_oldest_key: some key seen least recently.                           *)
Oldest(table) == {k \in DOMAIN table : \A j \in DOMAIN table : table[k].seen <= table[j].seen}

MutantCheckRate(i, key) ==
    LET limiter == Rates[i]
        full == key \notin DOMAIN windows[i] /\ Cardinality(DOMAIN windows[i]) = limiter.tracked
    IN {LET table == Restrict(windows[i], DOMAIN windows[i] \ gone)
            fresh == [started |-> clock, count |-> 0, seen |-> clock]
            entry == IF key \in DOMAIN table THEN table[key] ELSE fresh
            current == IF clock - entry.started < limiter.window THEN fresh ELSE entry
            passes == current.count < limiter.max
        IN [passes |-> passes,
            table |-> (key :> [current EXCEPT !.seen = clock, !.count = IF passes THEN @ + 1 ELSE @]) @@ table] :
        gone \in IF full THEN {{k} : k \in Oldest(windows[i])} ELSE {{}}}

(* LocalRateLimiter::check: the outcomes of one check, one per key that may  *)
(* be evicted to make room.                                                  *)
CheckRate(i, key) ==
    LET limiter == Rates[i]
        full == key \notin DOMAIN windows[i] /\ Cardinality(DOMAIN windows[i]) = limiter.tracked
    IN {LET table == Restrict(windows[i], DOMAIN windows[i] \ gone)
            fresh == [started |-> clock, count |-> 0, seen |-> clock]
            entry == IF key \in DOMAIN table THEN table[key] ELSE fresh
            current == IF clock - entry.started >= limiter.window THEN fresh ELSE entry
            passes == current.count < limiter.max
        IN [passes |-> passes,
            table |-> (key :> [current EXCEPT !.seen = clock, !.count = IF passes THEN @ + 1 ELSE @]) @@ table] :
        gone \in IF full THEN {{k} : k \in Oldest(windows[i])} ELSE {{}}}

(* LocalConcurrencyLimiter::try_acquire                                      *)
Grants(i, key) ==
    IF key \in DOMAIN counts[i] THEN counts[i][key] < Caps[i].max
                                ELSE Cardinality(DOMAIN counts[i]) # Caps[i].tracked

Taken(table, key) == (key :> (IF key \in DOMAIN table THEN table[key] + 1 ELSE 1)) @@ table

(* Drop of a lease: the last one forgets the key.                            *)
Returned(table, key) ==
    IF table[key] = 1 THEN Restrict(table, DOMAIN table \ {key}) ELSE [table EXCEPT ![key] = @ - 1]

(* enforce_destination_local_limits, rate limiters: the first that rejects   *)
(* ends the request; those before it have counted it.                        *)
AskRates(r, context) ==
    /\ lease[r].state = "new"
    /\ \E outcome \in [1..Len(Rates) -> UNION {CheckRate(i, LimitKey(Rates[i], context)) : i \in 1..Len(Rates)}] :
        /\ \A i \in 1..Len(Rates) : outcome[i] \in CheckRate(i, LimitKey(Rates[i], context))
        /\ LET failing == {i \in 1..Len(Rates) : ~outcome[i].passes}
               asked == 1..(IF failing = {} THEN Len(Rates) ELSE Min(failing))
           IN /\ windows' = [i \in 1..Len(Rates) |-> IF i \in asked THEN outcome[i].table ELSE windows[i]]
              /\ allowed' = [i \in 1..Len(Rates) |->
                    IF i \in asked /\ outcome[i].passes
                    THEN allowed[i] \cup {<<LimitKey(Rates[i], context), clock, r>>} ELSE allowed[i]]
              /\ lease' = [lease EXCEPT ![r] = [state |-> IF failing = {} THEN "asking" ELSE "rate_limited",
                                                held |-> {}, context |-> context, next |-> 1]]
    /\ UNCHANGED <<counts, tally, clock>>

(* A lease is given back to the limiter that granted it; a replaced limiter  *)
(* is gone and its leases have nothing to return.                            *)
GiveBack(held) ==
    /\ counts' = [i \in 1..Len(Caps) |->
          FoldSet(LAMBDA l, table : IF l[1] = i THEN Returned(table, l[2]) ELSE table, counts[i], held)]
    /\ tally' = [i \in 1..Len(Caps) |->
          [tally[i] EXCEPT !.active = @ - Cardinality({l \in held : l[1] = i})]]

(* The concurrency limiters, one after the other; the leases taken before a  *)
(* rejection are dropped with it.                                            *)
AskCap(r) ==
    /\ lease[r].state = "asking"
    /\ IF lease[r].next > Len(Caps)
       THEN lease' = [lease EXCEPT ![r].state = "running"] /\ UNCHANGED <<counts, tally>>
       ELSE LET i == lease[r].next
                key == LimitKey(Caps[i], lease[r].context)
            IN \/ /\ Grants(i, key)
                  /\ counts' = [counts EXCEPT ![i] = Taken(@, key)]
                  /\ tally' = [tally EXCEPT ![i].active = @ + 1, ![i].acquired = @ + 1]
                  /\ lease' = [lease EXCEPT ![r].held = @ \cup {<<i, key>>}, ![r].next = i + 1]
               \/ /\ ~Grants(i, key)
                  /\ counts' = [j \in 1..Len(Caps) |->
                        FoldSet(LAMBDA l, table : IF l[1] = j THEN Returned(table, l[2]) ELSE table,
                                counts[j], lease[r].held)]
                  /\ tally' = [j \in 1..Len(Caps) |->
                        [tally[j] EXCEPT !.active = @ - Cardinality({l \in lease[r].held : l[1] = j}),
                                         !.rejected = IF j = i THEN @ + 1 ELSE @]]
                  /\ lease' = [lease EXCEPT ![r] = [state |-> "concurrency_limited", held |-> {}]]
    /\ UNCHANGED <<windows, allowed, clock>>

(* The exchange ends and its leases go out of scope.                         *)
EndRequest(r) ==
    /\ lease[r].state = "running"
    /\ GiveBack(lease[r].held)
    /\ lease' = [lease EXCEPT ![r] = [state |-> "done", held |-> {}]]
    /\ UNCHANGED <<windows, allowed, clock>>

(* A reload builds new limiters; leases hold a weak reference to the old,    *)
(* and a request that is asking gets its answer from those.                  *)
ReplaceLimiters ==
    /\ windows' = [i \in 1..Len(Rates) |-> <<>>]
    /\ counts' = [i \in 1..Len(Caps) |-> <<>>]
    /\ tally' = [i \in 1..Len(Caps) |-> [active |-> 0, acquired |-> 0, rejected |-> 0]]
    /\ \E answer \in {"running", "concurrency_limited"} :
          lease' = [r \in LimitRequests |->
                      [lease[r] EXCEPT !.state = IF @ = "asking" THEN answer ELSE @, !.held = {}]]
    /\ allowed' = [i \in 1..Len(Rates) |-> {}]
    /\ UNCHANGED clock

LimitTick ==
    /\ clock' = clock + 1
    /\ UNCHANGED <<windows, counts, tally, lease, allowed>>

LimitStep(r) == AskCap(r) \/ EndRequest(r)

-----------------------------------------------------------------------------
(* A concurrency limiter counts exactly the leases alive for each key, never *)
(* more than its limit or its number of keys, and its metrics agree, also    *)
(* after a rejection half-way through the limiters.                          *)
LeasesExact ==
    \A i \in 1..Len(Caps) :
        LET live(key) == {r \in LimitRequests : <<i, key>> \in lease[r].held}
            keys == {l[2] : l \in UNION {lease[r].held : r \in LimitRequests}}
        IN /\ \A key \in keys : live(key) # {} => key \in DOMAIN counts[i]
           /\ \A key \in DOMAIN counts[i] : /\ counts[i][key] = Cardinality(live(key))
                                            /\ counts[i][key] \in 1..Caps[i].max
           /\ Cardinality(DOMAIN counts[i]) <= Caps[i].tracked
           /\ tally[i].active = FoldSet(LAMBDA key, n : n + counts[i][key], 0, DOMAIN counts[i])

(* A fixed window lets at most two windows' worth of requests of one key     *)
(* through in any span of one window, whatever happens at the boundary, as   *)
(* long as every key in use can be tracked.                                  *)
WindowBound ==
    \A i \in 1..Len(Rates) :
        Cardinality({a[1] : a \in allowed[i]}) <= Rates[i].tracked =>
            \A a \in allowed[i] :
                Cardinality({b \in allowed[i] : /\ b[1] = a[1] /\ b[2] >= a[2]
                                                /\ b[2] < a[2] + Rates[i].window}) <= 2 * Rates[i].max
=============================================================================
