---------------------------- MODULE BackendPool ----------------------------
(***************************************************************************)
(* The backend pools of a listener: a route's traffic is split over        *)
(* clusters and balanced over their endpoints (RouteBackendPool and        *)
(* UpstreamBalancer in crates/runtime/src/upstream_balancer.rs), requests  *)
(* report what became of them, and the probe loop of lb-dataplane          *)
(* (workspace_serve/active_health.rs) ages the health records and probes.  *)
(*                                                                         *)
(* Every cluster has a health registry of its own, UpstreamHealth.tla with *)
(* a fixed membership.  Cluster names and endpoint ids are numbers, in the *)
(* order of the names.  The listener's configuration is chosen once; a     *)
(* reload builds new pools.                                                *)
(***************************************************************************)
EXTENDS EndpointHealth, FiniteSetsExt, SequencesExt

CONSTANTS
    Clusters,
    Endpoints,
    NoRecord,
    MaxElapsed,    \* longest time between two rounds of the probe loop
    NominalWeight, \* EndpointMetadata.weight, by endpoint id
    Requests,      \* requests handled at the same time
    Configs        \* the configurations to consider

VARIABLES
    config,        \* members, route, probe_pools and the selection policy
    records,       \* UpstreamHealthRegistry.records of every cluster
    route_weights, \* RouteDestinationWeightedState.current_weights
    cursors,       \* UpstreamBalancer.round_robin_cursors
    weights,       \* UpstreamBalancer.weighted_states
    req,           \* where every request is in select_backend_with_context
    probe,         \* where the probe loop is
    up,            \* the endpoints that accept connections and answer
    stayed,        \* history: endpoints selectable ever since the request came
    watched        \* the endpoint Recovers is about: any that may fail

balancer == <<route_weights, cursors, weights>>
vars == <<config, records, balancer, req, probe, up, stayed, watched>>

Keys == Clusters \X Endpoints

Members == {k \in Keys : k[2] \in config.members[k[1]]}

Health == INSTANCE UpstreamHealth WITH
    clusters    <- Clusters,
    state       <- [k \in Keys |-> IF k \in Members THEN "Ready" ELSE "absent"],
    run         <- [k \in Keys |-> 0],
    ejected_for <- [k \in Keys |-> 0]

\* The round-robin state is kept apart for fallbacks to unhealthy endpoints.
CursorKeys == Clusters \X BOOLEAN

Idle == [at |-> "idle", order |-> <<>>, seen |-> <<>>, fallback |-> FALSE, endpoint |-> 0]

Waiting == [at |-> "wait", elapsed |-> 0, pools |-> <<>>, targets |-> <<>>]

Init ==
    /\ config \in Configs
    /\ records = [k \in Keys |-> IF k \in Members THEN NewRecord(TRUE, NominalWeight[k[2]])
                                 ELSE NoRecord]
    /\ route_weights = [c \in DOMAIN config.route |-> 0]
    /\ cursors = [q \in CursorKeys |-> 0]
    /\ weights = [q \in CursorKeys |-> <<>>]
    /\ req = [r \in Requests |-> Idle]
    /\ probe = Waiting
    /\ up = Members
    /\ stayed = [r \in Requests |-> {}]
    /\ watched \in config.may_fail

\* selection_candidates: with the health each had when it was read.
Candidates(c, include_unhealthy) ==
    LET allowed == Available \cup (IF include_unhealthy THEN {"Unhealthy"} ELSE {})
    IN  [e \in {e \in config.members[c] : records[<<c, e>>].status \in allowed} |->
            [status |-> records[<<c, e>>].status, weight |-> records[<<c, e>>].effective_weight]]

Selectable == {k \in Members : records[k].status \in Available}

\* The largest value, the first name among equals.
Heaviest(f) == CHOOSE x \in DOMAIN f : \A y \in DOMAIN f : f[x] > f[y] \/ (f[x] = f[y] /\ x <= y)

SumOf(f) == MapThenSumSet(LAMBDA x : f[x], DOMAIN f)

----------------------------------------------------------------------------
\* MUTANT: the one chosen pays one unit, whatever the round is worth.
ChargeOne(credit, best, total) == [credit EXCEPT ![best] = @ - 1]

\* Smooth weighted round robin: everyone was credited its weight, the one chosen
\* pays for all.
Charge(credit, best, total) == [credit EXCEPT ![best] = @ - total]

\* select_weighted_route_destination_order: the destination whose turn it is, then
\* the others by what they are owed.
OrderDestinations ==
    LET grown == [c \in DOMAIN config.route |-> route_weights[c] + config.route[c]]
        best  == Heaviest(grown)
        left  == Charge(grown, best, SumOf(config.route))
    IN  [weights |-> left,
         order   |-> <<best>> \o SetToSortSeq(DOMAIN left \ {best}, LAMBDA a, b :
                         left[a] > left[b] \/ (left[a] = left[b] /\ a < b))]

Select(r) ==
    /\ req[r].at = "idle"
    /\ req' = [req EXCEPT ![r] = [Idle EXCEPT !.at = "read", !.order = OrderDestinations.order]]
    /\ route_weights' = OrderDestinations.weights
    /\ UNCHANGED <<records, cursors, weights, probe, up>>

\* MUTANT: only the first destination is tried.
NextDestinationNone(r) == Idle

\* No candidates: the next destination, or NoEligibleEndpoints for the caller.
NextDestination(r) ==
    IF Len(req[r].order) = 1 THEN Idle
    ELSE [Idle EXCEPT !.at = "read", !.order = Tail(req[r].order)]

\* select_endpoint, up to the choice among the candidates.
Read(r) ==
    LET seen == Candidates(Head(req[r].order), FALSE)
    IN  /\ req[r].at = "read"
        /\ req' = [req EXCEPT ![r] =
               IF seen /= <<>> THEN [@ EXCEPT !.at = "pick", !.seen = seen]
               ELSE IF config.include_unhealthy THEN [@ EXCEPT !.at = "fallback"]
               ELSE NextDestination(r)]
        /\ UNCHANGED <<records, balancer>>

ReadFallback(r) ==
    LET seen == Candidates(Head(req[r].order), TRUE)
    IN  /\ req[r].at = "fallback"
        /\ req' = [req EXCEPT ![r] =
               IF seen /= <<>> THEN [@ EXCEPT !.at = "pick", !.seen = seen, !.fallback = TRUE]
               ELSE NextDestination(r)]
        /\ UNCHANGED <<records, balancer>>

\* apply_locality_preference: near is what the request's headers ask for, first
\* choice first; a preference nobody matches is ignored.
Nearest(seen, near) ==
    LET hits == {i \in DOMAIN near : near[i] \cap DOMAIN seen /= {}}
    IN  IF hits = {} THEN seen ELSE Restrict(seen, near[Min(hits)] \cap DOMAIN seen)

\* The exchange with the endpoint follows at once; its result is reported later.
\* A client that breaks off its request body fails the exchange with an endpoint
\* that is up as well (RequestIo); which of them it happens to is a bound.
SendTo(r, e) ==
    LET c == Head(req[r].order)
        k == <<c, e>>
    IN  \E at \in {x \in {"answered", "failed"} : IF x = "answered" THEN k \in up
                                                 ELSE k \notin up \/ k \in config.may_fail} :
            req' = [req EXCEPT ![r] = [Idle EXCEPT !.at = at, !.order = <<c>>, !.endpoint = e]]

\* try_select_affinity_candidate: the key's hash may prefer any endpoint.
PickByAffinity(r, near) ==
    /\ req[r].at = "pick"
    /\ config.affinity
    /\ \E e \in DOMAIN Nearest(Candidates(Head(req[r].order), TRUE), near) :
           /\ e \in DOMAIN Nearest(req[r].seen, near)
           /\ SendTo(r, e)
    /\ UNCHANGED <<records, balancer>>

PickRoundRobin(r, near) ==
    LET q   == <<Head(req[r].order), req[r].fallback>>
        ids == SetToSortSeq(DOMAIN Nearest(req[r].seen, near), <)
    IN  /\ req[r].at = "pick"
        /\ config.algorithm = "RoundRobin"
        /\ SendTo(r, ids[(cursors[q] % Len(ids)) + 1])
        /\ cursors' = [cursors EXCEPT ![q] = (@ + 1) % Len(ids)]
        /\ UNCHANGED <<records, route_weights, weights>>

\* WeightedState.total_weight
RoundTotal(c, share) == SumOf(share)

\* The credit of endpoints that are no candidates is forgotten.
PickWeighted(r, near) ==
    LET q     == <<Head(req[r].order), req[r].fallback>>
        cands == Nearest(req[r].seen, near)
        share == [e \in DOMAIN cands |-> Larger(cands[e].weight, 1)]
        grown == [e \in DOMAIN cands |->
                     (IF e \in DOMAIN weights[q] THEN weights[q][e] ELSE 0) + share[e]]
        best  == Heaviest(grown)
    IN  /\ req[r].at = "pick"
        /\ config.algorithm = "WeightedRoundRobin"
        /\ SendTo(r, best)
        /\ weights' = [weights EXCEPT ![q] = Charge(grown, best, RoundTotal(q[1], share))]
        /\ UNCHANGED <<records, route_weights, cursors>>

HealthRank(status) ==
    CASE status = "Healthy"   -> 4 [] status = "Warming"   -> 3
      [] status = "Degraded"  -> 2 [] status = "Unhealthy" -> 1

\* compare_candidates(left, right) != Less
AtLeastAsGood(cands, e, f) ==
    LET score(x) == <<HealthRank(cands[x].status), cands[x].weight, NominalWeight[x]>>
        differ   == {i \in 1..3 : score(e)[i] /= score(f)[i]}
    IN  IF differ = {} THEN e <= f ELSE score(e)[Min(differ)] > score(f)[Min(differ)]

\* The request's hash may name any two candidates.
PickPowerOfTwo(r, near) ==
    LET cands == Nearest(req[r].seen, near)
    IN  /\ req[r].at = "pick"
        /\ config.algorithm = "PowerOfTwoChoices"
        /\ \E first \in DOMAIN cands, second \in DOMAIN cands :
               /\ first = second => Cardinality(DOMAIN cands) = 1
               /\ SendTo(r, IF AtLeastAsGood(cands, first, second) THEN first ELSE second)
        /\ UNCHANGED <<records, balancer>>

Pick(r) ==
    \E near \in config.hints :
        \/ PickByAffinity(r, near)
        \/ PickRoundRobin(r, near)
        \/ PickWeighted(r, near)
        \/ PickPowerOfTwo(r, near)

----------------------------------------------------------------------------
\* apply_signal of the registry of k's cluster.
Note(k, new) == records' = [records EXCEPT ![k] = Health!Capped(k, new)]

\* passive_health.rs: an answer below 500 and a failure of the upstream count,
\* anything else does not.
Finish(r) ==
    LET k == <<Head(req[r].order), req[r].endpoint>>
    IN  /\ req[r].at \in {"answered", "failed"}
        /\ \E p \in Protocols :
               \/ UNCHANGED records
               \/ req[r].at = "answered" /\ Note(k, OnPassiveSuccess(records[k], p))
               \/ req[r].at = "failed" /\ Note(k, OnPassiveFailure(records[k], p))
        /\ req' = [req EXCEPT ![r] = Idle]
        /\ UNCHANGED balancer

----------------------------------------------------------------------------
\* The ticker fires; the pools are those of the routes, one for each set of
\* cluster names, and none for an HTTP/3 listener (collect_active_probe_pools),
\* whose round ends at once.
Tick(elapsed) ==
    /\ probe.at = "wait"
    /\ config.probe_pools /= <<>>
    /\ probe' = [Waiting EXCEPT !.at = "advance", !.elapsed = elapsed, !.pools = config.probe_pools]
    /\ UNCHANGED records

AdvanceTime ==
    /\ probe.at = "advance"
    /\ probe' = [probe EXCEPT !.at = "list"]
    /\ records' = [k \in Keys |-> IF k \in Members /\ k[1] \in Range(Head(probe.pools))
                                  THEN Aged(records[k], probe.elapsed) ELSE records[k]]

NextPool ==
    IF Len(probe.pools) = 1 THEN Waiting
    ELSE [probe EXCEPT !.at = "advance", !.pools = Tail(@), !.targets = <<>>]

\* active_probe_targets
Targets(c) ==
    LET ids == SetToSortSeq(DOMAIN Candidates(c, TRUE), <)
    IN  [i \in DOMAIN ids |-> <<c, ids[i]>>]

ListTargets ==
    LET targets == FlattenSeq([i \in DOMAIN Head(probe.pools) |-> Targets(Head(probe.pools)[i])])
    IN  /\ probe.at = "list"
        /\ probe' = IF targets = <<>> THEN NextPool
                    ELSE [probe EXCEPT !.at = "probe", !.targets = targets]
        /\ UNCHANGED records

\* MUTANT: the result goes to the first destination, whoever was probed.
NotedKeysFirst(pool, e) == {<<Head(pool), e>>} \cap Members

\* The record a probe result is noted on: the result carries only the endpoint id,
\* and a weighted pool takes the first destination that would probe that id.
NotedKeys(pool, e) ==
    IF Len(pool) = 1 THEN {<<Head(pool), e>>}
    ELSE LET hits == {i \in DOMAIN pool : e \in DOMAIN Candidates(pool[i], TRUE)}
         IN  IF hits = {} THEN {} ELSE {<<pool[Min(hits)], e>>}

\* One connection attempt, and what is noted of it.
Probe ==
    LET k     == Head(probe.targets)
        noted == NotedKeys(Head(probe.pools), k[2])
    IN  /\ probe.at = "probe"
        /\ IF noted = {} THEN UNCHANGED records
           ELSE \E j \in noted :
                    Note(j, IF k \in up THEN OnActiveSuccess(records[j])
                            ELSE OnActiveFailure(records[j]))
        /\ probe' = IF Len(probe.targets) = 1 THEN NextPool
                    ELSE [probe EXCEPT !.targets = Tail(@)]
    
\* The endpoints are outside the program; which of them may fail is a bound.
Crash(k) ==
    /\ k \in up \cap config.may_fail
    /\ up' = up \ {k}
    /\ UNCHANGED <<records, balancer, req, probe>>

Restart(k) ==
    /\ k \in Members \ up
    /\ up' = up \cup {k}
    /\ UNCHANGED <<records, balancer, req, probe>>

----------------------------------------------------------------------------
\* The history a request's refusal is judged by.
Watch ==
    stayed' = [r \in Requests |->
        IF req'[r].at \notin {"read", "fallback"} THEN {}
        ELSE Selectable' \cap (IF req[r].at = "idle" THEN {k \in Members : k[1] \in DOMAIN config.route}
                               ELSE stayed[r])]

Do(A) == A /\ UNCHANGED <<config, watched>> /\ Watch

LoopStep ==
    /\ UNCHANGED <<balancer, req, up>>
    /\ \/ \E elapsed \in 1..MaxElapsed : Tick(elapsed)
       \/ AdvanceTime
       \/ ListTargets
       \/ Probe

RequestStep(r) == UNCHANGED <<probe, up>> /\ (Read(r) \/ ReadFallback(r) \/ Pick(r) \/ Finish(r))

Next ==
    \/ \E r \in Requests : Do(Select(r)) \/ Do(RequestStep(r))
    \/ Do(LoopStep)
    \/ \E k \in Keys : Do(Crash(k)) \/ Do(Restart(k))

\* The timer and the probe timeout bound a round of the probe loop.  Nothing is
\* assumed of requests, which need not come nor end, and of endpoints.
Fairness == WF_vars(Do(LoopStep))

Spec == Init /\ [][Next]_vars

FairSpec == Spec /\ Fairness

----------------------------------------------------------------------------
\* The balancer's and the registry's state, and the places a request and the
\* probe loop can be in.
TypeOK ==
    /\ config \in Configs
    /\ records \in [Keys -> HealthRecord \cup {NoRecord}]
    /\ \A k \in Keys : records[k] = NoRecord <=> k \notin Members
    /\ route_weights \in [DOMAIN config.route -> Int]
    /\ cursors \in [CursorKeys -> 0..Cardinality(Endpoints)]
    /\ \A q \in CursorKeys : DOMAIN weights[q] \subseteq config.members[q[1]]
    /\ up \subseteq Members /\ watched \in Members
    /\ \A r \in Requests :
           /\ req[r].at \in {"read", "fallback", "pick", "answered", "failed"} =>
                  req[r].order /= <<>> /\ Range(req[r].order) \subseteq DOMAIN config.route
           /\ req[r].at = "pick" => /\ req[r].seen /= <<>>
                                    /\ DOMAIN req[r].seen \subseteq config.members[Head(req[r].order)]
           /\ req[r].at \in {"answered", "failed"} => req[r].endpoint \in config.members[Head(req[r].order)]
    /\ probe.at /= "wait" => probe.pools /= <<>>
    /\ probe.at = "probe" => probe.targets /= <<>> /\ Range(probe.targets) \subseteq Members

\* select_weighted_route_destination_order: what the destinations are owed adds up
\* to nothing and never exceeds one round, whatever happens to a request
\* afterwards; so over a round every destination is first as often as its weight.
RouteShareKept ==
    /\ SumOf(route_weights) = 0
    /\ \A c \in DOMAIN route_weights :
           /\ route_weights[c] < SumOf(config.route)
           /\ -route_weights[c] < SumOf(config.route)

\* select_weighted_round_robin: candidates come, go and change their weight between
\* two requests, and their credit is dropped or kept.  What is dropped is not made
\* up for by the others, who may then be owed, or owe, more than a round; but the
\* error does not build up over any number of departures: it stays within a round
\* of the cluster's full weights for every other member.
EndpointCreditBounded ==
    \A q \in CursorKeys : \A e \in DOMAIN weights[q] :
        LET members == config.members[q[1]]
            drift   == (Cardinality(members) - 1) * SumOf([x \in members |-> NominalWeight[x]])
        IN  weights[q][e] <= drift /\ -weights[q][e] <= drift

\* select_backend_with_context: a request is refused for want of an endpoint only
\* if no endpoint of its route was selectable all the while, although the
\* destinations are asked one after another while probes change their health.
NoFalseRefusal ==
    [][\A r \in Requests :
           req[r].at \in {"read", "fallback"} /\ req'[r].at = "idle" => stayed[r] = {}]_vars

\* An HTTP/3 listener's pools are in no probe pool, and a probe result for an id
\* that two clusters of a pool share is noted on the first of them.
Probed(k) ==
    /\ \E i \in DOMAIN config.probe_pools : k[1] \in Range(config.probe_pools[i])
    /\ \A i \in DOMAIN config.probe_pools : k[1] \in Range(config.probe_pools[i]) =>
           \A c \in Range(config.probe_pools[i]) \ {k[1]} : <<c, k[2]>> \notin Members

\* A request to k is about to be noted as failed.
Blamed(k) == \E r \in Requests : req[r].at = "failed" /\ <<Head(req[r].order), req[r].endpoint>> = k

\* run_active_health_probe_loop: an endpoint that the loop probes under an id of
\* its own, that stays reachable and that no request blames any more, is healthy
\* from some time on, whatever it was before and whether or not it is sent
\* requests.
Recovers ==
    Probed(watched) /\ <>[](watched \in up /\ ~Blamed(watched))
        => <>[](watched \in up /\ records[watched].status = "Healthy")

\* Both round robins keep their promise of a share, whatever happens to requests
\* and endpoints between two turns.
SharesKept == TypeOK /\ RouteShareKept /\ EndpointCreditBounded
=============================================================================
