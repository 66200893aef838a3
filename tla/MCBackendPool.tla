--------------------------- MODULE MCBackendPool ---------------------------
\* BackendPool for TLC: the listeners to consider.
EXTENDS BackendPool

MCNominalWeight == (1 :> 1) @@ (2 :> 4) @@ (3 :> 1)

\* One cluster, probed for itself.
OneCluster(members, algorithm, include_unhealthy, affinity, hints, may_fail) ==
    [members           |-> (1 :> members) @@ (2 :> {}),
     route             |-> 1 :> 1,
     probe_pools       |-> <<<<1>>>>,
     algorithm         |-> algorithm,
     include_unhealthy |-> include_unhealthy,
     affinity          |-> affinity,
     hints             |-> hints,
     may_fail          |-> {1} \X may_fail]

\* A route split over two clusters, of one endpoint each.
SplitRoute(first, second, pools, may_fail) ==
    [members           |-> (1 :> {first}) @@ (2 :> {second}),
     route             |-> (1 :> 1) @@ (2 :> 4),
     probe_pools       |-> pools,
     algorithm         |-> "RoundRobin",
     include_unhealthy |-> FALSE,
     affinity          |-> FALSE,
     hints             |-> {<<>>},
     may_fail          |-> may_fail]

\* Two endpoints under every algorithm, a third for the weighted one; split routes
\* with ids of their own and with one id in both clusters; an HTTP/3 listener.
MCConfigs ==
    {OneCluster({1, 2}, "RoundRobin", FALSE, FALSE, {<<>>}, {1, 2}),
     OneCluster({1, 2, 3}, "WeightedRoundRobin", FALSE, FALSE, {<<>>}, {2}),
     OneCluster({1, 2}, "PowerOfTwoChoices", TRUE, TRUE, {<<>>, <<{2}>>}, {1, 2}),
     SplitRoute(1, 2, <<<<1, 2>>>>, {<<1, 1>>, <<2, 2>>}),
     SplitRoute(1, 1, <<<<1, 2>>>>, {<<2, 1>>}),
     SplitRoute(1, 2, <<>>, {<<1, 1>>, <<2, 2>>})}
============================================================================
