------------------------- MODULE MCHttp1Connection -------------------------
(* Model-checking instances of Http1Connection. *)
EXTENDS Http1Connection

Flags(breaker_on, budget_on, hierarchy_on, cache_on) ==
    [enforce_circuit_breaker |-> breaker_on, enforce_retry_budget |-> budget_on,
     enforce_timeout_hierarchy |-> hierarchy_on, response_cache |-> cache_on]

\* Breaker and retry budget; budget, deadlines and cache; breaker and deadlines.
MixedConfigs ==
    {Flags(TRUE, TRUE, FALSE, FALSE), Flags(FALSE, TRUE, TRUE, TRUE),
     Flags(TRUE, FALSE, TRUE, FALSE)}

DeadlineConfigs == {Flags(FALSE, FALSE, TRUE, FALSE)}
PlainConfigs == {Flags(FALSE, FALSE, FALSE, FALSE)}

Get(t) ==
    [body |-> FALSE, http10 |-> FALSE, keep_alive |-> TRUE, safe |-> TRUE, upgrade |-> FALSE,
     target |-> t]
Post(t) == [Get(t) EXCEPT !.body = TRUE, !.safe = FALSE]

\* A replayable GET, one that asks for an upgrade, a POST of an HTTP/1.0 client and
\* one to an HTTP/3 target.
MixedRequests ==
    {Get("h1"), [Get("h1") EXCEPT !.upgrade = TRUE],
     [Post("h1") EXCEPT !.http10 = TRUE, !.keep_alive = FALSE], Post("h3")}

GetRequests == {Get("h1")}
PostRequests == {Post("h1")}

MixedStatuses == {"Ok", "NotModified", "ServerError", "Switching", "Interim"}
FinalStatuses == {"Ok", "ServerError", "NotModified"}
============================================================================
