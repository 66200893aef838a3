---------------------------- MODULE MCAdmission ----------------------------
(***************************************************************************)
(* Small instances of everything that decides whether work is admitted.  A *)
(* behaviour follows one mix: a listener with its connections, the local   *)
(* limits of a destination, the admin API, or the emergency controls.      *)
(***************************************************************************)
EXTENDS ListenerAdmission, LocalLimits, AdminApi

CONSTANTS
    Mixes           \* the part, its configuration and how often steps happen

VARIABLES budget

allVars == <<admissionVars, limitVars, adminVars, abuseVars, budget>>

Has(part) == budget.part = part

Use(kind) == budget[kind] > 0 /\ budget' = [budget EXCEPT ![kind] = @ - 1]

----------------------------------------------------------------------------
(* Peers: two hosts of one network, one of them written as a mapped        *)
(* address, and a host of another network.                                 *)
MCPeers == <<<<"v4", 1, 1>>, <<"mapped", 1, 2>>, <<"v4", 2, 1>>>>

MCFeatures == [f \in {"mirror", "compress"} |-> IF f = "mirror" THEN "best_effort" ELSE "default"]

MCThresholds == <<1, 2, 3>>

Spec1(limited, perSource, tracked, handshakes, managed) ==
    [limit |-> limited, quota |-> [perSource |-> perSource, tracked |-> tracked],
     handshakes |-> handshakes, managed |-> managed]

Preface(version, wellFormed, kind, transport, source) ==
    [version |-> version, wellFormed |-> wellFormed, command |-> kind,
     transport |-> transport, source |-> source]

NoPreface == Preface("disabled", TRUE, "local", "unknown", <<"v4", 9, 9>>)

MCPrefaces ==
    {NoPreface,
     Preface("v2", TRUE, "proxy", "tcp4", <<"v4", 2, 1>>), Preface("v2", TRUE, "local", "unknown", <<>>),
     Preface("v2", TRUE, "proxy", "udp4", <<>>), Preface("v1", TRUE, "proxy", "tcp4", <<"v4", 3, 1>>)}

Listening(kind, tls, mode0, spec, updates, prefaces, ticks, shutdowns) ==
    [part |-> "listener", kind |-> kind, tls |-> tls, proxy |-> mode0, spec |-> spec,
     specs |-> updates, reloads |-> updates # {}, updates |-> IF updates = {} THEN 0 ELSE 1,
     prefaces |-> prefaces, ticks |-> ticks, shutdowns |-> shutdowns]

ListenerMixes ==
    {Listening("public", FALSE, "disabled", Spec1(2, 1, 2, 1, FALSE), {}, {NoPreface}, 0, 1),
     Listening("public", TRUE, "disabled", Spec1(1, 2, 1, 1, TRUE), {}, {NoPreface}, 1, 0),
     Listening("public", FALSE, "v2", Spec1(1, 1, 2, 0, FALSE), {}, MCPrefaces \ {NoPreface}, 0, 0),
     Listening("admin", TRUE, "disabled", Spec1(1, 2, 2, 1, FALSE), {}, {NoPreface}, 0, 1),
     Listening("http3", TRUE, "disabled", Spec1(2, 1, 2, 0, TRUE), {}, {NoPreface}, 1, 0),
     Listening("public", TRUE, "disabled", Spec1(2, 1, 2, 1, FALSE),
               {Spec1(1, 2, 1, 2, TRUE)}, {NoPreface}, 0, 0)}

(* The reload that meets a rejected connection.                            *)
ReloadMixes ==
    {Listening("public", FALSE, "disabled", Spec1(3, 1, 3, 0, FALSE),
               {Spec1(3, 2, 3, 0, FALSE)}, {NoPreface}, 0, 0)}

MCListenerSpecs == UNION {{m.spec} \cup m.specs : m \in ListenerMixes \cup ReloadMixes}

----------------------------------------------------------------------------
Limiter(scope, keyKind, max, tracked) ==
    [scope |-> scope, keyKind |-> keyKind, max |-> max, tracked |-> tracked]

MCRates == <<Limiter("r1", "source_ip", 1, 2) @@ [window |-> 2]>>

MCCaps == <<Limiter("r1", "route_name", 2, 1), Limiter("c1", "source_ip", 1, 2)>>

Contexts ==
    {[source |-> 1, route |-> <<" ", "A">>, cluster |-> <<"b">>],
     [source |-> 2, route |-> <<"a", " ">>, cluster |-> <<"b">>],
     [source |-> 3, route |-> <<"a", "/", "a">>, cluster |-> <<" ">>]}

MCNames == UNION {{c.route, c.cluster} : c \in Contexts}

LimitMixes ==
    {[part |-> "limits", contexts |-> Contexts, replacements |-> 0, limitTicks |-> 1],
     [part |-> "limits", contexts |-> {c \in Contexts : c.source < 3}, replacements |-> 1, limitTicks |-> 2]}

----------------------------------------------------------------------------
Bearer ==
    [auth |-> "bearer", secret |-> [file |-> "unset", env |-> "s1"], permissions |-> {"read", "write"},
     sources |-> {}, burst |-> 1, refill |-> 1, skew |-> 1, ttl |-> 2]

Signed ==
    [auth |-> "signed_headers",
     operators |-> [a \in {"ann", "bob"} |->
        [permissions |-> IF a = "ann" THEN {"read", "write"} ELSE {"audit"},
         secret |-> IF a = "ann" THEN [file |-> "s1", env |-> "s2"] ELSE [file |-> "empty", env |-> "s2"]]],
     sources |-> {1}, burst |-> 2, refill |-> 1, skew |-> 1, ttl |-> 2]

Request(source, action, path, header) ==
    [source |-> source, action |-> action, path |-> path, header |-> header,
     token |-> "s1", actor |-> "ann", timestamp |-> 1, nonce |-> 1, signedWith |-> "s1", malformed |-> "none"]

BearerRequests ==
    {Request(1, "reload", "none", "none"), Request(1, "cache_purge", "v1", "none"),
     Request(1, "audit", "none", "none"), Request(2, "readyz", "v1", "v2"),
     [Request(1, "status", "none", "none") EXCEPT !.token = "none"]}

SignedRequests ==
    {Request(1, "restart", "v1", "v1"), Request(2, "status", "none", "none"),
     [Request(1, "reload", "none", "none") EXCEPT !.nonce = 2, !.timestamp = 2],
     [Request(1, "audit", "none", "none") EXCEPT !.actor = "bob"],
     [Request(1, "reload", "none", "none") EXCEPT !.signedWith = "s2"],
     [Request(1, "reload", "none", "none") EXCEPT !.malformed = "timestamp"],
     [Request(1, "reload", "none", "none") EXCEPT !.actor = "eve"]}

AdminMix(rules, requests, ticks, changes) ==
    [part |-> "admin", policy |-> rules, requests |-> requests, adminTicks |-> ticks, changes |-> changes]

OtherRequests ==
    {Request(1, a, "none", "none") : a \in {"healthz", "validate", "cache_invalidate", "unknown", "cache_purge"}}

AdminMixes ==
    {AdminMix(Bearer, BearerRequests, 2, 0),
     AdminMix([Bearer EXCEPT !.burst = 2], OtherRequests, 0, 0),
     AdminMix(Signed, SignedRequests, 2, 0),
     AdminMix(Signed, {Request(1, "restart", "v1", "v1")}, 1, 1)}

----------------------------------------------------------------------------
MCCredentials ==
    <<[token |-> "t1", principal |-> "vic", secret |-> "v", role |-> "viewer"],
      [token |-> "t2", principal |-> "ann", secret |-> "o", role |-> "operator"],
      [token |-> "t3", principal |-> "bob", secret |-> "a", role |-> "admin"]>>

AbuseMixes == {[part |-> "abuse", calls |-> 4]}

MCMixes == ListenerMixes \cup LimitMixes \cup AdminMixes \cup AbuseMixes

ASSUME ConfigurationsValid ==
    /\ ValidOverloadPolicy
    /\ \A i \in 1..Len(Rates) : ValidLimit(Rates[i])
    /\ \A i \in 1..Len(Caps) : ValidLimit(Caps[i])
    /\ ValidCredentials(Credentials)

----------------------------------------------------------------------------
IdleListener == Spec1(1, 1, 1, 1, FALSE)

Init ==
    /\ budget \in Mixes
    /\ IF Has("listener") THEN StartListener(budget.kind, budget.tls, budget.proxy, budget.spec)
                          ELSE StartListener("public", FALSE, "disabled", IdleListener)
    /\ LimitsInit
    /\ AdminInit(IF Has("admin") THEN budget.policy ELSE Bearer)
    /\ AbuseInit

UpdateSteps == WritePolicy \/ WriteProtection

DrainSteps == Drained \/ DrainTimeout

Listener ==
    /\ Has("listener")
    /\ \/ \E c \in Connections : (Accept(c) \/ TaskStep(c, budget.prefaces)) /\ UNCHANGED budget
       \/ \E spec \in budget.specs : BeginUpdate(spec) /\ Use("updates")
       \/ (UpdateSteps \/ DrainSteps) /\ UNCHANGED budget
       \/ Shutdown /\ Use("shutdowns")
       \/ Tick /\ Use("ticks")
    /\ UNCHANGED <<limitVars, adminVars, abuseVars>>

Limiting ==
    /\ Has("limits")
    /\ \/ \E r \in LimitRequests, c \in budget.contexts : AskRates(r, c) /\ UNCHANGED budget
       \/ \E r \in LimitRequests : LimitStep(r) /\ UNCHANGED budget
       \/ ReplaceLimiters /\ Use("replacements")
       \/ LimitTick /\ Use("limitTicks")
    /\ UNCHANGED <<admissionVars, adminVars, abuseVars>>

Administering ==
    /\ Has("admin")
    /\ \/ \E r \in Commands : /\ \A s \in Commands : command[s].phase = "none" => r <= s
                              /\ \E q \in budget.requests : Receive(r, q)
                              /\ UNCHANGED budget
       \/ \E r \in Commands : CommandStep(r) /\ UNCHANGED budget
       \/ ChangePolicy([adminPolicy EXCEPT !.burst = 1]) /\ Use("changes")
       \/ AdminTick /\ Use("adminTicks")
    /\ UNCHANGED <<admissionVars, limitVars, abuseVars>>

Emergency ==
    /\ Has("abuse") /\ Use("calls")
    /\ \E secret \in {"v", "o", "wrong"} :
          \/ \E target \in ToSet(Modes), allow \in BOOLEAN : SwitchMode(secret, target, allow)
          \/ \E limited \in {0, 1}, bundled \in BOOLEAN : ExportForensics(secret, limited, bundled)
          \/ \E permission \in {"read", "publish"} : Authorize(secret, permission)
          \/ secret = "o" /\ \E category \in {"quota", "anomaly"} : RecordEvent(category)
    /\ UNCHANGED <<admissionVars, limitVars, adminVars>>

Next == Listener \/ Limiting \/ Administering \/ Emergency

Task(c) == Has("listener") /\ TaskStep(c, budget.prefaces) /\ UNCHANGED <<limitVars, adminVars, abuseVars, budget>>

Updating == Has("listener") /\ UpdateSteps /\ UNCHANGED <<limitVars, adminVars, abuseVars, budget>>

(* The runtime keeps polling a task that can go on, a handshake or exchange *)
(* ends because the peer or a timeout ends it, and an update in progress    *)
(* goes on when its locks are free.                                         *)
Fairness ==
    /\ \A c \in Connections : WF_allVars(Task(c))
    /\ WF_allVars(Updating)

Spec == Init /\ [][Next]_allVars /\ Fairness

(* Without a reload every accepted connection ends and returns its slot,    *)
(* lease and permit: no task waits for ever for a slot another one holds.   *)
ConnectionsEnd ==
    (Has("listener") /\ ~budget.reloads) =>
        <>[](\A c \in Connections : conn[c].phase \in {"idle", "done"} /\ conn[c].lease = 0 /\ ~conn[c].slot)

(* No key gets more than its limits, however windows, evictions, refusals   *)
(* further down the chain and replaced limiters fall.                       *)
LimitsSound == LeasesExact /\ WindowBound

(* Operators answer for what they do: an effect has its record, a signed    *)
(* request its one effect, a key its rate and both histories one content.   *)
OperatorsSound == [](TrailKept /\ SignedOnce /\ RateBound /\ HistoriesAgree) /\ RelaxedOnPurpose
=============================================================================
