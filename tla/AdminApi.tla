------------------------------ MODULE AdminApi ------------------------------
(* Requests on the admin listener (admin_api.rs, admin_auth.rs, and the      *)
(* audit plan in supervisor.rs): source policy, authentication with replay   *)
(* protection, rate limit, the command, and the audit trail around it.  A    *)
(* request is a task; everything up to the first audit record is one step,   *)
(* since nothing is awaited after the policy has been read.  The emergency   *)
(* controls of the admin-api crate follow in the second half.                *)
EXTENDS Naturals, Sequences, FiniteSets, SequencesExt, Functions, TLC

CONSTANTS
    Commands,       \* requests, each served by a task of its own
    AuditCapacity,  \* max_retained_events
    TokenCost,      \* fixed-point units of one token
    BucketIdle      \* idle time after which a bucket is dropped

VARIABLES
    adminPolicy,    \* shared_policy
    nonces,         \* replay_state: <<actor, nonce>> -> when it was seen
    buckets,        \* rate_limit_state: identity -> [tokens, refilled]
    audit,          \* recent_admin_audit
    outcomeCode,    \* last_reload_outcome_code, last_restart_outcome_code
    command,        \* per request: where its task is
    effects,        \* what the commands have done, by request
    granted,        \* per identity: requests past the rate limit
    time

adminVars == <<adminPolicy, nonces, buckets, audit, outcomeCode, command, effects, granted, time>>

WriteActions == {"reload", "restart", "cache_purge", "cache_invalidate"}

(* AdminRequestAction::permission *)
Permission(action) ==
    IF action = "audit" THEN "audit" ELSE IF action \in WriteActions THEN "write" ELSE "read"

(* negotiate_admin_api_request: the version in the path and the one in the   *)
(* header, "none" where the request has none.                                *)
ApiMode(q) ==
    LET asked == {q.path, q.header} \ {"none"} IN
    IF asked = {} THEN "legacy" ELSE IF asked = {"v1"} THEN "v1" ELSE "unsupported"

(* resolve_secret_material: a file wins over the environment; an empty or    *)
(* unreadable one is an error, not a reason to look further.                 *)
Secret(source) ==
    CASE source.file \notin {"unset", "unreadable", "empty"} -> source.file
      [] source.file = "unset" /\ source.env # "unset" -> source.env
      [] OTHER -> "unavailable"

Fails(outcome) == [passes |-> FALSE, outcome |-> outcome, actor |-> "anonymous"]

MutantLiveNonces == Restrict(nonces, {k \in DOMAIN nonces : time - nonces[k] < adminPolicy.skew})

(* The nonces still remembered.                                              *)
LiveNonces == Restrict(nonces, {k \in DOMAIN nonces : time - nonces[k] <= adminPolicy.ttl})

(* authenticate_admin_request.  A bearer request carries a token; a signed   *)
(* one an actor, a timestamp, a nonce and the secret it was signed with.     *)
Authenticated(q, action) ==
    IF adminPolicy.auth = "bearer"
    THEN CASE q.token = "none" -> Fails("unauthenticated")
           [] Secret(adminPolicy.secret) = "unavailable" -> Fails("misconfigured")
           [] q.token # Secret(adminPolicy.secret) -> Fails("unauthenticated")
           [] Permission(action) \notin adminPolicy.permissions -> Fails("forbidden")
           [] OTHER -> [passes |-> TRUE, outcome |-> "ok", actor |-> "shared-bearer"]
    ELSE CASE q.actor \notin DOMAIN adminPolicy.operators -> Fails("unauthenticated")
           [] Permission(action) \notin adminPolicy.operators[q.actor].permissions -> Fails("forbidden")
           [] q.malformed = "timestamp" -> Fails("unauthenticated")
           [] (IF q.timestamp > time THEN q.timestamp - time ELSE time - q.timestamp) > adminPolicy.skew
                -> Fails("rejected")
           [] q.malformed = "nonce" -> Fails("unauthenticated")
           [] Secret(adminPolicy.operators[q.actor].secret) = "unavailable" -> Fails("misconfigured")
           [] q.signedWith # Secret(adminPolicy.operators[q.actor].secret) -> Fails("unauthenticated")
           [] <<q.actor, q.nonce>> \in DOMAIN LiveNonces -> Fails("replay_rejected")
           [] OTHER -> [passes |-> TRUE, outcome |-> "ok", actor |-> q.actor]

(* The replay check is reached, and prunes, only with a good signature.      *)
NoncesAfter(q, verdict) ==
    IF adminPolicy.auth = "bearer" \/ verdict.outcome \notin {"ok", "replay_rejected"} THEN nonces
    ELSE IF verdict.passes THEN (<<q.actor, q.nonce>> :> time) @@ LiveNonces ELSE LiveNonces

(* consume_admin_rate_limit up to the decision: idle buckets are dropped,    *)
(* the identity's bucket is filled up for the time since the last request.   *)
Refilled(identity) ==
    LET live == Restrict(buckets, {i \in DOMAIN buckets : time - buckets[i].refilled <= BucketIdle})
        full == [tokens |-> adminPolicy.burst * TokenCost, refilled |-> time]
        bucket == IF identity \in DOMAIN live THEN live[identity] ELSE full
        tokens == bucket.tokens + (time - bucket.refilled) * adminPolicy.refill
    IN (identity :> [full EXCEPT !.tokens = IF tokens > @ THEN @ ELSE tokens]) @@ live

HasToken(table, identity) == table[identity].tokens >= TokenCost

(* record_admin_audit: the oldest events beyond the capacity are dropped.    *)
Recorded(r, outcome, code) ==
    LET all == Append(audit, [request |-> r, outcome |-> outcome, code |-> code])
    IN IF Len(all) > AuditCapacity THEN Tail(all) ELSE all

-----------------------------------------------------------------------------
AdminInit(policy) ==
    /\ adminPolicy = policy
    /\ nonces = <<>> /\ buckets = <<>> /\ audit = <<>>
    /\ outcomeCode = [a \in {"reload", "restart"} |-> <<"not_requested">>]
    /\ command = [r \in Commands |-> [phase |-> "none"]]
    /\ effects = <<>> /\ granted = <<>>
    /\ time = 0

Admits(verdict, table, identity) == verdict.passes /\ HasToken(table, identity)

(* The head of handle_workspace_admin_connection: from the policy read to    *)
(* the decision whether the command runs.                                    *)
Receive(r, q) ==
    /\ command[r].phase = "none"
    /\ LET verdict == Authenticated(q, q.action)
           identity == <<q.source, verdict.actor, adminPolicy.auth>>
           table == Refilled(identity)
           listed == adminPolicy.sources = {} \/ q.source \in adminPolicy.sources
           begun == [request |-> q, mode |-> ApiMode(q), actor |-> verdict.actor]
       IN \/ /\ ~listed
             /\ command' = [command EXCEPT ![r] = begun @@ [phase |-> "denied", outcome |-> "denied"]]
             /\ UNCHANGED <<nonces, buckets, granted>>
          \/ /\ listed /\ ~verdict.passes
             /\ nonces' = NoncesAfter(q, verdict)
             /\ command' = [command EXCEPT ![r] = begun @@ [phase |-> "denied", outcome |-> verdict.outcome]]
             /\ UNCHANGED <<buckets, granted>>
          \/ /\ listed /\ verdict.passes /\ ~Admits(verdict, table, identity)
             /\ nonces' = NoncesAfter(q, verdict)
             /\ buckets' = table
             /\ command' = [command EXCEPT ![r] = begun @@ [phase |-> "denied", outcome |-> "rate_limited"]]
             /\ UNCHANGED granted
          \/ /\ listed /\ Admits(verdict, table, identity)
             /\ nonces' = NoncesAfter(q, verdict)
             /\ buckets' = [table EXCEPT ![identity].tokens = @ - TokenCost]
             /\ granted' = (identity :> (IF identity \in DOMAIN granted THEN granted[identity] + 1 ELSE 1)) @@ granted
             /\ command' = [command EXCEPT ![r] = begun @@
                   [phase |-> IF ApiMode(q) = "unsupported" THEN "answering" ELSE "accepted",
                    outcome |-> IF ApiMode(q) = "unsupported" THEN "failed" ELSE "ok"]]
    /\ UNCHANGED <<adminPolicy, audit, outcomeCode, effects, time>>

(* A denial is recorded first and answered after.                            *)
RecordDenial(r) ==
    /\ command[r].phase = "denied"
    /\ audit' = Recorded(r, command[r].outcome, <<command[r].request.action, command[r].outcome>>)
    /\ command' = [command EXCEPT ![r].phase = "done"]
    /\ UNCHANGED <<adminPolicy, nonces, buckets, outcomeCode, effects, granted, time>>

Lifecycle == {"reload", "restart"}

(* Every other command: it takes effect, and its outcome is kept for the     *)
(* record that follows the answer.                                           *)
Serve(r, outcome) ==
    /\ command[r].phase = "accepted" /\ command[r].request.action \notin Lifecycle
    /\ outcome \in (CASE command[r].request.action = "readyz" -> {"served", "degraded"}
                      [] command[r].request.action = "validate" -> {"served", "failed"}
                      [] command[r].request.action = "cache_purge" -> {"executed", "degraded", "failed"}
                      [] command[r].request.action = "cache_invalidate" -> {"executed", "duplicate", "failed"}
                      [] command[r].request.action = "unknown" -> {"not_found"}
                      [] OTHER -> {"served"})
    /\ effects' = (r :> outcome) @@ effects
    /\ command' = [command EXCEPT ![r].phase = "answering", ![r].outcome = outcome]
    /\ UNCHANGED <<adminPolicy, nonces, buckets, audit, outcomeCode, granted, time>>

(* describe_reload_audit_plan, describe_restart_audit_plan and the record    *)
(* that the operation has started; the plan may be unavailable.              *)
Start(r, plan) ==
    /\ command[r].phase = "accepted" /\ command[r].request.action \in Lifecycle
    /\ audit' = Recorded(r, "started", <<"started", plan>>)
    /\ command' = [command EXCEPT ![r] = [plan |-> plan] @@ [@ EXCEPT !.phase = "started"]]
    /\ UNCHANGED <<adminPolicy, nonces, buckets, outcomeCode, effects, granted, time>>

(* success_code and failure_code and their restart twins: what the plan of   *)
(* this request says of the result; without a plan the generic codes.        *)
PlanCode(action, result, plan) ==
    CASE plan = "unknown" -> <<IF result = "refused" THEN "failed" ELSE result, "generic">>
      [] result = "timed_out" -> <<"timed_out", "overlap">>
      [] result = "applied" -> <<"applied", IF plan = "overlap" THEN plan ELSE "in_place">>
      [] OTHER -> <<"failed", IF action = "restart" /\ plan = "overlap" THEN "in_place" ELSE plan>>

(* reload and warm_restart under the reload guard.  An early error leaves    *)
(* the shared code alone; otherwise the supervisor stores its own code, of   *)
(* the plan it made itself when it restarts.                                 *)
Apply(r, result, plan) ==
    /\ command[r].phase = "started"
    /\ LET action == command[r].request.action IN
       outcomeCode' = IF result = "refused" THEN outcomeCode
                      ELSE [outcomeCode EXCEPT ![action] =
                              IF action = "restart" THEN PlanCode(action, result, plan) ELSE <<result, "generic">>]
    /\ effects' = (r :> result) @@ effects
    /\ command' = [command EXCEPT ![r].phase = "applied",
                                  ![r].outcome = IF result \in {"applied", "timed_out"} THEN "executed" ELSE "failed"]
    /\ UNCHANGED <<adminPolicy, nonces, buckets, audit, granted, time>>

(* The handler replaces the shared code by the one of its own plan, then     *)
(* answers.                                                                  *)
StoreCode(r) ==
    /\ command[r].phase = "applied"
    /\ outcomeCode' = [outcomeCode EXCEPT ![command[r].request.action] =
            PlanCode(command[r].request.action, effects[r], command[r].plan)]
    /\ command' = [command EXCEPT ![r].phase = "answering"]
    /\ UNCHANGED <<adminPolicy, nonces, buckets, audit, effects, granted, time>>

(* The answer.  A client that is gone ends the task there, before the final  *)
(* record.                                                                   *)
Answer(r, delivered) ==
    /\ command[r].phase = "answering"
    /\ command' = [command EXCEPT ![r].phase = IF delivered THEN "answered" ELSE "done"]
    /\ UNCHANGED <<adminPolicy, nonces, buckets, audit, outcomeCode, effects, granted, time>>

(* The final record; a lifecycle command reads its code from the shared      *)
(* slot.                                                                     *)
RecordOutcome(r) ==
    /\ command[r].phase = "answered"
    /\ LET action == command[r].request.action IN
       audit' = Recorded(r, command[r].outcome,
                         IF action \in Lifecycle THEN outcomeCode[action] ELSE <<action, command[r].outcome>>)
    /\ command' = [command EXCEPT ![r].phase = "done"]
    /\ UNCHANGED <<adminPolicy, nonces, buckets, outcomeCode, effects, granted, time>>

(* A reload that is applied in place replaces the policy; replay and rate    *)
(* limit state stay.                                                         *)
ChangePolicy(policy) ==
    /\ adminPolicy' = policy
    /\ UNCHANGED <<nonces, buckets, audit, outcomeCode, command, effects, granted, time>>

AdminTick ==
    /\ time' = time + 1
    /\ UNCHANGED <<adminPolicy, nonces, buckets, audit, outcomeCode, command, effects, granted>>

CommandStep(r) ==
    \/ RecordDenial(r) \/ StoreCode(r) \/ RecordOutcome(r)
    \/ \E outcome \in {"served", "degraded", "executed", "duplicate", "failed", "not_found"} : Serve(r, outcome)
    \/ \E plan \in {"unknown", "blocked", "overlap", "in_place"} : Start(r, plan)
    \/ \E result \in {"applied", "timed_out", "failed", "refused"}, plan \in {"overlap", "in_place"} :
          Apply(r, result, plan)
    \/ \E delivered \in BOOLEAN : Answer(r, delivered)

-----------------------------------------------------------------------------
RecordsOf(r) == {i \in 1..Len(audit) : audit[i].request = r}

(* The trail while nothing has been evicted: a denied request is recorded    *)
(* whatever becomes of its client and has no effect; a reload or restart     *)
(* that was tried has its started record; and a request never has two final  *)
(* records.                                                                  *)
TrailKept ==
    Len(audit) < AuditCapacity =>
        \A r \in Commands :
            LET own == {audit[i].outcome : i \in RecordsOf(r)} IN
            /\ Cardinality({i \in RecordsOf(r) : audit[i].outcome # "started"}) <= 1
            /\ (r \in DOMAIN effects /\ command[r].request.action \in Lifecycle) => "started" \in own
            /\ (command[r].phase = "done" /\ r \notin DOMAIN effects /\ command[r].mode # "unsupported")
                  => own = {command[r].outcome}

(* A signed request is let through at most once while nonces are remembered  *)
(* for longer than a timestamp can stay acceptable.                          *)
SignedOnce ==
    adminPolicy.auth = "signed_headers" /\ adminPolicy.ttl >= 2 * adminPolicy.skew =>
        \A r, s \in Commands :
            (/\ r # s /\ "actor" \in DOMAIN command[r] /\ "actor" \in DOMAIN command[s]
             /\ command[r].outcome \notin {"denied", "replay_rejected", "unauthenticated", "rejected",
                                          "forbidden", "misconfigured"}
             /\ command[s].outcome \notin {"denied", "replay_rejected", "unauthenticated", "rejected",
                                          "forbidden", "misconfigured"})
              => command[r].request # command[s].request

(* The token bucket: over the whole time an identity gets at most its burst  *)
(* and what has been refilled since, provided that an idle bucket would have *)
(* been full by the time it is dropped.                                      *)
RateBound ==
    BucketIdle * adminPolicy.refill >= adminPolicy.burst * TokenCost =>
        \A identity \in DOMAIN granted :
            granted[identity] * TokenCost <= adminPolicy.burst * TokenCost + time * adminPolicy.refill

-----------------------------------------------------------------------------
(* The authenticated emergency controls: AdminAuthService (admin-api         *)
(* auth.rs), AbuseProtectionAdminService (abuse_control.rs) and the          *)
(* EmergencyProtectionController they drive (emergency_protection.rs).       *)
CONSTANTS
    Credentials,    \* sequence of [token, principal, secret, role]
    MaxSwitches,    \* MAX_SWITCH_HISTORY
    MaxEvents,      \* MAX_STORED_EVENTS
    MaxAudit        \* MAX_AUDIT_HISTORY

VARIABLES
    mode,       \* the controller: active mode, event counts and recent events,
    controller, \*   switch history and metrics
    service,    \* the admin service: history and metrics
    auth        \* the auth service: audit history and metrics

abuseVars == <<mode, controller, service, auth>>

Modes == <<"baseline", "elevated", "lockdown">>

Rank(m) == CHOOSE i \in 1..3 : Modes[i] = m

(* validate_credentials *)
ValidCredentials(list) ==
    /\ \A i \in 1..Len(list) : list[i].token # "" /\ list[i].principal # "" /\ list[i].secret # ""
    /\ \A i, j \in 1..Len(list) : i # j => list[i].token # list[j].token /\ list[i].secret # list[j].secret

(* AdminRole::allows *)
Allows(role, permission) ==
    CASE role = "viewer" -> permission = "read"
      [] role = "operator" -> permission \in {"read", "rollout", "emergency", "forensics"}
      [] OTHER -> TRUE

(* Append to a history of bounded length, the oldest entry gives way.        *)
Pushed(history, entry, bound) ==
    Append(IF Len(history) = bound THEN Tail(history) ELSE history, entry)

AbuseInit ==
    /\ mode = "baseline"
    /\ controller = [counts |-> <<>>, events |-> <<>>, switches |-> <<>>,
                     applied |-> 0, rejected |-> 0, exported |-> 0, failed |-> 0]
    /\ service = [history |-> <<>>, applied |-> 0, rejected |-> 0, exported |-> 0, failed |-> 0]
    /\ auth = [audit |-> <<>>, succeeded |-> 0, failures |-> 0, denied |-> 0, recorded |-> 0]

Holder(secret) == {i \in 1..Len(Credentials) : Credentials[i].secret = secret}

(* authenticate and authorize: every verdict is counted and audited.         *)
Authorized(secret, permission) ==
    /\ Holder(secret) # {}
    /\ \A i \in Holder(secret) : Allows(Credentials[i].role, permission)

AuthAfter(secret, permission) ==
    IF Holder(secret) = {}
    THEN [auth EXCEPT !.failures = @ + 1, !.recorded = @ + 1,
                      !.audit = Pushed(@, <<"authentication_failed", "nobody">>, MaxAudit)]
    ELSE LET who == Credentials[CHOOSE i \in Holder(secret) : TRUE]
             verdict == IF Allows(who.role, permission) THEN "authorized" ELSE "denied"
         IN [auth EXCEPT !.succeeded = @ + 1, !.recorded = @ + 2,
                         !.denied = IF verdict = "denied" THEN @ + 1 ELSE @,
                         !.audit = Pushed(Pushed(@, <<"authenticated", who.principal>>, MaxAudit),
                                          <<verdict, who.principal>>, MaxAudit)]

(* switch_mode_at refuses to relax without approval.                         *)
Relaxes(target, allow) == Rank(target) < Rank(mode) /\ ~allow

(* AdminAuthService::switch_emergency_mode with a well-formed request.       *)
SwitchMode(secret, target, allow) ==
    /\ auth' = AuthAfter(secret, "emergency")
    /\ IF ~Authorized(secret, "emergency") THEN UNCHANGED <<mode, controller, service>>
       ELSE IF Relaxes(target, allow)
       THEN /\ controller' = [controller EXCEPT !.rejected = @ + 1]
            /\ service' = [service EXCEPT !.rejected = @ + 1,
                             !.history = Append(@, [result |-> "rejected", from |-> mode, to |-> mode])]
            /\ UNCHANGED mode
       ELSE LET result == IF target = mode THEN "unchanged" ELSE "applied"
                entry == [result |-> result, from |-> mode, to |-> target]
            IN /\ mode' = target
               /\ controller' = [controller EXCEPT
                     !.applied = IF result = "applied" THEN @ + 1 ELSE @,
                     !.switches = Pushed(@, entry @@ [allow |-> allow], MaxSwitches)]
               /\ service' = [service EXCEPT !.applied = IF result = "applied" THEN @ + 1 ELSE @,
                                             !.history = Append(@, entry)]

(* The operations of other services behind authorize (their effects are in   *)
(* the control-plane modules), and requests that validate_actor_reason or    *)
(* the bundle name check refuses: only the authorization leaves a trace.     *)
Authorize(secret, permission) ==
    /\ auth' = AuthAfter(secret, permission)
    /\ UNCHANGED <<mode, controller, service>>

(* export_forensics: the controller writes its artifact, then the support    *)
(* bundle may fail, which leaves no trace in the service.                    *)
ExportForensics(secret, limit, bundled) ==
    /\ auth' = AuthAfter(secret, "forensics")
    /\ IF ~Authorized(secret, "forensics") THEN UNCHANGED <<controller, service>>
       ELSE IF limit = 0
       THEN /\ controller' = [controller EXCEPT !.failed = @ + 1]
            /\ service' = [service EXCEPT !.failed = @ + 1,
                             !.history = Append(@, [result |-> "rejected", from |-> mode, to |-> mode])]
       ELSE /\ controller' = [controller EXCEPT !.exported = @ + 1]
            /\ service' = IF ~bundled THEN service
                          ELSE [service EXCEPT !.exported = @ + 1,
                                  !.history = Append(@, [result |-> "exported", from |-> mode, to |-> mode])]
    /\ UNCHANGED mode

(* record_abuse_event_at: counted for good, kept for a while.                *)
RecordEvent(category) ==
    /\ controller' = [controller EXCEPT
          !.counts = (category :> (IF category \in DOMAIN @ THEN @[category] + 1 ELSE 1)) @@ @,
          !.events = Pushed(@, category, MaxEvents)]
    /\ UNCHANGED <<mode, service, auth>>

-----------------------------------------------------------------------------
(* The protection is relaxed only by an authorized principal who asked for   *)
(* relaxation explicitly, and the switch shows in both histories.            *)
RelaxedOnPurpose ==
    [][Rank(mode') < Rank(mode) =>
         /\ Last(controller'.switches) = [result |-> "applied", from |-> mode, to |-> mode', allow |-> TRUE]
         /\ Last(service'.history) = [result |-> "applied", from |-> mode, to |-> mode']
         /\ Last(auth'.audit)[1] = "authorized"]_abuseVars

(* Controller and admin service tell the same story: the service's history   *)
(* is a chain of modes that ends in the active one, both count the same      *)
(* switches and rejections, and the service never reports more exports than  *)
(* the controller made.                                                      *)
HistoriesAgree ==
    LET h == service.history IN
    /\ \A i \in 1..Len(h) : h[i].from = (IF i = 1 THEN "baseline" ELSE h[i - 1].to)
    /\ mode = IF h = <<>> THEN "baseline" ELSE Last(h).to
    /\ service.applied = controller.applied /\ service.rejected = controller.rejected
    /\ service.failed = controller.failed /\ service.exported <= controller.exported
    /\ Len(h) = service.rejected + service.failed + service.exported + service.applied
                  + Cardinality({i \in 1..Len(h) : h[i].result = "unchanged"})
=============================================================================
