---------------------------- MODULE RequestAuth ----------------------------
(***************************************************************************)
(* The authentication and authorization a request passes once its upstream *)
(* has been selected (crates/runtime/src/l7_auth.rs, the external          *)
(* authorization hook of extension_surface.rs, and request_auth.rs of      *)
(* http1_proxy and http2_proxy): a bearer token checked with keys read     *)
(* from a file and cached, a call to an authorization service whose answer *)
(* may be mapped into request headers, the identity of the upstream, and   *)
(* authorization rules over the headers.                                   *)
(*                                                                         *)
(* Requests run concurrently and share the key cache of the policy.  The   *)
(* cache is looked at under its read lock and replaced under its write     *)
(* lock, the file being read in between.  Time is counted in ticks, which  *)
(* are long compared with reading the file.  A header name occurs at most  *)
(* once in a request.                                                      *)
(***************************************************************************)
EXTENDS Integers, Sequences, FiniteSets, FiniteSetsExt

CONSTANTS
    AuthTasks,          \* requests in progress at the same time
    KeyNames,           \* the signing keys there are
    KeyFiles,           \* what the JWKS file may hold; {} stands for a file that cannot be used
    AuthPolicies,       \* policies of a destination
    AuthRequests,       \* requests, as [token, headers]
    AuthContexts        \* contexts the authorization service may send

(* refresh_secs is a u64, the mappings are a list.                         *)
ASSUME AuthAssumption ==
    /\ \A file \in KeyFiles : \A entry \in file : entry.key \in KeyNames
    /\ \A policy \in AuthPolicies :
           /\ policy.jwt.source = "file" => policy.jwt.refresh_secs \in Nat
           /\ policy.external.bound =>
                  /\ Len(policy.external.mappings) \in Nat
                  /\ DOMAIN policy.external.mappings = 1..Len(policy.external.mappings)

VARIABLES
    wall,               \* SystemTime::now(), in ticks
    auth_policy,        \* the policies in force for the selected destination
    key_file,           \* the keys the JWKS file holds; none when it cannot be used
    jwks_cache,         \* JwtFileKeyCache
    held,               \* when the file last held each key (history)
    checks              \* the requests in progress

authVars == <<wall, auth_policy, key_file, jwks_cache, held, checks>>

NoCheck == [pc |-> "idle"]

(* JwtAuthPolicyRuntime::from_config reads the file once.                  *)
AuthInit(policy, file) ==
    /\ wall = 0 /\ auth_policy = policy /\ key_file = file
    /\ jwks_cache = [keys |-> file, loaded_at |-> 0]
    /\ held = [k \in KeyNames |-> 0]
    /\ checks = [i \in AuthTasks |-> NoCheck]

Answer(i, status) == checks' = [checks EXCEPT ![i] = [@ EXCEPT !.pc = "answered", !.status = status]]

Continue(i, pc) == checks' = [checks EXCEPT ![i] = [@ EXCEPT !.pc = pc]]

AuthArrive(i, request) ==
    /\ checks[i].pc = "idle"
    /\ checks' = [checks EXCEPT ![i] =
           [pc |-> "jwt", token |-> request.token, headers |-> request.headers, keys |-> {},
            status |-> 0, heard |-> "none", told |-> <<>>, stale |-> 0]]
    /\ UNCHANGED <<wall, auth_policy, key_file, jwks_cache, held>>

----------------------------------------------------------------------------
(* The bearer token.                                                       *)
Jwt == auth_policy.jwt

MutantRefreshLate(loaded_at) == wall - loaded_at > Jwt.refresh_secs

jwks_refresh_due(loaded_at) ==
    Jwt.refresh_secs = 0 \/ wall - loaded_at >= Jwt.refresh_secs

(* Without a usable bearer token nothing is looked up; decode_header       *)
(* refuses what is not a token before the keys are asked for.              *)
Bearer(i) == checks[i].token.form = "bearer"

(* The keys of the token's kid, or all of them when none has it.           *)
Candidates(token, keys) ==
    LET same == {k \in keys : k.kid = token.kid} IN IF same = {} THEN keys ELSE same

validate_required_claims(token) == Jwt.required_claims \subseteq token.claims

(* External: decode() of the JWT library accepts a token signed by the key *)
(* for a configured issuer and audience that has not expired, with the     *)
(* configured leeway.                                                      *)
Decodes(token, entry) ==
    entry.key = token.key /\ token.addressed /\ token.exp + Jwt.clock_skew_secs >= wall

verify_token(token, keys) ==
    /\ \E entry \in Candidates(token, keys) : Decodes(token, entry)
    /\ validate_required_claims(token)

Verified(i, keys) ==
    IF verify_token(checks[i].token, keys)
    THEN checks' = [checks EXCEPT ![i] = [@ EXCEPT !.pc = "external",
                                                   !.stale = wall - held[checks[i].token.key]]]
    ELSE Answer(i, 401)

(* verify_route_destination_jwt_auth up to the look at the cache: keys     *)
(* that are inline or fresh are used at once.                              *)
VerifyJwt(i) ==
    /\ checks[i].pc = "jwt"
    /\ IF Jwt.source = "none" THEN Continue(i, "external")
       ELSE IF ~Bearer(i) THEN Answer(i, 401)
       ELSE IF Jwt.source = "inline" THEN Verified(i, Jwt.inline_keys)
       ELSE IF ~jwks_refresh_due(jwks_cache.loaded_at) THEN Verified(i, jwks_cache.keys)
       ELSE Continue(i, "read")
    /\ UNCHANGED <<wall, auth_policy, key_file, jwks_cache, held>>

(* The refresh reads the file without a lock; a file that cannot be used   *)
(* fails the request and leaves the cache as it is.                        *)
ReadKeyFile(i) ==
    /\ checks[i].pc = "read"
    /\ IF key_file = {} THEN Answer(i, 401)
       ELSE checks' = [checks EXCEPT ![i] = [@ EXCEPT !.pc = "write", !.keys = key_file]]
    /\ UNCHANGED <<wall, auth_policy, key_file, jwks_cache, held>>

StoreKeys(i) ==
    /\ checks[i].pc = "write"
    /\ jwks_cache' = [keys |-> checks[i].keys, loaded_at |-> wall]
    /\ Verified(i, checks[i].keys)
    /\ UNCHANGED <<wall, auth_policy, key_file, held>>

----------------------------------------------------------------------------
(* The authorization service.                                              *)
External == auth_policy.external

(* What became of the call: the service's decision with the context it     *)
(* sent, or why none was heard in time.                                    *)
ServiceReplies == {"allow", "deny", "not_200", "garbled", "refused", "late"}

(* authorize_http_request: anything but a 200 counts as unavailable, a 200 *)
(* without a decision as an invalid response.                              *)
authorize_http_request(reply) ==
    CASE reply = "allow" -> "allowed"
      [] reply = "deny" -> "denied"
      [] reply = "garbled" -> "invalid_response"
      [] OTHER -> "unavailable"

authorize_http_request_with_fail_open(reply) ==
    LET result == authorize_http_request(reply)
    IN  IF External.fail_open /\ result \in {"unavailable", "invalid_response"} THEN "open"
        ELSE result

Given(context) == {n \in DOMAIN External.mappings : External.mappings[n].source \in DOMAIN context}

Onto(context, header) == {n \in Given(context) : External.mappings[n].target = header}

(* The context values that are mapped replace the request's headers, one   *)
(* after the other, so the last mapping onto a header decides.             *)
Mapped(headers, context) ==
    [h \in DOMAIN headers \cup {External.mappings[n].target : n \in Given(context)} |->
         IF Onto(context, h) = {} THEN headers[h]
         ELSE context[External.mappings[Max(Onto(context, h))].source]]

resolve_context_headers(context) ==
    \A n \in DOMAIN External.mappings :
        External.mappings[n].required => External.mappings[n].source \in DOMAIN context

RefusedWith == [denied |-> 403, unavailable |-> 503, invalid_response |-> 502]

(* enforce_route_destination_external_auth: a request that failed open has *)
(* no context, so a required mapping still refuses it.                     *)
ExternalAuth(i, reply, context) ==
    LET result == authorize_http_request_with_fail_open(reply)
        given == IF result = "allowed" THEN context ELSE <<>>
        heard == IF reply \in {"allow", "deny"} THEN reply ELSE "none"
    IN  /\ checks[i].pc = "external" /\ External.bound
        /\ IF result \in DOMAIN RefusedWith THEN Answer(i, RefusedWith[result])
           ELSE IF ~resolve_context_headers(given) THEN Answer(i, 403)
           ELSE checks' = [checks EXCEPT ![i] =
                    [@ EXCEPT !.pc = "identity", !.heard = heard, !.told = given,
                              !.headers = Mapped(checks[i].headers, given)]]
        /\ UNCHANGED <<wall, auth_policy, key_file, jwks_cache, held>>

NoExternalAuth(i) ==
    /\ checks[i].pc = "external" /\ ~External.bound
    /\ Continue(i, "identity")
    /\ UNCHANGED <<wall, auth_policy, key_file, jwks_cache, held>>

----------------------------------------------------------------------------
(* The identity of the upstream.  No transport hands it over yet, so a     *)
(* bound policy always refuses, after looking at its trust bundle.         *)
UpstreamIdentity(i) ==
    /\ checks[i].pc = "identity"
    /\ IF auth_policy.identity_bound THEN Answer(i, 503) ELSE Continue(i, "authorization")
    /\ UNCHANGED <<wall, auth_policy, key_file, jwks_cache, held>>

----------------------------------------------------------------------------
(* Authorization rules.                                                    *)
Tokens(headers, names) == UNION {headers[n] : n \in names \cap DOMAIN headers}

header_claim_present(headers, claim) ==
    \E name \in auth_policy.claim_headers[claim] \cap DOMAIN headers : headers[name] # {}

rule_matches(headers, rule) ==
    /\ rule.any_claims = {} \/ \E c \in rule.any_claims : header_claim_present(headers, c)
    /\ rule.required_scopes \subseteq Tokens(headers, {"x-auth-scopes", "x-auth-scope"})
    /\ rule.required_roles \subseteq Tokens(headers, {"x-auth-roles", "x-auth-role"})

(* The first rule that matches decides, else the default.                  *)
authorize_headers(headers) ==
    LET rules == auth_policy.rules
        matching == {n \in DOMAIN rules : rule_matches(headers, rules[n])}
    IN  IF matching = {} THEN auth_policy.default_decision ELSE rules[Min(matching)].action

Authorization(i) ==
    /\ checks[i].pc = "authorization"
    /\ IF auth_policy.authorization_bound /\ authorize_headers(checks[i].headers) = "deny"
       THEN Answer(i, 403) ELSE Continue(i, "forwarded")
    /\ UNCHANGED <<wall, auth_policy, key_file, jwks_cache, held>>

AuthDone(i) ==
    /\ checks[i].pc \in {"answered", "forwarded"}
    /\ checks' = [checks EXCEPT ![i] = NoCheck]
    /\ UNCHANGED <<wall, auth_policy, key_file, jwks_cache, held>>

----------------------------------------------------------------------------
(* The environment: the file is rewritten, time passes.                    *)
Holding(file, at) ==
    [k \in KeyNames |-> IF \E entry \in file : entry.key = k THEN at ELSE held[k]]

RewriteKeyFile(file) ==
    /\ file # key_file /\ key_file' = file /\ held' = Holding(file, wall)
    /\ UNCHANGED <<wall, auth_policy, jwks_cache, checks>>

AuthTick ==
    /\ \A i \in AuthTasks : checks[i].pc \notin {"read", "write"}
    /\ wall' = wall + 1 /\ held' = Holding(key_file, wall + 1)
    /\ UNCHANGED <<auth_policy, key_file, jwks_cache, checks>>

AuthStep(i) ==
    \/ VerifyJwt(i) \/ ReadKeyFile(i) \/ StoreKeys(i) \/ NoExternalAuth(i)
    \/ UpstreamIdentity(i) \/ Authorization(i) \/ AuthDone(i)

AuthNext ==
    \/ \E i \in AuthTasks :
           \/ AuthStep(i)
           \/ \E request \in AuthRequests : AuthArrive(i, request)
           \/ \E reply \in ServiceReplies, context \in AuthContexts : ExternalAuth(i, reply, context)
    \/ \E file \in KeyFiles : RewriteKeyFile(file)
    \/ AuthTick

(* A policy whose keys are in a file is not built without a usable file.   *)
AuthSpec ==
    /\ \E policy \in AuthPolicies, file \in KeyFiles :
           (policy.jwt.source = "file" => file # {}) /\ AuthInit(policy, file)
    /\ [][AuthNext]_authVars

----------------------------------------------------------------------------
AuthTypeOK ==
    /\ wall \in Nat /\ jwks_cache.loaded_at \in 0..wall
    /\ \A i \in AuthTasks :
           checks[i].pc \in {"idle", "jwt", "read", "write", "external", "identity", "authorization",
                             "forwarded", "answered"}
    /\ \A k \in KeyNames : held[k] \in 0..wall

(* A token is honoured only with a key the file held less than one refresh *)
(* interval ago, however the requests that refresh the cache and the       *)
(* rewriting of the file interleave, and also after the file has become    *)
(* unusable (l7_auth.rs, active_keys; docs/configuration.md:452-453).      *)
KeyHonouredBriefly ==
    \A i \in AuthTasks :
        checks[i].pc \in {"external", "identity", "authorization", "forwarded"} /\ Jwt.source = "file"
            => checks[i].stale < Max({Jwt.refresh_secs, 1})

(* A request under external authorization is forwarded only when the       *)
(* service allowed it, or when no decision was heard and the policy fails  *)
(* open (authorize_http_request_with_fail_open).                           *)
FailsOpenOnlyUnheard ==
    \A i \in AuthTasks :
        checks[i].pc = "forwarded" /\ External.bound =>
            checks[i].heard = "allow" \/ (External.fail_open /\ checks[i].heard = "none")

(* What the authorization rules and the upstream see in a header that a    *)
(* required mapping fills is what the service said of this request under a *)
(* mapping onto that header, never what the client sent                    *)
(* (resolve_context_headers, rule_matches).                                *)
ContextIsServices ==
    \A i \in AuthTasks :
        checks[i].pc \in {"authorization", "forwarded"} /\ External.bound =>
            \A n \in {k \in DOMAIN External.mappings : External.mappings[k].required} :
                \E k \in Onto(checks[i].told, External.mappings[n].target) :
                    checks[i].headers[External.mappings[n].target] = checks[i].told[External.mappings[k].source]

(* A request is let through on a key that is or just was in the file, and  *)
(* on what the external service said, or on its silence where that is      *)
(* allowed.                                                                *)
AuthSound == AuthTypeOK /\ KeyHonouredBriefly /\ FailsOpenOnlyUnheard /\ ContextIsServices
=============================================================================
