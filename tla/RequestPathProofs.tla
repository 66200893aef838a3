------------------------- MODULE RequestPathProofs -------------------------
(***************************************************************************)
(* Proofs about four stages on the way of a client's bytes, each a         *)
(* specification of its own: the authentication and authorization of a     *)
(* request (RequestAuth), the policy plugins and extensions that are asked *)
(* about it (PolicyPlugins), the session that relays bytes once a          *)
(* connection is a tunnel or passes through (ByteRelay), and the circuit   *)
(* breaker that admits it to its upstream (CircuitBreaker).  They hold for *)
(* any number of requests, keys, policies and plugins, and for every       *)
(* stream of bytes, size of a read and timeout.                            *)
(*                                                                         *)
(* None of the properties is inductive.  AuthSound needs that the keys of  *)
(* the cache were in the file when they were loaded, or later, and that a  *)
(* request which has read the file still holds what the file holds.        *)
(* PluginsSound needs that the failures a plugin has on record are those   *)
(* since its last answer or isolation, and that it stays isolated for the  *)
(* cooldown that its last trip started.  RelaySound needs what is kept of  *)
(* the bytes before the relay starts (the preface and what is unread make  *)
(* up the stream), that a direction which is not writing holds nothing     *)
(* back, and that one which is done has read everything.  CoolDown needs   *)
(* that the stamp of an open breaker is at most Skew older than the last   *)
(* failure it counted.                                                     *)
(***************************************************************************)
EXTENDS RequestAuth, PolicyPlugins, ByteRelay, CircuitBreaker, WellFoundedInduction, SequenceTheorems, TLAPS

----------------------------------------------------------------------------
(* The larger of two numbers, as the code's max.                           *)
LEMMA MaxOfTwo ==
  ASSUME NEW a \in Int, NEW b \in Int
  PROVE  Max({a, b}) \in Int /\ Max({a, b}) \in {a, b} /\ Max({a, b}) >= a /\ Max({a, b}) >= b
<1>1. \E x \in {a, b} : \A y \in {a, b} : x >= y
  <2>1. CASE a >= b
    BY <2>1
  <2>2. CASE b >= a
    BY <2>2
  <2>. QED
    BY <2>1, <2>2
<1>. QED
  BY <1>1 DEF Max

(* A number of seconds that counts as one when it is zero.                 *)
LEMMA AtLeastOne ==
  ASSUME NEW n \in Nat
  PROVE  Max({n, 1}) \in Int /\ Max({n, 1}) >= n /\ Max({n, 1}) >= 1
  BY MaxOfTwo

(* A non-empty set of places in a list has a last one.                     *)
LEMMA MaxOfPlaces ==
  ASSUME NEW n \in Nat, NEW S \in SUBSET (1..n), S # {}
  PROVE  Max(S) \in S
<1>. DEFINE T == {k \in Nat : \A x \in S : x <= k}
<1>1. n \in T
  OBVIOUS
<1>2. PICK k \in T : \A j \in T : ~(<<j, k>> \in OpToRel(<, Nat))
  BY Zenon, SMTT(20), <1>1, NatLessThanWellFounded, WFMin
<1>3. \A j \in T : k <= j
  <2>1. \A j \in T : j \in Nat
    OBVIOUS
  <2>2. \A j \in T : ~(j < k)
    BY Zenon, SMTT(20), <1>2, <2>1 DEF OpToRel
  <2>. QED
    BY <2>1, <2>2
<1>4. k \in S
  <2>. SUFFICES ASSUME k \notin S PROVE FALSE
    OBVIOUS
  <2>1. PICK x \in S : TRUE
    BY Zenon, SMTT(20)
  <2>2. k - 1 \in Nat /\ \A y \in S : y <= k - 1
    BY <2>1
  <2>3. k - 1 \in T
    BY <2>2
  <2>. QED
    BY <2>3, <1>3
<1>5. \A x \in S : k >= x
  OBVIOUS
<1>6. \E x \in S : \A y \in S : x >= y
  BY <1>4, <1>5
<1>. QED
  BY Zenon, SMTT(20), <1>6 DEF Max

----------------------------------------------------------------------------
(* Requests under authentication.                                          *)
Passed == {"external", "identity", "authorization", "forwarded"}

CheckFields == {"pc", "token", "headers", "keys", "status", "heard", "told", "stale"}

(* Keys that the file holds now.                                           *)
Current(keys, h, w) == \A entry \in keys : entry.key \in KeyNames /\ h[entry.key] = w

(* What the service said reached the request.                              *)
Heard(r, external) ==
    /\ r.heard = "allow" \/ (external.fail_open /\ r.heard = "none")
    /\ \A n \in {k \in DOMAIN external.mappings : external.mappings[k].required} :
           \E k \in DOMAIN external.mappings :
               /\ external.mappings[k].source \in DOMAIN r.told
               /\ external.mappings[k].target = external.mappings[n].target
               /\ r.headers[external.mappings[n].target] = r.told[external.mappings[k].source]

CheckFits(r, policy, h, w) ==
    /\ r.pc \in Passed \cup {"idle", "jwt", "read", "write", "answered"}
    /\ r.pc # "idle" => DOMAIN r = CheckFields
    /\ r.pc = "write" => Current(r.keys, h, w)
    /\ r.pc \in Passed /\ policy.jwt.source = "file" =>
           r.stale \in Int /\ r.stale < Max({policy.jwt.refresh_secs, 1})
    /\ r.pc \in Passed \ {"external"} /\ policy.external.bound => Heard(r, policy.external)

CacheFits(cache, h, w) ==
    /\ cache.loaded_at \in 0..w
    /\ \A entry \in cache.keys : entry.key \in KeyNames /\ h[entry.key] >= cache.loaded_at

(* The inductive invariant of authentication.  The keys of the cache were  *)
(* in the file when they were loaded or later, and what a refreshing       *)
(* request has read is still what the file held at this time, because the  *)
(* file is read and the cache replaced within one tick.                    *)
AuthInv ==
    /\ wall \in Nat /\ auth_policy \in AuthPolicies
    /\ held \in [KeyNames -> 0..wall]
    /\ Current(key_file, held, wall)
    /\ CacheFits(jwks_cache, held, wall)
    /\ DOMAIN checks = AuthTasks
    /\ \A i \in AuthTasks : CheckFits(checks[i], auth_policy, held, wall)

(* A request that takes a step, the others staying where they are.         *)
LEMMA CheckMoved ==
  ASSUME AuthInv, NEW i \in AuthTasks, NEW r, CheckFits(r, auth_policy, held, wall),
         checks' = [checks EXCEPT ![i] = r], UNCHANGED <<wall, auth_policy, key_file, held>>,
         CacheFits(jwks_cache', held, wall)
  PROVE  AuthInv'
<1>1. DOMAIN checks' = AuthTasks
  BY DEF AuthInv
<1>2. ASSUME NEW j \in AuthTasks PROVE CheckFits(checks'[j], auth_policy, held, wall)
  BY DEF AuthInv
<1>. QED
  BY Zenon, SMTT(20), <1>1, <1>2 DEF AuthInv

(* A request that ends with an answer, or only goes on to a place where    *)
(* nothing more is asked of it.                                            *)
LEMMA AnswerFits ==
  ASSUME AuthInv, NEW i \in AuthTasks, checks[i].pc # "idle", NEW status, Answer(i, status),
         UNCHANGED <<wall, auth_policy, key_file, held>>, CacheFits(jwks_cache', held, wall)
  PROVE  AuthInv'
<1>. DEFINE r == [checks[i] EXCEPT !.pc = "answered", !.status = status]
<1>1. checks' = [checks EXCEPT ![i] = r]
  BY DEF Answer
<1>2. DOMAIN checks[i] = CheckFields
  BY Zenon, SMTT(20) DEF AuthInv, CheckFits
<1>3. r.pc = "answered" /\ DOMAIN r = CheckFields
  BY <1>2 DEF CheckFields
<1>4. CheckFits(r, auth_policy, held, wall)
  BY <1>3 DEF CheckFits, Passed
<1>. QED
  BY Zenon, SMTT(20), <1>1, <1>4, CheckMoved

(* The record of a request whose pc alone changes.                         *)
LEMMA OnlyPc ==
  ASSUME AuthInv, NEW i \in AuthTasks, checks[i].pc # "idle", NEW pc,
         NEW r, r = [checks[i] EXCEPT !.pc = pc]
  PROVE  /\ r.pc = pc /\ DOMAIN r = CheckFields /\ r.keys = checks[i].keys
         /\ r.stale = checks[i].stale /\ r.heard = checks[i].heard
         /\ r.told = checks[i].told /\ r.headers = checks[i].headers
<1>1. DOMAIN checks[i] = CheckFields
  BY DEF AuthInv, CheckFits
<1>. QED
  BY <1>1 DEF CheckFields

(* A token that verifies does so with one of the keys it was checked with. *)
LEMMA VerifiedFits ==
  ASSUME AuthInv, NEW i \in AuthTasks, checks[i].pc \in {"jwt", "write"}, NEW keys, Verified(i, keys),
         UNCHANGED <<wall, auth_policy, key_file, held>>, CacheFits(jwks_cache', held, wall),
         Jwt.source = "file" =>
             \A entry \in keys : /\ entry.key \in KeyNames
                                 /\ wall - held[entry.key] < Max({Jwt.refresh_secs, 1})
  PROVE  AuthInv'
<1>1. CASE ~verify_token(checks[i].token, keys)
  BY <1>1, AnswerFits DEF Verified
<1>2. CASE verify_token(checks[i].token, keys)
  <2>. DEFINE key == checks[i].token.key
              r == [checks[i] EXCEPT !.pc = "external", !.stale = wall - held[key]]
  <2>1. checks' = [checks EXCEPT ![i] = r]
    BY Zenon, SMTT(20), <1>2 DEF Verified
  <2>2. DOMAIN checks[i] = CheckFields
    BY Zenon, SMTT(20) DEF AuthInv, CheckFits
  <2>3. r.pc = "external" /\ DOMAIN r = CheckFields /\ r.stale = wall - held[key]
    BY <2>2 DEF CheckFields
  <2>4. PICK entry \in keys : entry.key = key
    BY Zenon, SMTT(20), <1>2 DEF verify_token, Candidates, Decodes
  <2>5. Jwt.source = "file" => r.stale \in Int /\ r.stale < Max({Jwt.refresh_secs, 1})
    <3>. SUFFICES ASSUME Jwt.source = "file"
                  PROVE  r.stale \in Int /\ r.stale < Max({Jwt.refresh_secs, 1})
      BY Zenon, SMTT(20)
    <3>1. key \in KeyNames /\ wall - held[key] < Max({Jwt.refresh_secs, 1})
      BY Zenon, SMTT(20), <2>4
    <3>2. wall \in Int /\ held[key] \in Int
      BY <3>1 DEF AuthInv
    <3>. QED
      BY <3>1, <3>2, <2>3
  <2>. HIDE DEF r
  <2>6. CheckFits(r, auth_policy, held, wall)
    BY Zenon, SMTT(20), <2>3, <2>5 DEF CheckFits, Passed, Jwt
  <2>. QED
    BY Zenon, SMTT(20), <2>1, <2>6, CheckMoved
<1>. QED
  BY Zenon, SMTT(20), <1>1, <1>2

(* A request that goes on with only its pc changed.                        *)
LEMMA ContinueFits ==
  ASSUME AuthInv, NEW i \in AuthTasks, checks[i].pc # "idle", NEW pc, Continue(i, pc),
         pc \in Passed \cup {"read"},
         pc \in Passed /\ Jwt.source = "file" => checks[i].pc \in Passed,
         pc \in Passed \ {"external"} /\ External.bound => checks[i].pc \in Passed \ {"external"},
         UNCHANGED <<wall, auth_policy, key_file, held, jwks_cache>>
  PROVE  AuthInv'
<1>0. PICK r : r = [checks[i] EXCEPT !.pc = pc]
  BY Zenon, SMTT(20)
<1>1. checks' = [checks EXCEPT ![i] = r]
  BY <1>0 DEF Continue
<1>2. /\ r.pc = pc /\ DOMAIN r = CheckFields /\ r.keys = checks[i].keys
      /\ r.stale = checks[i].stale /\ r.heard = checks[i].heard
      /\ r.told = checks[i].told /\ r.headers = checks[i].headers
  BY <1>0, OnlyPc
<1>3. CheckFits(checks[i], auth_policy, held, wall)
  BY DEF AuthInv
<1>4. pc \in Passed /\ auth_policy.jwt.source = "file" =>
          r.stale \in Int /\ r.stale < Max({auth_policy.jwt.refresh_secs, 1})
  BY Zenon, SMTT(20), <1>2, <1>3 DEF CheckFits, Jwt
<1>5. pc \in Passed \ {"external"} /\ auth_policy.external.bound => Heard(r, auth_policy.external)
  <2>. SUFFICES ASSUME pc \in Passed \ {"external"}, auth_policy.external.bound
                PROVE  Heard(r, auth_policy.external)
    OBVIOUS
  <2>1. Heard(checks[i], auth_policy.external)
    BY Zenon, SMTT(20), <1>3 DEF CheckFits, External
  <2>. QED
    BY <2>1, <1>2 DEF Heard
<1>6. CheckFits(r, auth_policy, held, wall)
  BY Zenon, SMTT(20), <1>2, <1>4, <1>5 DEF CheckFits, Passed
<1>7. CacheFits(jwks_cache', held, wall)
  BY DEF AuthInv
<1>. QED
  BY Zenon, SMTT(20), <1>1, <1>6, <1>7, CheckMoved

(* The token check with keys at hand passes a request only with a key the  *)
(* file held within the refresh interval, or turns to the file.            *)
LEMMA VerifyJwtInv ==
  ASSUME AuthInv, NEW i \in AuthTasks, VerifyJwt(i)
  PROVE  AuthInv'
<1>1. /\ checks[i].pc = "jwt" /\ UNCHANGED <<wall, auth_policy, key_file, jwks_cache, held>>
      /\ CacheFits(jwks_cache', held, wall)
  BY Zenon, SMTT(20) DEF VerifyJwt, AuthInv
<1>2. CASE Jwt.source = "none"
  <2>1. Continue(i, "external")
    BY <1>2 DEF VerifyJwt
  <2>. QED
    BY Zenon, SMTT(20), <1>1, <1>2, <2>1, ContinueFits DEF Passed
<1>3. CASE Jwt.source # "none" /\ ~Bearer(i)
  <2>1. Answer(i, 401)
    BY <1>3 DEF VerifyJwt
  <2>. QED
    BY <1>1, <2>1, AnswerFits
<1>4. CASE Bearer(i) /\ Jwt.source = "inline"
  <2>1. Verified(i, Jwt.inline_keys)
    BY <1>4 DEF VerifyJwt
  <2>. QED
    BY Zenon, SMTT(20), <1>1, <1>4, <2>1, VerifiedFits
<1>5. CASE /\ Bearer(i) /\ Jwt.source \notin {"none", "inline"}
           /\ ~jwks_refresh_due(jwks_cache.loaded_at)
  <2>1. Verified(i, jwks_cache.keys)
    BY <1>5 DEF VerifyJwt
  <2>2. ASSUME Jwt.source = "file", NEW entry \in jwks_cache.keys
        PROVE  entry.key \in KeyNames /\ wall - held[entry.key] < Max({Jwt.refresh_secs, 1})
    <3>1. Jwt.refresh_secs \in Nat
      BY Zenon, SMTT(20), <2>2, AuthAssumption DEF AuthAssumption, AuthInv, Jwt
    <3>2. /\ entry.key \in KeyNames /\ held[entry.key] >= jwks_cache.loaded_at
          /\ jwks_cache.loaded_at \in 0..wall /\ wall \in Nat
      BY DEF AuthInv, CacheFits
    <3>3. held[entry.key] \in 0..wall
      BY <3>2 DEF AuthInv
    <3>4. wall - jwks_cache.loaded_at < Jwt.refresh_secs
      BY <1>5, <3>1, <3>2 DEF jwks_refresh_due
    <3>5. Max({Jwt.refresh_secs, 1}) \in Int /\ Max({Jwt.refresh_secs, 1}) >= Jwt.refresh_secs
      BY <3>1, AtLeastOne, Zenon, SMTT(20)
    <3>. QED
      BY <3>1, <3>2, <3>3, <3>4, <3>5
  <2>. QED
    BY Zenon, SMTT(20), <1>1, <2>1, <2>2, VerifiedFits
<1>6. CASE /\ Bearer(i) /\ Jwt.source \notin {"none", "inline"}
           /\ jwks_refresh_due(jwks_cache.loaded_at)
  <2>1. Continue(i, "read")
    BY <1>6 DEF VerifyJwt
  <2>. QED
    BY Zenon, SMTT(20), <1>1, <2>1, ContinueFits DEF Passed
<1>. QED
  BY <1>2, <1>3, <1>4, <1>5, <1>6

(* A request that reads the file keeps exactly what the file holds now.    *)
LEMMA ReadKeyFileInv ==
  ASSUME AuthInv, NEW i \in AuthTasks, ReadKeyFile(i)
  PROVE  AuthInv'
<1>1. /\ checks[i].pc = "read" /\ UNCHANGED <<wall, auth_policy, key_file, jwks_cache, held>>
      /\ CacheFits(jwks_cache', held, wall)
  BY DEF ReadKeyFile, AuthInv
<1>2. CASE key_file = {}
  BY <1>1, <1>2, AnswerFits DEF ReadKeyFile
<1>3. CASE key_file # {}
  <2>. DEFINE r == [checks[i] EXCEPT !.pc = "write", !.keys = key_file]
  <2>1. checks' = [checks EXCEPT ![i] = r]
    BY <1>3 DEF ReadKeyFile
  <2>2. DOMAIN checks[i] = CheckFields
    BY Zenon, SMTT(20), <1>1 DEF AuthInv, CheckFits
  <2>3. r.pc = "write" /\ DOMAIN r = CheckFields /\ r.keys = key_file
    BY <2>2 DEF CheckFields
  <2>. HIDE DEF r
  <2>4. CheckFits(r, auth_policy, held, wall)
    BY Zenon, SMTT(20), <2>3 DEF CheckFits, Passed, AuthInv
  <2>. QED
    BY Zenon, SMTT(20), <1>1, <2>1, <2>4, CheckMoved
<1>. QED
  BY <1>2, <1>3

(* Putting the keys read into the cache: no tick passes between the read   *)
(* and the write, so the cache is as current as the file.                  *)
LEMMA StoreKeysInv ==
  ASSUME AuthInv, NEW i \in AuthTasks, StoreKeys(i)
  PROVE  AuthInv'
<1>1. /\ checks[i].pc = "write" /\ UNCHANGED <<wall, auth_policy, key_file, held>>
      /\ jwks_cache' = [keys |-> checks[i].keys, loaded_at |-> wall]
      /\ Verified(i, checks[i].keys)
  BY DEF StoreKeys
<1>2. Current(checks[i].keys, held, wall)
  BY Zenon, SMTT(20), <1>1 DEF AuthInv, CheckFits
<1>3. wall \in Nat
  BY DEF AuthInv
<1>4. CacheFits(jwks_cache', held, wall)
  BY <1>1, <1>2, <1>3 DEF CacheFits, Current
<1>5. ASSUME Jwt.source = "file", NEW entry \in checks[i].keys
      PROVE  entry.key \in KeyNames /\ wall - held[entry.key] < Max({Jwt.refresh_secs, 1})
  <2>1. Jwt.refresh_secs \in Nat
    BY Zenon, SMTT(20), <1>5, AuthAssumption DEF AuthAssumption, AuthInv, Jwt
  <2>2. entry.key \in KeyNames /\ held[entry.key] = wall
    BY <1>2 DEF Current
  <2>3. Max({Jwt.refresh_secs, 1}) \in Int /\ Max({Jwt.refresh_secs, 1}) >= 1
    BY <2>1, AtLeastOne, Zenon, SMTT(20)
  <2>. QED
    BY <2>2, <2>3, <1>3
<1>. QED
  BY Zenon, SMTT(20), <1>1, <1>4, <1>5, VerifiedFits

(* What a mapping that is given puts into its header.                      *)
LEMMA MappedIsTold ==
  ASSUME AuthInv, External.bound, NEW headers, NEW context, NEW n \in Given(context)
  PROVE  \E k \in DOMAIN External.mappings :
             /\ External.mappings[k].source \in DOMAIN context
             /\ External.mappings[k].target = External.mappings[n].target
             /\ Mapped(headers, context)[External.mappings[n].target]
                    = context[External.mappings[k].source]
<1>. DEFINE h == External.mappings[n].target
            S == Onto(context, h)
<1>1. PICK len : len \in Nat /\ DOMAIN External.mappings = 1..len
  BY AuthAssumption DEF AuthAssumption, AuthInv, External
<1>2. n \in S
  BY DEF Onto
<1>3. S \in SUBSET (1..len)
  BY <1>1 DEF Onto, Given
<1>4. Max(S) \in S
  BY Zenon, SMTT(20), <1>1, <1>2, <1>3, MaxOfPlaces
<1>5. /\ Max(S) \in DOMAIN External.mappings
      /\ External.mappings[Max(S)].source \in DOMAIN context
      /\ External.mappings[Max(S)].target = h
  BY Zenon, SMTT(20), <1>4 DEF Onto, Given
<1>6. h \in DOMAIN headers \cup {External.mappings[m].target : m \in Given(context)}
  OBVIOUS
<1>7. Mapped(headers, context)[h] = context[External.mappings[Max(S)].source]
  BY Zenon, SMTT(20), <1>2, <1>6 DEF Mapped
<1>. QED
  BY Zenon, SMTT(20), <1>5, <1>7

(* The authorization service's verdict decides, and its context reaches    *)
(* the request only through the configured mappings.                       *)
LEMMA ExternalAuthInv ==
  ASSUME AuthInv, NEW i \in AuthTasks, NEW reply \in ServiceReplies, NEW context,
         ExternalAuth(i, reply, context)
  PROVE  AuthInv'
<1>. DEFINE result == authorize_http_request_with_fail_open(reply)
            given == IF result = "allowed" THEN context ELSE <<>>
            heard == IF reply \in {"allow", "deny"} THEN reply ELSE "none"
<1>1. /\ checks[i].pc = "external" /\ External.bound
      /\ UNCHANGED <<wall, auth_policy, key_file, jwks_cache, held>>
      /\ CacheFits(jwks_cache', held, wall)
  BY DEF ExternalAuth, AuthInv
<1>2. CASE result \in DOMAIN RefusedWith
  <2>1. Answer(i, RefusedWith[result])
    BY <1>2 DEF ExternalAuth
  <2>. QED
    BY Zenon, SMTT(20), <1>1, <2>1, AnswerFits
<1>3. CASE result \notin DOMAIN RefusedWith /\ ~resolve_context_headers(given)
  <2>1. Answer(i, 403)
    BY <1>3 DEF ExternalAuth
  <2>. QED
    BY <1>1, <2>1, AnswerFits
<1>4. CASE result \notin DOMAIN RefusedWith /\ resolve_context_headers(given)
  <2>. DEFINE r == [checks[i] EXCEPT !.pc = "identity", !.heard = heard, !.told = given,
                                     !.headers = Mapped(checks[i].headers, given)]
  <2>1. checks' = [checks EXCEPT ![i] = r]
    BY <1>4 DEF ExternalAuth
  <2>2. DOMAIN checks[i] = CheckFields /\ CheckFits(checks[i], auth_policy, held, wall)
    BY Zenon, SMTT(20), <1>1 DEF AuthInv, CheckFits
  <2>3. /\ r.pc = "identity" /\ DOMAIN r = CheckFields /\ r.heard = heard /\ r.told = given
        /\ r.headers = Mapped(checks[i].headers, given) /\ r.stale = checks[i].stale
    BY <2>2 DEF CheckFields
  <2>4. heard = "allow" \/ (External.fail_open /\ heard = "none")
    <3>1. CASE reply = "allow"
      BY <3>1
    <3>2. CASE reply = "deny"
      <4>1. result = "denied"
        BY <3>2 DEF authorize_http_request_with_fail_open, authorize_http_request
      <4>2. "denied" \in DOMAIN RefusedWith
        BY DEF RefusedWith
      <4>. QED
        BY <4>1, <4>2, <1>4
    <3>3. CASE reply \notin {"allow", "deny"}
      <4>1. authorize_http_request(reply) \in {"unavailable", "invalid_response"}
        BY <3>3 DEF authorize_http_request, ServiceReplies
      <4>2. {"unavailable", "invalid_response"} \subseteq DOMAIN RefusedWith
        BY DEF RefusedWith
      <4>3. External.fail_open
        BY <4>1, <4>2, <1>4 DEF authorize_http_request_with_fail_open
      <4>. QED
        BY <4>3, <3>3
    <3>. QED
      BY <3>1, <3>2, <3>3
  <2>. HIDE DEF given, heard, result, r
  <2>5. ASSUME NEW n \in {k \in DOMAIN External.mappings : External.mappings[k].required}
        PROVE  \E k \in DOMAIN External.mappings :
                   /\ External.mappings[k].source \in DOMAIN r.told
                   /\ External.mappings[k].target = External.mappings[n].target
                   /\ r.headers[External.mappings[n].target] = r.told[External.mappings[k].source]
    <3>1. n \in Given(given)
      BY <1>4 DEF resolve_context_headers, Given
    <3>. QED
      BY <3>1, <1>1, <2>3, MappedIsTold
  <2>6. Heard(r, auth_policy.external)
    BY Zenon, SMTT(20), <2>3, <2>4, <2>5 DEF Heard, External
  <2>7. CheckFits(r, auth_policy, held, wall)
    BY Zenon, SMTT(20), <2>2, <2>3, <2>6, <1>1 DEF CheckFits, Passed
  <2>. QED
    BY Zenon, SMTT(20), <1>1, <2>1, <2>7, CheckMoved
<1>. QED
  BY <1>2, <1>3, <1>4

(* The checks after the service change neither the keys nor the headers.   *)
LEMMA LaterChecksInv ==
  ASSUME AuthInv, NEW i \in AuthTasks,
         NoExternalAuth(i) \/ UpstreamIdentity(i) \/ Authorization(i)
  PROVE  AuthInv'
<1>1. /\ UNCHANGED <<wall, auth_policy, key_file, jwks_cache, held>>
      /\ checks[i].pc # "idle" /\ CacheFits(jwks_cache', held, wall)
  BY Zenon, SMTT(20) DEF NoExternalAuth, UpstreamIdentity, Authorization, AuthInv
<1>2. ASSUME NEW status, Answer(i, status) PROVE AuthInv'
  BY Zenon, SMTT(20), <1>1, <1>2, AnswerFits
<1>3. CASE NoExternalAuth(i)
  <2>1. checks[i].pc = "external" /\ ~External.bound /\ Continue(i, "identity")
    BY <1>3 DEF NoExternalAuth
  <2>. QED
    BY Zenon, SMTT(20), <2>1, <1>1, ContinueFits DEF Passed
<1>4. CASE UpstreamIdentity(i)
  <2>1. checks[i].pc = "identity" /\ (Continue(i, "authorization") \/ Answer(i, 503))
    BY <1>4 DEF UpstreamIdentity
  <2>2. Continue(i, "authorization") => AuthInv'
    BY Zenon, SMTT(20), <2>1, <1>1, ContinueFits DEF Passed
  <2>. QED
    BY <2>1, <2>2, <1>2
<1>5. CASE Authorization(i)
  <2>1. checks[i].pc = "authorization" /\ (Continue(i, "forwarded") \/ Answer(i, 403))
    BY <1>5 DEF Authorization
  <2>2. Continue(i, "forwarded") => AuthInv'
    BY Zenon, SMTT(20), <2>1, <1>1, ContinueFits DEF Passed
  <2>. QED
    BY <2>1, <2>2, <1>2
<1>. QED
  BY <1>3, <1>4, <1>5

(* A request arrives, or has been dealt with.                              *)
LEMMA ArriveOrDoneInv ==
  ASSUME AuthInv, NEW i \in AuthTasks,
         AuthDone(i) \/ \E request \in AuthRequests : AuthArrive(i, request)
  PROVE  AuthInv'
<1>1. CacheFits(jwks_cache, held, wall)
  BY DEF AuthInv
<1>2. CASE AuthDone(i)
  <2>1. CheckFits(NoCheck, auth_policy, held, wall)
    BY DEF CheckFits, NoCheck, Passed
  <2>. QED
    BY Zenon, SMTT(20), <1>1, <1>2, <2>1, CheckMoved DEF AuthDone
<1>3. ASSUME NEW request \in AuthRequests, AuthArrive(i, request) PROVE AuthInv'
  <2>. DEFINE r == [pc |-> "jwt", token |-> request.token, headers |-> request.headers, keys |-> {},
                    status |-> 0, heard |-> "none", told |-> <<>>, stale |-> 0]
  <2>1. CheckFits(r, auth_policy, held, wall)
    BY Zenon, SMTT(20) DEF CheckFits, CheckFields, Passed
  <2>2. checks' = [checks EXCEPT ![i] = r] /\ UNCHANGED <<wall, auth_policy, key_file, jwks_cache, held>>
    BY Zenon, SMTT(20), <1>3 DEF AuthArrive
  <2>. HIDE DEF r
  <2>. QED
    BY Zenon, SMTT(20), <1>1, <2>1, <2>2, CheckMoved
<1>. QED
  BY <1>2, <1>3

(* Rewriting the file only ever makes a key seen later, and time passes    *)
(* only between refreshes.                                                 *)
LEMMA FileAndTimeInv ==
  ASSUME AuthInv, AuthTick \/ \E file \in KeyFiles : RewriteKeyFile(file)
  PROVE  AuthInv'
<1>1. PICK file, at : /\ key_file' = file /\ wall' = at /\ held' = Holding(file, at)
                      /\ at \in {wall, wall + 1}
                      /\ \A entry \in file : entry.key \in KeyNames
                      /\ \A i \in AuthTasks : at = wall \/ checks[i].pc # "write"
                      /\ at = wall \/ file = key_file
                      /\ UNCHANGED <<auth_policy, jwks_cache, checks>>
  <2>1. CASE AuthTick
    <3>1. \A entry \in key_file : entry.key \in KeyNames
      BY DEF AuthInv, Current
    <3>2. /\ key_file' = key_file /\ wall' = wall + 1 /\ held' = Holding(key_file, wall + 1)
          /\ \A i \in AuthTasks : checks[i].pc # "write"
          /\ UNCHANGED <<auth_policy, jwks_cache, checks>>
      BY <2>1 DEF AuthTick
    <3>. QED
      BY <3>1, <3>2
  <2>2. ASSUME NEW file \in KeyFiles, RewriteKeyFile(file)
        PROVE  /\ key_file' = file /\ wall' = wall /\ held' = Holding(file, wall)
               /\ \A entry \in file : entry.key \in KeyNames
               /\ UNCHANGED <<auth_policy, jwks_cache, checks>>
    BY Zenon, SMTT(20), <2>2, AuthAssumption DEF AuthAssumption, RewriteKeyFile
  <2>. QED
    BY Zenon, SMTT(20), <2>1, <2>2
<1>2. wall \in Nat /\ at \in Nat /\ wall <= at
  BY <1>1 DEF AuthInv
<1>3. ASSUME NEW k \in KeyNames
      PROVE  /\ held'[k] \in 0..at /\ held'[k] >= held[k] /\ held[k] \in 0..wall
             /\ (\E entry \in file : entry.key = k) => held'[k] = at
             /\ at = wall /\ held[k] = wall => held'[k] = wall
  <2>1. held'[k] = IF \E entry \in file : entry.key = k THEN at ELSE held[k]
    BY <1>1 DEF Holding
  <2>2. held[k] \in 0..wall
    BY DEF AuthInv
  <2>. QED
    BY <2>1, <2>2, <1>2
<1>4. held' \in [KeyNames -> 0..at]
  <2>1. held' = [k \in KeyNames |-> held'[k]]
    BY <1>1 DEF Holding
  <2>. QED
    BY <2>1, <1>3
<1>5. Current(file, held', at)
  BY Zenon, SMTT(20), <1>1, <1>3 DEF Current
<1>6. CacheFits(jwks_cache, held', at)
  <2>1. jwks_cache.loaded_at \in 0..wall
    BY DEF AuthInv, CacheFits
  <2>2. \A entry \in jwks_cache.keys : entry.key \in KeyNames /\ held[entry.key] >= jwks_cache.loaded_at
    BY DEF AuthInv, CacheFits
  <2>3. \A entry \in jwks_cache.keys : held'[entry.key] >= jwks_cache.loaded_at
    BY <2>1, <2>2, <1>2, <1>3
  <2>. QED
    BY <2>1, <2>2, <2>3, <1>2 DEF CacheFits
<1>7. ASSUME NEW i \in AuthTasks PROVE CheckFits(checks[i], auth_policy, held', at)
  <2>1. CheckFits(checks[i], auth_policy, held, wall)
    BY DEF AuthInv
  <2>2. checks[i].pc = "write" => Current(checks[i].keys, held', at)
    <3>. SUFFICES ASSUME checks[i].pc = "write" PROVE Current(checks[i].keys, held', at)
      OBVIOUS
    <3>1. at = wall
      BY <1>1
    <3>2. Current(checks[i].keys, held, wall)
      BY Zenon, SMTT(20), <2>1 DEF CheckFits
    <3>. QED
      BY Zenon, SMTT(20), <3>1, <3>2, <1>3 DEF Current
  <2>. QED
    BY Zenon, SMTT(20), <2>1, <2>2 DEF CheckFits
<1>. QED
  BY Zenon, SMTT(20), <1>1, <1>2, <1>4, <1>5, <1>6, <1>7 DEF AuthInv

(* The policy is built from one read of the key file, so the cache starts  *)
(* current.                                                                *)
LEMMA AuthStart ==
  ASSUME NEW policy \in AuthPolicies, NEW file \in KeyFiles, AuthInit(policy, file)
  PROVE  AuthInv
<1>1. \A entry \in file : entry.key \in KeyNames
  BY AuthAssumption DEF AuthAssumption
<1>2. wall = 0 /\ auth_policy = policy /\ key_file = file /\ held \in [KeyNames -> 0..wall]
  BY DEF AuthInit
<1>3. Current(key_file, held, wall) /\ CacheFits(jwks_cache, held, wall)
  BY <1>1 DEF AuthInit, Current, CacheFits
<1>4. DOMAIN checks = AuthTasks /\ \A i \in AuthTasks : CheckFits(checks[i], auth_policy, held, wall)
  BY DEF AuthInit, CheckFits, NoCheck, Passed
<1>. QED
  BY Zenon, SMTT(20), <1>2, <1>3, <1>4 DEF AuthInv

(* AuthInv is inductive.                                                   *)
LEMMA AuthStepInv ==
  ASSUME AuthInv, [AuthNext]_authVars
  PROVE  AuthInv'
<1>1. ASSUME NEW i \in AuthTasks, AuthStep(i) PROVE AuthInv'
  BY Zenon, SMTT(20), <1>1, VerifyJwtInv, ReadKeyFileInv, StoreKeysInv, LaterChecksInv, ArriveOrDoneInv DEF AuthStep
<1>2. ASSUME NEW i \in AuthTasks, NEW request \in AuthRequests, AuthArrive(i, request) PROVE AuthInv'
  BY <1>2, ArriveOrDoneInv
<1>3. ASSUME NEW i \in AuthTasks, NEW reply \in ServiceReplies, NEW context \in AuthContexts,
             ExternalAuth(i, reply, context)
      PROVE  AuthInv'
  BY <1>3, ExternalAuthInv
<1>4. CASE AuthTick \/ \E file \in KeyFiles : RewriteKeyFile(file)
  BY <1>4, FileAndTimeInv
<1>5. CASE UNCHANGED authVars
  BY Zenon, SMTT(20), <1>5 DEF authVars, AuthInv
<1>. QED
  BY Zenon, SMTT(20), <1>1, <1>2, <1>3, <1>4, <1>5 DEF AuthNext

(* A request passes only with a key that the file held less than a refresh *)
(* interval ago, and, under an external policy, only when the service      *)
(* allowed it or could not be heard and the policy fails open, with the    *)
(* headers the service filled (active_keys, enforce_route_destination_     *)
(* external_auth), for any requests, policies, edits of the key file and   *)
(* replies.                                                                *)
THEOREM AuthSoundKept == AuthSpec => []AuthSound
<1>1. (\E policy \in AuthPolicies, file \in KeyFiles :
           (policy.jwt.source = "file" => file # {}) /\ AuthInit(policy, file)) => AuthInv
  BY AuthStart
<1>2. AuthInv /\ [AuthNext]_authVars => AuthInv'
  BY AuthStepInv
<1>3. AuthInv => AuthSound
  <2>. SUFFICES ASSUME AuthInv PROVE AuthSound
    OBVIOUS
  <2>1. \A i \in AuthTasks : CheckFits(checks[i], auth_policy, held, wall)
    BY DEF AuthInv
  <2>2. AuthTypeOK
    BY Zenon, SMTT(20), <2>1 DEF AuthTypeOK, AuthInv, CacheFits, CheckFits, Passed
  <2>3. KeyHonouredBriefly
    BY Zenon, SMTT(20), <2>1 DEF KeyHonouredBriefly, CheckFits, Passed, Jwt
  <2>4. FailsOpenOnlyUnheard
    BY Zenon, SMTT(20), <2>1 DEF FailsOpenOnlyUnheard, CheckFits, Heard, Passed, External
  <2>5. ASSUME NEW i \in AuthTasks, checks[i].pc \in {"authorization", "forwarded"}, External.bound,
               NEW n \in {k \in DOMAIN External.mappings : External.mappings[k].required}
        PROVE  \E k \in Onto(checks[i].told, External.mappings[n].target) :
                   checks[i].headers[External.mappings[n].target] = checks[i].told[External.mappings[k].source]
    <3>1. Heard(checks[i], External)
      BY Zenon, SMTT(20), <2>1, <2>5 DEF CheckFits, Passed, External
    <3>2. PICK k \in DOMAIN External.mappings :
              /\ External.mappings[k].source \in DOMAIN checks[i].told
              /\ External.mappings[k].target = External.mappings[n].target
              /\ checks[i].headers[External.mappings[n].target] = checks[i].told[External.mappings[k].source]
      BY Zenon, SMTT(20), <3>1 DEF Heard
    <3>. QED
      BY Zenon, SMTT(20), <3>2 DEF Onto, Given
  <2>6. ContextIsServices
    BY Zenon, SMTT(20), <2>5 DEF ContextIsServices
  <2>. QED
    BY <2>2, <2>3, <2>4, <2>6 DEF AuthSound
<1>. QED
  BY <1>1, <1>2, <1>3, PTL DEF AuthSpec

----------------------------------------------------------------------------
(* Plugins and extensions.                                                 *)
ExtensionStates == {"registered", "active", "draining", "stopped", "failed"}

Allowance == Max({MaxConsecutiveFailures, 1})

Rest == Max({IsolationCooldown, 1})

(* A registered plugin, with the failures since it last answered and the   *)
(* time it last used up its allowance: it is isolated until its rest is    *)
(* over, or its rest is over.                                              *)
PluginFits(p, failures, trip, now_) ==
    /\ DOMAIN p = {"required", "fallback", "disabled", "consecutive_failures", "isolated_until"}
    /\ p.consecutive_failures = failures /\ failures < Allowance
    /\ p.isolated_until \in Nat
    /\ trip > 0 => p.isolated_until = trip + Rest \/ now_ >= trip + Rest

VerdictFits(v, ps) ==
    /\ v.name # "none" =>
           /\ v.name \in DOMAIN ps
           /\ ps[v.name].required /\ v.decision # "error" => v.said = v.decision
    /\ v.ran /\ v.tripped > 0 => v.at >= v.tripped + IsolationCooldown

(* The inductive invariant of the plugins.                                 *)
PluginsInv ==
    /\ ticks \in Nat /\ ticks > 0 /\ workers \in Nat
    /\ \A n \in DOMAIN extensions : extensions[n] \in ExtensionStates
    /\ DOMAIN plugins \subseteq PluginNames
    /\ failing \in [PluginNames -> Nat] /\ tripped \in [PluginNames -> Nat]
    /\ \A n \in DOMAIN plugins : PluginFits(plugins[n], failing[n], tripped[n], ticks)
    /\ \A n \in PluginNames \ DOMAIN plugins : failing[n] = 0 /\ tripped[n] = 0
    /\ VerdictFits(verdict, plugins)

(* The allowance and the rest are at least one, whatever is configured.    *)
LEMMA Limits ==
    /\ Allowance \in Int /\ Allowance >= 1 /\ Allowance >= MaxConsecutiveFailures
    /\ Rest \in Int /\ Rest >= 1 /\ Rest >= IsolationCooldown
    /\ IsolationCooldown \in Nat
<1>1. MaxConsecutiveFailures \in Int /\ IsolationCooldown \in Nat
  BY PluginsAssumption DEF PluginsAssumption
<1>. QED
  BY <1>1, MaxOfTwo DEF Allowance, Rest

(* One plugin's entry is replaced by another with the same requirement.    *)
LEMMA PluginMoved ==
  ASSUME PluginsInv, NEW name \in DOMAIN plugins, NEW p, NEW f \in Nat, NEW t \in Nat,
         plugins' = [plugins EXCEPT ![name] = p], p.required = plugins[name].required,
         failing' = [failing EXCEPT ![name] = f], tripped' = [tripped EXCEPT ![name] = t],
         PluginFits(p, f, t, ticks), UNCHANGED <<ticks, extensions>>, workers' \in Nat,
         verdict' = verdict \/ VerdictFits(verdict', plugins)
  PROVE  PluginsInv'
<1>1. DOMAIN plugins' = DOMAIN plugins /\ name \in PluginNames
  BY DEF PluginsInv
<1>2. failing' \in [PluginNames -> Nat] /\ tripped' \in [PluginNames -> Nat]
  BY DEF PluginsInv
<1>3. ASSUME NEW n \in DOMAIN plugins PROVE PluginFits(plugins'[n], failing'[n], tripped'[n], ticks)
  <2>1. failing \in [PluginNames -> Nat] /\ tripped \in [PluginNames -> Nat] /\ n \in PluginNames
    BY DEF PluginsInv
  <2>2. CASE n = name
    BY Zenon, SMTT(20), <2>1, <2>2
  <2>3. CASE n # name
    <3>1. plugins'[n] = plugins[n] /\ failing'[n] = failing[n] /\ tripped'[n] = tripped[n]
      BY <2>1, <2>3
    <3>. QED
      BY Zenon, SMTT(20), <3>1 DEF PluginsInv
  <2>. QED
    BY Zenon, SMTT(20), <2>2, <2>3
<1>4. \A n \in PluginNames \ DOMAIN plugins : failing'[n] = 0 /\ tripped'[n] = 0
  BY DEF PluginsInv
<1>5. \A n \in DOMAIN plugins : plugins'[n].required = plugins[n].required
  OBVIOUS
<1>6. VerdictFits(verdict', plugins)
  BY DEF PluginsInv
<1>7. VerdictFits(verdict', plugins')
  BY Zenon, SMTT(20), <1>1, <1>5, <1>6 DEF VerdictFits
<1>. QED
  BY Zenon, SMTT(20), <1>1, <1>2, <1>3, <1>4, <1>7 DEF PluginsInv

(* Nothing about the plugins changes but the verdict, and time may pass.   *)
LEMMA PluginsRest ==
  ASSUME PluginsInv, UNCHANGED <<plugins, failing, tripped>>, ticks' \in {ticks, ticks + 1},
         workers' \in Nat, \A n \in DOMAIN extensions' : extensions'[n] \in ExtensionStates,
         verdict' = verdict \/ VerdictFits(verdict', plugins)
  PROVE  PluginsInv'
<1>1. ticks \in Nat /\ ticks' \in Nat /\ ticks' > 0 /\ ticks' >= ticks
  BY DEF PluginsInv
<1>2. ASSUME NEW n \in DOMAIN plugins PROVE PluginFits(plugins[n], failing[n], tripped[n], ticks')
  <2>1. PluginFits(plugins[n], failing[n], tripped[n], ticks) /\ tripped[n] \in Nat
    BY DEF PluginsInv
  <2>. QED
    BY <2>1, <1>1, Limits DEF PluginFits
<1>3. VerdictFits(verdict', plugins')
  BY DEF PluginsInv
<1>. QED
  BY Zenon, SMTT(20), <1>1, <1>2, <1>3 DEF PluginsInv

(* A lifecycle call moves an extension along its states and never out of   *)
(* failed.                                                                 *)
LEMMA ExtensionCallInv ==
  ASSUME PluginsInv, NEW name \in PluginNames, ExtensionCall(name)
  PROVE  PluginsInv' /\ \A n \in DOMAIN extensions : extensions[n] = "failed" => extensions'[n] = "failed"
<1>1. /\ UNCHANGED <<ticks, plugins, workers, verdict, failing, tripped>> /\ workers \in Nat
      /\ \A n \in DOMAIN extensions : extensions[n] \in ExtensionStates
  BY Zenon, SMTT(20) DEF ExtensionCall, RegisterExtension, MoveExtension, PluginsInv
<1>2. CASE extensions' = With(extensions, name, "registered") /\ name \notin DOMAIN extensions
  <2>1. DOMAIN extensions' = DOMAIN extensions \cup {name}
    BY <1>2 DEF With
  <2>2. \A n \in DOMAIN extensions' : extensions'[n] = IF n = name THEN "registered" ELSE extensions[n]
    BY <1>2 DEF With
  <2>3. \A n \in DOMAIN extensions' : extensions'[n] \in ExtensionStates
    BY <1>1, <2>1, <2>2 DEF ExtensionStates
  <2>4. PluginsInv'
    BY <1>1, <2>3, PluginsRest
  <2>. QED
    BY <2>1, <2>2, <2>4, <1>2
<1>3. ASSUME NEW call \in DOMAIN Transitions, MoveExtension(name, call)
      PROVE  PluginsInv' /\ \A n \in DOMAIN extensions : extensions[n] = "failed" => extensions'[n] = "failed"
  <2>1. /\ name \in DOMAIN extensions /\ extensions[name] \in Transitions[call].from
        /\ extensions' = [extensions EXCEPT ![name] = Transitions[call].to]
    BY <1>3 DEF MoveExtension
  <2>2. call \in {"activate", "begin_drain", "stop", "fail"}
    BY DEF Transitions
  <2>3. /\ Transitions[call].to \in ExtensionStates
        /\ "failed" \in Transitions[call].from => Transitions[call].to = "failed"
    BY <2>2 DEF Transitions, ExtensionStates
  <2>4. \A n \in DOMAIN extensions' : extensions'[n] \in ExtensionStates
    BY <1>1, <2>1, <2>3
  <2>5. PluginsInv'
    BY <1>1, <2>4, PluginsRest
  <2>. QED
    BY <2>1, <2>3, <2>5
<1>. QED
  BY Zenon, SMTT(20), <1>2, <1>3 DEF ExtensionCall, RegisterExtension

(* A plugin is registered with no failures and no isolation.               *)
LEMMA RegistrationInv ==
  ASSUME PluginsInv, NEW name \in PluginNames, Registration(name)
  PROVE  PluginsInv'
<1>1. PICK p : /\ name \notin DOMAIN plugins /\ plugins' = With(plugins, name, p)
               /\ DOMAIN p = {"required", "fallback", "disabled", "consecutive_failures", "isolated_until"}
               /\ p.consecutive_failures = 0 /\ p.isolated_until = 0
               /\ UNCHANGED <<ticks, extensions, workers, verdict, failing, tripped>>
  BY DEF Registration, RegisterPlugin
<1>2. DOMAIN plugins' = DOMAIN plugins \cup {name} /\ plugins'[name] = p
  BY <1>1 DEF With
<1>3. \A n \in DOMAIN plugins : plugins'[n] = plugins[n]
  BY <1>1 DEF With
<1>4. failing[name] = 0 /\ tripped[name] = 0
  BY Zenon, SMTT(20), <1>1 DEF PluginsInv
<1>5. PluginFits(p, 0, 0, ticks)
  BY <1>1, Limits DEF PluginFits
<1>6. \A n \in DOMAIN plugins' : PluginFits(plugins'[n], failing[n], tripped[n], ticks)
  BY Zenon, SMTT(20), <1>2, <1>3, <1>4, <1>5 DEF PluginsInv
<1>7. VerdictFits(verdict, plugins')
  BY Zenon, SMTT(20), <1>2, <1>3 DEF PluginsInv, VerdictFits
<1>. QED
  BY Zenon, SMTT(20), <1>1, <1>2, <1>6, <1>7 DEF PluginsInv

(* Switching a plugin off or on leaves its failures and its isolation      *)
(* alone.                                                                  *)
LEMMA SwitchInv ==
  ASSUME PluginsInv, NEW name \in PluginNames, Switch(name)
  PROVE  PluginsInv'
<1>1. PICK disabled : /\ name \in DOMAIN plugins
                      /\ plugins' = [plugins EXCEPT ![name] = [plugins[name] EXCEPT !.disabled = disabled]]
                      /\ UNCHANGED <<ticks, extensions, workers, verdict, failing, tripped>>
  BY Zenon, SMTT(20) DEF Switch, set_disabled
<1>0. PICK p : p = [plugins[name] EXCEPT !.disabled = disabled]
  BY Zenon, SMTT(20)
<1>2. PluginFits(plugins[name], failing[name], tripped[name], ticks)
  BY <1>1 DEF PluginsInv
<1>3. PluginFits(p, failing[name], tripped[name], ticks) /\ p.required = plugins[name].required
  BY Zenon, SMTT(20), <1>0, <1>2 DEF PluginFits
<1>4. /\ failing' = [failing EXCEPT ![name] = failing[name]]
      /\ tripped' = [tripped EXCEPT ![name] = tripped[name]]
      /\ failing[name] \in Nat /\ tripped[name] \in Nat /\ workers' \in Nat
  BY <1>1 DEF PluginsInv
<1>5. plugins' = [plugins EXCEPT ![name] = p]
  BY <1>0, <1>1
<1>. QED
  BY Zenon, SMTT(20), <1>1, <1>3, <1>4, <1>5, PluginMoved

(* A plugin that has rested may be run.                                    *)
LEMMA RunAfterRest ==
  ASSUME PluginsInv, NEW name \in DOMAIN plugins, ~Isolated(plugins[name]), tripped[name] > 0
  PROVE  ticks >= tripped[name] + Rest
<1>1. PluginFits(plugins[name], failing[name], tripped[name], ticks)
  BY DEF PluginsInv
<1>2. ticks \in Nat /\ tripped[name] \in Nat
  BY DEF PluginsInv
<1>. QED
  BY <1>1, <1>2, Limits DEF PluginFits, Isolated

(* The verdict of an evaluation.                                           *)
LEMMA VerdictGiven ==
  ASSUME PluginsInv, NEW name \in DOMAIN plugins, NEW ran \in BOOLEAN, NEW decision, NEW said,
         Verdict(name, ran, decision, said),
         ran => ~Isolated(plugins[name]),
         plugins[name].required /\ decision # "error" => said = decision
  PROVE  VerdictFits(verdict', plugins)
<1>1. ran /\ tripped[name] > 0 => ticks >= tripped[name] + IsolationCooldown
  <2>. SUFFICES ASSUME ran, tripped[name] > 0 PROVE ticks >= tripped[name] + IsolationCooldown
    OBVIOUS
  <2>1. ticks >= tripped[name] + Rest
    BY RunAfterRest
  <2>2. ticks \in Nat /\ tripped[name] \in Nat
    BY DEF PluginsInv
  <2>. QED
    BY <2>1, <2>2, Limits
<1>. QED
  BY Zenon, SMTT(20), <1>1 DEF Verdict, VerdictFits

(* An evaluation of a plugin that is switched off or isolated runs         *)
(* nothing.                                                                *)
LEMMA EvaluateIdleInv ==
  ASSUME PluginsInv, NEW name \in PluginNames, EvaluateIdle(name)
  PROVE  PluginsInv'
<1>1. /\ name \in DOMAIN plugins /\ Verdict(name, FALSE, NotRun(plugins[name]), "none")
      /\ UNCHANGED <<ticks, extensions, plugins, workers, failing, tripped>>
  BY Zenon, SMTT(20) DEF EvaluateIdle
<1>2. plugins[name].required => NotRun(plugins[name]) = "error"
  BY DEF NotRun
<1>3. VerdictFits(verdict', plugins)
  BY Zenon, SMTT(20), <1>1, <1>2, VerdictGiven
<1>4. workers' \in Nat /\ \A n \in DOMAIN extensions' : extensions'[n] \in ExtensionStates
  BY <1>1 DEF PluginsInv
<1>. QED
  BY <1>1, <1>3, <1>4, PluginsRest

(* An answer in time clears the failures and the isolation.                *)
LEMMA EvaluateAnsweredInv ==
  ASSUME PluginsInv, NEW name \in PluginNames, NEW decision, EvaluateAnswered(name, decision)
  PROVE  PluginsInv'
<1>. DEFINE p == [plugins[name] EXCEPT !.consecutive_failures = 0, !.isolated_until = 0]
<1>1. /\ name \in DOMAIN plugins /\ ~Isolated(plugins[name])
      /\ Verdict(name, TRUE, decision, decision) /\ plugins' = [plugins EXCEPT ![name] = p]
      /\ failing' = [failing EXCEPT ![name] = 0]
      /\ UNCHANGED <<ticks, extensions, workers, tripped>>
  BY Zenon, SMTT(20) DEF EvaluateAnswered
<1>2. VerdictFits(verdict', plugins)
  BY Zenon, SMTT(20), <1>1, VerdictGiven
<1>3. PluginFits(plugins[name], failing[name], tripped[name], ticks)
  BY <1>1 DEF PluginsInv
<1>4. /\ DOMAIN p = DOMAIN plugins[name] /\ p.required = plugins[name].required
      /\ p.consecutive_failures = 0 /\ p.isolated_until = 0
  BY <1>3 DEF PluginFits
<1>. HIDE DEF p
<1>5. tripped[name] > 0 => ticks >= tripped[name] + Rest
  BY <1>1, RunAfterRest
<1>6. PluginFits(p, 0, tripped[name], ticks)
  BY <1>3, <1>4, <1>5, Limits DEF PluginFits
<1>7. /\ tripped' = [tripped EXCEPT ![name] = tripped[name]] /\ tripped[name] \in Nat
      /\ workers' \in Nat
  BY Zenon, SMTT(20), <1>1 DEF PluginsInv
<1>. QED
  BY Zenon, SMTT(20), <1>1, <1>2, <1>4, <1>6, <1>7, PluginMoved

(* A failure counts one, and the one that uses up the allowance isolates   *)
(* the plugin for the cooldown.                                            *)
LEMMA EvaluateFailedInv ==
  ASSUME PluginsInv, NEW name \in PluginNames, NEW how, EvaluateFailed(name, how)
  PROVE  PluginsInv'
<1>. DEFINE entry == plugins[name]
            p == record_plugin_failure(entry)
<1>1. /\ name \in DOMAIN plugins /\ ~Isolated(entry) /\ Verdict(name, TRUE, "error", how)
      /\ plugins' = [plugins EXCEPT ![name] = p]
      /\ workers' \in {workers, workers + 1} /\ UNCHANGED <<ticks, extensions>>
  BY Zenon, SMTT(20) DEF EvaluateFailed
<1>2. VerdictFits(verdict', plugins)
  BY Zenon, SMTT(20), <1>1, VerdictGiven
<1>3. PluginFits(entry, failing[name], tripped[name], ticks)
  BY Zenon, SMTT(20), <1>1 DEF PluginsInv
<1>4. failing[name] \in Nat /\ tripped[name] \in Nat /\ ticks \in Nat /\ ticks > 0 /\ workers' \in Nat
  BY <1>1 DEF PluginsInv
<1>5. CASE failing[name] + 1 = Allowance
  <2>1. /\ failing' = [failing EXCEPT ![name] = 0] /\ tripped' = [tripped EXCEPT ![name] = ticks]
    BY Zenon, SMTT(20), <1>5 DEF EvaluateFailed, Allowance
  <2>2. p = [entry EXCEPT !.consecutive_failures = 0, !.isolated_until = ticks + Rest]
    BY <1>3, <1>4, <1>5 DEF record_plugin_failure, PluginFits, Allowance, Rest
  <2>3. /\ DOMAIN p = DOMAIN entry /\ p.required = entry.required
        /\ p.consecutive_failures = 0 /\ p.isolated_until = ticks + Rest
    BY <1>3, <2>2 DEF PluginFits
  <2>. HIDE DEF p
  <2>4. PluginFits(p, 0, ticks, ticks)
    BY <1>3, <1>4, <2>3, Limits DEF PluginFits
  <2>5. 0 \in Nat
    OBVIOUS
  <2>. QED
    BY <1>1, <1>2, <1>4, <2>1, <2>3, <2>4, <2>5, PluginMoved, Zenon, SMTT(20)
<1>6. CASE failing[name] + 1 # Allowance
  <2>1. /\ failing' = [failing EXCEPT ![name] = failing[name] + 1] /\ UNCHANGED tripped
    BY Zenon, SMTT(20), <1>6 DEF EvaluateFailed, Allowance
  <2>2. failing[name] + 1 < Allowance /\ entry.consecutive_failures = failing[name]
    BY <1>3, <1>4, <1>6, Limits DEF PluginFits
  <2>3. p = [entry EXCEPT !.consecutive_failures = failing[name] + 1]
    BY <2>2, <1>4, Limits DEF record_plugin_failure, Allowance
  <2>4. /\ DOMAIN p = DOMAIN entry /\ p.required = entry.required
        /\ p.consecutive_failures = failing[name] + 1 /\ p.isolated_until = entry.isolated_until
    BY <1>3, <2>3 DEF PluginFits
  <2>. HIDE DEF p
  <2>5. PluginFits(p, failing[name] + 1, tripped[name], ticks)
    BY Zenon, SMTT(20), <1>3, <2>2, <2>4 DEF PluginFits
  <2>6. tripped' = [tripped EXCEPT ![name] = tripped[name]] /\ failing[name] + 1 \in Nat
    BY <2>1, <1>4 DEF PluginsInv
  <2>. QED
    BY Zenon, SMTT(20), <1>1, <1>2, <1>4, <2>1, <2>4, <2>5, <2>6, PluginMoved
<1>. QED
  BY <1>5, <1>6

(* Nothing is registered at first.                                         *)
LEMMA PluginsStart == PluginsInit => PluginsInv
<1>. SUFFICES ASSUME PluginsInit PROVE PluginsInv
  OBVIOUS
<1>1. DOMAIN extensions = {} /\ DOMAIN plugins = {}
  BY DEF PluginsInit
<1>2. VerdictFits(verdict, plugins)
  BY DEF PluginsInit, NoVerdict, VerdictFits
<1>. QED
  BY <1>1, <1>2 DEF PluginsInit, PluginsInv

(* PluginsInv is inductive, and no step revives a failed extension.        *)
LEMMA PluginsStepInv ==
  ASSUME PluginsInv, [PluginsNext]_pluginVars
  PROVE  /\ PluginsInv'
         /\ \A n \in DOMAIN extensions : extensions[n] = "failed" => extensions'[n] = "failed"
<1>0. /\ workers \in Nat /\ ticks \in Nat
      /\ \A n \in DOMAIN extensions : extensions[n] \in ExtensionStates
  BY DEF PluginsInv
<1>1. ASSUME NEW name \in PluginNames, ExtensionCall(name)
      PROVE  PluginsInv' /\ \A n \in DOMAIN extensions : extensions[n] = "failed" => extensions'[n] = "failed"
  BY <1>1, ExtensionCallInv
<1>2. ASSUME NEW name \in PluginNames, Registration(name) \/ Switch(name)
      PROVE  PluginsInv' /\ UNCHANGED extensions
  BY Zenon, SMTT(20), <1>2, RegistrationInv, SwitchInv DEF Registration, Switch, RegisterPlugin, set_disabled
<1>3. ASSUME NEW name \in PluginNames, Evaluation(name) PROVE PluginsInv' /\ UNCHANGED extensions
  BY Zenon, SMTT(20), <1>3, EvaluateIdleInv, EvaluateAnsweredInv, EvaluateFailedInv
     DEF Evaluation, EvaluateIdle, EvaluateAnswered, EvaluateFailed
<1>4. CASE WorkerEnds
  <2>1. workers' \in Nat
    BY <1>0, <1>4 DEF WorkerEnds
  <2>. QED
    BY <1>0, <1>4, <2>1, PluginsRest DEF WorkerEnds
<1>5. CASE PluginTick
  <2>1. VerdictFits(verdict', plugins)
    BY Zenon, SMTT(20), <1>5 DEF PluginTick, NoVerdict, VerdictFits
  <2>. QED
    BY <1>0, <1>5, <2>1, PluginsRest DEF PluginTick
<1>6. CASE UNCHANGED pluginVars
  BY Zenon, SMTT(20), <1>0, <1>6, PluginsRest DEF pluginVars
<1>. QED
  BY Zenon, SMTT(20), <1>1, <1>2, <1>3, <1>4, <1>5, <1>6 DEF PluginsNext

(* A plugin that used up its failures rests for its cool-down, a required  *)
(* plugin that cannot be run lets nothing pass, and a failed extension     *)
(* stays failed (PolicyPluginRegistry::evaluate, record_plugin_failure,    *)
(* ExtensionRegistry), for any limits, including limits of zero.           *)
THEOREM PluginsSoundKept == PluginsSpec => PluginsSound
<1>1. PluginsInv /\ [PluginsNext]_pluginVars => PluginsInv'
  BY PluginsStepInv
<1>2. PluginsInv => PluginsTypeOK /\ IsolationServed /\ RequiredFailsClosed
  <2>. SUFFICES ASSUME PluginsInv PROVE PluginsTypeOK /\ IsolationServed /\ RequiredFailsClosed
    OBVIOUS
  <2>1. PluginsTypeOK
    BY Zenon, SMTT(20) DEF PluginsInv, PluginsTypeOK, PluginFits, ExtensionStates, Allowance
  <2>2. IsolationServed /\ RequiredFailsClosed
    BY Zenon, SMTT(20) DEF PluginsInv, VerdictFits, IsolationServed, RequiredFailsClosed
  <2>. QED
    BY <2>1, <2>2
<1>3. PluginsInv /\ [PluginsNext]_pluginVars =>
          [\A n \in DOMAIN extensions : extensions[n] = "failed" => extensions'[n] = "failed"]_pluginVars
  BY PluginsStepInv
<1>. QED
  BY <1>1, <1>2, <1>3, PluginsStart, PTL DEF PluginsSpec, PluginsSound, FailedIsFinal

----------------------------------------------------------------------------
(* The relayed session.                                                    *)
RelayPcs == SessionOutcomes \cup {"preface", "connect", "replay", "relay"}

WayStates ==
    [left : Seq(Nat), pending : Seq(Nat), delivered : Seq(Nat), pc : {"reading", "writing", "done"},
     wait : 0..RelayIdleTimeout]

RelayTypes ==
    /\ session \in [offer : SessionOffers, preface : Seq(Nat), age : Nat, pc : RelayPcs]
    /\ way \in [Ways -> WayStates]
    /\ idle \in 0..RelayIdleTimeout

(* Before the relay: nothing was delivered, what was inspected and what is *)
(* unread is the stream, and a tunnel has inspected nothing.               *)
Gathered ==
    session.pc \in {"preface", "connect", "replay"} =>
        /\ \A w \in Ways : way[w].pc = "reading"
        /\ session.preface \o way["client"].left = session.offer.bytes["client"]
        /\ way["server"].left = session.offer.bytes["server"]
        /\ session.offer.mode = "upgrade" => session.pc = "replay" /\ session.preface = <<>>

(* A direction holds bytes back only while it writes, and ends only after  *)
(* its sender closed and everything was read.                              *)
Directions ==
    \A w \in Ways :
        /\ way[w].pc /= "writing" => way[w].pending = <<>>
        /\ way[w].pc = "done" => way[w].left = <<>> /\ session.offer.closes[w]

CompletedBoth == session.pc = "completed" => \A w \in Ways : way[w].pc = "done"

RelayInv ==
    RelayTypes /\ Gathered /\ Directions /\ CompletedBoth /\ BytesInOrder /\ IdleMeansBothQuiet

----------------------------------------------------------------------------
(* The bytes of one read and those after it are the stream before it       *)
(* (Chunk and Past: a read of n bytes takes the first n).                  *)
LEMMA ReadSplits ==
    ASSUME NEW s \in Seq(Nat), NEW n \in 0..Len(s)
    PROVE  Chunk(s, n) \in Seq(Nat) /\ Past(s, n) \in Seq(Nat) /\ Chunk(s, n) \o Past(s, n) = s
<1>1. Len(s) \in Nat
  OBVIOUS
<1>2. Chunk(s, n) \in Seq(Nat) /\ Past(s, n) \in Seq(Nat)
  BY <1>1, SubSeqProperties DEF Chunk, Past
<1>3. SubSeq(s, 1, n) \o SubSeq(s, n + 1, Len(s)) = SubSeq(s, 1, Len(s))
  <2>1. 1 \in 1..Len(s) + 1 /\ n \in 1 - 1..Len(s) /\ Len(s) \in n..Len(s)
    BY <1>1
  <2> QED
    BY <2>1, ConcatAdjacentSubSeq, Zenon, SMTT(20)
<1>4. SubSeq(s, 1, Len(s)) = s
  BY SubSeqFull
<1> QED
  BY Zenon, SMTT(20), <1>2, <1>3, <1>4 DEF Chunk, Past

(* Concatenation of three streams: nothing depends on the grouping.        *)
LEMMA JoinedAny == \A B : \A s, t, u \in Seq(B) : (s \o t) \o u = s \o (t \o u)
OBVIOUS

(* The same of bytes.                                                      *)
LEMMA Joined ==
    ASSUME NEW s \in Seq(Nat), NEW t \in Seq(Nat), NEW u \in Seq(Nat)
    PROVE  s \o t \in Seq(Nat) /\ (s \o t) \o u = s \o (t \o u)
<1>1. s \o t \in Seq(Nat)
  OBVIOUS
<1>2. (s \o t) \o u = s \o (t \o u)
  BY SMTT(20), Zenon, JoinedAny
<1> QED
  BY <1>1, <1>2

(* The two ways, and the peer each of them writes to.                      *)
LEMMA Receivers == Receiver("client") = "server" /\ Receiver("server") = "client"
BY DEF Receiver, Ways

(* What a session is offered.                                              *)
LEMMA OfferTypes ==
    ASSUME NEW o \in SessionOffers
    PROVE  /\ o.mode \in {"tcp", "upgrade"}
           /\ o.bytes \in [Ways -> Seq(Nat)] /\ o.buffered \in [Ways -> Nat]
           /\ \A w \in Ways : o.buffered[w] <= Len(o.bytes[w]) /\ (o.mode = "tcp" => o.buffered[w] = 0)
BY DEF SessionOffers

(* A relay begins with nothing read, gathered or written.                  *)
LEMMA RelayInitially ==
    ASSUME NEW offer \in SessionOffers, SessionInit(offer)
    PROVE  RelayInv
<1>1. offer.bytes \in [Ways -> Seq(Nat)]
  BY OfferTypes
<1>2. RelayTypes
  BY <1>1, RelayAssumption DEF SessionInit, RelayTypes, WayStates, RelayPcs, SessionOutcomes, RelayAssumption
<1>3. Gathered
  <2>1. \A w \in Ways : way[w].pc = "reading" /\ way[w].left = offer.bytes[w]
    BY Zenon, SMTT(20) DEF SessionInit
  <2>2. session.preface = <<>> /\ session.offer = offer
        /\ (offer.mode = "upgrade" => session.pc = "replay")
    BY DEF SessionInit
  <2>3. <<>> \o way["client"].left = way["client"].left
    BY <1>1, <2>1, ConcatEmptySeq DEF Ways
  <2> QED
    BY <2>1, <2>2, <2>3 DEF Gathered, Ways
<1>4. Directions /\ CompletedBoth /\ BytesInOrder /\ IdleMeansBothQuiet
  BY Zenon, SMTT(20) DEF SessionInit, Directions, CompletedBoth, BytesInOrder, IdleMeansBothQuiet
<1> QED
  BY <1>2, <1>3, <1>4 DEF RelayInv

(* Reading the preface moves bytes from the unread ones to the preface.    *)
LEMMA PrefaceKeeps ==
    ASSUME RelayInv, NEW n \in 0..Len(way["client"].left), ReadPreface(n)
    PROVE  RelayInv'
<1> DEFINE left == way["client"].left
           preface == session.preface \o Chunk(left, n)
<1>1. left \in Seq(Nat) /\ session.preface \in Seq(Nat)
  BY DEF RelayInv, RelayTypes, WayStates, Ways
<1>2. Chunk(left, n) \in Seq(Nat) /\ Past(left, n) \in Seq(Nat) /\ Chunk(left, n) \o Past(left, n) = left
  BY Zenon, SMTT(20), <1>1, ReadSplits
<1>3. preface \in Seq(Nat) /\ preface \o Past(left, n) = session.preface \o left
  <2>1. preface \in Seq(Nat) /\ preface \o Past(left, n) = session.preface \o (Chunk(left, n) \o Past(left, n))
    BY Zenon, SMTT(20), <1>1, <1>2, Joined
  <2> QED
    BY Zenon, SMTT(20), <2>1, <1>2
<1>4. session.pc = "preface" /\ idle' = idle
  BY Zenon, SMTT(20) DEF ReadPreface
<1>5. way' = [way EXCEPT !["client"].left = Past(left, n)]
  BY Zenon, SMTT(20) DEF ReadPreface
<1>6. /\ session' \in [offer : SessionOffers, preface : Seq(Nat), age : Nat, pc : RelayPcs]
      /\ session'.offer = session.offer
      /\ session'.pc \in {"tls_inspect", "preface", "connect"}
      /\ session'.pc /= "tls_inspect" => session'.preface = preface
  <2> HIDE DEF preface
  <2>1. \/ session' = [session EXCEPT !.pc = "tls_inspect"]
        \/ session' = [session EXCEPT !.preface = preface]
        \/ session' = [session EXCEPT !.preface = preface, !.pc = "connect"]
    BY Zenon, SMTT(20) DEF ReadPreface, preface
  <2> QED
    BY Zenon, SMTT(20), <2>1, <1>3, <1>4 DEF RelayInv, RelayTypes, RelayPcs, SessionOutcomes
<1> HIDE DEF preface, left
<1>7. RelayTypes'
  BY Zenon, SMTT(20), <1>2, <1>4, <1>5, <1>6 DEF RelayInv, RelayTypes, WayStates, Ways
<1>8. Gathered'
  <2>1. SUFFICES ASSUME session'.pc \in {"preface", "connect", "replay"}
                 PROVE  /\ \A w \in Ways : way'[w].pc = "reading"
                        /\ session'.preface \o way'["client"].left = session'.offer.bytes["client"]
                        /\ way'["server"].left = session'.offer.bytes["server"]
                        /\ session'.offer.mode = "upgrade" => session'.pc = "replay" /\ session'.preface = <<>>
    BY Zenon, SMTT(20) DEF Gathered
  <2>2. \A w \in Ways : way'[w].pc = "reading"
    BY Zenon, SMTT(20), <1>4, <1>5 DEF RelayInv, RelayTypes, WayStates, Gathered, Ways
  <2>3. way'["client"].left = Past(left, n) /\ way'["server"].left = way["server"].left
    BY <1>5 DEF RelayInv, RelayTypes, WayStates, Ways
  <2>4. session'.preface = preface
    BY <2>1, <1>6
  <2>5. session.preface \o left = session.offer.bytes["client"]
    BY Zenon, SMTT(20), <1>4 DEF RelayInv, Gathered, left
  <2> QED
    BY Zenon, SMTT(20), <2>2, <2>3, <2>4, <2>5, <1>3, <1>4, <1>6 DEF RelayInv, Gathered
<1>9. Directions' /\ CompletedBoth' /\ BytesInOrder' /\ IdleMeansBothQuiet'
  BY Zenon, SMTT(20), <1>4, <1>5, <1>6
     DEF RelayInv, RelayTypes, WayStates, Gathered, Directions, CompletedBoth, BytesInOrder, IdleMeansBothQuiet, Ways
<1> QED
  BY <1>7, <1>8, <1>9 DEF RelayInv

(* How a session moves on from one phase to another without moving bytes.  *)
MovesOn(from, to) ==
    \/ from \in {"preface", "connect"} /\ to \in {"connect", "replay", "preface_timeout", "connect_failed"}
    \/ from \in {"replay", "relay"} /\ to = "relay_io"

(* Such a step keeps everything.                                           *)
LEMMA PhaseKeeps ==
    ASSUME RelayInv, UNCHANGED <<way, idle>>, NEW pc \in RelayPcs, session' = [session EXCEPT !.pc = pc],
           MovesOn(session.pc, pc)
    PROVE  RelayInv'
<1>1. RelayTypes' /\ session'.pc = pc /\ session'.offer = session.offer /\ session'.preface = session.preface
  BY DEF RelayInv, RelayTypes
<1>2. Gathered'
  BY Zenon, SMTT(20), <1>1 DEF RelayInv, Gathered, MovesOn
<1>3. Directions' /\ CompletedBoth' /\ BytesInOrder' /\ IdleMeansBothQuiet'
  BY Zenon, SMTT(20), <1>1 DEF RelayInv, Directions, CompletedBoth, BytesInOrder, IdleMeansBothQuiet, MovesOn
<1> QED
  BY <1>1, <1>2, <1>3 DEF RelayInv

(* The replay hands over what was gathered before the relay.               *)
LEMMA ReplayKeeps ==
    ASSUME RelayInv, Replay
    PROVE  RelayInv'
<1>1. session.pc = "replay" /\ session' = [session EXCEPT !.pc = "relay"] /\ idle' = 0
  BY Zenon, SMTT(20) DEF Replay, End
<1>2. session'.pc = "relay" /\ session'.offer = session.offer
      /\ session' \in [offer : SessionOffers, preface : Seq(Nat), age : Nat, pc : RelayPcs]
  BY Zenon, SMTT(20), <1>1 DEF RelayInv, RelayTypes, RelayPcs
<1>3. ASSUME NEW w \in Ways
      PROVE  /\ Owed(w) \in Seq(Nat) /\ Past(way[w].left, session.offer.buffered[w]) \in Seq(Nat)
             /\ Owed(w) \o Past(way[w].left, session.offer.buffered[w]) = session.offer.bytes[w]
  <2> DEFINE left == way[w].left
             early == session.offer.buffered[w]
             front == IF w = "client" THEN session.preface ELSE <<>>
  <2>1. left \in Seq(Nat) /\ front \in Seq(Nat) /\ early \in Nat
    <3>1. session.offer \in SessionOffers /\ left \in Seq(Nat) /\ session.preface \in Seq(Nat)
      BY DEF RelayInv, RelayTypes, WayStates
    <3> QED
      BY <3>1, OfferTypes
  <2>2. front \o left = session.offer.bytes[w]
    BY Zenon, SMTT(20), <1>1, <2>1, ConcatEmptySeq DEF RelayInv, Gathered, Ways
  <2>3. early \in 0..Len(left)
    <3>1. session.offer \in SessionOffers
      BY DEF RelayInv, RelayTypes
    <3>2. /\ session.offer.mode \in {"tcp", "upgrade"} /\ early <= Len(session.offer.bytes[w])
          /\ session.offer.mode = "tcp" => early = 0
      BY Zenon, SMTT(20), <3>1, OfferTypes
    <3>3. session.offer.mode = "upgrade" => left = session.offer.bytes[w]
      BY Zenon, SMTT(20), <1>1, <2>1, <2>2, ConcatEmptySeq DEF RelayInv, Gathered
    <3> HIDE DEF left, early
    <3> QED
      BY <3>2, <3>3, <2>1
  <2>4. Chunk(left, early) \in Seq(Nat) /\ Past(left, early) \in Seq(Nat)
        /\ Chunk(left, early) \o Past(left, early) = left
    BY Zenon, SMTT(20), <2>1, <2>3, ReadSplits
  <2>5. Owed(w) = front \o Chunk(left, early)
    BY DEF Owed
  <2> HIDE DEF left, early, front
  <2>6. front \o Chunk(left, early) \in Seq(Nat)
        /\ (front \o Chunk(left, early)) \o Past(left, early) = front \o (Chunk(left, early) \o Past(left, early))
    BY Zenon, SMTT(20), <2>1, <2>4, Joined
  <2>7. Owed(w) \in Seq(Nat) /\ Past(left, early) \in Seq(Nat) /\ Owed(w) \o Past(left, early) = session.offer.bytes[w]
    BY Zenon, SMTT(20), <2>2, <2>4, <2>5, <2>6
  <2> QED
    BY Zenon, SMTT(20), <2>7 DEF left, early
<1>4. ASSUME NEW w \in Ways
      PROVE  /\ way'[w].delivered = Owed(w) /\ way'[w].left = Past(way[w].left, session.offer.buffered[w])
             /\ way'[w].pending = <<>> /\ way'[w].pc = "reading" /\ way'[w].wait = way[w].wait
             /\ way'[w] \in WayStates
  <2>1. way[w].pc = "reading" /\ way[w].pending = <<>>
    BY Zenon, SMTT(20), <1>1 DEF RelayInv, Gathered, Directions
  <2>2. way'[w] = [way[w] EXCEPT !.delivered = Owed(w), !.left = Past(@, session.offer.buffered[w])]
    BY Zenon, SMTT(20) DEF Replay
  <2>3. Owed(w) \in Seq(Nat) /\ Past(way[w].left, session.offer.buffered[w]) \in Seq(Nat)
    BY Zenon, SMTT(20), <1>3
  <2>4. way[w] \in WayStates
    BY DEF RelayInv, RelayTypes
  <2> QED
    BY Zenon, SMTT(20), <2>1, <2>2, <2>3, <2>4 DEF WayStates
<1>5. RelayTypes'
  <2>1. way' = [w \in Ways |-> way'[w]]
    BY Zenon, SMTT(20) DEF Replay
  <2> QED
    BY SMTT(20), Zenon, <1>1, <1>2, <1>4, <2>1, RelayAssumption DEF RelayTypes, RelayAssumption
<1>6. BytesInOrder'
  <2>1. SUFFICES ASSUME NEW w \in Ways
                 PROVE  (way'[w].delivered \o way'[w].pending) \o way'[w].left = session.offer.bytes[w]
    BY Zenon, SMTT(20), <1>2 DEF BytesInOrder
  <2>2. Owed(w) \o <<>> = Owed(w)
    BY Zenon, SMTT(20), <1>3, ConcatEmptySeq
  <2> QED
    BY Zenon, SMTT(20), <2>2, <1>3, <1>4
<1>7. Gathered' /\ Directions' /\ CompletedBoth' /\ IdleMeansBothQuiet'
  BY Zenon, SMTT(20), <1>2, <1>4 DEF Gathered, Directions, CompletedBoth, IdleMeansBothQuiet
<1> QED
  BY <1>5, <1>6, <1>7 DEF RelayInv

(* A step of one direction: it stays well formed, keeps its stream, and    *)
(* the other direction does not move.                                      *)
LEMMA DirectionKeeps ==
    ASSUME RelayInv, session.pc = "relay", session'.offer = session.offer,
           session' \in [offer : SessionOffers, preface : Seq(Nat), age : Nat, pc : RelayPcs],
           session'.pc \in {"relay", "completed"}, idle' \in 0..RelayIdleTimeout,
           NEW w \in Ways, NEW after \in WayStates, way' = [way EXCEPT ![w] = after],
           (after.delivered \o after.pending) \o after.left = session.offer.bytes[w],
           after.pc /= "writing" => after.pending = <<>>,
           after.pc = "done" => after.left = <<>> /\ session.offer.closes[w],
           session'.pc = "completed" => after.pc = "done" /\ way[Receiver(w)].pc = "done"
    PROVE  RelayInv'
<1>1. way \in [Ways -> WayStates]
  BY Zenon, SMTT(20) DEF RelayInv, RelayTypes
<1>2. way'[w] = after /\ \A v \in Ways : v /= w => way'[v] = way[v]
  BY Zenon, SMTT(20), <1>1
<1>3. RelayTypes'
  BY Zenon, SMTT(20), <1>1 DEF RelayTypes
<1>4. Directions'
  BY SMTT(20), Zenon, <1>2 DEF RelayInv, Directions
<1>5. BytesInOrder'
  BY Zenon, SMTT(20), <1>2 DEF RelayInv, BytesInOrder
<1>6. CompletedBoth'
  BY <1>2, Receivers DEF CompletedBoth, Ways
<1>7. Gathered' /\ IdleMeansBothQuiet'
  BY Zenon, SMTT(20) DEF Gathered, IdleMeansBothQuiet
<1> QED
  BY Zenon, SMTT(20), <1>3, <1>4, <1>5, <1>6, <1>7 DEF RelayInv

(* A chunk that is read is owed to the other side and marks activity.      *)
LEMMA ReadKeeps ==
    ASSUME RelayInv, NEW w \in Ways, NEW n \in 1..Len(way[w].left), RelayRead(w, n)
    PROVE  RelayInv'
<1> DEFINE old == way[w]
           after == [old EXCEPT !.left = Past(old.left, n), !.pending = Chunk(old.left, n), !.pc = "writing"]
<1>1. old \in WayStates /\ way \in [Ways -> WayStates]
  BY DEF RelayInv, RelayTypes
<1>2. session.pc = "relay" /\ old.pc = "reading" /\ session' = session /\ idle' = idle
  BY Zenon, SMTT(20) DEF RelayRead, Relaying
<1>3. old.pending = <<>> /\ (old.delivered \o old.pending) \o old.left = session.offer.bytes[w]
  BY Zenon, SMTT(20), <1>2 DEF RelayInv, Directions, BytesInOrder
<1>4. way' = [way EXCEPT ![w] = after]
  BY Zenon, SMTT(20), <1>1 DEF RelayRead, WayStates
<1> HIDE DEF old
<1>5. old.left \in Seq(Nat) /\ old.delivered \in Seq(Nat)
  BY <1>1 DEF WayStates
<1>6. n \in 0..Len(old.left)
  BY <1>5 DEF old
<1>7. Chunk(old.left, n) \in Seq(Nat) /\ Past(old.left, n) \in Seq(Nat)
      /\ Chunk(old.left, n) \o Past(old.left, n) = old.left
  BY Zenon, SMTT(20), <1>5, <1>6, ReadSplits
<1>8. after \in WayStates /\ after.pc = "writing" /\ after.left = Past(old.left, n)
      /\ after.pending = Chunk(old.left, n) /\ after.delivered = old.delivered
  BY Zenon, SMTT(20), <1>1, <1>7 DEF WayStates
<1>9. (after.delivered \o after.pending) \o after.left = session.offer.bytes[w]
  <2>1. (old.delivered \o Chunk(old.left, n)) \o Past(old.left, n)
            = old.delivered \o (Chunk(old.left, n) \o Past(old.left, n))
    BY Zenon, SMTT(20), <1>5, <1>7, Joined
  <2>2. old.delivered \o <<>> = old.delivered
    BY <1>5, ConcatEmptySeq
  <2> QED
    BY Zenon, SMTT(20), <2>1, <2>2, <1>3, <1>7, <1>8
<1> HIDE DEF after
<1>10. /\ session'.offer = session.offer /\ session'.pc = "relay" /\ idle' \in 0..RelayIdleTimeout
       /\ session' \in [offer : SessionOffers, preface : Seq(Nat), age : Nat, pc : RelayPcs]
  BY <1>2 DEF RelayInv, RelayTypes
<1> QED
  BY Zenon, SMTT(20), <1>2, <1>4, <1>8, <1>9, <1>10, DirectionKeeps

(* A chunk that is written goes behind everything written before.          *)
LEMMA WrittenKeeps ==
    ASSUME RelayInv, NEW w \in Ways, RelayWritten(w)
    PROVE  RelayInv'
<1> DEFINE old == way[w]
           after == [old EXCEPT !.delivered = old.delivered \o old.pending, !.pending = <<>>, !.pc = "reading",
                                !.wait = NextWait(0)]
<1>1. old \in WayStates /\ way \in [Ways -> WayStates]
  BY DEF RelayInv, RelayTypes
<1>2. session.pc = "relay" /\ old.pc = "writing" /\ session' = session /\ idle' = 0
  BY Zenon, SMTT(20) DEF RelayWritten, Relaying
<1>3. (old.delivered \o old.pending) \o old.left = session.offer.bytes[w]
  BY Zenon, SMTT(20), <1>2 DEF RelayInv, BytesInOrder
<1>4. way' = [way EXCEPT ![w] = after]
  BY Zenon, SMTT(20), <1>1 DEF RelayWritten, WayStates
<1>5. NextWait(0) \in 0..RelayIdleTimeout
  BY RelayAssumption DEF NextWait, RelayAssumption
<1> HIDE DEF old
<1>6. old.left \in Seq(Nat) /\ old.delivered \in Seq(Nat) /\ old.delivered \o old.pending \in Seq(Nat)
  BY <1>1 DEF WayStates
<1>7. after \in WayStates /\ after.pc = "reading" /\ after.left = old.left /\ after.pending = <<>>
      /\ after.delivered = old.delivered \o old.pending
  <2>0. <<>> \in Seq(Nat)
    OBVIOUS
  <2>1. PICK all \in Seq(Nat), none \in Seq(Nat), wait \in 0..RelayIdleTimeout :
            all = old.delivered \o old.pending /\ none = <<>> /\ wait = NextWait(0)
    BY <1>5, <1>6, <2>0, Zenon, SMTT(20)
  <2>2. after = [old EXCEPT !.delivered = all, !.pending = none, !.pc = "reading", !.wait = wait]
    BY <2>1
  <2> HIDE DEF after
  <2>3. after \in WayStates /\ after.pc = "reading" /\ after.left = old.left /\ after.pending = none
        /\ after.delivered = all
    BY Zenon, SMTT(20), <1>1, <2>2 DEF WayStates
  <2> QED
    BY Zenon, SMTT(20), <2>1, <2>3
<1>8. (after.delivered \o after.pending) \o after.left = session.offer.bytes[w]
  <2>1. (old.delivered \o old.pending) \o <<>> = old.delivered \o old.pending
    BY <1>6, ConcatEmptySeq
  <2> QED
    BY Zenon, SMTT(20), <2>1, <1>3, <1>7
<1> HIDE DEF after
<1>9. /\ session'.offer = session.offer /\ session'.pc = "relay" /\ idle' \in 0..RelayIdleTimeout
      /\ session' \in [offer : SessionOffers, preface : Seq(Nat), age : Nat, pc : RelayPcs]
  BY <1>2, RelayAssumption DEF RelayInv, RelayTypes, RelayAssumption
<1> QED
  BY Zenon, SMTT(20), <1>2, <1>4, <1>7, <1>8, <1>9, DirectionKeeps

(* A direction ends with its peer's half-close or with an error.           *)
LEMMA EndKeeps ==
    ASSUME RelayInv, NEW w \in Ways, RelayEnd(w)
    PROVE  RelayInv'
<1> DEFINE old == way[w]
           after == [old EXCEPT !.pc = "done"]
<1>1. old \in WayStates /\ way \in [Ways -> WayStates]
  BY DEF RelayInv, RelayTypes
<1>2. session.pc = "relay" /\ old.pc = "reading" /\ idle' = idle /\ old.left = <<>> /\ session.offer.closes[w]
  BY DEF RelayEnd, Relaying
<1>3. old.pending = <<>> /\ (old.delivered \o old.pending) \o old.left = session.offer.bytes[w]
  BY Zenon, SMTT(20), <1>2 DEF RelayInv, Directions, BytesInOrder
<1>4. way' = [way EXCEPT ![w] = after]
  BY <1>1 DEF RelayEnd, WayStates
<1>5. after \in WayStates /\ after.pc = "done" /\ after.left = old.left /\ after.pending = old.pending
      /\ after.delivered = old.delivered
  BY Zenon, SMTT(20), <1>1 DEF WayStates
<1>6. /\ session'.offer = session.offer /\ session'.pc \in {"relay", "completed"} /\ idle' \in 0..RelayIdleTimeout
      /\ session' \in [offer : SessionOffers, preface : Seq(Nat), age : Nat, pc : RelayPcs]
      /\ session'.pc = "completed" => way[Receiver(w)].pc = "done"
  BY Zenon, SMTT(20), <1>2 DEF RelayInv, RelayTypes, RelayEnd, End, RelayPcs, SessionOutcomes
<1> HIDE DEF old, after
<1> QED
  BY Zenon, SMTT(20), <1>2, <1>3, <1>4, <1>5, <1>6, DirectionKeeps

(* A wait that is over ends the session or begins again.                   *)
LEMMA WaitedKeeps ==
    ASSUME RelayInv, NEW w \in Ways, RelayWaited(w)
    PROVE  RelayInv'
<1>1. session.pc = "relay" /\ way[w].pc = "reading" /\ idle' = idle
  BY DEF RelayWaited, Relaying
<1>2. CASE session.offer.mode = "upgrade" \/ idle >= RelayIdleTimeout
  <2>1. session' = [session EXCEPT !.pc = "idle_timeout"] /\ way' = way
    BY <1>2 DEF RelayWaited, End
  <2>2. RelayTypes' /\ session'.pc = "idle_timeout" /\ session'.offer = session.offer
    BY <1>1, <2>1 DEF RelayInv, RelayTypes, RelayPcs, SessionOutcomes
  <2>3. Gathered' /\ Directions' /\ CompletedBoth' /\ BytesInOrder'
    BY Zenon, SMTT(20), <1>1, <2>1, <2>2 DEF RelayInv, Gathered, Directions, CompletedBoth, BytesInOrder
  <2>4. IdleMeansBothQuiet'
    BY <1>1, <1>2, <2>2 DEF IdleMeansBothQuiet
  <2> QED
    BY <2>2, <2>3, <2>4 DEF RelayInv
<1>3. CASE ~(session.offer.mode = "upgrade" \/ idle >= RelayIdleTimeout)
  <2> DEFINE old == way[w]
             after == [old EXCEPT !.wait = NextWait(idle)]
  <2>1. old \in WayStates /\ way \in [Ways -> WayStates] /\ idle \in 0..RelayIdleTimeout
    BY DEF RelayInv, RelayTypes
  <2>2. session' = session /\ way' = [way EXCEPT ![w] = after]
    BY Zenon, SMTT(20), <1>3, <2>1 DEF RelayWaited, WayStates
  <2>3. NextWait(idle) \in 0..RelayIdleTimeout
    BY <2>1, RelayAssumption DEF NextWait, RelayAssumption
  <2>4. old.pending = <<>> /\ (old.delivered \o old.pending) \o old.left = session.offer.bytes[w]
    BY Zenon, SMTT(20), <1>1 DEF RelayInv, Directions, BytesInOrder
  <2>5. after \in WayStates /\ after.pc = "reading" /\ after.left = old.left /\ after.pending = old.pending
        /\ after.delivered = old.delivered
    BY Zenon, SMTT(20), <1>1, <2>1, <2>3 DEF WayStates
  <2>6. /\ session'.offer = session.offer /\ session'.pc = "relay" /\ idle' \in 0..RelayIdleTimeout
        /\ session' \in [offer : SessionOffers, preface : Seq(Nat), age : Nat, pc : RelayPcs]
    BY <1>1, <2>2 DEF RelayInv, RelayTypes
  <2> HIDE DEF old, after
  <2> QED
    BY Zenon, SMTT(20), <1>1, <2>2, <2>4, <2>5, <2>6, DirectionKeeps
<1> QED
  BY <1>2, <1>3

(* Time passes: what was quiet long enough stays so.                       *)
LEMMA TickKeeps ==
    ASSUME RelayInv, RelayTick
    PROVE  RelayInv'
<1>1. session.pc \in {"preface", "relay"}
  BY DEF RelayTick
<1>2. session' \in [offer : SessionOffers, preface : Seq(Nat), age : Nat, pc : RelayPcs]
      /\ session'.offer = session.offer /\ session'.preface = session.preface /\ session'.pc = session.pc
  <2>1. session \in [offer : SessionOffers, preface : Seq(Nat), age : Nat, pc : RelayPcs]
    BY DEF RelayInv, RelayTypes
  <2>2. PICK age : /\ age = IF session.age < PrefaceTimeout THEN session.age + 1 ELSE session.age
                   /\ session' = [session EXCEPT !.age = age]
    BY Zenon, SMTT(20) DEF RelayTick
  <2>3. session.age \in Nat /\ session.age + 1 \in Nat
    BY <2>1
  <2>4. age \in Nat
    BY <2>2, <2>3, Zenon, SMTT(20)
  <2> QED
    BY <2>1, <2>2, <2>4
<1>3. idle' \in 0..RelayIdleTimeout
  BY RelayAssumption DEF RelayInv, RelayTypes, RelayTick, RelayAssumption
<1>4. ASSUME NEW w \in Ways
      PROVE  /\ way'[w] \in WayStates /\ way'[w].left = way[w].left /\ way'[w].pending = way[w].pending
             /\ way'[w].delivered = way[w].delivered /\ way'[w].pc = way[w].pc
  <2>1. way[w] \in WayStates
    BY DEF RelayInv, RelayTypes
  <2>2. PICK wait : way'[w] = [way[w] EXCEPT !.wait = wait]
                    /\ wait = IF way[w].wait > 0 /\ session.pc = "relay" THEN way[w].wait - 1 ELSE way[w].wait
    BY Zenon, SMTT(20), <2>1 DEF RelayTick, WayStates
  <2>3. wait \in 0..RelayIdleTimeout
    BY <2>1, <2>2, RelayAssumption DEF WayStates, RelayAssumption
  <2> QED
    BY Zenon, SMTT(20), <2>1, <2>2, <2>3 DEF WayStates
<1>5. way' = [w \in Ways |-> way'[w]]
  BY DEF RelayTick
<1>6. RelayTypes'
  BY <1>2, <1>3, <1>4, <1>5 DEF RelayTypes
<1>7. Gathered'
  BY Zenon, SMTT(20), <1>1, <1>2, <1>4 DEF RelayInv, Gathered, Ways
<1>8. Directions' /\ CompletedBoth' /\ BytesInOrder' /\ IdleMeansBothQuiet'
  <2>1. Directions'
    BY Zenon, SMTT(20), <1>1, <1>2, <1>4 DEF RelayInv, Directions
  <2>2. CompletedBoth'
    BY Zenon, SMTT(20), <1>1, <1>2, <1>4 DEF RelayInv, CompletedBoth
  <2>3. BytesInOrder'
    BY Zenon, SMTT(20), <1>1, <1>2, <1>4 DEF RelayInv, BytesInOrder
  <2>4. IdleMeansBothQuiet'
    BY Zenon, SMTT(20), <1>1, <1>2, <1>4 DEF RelayInv, IdleMeansBothQuiet
  <2> QED
    BY <2>1, <2>2, <2>3, <2>4
<1> QED
  BY <1>6, <1>7, <1>8 DEF RelayInv

(* The invariant holds in every reachable state of a relay.                *)
LEMMA RelayInductive == RelaySpec => []RelayInv
<1>1. (\E offer \in SessionOffers : SessionInit(offer)) => RelayInv
  BY RelayInitially
<1>2. RelayInv /\ [RelayNext]_relayVars => RelayInv'
  <2> SUFFICES ASSUME RelayInv, [RelayNext]_relayVars
               PROVE  RelayInv'
    OBVIOUS
  <2>1. CASE PrefaceDeadline
    <3>1. PICK pc \in {"preface_timeout", "connect"} : session' = [session EXCEPT !.pc = pc]
      BY <2>1 DEF PrefaceDeadline, End
    <3>2. pc \in RelayPcs /\ MovesOn(session.pc, pc) /\ UNCHANGED <<way, idle>>
      BY <2>1, <3>1 DEF MovesOn, PrefaceDeadline, RelayPcs, SessionOutcomes
    <3> QED
      BY <3>1, <3>2, PhaseKeeps
  <2>2. ASSUME NEW reached \in BOOLEAN, ConnectUpstream(reached) PROVE RelayInv'
    <3>1. PICK pc \in {"connect_failed", "replay"} : session' = [session EXCEPT !.pc = pc]
      BY <2>2 DEF ConnectUpstream, End
    <3>2. pc \in RelayPcs /\ MovesOn(session.pc, pc) /\ UNCHANGED <<way, idle>>
      BY <2>2, <3>1 DEF MovesOn, ConnectUpstream, RelayPcs, SessionOutcomes
    <3> QED
      BY <3>1, <3>2, PhaseKeeps
  <2>3. CASE Replay
    BY <2>3, ReplayKeeps
  <2>4. CASE RelayTick
    BY <2>4, TickKeeps
  <2>5. ASSUME NEW w \in Ways, RelayWritten(w) \/ RelayEnd(w) \/ RelayWaited(w) PROVE RelayInv'
    BY <2>5, WrittenKeeps, EndKeeps, WaitedKeeps
  <2>6. ASSUME NEW n \in 0..Len(way["client"].left), ReadPreface(n) PROVE RelayInv'
    BY <2>6, PrefaceKeeps
  <2>7. ASSUME NEW w \in Ways, NEW n \in 1..Len(way[w].left), RelayRead(w, n) PROVE RelayInv'
    BY <2>7, ReadKeeps
  <2>8. CASE RelayIoError
    <3>1. PICK pc : pc = "relay_io" /\ session' = [session EXCEPT !.pc = pc]
      BY <2>8 DEF RelayIoError, End
    <3>2. pc \in RelayPcs /\ MovesOn(session.pc, pc) /\ UNCHANGED <<way, idle>>
      BY <2>8, <3>1 DEF MovesOn, RelayIoError, RelayPcs, SessionOutcomes
    <3> QED
      BY <3>1, <3>2, PhaseKeeps
  <2>9. CASE UNCHANGED relayVars
    BY Zenon, SMTT(20), <2>9 DEF relayVars, RelayInv, RelayTypes, Gathered, Directions, CompletedBoth, BytesInOrder, IdleMeansBothQuiet
  <2> QED
    BY Zenon, SMTT(20), <2>1, <2>2, <2>3, <2>4, <2>5, <2>6, <2>7, <2>8, <2>9 DEF RelayNext, RelayProgress
<1> QED
  BY <1>1, <1>2, PTL DEF RelaySpec

(* What a session relays, for streams and reads of every length            *)
(* (proxy_tcp_stream, relay_upgraded_streams): the bytes arrive in order   *)
(* and from the first one on, a session completes only after both sides    *)
(* closed and everything was delivered, and the TCP proxy calls a session  *)
(* idle only when both directions were.                                    *)
THEOREM RelaySoundKept == RelaySpec => []RelaySound
<1>1. RelayInv => RelaySound
  <2> SUFFICES ASSUME RelayInv
               PROVE  RelaySound
    OBVIOUS
  <2>1. RelayTypeOK
    BY DEF RelayInv, RelayTypes, WayStates, RelayPcs, RelayTypeOK
  <2>2. CompletedWhole
    <3> SUFFICES ASSUME session.pc = "completed", NEW w \in Ways
                 PROVE  way[w].delivered = session.offer.bytes[w] /\ session.offer.closes[w]
      BY DEF CompletedWhole
    <3>1. way[w].left = <<>> /\ way[w].pending = <<>> /\ session.offer.closes[w]
      BY DEF RelayInv, CompletedBoth, Directions
    <3>2. (way[w].delivered \o <<>>) \o <<>> = session.offer.bytes[w]
      BY Zenon, SMTT(20), <3>1 DEF RelayInv, BytesInOrder
    <3>3. way[w].delivered \in Seq(Nat)
      BY DEF RelayInv, RelayTypes, WayStates
    <3>4. (way[w].delivered \o <<>>) \o <<>> = way[w].delivered
      BY <3>3, ConcatEmptySeq
    <3> QED
      BY <3>1, <3>2, <3>4
  <2> QED
    BY <2>1, <2>2 DEF RelayInv, RelaySound
<1> QED
  BY <1>1, RelayInductive, PTL

----------------------------------------------------------------------------
(* The circuit breaker of a route: its counters and its cool-down, for     *)
(* every policy the code accepts, any number of concurrent requests and    *)
(* any clock skew.                                                         *)

(***************************************************************************)
(* What CoolDown needs to be inductive: the stamp of an open breaker is at *)
(* most Skew ticks older than the last counted failure.                    *)
(***************************************************************************)
OpenedByLastFailure ==
    breaker.state = "Open" => breaker.opened_age <= cool_age + Skew

IInv == TypeOK /\ BreakerShape /\ OpenedByLastFailure

(***************************************************************************)
(* Arming a window keeps the record well-typed, needs the cool-down to     *)
(* have passed, and touches nothing but the state and the window.          *)
(***************************************************************************)
LEMMA ArmedFrame ==
    ASSUME NEW b \in BreakerRecord, NEW s \in Nat
    PROVE  /\ Armed(b, s) \in BreakerRecord
           /\ Armed(b, s).consecutive_failures = b.consecutive_failures
           /\ Armed(b, s).half_open_successes = b.half_open_successes
           /\ \/ Armed(b, s) = b
              \/ /\ b.state = "Open" => b.opened_age >= OpenDuration
                 /\ b.state /= "Closed"
                 /\ Armed(b, s).state = "HalfOpen"
                 /\ Armed(b, s).half_open_admitted = 0
<1>1. CASE Armed(b, s) = b
  BY <1>1
<1>2. CASE Armed(b, s) /= b
  <2>1. Armed(b, s) = ArmProbeWindow(b, s)
    BY <1>2 DEF Armed
  <2>2. b.state /= "Closed" /\ (b.state = "Open" => Elapsed(b.opened_age, s) >= OpenDuration)
    BY <1>2 DEF Armed
  <2>3. b.state = "Open" => b.opened_age >= OpenDuration
    BY <2>2, FailurePolicyAssumption
    DEF FailurePolicyAssumption, SatSub, Elapsed, BreakerRecord
  <2>4. ArmProbeWindow(b, s) \in BreakerRecord
    BY Zenon, SMTT(20) DEF ArmProbeWindow, BreakerRecord, BreakerStates
  <2>5. /\ ArmProbeWindow(b, s).state = "HalfOpen"
        /\ ArmProbeWindow(b, s).half_open_admitted = 0
        /\ ArmProbeWindow(b, s).consecutive_failures = b.consecutive_failures
        /\ ArmProbeWindow(b, s).half_open_successes = b.half_open_successes
    BY DEF ArmProbeWindow, BreakerRecord
  <2>6. QED
    BY SMTT(20), Zenon, <2>1, <2>2, <2>3, <2>4, <2>5
<1>3. QED
  BY Zenon, SMTT(20), <1>1, <1>2

(***************************************************************************)
(* allow_request counts an admission within the threshold and otherwise    *)
(* does what arming does.                                                  *)
(***************************************************************************)
LEMMA AllowRequestFrame ==
    ASSUME NEW b \in BreakerRecord, NEW s \in Nat,
           b.half_open_admitted <= HalfOpenSuccessThreshold
    PROVE  /\ AllowRequest(b, s) \in BreakerRecord
           /\ AllowRequest(b, s).consecutive_failures = b.consecutive_failures
           /\ AllowRequest(b, s).half_open_successes = b.half_open_successes
           /\ AllowRequest(b, s).half_open_admitted <= HalfOpenSuccessThreshold
           /\ AllowRequest(b, s).state = b.state
              \/ /\ b.state = "Open" => b.opened_age >= OpenDuration
                 /\ b.state /= "Closed"
                 /\ AllowRequest(b, s).state = "HalfOpen"
           /\ AllowRequest(b, s).state = "Open" => AllowRequest(b, s) = b
<1> DEFINE a == Armed(b, s)
<1>1. /\ a \in BreakerRecord
      /\ a.half_open_admitted <= HalfOpenSuccessThreshold
  <2>1. a = b \/ a.half_open_admitted = 0
    BY ArmedFrame
  <2>2. QED
    BY <2>1, ArmedFrame, FailurePolicyAssumption DEF FailurePolicyAssumption
<1>2. CASE a.state = "HalfOpen" /\ a.half_open_admitted < ProbeBudget(a)
  <2>1. AllowRequest(b, s) = [a EXCEPT !.half_open_admitted = @ + 1]
    BY <1>2 DEF AllowRequest
  <2>2. a.half_open_admitted + 1 <= HalfOpenSuccessThreshold
    BY <1>1, <1>2, FailurePolicyAssumption
    DEF FailurePolicyAssumption, ProbeBudget, SatSub, BreakerRecord
  <2> HIDE DEF a
  <2>3. QED
    BY <1>1, <1>2, <2>1, <2>2, ArmedFrame DEF a, BreakerRecord
<1>3. CASE ~(a.state = "HalfOpen" /\ a.half_open_admitted < ProbeBudget(a))
  <2>1. AllowRequest(b, s) = a
    BY <1>3 DEF AllowRequest
  <2>2. QED
    BY <1>1, <2>1, ArmedFrame
<1>4. QED
  BY Zenon, SMTT(20), <1>2, <1>3

(***************************************************************************)
(* allow_request keeps the counters in shape.                              *)
(***************************************************************************)
LEMMA AllowRequestShape ==
    ASSUME NEW b \in BreakerRecord, NEW s \in Nat, Shape(b)
    PROVE  AllowRequest(b, s) \in BreakerRecord /\ Shape(AllowRequest(b, s))
<1>1. b.half_open_admitted <= HalfOpenSuccessThreshold
  BY DEF Shape
<1>2. b.state = "Open" => b.half_open_successes < HalfOpenSuccessThreshold
  BY FailurePolicyAssumption DEF FailurePolicyAssumption, Shape
<1>3. AllowRequest(b, s) \in BreakerRecord
  BY <1>1, AllowRequestFrame
<1>4. QED
  BY Zenon, SMTT(20), <1>1, <1>2, <1>3, AllowRequestFrame DEF Shape, BreakerRecord, BreakerStates

(***************************************************************************)
(* record_success keeps the counters in shape and never leaves Open.       *)
(***************************************************************************)
LEMMA RecordSuccessShape ==
    ASSUME NEW b \in BreakerRecord, Shape(b)
    PROVE  /\ RecordSuccess(b) \in BreakerRecord
           /\ Shape(RecordSuccess(b))
           /\ b.state = "Open" <=> RecordSuccess(b).state = "Open"
           /\ b.state = "Open" => RecordSuccess(b) = b
<1>1. CASE b.state = "Closed"
  <2>1. RecordSuccess(b) = [b EXCEPT !.consecutive_failures = 0]
    BY <1>1 DEF RecordSuccess
  <2>2. QED
    BY <1>1, <2>1, FailurePolicyAssumption DEF FailurePolicyAssumption, Shape, BreakerRecord
<1>2. CASE b.state = "Open"
  BY <1>2 DEF RecordSuccess
<1>3. CASE b.state = "HalfOpen" /\ b.half_open_successes + 1 >= HalfOpenSuccessThreshold
  <2>1. RecordSuccess(b) = [b EXCEPT !.state = "Closed",
                                     !.consecutive_failures = 0,
                                     !.half_open_successes = 0]
    BY <1>3 DEF RecordSuccess
  <2>2. [b EXCEPT !.state = "Closed", !.consecutive_failures = 0,
                  !.half_open_successes = 0] \in BreakerRecord
    BY Zenon, SMTT(20) DEF BreakerRecord, BreakerStates
  <2>3. RecordSuccess(b) \in BreakerRecord
    BY <2>1, <2>2
  <2>4. QED
    BY <1>3, <2>1, <2>3, FailurePolicyAssumption DEF FailurePolicyAssumption, Shape, BreakerRecord
<1>4. CASE b.state = "HalfOpen" /\ ~(b.half_open_successes + 1 >= HalfOpenSuccessThreshold)
  <2>1. RecordSuccess(b) = [b EXCEPT !.half_open_successes = @ + 1]
    BY <1>4 DEF RecordSuccess
  <2>2. RecordSuccess(b) \in BreakerRecord
    BY <2>1 DEF BreakerRecord
  <2>3. QED
    BY <1>4, <2>1, <2>2, FailurePolicyAssumption DEF FailurePolicyAssumption, Shape, BreakerRecord
<1>5. QED
  BY Zenon, SMTT(20), <1>1, <1>2, <1>3, <1>4 DEF BreakerRecord, BreakerStates

(***************************************************************************)
(* record_failure keeps the counters in shape, never leaves Open, and      *)
(* stamps an open breaker with the caller's clock.                         *)
(***************************************************************************)
LEMMA RecordFailureShape ==
    ASSUME NEW b \in BreakerRecord, NEW s \in Nat, NEW class \in FailureClasses, Shape(b)
    PROVE  /\ RecordFailure(b, s, class) \in BreakerRecord
           /\ Shape(RecordFailure(b, s, class))
           /\ b.state = "Open" => RecordFailure(b, s, class).state = "Open"
           /\ CountsTowardBreaker(class) /\ RecordFailure(b, s, class).state = "Open"
                => RecordFailure(b, s, class).opened_age = s
           /\ ~CountsTowardBreaker(class) => RecordFailure(b, s, class) = b
<1>1. CASE ~CountsTowardBreaker(class)
  BY <1>1 DEF RecordFailure
<1>2. CASE CountsTowardBreaker(class) /\ b.state = "Closed"
           /\ ~(b.consecutive_failures + 1 >= OpenFailureThreshold)
  <2>1. RecordFailure(b, s, class) = [b EXCEPT !.consecutive_failures = @ + 1]
    BY <1>2 DEF RecordFailure
  <2>2. RecordFailure(b, s, class) \in BreakerRecord
    BY <2>1 DEF BreakerRecord
  <2>3. QED
    BY <1>2, <2>1, <2>2, FailurePolicyAssumption DEF FailurePolicyAssumption, Shape, BreakerRecord
<1>3. CASE CountsTowardBreaker(class) /\ b.state = "Closed"
           /\ b.consecutive_failures + 1 >= OpenFailureThreshold
  <2>1. b.consecutive_failures + 1 = OpenFailureThreshold
    BY <1>3, FailurePolicyAssumption DEF FailurePolicyAssumption, Shape, BreakerRecord
  <2>2. RecordFailure(b, s, class) = [b EXCEPT !.state = "Open",
                                               !.consecutive_failures = OpenFailureThreshold,
                                               !.opened_age = s,
                                               !.half_open_successes = 0]
    BY Zenon, SMTT(20), <1>3, <2>1 DEF RecordFailure
  <2>3. [b EXCEPT !.state = "Open", !.consecutive_failures = OpenFailureThreshold,
                  !.opened_age = s, !.half_open_successes = 0] \in BreakerRecord
    BY Zenon, SMTT(20), FailurePolicyAssumption DEF FailurePolicyAssumption, BreakerRecord, BreakerStates
  <2>4. RecordFailure(b, s, class) \in BreakerRecord
    BY <2>2, <2>3
  <2>5. QED
    BY <1>3, <2>2, <2>4 DEF Shape, BreakerRecord
<1>4. CASE CountsTowardBreaker(class) /\ b.state = "HalfOpen"
  <2>1. RecordFailure(b, s, class) = [b EXCEPT !.state = "Open",
                                               !.consecutive_failures = OpenFailureThreshold,
                                               !.opened_age = s,
                                               !.half_open_successes = 0]
    BY <1>4 DEF RecordFailure
  <2>2. [b EXCEPT !.state = "Open", !.consecutive_failures = OpenFailureThreshold,
                  !.opened_age = s, !.half_open_successes = 0] \in BreakerRecord
    BY Zenon, SMTT(20), FailurePolicyAssumption DEF FailurePolicyAssumption, BreakerRecord, BreakerStates
  <2>3. RecordFailure(b, s, class) \in BreakerRecord
    BY <2>1, <2>2
  <2>4. QED
    BY <1>4, <2>1, <2>3, FailurePolicyAssumption DEF FailurePolicyAssumption, Shape, BreakerRecord
<1>5. CASE CountsTowardBreaker(class) /\ b.state = "Open"
  <2>1. RecordFailure(b, s, class) = [b EXCEPT !.opened_age = s]
    BY <1>5 DEF RecordFailure
  <2>2. RecordFailure(b, s, class) \in BreakerRecord
    BY <2>1 DEF BreakerRecord
  <2>3. QED
    BY <1>5, <2>1, <2>2, FailurePolicyAssumption DEF FailurePolicyAssumption, Shape, BreakerRecord
<1>6. QED
  BY Zenon, SMTT(20), <1>1, <1>2, <1>3, <1>4, <1>5 DEF BreakerRecord, BreakerStates

(***************************************************************************)
(* The inductive step, one step per action.                                *)
(***************************************************************************)
LEMMA NextPreserves ==
    IInv /\ [Next]_vars => IInv'
<1> SUFFICES ASSUME IInv, [Next]_vars PROVE IInv'
  OBVIOUS
<1> USE FailurePolicyAssumption DEF FailurePolicyAssumption, IInv
<1>1. ASSUME NEW r \in Requests, NEW s \in 0..Skew, Rejected(r, s)
      PROVE  IInv'
  <2>1. s \in Nat /\ breaker \in BreakerRecord /\ Shape(breaker)
    BY DEF TypeOK, BreakerShape
  <2>2. breaker' \in BreakerRecord /\ Shape(breaker')
    BY <1>1, <2>1, AllowRequestShape DEF Rejected
  <2>3. TypeOK' /\ BreakerShape'
    BY <1>1, <2>2 DEF Rejected, TypeOK, BreakerShape, history, ProbeSpan
  <2>4. OpenedByLastFailure'
    BY Zenon, SMTT(20), <1>1, <2>1, AllowRequestFrame DEF Rejected, Shape, OpenedByLastFailure, history
  <2>5. QED
    BY <2>3, <2>4
<1>2. ASSUME NEW r \in Requests, NEW s \in 0..Skew, Admitted(r, s)
      PROVE  IInv'
  <2>1. s \in Nat /\ breaker \in BreakerRecord /\ Shape(breaker)
    BY DEF TypeOK, BreakerShape
  <2>2. breaker' \in BreakerRecord /\ Shape(breaker')
    BY Zenon, SMTT(20), <1>2, <2>1, AllowRequestShape DEF Admitted
  <2>3. phase' \in [Requests -> {"idle", "plain", "probe"}]
    BY Zenon, SMTT(20), <1>2 DEF Admitted, TypeOK
  <2>4. probes_at' \in [0..(ProbeSpan - 1) -> Nat]
    BY <1>2 DEF Admitted, TypeOK
  <2>5. probe_lost' \in BOOLEAN
    BY <1>2, Zenon, SMTT(20) DEF Admitted, TypeOK
  <2>6. TypeOK' /\ BreakerShape'
    BY Zenon, SMTT(20), <1>2, <2>2, <2>3, <2>4, <2>5 DEF Admitted, TypeOK, BreakerShape, ProbeSpan
  <2>7. OpenedByLastFailure'
    BY Zenon, SMTT(20), <1>2, <2>1, AllowRequestFrame DEF Admitted, Shape, OpenedByLastFailure
  <2>8. QED
    BY <2>6, <2>7
<1>3. ASSUME NEW r \in Requests, Succeed(r)
      PROVE  IInv'
  <2>1. breaker \in BreakerRecord /\ Shape(breaker)
    BY DEF TypeOK, BreakerShape
  <2>2. breaker' \in BreakerRecord /\ Shape(breaker')
    BY <1>3, <2>1, RecordSuccessShape DEF Succeed
  <2>4. TypeOK' /\ BreakerShape'
    BY <1>3, <2>2 DEF Succeed, TypeOK, BreakerShape, ProbeSpan
  <2>5. OpenedByLastFailure'
    BY <1>3, <2>1, RecordSuccessShape DEF Succeed, OpenedByLastFailure
  <2>6. QED
    BY <2>4, <2>5
<1>4. ASSUME NEW r \in Requests, NEW s \in 0..Skew, NEW class \in FailureClasses,
             Fail(r, s, class)
      PROVE  IInv'
  <2>1. s \in Nat /\ s <= Skew /\ breaker \in BreakerRecord /\ Shape(breaker)
    BY DEF TypeOK, BreakerShape
  <2>2. breaker' \in BreakerRecord /\ Shape(breaker')
    BY Zenon, SMTT(20), <1>4, <2>1, RecordFailureShape DEF Fail
  <2>3. probe_lost' \in BOOLEAN
    BY <1>4, Zenon, SMTT(20) DEF Fail, TypeOK
  <2>4. TypeOK' /\ BreakerShape'
    BY Zenon, SMTT(20), <1>4, <2>2, <2>3 DEF Fail, TypeOK, BreakerShape, ProbeSpan
  <2>5. OpenedByLastFailure'
    BY <1>4, <2>1, RecordFailureShape DEF Fail, OpenedByLastFailure
  <2>6. QED
    BY <2>4, <2>5
<1>5. ASSUME NEW r \in Requests, Lose(r)
      PROVE  IInv'
  <2>1. probe_lost' \in BOOLEAN
    BY <1>5, Zenon, SMTT(20) DEF Lose, TypeOK
  <2>2. QED
    BY Zenon, SMTT(20), <1>5, <2>1 DEF Lose, TypeOK, BreakerShape, Shape, OpenedByLastFailure, ProbeSpan
<1>6. CASE Tick
  <2>1. breaker \in BreakerRecord /\ Shape(breaker) /\ cool_age \in Nat
    BY DEF TypeOK, BreakerShape
  <2>2. BreakerAgeCap \in Nat
    BY DEF BreakerAgeCap
  <2>3. \A n \in Nat : Older(n, BreakerAgeCap) \in Nat
    BY <2>2 DEF Older
  <2>4. AgeBreaker(breaker) \in BreakerRecord
    BY Zenon, SMTT(20), <2>1, <2>3 DEF AgeBreaker, BreakerRecord
  <2>5. breaker' \in BreakerRecord /\ Shape(breaker') /\ cool_age' \in Nat
    BY SMTT(20), Zenon, <1>6, <2>1, <2>3, <2>4 DEF Tick, AgeBreaker, BreakerRecord, Shape
  <2>6. probes_at' \in [0..(ProbeSpan - 1) -> Nat]
    BY <1>6 DEF Tick, TypeOK, ProbeSpan, SatSub
  <2>7. TypeOK' /\ BreakerShape'
    BY Zenon, SMTT(20), <1>6, <2>5, <2>6 DEF Tick, TypeOK, BreakerShape, ProbeSpan
  <2>8. OpenedByLastFailure'
    BY SMTT(20), Zenon, <1>6, <2>1, <2>2 DEF Tick, AgeBreaker, Older, OpenedByLastFailure, BreakerRecord
  <2>9. QED
    BY <2>7, <2>8
<1>7. CASE Heal
  BY Zenon, SMTT(20), <1>7 DEF Heal, TypeOK, BreakerShape, Shape, OpenedByLastFailure, ProbeSpan, history
<1>8. CASE UNCHANGED vars
  BY Zenon, SMTT(20), <1>8 DEF vars, history, TypeOK, BreakerShape, Shape, OpenedByLastFailure, ProbeSpan
<1>9. QED
  BY Zenon, SMTT(20), <1>1, <1>2, <1>3, <1>4, <1>5, <1>6, <1>7, <1>8 DEF Next, Arrive

(***************************************************************************)
(* Every reachable state satisfies the inductive invariant.                *)
(***************************************************************************)
LEMMA Inductive == Spec => []IInv
<1>1. Init => IInv
  <2> SUFFICES ASSUME Init PROVE IInv
    OBVIOUS
  <2> USE FailurePolicyAssumption DEF FailurePolicyAssumption, Init, NewBreaker, BreakerAgeCap
  <2>1. breaker \in BreakerRecord
    BY DEF BreakerRecord, BreakerStates
  <2>2. probes_at \in [0..(ProbeSpan - 1) -> Nat] /\ cool_age \in Nat
    OBVIOUS
  <2>3. phase \in [Requests -> {"idle", "plain", "probe"}]
    OBVIOUS
  <2>4. healed \in BOOLEAN /\ probe_lost \in BOOLEAN
    BY Zenon, SMTT(20)
  <2>5. TypeOK
    BY <2>1, <2>2, <2>3, <2>4, Zenon, SMTT(20) DEF TypeOK
  <2>6. BreakerShape /\ OpenedByLastFailure
    BY DEF BreakerShape, Shape, OpenedByLastFailure
  <2>7. QED
    BY Zenon, SMTT(20), <2>5, <2>6 DEF IInv
<1>2. QED
  BY <1>1, NextPreserves, PTL DEF Spec

(***************************************************************************)
(* The breaker's variables keep their types.                               *)
(***************************************************************************)
THEOREM TypeCorrect == Spec => []TypeOK
<1>1. IInv => TypeOK
  BY DEF IInv
<1>2. QED
  BY <1>1, Inductive, PTL

(***************************************************************************)
(* allow_request, record_success and record_failure keep the counters of   *)
(* the breaker consistent with its state, in every interleaving.           *)
(***************************************************************************)
THEOREM ShapeKept == Spec => []BreakerShape
<1>1. IInv => BreakerShape
  BY DEF IInv
<1>2. QED
  BY <1>1, Inductive, PTL

(***************************************************************************)
(* An open breaker admits nobody before the cool-down since the last       *)
(* counted failure is over, and it can only become half-open.              *)
(***************************************************************************)
THEOREM CoolDownKept == Spec => CoolDown
<1> DEFINE Step == breaker.state = "Open" /\ breaker'.state /= "Open" =>
                      /\ breaker'.state = "HalfOpen"
                      /\ cool_age + Skew >= OpenDuration
<1>1. IInv /\ [Next]_vars => [Step]_vars
  <2> SUFFICES ASSUME IInv, Next PROVE Step
    OBVIOUS
  <2> USE FailurePolicyAssumption DEF FailurePolicyAssumption
  <2>1. breaker \in BreakerRecord /\ Shape(breaker) /\ cool_age \in Nat
    BY DEF IInv, TypeOK, BreakerShape
  <2>2. ASSUME NEW r \in Requests, NEW s \in 0..Skew, Rejected(r, s) \/ Admitted(r, s)
        PROVE  Step
    <3>1. breaker' = AllowRequest(breaker, s) /\ s \in Nat
      BY <2>2 DEF Rejected, Admitted
    <3>2. breaker.half_open_admitted <= HalfOpenSuccessThreshold
      BY <2>1 DEF Shape
    <3>3. breaker.state = "Open" /\ breaker'.state /= "Open" =>
             breaker'.state = "HalfOpen" /\ breaker.opened_age >= OpenDuration
      BY <2>1, <3>1, <3>2, AllowRequestFrame
    <3>4. breaker.state = "Open" => breaker.opened_age <= cool_age + Skew
      BY DEF IInv, OpenedByLastFailure
    <3>5. QED
      BY <2>1, <3>3, <3>4 DEF BreakerRecord
  <2>3. ASSUME NEW r \in Requests, Succeed(r)
        PROVE  Step
    BY SMTT(20), Zenon, <2>1, <2>3, RecordSuccessShape DEF Succeed
  <2>4. ASSUME NEW r \in Requests, NEW s \in 0..Skew, NEW class \in FailureClasses,
               Fail(r, s, class)
        PROVE  Step
    BY <2>1, <2>4, RecordFailureShape DEF Fail
  <2>5. ASSUME NEW r \in Requests, Lose(r)
        PROVE  Step
    BY <2>5 DEF Lose
  <2>6. CASE Tick
    BY <2>1, <2>6 DEF Tick, AgeBreaker, BreakerRecord
  <2>7. CASE Heal
    BY <2>7 DEF Heal
  <2>8. QED
    BY Zenon, SMTT(20), <2>2, <2>3, <2>4, <2>5, <2>6, <2>7 DEF Next, Arrive
<1>2. QED
  BY <1>1, Inductive, PTL DEF Spec, CoolDown
=============================================================================
