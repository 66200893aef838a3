-------------------------- MODULE ForwardingProofs --------------------------
(***************************************************************************)
(* Proofs about forwarding to an upstream, each of its two sides a         *)
(* specification of its own.                                               *)
(*                                                                         *)
(* One downstream connection (Http1Connection), for every failure policy   *)
(* the code accepts, any set of request heads, upstream targets and        *)
(* statuses, and any number of requests: a request is answered once, but   *)
(* for a tunnel that fails with a stale cache entry at hand, its attempts  *)
(* are accounted for, and no response goes to another request unless an    *)
(* exchange before it was cut short.                                       *)
(*                                                                         *)
(* The registry of upstream health (UpstreamHealth), for every policy and  *)
(* every set of clusters and endpoints: it is well formed, ejects within   *)
(* the budget, serves every ejection in full and readmits only after       *)
(* enough successes.                                                       *)
(***************************************************************************)
EXTENDS Http1Connection, UpstreamHealth, FiniteSetTheorems, SequenceTheorems, TLAPS

----------------------------------------------------------------------------
(* The history of a request                                                *)

(* A head written for the request, with the response in hand or not, and   *)
(* bytes left in the buffer.                                               *)
LEMMA HeadFields ==
    ASSUME NEW r \in SeenRecord
    PROVE  /\ WithHead(r) \in SeenRecord
           /\ WithHead(r).heads = r.heads + 1 /\ WithHead(r).sends = r.sends /\ WithHead(r).owed = r.owed
           /\ WithHead(r).foreign = r.foreign /\ WithHead(r).cut = r.cut
BY DEF WithHead, SeenRecord

LEMMA ForeignFields ==
    ASSUME NEW r \in SeenRecord, NEW f \in BOOLEAN, NEW w, w = [r EXCEPT !.foreign = f]
    PROVE  /\ w \in SeenRecord /\ w.heads = r.heads /\ w.sends = r.sends /\ w.owed = r.owed
           /\ w.foreign = f /\ w.cut = r.cut
BY DEF SeenRecord

LEMMA CutFields ==
    ASSUME NEW r \in SeenRecord, NEW c \in BOOLEAN, NEW w, w = [r EXCEPT !.cut = c]
    PROVE  /\ w \in SeenRecord /\ w.heads = r.heads /\ w.sends = r.sends /\ w.owed = r.owed
           /\ w.foreign = r.foreign /\ w.cut = c
BY DEF SeenRecord

LEMMA ResponseFields ==
    ASSUME NEW r \in SeenRecord
    PROVE  /\ WithResponse(r) \in SeenRecord
           /\ WithResponse(r).heads = r.heads + 1 /\ WithResponse(r).sends = r.sends
           /\ WithResponse(r).owed = r.owed /\ WithResponse(r).cut = r.cut
           /\ WithResponse(r).foreign <=> (r.foreign \/ response.of /= req)
<1>1. /\ WithHead(r) \in SeenRecord /\ WithHead(r).heads = r.heads + 1 /\ WithHead(r).sends = r.sends
      /\ WithHead(r).owed = r.owed /\ WithHead(r).foreign = r.foreign /\ WithHead(r).cut = r.cut
  BY Zenon, SMTT(20), HeadFields
<1>2. PICK f \in BOOLEAN : f = (WithHead(r).foreign \/ response.of /= req)
  BY Zenon, SMTT(20)
<1>3. WithResponse(r) = [WithHead(r) EXCEPT !.foreign = f]
  BY Zenon, SMTT(20), <1>2 DEF WithResponse
<1>4. /\ WithResponse(r) \in SeenRecord /\ WithResponse(r).heads = WithHead(r).heads
      /\ WithResponse(r).sends = WithHead(r).sends /\ WithResponse(r).owed = WithHead(r).owed
      /\ WithResponse(r).foreign = f /\ WithResponse(r).cut = WithHead(r).cut
  BY SMTT(20), Zenon, <1>1, <1>3, ForeignFields
<1> QED
  BY Zenon, SMTT(20), <1>1, <1>2, <1>4

LEMMA LeftFields ==
    ASSUME NEW r \in SeenRecord, NEW bytes
    PROVE  /\ WithLeft(r, bytes) \in SeenRecord
           /\ WithLeft(r, bytes).heads = r.heads /\ WithLeft(r, bytes).sends = r.sends
           /\ WithLeft(r, bytes).owed = r.owed /\ WithLeft(r, bytes).foreign = r.foreign
           /\ WithLeft(r, bytes).cut <=> (r.cut \/ bytes /= <<>>)
<1>1. PICK c \in BOOLEAN : c = (r.cut \/ bytes /= <<>>)
  BY Zenon, SMTT(20)
<1>2. WithLeft(r, bytes) = [r EXCEPT !.cut = c]
  BY Zenon, SMTT(20), <1>1 DEF WithLeft
<1>3. /\ WithLeft(r, bytes) \in SeenRecord /\ WithLeft(r, bytes).heads = r.heads
      /\ WithLeft(r, bytes).sends = r.sends /\ WithLeft(r, bytes).owed = r.owed
      /\ WithLeft(r, bytes).foreign = r.foreign /\ WithLeft(r, bytes).cut = c
  BY SMTT(20), Zenon, <1>2, CutFields
<1> QED
  BY Zenon, SMTT(20), <1>1, <1>3

(* An outcome, or nothing, told to the breaker: the rest stays.            *)
Told(r, t) ==
    /\ t \in SeenRecord
    /\ t.heads = r.heads /\ t.sends = r.sends /\ t.foreign = r.foreign /\ t.cut = r.cut
    /\ t.owed = r.owed \/ t.owed = r.owed - 1

(* Whatever of its outcome is reported, or nothing, the record only tells. *)
LEMMA ReportFields ==
    ASSUME NEW r \in SeenRecord
    PROVE  /\ Told(r, r) /\ Told(r, WithReport(r)) /\ Told(r, WithTimeoutReport(r))
           /\ config.enforce_circuit_breaker => WithReport(r).owed = r.owed - 1
<1>1. ASSUME NEW o \in Int
      PROVE  LET w == [r EXCEPT !.owed = o]
             IN  /\ w \in SeenRecord /\ w.heads = r.heads /\ w.sends = r.sends /\ w.owed = o
                 /\ w.foreign = r.foreign /\ w.cut = r.cut
  BY DEF SeenRecord
<1>2. r.owed \in Int /\ r.owed - 1 \in Int
  BY DEF SeenRecord
<1>3. WithReport(r) = [r EXCEPT !.owed = r.owed] \/ WithReport(r) = [r EXCEPT !.owed = r.owed - 1]
  BY Zenon, SMTT(20) DEF WithReport
<1>4. WithTimeoutReport(r) = [r EXCEPT !.owed = r.owed] \/ WithTimeoutReport(r) = [r EXCEPT !.owed = r.owed - 1]
  BY Zenon, SMTT(20) DEF WithTimeoutReport
<1>5. config.enforce_circuit_breaker => WithReport(r) = [r EXCEPT !.owed = r.owed - 1]
  BY Zenon, SMTT(20) DEF WithReport
<1>6. Told(r, [r EXCEPT !.owed = r.owed]) /\ Told(r, [r EXCEPT !.owed = r.owed - 1])
  BY Zenon, SMTT(20), <1>1, <1>2 DEF Told
<1>7. Told(r, r)
  BY Zenon, SMTT(20) DEF Told
<1>8. [r EXCEPT !.owed = r.owed - 1].owed = r.owed - 1
  BY Zenon, SMTT(20), <1>1, <1>2
<1> QED
  BY Zenon, SMTT(20), <1>3, <1>4, <1>5, <1>6, <1>7, <1>8

(* An admission of an attempt or of a retry.                               *)
LEMMA AdmissionFields ==
    ASSUME NEW r \in SeenRecord
    PROVE  /\ WithAdmission(r) \in SeenRecord
           /\ WithAdmission(r).heads = r.heads /\ WithAdmission(r).sends = r.sends
           /\ WithAdmission(r).foreign = r.foreign /\ WithAdmission(r).cut = r.cut
           /\ config.enforce_circuit_breaker => WithAdmission(r).owed = r.owed + 1
<1>1. ASSUME NEW o \in Int
      PROVE  LET w == [r EXCEPT !.owed = o]
             IN  /\ w \in SeenRecord /\ w.heads = r.heads /\ w.sends = r.sends /\ w.owed = o
                 /\ w.foreign = r.foreign /\ w.cut = r.cut
  BY DEF SeenRecord
<1>2. PICK o \in Int : /\ WithAdmission(r) = [r EXCEPT !.owed = o]
                       /\ config.enforce_circuit_breaker => o = r.owed + 1
  <2>1. r.owed \in Int /\ r.owed + 1 \in Int
    BY DEF SeenRecord
  <2> QED
    BY Zenon, SMTT(20), <2>1 DEF WithAdmission
<1> QED
  BY SMTT(20), Zenon, <1>1, <1>2

----------------------------------------------------------------------------
(* The inductive invariant                                                 *)

(* Before anything of the response is written.                             *)
Serving == pc \in {"policy", "attempt", "connect", "send", "ask", "pay", "body", "await", "response"}

(* From the admission of an attempt to its outcome.                        *)
Attempting == pc \in {"connect", "send", "body", "await", "response", "relay", "tunnel"}

(* Between exchanges.                                                      *)
Between == pc \in {"idle", "policy", "attempt", "connect", "send", "ask", "pay"}

AtMostTwoHeads(heads) == heads <= 1 \/ (heads = 2 /\ Switching /\ plan.stale)

(* Nothing is answered before the relay of a response, which begins with   *)
(* its head, and everything is answered when the next head is awaited.     *)
HeadsOK ==
    /\ Serving => seen.heads = 0
    /\ pc \in {"relay", "tunnel"} => seen.heads = 1
    /\ pc = "tunnel" => Switching
    /\ pc = "idle" /\ req > 0 => seen.heads >= 1
    /\ AtMostTwoHeads(seen.heads)

(* A second send is the one retry of a replayable request.                 *)
SendsOK ==
    /\ pc \in {"policy", "attempt", "connect", "send"} => seen.sends = 0 \/ (retried /\ seen.sends = 1)
    /\ pc \in {"ask", "pay"} => ~retried /\ request.safe
    /\ pc = "policy" => ~retried
    /\ retried => request.safe
    /\ seen.sends <= 2
    /\ seen.sends = 2 => retried

OverHttp3 == request.target \in Http3Targets

InOwedRange(owed) ==
    owed \in IF OverHttp3 THEN {-1, 0} ELSE 0..(IF retried THEN 2 ELSE 1)

(* The breaker is owed one outcome from the admission of an attempt on,    *)
(* and one more once a retry was admitted, which no outcome answers.       *)
OwedOK ==
    /\ Attempting \/ pc \in {"ask", "pay"} \/ retried => ~OverHttp3
    /\ config.enforce_circuit_breaker =>
          /\ pc = "policy" => seen.owed = 0
          /\ pc = "attempt" => seen.owed = IF retried THEN 1 ELSE 0
          /\ Attempting => seen.owed = IF retried THEN 2 ELSE 1
          /\ pc = "ask" => seen.owed = 0
          /\ pc = "pay" => seen.owed = 1
          /\ InOwedRange(seen.owed)

(* Unless an exchange was left, the upstream owes exactly the answer of    *)
(* the request in flight, and the buffer is empty until it comes.          *)
OwnOK ==
    ~seen.cut =>
       /\ ~seen.foreign
       /\ Between => pending = <<>>
       /\ pc \in {"body", "await"} => pending = <<req>>
       /\ Between \/ pc \in {"body", "await"} => upstream_buffer = <<>>
       /\ pc = "response" => response.of = req
       /\ pc \in {"response", "relay"} /\ response.status /= "Interim" => pending = <<>>
       /\ pc = "relay" => response.status /= "Interim"
       /\ pc \in {"response", "relay"} /\ response.status = "NotModified" => upstream_buffer = <<>>

Inv ==
    /\ config \in ConfigRecord
    /\ pc \in ProgramPoints
    /\ req \in Nat
    /\ seen \in SeenRecord
    /\ retried \in BOOLEAN
    /\ HeadsOK /\ SendsOK /\ OwedOK /\ OwnOK

(* What the runs check follows.                                            *)
LEMMA InvImplies ==
    ASSUME Inv
    PROVE  OneResponse /\ AttemptsAccounted /\ OwnResponseUnlessCut
<1>1. seen.sends \in Nat /\ seen.heads \in Nat
  BY DEF Inv, SeenRecord
<1>2. OneResponse
  BY <1>1 DEF Inv, HeadsOK, AtMostTwoHeads, OneResponse
<1>3. AttemptsAccounted
  <2>1. ReplayOnlySafe
    BY Zenon, SMTT(20), <1>1 DEF Inv, SendsOK, ReplayOnlySafe
  <2>2. ReportsMatchAdmissions
    BY Zenon, SMTT(20) DEF Inv, OwedOK, InOwedRange, OverHttp3, ReportsMatchAdmissions
  <2> QED
    BY <2>1, <2>2 DEF AttemptsAccounted
<1>4. OwnResponseUnlessCut
  BY Zenon, SMTT(20) DEF Inv, OwnOK, OwnResponseUnlessCut
<1> QED
  BY <1>2, <1>3, <1>4

----------------------------------------------------------------------------
(* Steps that end a request                                                *)

SameRequest == config' = config /\ req' = req /\ request' = request /\ plan' = plan

SameResponse == SameRequest /\ response' = response /\ retried' = retried

(* A request that is over: it was answered if the loop goes on, and unless *)
(* an exchange was left the connection and the buffer hold nothing of it.  *)
Over(t) ==
    /\ SameResponse
    /\ pc' \in {"idle", "stalled", "closed"}
    /\ seen' = t /\ t \in SeenRecord
    /\ AtMostTwoHeads(t.heads) /\ (pc' = "idle" => t.heads >= 1)
    /\ t.sends = seen.sends
    /\ config.enforce_circuit_breaker => InOwedRange(t.owed)
    /\ ~t.cut => /\ ~t.foreign
                 /\ pc' = "idle" => pending' = <<>> /\ upstream_buffer' = <<>>

(* Ending the exchange (back to idle, or closed) keeps the invariant.      *)
LEMMA OverKeeps ==
    ASSUME Inv, NEW t, Over(t)
    PROVE  Inv'
<1>1. /\ config' \in ConfigRecord /\ pc' \in ProgramPoints /\ req' \in Nat /\ seen' \in SeenRecord
      /\ retried' \in BOOLEAN
  BY Zenon, SMTT(20) DEF Inv, Over, SameRequest, SameResponse, ProgramPoints
<1>2. /\ pc' \notin {"policy", "attempt", "connect", "send", "ask", "pay", "body", "await", "response"}
      /\ pc' \notin {"relay", "tunnel"}
  BY DEF Over
<1>3. HeadsOK'
  BY Zenon, SMTT(20), <1>2 DEF Over, HeadsOK, Serving, AtMostTwoHeads, Switching, SameRequest, SameResponse
<1>4. SendsOK'
  BY Zenon, SMTT(20), <1>2 DEF Inv, Over, SameRequest, SameResponse, SendsOK
<1>5. OwedOK'
  BY Zenon, SMTT(20), <1>2 DEF Inv, Over, SameRequest, SameResponse, OwedOK, Attempting, InOwedRange, OverHttp3
<1>6. OwnOK'
  BY Zenon, SMTT(20), <1>2 DEF Over, OwnOK, Between
<1> QED
  BY Zenon, SMTT(20), <1>1, <1>3, <1>4, <1>5, <1>6 DEF Inv

(* What the invariant says while a request is being served.                *)
LEMMA ServingFacts ==
    ASSUME Inv
    PROVE  /\ seen \in SeenRecord /\ seen.heads \in Nat /\ seen.owed \in Int
           /\ AtMostTwoHeads(seen.heads)
           /\ ~seen.cut => ~seen.foreign
           /\ Serving => seen.heads = 0
           /\ pc = "tunnel" => seen.heads = 1 /\ Switching
BY Zenon, SMTT(20) DEF Inv, HeadsOK, OwnOK, SeenRecord

(* Where an outcome may be reported.                                       *)
MayReport == Attempting \/ (pc = "attempt" /\ OverHttp3)

(* What was told to the breaker leaves no more owed than was admitted.     *)
LEMMA ToldInRange ==
    ASSUME Inv, NEW t, Told(seen, t), t.owed = seen.owed \/ MayReport, config.enforce_circuit_breaker
    PROVE  InOwedRange(t.owed)
<1>1. InOwedRange(seen.owed) /\ retried \in BOOLEAN
  BY Zenon, SMTT(20) DEF Inv, OwedOK
<1>2. CASE t.owed = seen.owed
  BY Zenon, SMTT(20), <1>1, <1>2
<1>3. CASE t.owed = seen.owed - 1 /\ Attempting
  <2>1. ~OverHttp3 /\ seen.owed = IF retried THEN 2 ELSE 1
    BY Zenon, SMTT(20), <1>3 DEF Inv, OwedOK
  <2> QED
    BY <1>1, <1>3, <2>1 DEF InOwedRange
<1>4. CASE t.owed = seen.owed - 1 /\ pc = "attempt" /\ OverHttp3
  <2>1. ~retried /\ seen.owed = 0
    BY Zenon, SMTT(20), <1>1, <1>4 DEF Inv, OwedOK
  <2> QED
    BY <1>4, <2>1 DEF InOwedRange
<1> QED
  BY Zenon, SMTT(20), <1>2, <1>3, <1>4 DEF Told, MayReport

(* process_uncached_request ends in an error before anything was answered, *)
(* or in a tunnel.                                                         *)
LEMMA FailedOver ==
    ASSUME Inv, NEW t, Told(seen, t), NEW error, NEW bytes, Failed(error, t, bytes), SameResponse,
           t.owed = seen.owed \/ MayReport,
           Serving \/ pc = "tunnel" \/ ~(plan.stale /\ ErrorAllowsStaleIfError(error))
    PROVE  Inv'
<1>1. pending' = <<>> /\ upstream_buffer' = bytes
  BY Zenon, SMTT(20) DEF Failed
<1>2. /\ t \in SeenRecord /\ t.heads = seen.heads /\ t.sends = seen.sends
      /\ t.foreign = seen.foreign /\ t.cut = seen.cut
  BY Zenon, SMTT(20) DEF Told
<1>3. config.enforce_circuit_breaker => InOwedRange(t.owed)
  BY Zenon, SMTT(20), ToldInRange
<1>4. CASE plan.stale /\ ErrorAllowsStaleIfError(error)
  <2> DEFINE l == WithLeft(t, bytes)
             u == WithHead(l)
  <2>1. seen' = u /\ pc' \in {"idle", "closed"}
    BY Zenon, SMTT(20), <1>4 DEF Failed, NextRequest
  <2>2. /\ l \in SeenRecord /\ l.heads = t.heads /\ l.sends = t.sends /\ l.owed = t.owed
        /\ l.foreign = t.foreign /\ (l.cut <=> (t.cut \/ bytes /= <<>>))
    BY Zenon, SMTT(20), <1>2, LeftFields
  <2> HIDE DEF l
  <2>3. /\ u \in SeenRecord /\ u.heads = l.heads + 1 /\ u.sends = l.sends /\ u.owed = l.owed
        /\ u.foreign = l.foreign /\ u.cut = l.cut
    BY Zenon, SMTT(20), <2>2, HeadFields
  <2> HIDE DEF u
  <2>4. u.heads = seen.heads + 1 /\ (seen.heads = 0 \/ (seen.heads = 1 /\ Switching))
    BY Zenon, SMTT(20), <1>2, <1>4, <2>2, <2>3, ServingFacts
  <2>5. AtMostTwoHeads(u.heads) /\ u.heads >= 1
    BY <1>4, <2>4 DEF AtMostTwoHeads
  <2>6. ~u.cut => ~u.foreign /\ bytes = <<>>
    BY Zenon, SMTT(20), <1>2, <2>2, <2>3, ServingFacts
  <2>7. Over(u)
    BY Zenon, SMTT(20), <1>1, <1>2, <1>3, <2>1, <2>2, <2>3, <2>5, <2>6 DEF Over
  <2> QED
    BY Zenon, SMTT(20), <2>7, OverKeeps
<1>5. CASE ~(plan.stale /\ ErrorAllowsStaleIfError(error))
  <2>1. seen' = t /\ pc' = "closed"
    BY Zenon, SMTT(20), <1>5 DEF Failed
  <2>2. Over(t)
    BY Zenon, SMTT(20), <1>2, <1>3, <2>1, ServingFacts DEF Over
  <2> QED
    BY Zenon, SMTT(20), <2>2, OverKeeps
<1> QED
  BY Zenon, SMTT(20), <1>4, <1>5

(* The connection as it is between exchanges.                              *)
LEMMA QuietConnection ==
    ASSUME Inv, Between, ~seen.cut
    PROVE  pending = <<>> /\ upstream_buffer = <<>>
BY Zenon, SMTT(20) DEF Inv, OwnOK

(* Answers before the dispatch, from the cache, by an open breaker and by  *)
(* HTTP/3 (connection_proxy.rs, cache lookup, allow_destination_request).  *)
LEMMA AnswersKeep ==
    ASSUME Inv,
           \/ RefuseSource \/ RefuseTransform \/ RefuseUpgrade \/ RefuseByDestination
           \/ \E blocked \in BOOLEAN : RefuseRoute(blocked)
           \/ ServeFromCache \/ RejectOpenCircuit
           \/ \E status \in {"Ok", "Draining"} \cup ServerErrors : DispatchHttp3(status)
    PROVE  Inv'
<1>1. /\ pc \in {"policy", "attempt"} /\ pc' \in {"idle", "closed"} /\ SameResponse
      /\ upstream_buffer' = upstream_buffer /\ pending' \in {<<>>, pending}
  BY Zenon, SMTT(20) DEF RefuseSource, RefuseTransform, RefuseUpgrade, RefuseByDestination, RefuseRoute, AnswerLocally,
         ServeFromCache, RejectOpenCircuit, DispatchHttp3, NextRequest, DropUpstream, SameRequest, SameResponse, conn, failure
<1>2. PICK t : /\ seen' = WithHead(t)
               /\ t = seen \/ (t = WithReport(seen) /\ pc = "attempt" /\ OverHttp3)
  BY Zenon, SMTT(20) DEF RefuseSource, RefuseTransform, RefuseUpgrade, RefuseByDestination, RefuseRoute, AnswerLocally,
         ServeFromCache, RejectOpenCircuit, DispatchHttp3, OverHttp3
<1>3. Told(seen, t) /\ (t.owed = seen.owed \/ MayReport)
  BY Zenon, SMTT(20), <1>2, ServingFacts, ReportFields DEF MayReport
<1>4. /\ t \in SeenRecord /\ t.heads = seen.heads /\ t.sends = seen.sends
      /\ t.foreign = seen.foreign /\ t.cut = seen.cut
  BY Zenon, SMTT(20), <1>3 DEF Told
<1>5. config.enforce_circuit_breaker => InOwedRange(t.owed)
  BY Zenon, SMTT(20), <1>3, ToldInRange
<1> DEFINE u == WithHead(t)
<1>6. /\ u \in SeenRecord /\ u.heads = t.heads + 1 /\ u.sends = t.sends /\ u.owed = t.owed
      /\ u.foreign = t.foreign /\ u.cut = t.cut
  BY Zenon, SMTT(20), <1>4, HeadFields
<1> HIDE DEF u
<1>7. seen.heads = 0
  BY Zenon, SMTT(20), <1>1, ServingFacts DEF Serving
<1>8. AtMostTwoHeads(u.heads) /\ u.heads >= 1
  BY <1>4, <1>6, <1>7 DEF AtMostTwoHeads
<1>9. ~u.cut => ~u.foreign /\ pending' = <<>> /\ upstream_buffer' = <<>>
  <2>1. Between
    BY <1>1 DEF Between
  <2> QED
    BY Zenon, SMTT(20), <1>1, <1>4, <1>6, <2>1, QuietConnection, ServingFacts
<1>10. Over(u)
  BY Zenon, SMTT(20), <1>1, <1>2, <1>4, <1>5, <1>6, <1>8, <1>9 DEF Over, u
<1> QED
  BY Zenon, SMTT(20), <1>10, OverKeeps

(* Errors of the HTTP/3 dispatch, of the connect, of the request's body,   *)
(* of the wait for the response and of a tunnel, and responses refused.    *)
LEMMA ErrorsKeep ==
    ASSUME Inv,
           \/ \E error \in {"ResponseIo", "RequestIo", "ParseRequest", "IdleRequestBody", "BodyLimit"} :
                 FailHttp3(error)
           \/ \E error \in {"Connect", "ConnectTimeout"} : FailToConnect(error)
           \/ \E error \in {"RequestIo", "ParseRequest", "IdleRequestBody", "BodyLimit"} : FailRequestBody(error)
           \/ \E bytes \in PartialHead : TimeOutResponseHead(bytes)
           \/ RefuseResponse
           \/ \E error \in {"IdleTunnel", "RequestIo", "ResponseIo"}, bytes \in {<<>>, upstream_buffer} :
                 FailTunnel(error, bytes)
    PROVE  Inv'
<1>1. PICK error, t, bytes :
         /\ Failed(error, t, bytes)
         /\ \/ pc \in {"attempt", "response"} /\ t = seen
            \/ pc \in {"connect", "body", "await", "tunnel"} /\ t \in {WithReport(seen), WithTimeoutReport(seen)}
  BY Zenon, SMTT(20) DEF FailHttp3, FailToConnect, FailRequestBody, TimeOutResponseHead, RefuseResponse, FailTunnel
<1>2. SameResponse
  BY Zenon, SMTT(20) DEF FailHttp3, FailToConnect, FailRequestBody, TimeOutResponseHead, RefuseResponse, FailTunnel,
         SameRequest, SameResponse
<1>3. Told(seen, t) /\ (t.owed = seen.owed \/ MayReport)
  BY Zenon, SMTT(20), <1>1, ServingFacts, ReportFields DEF MayReport, Attempting
<1>4. Serving \/ pc = "tunnel"
  BY <1>1 DEF Serving
<1> QED
  BY Zenon, SMTT(20), <1>1, <1>2, <1>3, <1>4, FailedOver

(* The request deadline passes: the exchange is left, wherever it was.     *)
LEMMA PassDeadlineKeeps ==
    ASSUME Inv, PassDeadline
    PROVE  Inv'
<1> DEFINE t == WithTimeoutReport(seen)
           h == WithHead(t)
           u == [h EXCEPT !.cut = TRUE]
<1>1. Told(seen, t) /\ pc \in {"body", "await"}
  BY Zenon, SMTT(20), ServingFacts, ReportFields DEF PassDeadline
<1>2. MayReport /\ Serving
  BY <1>1 DEF MayReport, Attempting, Serving
<1>3. config.enforce_circuit_breaker => InOwedRange(t.owed)
  BY Zenon, SMTT(20), <1>1, <1>2, ToldInRange
<1>4. seen' = u /\ pc' \in {"idle", "closed"} /\ SameResponse
  BY Zenon, SMTT(20) DEF PassDeadline, NextRequest, SameRequest, SameResponse
<1>5. t \in SeenRecord /\ t.heads = seen.heads /\ t.sends = seen.sends
  BY Zenon, SMTT(20), <1>1 DEF Told
<1> HIDE DEF t
<1>6. h \in SeenRecord /\ h.heads = t.heads + 1 /\ h.sends = t.sends /\ h.owed = t.owed
  BY Zenon, SMTT(20), <1>5, HeadFields
<1> HIDE DEF h
<1>7. u \in SeenRecord /\ u.heads = h.heads /\ u.sends = h.sends /\ u.owed = h.owed /\ u.cut = TRUE
  BY Zenon, SMTT(20), <1>6, CutFields
<1> HIDE DEF u
<1>8. seen.heads = 0
  BY Zenon, SMTT(20), <1>2, ServingFacts
<1>9. AtMostTwoHeads(u.heads) /\ u.heads >= 1
  BY <1>5, <1>6, <1>7, <1>8 DEF AtMostTwoHeads
<1>10. Over(u)
  BY Zenon, SMTT(20), <1>3, <1>4, <1>5, <1>6, <1>7, <1>9 DEF Over
<1> QED
  BY Zenon, SMTT(20), <1>10, OverKeeps

(* A response that is answered from the cache.                             *)
LEMMA CachedAnswersKeep ==
    ASSUME Inv, ServeRevalidated \/ ServeStaleInstead
    PROVE  Inv'
<1> DEFINE t == WithReport(seen)
           l == WithLeft(t, upstream_buffer)
<1>1. /\ pc = "response" /\ pc' \in {"idle", "closed"} /\ SameResponse
      /\ upstream_buffer' = upstream_buffer /\ pending' \in {<<>>, pending}
      /\ \/ response.status = "NotModified" /\ seen' = WithResponse(t)
         \/ response.status \in ServerErrors /\ seen' = WithHead(l) /\ pending' = <<>>
  BY Zenon, SMTT(20) DEF ServeRevalidated, ServeStaleInstead, NextRequest, DropUpstream, SameRequest, SameResponse,
         NotModified, StaleInstead
<1>2. Told(seen, t) /\ MayReport /\ Serving
  BY Zenon, SMTT(20), <1>1, ServingFacts, ReportFields DEF MayReport, Attempting, Serving
<1>3. config.enforce_circuit_breaker => InOwedRange(t.owed)
  BY Zenon, SMTT(20), <1>2, ToldInRange
<1>4. /\ t \in SeenRecord /\ t.heads = seen.heads /\ t.sends = seen.sends
      /\ t.foreign = seen.foreign /\ t.cut = seen.cut
  BY Zenon, SMTT(20), <1>2 DEF Told
<1> HIDE DEF t
<1>5. /\ l \in SeenRecord /\ l.heads = t.heads /\ l.sends = t.sends /\ l.owed = t.owed
      /\ l.foreign = t.foreign /\ (l.cut <=> (t.cut \/ upstream_buffer /= <<>>))
  BY Zenon, SMTT(20), <1>4, LeftFields
<1> HIDE DEF l
<1>6. PICK u :
         /\ seen' = u /\ u \in SeenRecord /\ u.heads = t.heads + 1 /\ u.sends = t.sends /\ u.owed = t.owed
         /\ \/ /\ response.status = "NotModified" /\ u.cut = t.cut
               /\ (u.foreign <=> (t.foreign \/ response.of /= req))
            \/ /\ (u.cut <=> (t.cut \/ upstream_buffer /= <<>>))
               /\ u.foreign = t.foreign /\ pending' = <<>>
  BY SMTT(20), Zenon, <1>1, <1>4, <1>5, ResponseFields, HeadFields
<1>7. seen.heads = 0
  BY Zenon, SMTT(20), <1>2, ServingFacts
<1>8. AtMostTwoHeads(u.heads) /\ u.heads >= 1
  BY <1>4, <1>6, <1>7 DEF AtMostTwoHeads
<1>9. ~seen.cut => /\ response.of = req /\ ~seen.foreign
                   /\ response.status = "NotModified" => pending = <<>> /\ upstream_buffer = <<>>
  BY Zenon, SMTT(20), <1>1 DEF Inv, OwnOK
<1>10. ~u.cut => ~u.foreign /\ pending' = <<>> /\ upstream_buffer' = <<>>
  BY Zenon, SMTT(20), <1>1, <1>4, <1>6, <1>9
<1>11. Over(u)
  BY Zenon, SMTT(20), <1>1, <1>3, <1>4, <1>6, <1>8, <1>10 DEF Over
<1> QED
  BY Zenon, SMTT(20), <1>11, OverKeeps

(* The response is relayed to its end, or a tunnel is closed.              *)
LEMMA RelayEndsKeep ==
    ASSUME Inv, RelayResponseBody \/ CloseTunnel
    PROVE  Inv'
<1> DEFINE t == WithReport(seen)
<1>1. /\ pc \in {"relay", "tunnel"} /\ seen' = t /\ pc' \in {"idle", "closed"} /\ SameResponse
      /\ pc = "tunnel" => pc' = "closed"
      /\ pending' \in {<<>>, pending}
      /\ \/ upstream_buffer' = <<>>
         \/ /\ response.status \in {"NotModified", "Switching", "Interim"}
            /\ response.status = "Switching" => pc' = "closed"
            /\ upstream_buffer' = upstream_buffer
  BY Zenon, SMTT(20) DEF RelayResponseBody, CloseTunnel, NextRequest, DropUpstream, SameRequest, SameResponse, HasBody
<1>2. Told(seen, t) /\ MayReport
  BY Zenon, SMTT(20), <1>1, ServingFacts, ReportFields DEF MayReport, Attempting
<1>3. config.enforce_circuit_breaker => InOwedRange(t.owed)
  BY Zenon, SMTT(20), <1>2, ToldInRange
<1>4. /\ t \in SeenRecord /\ t.heads = seen.heads /\ t.sends = seen.sends
      /\ t.foreign = seen.foreign /\ t.cut = seen.cut
  BY Zenon, SMTT(20), <1>2 DEF Told
<1> HIDE DEF t
<1>5. seen.heads = 1 /\ (~seen.cut => ~seen.foreign)
  BY Zenon, SMTT(20), <1>1 DEF Inv, HeadsOK, OwnOK
<1>6. AtMostTwoHeads(t.heads) /\ t.heads >= 1
  BY <1>4, <1>5 DEF AtMostTwoHeads
<1>7. ~seen.cut /\ pc' = "idle" => pending' = <<>> /\ upstream_buffer' = <<>>
  <2>1. ~seen.cut /\ pc = "relay" =>
           /\ response.status /= "Interim" /\ pending = <<>>
           /\ response.status = "NotModified" => upstream_buffer = <<>>
    BY Zenon, SMTT(20) DEF Inv, OwnOK
  <2> QED
    BY Zenon, SMTT(20), <1>1, <2>1
<1>8. Over(t)
  BY Zenon, SMTT(20), <1>1, <1>3, <1>4, <1>5, <1>6, <1>7 DEF Over
<1> QED
  BY Zenon, SMTT(20), <1>8, OverKeeps

(* The relay of a response body breaks off.                                *)
LEMMA RelayFailsKeep ==
    ASSUME Inv,
           NEW error \in {"ParseResponse", "IdleResponseBody", "BodyLimit", "ResponseIo", "Deadline"},
           NEW filling \in BOOLEAN, FailResponseBody(error, filling)
    PROVE  Inv'
<1>1. PICK e, t, bytes :
         /\ Failed(e, t, bytes) /\ t \in {seen, WithReport(seen), WithTimeoutReport(seen)}
         /\ e = ResponseStartedError(error) \/ e = "IdleResponseBody"
  BY Zenon, SMTT(20) DEF FailResponseBody
<1>2. pc = "relay" /\ SameResponse
  BY Zenon, SMTT(20) DEF FailResponseBody, SameRequest, SameResponse
<1>3. ~(plan.stale /\ ErrorAllowsStaleIfError(e))
  BY <1>1 DEF ResponseStartedError, ErrorAllowsStaleIfError
<1>4. Told(seen, t) /\ MayReport
  BY Zenon, SMTT(20), <1>1, <1>2, ServingFacts, ReportFields DEF MayReport, Attempting
<1> QED
  BY Zenon, SMTT(20), <1>1, <1>2, <1>3, <1>4, FailedOver

(* The loop ends: the client went away, or a peer stopped reading.         *)
LEMMA GoneKeeps ==
    ASSUME Inv, NoMoreRequests \/ DownstreamGone \/ Stall
    PROVE  Inv'
<1>1. SameResponse /\ pc' \in {"stalled", "closed"} /\ seen' = seen
  BY Zenon, SMTT(20) DEF NoMoreRequests, DownstreamGone, Stall, SameRequest, SameResponse
<1>2. config.enforce_circuit_breaker => InOwedRange(seen.owed)
  BY Zenon, SMTT(20) DEF Inv, OwedOK
<1>3. pc' /= "idle"
  BY <1>1
<1>4. Over(seen)
  BY Zenon, SMTT(20), <1>1, <1>2, <1>3, ServingFacts DEF Over
<1> QED
  BY Zenon, SMTT(20), <1>4, OverKeeps

----------------------------------------------------------------------------
(* Steps of a request that goes on                                         *)

(* The next head: nothing is seen of the request yet.                      *)
LEMMA ReadHeadKeeps ==
    ASSUME Inv, ReadHead
    PROVE  Inv'
<1> DEFINE t == [NothingSeen EXCEPT !.cut = seen.cut]
<1>1. seen.cut \in BOOLEAN /\ req \in Nat
  BY DEF Inv, SeenRecord
<1>2. t \in SeenRecord /\ t.heads = 0 /\ t.sends = 0 /\ t.owed = 0 /\ t.foreign = FALSE /\ t.cut = seen.cut
  <2>1. NothingSeen \in SeenRecord /\ NothingSeen.heads = 0 /\ NothingSeen.sends = 0 /\ NothingSeen.owed = 0
        /\ NothingSeen.foreign = FALSE
    BY DEF NothingSeen, SeenRecord
  <2> QED
    BY SMTT(20), Zenon, <1>1, <2>1, CutFields
<1>3. /\ pc = "idle" /\ pc' = "policy" /\ req' = req + 1 /\ config' = config
      /\ retried' = FALSE /\ seen' = t /\ pending' = pending /\ upstream_buffer' = upstream_buffer
  BY DEF ReadHead, conn, failure
<1> HIDE DEF t
<1>4. HeadsOK' /\ SendsOK'
  BY <1>2, <1>3 DEF HeadsOK, Serving, AtMostTwoHeads, SendsOK
<1>5. OwedOK'
  BY <1>2, <1>3 DEF OwedOK, Attempting, InOwedRange
<1>6. OwnOK'
  <2>1. Between
    BY <1>3 DEF Between
  <2> QED
    BY Zenon, SMTT(20), <1>2, <1>3, <2>1, QuietConnection DEF OwnOK
<1>7. req' \in Nat /\ pc' \in ProgramPoints
  BY <1>1, <1>3 DEF ProgramPoints
<1> QED
  BY Zenon, SMTT(20), <1>2, <1>3, <1>4, <1>5, <1>6, <1>7 DEF Inv

(* A step between two exchanges, or to the wait for a response.            *)
Going(p) ==
    /\ config' = config /\ req' = req /\ request' = request
    /\ pc' = p /\ p \in {"attempt", "connect", "send", "pay", "body", "await"}
    /\ seen' \in SeenRecord /\ seen'.heads = seen.heads
    /\ seen'.foreign = seen.foreign /\ seen'.cut = seen.cut
    /\ upstream_buffer' = upstream_buffer

(* Such a step answers nothing and leaves no bytes.                        *)
LEMMA GoingKeeps ==
    ASSUME Inv, NEW p, Going(p), Between \/ pc = "body", pc /= "idle", retried' \in BOOLEAN,
           SendsOK', OwedOK',
           ~seen.cut => pending' = IF p \in {"body", "await"} THEN <<req>> ELSE <<>>
    PROVE  Inv'
<1>1. Serving /\ seen.heads = 0
  <2>1. Serving
    BY DEF Between, Serving, Inv
  <2> QED
    BY Zenon, SMTT(20), <2>1 DEF Inv, HeadsOK
<1>2. HeadsOK'
  BY <1>1 DEF HeadsOK, Serving, AtMostTwoHeads, Going
<1>3. ~seen.cut => upstream_buffer = <<>> /\ ~seen.foreign
  BY Zenon, SMTT(20) DEF Inv, OwnOK
<1>4. OwnOK'
  BY <1>3 DEF OwnOK, Going, Between
<1>5. pc' \in ProgramPoints /\ req' \in Nat /\ config' \in ConfigRecord /\ seen' \in SeenRecord
  BY DEF Going, ProgramPoints, Inv
<1> QED
  BY Zenon, SMTT(20), <1>2, <1>4, <1>5 DEF Inv

(* From the checks to the first attempt, and on to a connection.           *)
LEMMA DispatchKeeps ==
    ASSUME Inv, Dispatch \/ ReuseConnection \/ OpenConnection
    PROVE  Inv'
<1>1. /\ \/ pc = "policy" /\ pc' = "attempt"
         \/ pc = "connect" /\ pc' = "send"
      /\ retried' = retried /\ seen' = seen /\ pending' \in {<<>>, pending} /\ request' = request /\ config' = config
      /\ req' = req /\ upstream_buffer' = upstream_buffer
  BY Zenon, SMTT(20) DEF Dispatch, ReuseConnection, OpenConnection, conn
<1>2. Between /\ pc /= "idle" /\ retried' \in BOOLEAN /\ pc' \in {"attempt", "send"}
  BY <1>1 DEF Between, Inv
<1>3. Going(pc')
  BY <1>1, <1>2 DEF Going, Inv
<1>4. SendsOK'
  BY Zenon, SMTT(20), <1>1 DEF Inv, SendsOK
<1>5. OwedOK'
  <2>1. pc = "policy" => ~retried
    BY Zenon, SMTT(20) DEF Inv, SendsOK
  <2> QED
    BY <1>1, <2>1 DEF Inv, OwedOK, Attempting, InOwedRange, OverHttp3
<1>6. ~seen.cut => pending' = <<>>
  BY Zenon, SMTT(20), <1>1, <1>2, QuietConnection
<1>7. pc' \notin {"body", "await"}
  BY <1>2
<1> QED
  BY Zenon, SMTT(20), <1>2, <1>3, <1>4, <1>5, <1>6, <1>7, GoingKeeps

(* Admitting an attempt (circuit breaker) begins to owe an outcome, and so *)
(* does admitting a retry.                                                 *)
LEMMA AdmissionsKeep ==
    ASSUME Inv, seen' = WithAdmission(seen), SameResponse, pending' = pending, upstream_buffer' = upstream_buffer,
           \/ pc = "attempt" /\ pc' = "connect" /\ ~OverHttp3
           \/ pc = "ask" /\ pc' = "pay"
    PROVE  Inv'
<1>1. /\ seen' \in SeenRecord /\ seen'.heads = seen.heads /\ seen'.sends = seen.sends
      /\ seen'.foreign = seen.foreign /\ seen'.cut = seen.cut
      /\ config.enforce_circuit_breaker => seen'.owed = seen.owed + 1
  BY Zenon, SMTT(20), ServingFacts, AdmissionFields
<1>2. Between /\ pc /= "idle" /\ retried' \in BOOLEAN /\ pc' \in {"connect", "pay"}
  BY DEF Between, Inv, SameResponse
<1>3. Going(pc')
  BY <1>1, <1>2 DEF Going, SameRequest, SameResponse
<1>4. SendsOK'
  BY Zenon, SMTT(20), <1>1, <1>2 DEF Inv, SendsOK, SameRequest, SameResponse
<1>5. OwedOK'
  <2>1. /\ config' = config /\ retried' = retried /\ (OverHttp3' <=> OverHttp3) /\ retried \in BOOLEAN
        /\ pc = "ask" => ~retried
        /\ Attempting \/ pc \in {"ask", "pay"} \/ retried => ~OverHttp3
    BY Zenon, SMTT(20) DEF Inv, SendsOK, OwedOK, OverHttp3, SameRequest, SameResponse
  <2>2. ~OverHttp3
    BY Zenon, SMTT(20), <2>1
  <2>3. CASE pc = "attempt" /\ pc' = "connect"
    <3>1. config.enforce_circuit_breaker => seen'.owed = IF retried THEN 2 ELSE 1
      BY <1>1, <2>3 DEF Inv, OwedOK
    <3> QED
      BY <2>1, <2>2, <2>3, <3>1 DEF OwedOK, Attempting, InOwedRange
  <2>4. CASE pc = "ask" /\ pc' = "pay"
    <3>1. config.enforce_circuit_breaker => seen'.owed = 1
      BY <1>1, <2>4 DEF Inv, OwedOK
    <3> QED
      BY <2>1, <2>2, <2>4, <3>1 DEF OwedOK, Attempting, InOwedRange
  <2> QED
    BY <2>3, <2>4
<1>6. ~seen.cut => pending' = <<>>
  BY Zenon, SMTT(20), <1>2, QuietConnection
<1>7. pc' \notin {"body", "await"}
  BY <1>2
<1> QED
  BY Zenon, SMTT(20), <1>2, <1>3, <1>4, <1>5, <1>6, <1>7, GoingKeeps

(* An attempt that is admitted.                                            *)
LEMMA AdmitAttemptKeeps ==
    ASSUME Inv, AdmitAttempt
    PROVE  Inv'
<1>1. /\ pc = "attempt" /\ pc' = "connect" /\ SameResponse /\ ~OverHttp3
      /\ pending' = pending /\ upstream_buffer' = upstream_buffer /\ seen' = WithAdmission(seen)
  BY Zenon, SMTT(20) DEF AdmitAttempt, SameRequest, SameResponse, conn, OverHttp3
<1> QED
  BY Zenon, SMTT(20), <1>1, AdmissionsKeep

(* Writing the request head makes the upstream owe this request's answer.  *)
LEMMA SendHeadKeeps ==
    ASSUME Inv, SendHead
    PROVE  Inv'
<1> DEFINE t == [seen EXCEPT !.sends = @ + 1]
<1>1. /\ pc = "send" /\ pc' = "body" /\ SameResponse
      /\ pending' = Append(pending, req) /\ upstream_buffer' = upstream_buffer /\ seen' = t
  BY DEF SendHead, SameRequest, SameResponse, failure
<1>2. t \in SeenRecord /\ t.heads = seen.heads /\ t.sends = seen.sends + 1 /\ t.owed = seen.owed
      /\ t.foreign = seen.foreign /\ t.cut = seen.cut
  BY DEF Inv, SeenRecord
<1> HIDE DEF t
<1>3. Between /\ pc /= "idle" /\ retried' \in BOOLEAN
  BY <1>1 DEF Between, Inv, SameResponse
<1>4. Going("body")
  BY Zenon, SMTT(20), <1>1, <1>2 DEF Going, SameRequest, SameResponse
<1>5. SendsOK'
  BY <1>1, <1>2 DEF Inv, SendsOK, SameRequest, SameResponse
<1>6. OwedOK'
  BY Zenon, SMTT(20), <1>1, <1>2 DEF Inv, OwedOK, Attempting, InOwedRange, OverHttp3, SameRequest, SameResponse
<1>7. ~seen.cut => pending' = <<req>>
  <2>1. ~seen.cut => pending = <<>>
    BY Zenon, SMTT(20), <1>3, QuietConnection
  <2>2. Append(<<>>, req) = <<req>>
    OBVIOUS
  <2> QED
    BY Zenon, SMTT(20), <1>1, <2>1, <2>2
<1> QED
  BY Zenon, SMTT(20), <1>3, <1>4, <1>5, <1>6, <1>7, GoingKeeps

(* Relaying the request body.                                              *)
LEMMA RelayRequestBodyKeeps ==
    ASSUME Inv, RelayRequestBody
    PROVE  Inv'
<1>1. /\ pc = "body" /\ pc' = "await" /\ SameResponse
      /\ pending' = pending /\ upstream_buffer' = upstream_buffer /\ seen' = seen
  BY Zenon, SMTT(20) DEF RelayRequestBody, SameRequest, SameResponse, failure, conn
<1>2. Going("await") /\ retried' \in BOOLEAN
  BY Zenon, SMTT(20), <1>1 DEF Going, Inv, SameRequest, SameResponse
<1>3. SendsOK'
  BY Zenon, SMTT(20), <1>1 DEF Inv, SendsOK, SameRequest, SameResponse
<1>4. OwedOK'
  BY Zenon, SMTT(20), <1>1 DEF Inv, OwedOK, Attempting, InOwedRange, OverHttp3, SameRequest, SameResponse
<1>5. ~seen.cut => pending' = <<req>>
  BY Zenon, SMTT(20), <1>1 DEF Inv, OwnOK
<1>6. pc /= "idle"
  BY <1>1
<1> QED
  BY Zenon, SMTT(20), <1>1, <1>2, <1>3, <1>4, <1>5, <1>6, GoingKeeps

(* A response head: of the request in flight, unless an exchange was left. *)
LEMMA ReadResponseHeadKeeps ==
    ASSUME Inv, NEW status \in UpstreamStatuses, NEW keep \in BOOLEAN, ReadResponseHead(status, keep)
    PROVE  Inv'
<1>1. /\ pc = "await" /\ pc' = "response" /\ SameRequest /\ retried' = retried /\ seen' = seen
  BY Zenon, SMTT(20) DEF ReadResponseHead, SameRequest, failure
<1>2. HeadsOK'
  BY Zenon, SMTT(20), <1>1 DEF Inv, HeadsOK, Serving, AtMostTwoHeads, SameRequest
<1>3. SendsOK'
  BY Zenon, SMTT(20), <1>1 DEF Inv, SendsOK, SameRequest
<1>4. OwedOK'
  BY Zenon, SMTT(20), <1>1 DEF Inv, OwedOK, Attempting, InOwedRange, OverHttp3, SameRequest
<1>5. ASSUME ~seen.cut
      PROVE  /\ ~seen.foreign /\ response'.of = req
             /\ response'.status /= "Interim" => pending' = <<>>
             /\ response'.status = "NotModified" => upstream_buffer' = <<>>
  <2>1. pending = <<req>> /\ upstream_buffer = <<>> /\ ~seen.foreign
    BY Zenon, SMTT(20), <1>1, <1>5 DEF Inv, OwnOK
  <2>2. /\ response' = [of |-> Head(pending), status |-> status, keep_alive |-> keep]
        /\ upstream_buffer' \in Following(Head(pending), status)
        /\ pending' = IF status = "Interim" /\ upstream_buffer' = <<>> THEN pending ELSE Tail(pending)
    BY Zenon, SMTT(20), <2>1 DEF ReadResponseHead, WholeHeadRead
  <2>3. Head(pending) = req /\ Tail(pending) = <<>>
    BY <2>1
  <2>4. response'.of = req /\ response'.status = status
    BY Zenon, SMTT(20), <2>2, <2>3
  <2>5. status = "NotModified" => upstream_buffer' = <<>>
    BY <2>2 DEF Following, HasBody
  <2> QED
    BY Zenon, SMTT(20), <2>1, <2>2, <2>3, <2>4, <2>5
<1>6. OwnOK'
  BY Zenon, SMTT(20), <1>1, <1>5 DEF OwnOK, Between, SameRequest
<1>7. pc' \in ProgramPoints
  BY <1>1 DEF ProgramPoints
<1> QED
  BY Zenon, SMTT(20), <1>1, <1>2, <1>3, <1>4, <1>6, <1>7 DEF Inv, SameRequest

(* Relaying the response head, or the 101 of a tunnel: the one head of the *)
(* request.                                                                *)
LEMMA RelayResponseHeadKeeps ==
    ASSUME Inv, RelayResponseHead \/ OpenTunnel
    PROVE  Inv'
<1> DEFINE h == WithResponse(seen)
<1>1. /\ pc = "response" /\ pc' \in {"relay", "tunnel"} /\ SameResponse /\ (pc' = "tunnel" => Switching)
      /\ pending' = pending /\ upstream_buffer' = upstream_buffer
  BY Zenon, SMTT(20) DEF RelayResponseHead, OpenTunnel, SameRequest, SameResponse, failure, conn
<1>2. /\ h \in SeenRecord /\ h.heads = seen.heads + 1 /\ h.sends = seen.sends /\ h.owed = seen.owed
      /\ h.cut = seen.cut /\ (h.foreign <=> (seen.foreign \/ response.of /= req))
  BY Zenon, SMTT(20), ServingFacts, ResponseFields
<1> HIDE DEF h
<1>3. /\ seen' \in SeenRecord /\ seen'.heads = h.heads /\ seen'.sends = h.sends /\ seen'.owed = h.owed
      /\ seen'.foreign = h.foreign
      /\ ~seen'.cut => ~h.cut /\ (pc' = "relay" => response.status /= "Interim")
  <2>1. CASE OpenTunnel
    BY Zenon, SMTT(20), <1>2, <2>1 DEF OpenTunnel, h
  <2>2. CASE RelayResponseHead
    <3>1. PICK c \in BOOLEAN : c = (h.cut \/ response.status = "Interim")
      BY Zenon, SMTT(20)
    <3>2. seen' = [h EXCEPT !.cut = c]
      BY Zenon, SMTT(20), <2>2, <3>1 DEF RelayResponseHead, h
    <3>3. /\ seen' \in SeenRecord /\ seen'.heads = h.heads /\ seen'.sends = h.sends /\ seen'.owed = h.owed
          /\ seen'.foreign = h.foreign /\ seen'.cut = c
      BY Zenon, SMTT(20), <1>2, <3>2, CutFields
    <3> QED
      BY Zenon, SMTT(20), <3>1, <3>3
  <2> QED
    BY Zenon, SMTT(20), <2>1, <2>2
<1>4. HeadsOK'
  <2>1. seen.heads = 0
    BY Zenon, SMTT(20), <1>1, ServingFacts DEF Serving
  <2>2. seen'.heads = 1
    BY <1>2, <1>3, <2>1
  <2> QED
    BY <1>1, <2>2 DEF HeadsOK, Serving, AtMostTwoHeads, Switching, SameRequest, SameResponse
<1>5. SendsOK'
  BY Zenon, SMTT(20), <1>1, <1>2, <1>3 DEF Inv, SendsOK, SameRequest, SameResponse
<1>6. OwedOK'
  BY Zenon, SMTT(20), <1>1, <1>2, <1>3 DEF Inv, OwedOK, Attempting, InOwedRange, OverHttp3, SameRequest, SameResponse
<1>7. ~seen.cut => /\ response.of = req /\ ~seen.foreign
                   /\ response.status /= "Interim" => pending = <<>>
                   /\ response.status = "NotModified" => upstream_buffer = <<>>
  BY Zenon, SMTT(20), <1>1 DEF Inv, OwnOK
<1>8. OwnOK'
  BY Zenon, SMTT(20), <1>1, <1>2, <1>3, <1>7 DEF OwnOK, Between, SameRequest, SameResponse
<1>9. pc' \in ProgramPoints
  BY <1>1 DEF ProgramPoints
<1> QED
  BY Zenon, SMTT(20), <1>1, <1>3, <1>4, <1>5, <1>6, <1>8, <1>9 DEF Inv, SameRequest, SameResponse

(* The upstream failed before it answered: a replayable request asks for   *)
(* its one retry, any other ends (retry_stale_reuse).                      *)
LEMMA UpstreamFailsKeep ==
    ASSUME Inv,
           FailToSendHead \/ \E retryable \in BOOLEAN, bytes \in PartialHead : FailResponseHead(retryable, bytes)
    PROVE  Inv'
<1> DEFINE t == WithReport(seen)
<1>1. PICK class, error, retryable, bytes : UpstreamFailed(class, error, retryable, bytes)
  BY Zenon, SMTT(20) DEF FailToSendHead, FailResponseHead
<1>2. pc \in {"send", "await"} /\ SameResponse
  BY Zenon, SMTT(20) DEF FailToSendHead, FailResponseHead, SameRequest, SameResponse
<1>3. Told(seen, t) /\ (config.enforce_circuit_breaker => t.owed = seen.owed - 1)
  BY Zenon, SMTT(20), ServingFacts, ReportFields
<1>4. MayReport /\ Serving
  BY <1>2 DEF MayReport, Attempting, Serving
<1>5. CASE Failed(error, t, bytes)
  BY Zenon, SMTT(20), <1>2, <1>3, <1>4, <1>5, FailedOver
<1>6. CASE /\ RetryStaleReuse /\ DropUpstream /\ upstream_buffer' = bytes
           /\ seen' = WithLeft(t, bytes) /\ pc' = "ask"
  <2>1. pending' = <<>> /\ ~retried /\ request.safe
    BY <1>6 DEF DropUpstream, RetryStaleReuse
  <2>2. /\ t \in SeenRecord /\ t.heads = seen.heads /\ t.sends = seen.sends
        /\ t.foreign = seen.foreign /\ t.cut = seen.cut
    BY Zenon, SMTT(20), <1>3 DEF Told
  <2>3. /\ seen' \in SeenRecord /\ seen'.heads = t.heads /\ seen'.sends = t.sends /\ seen'.owed = t.owed
        /\ seen'.foreign = t.foreign /\ (seen'.cut <=> (t.cut \/ bytes /= <<>>))
    BY Zenon, SMTT(20), <1>6, <2>2, LeftFields
  <2>4. ~OverHttp3 /\ (config.enforce_circuit_breaker => seen.owed = 1)
    BY Zenon, SMTT(20), <1>2, <2>1 DEF Inv, OwedOK, Attempting
  <2>5. config.enforce_circuit_breaker => seen'.owed = 0
    BY <1>3, <2>3, <2>4
  <2>6. HeadsOK'
    <3>1. seen.heads = 0
      BY Zenon, SMTT(20), <1>4, ServingFacts
    <3> QED
      BY <1>6, <2>2, <2>3, <3>1 DEF HeadsOK, Serving, AtMostTwoHeads
  <2>7. SendsOK'
    BY Zenon, SMTT(20), <1>2, <1>6, <2>1, <2>2, <2>3 DEF Inv, SendsOK, SameRequest, SameResponse
  <2>8. OwedOK'
    BY <1>2, <1>6, <2>1, <2>4, <2>5 DEF Inv, OwedOK, Attempting, InOwedRange, OverHttp3, SameRequest, SameResponse
  <2>9. ~seen'.cut => ~seen'.foreign /\ upstream_buffer' = <<>>
    BY Zenon, SMTT(20), <1>6, <2>2, <2>3, ServingFacts
  <2>10. OwnOK'
    BY Zenon, SMTT(20), <1>6, <2>1, <2>9 DEF OwnOK
  <2>11. pc' \in ProgramPoints
    BY <1>6 DEF ProgramPoints
  <2> QED
    BY Zenon, SMTT(20), <1>2, <2>3, <2>6, <2>7, <2>8, <2>10, <2>11 DEF Inv, SameRequest, SameResponse
<1> QED
  BY Zenon, SMTT(20), <1>1, <1>5, <1>6 DEF UpstreamFailed

(* allow_destination_retry: the breaker, then the budget, may refuse it.   *)
LEMMA RetriesKeep ==
    ASSUME Inv, AskForRetry \/ PayForRetry
    PROVE  Inv'
<1>1. /\ pc \in {"ask", "pay"} /\ SameRequest /\ response' = response
      /\ \/ Failed("ParseResponse", seen, upstream_buffer) /\ retried' = retried
         \/ /\ pc = "ask" /\ seen' = WithAdmission(seen) /\ pc' = "pay" /\ retried' = retried
            /\ pending' = pending /\ upstream_buffer' = upstream_buffer
         \/ /\ pc = "pay" /\ retried' = TRUE /\ pc' = "attempt" /\ seen' = seen
            /\ pending' = pending /\ upstream_buffer' = upstream_buffer
  BY Zenon, SMTT(20) DEF AskForRetry, PayForRetry, SameRequest, conn
<1>2. Serving /\ Between /\ pc /= "idle"
  BY <1>1 DEF Serving, Between
<1>3. CASE Failed("ParseResponse", seen, upstream_buffer) /\ retried' = retried
  <2>1. Told(seen, seen)
    BY Zenon, SMTT(20), ServingFacts, ReportFields
  <2> QED
    BY Zenon, SMTT(20), <1>1, <1>2, <1>3, <2>1, FailedOver DEF SameResponse
<1>4. CASE /\ pc = "ask" /\ seen' = WithAdmission(seen) /\ pc' = "pay" /\ retried' = retried
           /\ pending' = pending /\ upstream_buffer' = upstream_buffer
  BY Zenon, SMTT(20), <1>1, <1>4, AdmissionsKeep DEF SameResponse
<1>5. CASE /\ pc = "pay" /\ retried' = TRUE /\ pc' = "attempt" /\ seen' = seen
           /\ pending' = pending /\ upstream_buffer' = upstream_buffer
  <2>1. Going("attempt")
    BY Zenon, SMTT(20), <1>1, <1>5 DEF Going, Inv, SameRequest
  <2>2. ~retried /\ request.safe /\ seen.sends \in Nat /\ seen.sends <= 1
    BY <1>5 DEF Inv, SendsOK, SeenRecord
  <2>3. SendsOK'
    BY <1>1, <1>5, <2>2 DEF SendsOK, SameRequest
  <2>4. ~OverHttp3 /\ (config.enforce_circuit_breaker => seen.owed = 1)
    BY Zenon, SMTT(20), <1>5 DEF Inv, OwedOK
  <2>5. OwedOK'
    BY <1>1, <1>5, <2>4 DEF OwedOK, Attempting, InOwedRange, OverHttp3, SameRequest
  <2>6. ~seen.cut => pending' = <<>>
    BY Zenon, SMTT(20), <1>2, <1>5, QuietConnection
  <2>7. retried' \in BOOLEAN
    BY <1>5
  <2> QED
    BY Zenon, SMTT(20), <1>2, <2>1, <2>3, <2>5, <2>6, <2>7, GoingKeeps
<1> QED
  BY Zenon, SMTT(20), <1>1, <1>3, <1>4, <1>5

(* Other connections, and the clock.                                       *)
LEMMA OthersKeep ==
    ASSUME Inv, OthersReport \/ Tick \/ UNCHANGED connectionVars
    PROVE  Inv'
<1>1. /\ SameResponse /\ pc' = pc /\ seen' = seen /\ pending' = pending
      /\ upstream_buffer' = upstream_buffer
  BY Zenon, SMTT(20) DEF OthersReport, Tick, connectionVars, conn, SameRequest, SameResponse
<1>2. HeadsOK'
  BY Zenon, SMTT(20), <1>1 DEF Inv, HeadsOK, Serving, AtMostTwoHeads, Switching, SameRequest, SameResponse
<1>3. SendsOK'
  BY Zenon, SMTT(20), <1>1 DEF Inv, SendsOK, SameRequest, SameResponse
<1>4. OwedOK'
  BY Zenon, SMTT(20), <1>1 DEF Inv, OwedOK, Attempting, InOwedRange, OverHttp3, SameRequest, SameResponse
<1>5. OwnOK'
  BY Zenon, SMTT(20), <1>1 DEF Inv, OwnOK, Between, SameRequest, SameResponse
<1> QED
  BY Zenon, SMTT(20), <1>1, <1>2, <1>3, <1>4, <1>5 DEF Inv, SameRequest, SameResponse

(* A connection begins with the invariant.                                 *)
LEMMA Initially ==
    ASSUME ConnectionInit
    PROVE  Inv
<1>1. NothingSeen \in SeenRecord /\ NothingSeen.heads = 0 /\ NothingSeen.sends = 0 /\ NothingSeen.owed = 0
      /\ NothingSeen.foreign = FALSE
  BY DEF NothingSeen, SeenRecord
<1>2. config \in ConfigRecord
  BY ConnectionAssumption DEF ConnectionAssumption, ConnectionInit
<1>3. HeadsOK /\ SendsOK /\ OwedOK
  BY <1>1 DEF ConnectionInit, HeadsOK, Serving, AtMostTwoHeads, SendsOK, OwedOK, Attempting, InOwedRange
<1>4. OwnOK
  BY Zenon, SMTT(20), <1>1 DEF ConnectionInit, OwnOK
<1> QED
  BY Zenon, SMTT(20), <1>1, <1>2, <1>3, <1>4 DEF ConnectionInit, Inv, ProgramPoints

(* One step of the connection, its environment or the clock.               *)
LEMMA StepKeeps ==
    ASSUME Inv, [ConnectionNext]_connectionVars
    PROVE  Inv'
<1>1. CASE Step
  BY Zenon, SMTT(20), <1>1, ReadHeadKeeps, GoneKeeps, AnswersKeep, DispatchKeeps, ErrorsKeep, AdmitAttemptKeeps,
     SendHeadKeeps, UpstreamFailsKeep, RetriesKeep, PassDeadlineKeeps, RelayRequestBodyKeeps,
     ReadResponseHeadKeeps, CachedAnswersKeep, RelayResponseHeadKeeps, RelayEndsKeep, RelayFailsKeep DEF Step
<1>2. CASE EndTunnel
  BY Zenon, SMTT(20), <1>2, ErrorsKeep, RelayEndsKeep DEF EndTunnel
<1>3. CASE ~Step /\ ~EndTunnel
  BY Zenon, SMTT(20), <1>3, GoneKeeps, OthersKeep DEF ConnectionNext
<1> QED
  BY <1>1, <1>2, <1>3

----------------------------------------------------------------------------
(* The invariant holds in every reachable state of a connection.           *)
THEOREM InvKept == ConnectionSpec => []Inv
<1>1. ConnectionInit => Inv
  BY Initially
<1>2. Inv /\ [ConnectionNext]_connectionVars => Inv'
  BY StepKeeps
<1> QED
  BY <1>1, <1>2, PTL DEF ConnectionSpec

(* A request is answered once before the next head is read, but for a      *)
(* tunnel that fails with a stale cache entry at hand                      *)
(* (proxy_http1_connection_with_downstream_addr, response_started_error).  *)
THEOREM OneResponseKept == ConnectionSpec => []OneResponse
<1>1. Inv => OneResponse
  BY InvImplies
<1> QED
  BY <1>1, InvKept, PTL

(* Replays and reports to the breaker are accounted for                    *)
(* (retry_stale_reuse, destination_policies.rs).                           *)
THEOREM AttemptsAccountedKept == ConnectionSpec => []AttemptsAccounted
<1>1. Inv => AttemptsAccounted
  BY InvImplies
<1> QED
  BY <1>1, InvKept, PTL

(* No request is given the response of another, but after an exchange that *)
(* was answered before the upstream was done (drop_upstream_connection,    *)
(* read_response_head).                                                    *)
THEOREM OwnResponseKept == ConnectionSpec => []OwnResponseUnlessCut
<1>1. Inv => OwnResponseUnlessCut
  BY InvImplies
<1> QED
  BY <1>1, InvKept, PTL

----------------------------------------------------------------------------
(* The health of endpoints                                                 *)

\* What a signal may assume of a record it has already counted: all of
\* RecordShape but the part about the failure counters.
CountedShape(r) ==
    /\ r.effective_weight = 0 <=> r.status \notin Available
    /\ r.effective_weight <= r.nominal_weight
    /\ r.status \in {"Healthy", "Degraded"} => r.effective_weight = r.nominal_weight
    /\ r.status /= "Ejected" => r.remaining_ejection = 0

\* What a failure signal does to record r, giving t, before the budget cap.
FailedTo(r, t) ==
    /\ t \in HealthRecord
    /\ RecordShape(t)
    /\ t.recovery_successes = 0
    /\ r.status = "Ejected" =>
         t.status = "Ejected" /\ t.remaining_ejection = r.remaining_ejection
    /\ r.status /= "Ejected" /\ t.status = "Ejected" =>
         t.remaining_ejection = EjectionDuration
    /\ r.status \in {"Unhealthy", "Degraded"} => t.status \notin {"Healthy", "Warming"}

\* What a success signal does to record r, giving t.
SucceededTo(r, t) ==
    /\ t \in HealthRecord
    /\ RecordShape(t)
    /\ r.status = "Ejected" =>
         /\ t.status = "Ejected"
         /\ t.recovery_successes = r.recovery_successes
         /\ t.remaining_ejection = r.remaining_ejection
    /\ r.status \in {"Healthy", "Warming"} =>
         t.status = r.status /\ t.recovery_successes = 0
    /\ r.status \in {"Unhealthy", "Degraded"} =>
         \/ /\ SatInc(r.recovery_successes) >= RecoverySuccesses
            /\ t.status \in {"Healthy", "Warming"}
            /\ t.recovery_successes = 0
         \/ /\ SatInc(r.recovery_successes) < RecoverySuccesses
            /\ t.status = r.status
            /\ t.recovery_successes = SatInc(r.recovery_successes)

\* What d ticks of advance_time do to record r, giving t.
AgedTo(r, t, d) ==
    /\ t \in HealthRecord
    /\ RecordShape(t)
    /\ t.recovery_successes = r.recovery_successes
    /\ r.status = "Ejected" =>
         \/ t.status = "Unhealthy" /\ d >= r.remaining_ejection
         \/ /\ t.status = "Ejected" /\ d < r.remaining_ejection
            /\ t.remaining_ejection = r.remaining_ejection - d
    /\ r.status \in {"Healthy", "Warming"} => t.status \in {"Healthy", "Warming"}
    /\ r.status \in {"Unhealthy", "Degraded"} => t = r

\* The policy, as the provers need it.
LEMMA PolicyTypes ==
    /\ MaxCount \in Nat /\ EjectionDuration \in Nat /\ WarmupDuration \in Nat
    /\ WindowSize \in Nat /\ SlowStartPercent \in Nat /\ BudgetPercent \in Nat
    /\ RecoverySuccesses \in 0..MaxCount
    /\ Weights \subseteq Nat \ {0}
BY SMTT(20), Z3T(20), HealthPolicyAssumption DEF HealthPolicyAssumption

\* A counter that saturates stays within its width.
LEMMA SatIncType == \A n \in 0..MaxCount : SatInc(n) \in 0..MaxCount
BY SMTT(20), Z3T(20), PolicyTypes DEF SatInc

\* The weight of a warming endpoint is positive and at most its nominal weight.
LEMMA WarmupWeightRange ==
    ASSUME NEW w \in Weights, NEW t \in Nat
    PROVE  WarmupWeight(w, t) \in Nat /\ WarmupWeight(w, t) > 0 /\ WarmupWeight(w, t) <= w
<1> DEFINE product == w * t
           longest == Larger(WarmupDuration, 1)
           share   == w * Larger(SlowStartPercent, 1)
<1>1. w \in Nat /\ w > 0
  BY SMTT(20), Z3T(20), PolicyTypes
<1>2. longest \in Nat /\ longest > 0
  BY SMTT(20), Z3T(20), PolicyTypes DEF Larger
<1>3. product \in Nat /\ share \in Nat
  BY SMTT(20), Z3T(20), <1>1, PolicyTypes DEF Larger
<1> HIDE DEF product, longest, share
<1>4. product \div longest \in Nat /\ share \div 100 \in Nat
  BY <1>2, <1>3, SMT, Zenon
<1>5. WarmupWeight(w, t) =
        IF t >= WarmupDuration THEN w
        ELSE Smaller(Larger(product \div longest, Larger(share \div 100, 1)), w)
  BY DEF WarmupWeight, product, longest, share
<1> QED
  BY SMTT(20), Z3T(20), <1>1, <1>4, <1>5 DEF Smaller, Larger

\* EndpointHealthRecord::new gives a well-formed record.
LEMMA NewRecordShape ==
    ASSUME NEW ready \in BOOLEAN, NEW w \in Weights
    PROVE  NewRecord(ready, w) \in HealthRecord /\ RecordShape(NewRecord(ready, w))
<1>1. w \in Nat /\ w > 0
  BY SMTT(20), Z3T(20), PolicyTypes
<1>2. NoPassiveFailures \in [Protocols -> 0..MaxCount]
  BY SMTT(20), Z3T(20), PolicyTypes DEF NoPassiveFailures
<1>3. NewRecord(ready, w) \in HealthRecord
  BY SMTT(20), Z3T(20), <1>1, <1>2, PolicyTypes DEF NewRecord, HealthRecord, Statuses
<1>4. RecordShape(NewRecord(ready, w))
  BY SMTT(20), Z3T(20), <1>1 DEF RecordShape, NewRecord, Available
<1> QED
  BY <1>3, <1>4

\* The nominal weight of a record is positive.
LEMMA NominalWeight ==
    ASSUME NEW r \in HealthRecord
    PROVE  r.nominal_weight \in Nat /\ r.nominal_weight > 0
<1>1. \A w \in Weights : w \in Nat /\ w > 0
  BY SMTT(20), Z3T(20), PolicyTypes
<1>2. r.nominal_weight \in Weights
  BY DEF HealthRecord
<1> QED
  BY <1>1, <1>2

\* Constants that are written into records.
LEMMA Written ==
    /\ 0 \in Nat /\ 1 \in Nat
    /\ 0 \in 0..MaxCount /\ 0 \in 0..EjectionDuration /\ 0 \in 0..WarmupDuration
    /\ EjectionDuration \in 0..EjectionDuration
    /\ Statuses = {"Healthy", "Degraded", "Unhealthy", "Ejected", "Warming"}
    /\ NoPassiveFailures \in [Protocols -> 0..MaxCount]
BY SMTT(20), Z3T(20), PolicyTypes DEF Statuses, NoPassiveFailures

\* An ejected record is well formed.
LEMMA EjectShape ==
    ASSUME NEW r \in HealthRecord
    PROVE  /\ Eject(r) \in HealthRecord /\ RecordShape(Eject(r))
           /\ Eject(r).status = "Ejected" /\ Eject(r).recovery_successes = 0
           /\ Eject(r).remaining_ejection = EjectionDuration
<1>1. Eject(r) \in HealthRecord
  BY Zenon, SMTT(20), Written DEF Eject, HealthRecord
<1>2. /\ Eject(r).status = "Ejected" /\ Eject(r).effective_weight = 0
      /\ Eject(r).nominal_weight = r.nominal_weight /\ Eject(r).recovery_successes = 0
      /\ Eject(r).remaining_ejection = EjectionDuration
  BY DEF Eject, HealthRecord
<1> QED
  BY SMTT(20), Z3T(20), <1>1, <1>2, NominalWeight DEF RecordShape, Available

\* Demoting a record that is not ejected keeps it well formed.
LEMMA DemotedShape ==
    ASSUME NEW r \in HealthRecord, r.remaining_ejection = 0,
           NEW s \in {"Unhealthy", "Degraded"}, NEW w \in Nat,
           w = IF s = "Degraded" THEN r.nominal_weight ELSE 0
    PROVE  LET d == [r EXCEPT !.status = s, !.effective_weight = w]
           IN  /\ d \in HealthRecord /\ RecordShape(d)
               /\ d.status = s /\ d.recovery_successes = r.recovery_successes
<1> DEFINE d == [r EXCEPT !.status = s, !.effective_weight = w]
<1>1. s \in Statuses
  BY Written
<1>2. d \in HealthRecord
  BY Zenon, SMTT(20), <1>1 DEF HealthRecord
<1>3. /\ d.status = s /\ d.effective_weight = w /\ d.remaining_ejection = 0
      /\ d.nominal_weight = r.nominal_weight
      /\ d.recovery_successes = r.recovery_successes
  BY DEF HealthRecord
<1> HIDE DEF d
<1>4. RecordShape(d)
  BY SMTT(20), Z3T(20), <1>3, NominalWeight DEF RecordShape, Available
<1> QED
  BY <1>2, <1>3, <1>4 DEF d

\* transition_on_failures keeps a record well formed.
LEMMA FailureShape ==
    ASSUME NEW r \in HealthRecord, CountedShape(r), r.recovery_successes = 0,
           NEW force \in BOOLEAN
    PROVE  FailedTo(r, TransitionOnFailures(r, force))
<1> DEFINE unhealthy == [r EXCEPT !.status = "Unhealthy", !.effective_weight = 0]
           degraded  == [r EXCEPT !.status = "Degraded", !.effective_weight = r.nominal_weight]
<1>1. CASE r.status = "Ejected"
  BY Zenon, SMTT(20), <1>1 DEF TransitionOnFailures, RecordShape, CountedShape, FailedTo
<1>2. CASE r.status /= "Ejected"
  <2>1. r.remaining_ejection = 0
    BY Zenon, SMTT(20), <1>2 DEF CountedShape
  <2>2. /\ unhealthy \in HealthRecord /\ RecordShape(unhealthy)
        /\ unhealthy.status = "Unhealthy" /\ unhealthy.recovery_successes = 0
    BY Zenon, SMTT(20), <2>1, DemotedShape, Written
  <2>3. /\ degraded \in HealthRecord /\ RecordShape(degraded)
        /\ degraded.status = "Degraded" /\ degraded.recovery_successes = 0
    BY Zenon, SMTT(20), <2>1, DemotedShape, NominalWeight
  <2>4. ~FailuresReach(r, DegradedFailures) => RecordShape(r)
    BY Zenon, SMTT(20) DEF RecordShape, CountedShape
  <2>5. TransitionOnFailures(r, force) =
          IF force \/ FailuresReach(r, EjectionFailures) THEN Eject(r)
          ELSE IF FailuresReach(r, UnhealthyFailures) THEN unhealthy
          ELSE IF FailuresReach(r, DegradedFailures) THEN degraded
          ELSE r
    BY <1>2 DEF TransitionOnFailures
  <2> HIDE DEF unhealthy, degraded
  <2> QED
    BY Zenon, SMTT(20), <1>2, <2>2, <2>3, <2>4, <2>5, EjectShape DEF FailedTo
<1> QED
  BY <1>1, <1>2

\* ClearFailures forgets the counters and nothing else.
LEMMA Cleared ==
    ASSUME NEW r \in HealthRecord
    PROVE  LET c == ClearFailures(r)
           IN  /\ c \in HealthRecord
               /\ c.active_failures = 0 /\ c.passive_failures = NoPassiveFailures
               /\ c.status = r.status /\ c.effective_weight = r.effective_weight
               /\ c.nominal_weight = r.nominal_weight
               /\ c.remaining_ejection = r.remaining_ejection
               /\ c.recovery_successes = 0
<1>1. ClearFailures(r) \in HealthRecord
  BY Zenon, SMTT(20), Written DEF ClearFailures, HealthRecord
<1> QED
  BY <1>1 DEF ClearFailures, HealthRecord

\* A readmitted record without failures is well formed.
LEMMA ReadmitShape ==
    ASSUME NEW r \in HealthRecord, r.remaining_ejection = 0,
           r.active_failures = 0, r.passive_failures = NoPassiveFailures
    PROVE  /\ Readmit(r) \in HealthRecord /\ RecordShape(Readmit(r))
           /\ Readmit(r).status \in {"Healthy", "Warming"}
           /\ Readmit(r).recovery_successes = r.recovery_successes
<1> DEFINE healthy == [r EXCEPT !.status = "Healthy", !.effective_weight = r.nominal_weight]
           warming == [r EXCEPT !.status = "Warming", !.warmup_elapsed = 0,
                                !.effective_weight = 1]
<1>1. healthy \in HealthRecord
  BY Zenon, SMTT(20), Written, NominalWeight DEF HealthRecord
<1>2. warming \in HealthRecord
  BY Zenon, SMTT(20), Written DEF HealthRecord
<1>3. /\ healthy.status = "Healthy" /\ healthy.effective_weight = r.nominal_weight
      /\ healthy.nominal_weight = r.nominal_weight /\ healthy.remaining_ejection = 0
      /\ healthy.active_failures = 0 /\ healthy.passive_failures = NoPassiveFailures
      /\ healthy.recovery_successes = r.recovery_successes
  BY DEF HealthRecord
<1>4. /\ warming.status = "Warming" /\ warming.effective_weight = 1
      /\ warming.nominal_weight = r.nominal_weight /\ warming.remaining_ejection = 0
      /\ warming.active_failures = 0 /\ warming.passive_failures = NoPassiveFailures
      /\ warming.recovery_successes = r.recovery_successes
  BY DEF HealthRecord
<1>5. Readmit(r) = IF WarmupDuration = 0 THEN healthy ELSE warming
  BY DEF Readmit
<1> HIDE DEF healthy, warming
<1>6. RecordShape(healthy) /\ RecordShape(warming)
  BY SMTT(20), Z3T(20), <1>3, <1>4, NominalWeight DEF RecordShape, Available
<1> QED
  BY Zenon, SMTT(20), <1>1, <1>2, <1>3, <1>4, <1>5, <1>6

\* transition_on_success keeps a record well formed, and takes an unhealthy or
\* degraded one back only when the run of successes is long enough.
LEMMA SuccessShape ==
    ASSUME NEW r \in HealthRecord, CountedShape(r)
    PROVE  SucceededTo(r, TransitionOnSuccess(r))
<1> DEFINE counted == [r EXCEPT !.recovery_successes = SatInc(r.recovery_successes)]
<1>1. SatInc(r.recovery_successes) \in 0..MaxCount
  <2>1. r.recovery_successes \in 0..MaxCount
    BY DEF HealthRecord
  <2> QED
    BY <2>1, SatIncType
<1>2. /\ counted \in HealthRecord
      /\ counted.recovery_successes = SatInc(r.recovery_successes)
      /\ counted.status = r.status /\ counted.effective_weight = r.effective_weight
      /\ counted.nominal_weight = r.nominal_weight
      /\ counted.remaining_ejection = r.remaining_ejection
  BY Zenon, SMTT(20), <1>1 DEF HealthRecord
<1>3. TransitionOnSuccess(r) =
        IF r.status = "Ejected" THEN r
        ELSE IF r.status \in {"Healthy", "Warming"} THEN ClearFailures(r)
        ELSE IF counted.recovery_successes < RecoverySuccesses THEN counted
        ELSE Readmit(ClearFailures(counted))
  BY DEF TransitionOnSuccess
<1> HIDE DEF counted
<1>4. CASE r.status = "Ejected"
  BY Zenon, SMTT(20), <1>3, <1>4 DEF RecordShape, CountedShape, SucceededTo
<1>5. CASE r.status \in {"Healthy", "Warming"}
  <2>1. RecordShape(ClearFailures(r))
    BY Zenon, SMTT(20), <1>5, Cleared DEF RecordShape, CountedShape
  <2> QED
    BY Zenon, SMTT(20), <1>3, <1>5, <2>1, Cleared DEF SucceededTo
<1>6. CASE r.status \in {"Unhealthy", "Degraded"}
  <2>1. RecordShape(counted)
    BY Zenon, SMTT(20), <1>2, <1>6 DEF RecordShape, CountedShape
  <2>2. LET c == ClearFailures(counted)
        IN  /\ c \in HealthRecord /\ c.remaining_ejection = 0
            /\ c.active_failures = 0 /\ c.passive_failures = NoPassiveFailures
            /\ c.recovery_successes = 0
    BY Zenon, SMTT(20), <1>2, <1>6, Cleared DEF CountedShape
  <2>3. LET t == Readmit(ClearFailures(counted))
        IN  /\ t \in HealthRecord /\ RecordShape(t)
            /\ t.status \in {"Healthy", "Warming"} /\ t.recovery_successes = 0
    BY Zenon, SMTT(20), <2>2, ReadmitShape
  <2>4. counted.recovery_successes < RecoverySuccesses
        \/ SatInc(r.recovery_successes) >= RecoverySuccesses
    BY SMTT(20), Z3T(20), <1>1, <1>2, PolicyTypes
  <2> QED
    BY Zenon, SMTT(20), <1>1, <1>2, <1>3, <1>6, <2>1, <2>3, <2>4, PolicyTypes DEF SucceededTo
<1> QED
  <2>1. r.status \in Statuses
    BY DEF HealthRecord
  <2> QED
    BY <1>4, <1>5, <1>6, <2>1 DEF Statuses

\* The window of passive results stays a sequence of results.
LEMMA PushType ==
    ASSUME NEW w \in Seq(BOOLEAN), NEW b \in BOOLEAN
    PROVE  PushResult(w, b) \in Seq(BOOLEAN)
<1>1. Append(w, b) \in Seq(BOOLEAN) /\ Append(w, b) /= <<>>
  OBVIOUS
<1>2. Tail(Append(w, b)) \in Seq(BOOLEAN)
  BY SMTT(20), Z3T(20), <1>1
<1> QED
  BY Zenon, SMTT(20), <1>1, <1>2 DEF PushResult

\* An active failure.
LEMMA ActiveFailure ==
    ASSUME NEW r \in HealthRecord, RecordShape(r)
    PROVE  FailedTo(r, OnActiveFailure(r))
<1> DEFINE f == [r EXCEPT !.active_failures = SatInc(r.active_failures),
                          !.recovery_successes = 0]
<1>1. SatInc(r.active_failures) \in 0..MaxCount
  <2>1. r.active_failures \in 0..MaxCount
    BY DEF HealthRecord
  <2> QED
    BY <2>1, SatIncType
<1>2. f \in HealthRecord
  BY Zenon, SMTT(20), <1>1, Written DEF HealthRecord
<1>3. /\ f.status = r.status /\ f.effective_weight = r.effective_weight
      /\ f.nominal_weight = r.nominal_weight /\ f.recovery_successes = 0
      /\ f.remaining_ejection = r.remaining_ejection
  BY DEF HealthRecord
<1>4. OnActiveFailure(r) = TransitionOnFailures(f, FALSE)
  BY DEF OnActiveFailure
<1> HIDE DEF f
<1>5. CountedShape(f)
  BY Zenon, SMTT(20), <1>3 DEF RecordShape, CountedShape
<1>6. FailedTo(f, TransitionOnFailures(f, FALSE))
  BY Zenon, SMTT(20), <1>2, <1>3, <1>5, FailureShape
<1> QED
  BY Zenon, SMTT(20), <1>3, <1>4, <1>6 DEF FailedTo

\* A passive failure, of any protocol.
LEMMA PassiveFailure ==
    ASSUME NEW r \in HealthRecord, RecordShape(r), NEW p \in Protocols
    PROVE  FailedTo(r, OnPassiveFailure(r, p))
<1> DEFINE w == PushResult(r.window, FALSE)
           q == [r.passive_failures EXCEPT ![p] = SatInc(r.passive_failures[p])]
           f == [r EXCEPT !.passive_failures[p] = SatInc(r.passive_failures[p]),
                          !.window = w,
                          !.recovery_successes = 0]
           g == [r EXCEPT !.passive_failures = q, !.window = w, !.recovery_successes = 0]
<1>1. /\ r.passive_failures \in [Protocols -> 0..MaxCount]
      /\ r.window \in Seq(BOOLEAN)
  BY DEF HealthRecord
<1>2. w \in Seq(BOOLEAN)
  BY Zenon, SMTT(20), <1>1, PushType
<1>3. SatInc(r.passive_failures[p]) \in 0..MaxCount
  BY <1>1, SatIncType
<1>4. q \in [Protocols -> 0..MaxCount]
  BY <1>1, <1>3
<1>5. f = g
  OBVIOUS
<1> HIDE DEF w, q
<1>6. g \in HealthRecord
  BY Zenon, SMTT(20), <1>2, <1>4, Written DEF HealthRecord
<1>7. /\ g.status = r.status /\ g.effective_weight = r.effective_weight
      /\ g.nominal_weight = r.nominal_weight /\ g.recovery_successes = 0
      /\ g.remaining_ejection = r.remaining_ejection
  BY DEF HealthRecord
<1>8. OnPassiveFailure(r, p) = TransitionOnFailures(g, TriggersEjection(g))
  BY <1>5 DEF OnPassiveFailure, w
<1> HIDE DEF f, g
<1>9. CountedShape(g)
  BY Zenon, SMTT(20), <1>7 DEF RecordShape, CountedShape
<1>10. TriggersEjection(g) \in BOOLEAN
  BY DEF TriggersEjection
<1>11. FailedTo(g, TransitionOnFailures(g, TriggersEjection(g)))
  BY <1>6, <1>7, <1>9, <1>10, FailureShape
<1> QED
  BY Zenon, SMTT(20), <1>7, <1>8, <1>11 DEF FailedTo

\* An active success.
LEMMA ActiveSuccess ==
    ASSUME NEW r \in HealthRecord, RecordShape(r)
    PROVE  SucceededTo(r, OnActiveSuccess(r))
<1>1. CountedShape(r)
  BY Zenon, SMTT(20) DEF RecordShape, CountedShape
<1> QED
  BY <1>1, SuccessShape DEF OnActiveSuccess

\* A passive success, of any protocol.
LEMMA PassiveSuccess ==
    ASSUME NEW r \in HealthRecord, RecordShape(r), NEW p \in Protocols
    PROVE  SucceededTo(r, OnPassiveSuccess(r, p))
<1> DEFINE w == PushResult(r.window, TRUE)
           q == [r.passive_failures EXCEPT ![p] = 0]
           f == [r EXCEPT !.passive_failures[p] = 0, !.window = w]
           g == [r EXCEPT !.passive_failures = q, !.window = w]
<1>1. /\ r.passive_failures \in [Protocols -> 0..MaxCount]
      /\ r.window \in Seq(BOOLEAN)
  BY DEF HealthRecord
<1>2. w \in Seq(BOOLEAN)
  BY Zenon, SMTT(20), <1>1, PushType
<1>3. q \in [Protocols -> 0..MaxCount]
  BY <1>1, Written
<1>4. f = g
  OBVIOUS
<1> HIDE DEF w, q
<1>5. g \in HealthRecord
  BY Zenon, SMTT(20), <1>2, <1>3 DEF HealthRecord
<1>6. /\ g.status = r.status /\ g.effective_weight = r.effective_weight
      /\ g.nominal_weight = r.nominal_weight
      /\ g.remaining_ejection = r.remaining_ejection
      /\ g.recovery_successes = r.recovery_successes
  BY DEF HealthRecord
<1>7. OnPassiveSuccess(r, p) = TransitionOnSuccess(g)
  BY <1>4 DEF OnPassiveSuccess, w
<1> HIDE DEF f, g
<1>8. CountedShape(g)
  BY Zenon, SMTT(20), <1>6 DEF RecordShape, CountedShape
<1>9. SucceededTo(g, TransitionOnSuccess(g))
  BY <1>5, <1>8, SuccessShape
<1> QED
  BY Zenon, SMTT(20), <1>6, <1>7, <1>9 DEF SucceededTo

\* The ejection timer.
LEMMA EjectionAged ==
    ASSUME NEW r \in HealthRecord, RecordShape(r), NEW d \in Nat
    PROVE  /\ AgedTo(r, AgeEjection(r, d), d)
           /\ r.status /= "Ejected" => AgeEjection(r, d) = r
<1> DEFINE expired == [r EXCEPT !.remaining_ejection = 0, !.status = "Unhealthy"]
           left    == [r EXCEPT !.remaining_ejection = r.remaining_ejection - d]
<1>1. r.remaining_ejection \in 0..EjectionDuration
  BY DEF HealthRecord
<1>2. CASE r.status /= "Ejected"
  BY <1>2 DEF AgeEjection, AgedTo
<1>3. CASE r.status = "Ejected" /\ d >= r.remaining_ejection
  <2>1. expired \in HealthRecord
    BY Zenon, SMTT(20), Written DEF HealthRecord
  <2>2. /\ expired.status = "Unhealthy" /\ expired.remaining_ejection = 0
        /\ expired.effective_weight = r.effective_weight
        /\ expired.nominal_weight = r.nominal_weight
        /\ expired.recovery_successes = r.recovery_successes
    BY DEF HealthRecord
  <2>3. AgeEjection(r, d) = expired
    BY <1>3 DEF AgeEjection
  <2> HIDE DEF expired
  <2>4. RecordShape(expired)
    BY <1>3, <2>2 DEF RecordShape, Available
  <2> QED
    BY Zenon, SMTT(20), <1>3, <2>1, <2>2, <2>3, <2>4 DEF AgedTo
<1>4. CASE r.status = "Ejected" /\ ~(d >= r.remaining_ejection)
  <2>1. r.remaining_ejection - d \in 0..EjectionDuration
    BY SMTT(20), Z3T(20), <1>1, <1>4, PolicyTypes
  <2>2. left \in HealthRecord
    BY Zenon, SMTT(20), <2>1 DEF HealthRecord
  <2>3. /\ left.status = r.status
        /\ left.remaining_ejection = r.remaining_ejection - d
        /\ left.effective_weight = r.effective_weight
        /\ left.nominal_weight = r.nominal_weight
        /\ left.recovery_successes = r.recovery_successes
    BY DEF HealthRecord
  <2>4. AgeEjection(r, d) = left
    BY <1>4 DEF AgeEjection
  <2> HIDE DEF left
  <2>5. RecordShape(left)
    BY <1>4, <2>3 DEF RecordShape, Available
  <2>6. d < r.remaining_ejection
    BY SMTT(20), Z3T(20), <1>1, <1>4, PolicyTypes
  <2> QED
    BY Zenon, SMTT(20), <1>4, <2>2, <2>3, <2>4, <2>5, <2>6 DEF AgedTo
<1> QED
  BY <1>2, <1>3, <1>4

\* The warm-up timer.
LEMMA WarmupAged ==
    ASSUME NEW r \in HealthRecord, RecordShape(r), NEW d \in Nat
    PROVE  LET t == AgeWarmup(r, d)
           IN  /\ t \in HealthRecord
               /\ RecordShape(t)
               /\ r.status /= "Warming" => t = r
               /\ r.status = "Warming" => t.status \in {"Healthy", "Warming"}
               /\ t.recovery_successes = r.recovery_successes
<1> DEFINE e == Smaller(r.warmup_elapsed + d, WarmupDuration)
           w == WarmupWeight(r.nominal_weight, e)
           s == IF e >= WarmupDuration THEN "Healthy" ELSE "Warming"
           t == [r EXCEPT !.warmup_elapsed = e, !.effective_weight = w, !.status = s]
<1>1. CASE r.status /= "Warming"
  BY <1>1 DEF AgeWarmup
<1>2. CASE r.status = "Warming"
  <2>1. r.warmup_elapsed \in 0..WarmupDuration /\ r.nominal_weight \in Weights
    BY DEF HealthRecord
  <2>2. e \in 0..WarmupDuration /\ e \in Nat
    BY SMTT(20), Z3T(20), <2>1, PolicyTypes DEF Smaller
  <2>3. w \in Nat /\ w > 0 /\ w <= r.nominal_weight
    BY Zenon, SMTT(20), <2>1, <2>2, WarmupWeightRange
  <2>4. s = "Healthy" => w = r.nominal_weight
    BY Zenon, SMTT(20), <2>1, <2>2 DEF WarmupWeight
  <2>5. s \in {"Healthy", "Warming"} /\ s \in Statuses
    BY DEF Statuses
  <2>6. AgeWarmup(r, d) = t
    BY <1>2 DEF AgeWarmup
  <2> HIDE DEF e, w, s
  <2>7. t \in HealthRecord
    BY Zenon, SMTT(20), <2>2, <2>3, <2>5 DEF HealthRecord
  <2>8. /\ t.status = s /\ t.effective_weight = w /\ t.nominal_weight = r.nominal_weight
        /\ t.active_failures = r.active_failures /\ t.passive_failures = r.passive_failures
        /\ t.remaining_ejection = r.remaining_ejection
        /\ t.recovery_successes = r.recovery_successes
    BY DEF HealthRecord
  <2> HIDE DEF t
  <2>9. FailuresReach(t, DegradedFailures) = FailuresReach(r, DegradedFailures)
    BY <2>8 DEF FailuresReach
  <2>10. RecordShape(t)
    BY SMTT(20), Z3T(20), <1>2, <2>3, <2>4, <2>5, <2>8, <2>9, NominalWeight DEF RecordShape, Available
  <2> QED
    BY Zenon, SMTT(20), <1>2, <2>5, <2>6, <2>7, <2>8, <2>10
<1> QED
  BY Zenon, SMTT(20), <1>1, <1>2

\* advance_time on one record.
LEMMA RecordAged ==
    ASSUME NEW r \in HealthRecord, RecordShape(r), NEW d \in Nat
    PROVE  AgedTo(r, Aged(r, d), d)
<1> DEFINE e == AgeEjection(r, d)
<1>1. AgedTo(r, e, d) /\ (r.status /= "Ejected" => e = r)
  BY EjectionAged
<1>2. Aged(r, d) = AgeWarmup(e, d)
  BY DEF Aged
<1> HIDE DEF e
<1>3. e \in HealthRecord /\ RecordShape(e)
  BY <1>1 DEF AgedTo
<1>4. LET t == AgeWarmup(e, d)
      IN  /\ t \in HealthRecord /\ RecordShape(t)
          /\ e.status /= "Warming" => t = e
          /\ e.status = "Warming" => t.status \in {"Healthy", "Warming"}
          /\ t.recovery_successes = e.recovery_successes
  BY Zenon, SMTT(20), <1>3, WarmupAged
<1> QED
  BY Zenon, SMTT(20), <1>1, <1>2, <1>4 DEF AgedTo

----------------------------------------------------------------------------
(* The registry. *)

\* What the history variables know of the record of k: the run of successes is
\* at least the one the record has counted, and the time already ejected plus
\* the time left is the whole ejection.
HistoryShape(k) ==
    /\ records[k].status \notin {"Unhealthy", "Degraded"} => records[k].recovery_successes = 0
    /\ records[k].recovery_successes <= run[k]
    /\ records[k].status = "Ejected" =>
         ejected_for[k] + records[k].remaining_ejection >= EjectionDuration

\* The inductive invariant, key by key.
KeyInv(k) ==
    /\ Tracked(k) <=> Registered(k)
    /\ Registered(k) => k[1] \in clusters
    /\ Tracked(k) => RecordShape(records[k]) /\ HistoryShape(k)

IInv == TypeOK /\ \A k \in Keys : KeyInv(k)

\* A tracked record is a record.
LEMMA TrackedRecord ==
    ASSUME TypeOK, NEW k \in Keys, Tracked(k)
    PROVE  records[k] \in HealthRecord
BY DEF TypeOK, Tracked

\* A record is not the absence of one.
LEMMA RecordTracked == \A r \in HealthRecord : r /= NoRecord
BY RegistryAssumption DEF RegistryAssumption

\* The budget cap turns what a failure made of the record into the same, or into
\* an unhealthy record; it lets an ejection stand only within the budget.
LEMMA CappedFailure ==
    ASSUME NEW k \in Keys, NEW t, FailedTo(records[k], t)
    PROVE  /\ FailedTo(records[k], Capped(k, t))
           /\ records[k].status /= "Ejected" /\ Capped(k, t).status = "Ejected" =>
                /\ Capped(k, t) = t
                /\ CanApplyEjectionBudget([records EXCEPT ![k] = t], k)
<1> DEFINE refused == /\ t.status = "Ejected" /\ records[k].status /= "Ejected"
                      /\ ~CanApplyEjectionBudget([records EXCEPT ![k] = t], k)
           u == [t EXCEPT !.status = "Unhealthy", !.remaining_ejection = 0,
                          !.effective_weight = 0]
<1>1. Capped(k, t) = IF refused THEN u ELSE t
  BY  DEF Capped
<1>2. t \in HealthRecord
  BY DEF FailedTo
<1>3. u \in HealthRecord
  BY Zenon, SMTT(20), <1>2, Written DEF HealthRecord
<1>4. /\ u.status = "Unhealthy" /\ u.remaining_ejection = 0 /\ u.effective_weight = 0
      /\ u.nominal_weight = t.nominal_weight
      /\ u.recovery_successes = t.recovery_successes
  BY <1>2 DEF HealthRecord
<1>5. refused => FailedTo(records[k], u)
  <2> HIDE DEF u
  <2>1. RecordShape(u)
    BY SMTT(20), Z3T(20), <1>2, <1>4, NominalWeight DEF RecordShape, Available
  <2> QED
    BY Zenon, SMTT(20), <1>3, <1>4, <2>1 DEF FailedTo
<1>6. u.status /= "Ejected"
  BY <1>4
<1> HIDE DEF u
<1> QED
  BY Zenon, SMTT(20), <1>1, <1>5, <1>6

\* A success is never capped.
LEMMA CappedSuccess ==
    ASSUME NEW k \in Keys, records[k] \in HealthRecord, NEW t, SucceededTo(records[k], t)
    PROVE  Capped(k, t) = t
<1>1. records[k].status \in Statuses
  BY Zenon, SMTT(20) DEF HealthRecord
<1>2. t.status = "Ejected" => records[k].status = "Ejected"
  BY Zenon, SMTT(20), <1>1 DEF SucceededTo, Statuses
<1> QED
  BY <1>2 DEF Capped

\* A failure signal keeps the invariant.
LEMMA FailKeeps ==
    ASSUME IInv, NEW k \in Keys, NEW t, Tracked(k), FailedTo(records[k], t), Fail(k, t)
    PROVE  IInv'
<1> DEFINE c == Capped(k, t)
<1>1. FailedTo(records[k], c)
  BY Zenon, SMTT(20), CappedFailure
<1>2. /\ records' = [records EXCEPT ![k] = c]
      /\ run' = [run EXCEPT ![k] = 0]
      /\ ejected_for' = [ejected_for EXCEPT ![k] =
             IF records[k].status = "Ejected" THEN ejected_for[k] ELSE 0]
      /\ UNCHANGED <<clusters, state>>
  BY Zenon, SMTT(20) DEF Fail, ApplySignal
<1> HIDE DEF c
<1>3. c \in HealthRecord /\ c /= NoRecord
  BY Zenon, SMTT(20), <1>1, RecordTracked DEF FailedTo
<1>4. TypeOK'
  BY Zenon, SMTT(20), <1>2, <1>3, Written DEF IInv, TypeOK
<1>5. ASSUME NEW j \in Keys PROVE KeyInv(j)'
  <2>1. CASE j /= k
    <3>1. /\ records'[j] = records[j] /\ run'[j] = run[j]
          /\ ejected_for'[j] = ejected_for[j] /\ state'[j] = state[j]
      BY Zenon, SMTT(20), <1>2, <2>1 DEF IInv, TypeOK
    <3> QED
      BY Zenon, SMTT(20), <1>2, <3>1 DEF IInv, KeyInv, Tracked, Registered, HistoryShape
  <2>2. CASE j = k
    <3>1. /\ records'[k] = c /\ run'[k] = 0 /\ state'[k] = state[k]
          /\ ejected_for'[k] = IF records[k].status = "Ejected" THEN ejected_for[k] ELSE 0
      BY Zenon, SMTT(20), <1>2 DEF IInv, TypeOK
    <3>2. HistoryShape(k)'
      <4>1. /\ c.recovery_successes = 0
            /\ records[k].status = "Ejected" => c.remaining_ejection = records[k].remaining_ejection
            /\ records[k].status /= "Ejected" /\ c.status = "Ejected" =>
                 c.remaining_ejection = EjectionDuration
        BY Zenon, SMTT(20), <1>1 DEF FailedTo
      <4>2. records[k].status = "Ejected" =>
              ejected_for[k] + records[k].remaining_ejection >= EjectionDuration
        BY Zenon, SMTT(20) DEF IInv, KeyInv, HistoryShape
      <4> QED
        BY SMTT(20), Z3T(20), <3>1, <4>1, <4>2, PolicyTypes DEF HistoryShape
    <3>3. RecordShape(c)
      BY Zenon, SMTT(20), <1>1 DEF FailedTo
    <3> QED
      BY Zenon, SMTT(20), <1>2, <1>3, <2>2, <3>1, <3>2, <3>3 DEF IInv, KeyInv, Tracked, Registered
  <2> QED
    BY <2>1, <2>2
<1> QED
  BY <1>4, <1>5 DEF IInv

\* A success signal keeps the invariant.
LEMMA SucceedKeeps ==
    ASSUME IInv, NEW k \in Keys, NEW t, Tracked(k), SucceededTo(records[k], t), Succeed(k, t)
    PROVE  IInv'
<1> DEFINE unwell == records[k].status \in {"Unhealthy", "Degraded"}
           n == IF unwell THEN Smaller(run[k] + 1, RecoverySuccesses) ELSE 0
<1>1. records[k] \in HealthRecord
  BY TrackedRecord DEF IInv
<1>2. /\ records' = [records EXCEPT ![k] = t]
      /\ run' = [run EXCEPT ![k] = n]
      /\ UNCHANGED <<clusters, state, ejected_for>>
  BY Zenon, SMTT(20), <1>1, CappedSuccess DEF Succeed, ApplySignal
<1>3. t \in HealthRecord /\ t /= NoRecord
  BY Zenon, SMTT(20), RecordTracked DEF SucceededTo
<1>4. run[k] \in 0..MaxCount /\ records[k].recovery_successes \in 0..MaxCount
  BY Zenon, SMTT(20), <1>1 DEF IInv, TypeOK, HealthRecord
<1>5. n \in 0..MaxCount
  BY SMTT(20), Z3T(20), <1>4, PolicyTypes DEF Smaller
<1>6. TypeOK'
  <2> HIDE DEF n
  <2> QED
    BY Zenon, SMTT(20), <1>2, <1>3, <1>5 DEF IInv, TypeOK
<1>7. HistoryShape(k)
  BY  DEF IInv, KeyInv
<1>8. t.recovery_successes <= n
  <2>1. records[k].status \in Statuses
    BY <1>1 DEF HealthRecord
  <2>2. records[k].recovery_successes <= run[k]
    BY Zenon, SMTT(20), <1>7 DEF HistoryShape
  <2>3. ~unwell => t.recovery_successes = 0
    BY Zenon, SMTT(20), <1>7, <2>1 DEF SucceededTo, HistoryShape, Statuses
  <2>4. unwell =>
          \/ t.recovery_successes = 0
          \/ /\ SatInc(records[k].recovery_successes) < RecoverySuccesses
             /\ t.recovery_successes = SatInc(records[k].recovery_successes)
    BY Zenon, SMTT(20) DEF SucceededTo
  <2>5. SatInc(records[k].recovery_successes) <= run[k] + 1
    BY SMTT(20), Z3T(20), <1>4, <2>2, PolicyTypes DEF SatInc
  <2>6. SatInc(records[k].recovery_successes) \in 0..MaxCount
    BY <1>4, SatIncType
  <2> QED
    BY SMTT(20), Z3T(20), <1>4, <1>5, <2>3, <2>4, <2>5, <2>6, PolicyTypes DEF Smaller
<1> HIDE DEF n
<1>9. ASSUME NEW j \in Keys PROVE KeyInv(j)'
  <2>1. CASE j /= k
    <3>1. /\ records'[j] = records[j] /\ run'[j] = run[j]
          /\ ejected_for'[j] = ejected_for[j] /\ state'[j] = state[j]
      BY Zenon, SMTT(20), <1>2, <2>1 DEF IInv, TypeOK
    <3> QED
      BY Zenon, SMTT(20), <1>2, <3>1 DEF IInv, KeyInv, Tracked, Registered, HistoryShape
  <2>2. CASE j = k
    <3>1. /\ records'[k] = t /\ run'[k] = n /\ state'[k] = state[k]
          /\ ejected_for'[k] = ejected_for[k]
      BY Zenon, SMTT(20), <1>2 DEF IInv, TypeOK
    <3>2. records[k].status \in Statuses
      BY <1>1 DEF HealthRecord
    <3>3. /\ t.status = "Ejected" => /\ records[k].status = "Ejected"
                                    /\ t.remaining_ejection = records[k].remaining_ejection
          /\ t.status \notin {"Unhealthy", "Degraded"} => t.recovery_successes = 0
      BY Zenon, SMTT(20), <1>7, <3>2 DEF SucceededTo, HistoryShape, Statuses
    <3>4. HistoryShape(k)'
      BY Zenon, SMTT(20), <1>7, <1>8, <3>1, <3>3 DEF HistoryShape
    <3>5. RecordShape(t)
      BY Zenon, SMTT(20) DEF SucceededTo
    <3> QED
      BY Zenon, SMTT(20), <1>2, <1>3, <2>2, <3>1, <3>4, <3>5 DEF IInv, KeyInv, Tracked, Registered
  <2> QED
    BY <2>1, <2>2
<1> QED
  BY <1>6, <1>9 DEF IInv

\* The timers keep the invariant.
LEMMA AdvanceKeeps ==
    ASSUME IInv, NEW d \in 1..MaxElapsed, AdvanceTime(d)
    PROVE  IInv'
<1>1. d \in Nat
  BY SMTT(20), Z3T(20), RegistryAssumption DEF RegistryAssumption
<1>2. ASSUME NEW k \in Keys, Tracked(k)
      PROVE  AgedTo(records[k], records'[k], d)
  <2>1. records[k] \in HealthRecord /\ RecordShape(records[k])
    BY Zenon, SMTT(20), <1>2, TrackedRecord DEF IInv, KeyInv
  <2>2. records'[k] = Aged(records[k], d)
    BY Zenon, SMTT(20), <1>2 DEF AdvanceTime
  <2> QED
    BY <1>1, <2>1, <2>2, RecordAged
<1>3. \A k \in Keys : ~Tracked(k) => records'[k] = NoRecord
  BY DEF AdvanceTime
<1>4. \A k \in Keys : records'[k] \in HealthRecord \cup {NoRecord}
  BY Zenon, SMTT(20), <1>2, <1>3 DEF AgedTo
<1>5. \A k \in Keys : ejected_for[k] \in 0..EjectionDuration
  BY DEF IInv, TypeOK
<1>6. \A k \in Keys : ejected_for'[k] \in 0..EjectionDuration
  BY SMTT(20), Z3T(20), <1>1, <1>5, PolicyTypes DEF AdvanceTime, Smaller
<1>7. TypeOK'
  <2>1. records' \in [Keys -> HealthRecord \cup {NoRecord}]
    BY <1>4 DEF AdvanceTime
  <2>2. ejected_for' \in [Keys -> 0..EjectionDuration]
    BY Zenon, SMTT(20), <1>6 DEF AdvanceTime
  <2> QED
    BY Zenon, SMTT(20), <2>1, <2>2 DEF AdvanceTime, IInv, TypeOK
<1>8. ASSUME NEW k \in Keys PROVE KeyInv(k)'
  <2>1. state'[k] = state[k] /\ run'[k] = run[k] /\ clusters' = clusters
    BY DEF AdvanceTime
  <2>2. CASE ~Tracked(k)
    BY Zenon, SMTT(20), <1>3, <2>1, <2>2 DEF IInv, KeyInv, Tracked, Registered
  <2>3. CASE Tracked(k)
    <3>1. AgedTo(records[k], records'[k], d)
      BY <1>2, <2>3
    <3>2. /\ records[k] \in HealthRecord /\ HistoryShape(k)
      BY Zenon, SMTT(20), <2>3, TrackedRecord DEF IInv, KeyInv
    <3>3. /\ records[k].status \in Statuses
          /\ records[k].remaining_ejection \in 0..EjectionDuration
      BY Zenon, SMTT(20), <3>2 DEF HealthRecord
    <3>4. records'[k] \in HealthRecord /\ RecordShape(records'[k])
      BY Zenon, SMTT(20), <3>1 DEF AgedTo
    <3>5. /\ records'[k].status \notin {"Unhealthy", "Degraded"} =>
               records'[k].recovery_successes = 0
          /\ records'[k].recovery_successes <= run[k]
      BY Zenon, SMTT(20), <3>1, <3>2, <3>3 DEF AgedTo, HistoryShape, Statuses
    <3>6. records'[k].status = "Ejected" =>
            ejected_for'[k] + records'[k].remaining_ejection >= EjectionDuration
      <4>1. records'[k].status = "Ejected" =>
              /\ records[k].status = "Ejected"
              /\ records'[k].remaining_ejection = records[k].remaining_ejection - d
        BY Zenon, SMTT(20), <3>1, <3>3 DEF AgedTo, Statuses
      <4>2. records[k].status = "Ejected" =>
              /\ ejected_for'[k] = Smaller(ejected_for[k] + d, EjectionDuration)
              /\ ejected_for[k] + records[k].remaining_ejection >= EjectionDuration
        BY Zenon, SMTT(20), <2>3, <3>2 DEF AdvanceTime, HistoryShape
      <4>3. records'[k].status = "Ejected" => records'[k].remaining_ejection \in Nat
        BY SMTT(20), Z3T(20), <3>4, PolicyTypes DEF HealthRecord
      <4> QED
        BY SMTT(20), Z3T(20), <1>1, <1>5, <3>3, <4>1, <4>2, <4>3, PolicyTypes DEF Smaller
    <3>7. HistoryShape(k)'
      BY Zenon, SMTT(20), <2>1, <3>5, <3>6 DEF HistoryShape
    <3> QED
      BY Zenon, SMTT(20), <2>1, <2>3, <3>4, <3>7, RecordTracked DEF IInv, KeyInv, Tracked, Registered
  <2> QED
    BY <2>2, <2>3
<1> QED
  BY <1>7, <1>8 DEF IInv

\* Registering and removing clusters and endpoints keeps the invariant.
LEMMA RegisterKeeps ==
    ASSUME IInv, Register
    PROVE  IInv'
<1>1. ASSUME NEW c \in Clusters, NEW members \in SUBSET Endpoints,
             NEW st \in EndpointStates, NEW w \in Weights, InsertCluster(c, members, st, w)
      PROVE  IInv'
  <2> DEFINE added == {c} \X members
             new   == NewRecord(st = "Ready", w)
  <2>1. new \in HealthRecord /\ RecordShape(new) /\ new /= NoRecord
    BY Zenon, SMTT(20), NewRecordShape, RecordTracked
  <2>2. new.recovery_successes = 0 /\ new.status /= "Ejected"
    BY Zenon, SMTT(20) DEF NewRecord
  <2>3. \A k \in added : k[1] = c
    OBVIOUS
  <2>4. TypeOK'
    <3> HIDE DEF new, added
    <3> QED
      BY Zenon, SMTT(20), <1>1, <2>1, Written DEF InsertCluster, IInv, TypeOK, new, added
  <2>5. ASSUME NEW k \in Keys PROVE KeyInv(k)'
    <3>1. CASE k \in added
      <4>1. /\ state'[k] = st /\ records'[k] = new /\ run'[k] = 0
            /\ clusters' = clusters \cup {c}
        BY Zenon, SMTT(20), <1>1, <3>1 DEF InsertCluster
      <4> HIDE DEF new, added
      <4> QED
        BY SMTT(20), Z3T(20), <2>1, <2>2, <2>3, <3>1, <4>1
           DEF KeyInv, Tracked, Registered, HistoryShape, EndpointStates
    <3>2. CASE k \notin added
      <4>1. /\ state'[k] = state[k] /\ records'[k] = records[k] /\ run'[k] = run[k]
            /\ clusters' = clusters \cup {c} /\ ejected_for' = ejected_for
        BY Zenon, SMTT(20), <1>1, <3>2 DEF InsertCluster
      <4> QED
        BY Zenon, SMTT(20), <4>1 DEF IInv, KeyInv, Tracked, Registered, HistoryShape
    <3> QED
      BY <3>1, <3>2
  <2> QED
    BY <2>4, <2>5 DEF IInv
<1>2. ASSUME NEW c \in Clusters, RemoveCluster(c)
      PROVE  IInv'
  <2>1. TypeOK'
    BY Zenon, SMTT(20), <1>2 DEF RemoveCluster, IInv, TypeOK, history
  <2>2. ASSUME NEW k \in Keys PROVE KeyInv(k)'
    <3>1. CASE k[1] = c
      <4>1. state'[k] = "absent" /\ records'[k] = NoRecord
        BY <1>2, <3>1 DEF RemoveCluster
      <4> QED
        BY Zenon, SMTT(20), <4>1 DEF KeyInv, Tracked, Registered
    <3>2. CASE k[1] /= c
      <4>1. /\ state'[k] = state[k] /\ records'[k] = records[k]
            /\ run' = run /\ ejected_for' = ejected_for /\ clusters' = clusters \ {c}
        BY <1>2, <3>2 DEF RemoveCluster, history
      <4> QED
        BY Zenon, SMTT(20), <3>2, <4>1 DEF IInv, KeyInv, Tracked, Registered, HistoryShape
    <3> QED
      BY <3>1, <3>2
  <2> QED
    BY <2>1, <2>2 DEF IInv
<1>3. ASSUME NEW k \in Keys, NEW st \in EndpointStates, NEW w \in Weights,
             InsertEndpoint(k, st, w)
      PROVE  IInv'
  <2> DEFINE new == NewRecord(st = "Ready", w)
  <2>1. new \in HealthRecord /\ RecordShape(new) /\ new /= NoRecord
    BY Zenon, SMTT(20), NewRecordShape, RecordTracked
  <2>2. new.recovery_successes = 0 /\ new.status /= "Ejected"
    BY Zenon, SMTT(20) DEF NewRecord
  <2>3. /\ state' = [state EXCEPT ![k] = st] /\ records' = [records EXCEPT ![k] = new]
        /\ run' = [run EXCEPT ![k] = 0] /\ UNCHANGED <<clusters, ejected_for>>
        /\ k[1] \in clusters
    BY <1>3 DEF InsertEndpoint
  <2> HIDE DEF new
  <2>4. TypeOK'
    BY Zenon, SMTT(20), <2>1, <2>3, Written DEF IInv, TypeOK
  <2>5. ASSUME NEW j \in Keys PROVE KeyInv(j)'
    <3>1. CASE j = k
      <4>1. state'[k] = st /\ records'[k] = new /\ run'[k] = 0
        BY <2>3 DEF IInv, TypeOK
      <4> QED
        BY SMTT(20), Z3T(20), <2>1, <2>2, <2>3, <3>1, <4>1
           DEF KeyInv, Tracked, Registered, HistoryShape, EndpointStates
    <3>2. CASE j /= k
      <4>1. /\ state'[j] = state[j] /\ records'[j] = records[j] /\ run'[j] = run[j]
            /\ ejected_for' = ejected_for
        BY <2>3, <3>2 DEF IInv, TypeOK
      <4> QED
        BY Zenon, SMTT(20), <2>3, <4>1 DEF IInv, KeyInv, Tracked, Registered, HistoryShape
    <3> QED
      BY Zenon, SMTT(20), <3>1, <3>2
  <2> QED
    BY <2>4, <2>5 DEF IInv
<1>4. ASSUME NEW k \in Keys, RemoveEndpoint(k)
      PROVE  IInv'
  <2>1. /\ state' = [state EXCEPT ![k] = "absent"]
        /\ records' = [records EXCEPT ![k] = NoRecord]
        /\ UNCHANGED <<clusters, ejected_for, run>>
    BY <1>4 DEF RemoveEndpoint, history
  <2>2. TypeOK'
    BY <2>1 DEF IInv, TypeOK
  <2>3. ASSUME NEW j \in Keys PROVE KeyInv(j)'
    <3>1. CASE j = k
      BY Zenon, SMTT(20), <2>1, <3>1 DEF IInv, TypeOK, KeyInv, Tracked, Registered
    <3>2. CASE j /= k
      <4>1. state'[j] = state[j] /\ records'[j] = records[j]
        BY <2>1, <3>2 DEF IInv, TypeOK
      <4> QED
        BY Zenon, SMTT(20), <2>1, <4>1 DEF IInv, KeyInv, Tracked, Registered, HistoryShape
    <3> QED
      BY <3>1, <3>2
  <2> QED
    BY <2>2, <2>3 DEF IInv
<1>5. ASSUME NEW k \in Keys, NEW st \in EndpointStates, SetEndpointState(k, st)
      PROVE  IInv'
  <2>1. /\ state' = [state EXCEPT ![k] = st] /\ Registered(k)
        /\ UNCHANGED <<clusters, records, ejected_for, run>>
    BY <1>5 DEF SetEndpointState, history
  <2>2. TypeOK'
    BY <2>1 DEF IInv, TypeOK
  <2>3. ASSUME NEW j \in Keys PROVE KeyInv(j)'
    <3>1. Registered(j)' <=> Registered(j)
      BY Zenon, SMTT(20), <2>1 DEF IInv, TypeOK, Registered, EndpointStates
    <3> QED
      BY Zenon, SMTT(20), <2>1, <3>1 DEF IInv, KeyInv, Tracked, HistoryShape
  <2> QED
    BY <2>2, <2>3 DEF IInv
<1> QED
  BY <1>1, <1>2, <1>3, <1>4, <1>5 DEF Register

\* Registration replaces no record: it drops one or adds one where there was none.
LEMMA RegisterFrame ==
    ASSUME IInv, Register, NEW k \in Keys, Tracked(k), records'[k] /= NoRecord
    PROVE  records'[k] = records[k]
<1>1. Registered(k) /\ k[1] \in clusters
  BY  DEF IInv, KeyInv
<1>2. ASSUME NEW c \in Clusters, NEW members \in SUBSET Endpoints,
             NEW st \in EndpointStates, NEW w \in Weights, InsertCluster(c, members, st, w)
      PROVE  records'[k] = records[k]
  <2>1. k \notin {c} \X members
    BY Zenon, SMTT(20), <1>1, <1>2 DEF InsertCluster
  <2> QED
    BY Zenon, SMTT(20), <1>2, <2>1 DEF InsertCluster
<1>3. ASSUME NEW c \in Clusters, RemoveCluster(c)
      PROVE  records'[k] = records[k]
  BY <1>3 DEF RemoveCluster
<1>4. ASSUME NEW j \in Keys, NEW st \in EndpointStates, NEW w \in Weights,
             InsertEndpoint(j, st, w)
      PROVE  records'[k] = records[k]
  <2>1. j /= k
    BY <1>1, <1>4 DEF InsertEndpoint
  <2> QED
    BY Zenon, SMTT(20), <1>4, <2>1 DEF InsertEndpoint, IInv, TypeOK
<1>5. ASSUME NEW j \in Keys, RemoveEndpoint(j)
      PROVE  records'[k] = records[k]
  BY <1>5 DEF RemoveEndpoint, IInv, TypeOK
<1>6. ASSUME NEW j \in Keys, NEW st \in EndpointStates, SetEndpointState(j, st)
      PROVE  records'[k] = records[k]
  BY <1>6 DEF SetEndpointState
<1> QED
  BY Zenon, SMTT(20), <1>2, <1>3, <1>4, <1>5, <1>6 DEF Register

\* Every failure signal is a Fail with a record FailedTo describes.
LEMMA FailureIs ==
    ASSUME IInv, NEW k \in Keys, FailureNoted(k)
    PROVE  Tracked(k) /\ \E t : FailedTo(records[k], t) /\ Fail(k, t)
<1>1. Tracked(k)
  BY  DEF FailureNoted, NoteActiveFailure, NotePassiveFailure
<1>2. records[k] \in HealthRecord /\ RecordShape(records[k])
  BY <1>1, TrackedRecord DEF IInv, KeyInv
<1>3. CASE NoteActiveFailure(k)
  BY <1>1, <1>2, <1>3, ActiveFailure DEF NoteActiveFailure
<1>4. ASSUME NEW p \in Protocols, NotePassiveFailure(k, p)
      PROVE  \E t : FailedTo(records[k], t) /\ Fail(k, t)
  BY Zenon, SMTT(20), <1>2, <1>4, PassiveFailure DEF NotePassiveFailure
<1> QED
  BY <1>1, <1>3, <1>4 DEF FailureNoted

\* Every success signal is a Succeed with a record SucceededTo describes.
LEMMA SuccessIs ==
    ASSUME IInv, NEW k \in Keys, SuccessNoted(k)
    PROVE  Tracked(k) /\ \E t : SucceededTo(records[k], t) /\ Succeed(k, t)
<1>1. Tracked(k)
  BY DEF SuccessNoted, NoteActiveSuccess, NotePassiveSuccess
<1>2. records[k] \in HealthRecord /\ RecordShape(records[k])
  BY <1>1, TrackedRecord DEF IInv, KeyInv
<1>3. CASE NoteActiveSuccess(k)
  BY <1>1, <1>2, <1>3, ActiveSuccess DEF NoteActiveSuccess
<1>4. ASSUME NEW p \in Protocols, NotePassiveSuccess(k, p)
      PROVE  \E t : SucceededTo(records[k], t) /\ Succeed(k, t)
  BY <1>2, <1>4, PassiveSuccess DEF NotePassiveSuccess
<1> QED
  BY <1>1, <1>3, <1>4 DEF SuccessNoted

\* The invariant holds in every reachable state.
LEMMA Inductive == Spec => []IInv
<1>1. Init => IInv
  BY Written, PolicyTypes
     DEF Init, IInv, TypeOK, KeyInv, Tracked, Registered
<1>2. IInv /\ [Next]_vars => IInv'
  <2> SUFFICES ASSUME IInv, [Next]_vars PROVE IInv'
    OBVIOUS
  <2>1. CASE Register
    BY <2>1, RegisterKeeps
  <2>2. ASSUME NEW k \in Keys, FailureNoted(k) PROVE IInv'
    BY <2>2, FailureIs, FailKeeps
  <2>3. ASSUME NEW k \in Keys, SuccessNoted(k) PROVE IInv'
    BY <2>3, SuccessIs, SucceedKeeps
  <2>4. ASSUME NEW d \in 1..MaxElapsed, AdvanceTime(d) PROVE IInv'
    BY <2>4, AdvanceKeeps
  <2>5. CASE UNCHANGED vars
    BY Zenon, SMTT(20), <2>5 DEF vars, history, IInv, TypeOK, KeyInv, Tracked, Registered, HistoryShape
  <2> QED
    BY Zenon, SMTT(20), <2>1, <2>2, <2>3, <2>4, <2>5 DEF Next
<1> QED
  BY <1>1, <1>2, PTL DEF Spec

(***************************************************************************)
(* Counters, weights and timers keep their ranges: the saturating          *)
(* increments of upstream_health.rs never leave u32.                       *)
(***************************************************************************)
THEOREM TypeCorrect == Spec => []TypeOK
<1>1. IInv => TypeOK
  BY  DEF IInv
<1> QED
  BY <1>1, Inductive, PTL

(***************************************************************************)
(* Registry and records agree and every record is well formed, after any   *)
(* sequence of registrations, signals and timer steps.                     *)
(***************************************************************************)
THEOREM HealthShapeKept == Spec => []HealthShape
<1>1. IInv => HealthShape
  BY DEF IInv, KeyInv, HealthShape
<1> QED
  BY <1>1, Inductive, PTL

\* A cluster has finitely many records.
LEMMA PeersFinite ==
    ASSUME NEW recs, NEW k \in Keys
    PROVE  /\ Cardinality(Peers(recs, k)) \in Nat
           /\ Cardinality(Ejected(recs, k)) \in Nat
<1> DEFINE own == {j \in Keys : j[1] = k[1]}
           f   == [j \in own |-> j[2]]
<1>1. f \in Injection(own, Endpoints)
  <2>1. f \in [own -> Endpoints]
    BY DEF Keys
  <2>2. \A i, j \in own : f[i] = f[j] => i = j
    BY SMTT(20), Z3T(20) DEF Keys
  <2> QED
    BY Zenon, SMTT(20), <2>1, <2>2 DEF Injection, IsInjective
<1>2. IsFiniteSet(own)
  BY Zenon, SMTT(20), <1>1, FS_Injection, RegistryAssumption DEF RegistryAssumption
<1>3. Peers(recs, k) \subseteq own /\ Ejected(recs, k) \subseteq own
  BY DEF Peers, Ejected
<1>4. IsFiniteSet(Peers(recs, k)) /\ IsFiniteSet(Ejected(recs, k))
  <2> HIDE DEF own
  <2> QED
    BY <1>2, <1>3, FS_Subset
<1> QED
  BY <1>4, FS_CardinalityType

\* What a failure signal writes: one record, FailedTo, and within the budget when
\* it starts an ejection.
LEMMA FailureWrites ==
    ASSUME IInv, NEW k \in Keys, FailureNoted(k)
    PROVE  /\ Tracked(k)
           /\ \A j \in Keys \ {k} : records'[j] = records[j]
           /\ FailedTo(records[k], records'[k])
           /\ records[k].status /= "Ejected" /\ records'[k].status = "Ejected" =>
                CanApplyEjectionBudget(records', k)
<1>1. PICK t : FailedTo(records[k], t) /\ Fail(k, t)
  BY FailureIs
<1>2. records' = [records EXCEPT ![k] = Capped(k, t)] /\ Tracked(k)
  BY <1>1 DEF Fail, ApplySignal
<1>3. records'[k] = Capped(k, t) /\ \A j \in Keys \ {k} : records'[j] = records[j]
  BY Zenon, SMTT(20), <1>2 DEF IInv, TypeOK
<1> QED
  BY Zenon, SMTT(20), <1>1, <1>2, <1>3, CappedFailure

\* What a success signal writes: one record, SucceededTo, and the run.
LEMMA SuccessWrites ==
    ASSUME IInv, NEW k \in Keys, SuccessNoted(k)
    PROVE  /\ Tracked(k)
           /\ \A j \in Keys \ {k} : records'[j] = records[j]
           /\ SucceededTo(records[k], records'[k])
           /\ records[k].status \in {"Unhealthy", "Degraded"} =>
                run'[k] = Smaller(run[k] + 1, RecoverySuccesses)
<1>1. PICK t : SucceededTo(records[k], t) /\ Succeed(k, t)
  BY SuccessIs
<1>2. records' = [records EXCEPT ![k] = Capped(k, t)] /\ Tracked(k)
  BY <1>1 DEF Succeed, ApplySignal
<1>3. records[k] \in HealthRecord
  BY <1>2, TrackedRecord DEF IInv
<1>4. Capped(k, t) = t
  BY <1>1, <1>3, CappedSuccess
<1>5. records'[k] = t /\ \A j \in Keys \ {k} : records'[j] = records[j]
  BY Zenon, SMTT(20), <1>2, <1>4 DEF IInv, TypeOK
<1>6. records[k].status \in {"Unhealthy", "Degraded"} =>
        run'[k] = Smaller(run[k] + 1, RecoverySuccesses)
  BY Zenon, SMTT(20), <1>1 DEF Succeed, IInv, TypeOK
<1> QED
  BY Zenon, SMTT(20), <1>1, <1>2, <1>5, <1>6

\* What the timers write.
LEMMA AdvanceWrites ==
    ASSUME IInv, NEW d \in 1..MaxElapsed, AdvanceTime(d), NEW k \in Keys, Tracked(k)
    PROVE  /\ AgedTo(records[k], records'[k], d)
           /\ records[k].status = "Ejected" =>
                ejected_for'[k] = Smaller(ejected_for[k] + d, EjectionDuration)
<1>1. d \in Nat
  BY SMTT(20), Z3T(20), RegistryAssumption DEF RegistryAssumption
<1>2. records[k] \in HealthRecord /\ RecordShape(records[k])
  BY Zenon, SMTT(20), TrackedRecord DEF IInv, KeyInv
<1>3. records'[k] = Aged(records[k], d)
  BY  DEF AdvanceTime
<1>4. records[k].status = "Ejected" =>
        ejected_for'[k] = Smaller(ejected_for[k] + d, EjectionDuration)
  BY Zenon, SMTT(20) DEF AdvanceTime
<1> QED
  BY Zenon, SMTT(20), <1>1, <1>2, <1>3, <1>4, RecordAged

(***************************************************************************)
(* An ejection ends only when ejection_duration has passed since it began  *)
(* or the endpoint is removed, whatever probes and requests report         *)
(* meanwhile.                                                              *)
(***************************************************************************)
THEOREM EjectionServedKept == Spec => EjectionServed
<1> DEFINE KeyStep == \A k \in Keys :
                      /\ Tracked(k) /\ records[k].status = "Ejected"
                      /\ records'[k] /= NoRecord /\ records'[k].status /= "Ejected"
                      => ejected_for'[k] >= EjectionDuration
<1>1. IInv /\ [Next]_vars => [KeyStep]_vars
  <2> SUFFICES ASSUME IInv, Next,
                      NEW k \in Keys, Tracked(k), records[k].status = "Ejected",
                      records'[k] /= NoRecord, records'[k].status /= "Ejected"
               PROVE  ejected_for'[k] >= EjectionDuration
    OBVIOUS
  <2>1. CASE Register
    BY <2>1, RegisterFrame
  <2>2. ASSUME NEW j \in Keys, FailureNoted(j)
        PROVE  ejected_for'[k] >= EjectionDuration
    BY Zenon, SMTT(20), <2>2, FailureWrites DEF FailedTo
  <2>3. ASSUME NEW j \in Keys, SuccessNoted(j)
        PROVE  ejected_for'[k] >= EjectionDuration
    BY Zenon, SMTT(20), <2>3, SuccessWrites DEF SucceededTo
  <2>4. ASSUME NEW d \in 1..MaxElapsed, AdvanceTime(d)
        PROVE  ejected_for'[k] >= EjectionDuration
    <3>1. /\ d >= records[k].remaining_ejection
          /\ ejected_for'[k] = Smaller(ejected_for[k] + d, EjectionDuration)
      BY Zenon, SMTT(20), <2>4, AdvanceWrites DEF AgedTo
    <3>2. ejected_for[k] + records[k].remaining_ejection >= EjectionDuration
      BY Zenon, SMTT(20) DEF IInv, KeyInv, HistoryShape
    <3>3. ejected_for[k] \in Nat /\ d \in Nat
      BY SMTT(20), Z3T(20), RegistryAssumption, PolicyTypes DEF RegistryAssumption, IInv, TypeOK
    <3>4. records[k].remaining_ejection \in Nat
      BY SMTT(20), Z3T(20), TrackedRecord, PolicyTypes DEF IInv, HealthRecord
    <3> QED
      BY SMTT(20), Z3T(20), <3>1, <3>2, <3>3, <3>4, PolicyTypes DEF Smaller
  <2> QED
    BY Zenon, SMTT(20), <2>1, <2>2, <2>3, <2>4 DEF Next
<1> QED
  BY <1>1, Inductive, PTL DEF Spec, EjectionServed

(***************************************************************************)
(* Warm-up or health is regained only by recovery_success_threshold        *)
(* successes in a row, counted from the end of the ejection.               *)
(***************************************************************************)
THEOREM ReadmissionEarnedKept == Spec => ReadmissionEarned
<1> DEFINE KeyStep == \A k \in Keys :
                      /\ Tracked(k) /\ records[k].status \in {"Unhealthy", "Degraded"}
                      /\ records'[k] /= NoRecord /\ records'[k].status \in {"Warming", "Healthy"}
                      => run'[k] >= RecoverySuccesses
<1>1. IInv /\ [Next]_vars => [KeyStep]_vars
  <2> SUFFICES ASSUME IInv, Next, NEW k \in Keys, Tracked(k),
                      records[k].status \in {"Unhealthy", "Degraded"},
                      records'[k] /= NoRecord,
                      records'[k].status \in {"Warming", "Healthy"}
               PROVE  run'[k] >= RecoverySuccesses
    BY Zenon, SMTT(20)
  <2>1. CASE Register
    BY <2>1, RegisterFrame
  <2>2. ASSUME NEW j \in Keys, FailureNoted(j)
        PROVE  run'[k] >= RecoverySuccesses
    BY Zenon, SMTT(20), <2>2, FailureWrites DEF FailedTo
  <2>3. ASSUME NEW j \in Keys, SuccessNoted(j)
        PROVE  run'[k] >= RecoverySuccesses
    <3>1. j = k
      BY <2>3, SuccessWrites
    <3>2. /\ SatInc(records[k].recovery_successes) >= RecoverySuccesses
          /\ run'[k] = Smaller(run[k] + 1, RecoverySuccesses)
      BY Zenon, SMTT(20), <2>3, <3>1, SuccessWrites DEF SucceededTo
    <3>3. records[k].recovery_successes <= run[k] /\ run[k] \in 0..MaxCount
      BY Zenon, SMTT(20) DEF IInv, KeyInv, HistoryShape, TypeOK
    <3>4. records[k].recovery_successes \in 0..MaxCount
      BY Zenon, SMTT(20), TrackedRecord DEF IInv, HealthRecord
    <3> QED
      BY SMTT(20), Z3T(20), <3>2, <3>3, <3>4, PolicyTypes DEF SatInc, Smaller
  <2>4. ASSUME NEW d \in 1..MaxElapsed, AdvanceTime(d)
        PROVE  run'[k] >= RecoverySuccesses
    BY Zenon, SMTT(20), <2>4, AdvanceWrites DEF AgedTo
  <2> QED
    BY Zenon, SMTT(20), <2>1, <2>2, <2>3, <2>4 DEF Next
<1> QED
  BY <1>1, Inductive, PTL DEF Spec, ReadmissionEarned

(***************************************************************************)
(* No ejection takes the cluster over cluster_ejection_budget_percent, the *)
(* allowance rounded up.                                                   *)
(***************************************************************************)
THEOREM EjectionBudgetKept == Spec => EjectionsWithinBudget
<1> DEFINE KeyStep == \A k \in Keys :
                      /\ Tracked(k) /\ records[k].status /= "Ejected"
                      /\ records'[k] /= NoRecord /\ records'[k].status = "Ejected"
                      /\ BudgetPercent < 100
                      => Cardinality(Ejected(records', k)) * 100
                             <= Cardinality(Peers(records', k)) * BudgetPercent + 99
<1>1. IInv /\ [Next]_vars => [KeyStep]_vars
  <2> SUFFICES ASSUME IInv, Next, NEW k \in Keys, Tracked(k),
                      records[k].status /= "Ejected",
                      records'[k] /= NoRecord, records'[k].status = "Ejected",
                      BudgetPercent < 100
               PROVE  Cardinality(Ejected(records', k)) * 100
                          <= Cardinality(Peers(records', k)) * BudgetPercent + 99
    BY Zenon, SMTT(20)
  <2>1. ~Register
    BY RegisterFrame
  <2>2. \A j \in Keys : ~SuccessNoted(j)
    <3>1. records[k].status \in Statuses
      BY TrackedRecord DEF IInv, HealthRecord
    <3> QED
      BY Zenon, SMTT(20), <3>1, SuccessWrites DEF SucceededTo, Statuses
  <2>3. \A d \in 1..MaxElapsed : ~AdvanceTime(d)
    <3>1. records[k].status \in Statuses
      BY TrackedRecord DEF IInv, HealthRecord
    <3> QED
      BY Zenon, SMTT(20), <3>1, AdvanceWrites DEF AgedTo, Statuses
  <2>4. FailureNoted(k)
    BY Zenon, SMTT(20), <2>1, <2>2, <2>3, FailureWrites DEF Next
  <2>5. CanApplyEjectionBudget(records', k)
    BY Zenon, SMTT(20), <2>4, FailureWrites
  <2>6. Cardinality(Ejected(records', k)) <= AllowedEjections(records', k)
    BY SMTT(20), Z3T(20), <2>5, PolicyTypes DEF CanApplyEjectionBudget
  <2>7. /\ Cardinality(Ejected(records', k)) \in Nat
        /\ Cardinality(Peers(records', k)) \in Nat
    BY Zenon, SMTT(20), PeersFinite
  <2> DEFINE x == Cardinality(Ejected(records', k))
             y == Cardinality(Peers(records', k)) * BudgetPercent + 99
  <2>8. y \in Nat
    BY SMTT(20), Z3T(20), <2>7, PolicyTypes
  <2>9. x <= y \div 100
    BY Zenon, SMTT(20), <2>6 DEF AllowedEjections
  <2> HIDE DEF x, y
  <2>10. x * 100 <= y
    BY SMTT(20), Z3T(20), <2>7, <2>8, <2>9 DEF x
  <2> QED
    BY Zenon, SMTT(20), <2>10 DEF x, y
<1> QED
  BY <1>1, Inductive, PTL DEF Spec, EjectionsWithinBudget

(***************************************************************************)
(* An ejection is honoured to its end and beyond: only the timer ends it,  *)
(* and readmission takes the configured successes in a row after it.       *)
(***************************************************************************)
THEOREM EjectionHonouredKept == Spec => EjectionHonoured
BY EjectionServedKept, ReadmissionEarnedKept, PTL DEF EjectionHonoured
=============================================================================
