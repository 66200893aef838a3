----------------------- MODULE RequestClassification -----------------------
(***************************************************************************)
(* How suspicious a request looks and what is done about it                *)
(* (crates/runtime/src/request_classification.rs with its scorers in       *)
(* header_anomaly_scoring.rs, request_body_inspection.rs,                  *)
(* reputation_adapter.rs and bot_signal_adapter.rs, the mapping to an      *)
(* action in request_classification_enforcement.rs, and its adaptation to  *)
(* overload in request_classification_adaptive_mitigation.rs).             *)
(*                                                                         *)
(* The evaluation is a pure function of the request, the providers'        *)
(* verdicts and the overload state.  A behaviour starts with one request   *)
(* and adds evidence against it one piece at a time, so that the decisions *)
(* of neighbouring requests can be compared.  Scores keep their width of   *)
(* eight bits.  The proxies do not call the classifier yet.                *)
(***************************************************************************)
EXTENDS Integers, Sequences, FiniteSets, FiniteSetsExt, SequencesExt

VARIABLES
    classifier,     \* RequestClassificationPolicyConfig and the enforcement policies
    evidence,       \* the request, the verdicts, the auth context, the overload
    decided         \* the score and the action they lead to

classVars == <<classifier, evidence, decided>>

Least(a, b) == IF a <= b THEN a ELSE b

Most(a, b) == IF a >= b THEN a ELSE b

Signal(kind, strength) == [kind |-> kind, strength |-> strength]

score_to_u8(score) == Least(score, 100)

When(condition, signal) == IF condition THEN <<signal>> ELSE <<>>

----------------------------------------------------------------------------
(* The scorers.                                                            *)
Over(amount, limit) ==
    When(amount > limit, Signal("header_anomaly", score_to_u8((amount * 100) \div Most(limit, 1))))

(* A header has a name, the length of its value and, for a user agent, the *)
(* number of suspicious patterns found in it.                              *)
score_headers(headers) ==
    LET names == SetToSeq({headers[n].name : n \in DOMAIN headers})
        Times(name) == Cardinality({n \in DOMAIN headers : headers[n].name = name})
        OfHeader(h) ==
            Over(h.length, classifier.max_header_value_length)
                \o When(h.name \in classifier.suspicious_headers, Signal("header_anomaly", 100))
                \o [n \in 1..h.patterns |-> Signal("user_agent_anomaly", 100)]
    IN  Over(Len(headers), classifier.max_header_count)
            \o FlattenSeq([n \in DOMAIN headers |-> OfHeader(headers[n])])
            \o FlattenSeq([n \in DOMAIN names |-> Over(Times(names[n]), classifier.max_duplicate_headers)])

(* Only the first max_inspect_bytes of a body are looked at, and nothing   *)
(* of one whose content type is on the allow list.  A pattern is a place   *)
(* in the body where it ends.                                              *)
score_body(body) ==
    LET inspect_len == Least(body.length, classifier.max_inspect_bytes)
        hits == Cardinality({p \in body.patterns : p <= inspect_len})
        odd == Cardinality({p \in body.non_printable : p <= inspect_len})
        large == When(body.length > classifier.max_body_bytes, Signal("body_anomaly", 100))
    IN  IF body.allowlisted \/ inspect_len = 0 THEN large
        ELSE large
             \o When(hits > 0, Signal("body_anomaly", Least(25 + hits * 20, 100)))
             \o When(body.textual /\ (odd * 100) \div inspect_len > 35, Signal("body_anomaly", 45))

(* One signal per provider that reported something, or that failed while a *)
(* fallback strength is configured.                                        *)
ScoreVerdicts(kind, verdicts, strengths) ==
    LET Of(verdict) ==
            CASE verdict = "doubt" -> <<Signal(kind, strengths[1])>>
              [] verdict = "bad" -> <<Signal(kind, strengths[2])>>
              [] verdict = "error" -> When(classifier.fallback > 0, Signal(kind, Least(classifier.fallback, 100)))
              [] OTHER -> <<>>
    IN  FlattenSeq([n \in DOMAIN verdicts |-> Of(verdicts[n])])

(* classify_with_adapters_and_body                                         *)
Signals(seen) ==
    score_headers(seen.headers) \o score_body(seen.body)
        \o ScoreVerdicts("reputation", seen.reputation, <<45, 90>>)
        \o ScoreVerdicts("bot_signal", seen.bots, <<55, 85>>)

----------------------------------------------------------------------------
(* The score: every kind saturates at 255, their sum at 100.               *)
Weighted(signal) == ((classifier.weights[signal.kind] * signal.strength) \div 100) % 256

KindScore(signals, kind) ==
    LET sum[n \in 0..Len(signals)] ==
            IF n = 0 THEN 0
            ELSE IF signals[n].kind = kind THEN Least(sum[n - 1] + Weighted(signals[n]), 255) ELSE sum[n - 1]
    IN  sum[Len(signals)]

classify(seen) ==
    LET signals == Signals(seen)
        score == Least(FoldSet(LAMBDA kind, sum : sum + KindScore(signals, kind), 0,
                               DOMAIN classifier.weights), 100)
    IN  [score |-> score,
         action |-> CASE score >= classifier.block_threshold -> "block"
                      [] score >= classifier.challenge_threshold -> "challenge"
                      [] OTHER -> "allow"]

----------------------------------------------------------------------------
Enforced(seen, result) ==
    CASE result.action = "block" \/ seen.disposition = "block" -> "block"
      [] seen.principal \in classifier.trusted_principals -> "allow"
      [] result.action = "challenge" -> IF seen.fail_open THEN "throttle" ELSE "challenge"
      [] result.score >= classifier.tag_min \/ seen.risk_tier \in {"elevated", "high"} -> "tag"
      [] OTHER -> "allow"

(* RequestClassificationAdaptiveMitigator::adapt; an action reached by the *)
(* exception for trusted principals is left alone.                         *)
adapt(seen, action) ==
    LET trusted == action = "allow" /\ seen.principal \in classifier.trusted_principals
        shed == seen.shedding = "shed"
        first == IF shed /\ classifier.escalate_tag /\ action = "tag" THEN "challenge" ELSE action
    IN  IF trusted THEN action
        ELSE IF /\ shed /\ seen.overload = "brownout" /\ classifier.escalate_challenge
                /\ first = "challenge"
             THEN "throttle" ELSE first

Decision(seen) ==
    LET result == classify(seen)
    IN  [score |-> result.score, action |-> adapt(seen, Enforced(seen, result))]

ClassificationInit(policy, first) == classifier = policy /\ evidence = first /\ decided = Decision(first)

----------------------------------------------------------------------------
(* One more piece of evidence.                                             *)
Weigh(seen) == evidence' = seen /\ decided' = Decision(seen) /\ UNCHANGED classifier

MoreHeaders(header) == Weigh([evidence EXCEPT !.headers = Append(@, header)])

WorseBody ==
    \E p \in 1..evidence.body.length :
        \/ p \notin evidence.body.patterns /\ Weigh([evidence EXCEPT !.body.patterns = @ \cup {p}])
        \/ /\ p \notin evidence.body.non_printable
           /\ Weigh([evidence EXCEPT !.body.non_printable = @ \cup {p}])

Worse == [good |-> "doubt", doubt |-> "bad"]

WorseVerdict(chain) ==
    \E n \in DOMAIN evidence[chain] :
        /\ evidence[chain][n] \in DOMAIN Worse
        /\ Weigh([evidence EXCEPT ![chain][n] = Worse[@]])

WorseOverload ==
    \/ evidence.shedding = "admit" /\ Weigh([evidence EXCEPT !.shedding = "shed"])
    \/ evidence.overload # "brownout" /\ Weigh([evidence EXCEPT !.overload = "brownout"])

----------------------------------------------------------------------------
Severity == [allow |-> 0, tag |-> 1, challenge |-> 2, throttle |-> 3, block |-> 4]

ClassificationTypeOK == decided.score \in 0..100 /\ decided.action \in DOMAIN Severity

(* More evidence against a request, or a more overloaded proxy, never      *)
(* makes the action milder: no counter wraps, and no exception or          *)
(* downgrade opens below a stricter step (request_classification.rs,       *)
(* classify; evaluate and adapt).                                          *)
SuspicionNeverRelaxes == [][Severity[decided'.action] >= Severity[decided.action]]_classVars

(* A trusted principal is either blocked outright or left alone, and       *)
(* overload does not change that (docs/configuration.md:553, "trusted-     *)
(* principal false-positive exceptions are preserved and are not escalated *)
(* by overload adaptation").                                               *)
TrustedSpared ==
    evidence.principal \in classifier.trusted_principals =>
        decided.action \in {"allow", "block"}
=============================================================================
