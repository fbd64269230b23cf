------------------------------- MODULE Decision -------------------------------
(***************************************************************************)
(* decision.py and degradation.py: the weighted decision of engines A, B   *)
(* and C, the components that send it to review, and what the failure of   *)
(* an agent does to it. Everything is in hundredths, rounded down.         *)
(***************************************************************************)
EXTENDS Admission

Engines == Upstream \cup {"engine_c"}
Agents == {"static_analysis", "threat_intel", "impersonation", "business_label"}

\* The decision parameters, as validate_params leaves them.
Params ==
  [initial: [Engines -> Nat], weightMin: Nat, weightMax: Nat,
   gain: [Agents -> Nat], signatureGain: Nat, conflictGain: Nat, evidenceGain: Nat,
   disagreementDecay: Nat, missingDecay: Nat, xgbWeight: Nat,
   clearConfidence: Nat, highRisk: Nat, ambiguityGap: Nat,
   malicious: Nat, suspicious: Nat]

\* validate_params: weights between their bounds, and thresholds in order or an error.
Validated(p) ==
  LET high == Max({p.weightMin, p.weightMax}) IN
  [p EXCEPT !.weightMax = high,
            !.initial = [e \in Engines |-> Clip(p.weightMin, p.initial[e], high)]]
ValidParams(p) == p.suspicious < p.malicious

\* What an agent's evidence block says: its strength is that of extract_key_evidence,
\* nothing when the block is insufficient or degraded.
Block == [score: 0..100, confidence: 0..100, usable: BOOLEAN, missing: 0..14, items: Nat]
Strength(b) == IF b.usable THEN (65 * b.score + 35 * b.confidence) \div 100 ELSE 0
Decisive(strength) == strength >= 78

\* The prediction of XGBoost, with the verdict of its own thresholds.
NoXgb == [probability |-> 0, verdict |-> "unavailable"]
XgbVerdict(probability) ==
  IF probability < 16 THEN "benign" ELSE IF probability >= 82 THEN "malicious" ELSE "suspicious"
Xgb(probability) == [probability |-> probability, verdict |-> XgbVerdict(probability)]

\* Score C: the arbiter's, calibrated by XGBoost.
ScoreC(arbiter, xgb, p) ==
  IF xgb = NoXgb THEN arbiter
  ELSE LET w == Clip(0, p.xgbWeight, 100) IN
       (arbiter * (100 - w) + xgb.probability * w) \div 100

VerdictOf(score, p) ==
  IF score >= p.malicious THEN "malicious"
  ELSE IF score >= p.suspicious THEN "suspicious" ELSE "benign"
------------------------------------------------------------------------------
\* allocate_dynamic_weights. The adjustments of one engine all have the same sign, so
\* that clamping their sum is clamping each of them in turn.
ClampWeight(w, p) == Clip(p.weightMin, w, p.weightMax)

DecisiveStrengths(case) ==
  LET agents == {a \in Agents : Decisive(Strength(case.blocks[a]))} IN
  [total |-> MapThenSumSet(LAMBDA a : Strength(case.blocks[a]), agents)
             + (IF Decisive(case.arbiter) THEN case.arbiter ELSE 0)
             + (IF case.badSignature THEN 90 ELSE 0),
   count |-> Cardinality(agents) + (IF Decisive(case.arbiter) THEN 1 ELSE 0)
             + (IF case.badSignature THEN 1 ELSE 0)]

GainOfC(case, spread, p) ==
  LET strong == {a \in Agents : Strength(case.blocks[a]) >= 55}
      decisive == DecisiveStrengths(case)
  IN MapThenSumSet(LAMBDA a : (p.gain[a] * Strength(case.blocks[a])) \div 100, strong)
     + (IF case.badSignature THEN (p.signatureGain * 90) \div 100 ELSE 0)
     + (IF spread >= 35 THEN (p.conflictGain * spread) \div 100 ELSE 0)
     + (IF decisive.count > 0
        THEN (p.evidenceGain * (decisive.total \div decisive.count)) \div 100 ELSE 0)

LossOf(agent, case, spread, p) ==
  (IF spread >= 35 THEN (p.disagreementDecay * spread) \div 100 ELSE 0)
  + p.missingDecay * Min({case.blocks[agent].missing, 3})

Weights(case, scores, p) ==
  LET spread == Distance(scores["engine_a"], scores["engine_b"]) IN
  [e \in Engines |->
    CASE e = "engine_a" ->
           ClampWeight(p.initial[e] - LossOf("static_analysis", case, spread, p), p)
      [] e = "engine_b" ->
           ClampWeight(p.initial[e] - LossOf("threat_intel", case, spread, p), p)
      [] e = "engine_c" -> ClampWeight(p.initial[e] + GainOfC(case, spread, p), p)]

WeightedScore(scores, weights) ==
  LET total == MapThenSumSet(LAMBDA e : weights[e], Engines) IN
  MapThenSumSet(LAMBDA e : scores[e] * weights[e], Engines) \div (IF total = 0 THEN 100 ELSE total)
------------------------------------------------------------------------------
\* guarded_verdict: the components that make a reviewer look at a verdict.
CredibleEvidence(case) ==
  case.badSignature \/ \E a \in Agents : Decisive(Strength(case.blocks[a]))

\* Mutant: the components are compared before anything else, and only compared.
ReviewReasons_Compared(verdict, case) ==
  {r \in {"component_disagreement"} :
     Cardinality({case.xgb.verdict, case.arbiterVerdict, verdict} \ {"unavailable"}) > 1}
ReviewReasons(verdict, case) ==
  LET seen == {case.xgb.verdict, case.arbiterVerdict, verdict} \ {"unavailable"} IN
  {r \in {"xgboost_native", "arbiter", "credible_agent_malicious_evidence", "component_disagreement"} :
    \/ r = "xgboost_native" /\ verdict = "benign" /\ case.xgb.verdict \in {"suspicious", "malicious"}
    \/ r = "arbiter" /\ verdict = "benign" /\ case.arbiterVerdict # "benign"
    \/ r = "credible_agent_malicious_evidence" /\ verdict = "benign" /\ CredibleEvidence(case)
    \/ r = "component_disagreement" /\ Cardinality(seen) > 1}

CollaborativeDecision(case, p) ==
  LET scores == [engine_a |-> NormalizeScore(case.sample["engine_a"].score),
                 engine_b |-> NormalizeScore(case.sample["engine_b"].score),
                 engine_c |-> ScoreC(case.arbiter, case.xgb, p)]
      weights == Weights(case, scores, p)
      score == WeightedScore(scores, weights)
      verdict == VerdictOf(score, p)
      reasons == ReviewReasons(verdict, case)
  IN [score |-> score, scores |-> scores, weights |-> weights, verdict |-> verdict, reasons |-> reasons,
      confidence |-> 0, recommended |-> FALSE,
      review |-> verdict = "suspicious" \/ reasons # {}]
------------------------------------------------------------------------------
\* evaluate_degradation: a failed agent, save one the plan skipped, costs confidence;
\* static analysis costs the run its right to a benign verdict without a review.
Statuses == {"completed", "failed", "skipped_by_plan"}
Degradation(status) ==
  LET failed == {a \in Agents : status[a] = "failed"}
      penalty(a) == CASE a = "static_analysis" -> 25 [] a = "threat_intel" -> 12 [] OTHER -> 8
  IN [status |-> IF failed = {} THEN "healthy" ELSE "degraded",
      critical |-> "static_analysis" \in failed,
      penalty |-> Min({50, MapThenSumSet(penalty, failed)})]

\* merge_unavailable_evidence: every field nobody could obtain costs four hundredths.
WithUnavailable(degradation, fields) ==
  [degradation EXCEPT !.penalty = Min({50, @ + Min({16, 4 * fields})})]

\* recommend_review: only when what is missing could still change the verdict.
NearBoundary(verdict, score, p) ==
  \/ verdict = "benign" /\ score >= p.suspicious - 5
  \/ verdict = "malicious" /\ score <= p.malicious + 5
  \/ verdict = "suspicious" /\ (score <= p.suspicious + 5 \/ score >= p.malicious - 5)
EngineConflict(decision) ==
  LET scores == {decision.scores[e] : e \in Engines} IN
  "component_disagreement" \in decision.reasons \/ Max(scores) - Min(scores) >= 25
Recommended(decision, degradation, fields, confidence, p) ==
  \/ degradation.critical
  \/ /\ fields > 0
     /\ \/ NearBoundary(decision.verdict, decision.score, p)
        \/ EngineConflict(decision)
        \/ degradation.status = "degraded" /\ confidence < 40

ApplyDegradation(decision, degradation, fields, confidence, p) ==
  LET left == Max({0, confidence - degradation.penalty}) IN
  [decision EXCEPT
    !.confidence = left,
    !.recommended = Recommended(decision, degradation, fields, left, p),
    !.review = @ \/ degradation.critical,
    !.verdict = IF degradation.critical /\ @ = "benign" THEN "suspicious" ELSE @]
==============================================================================
