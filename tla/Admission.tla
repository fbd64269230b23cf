------------------------------- MODULE Admission -------------------------------
(***************************************************************************)
(* engine_c_admission.py: which samples Engine C judges, and the verdict   *)
(* of those it does not. Scores, confidences and weights are in hundredths *)
(* and products are rounded down; a label is what _canonical_label reads   *)
(* from a text, "none" where there is no text it knows.                    *)
(***************************************************************************)
EXTENDS Integers, FiniteSets, FiniteSetsExt

Verdicts == {"benign", "suspicious", "malicious"}
Upstream == {"engine_a", "engine_b"}
Fields == {"score", "label", "confidence"}

Clip(low, x, high) == Max({low, Min({x, high})})
Distance(x, y) == IF x > y THEN x - y ELSE y - x

\* What an engine sent: a score and a confidence on either scale, a label, and the
\* fields that are there at all.
RawEngine == [score: Nat, label: Verdicts \cup {"none"}, confidence: Nat, given: SUBSET Fields]

\* A raw score above 1 is a percentage.
NormalizeScore(raw) == Clip(0, IF raw > 100 THEN raw \div 100 ELSE raw, 100)
Label(score) == IF score >= 70 THEN "malicious" ELSE IF score >= 45 THEN "suspicious" ELSE "benign"

\* In production every field is required of both engines; elsewhere what is missing is
\* derived, from a score of one half where there is none.
MissingInput(sample) == \E e \in Upstream : sample[e].given # Fields
Derive(raw) ==
  LET score == IF "score" \in raw.given THEN raw.score ELSE 5000
      s == NormalizeScore(score)
  IN [score |-> score, given |-> Fields,
      label |-> IF "label" \in raw.given THEN raw.label ELSE Label(s),
      confidence |-> IF "confidence" \in raw.given THEN raw.confidence ELSE 2 * Distance(s, 50)]

View(raw) ==
  LET s == NormalizeScore(raw.score) IN
  [score |-> s, label |-> IF raw.label = "none" THEN Label(s) ELSE raw.label,
   confidence |-> NormalizeScore(raw.confidence)]

\* decide: the first of the reasons that applies.
Reason(a, b, force, p) ==
  LET clear == /\ Min({a.confidence, b.confidence}) >= p.clearConfidence
               /\ Distance(a.score, b.score) <= p.ambiguityGap
  IN IF force THEN "MANUAL_FORCE"
     ELSE IF a.label # b.label THEN "CONFLICT"
     ELSE IF clear THEN "CLEAR_CONSENSUS"
     ELSE IF Max({a.score, b.score}) >= p.highRisk THEN "AMBIGUOUS_HIGH_RISK"
     ELSE "LOW_RISK_UNCERTAIN"
Admits(reason) == reason \in {"MANUAL_FORCE", "CONFLICT", "AMBIGUOUS_HIGH_RISK"}

\* The weighted score of A and B, labelled anew with thresholds of its own.
DirectDecision(a, b, reason, p) ==
  LET wa == p.initial["engine_a"]
      wb == p.initial["engine_b"]
      total == IF wa + wb = 0 THEN 100 ELSE wa + wb
      score == Clip(0, (a.score * wa + b.score * wb) \div total, 100)
  IN [score |-> score, verdict |-> Label(score), review |-> reason = "LOW_RISK_UNCERTAIN"]
==============================================================================
