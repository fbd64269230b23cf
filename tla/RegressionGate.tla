---------------------------- MODULE RegressionGate ----------------------------
(***************************************************************************)
(* The regression gate (malapp/evaluation/gates.py) under the policy of    *)
(* malapp/config/defaults/eval/regression_gate.json: a candidate's         *)
(* scorecard against a baseline's.                                         *)
(*                                                                         *)
(* A rate is a whole number of thousandths.  Every check of a scorecard    *)
(* counts; which one failed is left out.                                   *)
(***************************************************************************)
EXTENDS Integers

CONSTANT Missing          \* what a scorecard does not have

Metrics == {"malicious_recall", "benign_false_positive_rate", "structure_success_rate",
            "high_confidence_error_count", "wrong_rag_citation_count"}

\* One is compared with a value of the policy, the others with the baseline.
Relative == Metrics \ {"structure_success_rate"}

\* Baseline and candidate are of one frozen validation set, both in full.
Comparable(base, card) ==
    /\ base.benchmark # Missing /\ card.benchmark = base.benchmark
    /\ base.total # Missing /\ card.total = base.total
    /\ base.evaluated # Missing /\ card.evaluated = base.evaluated
    /\ card.coverage # Missing /\ card.coverage >= 1000

Measured(base, card) ==
    /\ \A m \in Metrics : card.metrics[m] # Missing
    /\ \A m \in Relative : base.metrics[m] # Missing

NoWorse(base, card) ==
    LET Gain(m) == card.metrics[m] - base.metrics[m]
    IN  /\ Gain("malicious_recall") >= 0
        /\ Gain("benign_false_positive_rate") <= 5
        /\ card.metrics["structure_success_rate"] >= 995
        /\ Gain("high_confidence_error_count") <= 0
        /\ Gain("wrong_rag_citation_count") <= 0

\* evaluate_regression_gate: what blocks comes before what fails.
Gate(base, card) ==
    IF ~Comparable(base, card) \/ ~Measured(base, card) THEN "blocked"
    ELSE IF NoWorse(base, card) THEN "pass" ELSE "fail"

\* What gate_report_sha256 stands for: the numbers and the verdict, not the bytes.
Report(base, card) ==
    [base |-> [base EXCEPT !.bytes = 0], card |-> [card EXCEPT !.bytes = 0],
     status |-> Gate(base, card)]
===============================================================================
