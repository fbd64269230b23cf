-------------------------------- MODULE EngineC --------------------------------
(***************************************************************************)
(* The way of a sample through execute_judgement as far as its verdict is  *)
(* concerned: the admission of Admission, the agents of Analyzers, the     *)
(* debate of Debate, the decision of Decision. The decision parameters are *)
(* read again by each of them and the calibration by the arbiter: both may *)
(* have been updated in between.                                           *)
(***************************************************************************)
EXTENDS Debate, Analyzers

CONSTANTS Samples,            \* what arrives: [Upstream -> RawEngine], force, the fields
          ParamSets,          \* the parameters an administrator may have stored
          Calibrations,       \* and the thresholds a calibration may have left
          Investigations(_),  \* under a setting: how the agents' runs may end, and how
                              \* many fields the evidence gate found to be unavailable
          Probabilities       \* what XGBoost may predict

ASSUME EngineCAssumption ==
  /\ \A s \in Samples : DOMAIN s = Upstream \cup {"force", "production", "fields"}
  /\ \A s \in Samples, e \in Upstream : s[e] \in RawEngine
  /\ \A p \in ParamSets : p \in Params /\ ValidParams(p) /\ p = Validated(p)
  /\ \A c \in Calibrations : c.suspicious <= c.malicious
  /\ \A s \in Samples, a \in Agents : Analyze(a, s.fields) \in Block

VARIABLES
  sample,      \* the sample, its missing engine fields derived
  admission,   \* the reason of the admission decision
  inquiry,     \* what the investigation came to
  verdict      \* the decision of the report, its case, and what degraded it

engineVars == <<sample, admission, inquiry, verdict>>
allVars == <<debateVars, engineVars>>

NoVerdict == [by |-> "none"]
NoInquiry == [runs |-> [a \in Agents |-> "none"], unavailable |-> 0]

EngineInit ==
  /\ DebateInit
  /\ sample \in Samples /\ admission = "none" /\ inquiry = NoInquiry /\ verdict = NoVerdict
------------------------------------------------------------------------------
\* normalize_sample and decide. A sample that is not admitted ends here, with the
\* verdict of A and B; one that lacks a field is refused in production.
Admit ==
  /\ admission = "none"
  /\ IF sample.production /\ MissingInput(sample)
     THEN admission' = "missing_upstream_engine_input" /\ UNCHANGED <<sample, verdict>>
     ELSE \E p \in ParamSets :
       LET whole == [sample EXCEPT !["engine_a"] = Derive(@), !["engine_b"] = Derive(@)]
           a == View(whole["engine_a"])
           b == View(whole["engine_b"])
           reason == Reason(a, b, sample.force, p)
       IN /\ sample' = whole /\ admission' = reason
          /\ IF Admits(reason) THEN UNCHANGED verdict
             ELSE verdict' = [by |-> "upstream", views |-> {a, b},
                              decision |-> DirectDecision(a, b, reason, p)]
  /\ UNCHANGED <<debateVars, inquiry>>

\* run_agents: the blocks every stage after it reads.
RunAgents ==
  /\ Admits(admission) /\ inquiry = NoInquiry
  /\ \E found \in Investigations(setting) :
       /\ inquiry' = found
       /\ evidence' = [a \in Agents |-> Evidence(a, sample.fields, found.runs[a])]
  /\ UNCHANGED <<sample, admission, verdict, setting, stage, round, turn, opening, current,
                 heard, spent>>

DebateOn == inquiry # NoInquiry /\ DebateNext /\ UNCHANGED engineVars

\* arbitrate, collaborative_decision and apply_degradation_policy.
Decide ==
  /\ stage = "completed" /\ verdict = NoVerdict
  /\ \E p \in ParamSets, c \in Calibrations, xgb \in {NoXgb} \cup {Xgb(x) : x \in Probabilities} :
       LET score == Calibrated(RawScore, c)
           case == [sample |-> sample, arbiter |-> score, arbiterVerdict |-> VerdictOf(score, c),
                    xgb |-> xgb, blocks |-> evidence,
                    badSignature |-> Value(sample.fields, "signature_status", "none")
                                       \in {"tampered", "missing"}]
           status == [a \in Agents |-> StatusOf(inquiry.runs[a])]
           decided == CollaborativeDecision(case, p)
       IN verdict' = [by |-> "wec", case |-> case, decided |-> decided, status |-> status,
            decision |-> ApplyDegradation(decided,
                           WithUnavailable(Degradation(status), inquiry.unavailable),
                           inquiry.unavailable,
                           BaseConfidence(EvidenceConfidence(evidence), Confidence), p)]
  /\ UNCHANGED <<debateVars, sample, admission, inquiry>>

Judged == verdict # NoVerdict \/ stage = "failed" \/ admission = "missing_upstream_engine_input"
Ended == Judged /\ UNCHANGED allVars

EngineNext == Admit \/ RunAgents \/ DebateOn \/ Decide \/ Ended
\* Only the debate needs fairness: its threads go on, as requests have timeouts.
EngineSpec ==
  /\ EngineInit /\ [][EngineNext]_allVars
  /\ WF_allVars(DebateOn /\ StageStep)
  /\ \A m \in Models : WF_allVars(DebateOn /\ TurnStep(m))
------------------------------------------------------------------------------
\* A benign verdict that nobody reviews has no witness against it: not XGBoost, not the
\* arbiter, not the signature, not an agent that rated the sample at 80 or more with all
\* its fields there, and static analysis did not fail (runtime-flow.md: a failed static
\* analysis cannot end as benign).
NoSilentBenign ==
  verdict.by = "wec" /\ verdict.decision.verdict = "benign" =>
    /\ verdict.status["static_analysis"] # "failed"
    /\ verdict.decision.review \/
         /\ verdict.case.xgb.verdict \in {"benign", "unavailable"}
         /\ verdict.case.arbiterVerdict = "benign"
         /\ ~verdict.case.badSignature
         /\ \A a \in Agents :
              inquiry.runs[a] = "completed" /\ Missing(a, sample.fields) = {} =>
                Analyze(a, sample.fields).score < 80

==============================================================================
