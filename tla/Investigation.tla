----------------------------- MODULE Investigation -----------------------------
(***************************************************************************)
(* run_investigation of malapp/orchestration/investigation.py, with the    *)
(* plan of planner.py, the evidence gate and the degradation policy that   *)
(* the final decision applies. One call is sequential; what it works on is *)
(* chosen by its surroundings: the configuration, the sample with the plan *)
(* it may carry, and how each agent and its tools end. A result is its     *)
(* status and whether fields are missing; orders, reason texts, events,    *)
(* scores and penalties are left out.                                      *)
(***************************************************************************)
CONSTANTS
  Scope,       \* REGISTERED_TOOLS: the tools of each agent
  Remedies,    \* IOC_REMEDIATION_TOOLS and IMPERSONATION_REMEDIATION_TOOLS, by agent
  Candidates,  \* plans that a sample may carry, as a language model wrote them
  Overrides    \* sets of agents that an operator may have disabled

Agents == {"static_analysis", "threat_intel", "impersonation", "business_label"}
\* A signal of the sample and a focus of the plan are named by the agent they ask for.
Needs == Agents \ {"static_analysis"}
Fillable == {"threat_intel", "impersonation"}   \* whose missing fields the gate reads
Tools == UNION {Scope[a] : a \in Agents}

Candidate == [wellFormed: BOOLEAN, enabled: SUBSET Agents, override: SUBSET Agents,
              focus: SUBSET Needs, allow: [Agents -> SUBSET Tools]]

ASSUME InvestigationAssumption ==
  /\ Scope = [a \in Agents |-> Scope[a]]
  /\ \A a \in Fillable : Remedies[a] \subseteq Scope[a]
  /\ \A a, b \in Agents : a # b => Scope[a] \cap Scope[b] = {}
  /\ Candidates \subseteq Candidate
  /\ Overrides \subseteq SUBSET Agents

VARIABLES
  config,     \* planner_enabled, tool_runtime_enabled, mode v2_planner_tools
  sample,     \* its signals and the agents disabled for it
  at,         \* where the call is
  plan,       \* InvestigationPlan
  results,    \* AgentResult of each agent
  executed,   \* executed_tools
  gate,       \* the last EvidenceGateResult
  recovered,  \* recovery_used
  decision    \* the verdict after apply_degradation_policy

vars == <<config, sample, at, plan, results, executed, gate, recovered, decision>>
------------------------------------------------------------------------------
\* "missing" is a completed result that lacks fields, "skipped" is skipped_by_plan
\* and "failed" any other failure.
Statuses == {"none", "completed", "missing", "failed", "disabled", "skipped"}
Ran == {"completed", "missing"}
Plan == [enabled: SUBSET Agents, override: SUBSET Agents, focus: SUBSET Needs,
         allow: {f \in [Agents -> SUBSET Tools] : \A a \in Agents : f[a] \subseteq Scope[a]}]
Gate == [sufficient: BOOLEAN, agents: SUBSET Agents, tools: SUBSET Tools,
         unavailable: SUBSET Fillable]
Passed == [sufficient |-> TRUE, agents |-> {}, tools |-> {}, unavailable |-> {}]
Verdicts == {"benign", "suspicious", "malicious"}

\* Types; among them: no plan gives an agent a tool that is not registered for it.
TypeOK ==
  /\ config \in [planner: BOOLEAN, tools: BOOLEAN, v2: BOOLEAN]
  /\ sample \in [signals: SUBSET Needs, disabled: SUBSET Agents]
  /\ at \in {"plan", "execute", "gate", "recover", "decide", "done"}
  /\ plan \in Plan
  /\ results \in [Agents -> Statuses]
  /\ executed \in [Agents -> SUBSET Tools]
  /\ gate \in Gate
  /\ recovered \in BOOLEAN
  /\ decision \in [verdict: Verdicts \cup {"none"}, review: BOOLEAN, recommended: BOOLEAN]
------------------------------------------------------------------------------
(* The plan                                                                *)

\* apply_disabled_overrides
WithOverrides(p, disabled) ==
  [p EXCEPT !.enabled = @ \ disabled, !.override = @ \cup disabled]

\* v0_fixed_plan: without a planner, and where its plan is refused.
FixedPlan == [enabled |-> Agents, override |-> {}, focus |-> Needs, allow |-> Scope]

\* build_rule_plan: an agent is asked for by a signal, or all are by a conflict of
\* the engines.
RulePlan(conflict) ==
  LET asked == IF conflict THEN Needs ELSE sample.signals IN
  [enabled |-> asked \cup {"static_analysis"}, override |-> {}, focus |-> asked,
   allow |-> Scope]

\* validate_plan. Mutant: the mandatory agent may be left out.
Valid_NoMandatory(c) ==
  /\ c.wellFormed
  /\ \A a \in Agents : c.allow[a] \subseteq Scope[a]
  /\ Scope["static_analysis"] \subseteq c.allow["static_analysis"]

Valid(c) ==
  /\ c.wellFormed
  /\ "static_analysis" \in c.enabled
  /\ \A a \in Agents : c.allow[a] \subseteq Scope[a]
  /\ Scope["static_analysis"] \subseteq c.allow["static_analysis"]

Accepted(c) == [enabled |-> c.enabled, override |-> c.override, focus |-> c.focus,
                allow |-> c.allow]

\* build_investigation_plan: planner_mode rule, or hybrid without a carried plan;
\* llm and hybrid with one; what is refused, or not there for llm, falls back.
Plans ==
  IF ~config.planner THEN {FixedPlan}
  ELSE {RulePlan(conflict) : conflict \in BOOLEAN}
       \cup {Accepted(c) : c \in {k \in Candidates : Valid(k)}}
       \cup {FixedPlan}

MakePlan ==
  /\ at = "plan"
  /\ \E p \in Plans : plan' = WithOverrides(p, sample.disabled)
  /\ at' = "execute"
  /\ UNCHANGED <<config, sample, results, executed, gate, recovered, decision>>
------------------------------------------------------------------------------
(* The agents and their tools                                              *)

\* How an agent can end, and whether its result has tool observations: a failed
\* tool fails its agent with them, an agent that raises or times out has none.
Endings(a) ==
  {<<"completed", TRUE>>, <<"failed", TRUE>>, <<"failed", FALSE>>}
  \cup (IF a \in Fillable THEN {<<"missing", TRUE>>} ELSE {})

\* _record_executed_tools: every tool of the allow-list is observed, denied or not.
Recorded(p, ends, a) ==
  IF config.tools /\ a \in DOMAIN ends /\ ends[a][2] THEN executed[a] \cup p.allow[a]
  ELSE executed[a]

\* An agent that does not run: its placeholder.
Placeholder(a) ==
  IF a \in plan.override /\ a \notin plan.enabled THEN "disabled" ELSE "skipped"

Selected ==
  IF config.planner THEN plan.enabled \ sample.disabled ELSE Agents \ sample.disabled

Execute ==
  /\ at = "execute"
  /\ \E ends \in [Selected -> UNION {Endings(a) : a \in Agents}] :
       /\ \A a \in Selected : ends[a] \in Endings(a)
       /\ results' = [a \in Agents |-> IF a \in Selected THEN ends[a][1] ELSE Placeholder(a)]
       /\ executed' = IF config.planner THEN [a \in Agents |-> Recorded(plan, ends, a)]
                      ELSE executed
  /\ at' = IF config.planner THEN "gate" ELSE "decide"
  /\ UNCHANGED <<config, sample, plan, gate, recovered, decision>>
------------------------------------------------------------------------------
(* The evidence gate                                                       *)

Needed == {"static_analysis"} \cup plan.focus \cup sample.signals
OpsDisabled(a) == results[a] = "disabled" \/ a \in plan.override

\* An agent that is needed and has not run; tools that could fill its fields; and
\* the fields that nothing can fill.
Absent == {a \in Needed : results[a] \notin Ran /\ ~OpsDisabled(a)}
Lacking == {a \in Needed \cap Fillable : results[a] = "missing" /\ ~OpsDisabled(a)}
Pending(a) == IF config.tools THEN Remedies[a] \ executed[a] ELSE {}

\* evaluate_evidence_gate. Mutant: a result that failed counts as one that ran.
Evaluated_FailedCounts ==
  LET absent == {a \in Absent : results[a] # "failed"}
      fillable == {a \in Lacking : Pending(a) # {}} IN
  [sufficient |-> absent \cup fillable = {},
   agents |-> absent \cup fillable,
   tools |-> UNION {Pending(a) : a \in Lacking},
   unavailable |-> Lacking \ fillable]

Evaluated ==
  LET fillable == {a \in Lacking : Pending(a) # {}} IN
  [sufficient |-> Absent \cup fillable = {},
   agents |-> Absent \cup fillable,
   tools |-> UNION {Pending(a) : a \in Lacking},
   unavailable |-> Lacking \ fillable]

EvaluateGate ==
  /\ at = "gate"
  /\ gate' = Evaluated
  /\ at' = IF ~gate'.sufficient /\ ~recovered /\ gate'.agents \cup gate'.tools # {}
           THEN "recover" ELSE "decide"
  /\ UNCHANGED <<config, sample, plan, results, executed, recovered, decision>>
------------------------------------------------------------------------------
(* The recovery                                                            *)

\* With v2_planner_tools and tools suggested only their agents are looked at.
ByTools == config.v2 /\ gate.tools # {}
WithTools == {a \in Agents : gate.tools \cap Scope[a] # {}}

\* newly_enabled.
Again ==
  IF ByTools THEN {a \in WithTools : results[a] \in Ran \/ a \in gate.agents}
  ELSE {a \in gate.agents : results[a] \notin Ran \cup {"disabled"}}

\* enable_agents leaves an override alone; extend_tool_allowlist adds.
Replanned ==
  [plan EXCEPT
     !.enabled = @ \cup {a \in Again : results[a] \notin Ran /\ a \notin plan.override},
     !.allow = [a \in Agents |->
       IF ByTools /\ a \in Again /\ results[a] \in Ran
       THEN @[a] \cup (gate.tools \cap Scope[a]) ELSE @[a]]]

Recover ==
  LET runs == Again \ sample.disabled IN
  /\ at = "recover"
  /\ plan' = Replanned
  /\ \E ends \in [runs -> UNION {Endings(a) : a \in Agents}] :
       /\ \A a \in runs : ends[a] \in Endings(a)
       /\ results' = [a \in Agents |-> IF a \in runs THEN ends[a][1] ELSE results[a]]
       /\ executed' = [a \in Agents |-> Recorded(Replanned, ends, a)]
  /\ recovered' = TRUE
  /\ at' = "gate"
  /\ UNCHANGED <<config, sample, gate, decision>>
------------------------------------------------------------------------------
(* The degradation policy                                                  *)

\* evaluate_degradation: what ran and what the plan left out is no reason.
Reasons == {a \in Agents : results[a] \notin Ran \cup {"skipped"}}
Critical == "static_analysis" \in Reasons

\* recommend_review: near a threshold, engines in conflict or low confidence.
Recommendations ==
  IF Critical THEN {TRUE} ELSE IF gate.unavailable = {} THEN {FALSE} ELSE BOOLEAN

\* apply_degradation_policy on the verdict and the review of the fusion.
Decide ==
  /\ at = "decide"
  /\ \E verdict \in Verdicts, review \in BOOLEAN, recommended \in Recommendations :
       decision' =
         [verdict |-> IF Critical /\ verdict = "benign" THEN "suspicious" ELSE verdict,
          review |-> review \/ Critical, recommended |-> recommended]
  /\ at' = "done"
  /\ UNCHANGED <<config, sample, plan, results, executed, gate, recovered>>
------------------------------------------------------------------------------
Init ==
  /\ config \in [planner: BOOLEAN, tools: BOOLEAN, v2: BOOLEAN]
  /\ sample \in [signals: SUBSET Needs, disabled: Overrides]
  /\ at = "plan" /\ plan = FixedPlan
  /\ results = [a \in Agents |-> "none"]
  /\ executed = [a \in Agents |-> {}]
  /\ gate = Passed /\ recovered = FALSE
  /\ decision = [verdict |-> "none", review |-> FALSE, recommended |-> FALSE]

Next == MakePlan \/ Execute \/ EvaluateGate \/ Recover \/ Decide
Spec == Init /\ [][Next]_vars
------------------------------------------------------------------------------
(* Properties                                                              *)

\* runtime-flow.md, the semantics of failures: without a static analysis that
\* completed, no sample is let through as benign and a human looks at it,
\* whatever plan, override, fallback or recovery led there.
BenignNeedsStatic == at = "done" /\ results["static_analysis"] \notin Ran =>
  decision.verdict # "benign" /\ decision.review

\* The gate that is reported is true of the results that are reported: it is
\* sufficient exactly if every agent that a signal or the focus asks for ran or was
\* disabled, and no tool is left that could fill what is missing.
GateIsTrue == at = "decide" /\ config.planner =>
  (gate.sufficient <=>
     \A a \in Needed : \/ OpsDisabled(a)
                       \/ results[a] \in Ran
                          /\ (results[a] = "missing" => Pending(a) = {}))

\* A recovery takes away no result that an agent completed, except of an agent
\* that it runs again for its pending tools.
CompletedIsKept ==
  [][\A a \in Agents : results[a] \in Ran =>
       results'[a] = results[a] \/ (ByTools /\ a \in WithTools)]_vars
==============================================================================
