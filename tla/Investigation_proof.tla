-------------------------- MODULE Investigation_proof --------------------------
(***************************************************************************)
(* What run_investigation promises holds for any tools, carried plans and  *)
(* overrides. That no benign verdict comes without static analysis is not  *)
(* inductive: the policy takes a skipped agent for one the plan had a      *)
(* right to leave out, so the invariant must say that static analysis is   *)
(* never skipped, and before it that every plan runs it or has it          *)
(* overridden. Under it, the agents run in the threads of execute, which   *)
(* promises for any agents, workers and retries that each has one result.  *)
(* The last part is of the programs that bring the samples in: that the    *)
(* tables keep what one of them reported, on the invariant that the draft  *)
(* of whoever holds the write lock extends the tables it began from.       *)
(***************************************************************************)
EXTENDS Investigation, AgentRuntime, SampleImport, FiniteSetTheorems, SequenceTheorems, TLAPS

Static == "static_analysis"

\* Before the agents run: static analysis is in the plan unless it was overridden.
StaticPlanned == at = "execute" =>
  IF Static \in sample.disabled THEN Static \in plan.override /\ Static \notin plan.enabled
  ELSE Static \in plan.enabled

\* After the agents ran: it has a result that the degradation policy looks at.
StaticHasResult ==
  at \in {"gate", "recover", "decide"} => results[Static] # "skipped"

\* The gate of the decision was evaluated on the present results, plan and tools.
GateIsFresh == at = "decide" /\ config.planner => gate = Evaluated

\* Only the agents with fields that a tool can fill lack them.
OnlyFillableMiss == \A a \in Agents : results[a] = "missing" => a \in Fillable

Inv == StaticPlanned /\ StaticHasResult /\ BenignNeedsStatic /\ GateIsFresh

Typed == TypeOK /\ OnlyFillableMiss

\* Every plan that may be chosen includes static analysis.
LEMMA PlansHaveStatic == \A p \in Plans : Static \in p.enabled
<1>1. Static \in FixedPlan.enabled
  BY DEF FixedPlan, Static, Agents
<1>2. \A conflict \in BOOLEAN : Static \in RulePlan(conflict).enabled
  BY DEF RulePlan, Static
<1>3. \A c \in Candidates : Valid(c) => Static \in Accepted(c).enabled
  BY DEF Accepted, Valid, Static
<1> QED
  BY <1>1, <1>2, <1>3 DEF Plans

LEMMA PlanStep == ASSUME Inv, MakePlan PROVE Inv'
<1>1. PICK p \in Plans : plan' = WithOverrides(p, sample.disabled)
  BY DEF MakePlan
<1>2. at = "plan" /\ at' = "execute" /\ UNCHANGED sample
  BY DEF MakePlan
<1>3. Static \in p.enabled
  BY PlansHaveStatic
<1>4. /\ plan'.enabled = p.enabled \ sample.disabled
      /\ plan'.override = p.override \cup sample.disabled
  <2>1. Plans \subseteq {q \in Plans : TRUE}
    OBVIOUS
  <2>2. \E e, o, f, w : p = [enabled |-> e, override |-> o, focus |-> f, allow |-> w]
    BY DEF Plans, FixedPlan, RulePlan, Accepted
  <2> QED
    BY <1>1, <2>2 DEF WithOverrides
<1>5. StaticPlanned'
  BY <1>2, <1>3, <1>4 DEF StaticPlanned
<1> QED
  BY <1>2, <1>5 DEF Inv, StaticHasResult, BenignNeedsStatic, GateIsFresh

\* No agent ends as skipped, and static analysis is known.
LEMMA NotSkipped ==
  /\ \A a \in Agents : \A e \in Endings(a) : e[1] # "skipped"
  /\ Static \in Agents
<1>1. \A a \in Agents : \A e \in Endings(a) :
        e \in {<<"completed", TRUE>>, <<"failed", TRUE>>, <<"failed", FALSE>>, <<"missing", TRUE>>}
  BY DEF Endings
<1>2. ASSUME NEW e, e \in {<<"completed", TRUE>>, <<"failed", TRUE>>, <<"failed", FALSE>>,
                          <<"missing", TRUE>>}
      PROVE  e[1] # "skipped"
  <2>1. CASE e = <<"completed", TRUE>>
    BY <2>1
  <2>2. CASE e = <<"failed", TRUE>>
    BY <2>2
  <2>3. CASE e = <<"failed", FALSE>>
    BY <2>3
  <2>4. CASE e = <<"missing", TRUE>>
    BY <2>4
  <2> QED
    BY <1>2, <2>1, <2>2, <2>3, <2>4
<1>3. Static \in Agents
  BY DEF Static, Agents
<1> QED
  BY <1>1, <1>2, <1>3

LEMMA ExecuteStep == ASSUME Inv, Execute PROVE Inv'
<1>1. PICK ends \in [Selected -> UNION {Endings(a) : a \in Agents}] :
        /\ \A a \in Selected : ends[a] \in Endings(a)
        /\ results' = [a \in Agents |-> IF a \in Selected THEN ends[a][1] ELSE Placeholder(a)]
  BY DEF Execute
<1>2. results'[Static] # "skipped"
  <2>1. results'[Static] = IF Static \in Selected THEN ends[Static][1] ELSE Placeholder(Static)
    BY <1>1, NotSkipped
  <2>2. CASE Static \in Selected
    BY <1>1, <2>1, <2>2, NotSkipped
  <2>3. CASE Static \notin Selected
    <3>1. Static \in plan.override /\ Static \notin plan.enabled
      BY <2>3, NotSkipped DEF Selected, Execute, Inv, StaticPlanned
    <3> QED
      BY <2>1, <2>3, <3>1 DEF Placeholder
  <2> QED
    BY <2>2, <2>3
<1>3. at' # "done" /\ at' # "execute" /\ (config'.planner => at' # "decide")
  BY DEF Execute
<1> QED
  BY <1>2, <1>3 DEF Inv, StaticPlanned, StaticHasResult, BenignNeedsStatic, GateIsFresh

LEMMA GateStep == ASSUME Inv, EvaluateGate PROVE Inv'
<1>1. /\ at = "gate" /\ at' \in {"recover", "decide"}
      /\ UNCHANGED <<config, sample, plan, results, executed>>
  BY DEF EvaluateGate
<1>2. Evaluated' = Evaluated
  BY <1>1 DEF Evaluated, Absent, Lacking, Pending, Needed, OpsDisabled
<1>3. gate' = Evaluated
  BY DEF EvaluateGate
<1> QED
  BY <1>1, <1>2, <1>3 DEF Inv, StaticPlanned, StaticHasResult, BenignNeedsStatic, GateIsFresh

LEMMA RecoverStep == ASSUME Inv, Recover PROVE Inv'
<1> DEFINE runs == Again \ sample.disabled
<1>1. at = "recover" /\ at' = "gate"
  BY DEF Recover
<1>2. PICK ends \in [runs -> UNION {Endings(a) : a \in Agents}] :
        /\ \A a \in runs : ends[a] \in Endings(a)
        /\ results' = [a \in Agents |-> IF a \in runs THEN ends[a][1] ELSE results[a]]
  BY DEF Recover
<1>3. results'[Static] = IF Static \in runs THEN ends[Static][1] ELSE results[Static]
  BY <1>2, NotSkipped
<1>4. results'[Static] # "skipped"
  BY <1>1, <1>2, <1>3, NotSkipped DEF Inv, StaticHasResult
<1> QED
  BY <1>1, <1>4 DEF Inv, StaticPlanned, StaticHasResult, BenignNeedsStatic, GateIsFresh

LEMMA DecideStep == ASSUME Inv, Decide PROVE Inv'
<1>1. at = "decide" /\ at' = "done" /\ UNCHANGED results
  BY DEF Decide
<1>2. PICK verdict \in Verdicts, review \in BOOLEAN, recommended \in Recommendations :
        decision' =
          [verdict |-> IF Critical /\ verdict = "benign" THEN "suspicious" ELSE verdict,
           review |-> review \/ Critical, recommended |-> recommended]
  BY DEF Decide
<1>3. results[Static] \notin Ran => Critical
  BY <1>1, NotSkipped DEF Inv, StaticHasResult, Critical, Reasons, Static
<1>4. BenignNeedsStatic'
  BY <1>1, <1>2, <1>3 DEF BenignNeedsStatic, Static
<1> QED
  BY <1>1, <1>4 DEF Inv, StaticPlanned, StaticHasResult, GateIsFresh

LEMMA InvInductive == Spec => []Inv
<1>1. Init => Inv
  BY DEF Init, Inv, StaticPlanned, StaticHasResult, BenignNeedsStatic, GateIsFresh
<1>2. ASSUME Inv, [Next]_vars PROVE Inv'
  <2>1. CASE UNCHANGED vars
    <3>1. Evaluated' = Evaluated
      BY <2>1 DEF vars, Evaluated, Absent, Lacking, Pending, Needed, OpsDisabled
    <3> QED
      BY <1>2, <2>1, <3>1
      DEF vars, Inv, StaticPlanned, StaticHasResult, BenignNeedsStatic, GateIsFresh
  <2> QED
    BY <1>2, <2>1, PlanStep, ExecuteStep, GateStep, RecoverStep, DecideStep DEF Next
<1> QED
  BY <1>1, <1>2, PTL DEF Spec

\* Whatever plan a language model wrote, whatever was overridden and however the
\* recovery went: a verdict without a completed static analysis is not benign and
\* is reviewed.
THEOREM StaticIsMandatory == Spec => []BenignNeedsStatic
<1>1. Inv => BenignNeedsStatic
  BY DEF Inv
<1> QED
  BY <1>1, InvInductive, PTL

------------------------------------------------------------------------------
LEMMA PlansTyped == ASSUME TypeOK PROVE Plans \subseteq Plan
<1> DEFINE allows == {f \in [Agents -> SUBSET Tools] : \A a \in Agents : f[a] \subseteq Scope[a]}
<1>1. Scope \in allows
  <2>1. \A a \in Agents : Scope[a] \subseteq Tools
    BY DEF Tools
  <2> QED
    BY <2>1, InvestigationAssumption
<1>2. FixedPlan \in Plan
  BY <1>1 DEF FixedPlan, Plan, Needs
<1>3. \A conflict \in BOOLEAN : RulePlan(conflict) \in Plan
  <2>1. sample.signals \subseteq Needs /\ "static_analysis" \in Agents /\ Needs \subseteq Agents
    BY DEF TypeOK, Needs, Agents
  <2> QED
    BY <1>1, <2>1 DEF RulePlan, Plan
<1>4. \A c \in Candidates : Valid(c) => Accepted(c) \in Plan
  BY InvestigationAssumption DEF Candidate, Valid, Accepted, Plan
<1> QED
  BY <1>2, <1>3, <1>4 DEF Plans

\* What an agent run leaves: a status of its own kind and registered tools.
LEMMA RunsTyped ==
  ASSUME TypeOK, NEW p \in Plan, NEW runs \in SUBSET Agents, NEW ends,
         ends \in [runs -> UNION {Endings(a) : a \in Agents}],
         \A a \in runs : ends[a] \in Endings(a)
  PROVE  /\ \A a \in runs : /\ ends[a][1] \in {"completed", "failed", "missing"}
                            /\ ends[a][1] = "missing" => a \in Fillable
         /\ [a \in Agents |-> Recorded(p, ends, a)] \in [Agents -> SUBSET Tools]
<1>1. ASSUME NEW a \in runs
      PROVE  /\ ends[a][1] \in {"completed", "failed", "missing"}
             /\ ends[a][1] = "missing" => a \in Fillable
  <2>1. ends[a] \in Endings(a)
    OBVIOUS
  <2>2. CASE ends[a] = <<"completed", TRUE>>
    BY <2>2
  <2>3. CASE ends[a] = <<"failed", TRUE>>
    BY <2>3
  <2>4. CASE ends[a] = <<"failed", FALSE>>
    BY <2>4
  <2>5. CASE ends[a] = <<"missing", TRUE>> /\ a \in Fillable
    BY <2>5
  <2> QED
    BY <2>1, <2>2, <2>3, <2>4, <2>5 DEF Endings
<1>2. \A a \in Agents : executed[a] \subseteq Tools /\ p.allow[a] \subseteq Tools
  BY DEF TypeOK, Plan
<1>3. \A a \in Agents : Recorded(p, ends, a) \subseteq Tools
  BY <1>2 DEF Recorded
<1> QED
  BY <1>1, <1>3

LEMMA GateTyped == ASSUME TypeOK PROVE Evaluated \in Gate
<1>1. Needed \subseteq Agents
  BY DEF TypeOK, Needed, Plan, Needs, Agents
<1>2. Absent \subseteq Agents /\ Lacking \subseteq Fillable /\ Fillable \subseteq Agents
  BY <1>1 DEF Absent, Lacking, Fillable, Agents
<1>3. \A a \in Fillable : Pending(a) \subseteq Tools
  <2>1. \A a \in Fillable : Remedies[a] \subseteq Scope[a]
    BY InvestigationAssumption
  <2>2. \A a \in Fillable : Scope[a] \subseteq Tools
    BY <1>2 DEF Tools
  <2> QED
    BY <2>1, <2>2 DEF Pending
<1> QED
  BY <1>2, <1>3 DEF Evaluated, Gate

LEMMA ReplanTyped == ASSUME TypeOK PROVE Replanned \in Plan /\ Again \subseteq Agents
<1>1. Again \subseteq Agents
  BY DEF Again, WithTools, TypeOK, Gate
<1> DEFINE allow == [a \in Agents |->
      IF ByTools /\ a \in Again /\ results[a] \in Ran
      THEN plan.allow[a] \cup (gate.tools \cap Scope[a]) ELSE plan.allow[a]]
<1>2. \A a \in Agents : allow[a] \subseteq Scope[a] /\ allow[a] \subseteq Tools
  BY DEF TypeOK, Plan, Tools
<1>3. Replanned = [plan EXCEPT
        !.enabled = @ \cup {a \in Again : results[a] \notin Ran /\ a \notin plan.override},
        !.allow = allow]
  BY DEF Replanned
<1> HIDE DEF allow
<1>4. allow \in [Agents -> SUBSET Tools]
  BY <1>2 DEF allow
<1> QED
  BY <1>1, <1>2, <1>3, <1>4 DEF TypeOK, Plan

LEMMA TypedStep == ASSUME Typed, [Next]_vars PROVE Typed'
<1>a. TypeOK /\ OnlyFillableMiss
  BY DEF Typed
<1>1. CASE MakePlan
  <2>1. PICK p \in Plan : plan' = WithOverrides(p, sample.disabled)
    BY <1>1, <1>a, PlansTyped DEF MakePlan
  <2>2. plan' \in Plan
    BY <2>1, <1>a DEF WithOverrides, Plan, TypeOK
  <2> QED
    BY <1>1, <1>a, <2>2 DEF MakePlan, Typed, TypeOK, OnlyFillableMiss
<1>2. CASE Execute
  <2>1. PICK ends \in [Selected -> UNION {Endings(a) : a \in Agents}] :
          /\ \A a \in Selected : ends[a] \in Endings(a)
          /\ results' = [a \in Agents |-> IF a \in Selected THEN ends[a][1] ELSE Placeholder(a)]
          /\ executed' = IF config.planner THEN [a \in Agents |-> Recorded(plan, ends, a)]
                         ELSE executed
    BY <1>2 DEF Execute
  <2>2. Selected \in SUBSET Agents /\ plan \in Plan
    BY <1>a DEF Selected, Plan, TypeOK
  <2>3. /\ \A a \in Selected : /\ ends[a][1] \in {"completed", "failed", "missing"}
                               /\ ends[a][1] = "missing" => a \in Fillable
        /\ [a \in Agents |-> Recorded(plan, ends, a)] \in [Agents -> SUBSET Tools]
    BY <1>a, <2>1, <2>2, RunsTyped
  <2>4. \A a \in Agents : Placeholder(a) \in {"disabled", "skipped"}
    BY DEF Placeholder
  <2>5. executed' \in [Agents -> SUBSET Tools]
    BY <1>a, <2>1, <2>3 DEF TypeOK
  <2>6. results' \in [Agents -> Statuses] /\ OnlyFillableMiss'
    BY <2>1, <2>3, <2>4 DEF Statuses, OnlyFillableMiss
  <2> QED
    BY <1>2, <1>a, <2>5, <2>6 DEF Execute, Typed, TypeOK
<1>3. CASE EvaluateGate
  BY <1>3, <1>a, GateTyped DEF EvaluateGate, Typed, TypeOK, OnlyFillableMiss
<1>4. CASE Recover
  <2> DEFINE runs == Again \ sample.disabled
  <2>1. PICK ends \in [runs -> UNION {Endings(a) : a \in Agents}] :
          /\ \A a \in runs : ends[a] \in Endings(a)
          /\ results' = [a \in Agents |-> IF a \in runs THEN ends[a][1] ELSE results[a]]
          /\ executed' = [a \in Agents |-> Recorded(Replanned, ends, a)]
    BY <1>4 DEF Recover
  <2>2. runs \in SUBSET Agents /\ Replanned \in Plan
    BY <1>a, ReplanTyped
  <2> HIDE DEF runs
  <2>3. /\ \A a \in runs : /\ ends[a][1] \in {"completed", "failed", "missing"}
                           /\ ends[a][1] = "missing" => a \in Fillable
        /\ [a \in Agents |-> Recorded(Replanned, ends, a)] \in [Agents -> SUBSET Tools]
    BY <1>a, <2>1, <2>2, RunsTyped
  <2>4. results' \in [Agents -> Statuses] /\ OnlyFillableMiss'
    BY <1>a, <2>1, <2>3 DEF Statuses, OnlyFillableMiss, TypeOK
  <2> QED
    BY <1>4, <1>a, <2>1, <2>2, <2>3, <2>4 DEF Recover, Typed, TypeOK
<1>5. CASE Decide
  <2>1. Recommendations \subseteq BOOLEAN
    BY DEF Recommendations
  <2>2. \A review \in BOOLEAN : (review \/ Critical) \in BOOLEAN
    BY DEF Critical
  <2> QED
    BY <1>5, <1>a, <2>1, <2>2 DEF Decide, Verdicts, Typed, TypeOK, OnlyFillableMiss
<1>6. CASE UNCHANGED vars
  BY <1>6, <1>a DEF vars, Typed, TypeOK, OnlyFillableMiss
<1> QED
  BY <1>1, <1>2, <1>3, <1>4, <1>5, <1>6 DEF Next

LEMMA TypedAlways == Spec => []Typed
<1>1. Init => Typed
  <2> SUFFICES ASSUME Init PROVE Typed
    OBVIOUS
  <2>1. FixedPlan \in Plan
    <3>1. \A a \in Agents : Scope[a] \subseteq Tools
      BY DEF Tools
    <3> QED
      BY <3>1, InvestigationAssumption DEF FixedPlan, Plan, Needs
  <2>2. Passed \in Gate
    BY DEF Passed, Gate
  <2> QED
    BY <2>1, <2>2, InvestigationAssumption DEF Init, Typed, TypeOK, OnlyFillableMiss, Statuses
<1> QED
  BY <1>1, TypedStep, PTL DEF Spec

\* Every value keeps its type; among them, no plan gives an agent a tool that is not
\* registered for it, whatever a language model or a recovery asked for.
THEOREM ToolsStayScoped == Spec => []TypeOK
<1>1. Typed => TypeOK
  BY DEF Typed
<1> QED
  BY <1>1, TypedAlways, PTL

\* The evidence gate in the report is true of the results in the report.
THEOREM GateReported == Spec => []GateIsTrue
<1>1. Inv /\ Typed => GateIsTrue
  <2> SUFFICES ASSUME Inv, Typed, at = "decide", config.planner
               PROVE  gate.sufficient <=>
                        \A a \in Needed : \/ OpsDisabled(a)
                                          \/ results[a] \in Ran
                                             /\ (results[a] = "missing" => Pending(a) = {})
    BY DEF GateIsTrue
  <2> DEFINE fillable == {a \in Lacking : Pending(a) # {}}
  <2>1. gate = Evaluated
    BY DEF Inv, GateIsFresh
  <2>2. gate.sufficient <=> Absent \cup fillable = {}
    BY <2>1 DEF Evaluated
  <2>3. Needed \subseteq Agents
    BY DEF Typed, TypeOK, Needed, Plan, Needs, Agents
  <2>4. ASSUME NEW a \in Needed
        PROVE  a \in Absent \cup fillable <=>
                 ~(OpsDisabled(a) \/ (results[a] \in Ran
                                      /\ (results[a] = "missing" => Pending(a) = {})))
    BY <2>3 DEF Absent, Lacking, Typed, OnlyFillableMiss, Ran
  <2>5. Absent \cup fillable \subseteq Needed
    BY DEF Absent, Lacking
  <2> QED
    BY <2>2, <2>4, <2>5
<1> QED
  BY <1>1, InvInductive, TypedAlways, PTL
------------------------------------------------------------------------------
\* Before the agents run there is no result to keep.
NoneYet == at \in {"plan", "execute"} => \A a \in Agents : results[a] = "none"

\* What an agent completed stays in the report, except of an agent that a recovery
\* runs again for the tools it has not used.
THEOREM ResultsAreKept == Spec => CompletedIsKept
<1> DEFINE Held == \A a \in Agents : results[a] \in Ran =>
                     results'[a] = results[a] \/ (ByTools /\ a \in WithTools)
<1>1. Init => NoneYet
  BY DEF Init, NoneYet
<1>2. NoneYet /\ [Next]_vars => NoneYet'
  BY DEF NoneYet, Next, MakePlan, Execute, EvaluateGate, Recover, Decide, vars
<1>3. ASSUME NoneYet, Next PROVE Held
  <2>1. CASE Execute
    BY <1>3, <2>1 DEF Execute, NoneYet, Ran
  <2>2. CASE Recover
    <3> DEFINE runs == Again \ sample.disabled
    <3>1. \A a \in Agents : a \notin runs => results'[a] = results[a]
      BY <2>2 DEF Recover
    <3>2. \A a \in runs : results[a] \in Ran => ByTools /\ a \in WithTools
      BY DEF Again
    <3> QED
      BY <3>1, <3>2
  <2>3. CASE MakePlan \/ EvaluateGate \/ Decide
    BY <2>3 DEF MakePlan, EvaluateGate, Decide
  <2> QED
    BY <1>3, <2>1, <2>2, <2>3 DEF Next
<1>4. NoneYet /\ [Next]_vars => [Held]_vars
  BY <1>3
<1> QED
  BY <1>1, <1>2, <1>4, PTL DEF Spec, CompletedIsKept
------------------------------------------------------------------------------
(***************************************************************************)
(* execute, under the investigation.  The invariant follows one agent      *)
(* through its life (Life): where its future is in the dict, its result is *)
(* open; where it is not, the result says what became of it.  The queue    *)
(* needs an invariant of its own: an agent is in it once, and not after it *)
(* started, or a worker could start it again.                              *)
(***************************************************************************)
Life(a) ==
  \/ a \in todo /\ a \notin futures /\ future[a] = "none" /\ result[a] = "none"
  \/ /\ a \in Disabled /\ a \notin todo /\ a \notin futures
     /\ future[a] = "none" /\ result[a] = "skipped"
  \/ /\ a \notin Disabled /\ a \notin todo /\ a \in futures
     /\ future[a] \in {"queued", "running", "done"} /\ result[a] = "none"
  \/ /\ a \notin Disabled /\ a \notin todo /\ a \notin futures
     /\ \/ future[a] = "done" /\ result[a] = outcome[a]
        \/ /\ future[a] \in {"cancelled", "running", "done"}
           /\ result[a] = "timeout" /\ a \in elapsed

\* A future has its outcome exactly when it is done.
Resolved(a) == future[a] = "done" <=> outcome[a] # "none"

QueueInv ==
  /\ \A i \in 1..Len(queue) : future[queue[i]] \in {"queued", "cancelled"}
  /\ \A i, j \in 1..Len(queue) : queue[i] = queue[j] => i = j

Phases ==
  /\ main = "submit" => pass = {}
  /\ main # "submit" => todo = {}
  /\ main = "finished" => futures = {}

RuntimeInv == RuntimeTypeOK /\ (\A a \in Registry : Life(a) /\ Resolved(a)) /\ QueueInv /\ Phases
------------------------------------------------------------------------------
\* What the pool does to an agent that waits in it leaves the queue as it is.
LEMMA SameQueue ==
  ASSUME QueueInv, queue' = queue,
         \A i \in 1..Len(queue) : future'[queue[i]] \in {"queued", "cancelled"}
  PROVE  QueueInv'
BY DEF QueueInv

LEMMA SubmitStep == ASSUME RuntimeInv, NEW a \in Registry, Submit(a) PROVE RuntimeInv'
<1> USE DEF RuntimeInv
<1>1. /\ main = "submit" /\ a \in todo /\ todo' = todo \ {a} /\ pass = {}
      /\ UNCHANGED <<attempt, outcome, pass, elapsed, seen>>
      /\ main' \in {"submit", "poll"} /\ (main' = "poll" => todo' = {})
  BY DEF Submit, Phases
<1>2. future[a] = "none" /\ result[a] = "none" /\ outcome[a] = "none" /\ a \notin futures
  BY <1>1 DEF Life, Resolved, RuntimeTypeOK
<1>3. CASE a \in Disabled
  <2>1. result' = [result EXCEPT ![a] = "skipped"] /\ UNCHANGED <<queue, future, futures>>
    BY <1>3 DEF Submit
  <2>2. RuntimeTypeOK'
    BY <1>1, <2>1 DEF RuntimeTypeOK
  <2>3. \A b \in Registry : Life(b)' /\ Resolved(b)'
    BY <1>1, <1>2, <1>3, <2>1 DEF Life, Resolved, RuntimeTypeOK
  <2>4. QueueInv'
    BY <2>1 DEF QueueInv
  <2> QED
    BY <1>1, <2>1, <2>2, <2>3, <2>4 DEF Phases
<1>4. CASE a \notin Disabled
  <2>1. /\ queue' = Append(queue, a) /\ future' = [future EXCEPT ![a] = "queued"]
        /\ futures' = futures \cup {a} /\ UNCHANGED result
    BY <1>4 DEF Submit
  <2>2. RuntimeTypeOK'
    BY <1>1, <2>1 DEF RuntimeTypeOK, FutureStates
  <2>3. \A b \in Registry : Life(b)' /\ Resolved(b)'
    BY <1>1, <1>2, <1>4, <2>1 DEF Life, Resolved, RuntimeTypeOK
  <2>4. QueueInv'
    <3>1. /\ Len(queue') = Len(queue) + 1 /\ queue'[Len(queue) + 1] = a
          /\ \A i \in 1..Len(queue) : queue'[i] = queue[i] /\ queue[i] \in Registry
      BY <2>1 DEF RuntimeTypeOK
    <3>2. \A i \in 1..Len(queue) : queue[i] # a
      BY <1>2, <3>1 DEF QueueInv
    <3>3. \A i \in 1..Len(queue') : i \in 1..Len(queue) \/ i = Len(queue) + 1
      BY <3>1 DEF RuntimeTypeOK
    <3>4. \A i \in 1..Len(queue) : future'[queue[i]] = future[queue[i]]
      BY <2>1, <3>1, <3>2 DEF RuntimeTypeOK
    <3>5. future'[a] = "queued"
      BY <2>1 DEF RuntimeTypeOK
    <3>6. \A i \in 1..Len(queue') : future'[queue'[i]] \in {"queued", "cancelled"}
      BY <3>1, <3>3, <3>4, <3>5 DEF QueueInv
    <3>7. \A i, j \in 1..Len(queue') : queue'[i] = queue'[j] => i = j
      BY <3>1, <3>2, <3>3 DEF QueueInv
    <3> QED
      BY <3>6, <3>7 DEF QueueInv
  <2> QED
    BY <1>1, <2>1, <2>2, <2>3, <2>4 DEF Phases
<1> QED
  BY <1>3, <1>4

LEMMA PassSteps ==
  ASSUME RuntimeInv, StartPass \/ Finish \/ \E a \in Registry : WaitOn(a) PROVE RuntimeInv'
<1> USE DEF RuntimeInv
<1>1. CASE StartPass
  BY <1>1 DEF StartPass, RuntimeTypeOK, Life, Resolved, QueueInv, Phases, pool
<1>2. CASE Finish
  <2>1. \A a \in Registry : future[a] # "queued"
    BY <1>2 DEF Finish, Life
  <2>2. future' = future
    BY <1>2, <2>1 DEF Finish, RuntimeTypeOK
  <2> QED
    BY <1>2, <2>2 DEF Finish, RuntimeTypeOK, Life, Resolved, QueueInv, Phases
<1>3. ASSUME NEW a \in Registry, WaitOn(a) PROVE RuntimeInv'
  BY <1>3 DEF WaitOn, Turn, RuntimeTypeOK, Life, Resolved, QueueInv, Phases, pool
<1> QED
  BY <1>1, <1>2, <1>3

LEMMA ReportSteps ==
  ASSUME RuntimeInv, NEW a \in Registry, Take(a) \/ TimeOut(a) PROVE RuntimeInv'
<1> USE DEF RuntimeInv
<1>1. /\ main = "poll" /\ a \in pass /\ a \in futures /\ pass' = pass \ {a}
      /\ futures' = futures \ {a}
      /\ UNCHANGED <<main, todo, queue, attempt, outcome, elapsed, seen>>
  BY DEF Take, TimeOut, Turn, RuntimeTypeOK, pool
<1>2. future[a] \in {"queued", "running", "done"} /\ a \notin Disabled /\ a \notin todo
  BY <1>1 DEF Life
<1>3. Phases'
  BY <1>1 DEF Phases
<1>4. CASE Take(a)
  <2>1. /\ future' = future /\ result' = [result EXCEPT ![a] = outcome[a]]
        /\ future[a] = "done" /\ outcome[a] # "none"
    BY <1>4 DEF Take, Report, pool, Resolved
  <2>2. RuntimeTypeOK'
    BY <1>1, <2>1 DEF RuntimeTypeOK
  <2>3. \A b \in Registry : Life(b)' /\ Resolved(b)'
    BY <1>1, <1>2, <2>1 DEF Life, Resolved, RuntimeTypeOK
  <2>4. QueueInv'
    BY <1>1, <2>1 DEF QueueInv
  <2> QED
    BY <1>3, <2>2, <2>3, <2>4
<1>5. CASE TimeOut(a)
  <2>1. /\ future' = [future EXCEPT ![a] = IF future[a] = "queued" THEN "cancelled" ELSE future[a]]
        /\ result' = [result EXCEPT ![a] = "timeout"]
        /\ a \in seen /\ future[a] # "done"
    BY <1>5 DEF TimeOut, Report
  <2>2. RuntimeTypeOK'
    BY <1>1, <2>1 DEF RuntimeTypeOK, FutureStates, Outcomes
  <2>3. \A b \in Registry : Life(b)' /\ Resolved(b)'
    BY <1>1, <1>2, <2>1 DEF Life, Resolved, RuntimeTypeOK
  <2>4. QueueInv'
    BY <1>1, <2>1 DEF QueueInv, RuntimeTypeOK
  <2> QED
    BY <1>3, <2>2, <2>3, <2>4
<1> QED
  BY <1>4, <1>5

\* What a worker takes from the queue is what the head of the queue was.
LEMMA WorkStep == ASSUME RuntimeInv, Work PROVE RuntimeInv'
<1> USE DEF RuntimeInv
<1> DEFINE h == Head(queue)
<1>1. /\ queue # <<>> /\ queue' = Tail(queue)
      /\ UNCHANGED <<outcome, main, todo, futures, pass, seen, result, elapsed>>
  BY DEF Work, caller
<1>2. /\ Len(queue) \in Nat \ {0} /\ h = queue[1] /\ h \in Registry
      /\ Len(queue') = Len(queue) - 1 /\ queue' \in Seq(Registry)
      /\ \A i \in 1..Len(queue') : queue'[i] = queue[i + 1] /\ i + 1 \in 1..Len(queue)
  BY <1>1 DEF RuntimeTypeOK
<1>3. future[h] \in {"queued", "cancelled"}
  BY <1>2 DEF QueueInv
<1>4. \A i \in 1..Len(queue') : queue'[i] # h
  BY <1>2 DEF QueueInv
<1>5. /\ attempt' \in [Registry -> 0..MaxRetries + 1]
      /\ \/ future' = future
         \/ future[h] = "queued" /\ future' = [future EXCEPT ![h] = "running"]
  BY <1>2, <1>3, RuntimeAssumption DEF Work, RuntimeTypeOK
<1> HIDE DEF h
<1>6. RuntimeTypeOK'
  BY <1>1, <1>2, <1>5 DEF RuntimeTypeOK, FutureStates
<1>7. \A b \in Registry : Life(b)' /\ Resolved(b)'
  BY <1>1, <1>2, <1>5 DEF Life, Resolved, RuntimeTypeOK
<1>8. QueueInv'
  <2>1. \A i \in 1..Len(queue') : future'[queue'[i]] \in {"queued", "cancelled"}
    <3> SUFFICES ASSUME NEW i \in 1..Len(queue')
                 PROVE  future'[queue'[i]] \in {"queued", "cancelled"}
      OBVIOUS
    <3>1. queue'[i] # h /\ queue'[i] \in Registry /\ future[queue'[i]] \in {"queued", "cancelled"}
      <4>1. i + 1 \in 1..Len(queue) /\ queue'[i] = queue[i + 1]
        BY <1>2
      <4>2. queue[i + 1] \in Registry
        BY <4>1 DEF RuntimeTypeOK
      <4>3. future[queue[i + 1]] \in {"queued", "cancelled"}
        BY <4>1 DEF QueueInv
      <4> QED
        BY <1>4, <4>1, <4>2, <4>3
    <3>2. future'[queue'[i]] = future[queue'[i]]
      BY <1>5, <3>1 DEF RuntimeTypeOK
    <3> QED
      BY <3>1, <3>2
  <2>2. \A i, j \in 1..Len(queue') : queue'[i] = queue'[j] => i = j
    <3> SUFFICES ASSUME NEW i \in 1..Len(queue'), NEW j \in 1..Len(queue'), queue'[i] = queue'[j]
                 PROVE  i = j
      OBVIOUS
    <3>1. i + 1 = j + 1
      BY <1>2 DEF QueueInv
    <3> QED
      BY <3>1
  <2> QED
    BY <2>1, <2>2 DEF QueueInv
<1> QED
  BY <1>1, <1>6, <1>7, <1>8 DEF Phases

LEMMA RunSteps ==
  ASSUME RuntimeInv, NEW a \in Registry, Retry(a) \/ GiveUp(a) \/ Complete(a) \/ Elapse(a)
  PROVE  RuntimeInv'
<1> USE DEF RuntimeInv
<1>1. CASE Retry(a)
  <2>1. attempt' \in [Registry -> 0..MaxRetries + 1]
    BY <1>1, RuntimeAssumption DEF Retry, Retries, RuntimeTypeOK
  <2> QED
    BY <1>1, <2>1 DEF Retry, caller, RuntimeTypeOK, Life, Resolved, QueueInv, Phases
<1>2. ASSUME NEW value \in Outcomes, Return(a, value) PROVE RuntimeInv'
  <2>1. /\ future[a] = "running" /\ future' = [future EXCEPT ![a] = "done"]
        /\ outcome' = [outcome EXCEPT ![a] = value] /\ value # "none"
        /\ UNCHANGED <<queue, attempt, main, todo, futures, pass, seen, result, elapsed>>
    BY <1>2 DEF Return, caller, Outcomes
  <2>2. RuntimeTypeOK'
    BY <2>1 DEF RuntimeTypeOK, FutureStates
  <2>3. \A b \in Registry : Life(b)' /\ Resolved(b)'
    BY <2>1 DEF Life, Resolved, RuntimeTypeOK
  <2>4. QueueInv'
    BY <2>1 DEF QueueInv, RuntimeTypeOK
  <2> QED
    BY <2>1, <2>2, <2>3, <2>4 DEF Phases
<1>3. CASE Elapse(a)
  BY <1>3 DEF Elapse, pool, caller, RuntimeTypeOK, Life, Resolved, QueueInv, Phases
<1> QED
  BY <1>1, <1>2, <1>3 DEF GiveUp, Complete, Outcomes

LEMMA RuntimeInvNext == RuntimeInv /\ [RuntimeNext]_runtimeVars => RuntimeInv'
<1> SUFFICES ASSUME RuntimeInv, [RuntimeNext]_runtimeVars PROVE RuntimeInv'
  OBVIOUS
<1>1. CASE UNCHANGED runtimeVars
  BY <1>1 DEF runtimeVars, RuntimeInv, RuntimeTypeOK, Life, Resolved, QueueInv, Phases
<1>2. CASE RuntimeNext
  BY <1>2, SubmitStep, PassSteps, ReportSteps, WorkStep, RunSteps DEF RuntimeNext, Poll
<1> QED
  BY <1>1, <1>2

LEMMA RuntimeInvAlways == RuntimeSpec => []RuntimeInv
<1>1. RuntimeInit => RuntimeInv
  BY RuntimeAssumption DEF RuntimeInit, RuntimeInv, RuntimeTypeOK, FutureStates, Life, Resolved, QueueInv, Phases
<1> QED
  BY <1>1, RuntimeInvNext, PTL DEF RuntimeSpec

\* When execute returns, every agent has the result that its thread returned, or a
\* timeout that was due, for any number of agents, workers and retries.
THEOREM EveryAgentAccounted == RuntimeSpec => [](RuntimeTypeOK /\ Accounted)
<1>1. RuntimeInv => RuntimeTypeOK /\ Accounted
  BY DEF RuntimeInv, Phases, Life, Resolved, Accounted
<1> QED
  BY <1>1, RuntimeInvAlways, PTL

\* No late answer, cancellation or shutdown changes a result that was reported.
THEOREM ResultsStand == RuntimeSpec => ResultIsFinal
<1> DEFINE Stands == \A a \in Registry : result[a] # "none" => result'[a] = result[a]
       Opens == \E b \in Registry : \E value :
                  result[b] = "none" /\ result' = [result EXCEPT ![b] = value]
<1>1. ASSUME RuntimeInv, RuntimeNext PROVE Stands
  <2>1. UNCHANGED result \/ Opens
    <3>1. ASSUME NEW b \in Registry, Submit(b)
          PROVE  result[b] = "none"
      BY <1>1, <3>1 DEF Submit, RuntimeInv, Life
    <3>2. ASSUME NEW b \in Registry, Take(b) \/ TimeOut(b)
          PROVE  result[b] = "none"
      BY <1>1, <3>2 DEF Take, TimeOut, Turn, RuntimeInv, Life, RuntimeTypeOK
    <3>3. CASE StartPass \/ Finish \/ Work
      BY <3>3 DEF StartPass, Finish, Work, caller
    <3>4. CASE \E b \in Registry : WaitOn(b) \/ Retry(b) \/ GiveUp(b) \/ Complete(b) \/ Elapse(b)
      BY <3>4 DEF WaitOn, Retry, GiveUp, Complete, Return, Elapse, caller
    <3>5. ASSUME NEW b \in Registry, Submit(b) PROVE UNCHANGED result \/ Opens
      BY <3>1, <3>5 DEF Submit
    <3>6. ASSUME NEW b \in Registry, Take(b) \/ TimeOut(b) PROVE Opens
      BY <3>2, <3>6 DEF Take, TimeOut, Report
    <3> QED
      BY <1>1, <3>3, <3>4, <3>5, <3>6 DEF RuntimeNext, Poll
  <2> QED
    BY <1>1, <2>1 DEF RuntimeInv, RuntimeTypeOK
<1>2. RuntimeInv /\ [RuntimeNext]_runtimeVars => [Stands]_runtimeVars
  BY <1>1
<1> QED
  BY <1>2, RuntimeInvAlways, PTL DEF RuntimeSpec, ResultIsFinal

\* An agent that timed out in the queue never starts.
THEOREM NothingStartsLate == RuntimeSpec => NoLateStart
<1> DEFINE Late == \A a \in Registry :
             result[a] = "timeout" /\ future[a] # "running" => future'[a] # "running"
<1>1. ASSUME RuntimeInv, RuntimeNext PROVE Late
  <2>1. CASE Work
    <3>1. Head(queue) \in Registry /\ future[Head(queue)] \in {"queued", "cancelled"}
      BY <1>1, <2>1 DEF Work, RuntimeInv, RuntimeTypeOK, QueueInv
    <3>2. \A a \in Registry : result[a] = "timeout" => future[a] # "queued"
      BY <1>1 DEF RuntimeInv, Life
    <3> QED
      BY <1>1, <2>1, <3>1, <3>2 DEF Work, RuntimeInv, RuntimeTypeOK
  <2>2. CASE Finish
    BY <2>2 DEF Finish
  <2>3. ASSUME NEW b \in Registry, Submit(b) \/ TimeOut(b) \/ GiveUp(b) \/ Complete(b) PROVE Late
    BY <1>1, <2>3 DEF Submit, TimeOut, GiveUp, Complete, Return, RuntimeInv, RuntimeTypeOK
  <2>4. CASE UNCHANGED future
    BY <2>4
  <2>5. ASSUME NEW b \in Registry, Take(b) \/ WaitOn(b) \/ Retry(b) \/ Elapse(b)
        PROVE  UNCHANGED future
    BY <2>5 DEF Take, WaitOn, Retry, Elapse, pool
  <2>6. StartPass => UNCHANGED future
    BY DEF StartPass, pool
  <2> QED
    BY <1>1, <2>1, <2>2, <2>3, <2>4, <2>5, <2>6 DEF RuntimeNext, Poll
<1>2. RuntimeInv /\ [RuntimeNext]_runtimeVars => [Late]_runtimeVars
  BY <1>1
<1> QED
  BY <1>2, RuntimeInvAlways, PTL DEF RuntimeSpec, NoLateStart

(***************************************************************************)
(* What an import keeps.  Each claim that a program made stands in the     *)
(* tables, or in the draft of the holder it was made from (Stands); the    *)
(* draft keeps all that stands in the tables, for only the reset takes     *)
(* anything away, and the reset takes the claims too.                      *)
(***************************************************************************)

\* A table set that some transaction may see.
IsStore(s) ==
    /\ DOMAIN s = DOMAIN EmptyStore
    /\ s.features \in Seq(ToSet(s.features))
    /\ s.tasks \in [Samples -> Nat]
    /\ DOMAIN s.items = Programs
    /\ DOMAIN s.manual = Samples /\ DOMAIN s.apps = Samples /\ DOMAIN s.fetched = Samples
    /\ DOMAIN s.detections = Engines
    /\ \A e \in Engines : DOMAIN s.detections[e] = Samples

\* A claim, and what it says of the tables s.
IsClaim(c) ==
    /\ c.record.md5 \in Samples /\ c.batch \in Programs \cup {"none"}
    /\ c.into \in {"features", "manual", "labels", "enrich", "engines"}
    /\ c.into = "engines" => c.source \in Engines
Stands(c, s) ==
    LET m == c.record.md5
    IN  /\ c.into = "features" =>
              /\ Row(c.record, c.source) \in ToSet(s.features)
              /\ s.tasks[m] >= 1 + PriorityOf(c.record)
              /\ c.batch # "none" => m \in s.items[c.batch]
        /\ c.into = "manual" => s.manual[m] # NoLabel
        /\ c.into = "labels" => s.apps[m] # NoLabel
        /\ c.into = "enrich" => s.fetched[m] # "none"
        /\ c.into = "engines" => s.detections[c.source][m] # NoDetection

\* Where a program is: its sheet, and what it has still to import.
PlaceOf(p) ==
    /\ DOMAIN prog[p] = DOMAIN Ready /\ prog[p].rows \in Nat
    /\ prog[p].at \in {"idle", "opening"} => prog[p].saved = {}
    /\ prog[p].at = "opening" => Kind(p) \in {"upload", "pull"}
    /\ Kind(p) # "boot" => prog[p].sheet \in DOMAIN cast[p].sheets
    /\ prog[p].at \in {"opening", "running"} /\ Kind(p) # "boot" =>
          /\ Rest(p) \in Seq(ToSet(Rest(p)))
          /\ \A record \in ToSet(Rest(p)) :
                /\ IsRow(Kind(p), record)
                /\ Kind(p) = "enrich" => record \in [md5 : Samples, label : {"ok"}]

\* What was reported is in the tables, for whoever reads or writes them; what a program
\* may yet report is there too, for the transaction that holds the lock only in its draft.
Told(c, p) ==
    /\ IsClaim(c)
    /\ holder # p => Stands(c, store)
    /\ holder # "none" => Stands(c, draft)
Books ==
    /\ \A c \in reported : (IsClaim(c) /\ Stands(c, store) /\ (holder # "none" => Stands(c, draft)))
    /\ \A p \in Programs : prog[p].at = "running" => \A c \in prog[p].saved : Told(c, p)

ImportInv ==
    /\ cast \in Casts /\ IsStore(store)
    /\ holder \in Programs \cup {"none"}
    /\ holder # "none" => IsStore(draft) /\ Loads(holder)
    /\ DOMAIN prog = Programs /\ \A p \in Programs : PlaceOf(p)
    /\ Books

LEMMA MaxOfTwo ==
  ASSUME NEW x \in Int, NEW y \in Int
  PROVE  Max({x, y}) \in {x, y} /\ Max({x, y}) >= x /\ Max({x, y}) >= y
<1>1. \E z \in {x, y} : \A w \in {x, y} : z >= w
  OBVIOUS
<1> QED
  BY <1>1 DEF Max

LEMMA PriorityNat ==
  ASSUME NEW record PROVE PriorityOf(record) \in Nat
<1> DEFINE part(u) == IF u \in record.urgent THEN Urgency[u] ELSE 0
<1>1. \A u \in {"conflict_type", "human_label", "fake_app", "fraud_business", "fraud_url",
                "many_iocs"} : part(u) \in Nat
  BY DEF Urgency
<1>2. PICK n \in Nat : n = part("conflict_type") + part("human_label") + part("fake_app")
                             + part("fraud_business") + part("fraud_url") + part("many_iocs")
  BY <1>1
<1>3. PriorityOf(record) = Min({100, n})
  BY <1>2 DEF PriorityOf
<1>4. \E z \in {100, n} : \A w \in {100, n} : z =< w
  OBVIOUS
<1>5. Min({100, n}) \in {100, n}
  BY <1>4 DEF Min
<1> QED
  BY <1>3, <1>5

\* Sequences, by the set of their elements.
LEMMA Appended ==
  ASSUME NEW q, q \in Seq(ToSet(q)), NEW e
  PROVE  Append(q, e) \in Seq(ToSet(Append(q, e))) /\ ToSet(Append(q, e)) = ToSet(q) \cup {e}
<1>1. q \in Seq(ToSet(q) \cup {e})
  BY DEF ToSet
<1>2. /\ Append(q, e) \in Seq(ToSet(q) \cup {e})
      /\ Len(Append(q, e)) = Len(q) + 1
      /\ \A i \in 1..Len(q) : Append(q, e)[i] = q[i]
      /\ Append(q, e)[Len(q) + 1] = e
  BY <1>1, AppendProperties
<1>3. Len(q) \in Nat /\ DOMAIN q = 1..Len(q) /\ DOMAIN Append(q, e) = 1..(Len(q) + 1)
  BY <1>1, <1>2
<1>4. ToSet(q) \cup {e} \subseteq ToSet(Append(q, e))
  <2>1. \A x \in ToSet(q) : x \in ToSet(Append(q, e))
    BY <1>2, <1>3 DEF ToSet
  <2>2. e \in ToSet(Append(q, e))
    BY <1>2, <1>3 DEF ToSet
  <2> QED
    BY <2>1, <2>2
<1>5. ToSet(Append(q, e)) \subseteq ToSet(q) \cup {e}
  BY <1>2, <1>3 DEF ToSet
<1> QED
  BY <1>2, <1>4, <1>5

LEMMA InSeq ==
  ASSUME NEW R, NEW n \in Nat, NEW q, q = [i \in 1..n |-> q[i]], \A i \in 1..n : q[i] \in R
  PROVE  q \in Seq(R)
<1>1. [i \in 1..n |-> q[i]] \in Seq(R)
  OBVIOUS
<1> QED
  BY <1>1

LEMMA OfItsElements ==
  ASSUME NEW S, NEW q \in Seq(S) PROVE q \in Seq(ToSet(q))
<1>1. q = [i \in 1..Len(q) |-> q[i]] /\ Len(q) \in Nat
  OBVIOUS
<1>2. \A i \in 1..Len(q) : q[i] \in ToSet(q)
  BY DEF ToSet
<1>3. [i \in 1..Len(q) |-> q[i]] \in Seq(ToSet(q))
  BY <1>1, <1>2
<1> QED
  BY <1>1, <1>3

LEMMA Shortened ==
  ASSUME NEW q, q \in Seq(ToSet(q)), q # <<>>
  PROVE  /\ Head(q) \in ToSet(q)
         /\ Tail(q) \in Seq(ToSet(Tail(q))) /\ ToSet(Tail(q)) \subseteq ToSet(q)
<1>1. /\ Head(q) \in ToSet(q) /\ Tail(q) \in Seq(ToSet(q))
  BY HeadTailProperties
<1>2. ToSet(Tail(q)) \subseteq ToSet(q)
  BY <1>1 DEF ToSet
<1>3. Tail(q) \in Seq(ToSet(Tail(q)))
  BY <1>1, OfItsElements
<1> QED
  BY <1>1, <1>2, <1>3

\* A saved record is there, and so is what was there before.
LEMMA SavedKeeps ==
  ASSUME NEW s, IsStore(s), NEW record, record.md5 \in Samples, NEW source,
         NEW b \in Programs \cup {"none"}
  PROVE  /\ IsStore(Saved(s, record, source, b))
         /\ \A c : IsClaim(c) /\ Stands(c, s) => Stands(c, Saved(s, record, source, b))
         /\ Stands(Claim("features", record, source, b), Saved(s, record, source, b))
<1>1. PICK t : t = Saved(s, record, source, b)
  OBVIOUS
<1>2. PICK m : m = record.md5
  OBVIOUS
<1>3. PICK r : r = Row(record, source)
  OBVIOUS
<1>4. PICK n : n = 1 + PriorityOf(record)
  OBVIOUS
<1>5. m \in Samples /\ n \in Nat
  BY <1>2, <1>4, PriorityNat
<1>6. DOMAIN EmptyStore = {"features", "tasks", "items", "totals", "manual", "apps", "fetched",
                           "detections"}
  BY DEF EmptyStore
<1>7. /\ DOMAIN t = DOMAIN s
      /\ t.features = IF r \in ToSet(s.features) THEN s.features ELSE Append(s.features, r)
      /\ t.tasks = [s.tasks EXCEPT ![m] = Max({@, n})]
      /\ t.items = [q \in Programs |-> IF q = b THEN s.items[q] \cup {m} ELSE s.items[q]]
      /\ t.manual = s.manual /\ t.apps = s.apps /\ t.fetched = s.fetched
      /\ t.detections = s.detections
  BY <1>1, <1>2, <1>3, <1>4, <1>6 DEF Saved, IsStore
<1>8. /\ t.features \in Seq(ToSet(t.features))
      /\ ToSet(t.features) = ToSet(s.features) \cup {r}
  <2>1. s.features \in Seq(ToSet(s.features))
    BY DEF IsStore
  <2>2. CASE r \in ToSet(s.features)
    BY <2>1, <2>2, <1>7
  <2>3. CASE r \notin ToSet(s.features)
    BY <2>1, <2>3, <1>7, Appended
  <2> QED
    BY <2>2, <2>3
<1>9. /\ t.tasks \in [Samples -> Nat]
      /\ \A x \in Samples : t.tasks[x] >= s.tasks[x]
      /\ t.tasks[m] >= n
  <2>1. s.tasks \in [Samples -> Nat] /\ s.tasks[m] \in Nat
    BY <1>5 DEF IsStore
  <2>2. /\ Max({s.tasks[m], n}) \in Nat
        /\ Max({s.tasks[m], n}) >= s.tasks[m] /\ Max({s.tasks[m], n}) >= n
    <3>1. PICK x \in Nat : x = s.tasks[m]
      BY <2>1
    <3>2. Max({x, n}) \in {x, n} /\ Max({x, n}) >= x /\ Max({x, n}) >= n
      BY <1>5, MaxOfTwo
    <3> QED
      BY <3>1, <3>2, <1>5
  <2> QED
    BY <2>1, <2>2, <1>5, <1>7
<1>10. IsStore(t)
  BY <1>7, <1>8, <1>9 DEF IsStore
<1>11. ASSUME NEW c, IsClaim(c), Stands(c, s) PROVE Stands(c, t)
  <2>1. c.into = "features" =>
          /\ Row(c.record, c.source) \in ToSet(t.features)
          /\ c.batch # "none" => c.record.md5 \in t.items[c.batch]
    BY <1>7, <1>8, <1>11 DEF Stands, IsClaim
  <2>2. c.into = "features" => t.tasks[c.record.md5] >= 1 + PriorityOf(c.record)
    <3>1. HAVE c.into = "features"
    <3>2. PriorityOf(c.record) \in Nat /\ c.record.md5 \in Samples
      BY <1>11, PriorityNat DEF IsClaim
    <3>3. s.tasks[c.record.md5] >= 1 + PriorityOf(c.record)
      BY <1>11, <3>1 DEF Stands
    <3>4. s.tasks[c.record.md5] \in Nat /\ t.tasks[c.record.md5] \in Nat
      BY <3>2, <1>9 DEF IsStore
    <3> QED
      BY <3>2, <3>3, <3>4, <1>9
  <2> QED
    BY <2>1, <2>2, <1>7, <1>11 DEF Stands
<1>12. Stands(Claim("features", record, source, b), t)
  <2>1. m \in Samples /\ (b # "none" => m \in t.items[b])
    BY <1>5, <1>7
  <2> QED
    BY <2>1, <1>2, <1>3, <1>4, <1>8, <1>9 DEF Stands, Claim
<1> QED
  BY <1>1, <1>10, <1>11, <1>12

\* So is a row of a program's transaction.
Rowed(p, record) ==
    /\ Kind(p) \in {"workbook", "engines", "labels", "enrich"}
    /\ record.md5 \in Samples /\ IsRow(Kind(p), record)
    /\ Kind(p) = "engines" => Source(p) \in Engines
    /\ Kind(p) = "enrich" => record.label # "none"
LEMMA WrittenKeeps ==
  ASSUME NEW s, IsStore(s), NEW p \in Programs, NEW record, Rowed(p, record)
  PROVE  /\ IsStore(Written(s, p, record))
         /\ \A c : IsClaim(c) /\ Stands(c, s) => Stands(c, Written(s, p, record))
         /\ \A c \in Claims(p, record, Source(p)) : IsClaim(c) /\ Stands(c, Written(s, p, record))
<1> USE DEF Rowed
<1>1. DOMAIN EmptyStore = {"features", "tasks", "items", "totals", "manual", "apps", "fetched",
                           "detections"}
  BY DEF EmptyStore
<1>2. CASE Kind(p) = "workbook"
  <2>1. PICK t : t = Saved(s, record, Source(p), "none")
    OBVIOUS
  <2>2. /\ IsStore(t)
        /\ \A c : IsClaim(c) /\ Stands(c, s) => Stands(c, t)
        /\ Stands(Claim("features", record, Source(p), "none"), t)
    BY <2>1, SavedKeeps
  <2>3. PICK u : u = Written(s, p, record)
    OBVIOUS
  <2>4. u = [t EXCEPT !.manual[record.md5] = IF record.label = NoLabel THEN @ ELSE record.label]
    BY <1>2, <2>1, <2>3 DEF Written
  <2>5. /\ DOMAIN u = DOMAIN t /\ u.features = t.features /\ u.tasks = t.tasks
        /\ u.items = t.items /\ u.apps = t.apps /\ u.fetched = t.fetched
        /\ u.detections = t.detections
        /\ u.manual = [t.manual EXCEPT ![record.md5] =
                         IF record.label = NoLabel THEN @ ELSE record.label]
    BY <1>1, <2>2, <2>4 DEF IsStore
  <2>6. IsStore(u)
    BY <2>2, <2>5 DEF IsStore
  <2>7. \A m \in Samples : t.manual[m] # NoLabel => u.manual[m] # NoLabel
    BY <2>2, <2>5 DEF IsStore
  <2>8. ASSUME NEW c, IsClaim(c), Stands(c, t) PROVE Stands(c, u)
    BY <2>5, <2>7, <2>8 DEF Stands, IsClaim
  <2>9. record.label # NoLabel => u.manual[record.md5] # NoLabel
    BY <2>2, <2>5 DEF IsStore
  <2>10. ASSUME NEW c \in Claims(p, record, Source(p)) PROVE IsClaim(c) /\ Stands(c, u)
    <3>1. c \in {Claim("features", record, Source(p), "none")}
               \cup (IF record.label = NoLabel THEN {}
                     ELSE {Claim("manual", record, Source(p), "none")})
      BY <1>2 DEF Claims, Served
    <3>2. CASE c = Claim("features", record, Source(p), "none")
      <4>1. IsClaim(c)
        BY <3>2 DEF IsClaim, Claim
      <4> QED
        BY <2>2, <2>8, <3>2, <4>1
    <3>3. CASE c = Claim("manual", record, Source(p), "none") /\ record.label # NoLabel
      BY <2>9, <3>3 DEF IsClaim, Claim, Stands
    <3> QED
      BY <3>1, <3>2, <3>3
  <2> QED
    BY <2>2, <2>3, <2>6, <2>8, <2>10
<1>3. CASE Kind(p) # "workbook"
  <2>1. PICK u : u = Written(s, p, record)
    OBVIOUS
  <2>2. /\ DOMAIN u = DOMAIN s /\ u.features = s.features /\ u.tasks = s.tasks
        /\ u.items = s.items /\ u.manual = s.manual
        /\ u.detections = IF Kind(p) = "engines"
                          THEN [s.detections EXCEPT ![Source(p)][record.md5] = record.detection]
                          ELSE s.detections
        /\ u.apps = IF Kind(p) = "labels" THEN [s.apps EXCEPT ![record.md5] = record.label]
                    ELSE s.apps
        /\ u.fetched = IF Kind(p) = "enrich" THEN [s.fetched EXCEPT ![record.md5] = record.label]
                       ELSE s.fetched
    <3>1. IsStore(s) /\ DOMAIN s = DOMAIN EmptyStore
      BY DEF IsStore
    <3>2. CASE Kind(p) = "engines"
      <4>1. u = [s EXCEPT !.detections[Source(p)][record.md5] = record.detection]
        BY <2>1, <3>2 DEF Written
      <4> QED
        BY <1>1, <3>1, <3>2, <4>1
    <3>3. CASE Kind(p) = "labels"
      <4>1. u = [s EXCEPT !.apps[record.md5] = record.label]
        BY <2>1, <3>3 DEF Written
      <4> QED
        BY <1>1, <3>1, <3>3, <4>1
    <3>4. CASE Kind(p) = "enrich"
      <4>1. u = [s EXCEPT !.fetched[record.md5] = record.label]
        BY <2>1, <3>4 DEF Written
      <4> QED
        BY <1>1, <3>1, <3>4, <4>1
    <3> QED
      BY <1>3, <3>2, <3>3, <3>4
  <2>3. /\ DOMAIN u.detections = Engines /\ \A e \in Engines : DOMAIN u.detections[e] = Samples
        /\ \A e \in Engines, m \in Samples :
              u.detections[e][m] = IF Kind(p) = "engines" /\ e = Source(p) /\ m = record.md5
                                   THEN record.detection ELSE s.detections[e][m]
    BY <2>2 DEF IsStore
  <2>4. /\ DOMAIN u.apps = Samples /\ DOMAIN u.fetched = Samples
        /\ \A m \in Samples :
             /\ u.apps[m] = IF Kind(p) = "labels" /\ m = record.md5 THEN record.label
                            ELSE s.apps[m]
             /\ u.fetched[m] = IF Kind(p) = "enrich" /\ m = record.md5 THEN record.label
                               ELSE s.fetched[m]
    BY <2>2 DEF IsStore
  <2>5. IsStore(u)
    BY <2>2, <2>3, <2>4 DEF IsStore
  <2>6. /\ Kind(p) = "engines" => record.detection # NoDetection
        /\ Kind(p) = "labels" => record.label # NoLabel
        /\ Kind(p) = "enrich" => record.label # "none"
    BY DEF IsRow
  <2>7. ASSUME NEW c, IsClaim(c), Stands(c, s) PROVE Stands(c, u)
    BY <2>2, <2>3, <2>4, <2>6, <2>7 DEF Stands, IsClaim
  <2>8. ASSUME NEW c \in Claims(p, record, Source(p)) PROVE IsClaim(c) /\ Stands(c, u)
    <3>1. c = Claim(Kind(p), record, Source(p), "none") /\ Kind(p) \in {"engines", "labels", "enrich"}
      BY <1>3 DEF Claims, Served
    <3>2. c.into = Kind(p) /\ c.record = record /\ c.source = Source(p) /\ c.batch = "none"
      BY <3>1 DEF Claim
    <3> QED
      BY <2>3, <2>4, <2>6, <3>1, <3>2 DEF IsClaim, Stands
  <2> QED
    BY <2>1, <2>5, <2>7, <2>8
<1> QED
  BY <1>2, <1>3

\* What a transaction sees: its draft, or the tables.
View(p) == IF holder = p THEN draft ELSE store

\* In the view of whoever may write stands every claim.
LEMMA AllInView ==
  ASSUME ImportInv, NEW p \in Programs, holder \in {"none", p}
  PROVE  /\ IsStore(View(p))
         /\ \A c \in reported : IsClaim(c) /\ Stands(c, View(p))
         /\ \A q \in Programs : prog[q].at = "running" =>
              \A c \in prog[q].saved : IsClaim(c) /\ Stands(c, View(p))
<1>1. "none" \notin Programs
  BY ImportAssumption DEF ImportInv, Programs
<1>2. IsStore(View(p))
  BY <1>1 DEF View, ImportInv
<1> QED
  BY <1>1, <1>2 DEF View, ImportInv, Books, Told

\* A step that leaves the tables and the lock alone.
LEMMA BooksStay ==
  ASSUME ImportInv, UNCHANGED <<cast, store, holder, draft>>,
         \A q \in Programs : prog'[q].at = "running" =>
            \/ prog[q].at = "running" /\ prog'[q].saved = prog[q].saved
            \/ prog'[q].saved = {},
         \A c \in reported' : \/ c \in reported
                              \/ \E q \in Programs : /\ q # holder /\ prog[q].at = "running"
                                                     /\ c \in prog[q].saved
  PROVE  Books'
<1>1. "none" \notin Programs /\ Programs' = Programs
  BY ImportAssumption DEF ImportInv, Programs
<1>2. \A c : IsClaim(c)' <=> IsClaim(c)
  BY <1>1 DEF IsClaim
<1>3. \A c : (Stands(c, store)' <=> Stands(c, store)) /\ (Stands(c, draft)' <=> Stands(c, draft))
  BY DEF Stands
<1> QED
  BY <1>1, <1>2, <1>3 DEF ImportInv, Books, Told

\* A step that writes tables in which all claims of before stand, and commits them.
LEMMA BooksCommitted ==
  ASSUME ImportInv, NEW p \in Programs, holder \in {"none", p}, holder' = "none", cast' = cast,
         \A c : IsClaim(c) /\ Stands(c, View(p)) => Stands(c, store'),
         NEW new, \A c \in new : IsClaim(c) /\ Stands(c, store'),
         \A q \in Programs : prog'[q].at = "running" =>
            prog[q].at = "running" /\ prog'[q].saved \subseteq prog[q].saved \cup new,
         \A c \in reported' : \/ c \in reported
                              \/ \E q \in Programs : prog[q].at = "running" /\ c \in prog[q].saved
  PROVE  Books'
<1>1. Programs' = Programs /\ \A c : IsClaim(c)' <=> IsClaim(c)
  BY DEF Programs, IsClaim
<1>2. \A c \in reported' : IsClaim(c) /\ Stands(c, store')
  BY AllInView
<1>3. \A q \in Programs : prog'[q].at = "running" =>
         \A c \in prog'[q].saved : IsClaim(c) /\ Stands(c, store')
  BY AllInView
<1>4. \A c : Stands(c, store)' <=> Stands(c, store')
  BY DEF Stands
<1> QED
  BY <1>1, <1>2, <1>3, <1>4 DEF Books, Told

\* A step that writes such tables to the draft of its transaction.
LEMMA BooksDrafted ==
  ASSUME ImportInv, NEW p \in Programs, holder \in {"none", p}, holder' = p, cast' = cast,
         store' = store,
         \A c : IsClaim(c) /\ Stands(c, View(p)) => Stands(c, draft'),
         NEW new, \A c \in new : IsClaim(c) /\ Stands(c, draft'),
         prog[p].at = "running",
         \A q \in Programs : /\ prog'[q].at = prog[q].at
                             /\ prog'[q].saved \subseteq
                                  IF q = p THEN prog[q].saved \cup new ELSE prog[q].saved,
         reported' = reported
  PROVE  Books'
<1>1. "none" \notin Programs /\ Programs' = Programs /\ \A c : IsClaim(c)' <=> IsClaim(c)
  BY ImportAssumption DEF ImportInv, Programs, IsClaim
<1>2. \A c : (Stands(c, store)' <=> Stands(c, store)) /\ (Stands(c, draft)' <=> Stands(c, draft'))
  BY DEF Stands
<1>3. \A c \in reported : IsClaim(c) /\ Stands(c, draft') /\ Stands(c, store)
  BY <1>1, AllInView DEF ImportInv, Books, Told
<1>4. \A q \in Programs : prog'[q].at = "running" =>
         \A c \in prog'[q].saved : /\ IsClaim(c) /\ Stands(c, draft')
                                   /\ q # p => Stands(c, store)
  BY <1>1, AllInView DEF ImportInv, Books, Told
<1> QED
  BY <1>1, <1>2, <1>3, <1>4 DEF Books, Told

(* ---------------------------- the programs ---------------------------- *)

LEMMA PlanOf ==
  ASSUME ImportInv, NEW p \in Programs
  PROVE  IsPlan(cast[p]) /\ p # "none"
BY ImportAssumption DEF ImportInv, Programs

\* The rows of a sheet are rows of their program.
LEMMA SheetOf ==
  ASSUME ImportInv, NEW p \in Programs, Kind(p) # "boot", NEW n \in DOMAIN cast[p].sheets
  PROVE  /\ SheetRows(p, n) \in Seq(ToSet(SheetRows(p, n)))
         /\ \A record \in ToSet(SheetRows(p, n)) : IsRow(Kind(p), record)
         /\ Kind(p) \in {"pull", "enrich"} => SheetRows(p, n) = <<>>
         /\ Kind(p) = "engines" => cast[p].sheets[n].source \in Engines
<1>1. IsPlan(cast[p])
  BY PlanOf
<1>2. cast[p].sheets[n] \in ToSet(cast[p].sheets)
  BY DEF ToSet
<1> QED
  BY <1>1, <1>2 DEF IsPlan, SheetRows, Kind

LEMMA FirstSheet ==
  ASSUME ImportInv, NEW p \in Programs, Kind(p) # "boot"
  PROVE  1 \in DOMAIN cast[p].sheets /\ DOMAIN cast[p].sheets = 1..Len(cast[p].sheets)
         /\ Len(cast[p].sheets) \in Nat
BY PlanOf DEF IsPlan, Kind

\* The row a program has before it may be written.
LEMMA NextRow ==
  ASSUME ImportInv, NEW p \in Programs, prog[p].at = "running", Kind(p) # "boot", Rest(p) # <<>>
  PROVE  /\ IsRow(Kind(p), Head(Rest(p)))
         /\ Kind(p) = "enrich" => Head(Rest(p)) \in [md5 : Samples, label : {"ok"}]
         /\ Tail(Rest(p)) \in Seq(ToSet(Tail(Rest(p))))
         /\ \A record \in ToSet(Tail(Rest(p))) :
              /\ IsRow(Kind(p), record)
              /\ Kind(p) = "enrich" => record \in [md5 : Samples, label : {"ok"}]
         /\ Kind(p) = "engines" => Source(p) \in Engines
<1>1. PlaceOf(p)
  BY DEF ImportInv
<1>2. /\ Head(Rest(p)) \in ToSet(Rest(p)) /\ Tail(Rest(p)) \in Seq(ToSet(Tail(Rest(p))))
      /\ ToSet(Tail(Rest(p))) \subseteq ToSet(Rest(p))
  BY <1>1, Shortened DEF PlaceOf
<1>3. prog[p].sheet \in DOMAIN cast[p].sheets
  BY <1>1 DEF PlaceOf
<1>4. Kind(p) = "engines" => Source(p) \in Engines
  BY <1>3, SheetOf DEF Source
<1> QED
  BY <1>1, <1>2, <1>4 DEF PlaceOf

LEMMA PlaceStays ==
  ASSUME NEW q, PlaceOf(q), cast' = cast,
         \/ prog'[q] = prog[q]
         \/ \E state \in {"ended", "dead", "raised"} : prog'[q] = [prog[q] EXCEPT !.at = state]
         \/ /\ prog[q].at = "opening" /\ prog'[q] = [prog[q] EXCEPT !.at = "running"]
  PROVE  PlaceOf(q)'
<1>1. DOMAIN Ready = {"at", "sheet", "left", "rows", "saved"}
  BY DEF Ready
<1> QED
  BY <1>1 DEF PlaceOf, Kind, Rest

\* A program that goes on to its next row, or to its next sheet.
LEMMA PlaceMoves ==
  ASSUME ImportInv, NEW p \in Programs, cast' = cast, prog[p].at = "running", Kind(p) # "boot",
         DOMAIN prog'[p] = DOMAIN prog[p], prog'[p].at = "running",
         prog'[p].sheet \in DOMAIN cast[p].sheets, prog'[p].rows \in Nat,
         NEW left, prog'[p].left = left, left \in Seq(ToSet(left)),
         \A record \in ToSet(left) :
              /\ IsRow(Kind(p), record)
              /\ Kind(p) = "enrich" => record \in [md5 : Samples, label : {"ok"}]
  PROVE  PlaceOf(p)'
<1>1. PlaceOf(p)
  BY DEF ImportInv
<1> QED
  BY <1>1 DEF PlaceOf, Kind, Rest

\* What a step must show.
LEMMA InvFrom ==
  ASSUME ImportInv, cast' = cast, IsStore(store'), DOMAIN prog' = Programs, Books',
         \A q \in Programs : PlaceOf(q)',
         \/ holder' = "none"
         \/ holder' \in Programs /\ IsStore(draft') /\ Loads(holder) /\ holder' = holder
            /\ prog'[holder].at = "running"
         \/ holder' \in Programs /\ IsStore(draft') /\ Kind(holder') \notin Served \cup {"boot"}
            /\ prog'[holder'].at = "running"
  PROVE  ImportInv'
<1>1. Programs' = Programs /\ \A q : Kind(q)' = Kind(q)
  BY DEF Programs, Kind
<1>2. \A s : IsStore(s)' <=> IsStore(s)
  BY <1>1 DEF IsStore, EmptyStore
<1>3. IsStore(store)' /\ (holder' # "none" => IsStore(draft)')
  BY <1>1, <1>2 DEF IsStore, EmptyStore
<1>4. holder' # "none" => Loads(holder)'
  BY <1>1 DEF Loads
<1> QED
  BY <1>1, <1>3, <1>4 DEF ImportInv

\* Without a step of the lock, the holder goes on.
LEMMA QuietStep ==
  ASSUME ImportInv, UNCHANGED <<cast, store, holder, draft>>, DOMAIN prog' = Programs, Books',
         \A q \in Programs : PlaceOf(q)',
         holder # "none" => prog'[holder].at = "running"
  PROVE  ImportInv'
BY InvFrom DEF ImportInv

LEMMA Shapes ==
  ASSUME ImportInv
  PROVE  /\ DOMAIN prog = Programs
         /\ \A q \in Programs : DOMAIN prog[q] = {"at", "sheet", "left", "rows", "saved"}
BY DEF ImportInv, PlaceOf, Ready

\* A step that changes where one program is, and maybe ends it.
LEMMA OneStops ==
  ASSUME ImportInv, NEW p \in Programs, NEW state \in {"ended", "raised", "dead"}, Step(p, state),
         p # holder, UNCHANGED <<cast, store, holder, draft>>,
         \A c \in reported' : c \in reported \/ (prog[p].at = "running" /\ c \in prog[p].saved)
  PROVE  ImportInv'
<1>1. prog' = [prog EXCEPT ![p].at = state]
  BY DEF Step
<1>2. /\ DOMAIN prog' = Programs /\ \A q \in Programs : q # p => prog'[q] = prog[q]
      /\ prog'[p] = [prog[p] EXCEPT !.at = state] /\ prog'[p].at = state
  BY <1>1, Shapes
<1>3. \A q \in Programs : PlaceOf(q)'
  BY <1>2, PlaceStays DEF ImportInv
<1>4. Books'
  BY <1>2, BooksStay
<1>5. holder # "none" => prog'[holder].at = "running"
  BY <1>2 DEF ImportInv, Loads
<1> QED
  BY <1>2, <1>3, <1>4, <1>5, QuietStep

\* A sequence of pairwise different elements has as many as the set.
LEMMA Enumerated ==
  ASSUME NEW S, IsFiniteSet(S)
  PROVE  /\ Cardinality(S) \in Nat
         /\ SetToSeq(S) \in [1..Cardinality(S) -> S]
         /\ \A q \in SetToSeqs(S) : q \in Seq(S)
<1>1. Cardinality(S) \in Nat
  BY FS_CardinalityType
<1>2. PICK n \in Nat : ExistsBijection(1..n, S)
  BY FS_NatBijection
<1>3. Cardinality(S) = n
  BY <1>2, FS_CountingElements
<1>4. PICK f \in Bijection(1..n, S) : TRUE
  BY <1>2 DEF ExistsBijection
<1>5. f \in [1..Cardinality(S) -> S] /\ IsInjective(f)
  BY <1>3, <1>4 DEF Bijection, Injection, IsInjective
<1>6. SetToSeq(S) \in [1..Cardinality(S) -> S]
  BY <1>5 DEF SetToSeq
<1>7. \A q \in SetToSeqs(S) : q \in Seq(S)
  BY <1>1 DEF SetToSeqs
<1> QED
  BY <1>1, <1>6, <1>7

LEMMA PullsAreRows ==
  ASSUME NEW q \in Pulls
  PROVE  q \in Seq(Samples)
<1>1. PICK x \in SetToSeqs(Conflicting) : q = SubSeq(x, 1, Min({PullLimit, Len(x)}))
  BY DEF Pulls
<1>2. IsFiniteSet(Conflicting) /\ Conflicting \subseteq Samples
  BY ImportAssumption, FS_Subset DEF Conflicting
<1>3. x \in Seq(Samples) /\ Len(x) \in Nat
  <2>1. x \in Seq(Conflicting)
    BY <1>2, Enumerated
  <2> QED
    BY <1>2, <2>1
<1>4. PullLimit \in Nat
  BY ImportAssumption
<1>5. \E z \in {PullLimit, Len(x)} : \A w \in {PullLimit, Len(x)} : z =< w
  BY <1>3, <1>4
<1>6. Min({PullLimit, Len(x)}) \in {PullLimit, Len(x)}
      /\ \A w \in {PullLimit, Len(x)} : Min({PullLimit, Len(x)}) =< w
  BY <1>5 DEF Min
<1>7. Min({PullLimit, Len(x)}) \in 0..Len(x)
  BY <1>3, <1>4, <1>6
<1>8. PICK k \in 0..Len(x) : k = Min({PullLimit, Len(x)})
  BY <1>7
<1>9. \A i \in 1..k : x[i] \in Samples
  BY <1>3
<1>10. SubSeq(x, 1, k) \in Seq(Samples)
  BY <1>3, <1>9
<1> QED
  BY <1>1, <1>8, <1>10

LEMMA BeginStep == ASSUME ImportInv, NEW p \in Programs, Begin(p) PROVE ImportInv'
<1> DEFINE Comes(state, left) ==
           /\ prog' = [prog EXCEPT ![p].at = state, ![p].left = left]
           /\ state = "opening" => Kind(p) \in {"upload", "pull"}
           /\ state # "ended" /\ Kind(p) # "boot" =>
                /\ left \in Seq(ToSet(left))
                /\ \A record \in ToSet(left) :
                     /\ IsRow(Kind(p), record)
                     /\ Kind(p) = "enrich" => record \in [md5 : Samples, label : {"ok"}]
<1>1. /\ prog[p].at = "idle" /\ UNCHANGED <<cast, store, holder, draft, reported>>
      /\ \E state \in {"running", "opening", "ended"} : \E left : Comes(state, left)
  <2>1. prog[p].at = "idle" /\ UNCHANGED <<cast, store, holder, draft, reported>>
    BY DEF Begin
  <2>2. CASE /\ Kind(p) \in {"upload", "ingest", "workbook", "engines", "labels"}
             /\ prog' = [prog EXCEPT ![p].at = IF Kind(p) = "upload" THEN "opening" ELSE "running",
                                     ![p].left = SheetRows(p, 1)]
    <3>1. /\ SheetRows(p, 1) \in Seq(ToSet(SheetRows(p, 1)))
          /\ \A record \in ToSet(SheetRows(p, 1)) : IsRow(Kind(p), record)
      BY <2>2, FirstSheet, SheetOf
    <3>2. PICK state : state = IF Kind(p) = "upload" THEN "opening" ELSE "running"
      OBVIOUS
    <3>3. /\ prog' = [prog EXCEPT ![p].at = state, ![p].left = SheetRows(p, 1)]
          /\ state \in {"running", "opening", "ended"} /\ Kind(p) # "enrich"
          /\ state = "opening" => Kind(p) \in {"upload", "pull"}
      BY <2>2, <3>2
    <3> QED
      BY <2>1, <3>1, <3>3
  <2>3. ASSUME Kind(p) = "pull", NEW q \in Pulls,
               prog' = [prog EXCEPT ![p].at = IF q = <<>> THEN "ended" ELSE "opening",
                                    ![p].left = [n \in DOMAIN q |-> Pulled(q[n])]]
        PROVE  \E state \in {"running", "opening", "ended"} : \E left : Comes(state, left)
    <3>1. q \in Seq(Samples)
      BY PullsAreRows
    <3>2. PICK left : left = [n \in DOMAIN q |-> Pulled(q[n])]
      OBVIOUS
    <3>3. left \in Seq({Pulled(m) : m \in Samples})
      BY <3>1, <3>2
    <3>4. left \in Seq(ToSet(left))
      BY <3>3, OfItsElements
    <3>5. \A record \in ToSet(left) : IsRow(Kind(p), record)
      BY <2>3, <3>1, <3>2 DEF ToSet, IsRow, Pulled
    <3>6. PICK state \in {"ended", "opening"} : state = IF q = <<>> THEN "ended" ELSE "opening"
      OBVIOUS
    <3>7. prog' = [prog EXCEPT ![p].at = state, ![p].left = left]
      BY <2>3, <3>2, <3>6
    <3> QED
      BY <2>3, <3>4, <3>5, <3>7
  <2>4. CASE /\ Kind(p) = "enrich"
             /\ prog' = [prog EXCEPT ![p].at = "running",
                   ![p].left = [n \in 1..Cardinality(ToEnrich) |->
                                   [md5 |-> SetToSeq(ToEnrich)[n], label |-> "ok"]]]
    <3>1. IsFiniteSet(ToEnrich) /\ ToEnrich \subseteq Samples
      BY ImportAssumption, FS_Subset DEF ToEnrich
    <3>2. /\ Cardinality(ToEnrich) \in Nat
          /\ SetToSeq(ToEnrich) \in [1..Cardinality(ToEnrich) -> ToEnrich]
      BY <3>1, Enumerated
    <3>3. PICK left : left = [n \in 1..Cardinality(ToEnrich) |->
                                [md5 |-> SetToSeq(ToEnrich)[n], label |-> "ok"]]
      OBVIOUS
    <3>4. PICK R : R = [md5 : Samples, label : {"ok"}]
      OBVIOUS
    <3>5. left \in Seq(R)
      <4>1. PICK N \in Nat : N = Cardinality(ToEnrich)
        BY <3>2
      <4>2. \A n \in 1..N : left[n] \in R
        BY <3>1, <3>2, <3>3, <3>4, <4>1
      <4>3. left = [n \in 1..N |-> left[n]]
        BY <3>3, <4>1
      <4> HIDE DEF Comes
      <4> QED
        BY <4>2, <4>3, InSeq
    <3>8. left \in Seq(ToSet(left)) /\ ToSet(left) \subseteq R
      <4>1. DOMAIN left = 1..Len(left) /\ \A n \in 1..Len(left) : left[n] \in R
        BY <3>5
      <4> QED
        BY <3>5, <4>1, OfItsElements DEF ToSet
    <3>6. prog' = [prog EXCEPT ![p].at = "running", ![p].left = left]
      BY <2>4, <3>3
    <3> QED
      BY <2>1, <2>4, <3>4, <3>6, <3>8 DEF IsRow
  <2>5. CASE Kind(p) = "boot" /\ Step(p, "running")
    <3>1. prog' = [prog EXCEPT ![p].at = "running", ![p].left = prog[p].left]
      <4>1. prog' = [prog EXCEPT ![p].at = "running"]
        BY <2>5 DEF Step
      <4>2. [prog EXCEPT ![p].at = "running"]
              = [prog EXCEPT ![p] = [prog[p] EXCEPT !.at = "running"]]
        OBVIOUS
      <4>3. [prog[p] EXCEPT !.at = "running"]
              = [prog[p] EXCEPT !.at = "running", !.left = prog[p].left]
        BY Shapes
      <4> QED
        BY <4>1, <4>2, <4>3
    <3> QED
      BY <2>1, <2>5, <3>1
  <2> QED
    BY <2>1, <2>2, <2>3, <2>4, <2>5 DEF Begin
<1>2. PICK state \in {"running", "opening", "ended"} : \E left : Comes(state, left)
  BY <1>1
<1> PICK left : Comes(state, left)
  BY <1>2
<1>3. /\ DOMAIN prog' = Programs /\ \A q \in Programs : q # p => prog'[q] = prog[q]
      /\ DOMAIN prog'[p] = DOMAIN prog[p] /\ prog'[p].at = state /\ prog'[p].left = left
      /\ prog'[p].sheet = prog[p].sheet /\ prog'[p].saved = prog[p].saved
      /\ prog'[p].rows = prog[p].rows
  BY <1>2, Shapes
<1>4. PlaceOf(p) /\ prog[p].saved = {}
  BY <1>1 DEF ImportInv, PlaceOf
<1>5. PlaceOf(p)'
  <2>1. \A q : Kind(q)' = Kind(q)
    BY <1>1 DEF Kind
  <2> QED
    BY <1>1, <1>2, <1>3, <1>4, <2>1 DEF PlaceOf, Rest
<1>6. \A q \in Programs : PlaceOf(q)'
  BY <1>1, <1>3, <1>5, PlaceStays DEF ImportInv
<1>7. Books'
  BY <1>1, <1>3, <1>4, BooksStay
<1>8. holder # "none" => prog'[holder].at = "running"
  BY <1>1, <1>3 DEF ImportInv, Loads
<1> QED
  BY <1>1, <1>3, <1>6, <1>7, <1>8, QuietStep

LEMMA RowsNat ==
  ASSUME ImportInv PROVE \A q \in Programs : prog[q].rows \in Nat
BY DEF ImportInv, PlaceOf

LEMMA OpenBatchStep == ASSUME ImportInv, NEW p \in Programs, OpenBatch(p) PROVE ImportInv'
<1>1. /\ prog[p].at = "opening" /\ holder = "none" /\ prog' = [prog EXCEPT ![p].at = "running"]
      /\ UNCHANGED <<cast, store, holder, draft, reported>>
  BY DEF OpenBatch, Free, Step
<1>2. /\ DOMAIN prog' = Programs /\ \A q \in Programs : q # p => prog'[q] = prog[q]
      /\ prog'[p] = [prog[p] EXCEPT !.at = "running"]
      /\ prog'[p].saved = prog[p].saved
  BY <1>1, Shapes
<1>3. \A q \in Programs : PlaceOf(q)'
  BY <1>1, <1>2, PlaceStays DEF ImportInv
<1>4. prog[p].saved = {}
  BY <1>1 DEF ImportInv, PlaceOf
<1>5. Books'
  BY <1>1, <1>2, <1>4, BooksStay
<1> QED
  BY <1>1, <1>2, <1>3, <1>5, QuietStep

\* A program that goes on to its next row.
LEMMA NextStep ==
  ASSUME ImportInv, NEW p \in Programs, prog[p].at = "running", Kind(p) # "boot", Rest(p) # <<>>,
         cast' = cast,
         DOMAIN prog' = Programs, \A q \in Programs : q # p => prog'[q] = prog[q],
         DOMAIN prog'[p] = DOMAIN prog[p], prog'[p].at = "running",
         prog'[p].sheet = prog[p].sheet, prog'[p].left = Tail(Rest(p)), prog'[p].rows \in Nat
  PROVE  \A q \in Programs : PlaceOf(q)'
<1>1. PlaceOf(p)'
  <2>1. PlaceOf(p)
    BY DEF ImportInv
  <2>2. prog'[p].sheet \in DOMAIN cast[p].sheets
    BY <2>1 DEF PlaceOf
  <2> QED
    BY <2>2, NextRow, PlaceMoves
<1> QED
  BY <1>1, PlaceStays DEF ImportInv

LEMMA ServeStep == ASSUME ImportInv, NEW p \in Programs, Serve(p) PROVE ImportInv'
<1>1. PICK record : record = Head(Rest(p))
  OBVIOUS
<1>2. PICK new : new = Claims(p, record, Source(p))
  OBVIOUS
<1>3. /\ Kind(p) \in Served /\ prog[p].at = "running" /\ Rest(p) # <<>> /\ holder = "none"
      /\ record.md5 # Unnamed /\ store' = Saved(store, record, Source(p), BatchFor(p))
      /\ prog' = [prog EXCEPT ![p].left = Tail(@), ![p].saved = @ \cup new]
      /\ UNCHANGED <<cast, holder, draft, reported>>
  BY <1>1, <1>2 DEF Serve, Free
<1>4. Kind(p) \in {"upload", "ingest", "pull"}
  BY <1>3 DEF Served
<1>5. record.md5 \in Samples /\ BatchFor(p) \in Programs \cup {"none"} /\ IsStore(store)
  BY <1>1, <1>3, <1>4, NextRow DEF IsRow, BatchFor, ImportInv
<1>6. /\ IsStore(store') /\ \A c : IsClaim(c) /\ Stands(c, store) => Stands(c, store')
      /\ Stands(Claim("features", record, Source(p), BatchFor(p)), store')
  BY <1>3, <1>5, SavedKeeps
<1>7. \A c \in new : IsClaim(c) /\ Stands(c, store')
  <2>1. new = {Claim("features", record, Source(p), BatchFor(p))}
    BY <1>2, <1>4 DEF Claims, Served
  <2>2. IsClaim(Claim("features", record, Source(p), BatchFor(p)))
    BY <1>5 DEF IsClaim, Claim
  <2> QED
    BY <2>1, <2>2, <1>6
<1>8. /\ DOMAIN prog' = Programs /\ \A q \in Programs : q # p => prog'[q] = prog[q]
      /\ DOMAIN prog'[p] = DOMAIN prog[p] /\ prog'[p].at = "running"
      /\ prog'[p].sheet = prog[p].sheet /\ prog'[p].left = Tail(Rest(p)) /\ prog'[p].rows \in Nat
      /\ prog'[p].saved = prog[p].saved \cup new
  BY <1>3, Shapes, RowsNat DEF Rest
<1>9. \A q \in Programs : PlaceOf(q)'
  BY <1>3, <1>4, <1>8, NextStep
<1>10. View(p) = store
  BY <1>3, PlanOf DEF View
<1>11. \A q \in Programs : prog'[q].at = "running" =>
          prog[q].at = "running" /\ prog'[q].saved \subseteq prog[q].saved \cup new
  BY <1>3, <1>8
<1>12. Books'
  BY <1>3, <1>6, <1>7, <1>10, <1>11, BooksCommitted
<1> QED
  BY <1>3, <1>6, <1>8, <1>9, <1>12, InvFrom

LEMMA HolderLoads ==
  ASSUME ImportInv, NEW p \in Programs, Kind(p) \in Served \cup {"boot"} \/ prog[p].at # "running"
  PROVE  p # holder
BY PlanOf DEF ImportInv, Loads

\* A row that is passed over.
LEMMA PassedRow ==
  ASSUME ImportInv, NEW p \in Programs, prog[p].at = "running", Kind(p) # "boot", Rest(p) # <<>>,
         prog' = [prog EXCEPT ![p].left = Tail(@)],
         UNCHANGED <<cast, store, holder, draft, reported>>
  PROVE  ImportInv'
<1>1. /\ DOMAIN prog' = Programs /\ \A q \in Programs : q # p => prog'[q] = prog[q]
      /\ DOMAIN prog'[p] = DOMAIN prog[p] /\ prog'[p].at = "running"
      /\ prog'[p].sheet = prog[p].sheet /\ prog'[p].left = Tail(Rest(p)) /\ prog'[p].rows \in Nat
      /\ prog'[p].saved = prog[p].saved
  BY Shapes, RowsNat DEF Rest
<1>2. \A q \in Programs : PlaceOf(q)'
  BY <1>1, NextStep
<1>3. Books'
  BY <1>1, BooksStay
<1>4. holder # "none" => prog'[holder].at = "running"
  BY <1>1 DEF ImportInv, Loads
<1> QED
  BY <1>1, <1>2, <1>3, <1>4, QuietStep

LEMMA FailStep == ASSUME ImportInv, NEW p \in Programs, Fail(p) PROVE ImportInv'
<1>1. /\ Kind(p) \in Served /\ UNCHANGED <<cast, store, holder, draft, reported>>
      /\ \/ Step(p, "raised")
         \/ /\ prog[p].at = "running" /\ Rest(p) # <<>>
            /\ prog' = [prog EXCEPT ![p].left = Tail(@)]
  BY DEF Fail
<1>2. Kind(p) # "boot" /\ p # holder
  BY <1>1, HolderLoads DEF Served
<1>3. CASE Step(p, "raised")
  BY <1>1, <1>2, <1>3, OneStops
<1>4. CASE /\ prog[p].at = "running" /\ Rest(p) # <<>>
           /\ prog' = [prog EXCEPT ![p].left = Tail(@)]
  BY <1>1, <1>2, <1>4, PassedRow
<1> QED
  BY <1>1, <1>3, <1>4

LEMMA AnsweredStep == ASSUME ImportInv, NEW p \in Programs, Answered(p) PROVE ImportInv'
<1>1. /\ Kind(p) \in Served /\ prog[p].at = "running" /\ Step(p, "ended")
      /\ reported' = reported \cup prog[p].saved /\ UNCHANGED <<cast, holder, draft>>
      /\ IF Kind(p) = "ingest" THEN UNCHANGED store
         ELSE holder = "none" /\ store' = [store EXCEPT !.totals[p] = Cardinality(store.items[p])]
  BY DEF Answered, Free
<1>2. p # holder
  BY <1>1, HolderLoads
<1>3. CASE Kind(p) = "ingest"
  <2>1. \A c \in reported' : c \in reported \/ (prog[p].at = "running" /\ c \in prog[p].saved)
    BY <1>1
  <2> QED
    BY <1>1, <1>2, <1>3, <2>1, OneStops
<1>4. CASE Kind(p) # "ingest"
  <2>1. holder = "none" /\ store' = [store EXCEPT !.totals[p] = Cardinality(store.items[p])]
    BY <1>1, <1>4
  <2>2. IsStore(store) /\ View(p) = store
    BY <1>2 DEF ImportInv, View
  <2>3. /\ DOMAIN store' = DOMAIN store
        /\ \A t \in {"features", "tasks", "items", "manual", "apps", "fetched", "detections"} :
             store'[t] = store[t]
    BY <2>1, <2>2
  <2>4. IsStore(store')
    BY <2>2, <2>3 DEF IsStore
  <2>5. \A c : IsClaim(c) /\ Stands(c, store) => Stands(c, store')
    BY <2>3 DEF Stands, IsClaim
  <2>6. prog' = [prog EXCEPT ![p].at = "ended"]
    BY <1>1 DEF Step
  <2>7. /\ DOMAIN prog' = Programs /\ \A q \in Programs : q # p => prog'[q] = prog[q]
        /\ prog'[p] = [prog[p] EXCEPT !.at = "ended"] /\ prog'[p].at = "ended"
    BY <2>6, Shapes
  <2>8. \A q \in Programs : PlaceOf(q)'
    BY <1>1, <2>7, PlaceStays DEF ImportInv
  <2>9. Books'
    <3> PICK none : none = {}
      OBVIOUS
    <3>1. \A q \in Programs : prog'[q].at = "running" =>
             prog[q].at = "running" /\ prog'[q].saved \subseteq prog[q].saved \cup none
      BY <2>7
    <3>2. \A c \in reported' : \/ c \in reported
                               \/ \E q \in Programs : prog[q].at = "running" /\ c \in prog[q].saved
      BY <1>1
    <3>3. \A c : IsClaim(c) /\ Stands(c, View(p)) => Stands(c, store')
      BY <2>2, <2>5
    <3>4. holder \in {"none", p} /\ holder' = "none" /\ cast' = cast
      BY <1>1, <2>1
    <3>5. \A c \in none : IsClaim(c) /\ Stands(c, store')
      OBVIOUS
    <3> QED
      BY <3>1, <3>2, <3>3, <3>4, <3>5, BooksCommitted
  <2> QED
    BY <1>1, <2>1, <2>4, <2>7, <2>8, <2>9, InvFrom
<1> QED
  BY <1>3, <1>4

\* One more row of a transaction, and a commit when the chunk is full.
LEMMA LoadStep ==
  ASSUME ImportInv, NEW p \in Programs, Loads(p), Rest(p) # <<>>, holder \in {"none", p},
         NEW record, Rowed(p, record), Load(p, record), UNCHANGED <<cast, reported>>
  PROVE  ImportInv'
<1>1. PICK t : t = Written(View(p), p, record)
  OBVIOUS
<1>2. PICK new : new = Claims(p, record, Source(p))
  OBVIOUS
<1>3. PICK full \in BOOLEAN : full = (Kind(p) = "workbook" /\ prog[p].rows + 1 = ChunkRows)
  OBVIOUS
<1>4. /\ IF full THEN store' = t /\ holder' = "none" /\ draft' = EmptyStore
         ELSE draft' = t /\ holder' = p /\ UNCHANGED store
      /\ prog' = [prog EXCEPT ![p].left = Tail(@), ![p].rows = IF full THEN 0 ELSE @ + 1,
                              ![p].saved = @ \cup new]
  BY <1>1, <1>2, <1>3 DEF Load, View
<1>5. /\ prog[p].at = "running" /\ Kind(p) \notin Served \cup {"boot"} /\ p # "none"
  BY PlanOf DEF Loads
<1>6. IsStore(View(p))
  BY AllInView
<1>7. /\ IsStore(t) /\ \A c : IsClaim(c) /\ Stands(c, View(p)) => Stands(c, t)
      /\ \A c \in new : IsClaim(c) /\ Stands(c, t)
  BY <1>1, <1>2, <1>6, WrittenKeeps
<1>8. /\ DOMAIN prog' = Programs /\ \A q \in Programs : q # p => prog'[q] = prog[q]
      /\ DOMAIN prog'[p] = DOMAIN prog[p] /\ prog'[p].at = "running"
      /\ prog'[p].sheet = prog[p].sheet /\ prog'[p].left = Tail(Rest(p)) /\ prog'[p].rows \in Nat
      /\ prog'[p].saved = prog[p].saved \cup new
  BY <1>4, <1>5, Shapes, RowsNat DEF Rest
<1>9. \A q \in Programs : PlaceOf(q)'
  BY <1>5, <1>8, NextStep
<1>10. CASE full
  <2>1. \A q \in Programs : prog'[q].at = "running" =>
          prog[q].at = "running" /\ prog'[q].saved \subseteq prog[q].saved \cup new
    BY <1>5, <1>8
  <2>2. Books'
    <3>1. store' = t /\ holder' = "none"
      BY <1>4, <1>10
    <3>2. \A c : IsClaim(c) /\ Stands(c, View(p)) => Stands(c, store')
      BY <1>7, <3>1
    <3>3. \A c \in new : IsClaim(c) /\ Stands(c, store')
      BY <1>7, <3>1
    <3>4. \A c \in reported' : \/ c \in reported
                               \/ \E q \in Programs : prog[q].at = "running" /\ c \in prog[q].saved
      OBVIOUS
    <3> QED
      BY <2>1, <3>1, <3>2, <3>3, <3>4, BooksCommitted
  <2> QED
    BY <1>4, <1>7, <1>8, <1>9, <1>10, <2>2, InvFrom
<1>11. CASE ~full
  <2>1. \A q \in Programs : /\ prog'[q].at = prog[q].at
                            /\ prog'[q].saved \subseteq
                                 IF q = p THEN prog[q].saved \cup new ELSE prog[q].saved
    BY <1>5, <1>8
  <2>2. Books'
    <3>1. draft' = t /\ holder' = p /\ store' = store /\ cast' = cast /\ reported' = reported
      BY <1>4, <1>11
    <3>2. \A c : IsClaim(c) /\ Stands(c, View(p)) => Stands(c, draft')
      BY <1>7, <3>1
    <3>3. \A c \in new : IsClaim(c) /\ Stands(c, draft')
      BY <1>7, <3>1
    <3> QED
      BY <1>5, <2>1, <3>1, <3>2, <3>3, BooksDrafted
  <2>3. IsStore(store') /\ holder' = p /\ draft' = t
    BY <1>4, <1>11 DEF ImportInv
  <2> QED
    BY <1>5, <1>7, <1>8, <1>9, <2>2, <2>3, InvFrom
<1> QED
  BY <1>10, <1>11

LEMMA LoadRowStep == ASSUME ImportInv, NEW p \in Programs, LoadRow(p) PROVE ImportInv'
<1>1. /\ Loads(p) /\ Rest(p) # <<>> /\ UNCHANGED <<cast, reported>>
      /\ prog[p].at = "running" /\ Kind(p) \notin Served /\ Kind(p) # "boot"
  BY DEF LoadRow, Loads
<1>2. /\ IsRow(Kind(p), Head(Rest(p))) /\ (Kind(p) = "engines" => Source(p) \in Engines)
      /\ Kind(p) = "enrich" => Head(Rest(p)) \in [md5 : Samples, label : {"ok"}]
  BY <1>1, NextRow
<1>3. Kind(p) \in {"workbook", "engines", "labels", "enrich"}
  BY <1>1, PlanOf DEF IsPlan, Kinds, Served, Kind
<1>4. CASE /\ Head(Rest(p)).md5 = Unnamed
           /\ prog' = [prog EXCEPT ![p].left = Tail(@)]
           /\ UNCHANGED <<store, holder, draft>>
  BY <1>1, <1>4, PassedRow
<1>5. CASE /\ Head(Rest(p)).md5 # Unnamed /\ holder \in {"none", p}
           /\ \/ Load(p, Head(Rest(p)))
              \/ Kind(p) = "enrich" /\ Load(p, [Head(Rest(p)) EXCEPT !.label = "failed"])
  <2>1. Rowed(p, Head(Rest(p)))
    BY <1>2, <1>3, <1>5 DEF Rowed, IsRow
  <2>2. Kind(p) = "enrich" => Rowed(p, [Head(Rest(p)) EXCEPT !.label = "failed"])
    BY <1>2 DEF Rowed, IsRow
  <2> QED
    BY <1>1, <1>5, <2>1, <2>2, LoadStep
<1>6. CASE /\ holder \notin {"none", p} /\ Step(p, "raised") /\ UNCHANGED <<store, holder, draft>>
  BY <1>1, <1>6, OneStops
<1> QED
  BY <1>4, <1>5, <1>6 DEF LoadRow

LEMMA EndSheetStep == ASSUME ImportInv, NEW p \in Programs, EndSheet(p) PROVE ImportInv'
<1>1. /\ prog[p].at = "running" /\ Kind(p) # "boot" /\ holder \in {"none", p}
      /\ store' = View(p) /\ holder' = "none" /\ cast' = cast
  BY DEF EndSheet, Loads, Close, View
<1>2. IsStore(store')
  BY <1>1, AllInView
<1>3. \A c : IsClaim(c) /\ Stands(c, View(p)) => Stands(c, store')
  BY <1>1
<1>4. CASE /\ prog[p].sheet < Len(cast[p].sheets)
           /\ prog' = [prog EXCEPT ![p].sheet = @ + 1, ![p].rows = 0,
                                   ![p].left = SheetRows(p, prog[p].sheet + 1)]
           /\ UNCHANGED reported
  <2>1. prog[p].sheet + 1 \in DOMAIN cast[p].sheets
    <3>1. prog[p].sheet \in DOMAIN cast[p].sheets
      BY <1>1 DEF ImportInv, PlaceOf
    <3> QED
      BY <1>1, <1>4, <3>1, FirstSheet
  <2>2. PICK left : left = SheetRows(p, prog[p].sheet + 1)
    OBVIOUS
  <2>3. /\ DOMAIN prog' = Programs /\ \A q \in Programs : q # p => prog'[q] = prog[q]
        /\ DOMAIN prog'[p] = DOMAIN prog[p] /\ prog'[p].at = "running"
        /\ prog'[p].sheet = prog[p].sheet + 1 /\ prog'[p].left = left
        /\ prog'[p].saved = prog[p].saved /\ prog'[p].rows = 0
    BY <1>1, <1>4, <2>2, Shapes
  <2>4. left \in Seq(ToSet(left)) /\ \A record \in ToSet(left) :
              /\ IsRow(Kind(p), record)
              /\ Kind(p) = "enrich" => record \in [md5 : Samples, label : {"ok"}]
    <3>1. ToSet(<<>>) = {}
      BY DEF ToSet
    <3> QED
      BY <1>1, <2>1, <2>2, <3>1, SheetOf
  <2>5. PlaceOf(p)'
    BY <1>1, <2>1, <2>3, <2>4, PlaceMoves
  <2>6. \A q \in Programs : PlaceOf(q)'
    BY <1>1, <2>3, <2>5, PlaceStays DEF ImportInv
  <2> PICK none : none = {}
    OBVIOUS
  <2>7. \A q \in Programs : prog'[q].at = "running" =>
          prog[q].at = "running" /\ prog'[q].saved \subseteq prog[q].saved \cup none
    BY <1>1, <2>3
  <2>8. Books'
    <3>1. \A c \in none : IsClaim(c) /\ Stands(c, store')
      OBVIOUS
    <3>2. \A c \in reported' : \/ c \in reported
                               \/ \E q \in Programs : prog[q].at = "running" /\ c \in prog[q].saved
      BY <1>4
    <3> QED
      BY <1>1, <1>3, <2>7, <3>1, <3>2, BooksCommitted
  <2> QED
    BY <1>1, <1>2, <2>3, <2>6, <2>8, InvFrom
<1>5. CASE Step(p, "ended") /\ reported' = reported \cup prog[p].saved
  <2>1. prog' = [prog EXCEPT ![p].at = "ended"]
    BY <1>5 DEF Step
  <2>2. /\ DOMAIN prog' = Programs /\ \A q \in Programs : q # p => prog'[q] = prog[q]
        /\ prog'[p] = [prog[p] EXCEPT !.at = "ended"] /\ prog'[p].at = "ended"
    BY <2>1, Shapes
  <2>3. \A q \in Programs : PlaceOf(q)'
    BY <1>1, <2>2, PlaceStays DEF ImportInv
  <2> PICK none : none = {}
    OBVIOUS
  <2>4. \A q \in Programs : prog'[q].at = "running" =>
          prog[q].at = "running" /\ prog'[q].saved \subseteq prog[q].saved \cup none
    BY <2>2
  <2>5. \A c \in reported' : \/ c \in reported
                             \/ \E q \in Programs : prog[q].at = "running" /\ c \in prog[q].saved
    BY <1>1, <1>5
  <2>6. Books'
    <3>1. \A c \in none : IsClaim(c) /\ Stands(c, store')
      OBVIOUS
    <3> QED
      BY <1>1, <1>3, <2>4, <2>5, <3>1, BooksCommitted
  <2> QED
    BY <1>1, <1>2, <2>2, <2>3, <2>6, InvFrom
<1> QED
  BY <1>4, <1>5 DEF EndSheet

LEMMA PassOverStep == ASSUME ImportInv, NEW p \in Programs, PassOver(p) PROVE ImportInv'
<1>1. /\ prog' = [prog EXCEPT ![p].rows = @ + 1] /\ Kind(p) = "boot"
      /\ UNCHANGED <<cast, store, holder, draft, reported>>
  BY DEF PassOver
<1>2. /\ DOMAIN prog' = Programs /\ \A q \in Programs : q # p => prog'[q] = prog[q]
      /\ DOMAIN prog'[p] = DOMAIN prog[p] /\ prog'[p].at = prog[p].at
      /\ prog'[p].saved = prog[p].saved /\ prog'[p].rows \in Nat
  BY <1>1, Shapes, RowsNat
<1>3. PlaceOf(p)'
  BY <1>1, <1>2 DEF ImportInv, PlaceOf, Kind
<1>4. \A q \in Programs : PlaceOf(q)'
  BY <1>1, <1>2, <1>3, PlaceStays DEF ImportInv
<1>5. Books'
  BY <1>1, <1>2, BooksStay
<1>6. holder # "none" => prog'[holder].at = "running"
  BY <1>2 DEF ImportInv, Loads
<1> QED
  BY <1>1, <1>2, <1>4, <1>5, <1>6, QuietStep

\* The reset clears the tables of the records and what programs told of them.
LEMMA ResetStep == ASSUME ImportInv, NEW p \in Programs, Reset(p) PROVE ImportInv'
<1>1. PICK gone : gone = {Cleared[n] : n \in prog[p].rows + 1..Len(Cleared)}
  OBVIOUS
<1>2. /\ Kind(p) = "boot" /\ prog[p].at = "running" /\ UNCHANGED <<cast, holder, draft>>
      /\ IF gone = {} THEN Step(p, "ended") /\ UNCHANGED <<store, reported>>
         ELSE /\ holder = "none"
              /\ store' = [t \in DOMAIN store |-> IF t \in gone THEN EmptyStore[t] ELSE store[t]]
              /\ reported' = Standing(reported)
              /\ prog' = [q \in Programs |->
                    [prog[q] EXCEPT !.saved = Standing(@), !.at = IF q = p THEN "ended" ELSE @]]
  BY <1>1 DEF Reset, Free
<1>3. CASE gone = {}
  <2>1. p # holder
    BY <1>2, HolderLoads
  <2> QED
    BY <1>2, <1>3, <2>1, OneStops
<1>4. CASE gone # {}
  <2>1. /\ holder = "none" /\ holder' = "none" /\ cast' = cast /\ reported' = Standing(reported)
        /\ store' = [t \in DOMAIN store |-> IF t \in gone THEN EmptyStore[t] ELSE store[t]]
        /\ prog' = [q \in Programs |->
              [prog[q] EXCEPT !.saved = Standing(@), !.at = IF q = p THEN "ended" ELSE @]]
    BY <1>2, <1>4
  <2>2. IsStore(store) /\ DOMAIN store = DOMAIN EmptyStore
    BY DEF ImportInv, IsStore
  <2>3. DOMAIN EmptyStore = {"features", "tasks", "items", "totals", "manual", "apps", "fetched",
                             "detections"}
    BY DEF EmptyStore
  <2>4. gone \subseteq {"items", "totals", "tasks", "features"}
    <3>1. prog[p].rows \in Nat
      BY DEF ImportInv, PlaceOf
    <3>2. \A n \in 1..4 : Cleared[n] \in {"items", "totals", "tasks", "features"}
      BY DEF Cleared
    <3>3. Len(Cleared) = 4
      BY DEF Cleared
    <3> QED
      BY <1>1, <3>1, <3>2, <3>3
  <2>5. /\ DOMAIN store' = DOMAIN EmptyStore
        /\ \A t \in {"manual", "apps", "fetched", "detections"} : store'[t] = store[t]
        /\ \A t \in {"features", "tasks", "items"} : store'[t] \in {store[t], EmptyStore[t]}
    BY <2>1, <2>2, <2>3, <2>4
  <2>6. /\ EmptyStore.features = <<>> /\ EmptyStore.tasks \in [Samples -> Nat]
        /\ DOMAIN EmptyStore.items = Programs
    BY DEF EmptyStore, NotQueued
  <2>7. IsStore(store')
    <3>1. <<>> \in Seq(ToSet(<<>>))
      OBVIOUS
    <3> QED
      BY <2>2, <2>5, <2>6, <3>1 DEF IsStore
  <2>8. \A c : c.into # "features" /\ IsClaim(c) /\ Stands(c, store) => Stands(c, store')
    BY <2>5 DEF Stands, IsClaim
  <2>9. /\ DOMAIN prog' = Programs
        /\ \A q \in Programs : /\ DOMAIN prog'[q] = DOMAIN prog[q] /\ prog'[q].left = prog[q].left
                               /\ prog'[q].saved = Standing(prog[q].saved)
                               /\ prog'[q].sheet = prog[q].sheet /\ prog'[q].rows = prog[q].rows
                               /\ prog'[q].at = IF q = p THEN "ended" ELSE prog[q].at
    BY <2>1, Shapes
  <2>10. \A q \in Programs : PlaceOf(q)'
    <3>1. \A q : Kind(q)' = Kind(q)
      BY <2>1 DEF Kind
    <3>2. TAKE q \in Programs
    <3>3. PlaceOf(q) /\ (prog[q].saved = {} => prog'[q].saved = {})
      BY <2>9 DEF ImportInv, Standing
    <3>4. /\ cast' = cast /\ DOMAIN prog'[q] = DOMAIN prog[q] /\ prog'[q].left = prog[q].left
          /\ prog'[q].sheet = prog[q].sheet /\ prog'[q].rows = prog[q].rows
          /\ prog'[q].at \in {"ended", prog[q].at}
      BY <2>1, <2>9
    <3> QED
      BY <3>1, <3>3, <3>4 DEF PlaceOf, Rest
  <2>11. Books'
    <3>1. "none" \notin Programs /\ Programs' = Programs /\ \A c : IsClaim(c)' <=> IsClaim(c)
      BY <2>1, ImportAssumption DEF ImportInv, Programs, IsClaim
    <3>2. \A c : Stands(c, store)' <=> Stands(c, store')
      BY DEF Stands
    <3>3. \A c \in reported' : IsClaim(c) /\ Stands(c, store')
      BY <2>1, <2>8, <3>1 DEF ImportInv, Books, Told, Standing
    <3>4. \A q \in Programs : prog'[q].at = "running" =>
             \A c \in prog'[q].saved : IsClaim(c) /\ Stands(c, store')
      <4> SUFFICES ASSUME NEW q \in Programs, prog'[q].at = "running", NEW c \in prog'[q].saved
                   PROVE  IsClaim(c) /\ Stands(c, store')
        OBVIOUS
      <4>1. prog[q].at = "running"
        BY <2>9
      <4>2. c \in prog[q].saved /\ c.into # "features"
        BY <2>9 DEF Standing
      <4>3. q # holder /\ Told(c, q)
        BY <2>1, <3>1, <4>1, <4>2 DEF ImportInv, Books
      <4> QED
        BY <2>8, <4>2, <4>3 DEF Told
    <3> QED
      BY <2>1, <3>1, <3>2, <3>3, <3>4 DEF Books, Told
  <2> QED
    BY <2>1, <2>7, <2>9, <2>10, <2>11, InvFrom
<1> QED
  BY <1>3, <1>4

LEMMA KilledStep == ASSUME ImportInv, NEW p \in Programs, Killed(p) PROVE ImportInv'
<1>1. /\ Step(p, "dead") /\ UNCHANGED <<cast, store, reported>>
      /\ IF holder = p THEN holder' = "none" /\ draft' = EmptyStore ELSE UNCHANGED <<holder, draft>>
  BY DEF Killed
<1>2. CASE holder # p
  BY <1>1, <1>2, OneStops
<1>3. CASE holder = p
  <2>1. prog' = [prog EXCEPT ![p].at = "dead"] /\ holder' = "none"
    BY <1>1, <1>3 DEF Step
  <2>2. /\ DOMAIN prog' = Programs /\ \A q \in Programs : q # p => prog'[q] = prog[q]
        /\ prog'[p] = [prog[p] EXCEPT !.at = "dead"] /\ prog'[p].at = "dead"
    BY <2>1, Shapes
  <2>3. \A q \in Programs : PlaceOf(q)'
    BY <1>1, <2>2, PlaceStays DEF ImportInv
  <2>4. Books'
    <3>1. "none" \notin Programs /\ Programs' = Programs /\ \A c : IsClaim(c)' <=> IsClaim(c)
      BY <1>1, ImportAssumption DEF ImportInv, Programs, IsClaim
    <3>2. \A c : Stands(c, store)' <=> Stands(c, store)
      BY <1>1 DEF Stands
    <3> QED
      BY <1>1, <1>3, <2>1, <2>2, <3>1, <3>2 DEF ImportInv, Books, Told
  <2>5. IsStore(store')
    BY <1>1 DEF ImportInv
  <2> QED
    BY <1>1, <2>1, <2>2, <2>3, <2>4, <2>5, InvFrom
<1> QED
  BY <1>2, <1>3

LEMMA ImportInvAlways == ImportSpec => []ImportInv
<1>1. ImportInit => ImportInv
  <2> SUFFICES ASSUME ImportInit PROVE ImportInv
    OBVIOUS
  <2>1. /\ cast \in Casts /\ store = EmptyStore /\ holder = "none" /\ reported = {}
        /\ prog = [p \in Programs |-> Ready]
    BY DEF ImportInit
  <2>2. IsStore(store)
    <3>1. <<>> \in Seq(ToSet(<<>>))
      OBVIOUS
    <3> QED
      BY <2>1, <3>1 DEF IsStore, EmptyStore, NotQueued
  <2>3. ASSUME NEW p \in Programs PROVE PlaceOf(p)
    <3>1. prog[p] = Ready
      BY <2>1
    <3>2. IsPlan(cast[p])
      BY <2>1, ImportAssumption DEF Programs
    <3>3. Kind(p) # "boot" => 1 \in DOMAIN cast[p].sheets
      BY <3>2 DEF IsPlan, Kind
    <3> QED
      BY <3>1, <3>3 DEF PlaceOf, Ready
  <2>4. Books
    BY <2>1 DEF Books, Ready
  <2> QED
    BY <2>1, <2>2, <2>3, <2>4 DEF ImportInv
<1>2. ImportInv /\ [ImportNext]_importVars => ImportInv'
  <2> SUFFICES ASSUME ImportInv, [ImportNext]_importVars PROVE ImportInv'
    OBVIOUS
  <2>1. ASSUME NEW p \in Programs,
               Begin(p) \/ OpenBatch(p) \/ Serve(p) \/ Fail(p) \/ Answered(p) \/ LoadRow(p)
                 \/ EndSheet(p) \/ PassOver(p) \/ Reset(p) \/ Killed(p)
        PROVE  ImportInv'
    BY <2>1, BeginStep, OpenBatchStep, ServeStep, FailStep, AnsweredStep, LoadRowStep,
       EndSheetStep, PassOverStep, ResetStep, KilledStep
  <2>2. CASE UNCHANGED importVars
    <3>1. UNCHANGED <<cast, store, holder, draft, prog, reported>>
      BY <2>2 DEF importVars
    <3>2. Books'
      BY <3>1, BooksStay
    <3>3. \A q \in Programs : PlaceOf(q)'
      BY <3>1, PlaceStays DEF ImportInv
    <3>4. DOMAIN prog' = Programs /\ (holder # "none" => prog'[holder].at = "running")
      BY <3>1 DEF ImportInv, Loads
    <3> QED
      BY <3>1, <3>2, <3>3, <3>4, QuietStep
  <2> QED
    BY <2>1, <2>2 DEF ImportNext
<1> QED
  BY <1>1, <1>2, PTL DEF ImportSpec

\* A saved record is part of what a judgement will read.
LEMMA InContext ==
  ASSUME NEW c, Row(c.record, c.source) \in ToSet(store.features)
  PROVE  /\ DOMAIN c.record.fields \subseteq DOMAIN Context(c.record.md5).fields
         /\ c.record.iocs \subseteq Context(c.record.md5).iocs
<1>1. PICK n \in DOMAIN store.features : store.features[n] = Row(c.record, c.source)
  BY DEF ToSet
<1>2. store.features[n].md5 = c.record.md5 /\ store.features[n].record = c.record
  BY <1>1 DEF Row
<1>3. PICK rows : rows = {k \in DOMAIN store.features : store.features[k].md5 = c.record.md5}
  OBVIOUS
<1>4. n \in rows
  BY <1>2, <1>3
<1>5. /\ DOMAIN Context(c.record.md5).fields = UNION {DOMAIN store.features[k].record.fields : k \in rows}
      /\ Context(c.record.md5).iocs = UNION {store.features[k].record.iocs : k \in rows}
  BY <1>3 DEF Context
<1> QED
  BY <1>2, <1>4, <1>5

\* What a program reports as imported stays, whatever runs beside it, is killed or waits for
\* the lock, until a reset (preprocess.py save_feature_record, scripts/data).
THEOREM ImportsStay == ImportSpec => []ImportedIsKept
<1>1. ImportInv => ImportedIsKept
  <2> SUFFICES ASSUME ImportInv, NEW c \in reported PROVE Kept(c)
    BY DEF ImportedIsKept
  <2>1. IsClaim(c) /\ Stands(c, store)
    BY DEF ImportInv, Books
  <2>2. c.into = "features" => Row(c.record, c.source) \in ToSet(store.features)
    BY <2>1 DEF Stands
  <2> QED
    BY <2>1, <2>2, InContext DEF Kept, Stands, IsClaim
<1> QED
  BY <1>1, ImportInvAlways, PTL
================================================================================
