---------------------------- MODULE MCInvestigation ----------------------------
(* Small instances of Investigation and of the AgentRuntime that runs its  *)
(* agents: one or two tools an agent, and plans of a model that are        *)
(* refused, that leave agents or tools out or that claim an override; four *)
(* agents in a pool of two workers. They share no state of their models: a *)
(* behaviour is of one of them, with the other at its beginning or end.    *)
EXTENDS Investigation, AgentRuntime

VARIABLE part            \* "runtime" or "investigation"

MCScope == [static_analysis |-> {"certificate"}, threat_intel |-> {"ioc_lookup", "family_correlation"},
            impersonation |-> {"package_similarity"}, business_label |-> {"harm_chain"}]
MCRemedies == [threat_intel |-> {"ioc_lookup"}, impersonation |-> {"package_similarity"}]
MCOverrides == {{}, {"static_analysis"}, {"threat_intel"}}

StaticOnly == [a \in Agents |-> IF a = "static_analysis" THEN MCScope[a] ELSE {}]
Borrowed == [MCScope EXCEPT !["business_label"] = {"ioc_lookup"}]
MCCandidates ==
  [wellFormed: {TRUE}, enabled: {{"static_analysis"}, {"static_analysis", "threat_intel"}, Needs},
   override: {{}, {"business_label"}}, focus: {{}, {"impersonation", "business_label"}},
   allow: {MCScope, StaticOnly, Borrowed}]
  \cup [wellFormed: {FALSE}, enabled: {Agents}, override: {{}}, focus: {{}}, allow: {MCScope}]
------------------------------------------------------------------------------
\* An execute whose agents have all completed.
RuntimeDone ==
  LET ended == [x \in Registry |-> IF x \in Disabled THEN "skipped" ELSE "completed"] IN
  /\ main = "finished" /\ todo = {} /\ queue = <<>> /\ futures = {} /\ pass = {}
  /\ elapsed = {} /\ seen = {} /\ result = ended
  /\ future = [x \in Registry |-> IF x \in Disabled THEN "none" ELSE "done"]
  /\ attempt = [x \in Registry |-> IF x \in Disabled THEN 0 ELSE 1]
  /\ outcome = [x \in Registry |-> IF x \in Disabled THEN "none" ELSE "completed"]

AgentsInit ==
  \/ part = "runtime" /\ RuntimeInit /\ Init
     /\ config = [planner |-> TRUE, tools |-> TRUE, v2 |-> TRUE]
     /\ sample = [signals |-> {}, disabled |-> {}]
  \/ part = "investigation" /\ RuntimeDone /\ Init

AgentsNext ==
  /\ UNCHANGED part
  /\ \/ part = "runtime" /\ RuntimeNext /\ UNCHANGED vars
     \/ part = "investigation" /\ Next /\ UNCHANGED runtimeVars

\* With the fairness of AgentRuntime's FairSpec.
AgentsSpec ==
  /\ AgentsInit /\ [][AgentsNext]_<<vars, runtimeVars, part>>
  /\ WF_runtimeVars(Poll) /\ \A a \in Registry : WF_runtimeVars(Elapse(a))
==============================================================================
