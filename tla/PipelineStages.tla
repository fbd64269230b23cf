---------------------------- MODULE PipelineStages ----------------------------
(***************************************************************************)
(* PipelineStateMachine of malapp/orchestration/pipeline.py: the records   *)
(* of the eight stages and what start, _finish and skip do to them. Stages *)
(* are numbered in the order of PIPELINE_STAGES. The specification lets a  *)
(* caller make any calls in any order; a call whose guard fails raises and *)
(* changes nothing. Times, digests and reasons are left out.               *)
(***************************************************************************)
EXTENDS Naturals

CONSTANT N   \* the number of stages

VARIABLE status
------------------------------------------------------------------------------
Stages == 1..N
Terminal == {"completed", "failed", "degraded", "skipped"}
StageStatus == {"pending", "started"} \cup Terminal

Pending == [s \in Stages |-> "pending"]

\* _active is None.
NoneActive(st) == \A s \in Stages : st[s] # "started"

CanEnter(st, s) ==
  /\ NoneActive(st)
  /\ st[s] = "pending"
  /\ \A t \in Stages : t < s => st[t] \in Terminal

CanSkip(st, s) == st[s] = "started" \/ CanEnter(st, s)

Start(s) == CanEnter(status, s) /\ status' = [status EXCEPT ![s] = "started"]

Finish(s, outcome) ==
  status[s] = "started" /\ status' = [status EXCEPT ![s] = outcome]

Skip(s) == CanSkip(status, s) /\ status' = [status EXCEPT ![s] = "skipped"]

StagesInit == status = Pending
StagesNext == \E s \in Stages :
  Start(s) \/ Skip(s) \/ \E outcome \in {"completed", "failed", "degraded"} : Finish(s, outcome)
StagesSpec == StagesInit /\ [][StagesNext]_status
------------------------------------------------------------------------------
StatusOK == status \in [Stages -> StageStatus]

\* Whatever calls are made in whatever order, the stages that were entered are
\* a prefix of the order, and all but the last of them are finished: a report
\* can be read as the history of one pass through the pipeline.
EnteredInOrder == \A s, t \in Stages :
  s < t /\ status[t] # "pending" => status[s] \in Terminal

\* A stage's outcome is final: no later call rewrites it.
OutcomeFinal == [][\A s \in Stages : status[s] \in Terminal => status'[s] = status[s]]_status
==============================================================================
