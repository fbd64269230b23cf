------------------------------ MODULE Campaign ------------------------------
(***************************************************************************)
(* The layers of a suite are worked off in batches: a workflow job         *)
(* (malapp/evaluation/workflows.py) takes the next rows that a variant is  *)
(* missing and runs one evaluation per variant over them, each under a     *)
(* run-id of its own that all jobs of the suite share.  The console reads  *)
(* the progress, the experiments and the readiness of the layers back from *)
(* the files of those runs (malapp/evaluation/five_layer.py).              *)
(*                                                                         *)
(* Experiment has one such evaluation in detail; here it is its samples    *)
(* and its files.  The races of starts and cancels are EvalWorkflow's:     *)
(* here one job runs at a time, and a kill takes its command along (as on  *)
(* Windows).  Commands are never ended by failures in a row: the batches   *)
(* are too small.                                                          *)
(***************************************************************************)
EXTENDS Integers, FiniteSets, Sequences, SequencesExt

CONSTANTS
    SuiteSamples,   \* the samples of the suite
    Roles,          \* suites to work off: actions used, rows, runs with thin reports,
                    \*   and what the suite's own files say
    BatchSizes,     \* the sizes an operator asks for
    MaxFaults       \* a bound: jobs cancelled or dead, and losses of the job files

(* ------------------------------- actions ------------------------------ *)

\* The run-ids of each action; a release and its completion share one.
RunsOf ==
    [gold_compare |-> <<"gold-compare">>,
     model_release |-> <<"model-release">>,
     complete_release |-> <<"model-release">>,
     rag_compare |-> <<"rag_off", "rag_vector", "rag_hybrid">>,
     agent_ablation |-> <<"full", "no-static_analysis", "no-threat_intel",
                          "no-impersonation", "no-business_label">>,
     debate_ablation |-> <<"debate_none", "debate_single", "debate_short", "debate_full">>,
     xgb_ablation |-> <<"xgb_off", "xgb_agent_only", "xgb_fusion", "xgb_full">>,
     production_reliability |-> <<"fault-recovery">>]

Actions == DOMAIN RunsOf
Runs == UNION {ToSet(RunsOf[a]) : a \in Actions}

\* The rows of a suite are different samples.
IsRole(r) ==
    /\ r.actions \subseteq Actions /\ r.rows \in Seq(SuiteSamples)
    /\ \A i, j \in DOMAIN r.rows : r.rows[i] = r.rows[j] => i = j

ASSUME CampaignAssumption ==
    /\ IsFiniteSet(SuiteSamples) /\ \A r \in Roles : IsRole(r)
    /\ BatchSizes \subseteq Nat \ {0} /\ MaxFaults \in Nat

VARIABLES
    role,
    ledger,         \* checkpoint.json of each run
    published,      \* result.json of each run
    reports,        \* the quality of the latest report of each sample in its database
    picked,         \* the last selection in run_config.json
    begun,          \* the runs that have a directory with files
    source,         \* samples the application itself has a report of
    jobs,           \* the latest job file of each action
    active,         \* the action whose job runs, or none
    cmd,            \* its command
    release,        \* which release job is the newer, and has its run written since
    faults          \* what the bound has used, and whether a checkpoint was lost

runFiles == <<ledger, published, reports, picked, begun>>
campaignVars == <<role, runFiles, source, jobs, active, cmd, release, faults>>

\* One command for each run; the reliability test replays its own run.
Commands ==
    [a \in Actions |->
        LET runs == RunsOf[a]
            replays == IF a = "production_reliability" THEN 1 ELSE 0
        IN  [k \in 1..Len(runs) + replays |->
               [run |-> IF k <= Len(runs) THEN runs[k] ELSE runs[1],
                replay |-> k > Len(runs), pending |-> a = "complete_release"]]]

Nothing == [s \in SuiteSamples |-> "none"]
NoFile == [status |-> "none", batch |-> {}, selected |-> <<>>]
Turn(pc, k, todo) == [pc |-> pc, k |-> k, todo |-> todo, ok |-> 0, failed |-> 0, skipped |-> 0]
NoCommand == Turn("none", 1, {})
NoReport == [status |-> "none", selected |-> 0, failed |-> 0, completed |-> 0]

CampaignInit ==
    /\ role \in Roles
    /\ ledger = [r \in Runs |-> Nothing] /\ published = [r \in Runs |-> NoReport]
    /\ reports = [r \in Runs |-> Nothing]
    /\ picked = [r \in Runs |-> {}] /\ begun = {} /\ source = {}
    /\ jobs = [a \in Actions |-> NoFile] /\ active = "none" /\ cmd = NoCommand
    /\ release = [newer |-> "model_release", wrote |-> FALSE] /\ faults = [n |-> 0, lost |-> FALSE]

(* ------------------------------- progress ----------------------------- *)

With(run, status) == {s \in SuiteSamples : ledger[run][s] = status}
Completed(run) == With(run, "completed")
CompletedInAll(a) == {s \in SuiteSamples : \A r \in ToSet(RunsOf[a]) : s \in Completed(r)}
RowIds == ToSet(role.rows)

\* What an action's card shows as done: the least of its variants, and for a
\* completion of the release the samples either side has.
Progress(a) ==
    IF a = "complete_release" THEN Cardinality((source \cup Completed("model-release")) \cap RowIds)
    ELSE Min({Cardinality(Completed(r)) : r \in ToSet(RunsOf[a])})

\* The next rows of the suite's file that some variant has not completed.
Batch(a, size) ==
    LET wanted == {i \in DOMAIN role.rows :
                     /\ a = "complete_release" => role.rows[i] \notin source
                     /\ role.rows[i] \notin CompletedInAll(a)}
        first == {i \in wanted : Cardinality({j \in wanted : j <= i}) <= size}
    IN  {role.rows[i] : i \in first}

\* The executions a job plans, and those its bar shows as finished: the ones of its
\* batch in the checkpoints, and what the result of a replay says once it is recorded.
Planned(a) == Cardinality(jobs[a].batch) * Len(Commands[a])
Finished(a) ==
    LET tried(run) == jobs[a].batch \cap (Completed(run) \cup With(run, "failed"))
        of(k) == IF ~Commands[a][k].replay THEN tried(Commands[a][k].run)
                 ELSE IF k <= Len(jobs[a].selected) THEN 1..jobs[a].selected[k] ELSE {}
    IN  Min({Planned(a), Cardinality(UNION {{k} \X of(k) : k \in DOMAIN Commands[a]})})

(* --------------------------------- jobs ------------------------------- *)

\* A start: the batch is written to a file of its own, which all commands read.
Start(a, size) ==
    LET batch == Batch(a, size) IN
    /\ a \in role.actions /\ active = "none" /\ batch # {}
    /\ active' = a /\ cmd' = Turn("next", 1, {})
    /\ jobs' = [jobs EXCEPT ![a] = [status |-> "running", batch |-> batch, selected |-> <<>>]]
    /\ release' = IF "model-release" \in ToSet(RunsOf[a]) THEN [newer |-> a, wrote |-> FALSE]
                  ELSE release
    /\ UNCHANGED <<role, runFiles, source, faults>>

\* The command of the job whose turn it is.
Ordered == Commands[active][cmd.k]

\* The rows a command evaluates.
Picks(c) ==
    {s \in jobs[active].batch \cap RowIds :
        /\ c.pending => s \notin source
        /\ IF c.replay THEN s \in picked[c.run] ELSE s \notin Completed(c.run)}

\* The job ends.
Ended(status) ==
    /\ active' = "none" /\ cmd' = NoCommand
    /\ jobs' = [jobs EXCEPT ![active].status = status]

\* The worker starts the next command, which selects its rows; a replay without an
\* earlier selection fails.  After the last command the job is complete.
Launch ==
    /\ active # "none" /\ cmd.pc = "next"
    /\ \/ /\ cmd.k > Len(Commands[active])
          /\ Ended("completed") /\ UNCHANGED <<runFiles, release>>
       \/ /\ cmd.k <= Len(Commands[active])
          /\ Ordered.replay /\ picked[Ordered.run] = {}
          /\ Ended("failed") /\ UNCHANGED <<runFiles, release>>
       \/ /\ cmd.k <= Len(Commands[active])
          /\ Ordered.replay => picked[Ordered.run] # {}
          /\ cmd' = Turn("judge", cmd.k, Picks(Ordered))
          /\ picked' = [picked EXCEPT ![Ordered.run] = Picks(Ordered)]
          /\ begun' = begun \cup {Ordered.run}
          /\ release' = [release EXCEPT !.wrote = @ \/ Ordered.run = "model-release"]
          /\ UNCHANGED <<ledger, published, reports, active, jobs>>
    /\ UNCHANGED <<role, source, faults>>

\* They are evaluated in the order of the suite's file.
Judging == cmd.pc = "judge" /\ cmd.todo # {}
Tried == role.rows[Min({i \in DOMAIN role.rows : role.rows[i] \in cmd.todo})]

Passed ==
    /\ Judging /\ ledger[Ordered.run][Tried] = "completed"
    /\ cmd' = [cmd EXCEPT !.todo = @ \ {Tried}, !.skipped = @ + 1]
    /\ UNCHANGED <<role, runFiles, source, jobs, active, release, faults>>

\* A judgement: its report, whole or (where the read model looks for it) thin, that is
\* without one of the four channels or an agent that recovered; or none.
Judge(s, quality) ==
    /\ Judging /\ s = Tried /\ ledger[Ordered.run][s] # "completed"
    /\ quality = "thin" => Ordered.run \in role.thin
    /\ reports' = IF quality = "none" THEN reports
                  ELSE [reports EXCEPT ![Ordered.run][s] = quality]
    /\ cmd' = IF quality = "none" THEN [cmd EXCEPT !.pc = "saveFailed", !.failed = @ + 1]
              ELSE [cmd EXCEPT !.pc = "save", !.ok = @ + 1]
    /\ UNCHANGED <<role, ledger, published, picked, begun, source, jobs, active, release, faults>>

Checkpoint ==
    /\ cmd.pc \in {"save", "saveFailed"}
    /\ ledger' = [ledger EXCEPT ![Ordered.run][Tried] =
                    IF cmd.pc = "save" THEN "completed" ELSE "failed"]
    /\ cmd' = [cmd EXCEPT !.pc = "judge", !.todo = @ \ {Tried}]
    /\ UNCHANGED <<role, published, reports, picked, begun, source, jobs, active, release, faults>>

Publish ==
    LET count == cmd.ok + cmd.failed + cmd.skipped IN
    /\ cmd.pc = "judge" /\ cmd.todo = {}
    /\ published' = [published EXCEPT ![Ordered.run] =
          [status |-> IF cmd.failed > 0 THEN "failed" ELSE "completed", selected |-> count,
           failed |-> cmd.failed, completed |-> cmd.ok + cmd.skipped]]
    /\ cmd' = [cmd EXCEPT !.pc = "record"]
    /\ UNCHANGED <<role, ledger, reports, picked, begun, source, jobs, active, release, faults>>

\* The worker records the result; a failed sample fails the job, and the variants
\* that follow do not run.
Record_GoesOn ==
    LET told == published[Ordered.run] IN
    /\ cmd.pc = "record"
    /\ jobs' = [jobs EXCEPT ![active].selected = Append(@, told.selected + told.failed)]
    /\ cmd' = Turn("next", cmd.k + 1, {})
    /\ UNCHANGED <<role, runFiles, source, active, release, faults>>

Record ==
    LET told == published[Ordered.run]
        selected == Append(jobs[active].selected, told.selected + told.failed)
        failed == told.failed > 0 \/ told.status = "failed"
    IN
    /\ cmd.pc = "record"
    /\ jobs' = [jobs EXCEPT ![active].selected = selected,
                            ![active].status = IF failed THEN "failed" ELSE @]
    /\ active' = IF failed THEN "none" ELSE active
    /\ cmd' = IF failed THEN NoCommand ELSE Turn("next", cmd.k + 1, {})
    /\ UNCHANGED <<role, runFiles, source, release, faults>>

(* ------------------------------- failures ----------------------------- *)

\* The job is cancelled, its worker dies or its command ends with an error; in the
\* middle of a write the checkpoint is lost.
Stopped(status) ==
    /\ active # "none" /\ faults.n < MaxFaults
    /\ Ended(status)
    /\ \/ UNCHANGED ledger /\ faults' = [faults EXCEPT !.n = @ + 1]
       \/ /\ cmd.pc \in {"save", "saveFailed"}
          /\ ledger' = [ledger EXCEPT ![Ordered.run] = Nothing]
          /\ faults' = [n |-> faults.n + 1, lost |-> TRUE]
    /\ UNCHANGED <<role, published, reports, picked, begun, source, release>>

\* The job files are lost; the directories of the runs are still there.
LoseIndex ==
    /\ active = "none" /\ faults.n < MaxFaults
    /\ faults' = [faults EXCEPT !.n = @ + 1]
    /\ \E a \in Actions : jobs[a] # NoFile
    /\ jobs' = [a \in Actions |-> NoFile]
    /\ UNCHANGED <<role, runFiles, source, active, cmd, release>>

\* The application itself judges a sample.
Reported(s) ==
    /\ "complete_release" \in role.actions /\ s \in RowIds \ source
    /\ source' = source \cup {s}
    /\ UNCHANGED <<role, runFiles, jobs, active, cmd, release, faults>>

JobStep == Launch \/ Passed \/ Checkpoint \/ Publish \/ Record
               \/ \E s \in SuiteSamples, quality \in {"whole", "thin", "none"} : Judge(s, quality)

CampaignNext ==
    \/ JobStep \/ LoseIndex
    \/ \E status \in {"cancelled", "failed"} : Stopped(status)
    \/ \E s \in SuiteSamples : Reported(s)
    \/ \E a \in Actions, size \in BatchSizes : Start(a, size)

CampaignSpec == CampaignInit /\ [][CampaignNext]_campaignVars

(* ------------------------------ read model ---------------------------- *)

\* A variant of an action as its files tell it.
Variant(run) ==
    LET failed == Max({Cardinality(With(run, "failed")), published[run].failed})
        completed == Max({Cardinality(Completed(run)), published[run].completed})
    IN  [samples |-> completed,
         status |-> CASE failed > 0 \/ published[run].status = "failed" -> "failed"
                      [] completed > 0 /\ published[run].status # "none" -> "completed"
                      [] OTHER -> "missing"]

\* Without a job file the runs that have files make up for it.
Recoverable == Actions \ {"debate_ablation", "xgb_ablation"}
Recovered(a) == IF a \in Recoverable
                THEN {k \in DOMAIN Commands[a] : Commands[a][k].run \in begun} ELSE {}

\* Which of an action's commands have a variant to show.
Listed(a) == IF jobs[a] # NoFile THEN DOMAIN Commands[a] ELSE Recovered(a)

\* An experiment is complete when each variant the action has is complete.
Expected(a) == Len(Commands[a])

ExperimentOf(a) ==
    LET of(status) == {k \in Listed(a) : Variant(Commands[a][k].run).status = status} IN
    IF Listed(a) = {} THEN "not_run"
    ELSE IF jobs[a].status \in {"running", "cancelled"} THEN jobs[a].status
    ELSE IF of("failed") # {} \/ Cardinality(of("completed")) < Expected(a) THEN "failed"
    ELSE "completed"

\* The two release actions share a run: the entry with more samples counts, of equal
\* ones the newer; one recovered from the run's files is as old as their last write.
ReleaseExperiment ==
    LET kept == {a \in {"model_release", "complete_release"} : jobs[a] # NoFile}
        other == CHOOSE a \in {"model_release", "complete_release"} : a # release.newer
    IN  IF kept = {} THEN ExperimentOf("model_release")
        ELSE IF other \notin kept /\ release.wrote THEN ExperimentOf(other)
        ELSE ExperimentOf(release.newer)

\* Every restart the fault injection caused was a recovery (the share shown is at
\* least 95% on a small suite only if it is all).
RecoveryShown ==
    /\ ExperimentOf("production_reliability") = "completed"
    /\ \E s \in SuiteSamples : reports["fault-recovery"][s] # "none"
    /\ \A s \in SuiteSamples : reports["fault-recovery"][s] # "thin"

\* The four channels have an output for every row of the release.
ChannelsComplete == RowIds # {} /\ \A s \in RowIds : reports["model-release"][s] = "whole"

\* suite_readiness; layer 5 reads no run.
Layers ==
    LET status(ready, blocked) == IF ready THEN "ready" ELSE IF blocked THEN "blocked" ELSE "partial"
        done(actions) == \A a \in actions : ExperimentOf(a) = "completed"
        broken(actions) == \E a \in actions : ExperimentOf(a) = "failed"
        ablations == {"debate_ablation", "xgb_ablation"}
    IN  [layer1 |-> status(ChannelsComplete /\ ReleaseExperiment = "completed", FALSE),
         layer2 |-> status(role.suite.annotated /\ done({"rag_compare"}), TRUE),
         layer3 |-> status(done({"agent_ablation"}) /\ RecoveryShown,
                           broken({"agent_ablation", "production_reliability"})),
         layer4 |-> status(role.suite.covered /\ done(ablations), broken(ablations))]

\* The history of suites counts what the checkpoints have, whatever the job files say.
HasResults == begun # {}

(* ------------------------------ properties ---------------------------- *)

\* The progress of an action (workflows.py, workflow_cumulative_progress) counts in
\* each variant and shows the least: as long as no checkpoint was lost that is the
\* number of samples which every variant has completed, although batches end early,
\* are cancelled or leave failed samples behind.  A job that says completed shows all
\* its executions as finished, unless the application judged a sample meanwhile.
ProgressIsTrue ==
    ~faults.lost => \A a \in role.actions :
          /\ a # "complete_release" => Progress(a) = Cardinality(CompletedInAll(a))
          /\ jobs[a].status = "completed" /\ source = {} => Finished(a) = Planned(a)

\* A layer of variants that is shown as ready has a report in the run of each of
\* them, whatever files were lost in between, and its suite is listed with results.
ReadyIsReported ==
    LET needs == [layer1 |-> {"model_release"}, layer2 |-> {"rag_compare"},
                  layer3 |-> {"agent_ablation", "production_reliability"},
                  layer4 |-> {"debate_ablation", "xgb_ablation"}]
    IN  \A l \in DOMAIN needs : Layers[l] = "ready" =>
          /\ HasResults
          /\ \A a \in needs[l] : \A r \in ToSet(RunsOf[a]) :
                \E s \in SuiteSamples : reports[r][s] # "none"

\* What the page of a suite shows of its layers: how far, and whether ready.
CardIsTrue == ProgressIsTrue /\ ReadyIsReported
=============================================================================
