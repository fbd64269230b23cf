----------------------------- MODULE Experiment -----------------------------
(***************************************************************************)
(* An evaluation run (scripts/evaluation/run_evaluation.py, cmd_run): one  *)
(* run-id whose directory many invocations share.  The first one copies    *)
(* the retrieval store into it without the samples under evaluation; each  *)
(* judges a selection of the rows with that copy and saves a checkpoint    *)
(* after every sample, so that a later one resumes.                        *)
(*                                                                         *)
(* run_config.json and checkpoint.json are written in place, and a file    *)
(* that cannot be parsed is read as an empty one: a process that dies in a *)
(* write loses the file.  Two invocations of one run-id at a time are not  *)
(* modelled, nor are the options that filter the rows before the selection *)
(* but for --sample-id-file (--pending-only, --offset): Rows is what they  *)
(* leave.  Of the retrieval store, the application's and the copy, only    *)
(* the samples its documents name are kept.                                *)
(***************************************************************************)
EXTENDS Integers, FiniteSets, Sequences, FiniteSetsExt

CONSTANTS
    Samples,
    Rows,           \* the validation rows, in the order of the file
    Isolated,       \* --isolation-sample-id-file, empty if none is passed
    Settings,       \* model settings an operator may choose between
    Options,        \* the combinations of options an operator uses
    Limit,          \* --limit
    MaxRow,         \* --max-consecutive-failures
    MaxCrashes      \* a bound of the runs

ASSUME ExperimentAssumption ==
    /\ Rows \in Seq(Samples)
    /\ Isolated \subseteq Samples
    /\ Limit \in Nat \ {0} /\ MaxRow \in Nat \ {0} /\ MaxCrashes \in Nat
    /\ Settings # {} /\ 0 \notin Settings
    /\ Options \subseteq [next: BOOLEAN, replay: BOOLEAN, dry: BOOLEAN, stop: BOOLEAN,
                         only: SUBSET Samples]      \* --sample-id-file, empty if none

VARIABLES
    rag,            \* the application's retrieval store
    settings,       \* data/model_settings.json of the application
    config,         \* run_config.json: the last selection, and its settings or 0
    checkpoint,     \* checkpoint.json
    copy,           \* the run's own retrieval store
    judged,         \* how often each sample has been judged well
    reported,       \* the samples with a report in the run's database
    footings,       \* the settings and documents that reports were made with
    result,         \* result.json and the scorecard: status, selection, rows with a report
    proc,           \* the invocation that runs; todo are places of Rows
    crashes

runVars == <<config, checkpoint, copy, judged, reported, footings, result, crashes>>
vars == <<rag, settings, runVars, proc>>

Ids == {Rows[n] : n \in DOMAIN Rows}
NoItems == [s \in Samples |-> "none"]
NoConfig == [selected |-> {}, signature |-> 0]
NoCopy == [exists |-> FALSE, docs |-> {}]
NoResult == [status |-> "none", ids |-> {}, evaluated |-> {}]

Resume == [next |-> TRUE, replay |-> FALSE, dry |-> FALSE, stop |-> FALSE,
           only |-> {}]
NoProc == [pc |-> "idle", options |-> Resume, settings |-> 0, previous |-> NoConfig,
           items |-> NoItems, selected |-> {}, todo |-> {}, failed |-> FALSE, row |-> 0]

Init ==
    /\ rag = Ids
    /\ settings \in Settings
    /\ config = NoConfig /\ checkpoint = NoItems /\ copy = NoCopy
    /\ judged = [s \in Samples |-> 0] /\ reported = {} /\ footings = {}
    /\ result = NoResult /\ proc = NoProc /\ crashes = 0

Ends == proc' = NoProc
At(pc) == proc.pc = pc
Goto(pc) == proc' = [proc EXCEPT !.pc = pc]

(* ------------------------------ beginning ----------------------------- *)

\* The operator saves other model settings.
ChangeSettings ==
    /\ settings' \in Settings \ {settings}
    /\ UNCHANGED <<rag, runVars, proc>>

\* The application adds a document to its store.
ChangeStore(s) ==
    /\ s \notin rag
    /\ rag' = rag \cup {s}
    /\ UNCHANGED <<settings, runVars, proc>>

\* An invocation reads the settings and the configuration of the one before it.
Begin(options) ==
    /\ At("idle")
    /\ proc' = [NoProc EXCEPT !.pc = "stage", !.options = options,
                              !.settings = settings, !.previous = config]
    /\ UNCHANGED <<rag, settings, runVars>>

\* What an invocation keeps out of a copy it makes: the ids of both files, else those
\* of all the rows.  Only the name of --isolation-sample-id-file is in the signature.
IsolatedBy(options) ==
    LET asked == Isolated \cup options.only IN IF asked = {} THEN Ids ELSE asked

\* stage_isolated_runtime_assets: a copy that is there is taken as it is; else the
\* whole store is copied, and then the isolated documents are deleted from it.
StageCopy ==
    /\ At("stage")
    /\ IF copy.exists THEN Goto("load") /\ UNCHANGED copy
       ELSE /\ Goto("exclude")
            /\ copy' = [exists |-> TRUE, docs |-> rag]
    /\ UNCHANGED <<rag, settings, config, checkpoint, judged, reported, footings, result, crashes>>

StageExclude ==
    /\ At("exclude")
    /\ Goto("load")
    /\ copy' = [copy EXCEPT !.docs = @ \ IsolatedBy(proc.options)]
    /\ UNCHANGED <<rag, settings, config, checkpoint, judged, reported, footings, result, crashes>>

\* Results of other settings must not be mixed into the run.
Compatible_Always == TRUE
Compatible == proc.previous.signature \in {0, proc.settings}

Load ==
    /\ At("load")
    /\ proc' = IF Compatible THEN [proc EXCEPT !.pc = "select", !.items = checkpoint]
               ELSE NoProc
    /\ UNCHANGED <<rag, settings, runVars>>

(* ------------------------------ selection ----------------------------- *)

\* The rows --next-unfinished leaves.
Unfinished_NotTried(s) == proc.items[s] = "none"
Unfinished(s) == proc.items[s] # "completed"

Eligible(s) ==
    /\ proc.options.only # {} => s \in proc.options.only
    /\ proc.options.replay => s \in proc.previous.selected
    /\ proc.options.next => Unfinished(s)

\* The places of the first Limit eligible rows.
Selection ==
    {n \in DOMAIN Rows :
        /\ Eligible(Rows[n])
        /\ Cardinality({m \in 1..n : Eligible(Rows[m])}) <= Limit}

\* run_config.json is written before anything is judged, also by a dry run.
Select ==
    LET selected == {Rows[n] : n \in Selection} IN
    /\ At("select")
    /\ IF proc.options.replay /\ proc.previous.selected = {}
       THEN Ends /\ UNCHANGED <<config, result>>
       ELSE /\ config' = [selected |-> selected, signature |-> proc.settings]
            /\ IF proc.options.dry
               THEN Ends /\ result' = [NoResult EXCEPT !.status = "dry"]
               ELSE /\ proc' = [proc EXCEPT !.pc = "run", !.selected = selected, !.todo = Selection]
                    /\ UNCHANGED result
    /\ UNCHANGED <<rag, settings, checkpoint, copy, judged, reported, footings, crashes>>

(* ------------------------------- samples ------------------------------ *)

Running == At("run") /\ proc.todo # {}
Turn == Min(proc.todo)
Current == Rows[Turn]

MaySkip_Never == FALSE
MaySkip == proc.items[Current] = "completed"

Skip ==
    /\ Running
    /\ MaySkip
    /\ proc' = [proc EXCEPT !.todo = @ \ {Turn}]
    /\ UNCHANGED <<rag, settings, runVars>>

\* The outcome of judge is noted in memory.
Judged_NoOutcome(outcome) ==
    /\ Running
    /\ ~MaySkip
    /\ proc' = [proc EXCEPT !.pc = "save", !.items[Current] = "completed", !.row = 0]

Judged(outcome) ==
    /\ Running
    /\ ~MaySkip
    /\ proc' = [proc EXCEPT !.pc = "save", !.items[Current] = outcome,
                            !.failed = @ \/ outcome = "failed",
                            !.row = IF outcome = "failed" THEN @ + 1 ELSE 0]

\* judge stores the report in the run's database.
Stored(s) ==
    /\ reported' = reported \cup {s}
    /\ footings' = footings \cup {<<proc.settings, copy.docs>>}

JudgeOk(s) ==
    /\ Judged("completed")
    /\ s = Current
    /\ judged' = [judged EXCEPT ![s] = @ + 1]
    /\ Stored(s)
    /\ UNCHANGED <<rag, settings, config, checkpoint, copy, result, crashes>>

\* It may raise before it stores the report, and after.
JudgeFails ==
    /\ Judged("failed")
    /\ Stored(Current) \/ UNCHANGED <<reported, footings>>
    /\ UNCHANGED <<rag, settings, config, checkpoint, copy, judged, result, crashes>>

\* The checkpoint is saved; --stop-on-error raises, and too many failures in a row
\* end the loop.
Save ==
    /\ At("save")
    /\ checkpoint' = proc.items
    /\ proc' = IF proc.options.stop /\ proc.items[Current] = "failed" THEN NoProc
               ELSE [proc EXCEPT !.todo = @ \ {Turn},
                                 !.pc = IF proc.row >= MaxRow THEN "finish" ELSE "run"]
    /\ UNCHANGED <<rag, settings, config, copy, judged, reported, footings, result, crashes>>

\* The scorecard is computed from the reports in the run's database.
Evaluated == reported \cap Ids
Status_OfLast == IF proc.row > 0 THEN "failed" ELSE "completed"
Status == IF proc.failed THEN "failed" ELSE "completed"

Finish ==
    /\ At("finish") \/ (At("run") /\ proc.todo = {})
    /\ Ends
    /\ result' = [status |-> Status, ids |-> proc.selected, evaluated |-> Evaluated]
    /\ UNCHANGED <<rag, settings, config, checkpoint, copy, judged, reported, footings, crashes>>

(* ------------------------------- crashes ------------------------------ *)

\* The process dies.  In the backup the copy is left empty; in a write the file.
Crash ==
    /\ ~At("idle")
    /\ crashes < MaxCrashes
    /\ crashes' = crashes + 1
    /\ Ends
    /\ \/ UNCHANGED <<copy, config, checkpoint>>
       \/ At("stage") /\ ~copy.exists /\ copy' = [NoCopy EXCEPT !.exists = TRUE]
          /\ UNCHANGED <<config, checkpoint>>
       \/ At("select") /\ config' = NoConfig /\ UNCHANGED <<copy, checkpoint>>
       \/ At("save") /\ checkpoint' = NoItems /\ UNCHANGED <<copy, config>>
    /\ UNCHANGED <<rag, settings, judged, reported, footings, result>>

Step == StageCopy \/ StageExclude \/ Load \/ Select \/ Skip \/ JudgeFails \/ Save \/ Finish
            \/ \E s \in Ids : JudgeOk(s)

Next == \/ Step \/ Crash \/ ChangeSettings
        \/ \E s \in Samples : ChangeStore(s)
        \/ \E options \in Options : Begin(options)

Spec == Init /\ [][Next]_vars

\* An invocation goes on, a sample that is judged again and again is judged well in
\* the end, and the operator does not give up resuming while the settings fit.
Resumable == At("idle") /\ config.signature \in {0, settings}
FairSpec ==
    /\ Spec
    /\ WF_vars(Step)
    /\ \A s \in Ids : SF_vars(JudgeOk(s))
    /\ SF_vars(Resumable /\ Begin(Resume))

(* ------------------------------ properties ---------------------------- *)

\* A sample the checkpoint calls completed has a report in the run's database:
\* --next-unfinished never skips one for which the scorecard has no row, whatever
\* was interrupted.
CompletedIsReported ==
    \A s \in Samples : checkpoint[s] = "completed" => s \in reported

\* Over all invocations of a run-id a sample is judged well once; each process that
\* died may cost it one more, as the checkpoint may be lost with it.
JudgedOnce == \A s \in Samples : judged[s] <= 1 + crashes

\* A result that says completed, of whatever options, has a report for each sample
\* of its selection in the scorecard beside it.
ResultIsTrue == result.status = "completed" => result.ids \subseteq result.evaluated

\* All reports of a run-id are made with one retrieval corpus, whatever ids its
\* invocations ask for.  Unless a process died (between the copy and the exclusion, or
\* in the write of run_config.json) the corpus has no document of a sample of the
\* run's --isolation-sample-id-file, and the settings are the same too.
OneFooting ==
    /\ \A f, g \in footings : f[2] = g[2] /\ (crashes = 0 => f[1] = g[1])
    /\ crashes = 0 => \A f \in footings : f[2] \cap Isolated = {}

\* If the operator keeps resuming, every row is completed in the end, beside any
\* other invocations, failures of samples and lost checkpoints.
RunsFinish ==
    []<>Resumable => <>[](\A s \in Ids : checkpoint[s] = "completed")
=============================================================================
