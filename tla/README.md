# MalApp: TLA+ models, checks and proofs

MalApp judges mobile applications. Samples are imported into SQLite; a judgement
pipeline of tools, models and debating agents produces a report for each of them,
background threads judge whole batches, and candidates of a model pass a governance
process before they serve. Around that core stand programs that share its files:
evaluation suites and the campaigns over them, expert review, training corpora,
holdouts, a retrieval corpus, and the training of the small models.

This directory holds TLA+ modules of the parts whose correctness depends on order,
concurrency or failure, the TLC configurations that check small instances of them,
and TLAPS proofs for instances of any size. `PROJECT.json` maps each definition to
the lines it models, names for each property a mutation of the model that the run
detects, and lists hazards and theorems. Paths are relative to the repository's
root (`malapp/` stands for `src/malapp/` and so on).

Contents: 1 inventory, 2 how the modules are built, 3 the modules, 4 the runs,
5 the proofs, 6 known deviations, 7 what is not modelled.

## 1. Inventory

| component | state it keeps | operations | what is hard | what makes it correct |
|---|---|---|---|---|
| Batch jobs: `malapp/application/batch.py`, tables of `malapp/data_import/preprocess.py` | tables `batch_jobs`, `batch_job_items`, `sample_tasks`, `batch_items`; dictionaries `JOBS`, `CONTROLS`; worker threads | start, pause, resume, retry, poll; the worker loop; recovery at start | requests against workers, check-then-act on a status, a restart between two transactions, SQLite errors | a sample settles once; counters never exceed what is finished; one worker per job; a running job settles |
| Model promotion: `malapp/governance/promotion.py`, `scripts/governance/manage.py` | registry file, lock file, gate report files | register, evaluate, shadow, approve, promote, rollback | processes sharing files, crashes inside the lock, stale lock files | mutations are atomic; one champion per component; no stage of the governance skipped; a way back |
| Governance of data sets, artifacts and releases: `malapp/governance/datasets.py`, `leakage.py`, `artifacts.py`, `release.py`, `malapp/evaluation/gates.py` | lineage, manifest, artifact, scorecard and release files | build a data set, train under clearance, register, evaluate, release, verify at the start of the server | each command reads several files that others write meanwhile | what a server runs was gated, approved, reproducible and free of leakage |
| Pipeline state machine: `malapp/orchestration/pipeline.py` | status of eight stages | start, complete, degrade, fail, skip | three paths of the driver and an exception anywhere | stages are entered in order, outcomes are final |
| Judgement and report cache: `malapp/application/judgement.py`, `preprocess.py`, `malapp/inference/settings.py` | tables `judgements`, `report_cache`; the model settings file | execute_judgement (executed, not admitted, history reused), change of settings | overlapping calls on one sample, a store in several steps | only finished, stored reports are reused |
| Engine C: `malapp/application/engine_c_admission.py`, `malapp/orchestration/debate.py`, `decision.py`, `degradation.py`, the analyzers of `judgement.py` | rounds, turns and positions of one debate; evidence blocks | admit, analyse, debate, arbitrate, decide, degrade | score scales, two threads of a debate, requests that fail or answer badly, guards that meet thresholds | the debate ends, costs are kept, a benign verdict has no witness against it |
| Agent runtime: `malapp/orchestration/runtime.py` | futures and results of one execution | execute, run_with_retries | a pool smaller than the agents, timeouts racing late answers, agents that hang | execute returns with one final result for each agent |
| Investigation: `malapp/orchestration/investigation.py`, `planner.py`, `evidence_gate.py`, `malapp/tools/`, `malapp/agents/domain.py` | plan, agent results, executed tools, gate, of one call | plan, execute, gate, recover | plan, override, fallback and recovery together decide what runs | nothing passes as benign without static analysis; the reported gate is true |
| Evaluation jobs: `malapp/evaluation/workflows.py` | a JSON file for each job, worker and child processes | start, cancel, list, worker_main | processes that rewrite one file without a lock, process liveness by pid, cancels | a completed job ran everything, a cancelled one starts nothing more |
| Evaluation runs: `scripts/evaluation/run_evaluation.py`, `malapp/evaluation/framework.py` | run_config, checkpoint, result, the run's copy of the retrieval store and database | run, resume, replay, dry run | many invocations share a directory; files written in place | resuming judges every row, counts none twice, mixes no footings |
| Campaigns: `malapp/evaluation/workflows.py`, `five_layer.py` | checkpoints and results of the runs of a suite, job files | batches of a layer, progress, experiments and readiness read back | several runs under one action, files that get lost | what the page shows is what the runs have |
| Suites: `malapp/evaluation/five_layer.py` | suite directories, `latest.json` | generate | no lock, a directory visible half written | the latest suite has the labels its sources allow |
| Expert review: `malapp/evaluation/gold_expansion.py` | state file, frozen gold set | prepare, review, adjudicate, freeze | two lock sections in one request | gold only on the word of two reviewers or a third |
| Holdout and structured corpus: `scripts/evaluation/generate_holdout.py`, `publish_holdout.py`, `five_layer.py` | staged and published extension, documents | generate, publish, build the corpus | boundaries read at one moment and used at a later one | no structured document of what evaluation reserves |
| Training corpora: `training/datasets/corpus.py` | packs | build | the same | a pack stays outside the boundary it read |
| Training pipeline: `training/pipeline.py` | training database, model and calibration files | prepare, sft, train, calibrate, all | commands that die, labels that change | nothing of an earlier training survives into a later one |
| Retrieval store: `malapp/rag/store.py`, `graph.py`, `governance/rag_snapshot.py` | documents, graph, index state | add, prune, reset, lazy rebuild | graph and documents committed apart, document by document | a rebuild leaves the graph whole |
| Data import: `malapp/data_import/excel.py`, `preprocess.py`, `scripts/data/` | `mvp.db` | uploads, single records, workbooks, engine rows, labels, enrichment, reset | one write lock of SQLite held over many rows, programs that die | what an import reported as imported is there |
| Dashboard, observability, scorecards, model inference, HTTP server, console, engine records, Hermes bridge | caches, derived rows, files | read or derive | - | section 7 |

How they interact. The server's request threads call the batch, judgement, review
and workflow operations. A batch worker calls `execute_judgement` for each sample;
that drives the pipeline state machine and calls Engine C: admission, the
investigation (which runs agents on the agent runtime), the debate, the decision
with the degradation policy. Its reports reach the `judgements` and `report_cache`
tables. A workflow job runs evaluation commands as child processes, each of which is
an invocation of an evaluation run; the campaign over a suite is what those jobs add
up to. Scorecards of evaluations are the input of the promotion commands, and a
release names a champion of the registry with the data set and artifact it was
registered with. Reviews, suites, holdouts, corpora and packs exchange samples
through files that no process owns. Shared state is the SQLite files, the settings
file, the registry file, the job and run files and the two dictionaries of
`batch.py`.

## 2. How the modules are built

Order of work, the most important behaviour first: batch jobs; promotion; pipeline
and judgement; agent runtime; evaluation jobs; investigation; Engine C; the data
between review, suites, packs, holdouts and retrieval; evaluation runs; releases;
campaigns, the training pipeline and imports.

Composition:

```
JobLedger  <-refines-  BatchJobs
ChampionRegistry  <-refines-  Promotion
ChampionRegistry, Lineage, RegressionGate  ->  Release
PipelineStages  ->  Judgement
Admission -> Decision -> Debate, Analyzers  ->  EngineC
RagStore -> DataStores -> GoldExpansion, EvalSuite, TrainingCorpus, Holdout -> DataLifecycle
AgentRuntime   EvalWorkflow   Experiment   Investigation   Campaign   TrainingPipeline   SampleImport
```

A module X comes with `MCX`, which gives its constants values. Three of them check
several modules in one run, of which each behaviour is of one: `MCRelease` has
`Promotion` beside `Release`, which share the registry; `MCInvestigation` has
`AgentRuntime` beside `Investigation`; `MCOffline` has `Campaign`, `TrainingPipeline`
and `SampleImport`. `MCDataLifecycle` has three configurations: the one for what holds,
`MCNearDuplicates` and `MCSavedOutcome` for two claims of the repository that do not.

The proofs sit in `X_proof` where they belong to one module; `Governance_proof` has those
of `ChampionRegistry`, `Promotion` and `Release`, `Investigation_proof` also those of
`AgentRuntime` and `SampleImport`, `Judgement_proof` those of `PipelineStages`,
`EngineC_proof` those of `Debate`, and `DataLifecycle_proof` those of the parts of
`DataLifecycle`, of `TrainingPipeline` and of `Campaign`.

What is left to do: the retrieval snapshot file as a third copy beside documents and
graph; two invocations of one evaluation run at a time.

## 3. Modules

### JobLedger and BatchJobs

`BatchJobs` models `batch.py`: each action is one SQLite transaction, one section
under `JOBS_LOCK`, or one decision between two of them, so that everything else
may happen between any two.

| state | in the code |
|---|---|
| `row`, `item`, `task`, `batchItem` | tables `batch_jobs`, `batch_job_items`, `sample_tasks`, `batch_items` |
| `cache`, `control` | `JOBS`, and the pause events of `CONTROLS` |
| `thr[w]` | a worker thread: its place in `_run_batch_job`, the samples of its chunk and how far each is |
| `req[h]` | a request thread: its operation, its place, the copy of the job it has read |

Requests: `Enter`, `FetchRow`, `StoreRow` (the job lookup that fills `JOBS` from
the table), `PauseSignal`/`PausePatch`, `ResumeClear`/`ResumePatch`/`ResumeLaunch`,
`StartRead`/`StartCreate`, `RetryRead`/.../`RetryLaunch`. Workers: `LoadPending`,
`CheckControl`, `PauseHere`, `ClaimChunk`, `MarkItem`/`MarkTask`/`MarkBatch`,
`Judge`, `RecordTask`/`RecordBatch`/`RecordItem`/`AppendOutcome`, `Finish`.
Environment: `Import`, an SQLite error in a worker (`WorkerDies`) or a request
(`RequestFails`), `Restart` with the recovery of `batch.py:56`, and
`RestartAndReset` which empties the queue tables.

Abstractions. A list of samples is a set, so any order of priorities is covered.
`_patch_job` changes the dictionary and then the row, in sections of their own;
they are one step, and an SQLite error leaves the first done without the second
(`PersistRaises`). Any client may call anything at any time, as the routes let it.

The code has no lock around a request, and some of what it accepts breaks what it is
made for. The history variable `client` notes when that has happened, so that a property
can name it: `"together"`, a second request about a job while one is served; `"stale"`,
such a request while the other reads the row past the memory, on its way to `JOBS`; and
`"early"`, a resume of a job that is still pausing (`batch.py:158`). No guard depends on
it. The console of `apps/web/app.js` disables its buttons in these moments but for
errors, so the properties are what its operator may count on, and the state space has
what happens otherwise.

`JobLedger` is the abstract specification: a job has samples, each of them
settles once, and the job closes when all have; it binds while the clients keep to
these manners (`binding`). `BatchJobs` is checked against
it (`KeepsLedger`) under a mapping that reads the tables and `client`. A late pause
request may reopen a closed job; that is in the ledger because it is what the
code does (section 6).

### ChampionRegistry and Promotion

`ChampionRegistry` has the registry as one value and the six commands as
`Permits` and `Mutate` on it, one atomic step for each command. `Promotion` has
the processes that run the commands: write the gate report to a temporary file,
replace the report, take the lock file (`O_EXCL`), load, mutate, write, release;
with a timeout while waiting and a crash anywhere. A gate report is its verdict;
the history keeps the promotions, which is all that the commands read of it.
An operator who removes a stale lock file by hand is not modelled.

### Lineage, RegressionGate and Release

`Lineage` has the rows of a data set (tier, partition and group settled from the
source records), and the leakage audit over them; `RegressionGate` the checks of a
scorecard against a baseline under the default policy. Both are operators.
`Release` has the commands that rely on them, each as the sequence of its reads,
checks and writes: building a data set (`BuildStart` .. `BuildManifest`), training
under its clearance (`TrainStart` .. `TrainWrite`), registration, evaluation,
release (`ReleaseStart` .. `ReleaseWrite`), and the verification at the start of the
server (`ServerStart`). `registry` is that of `ChampionRegistry`, which `Promotion`
implements under the lock, so shadow, approval, promotion and rollback are one step
(`Decide`). `WriteData` and `WriteCard` are the data and scorecard files that others
write at any moment. A digest is what it is the digest of. An artifact may declare
no data set, which registration accepts (`RegisterCheck`).

### PipelineStages and Judgement

`PipelineStages` is the state machine for any number of stages and any caller.
`Judgement` has `execute_judgement` as concurrent calls that drive an instance of
it: `Begin`, `Normalize`, `EnterStage`/`LeaveStage` for the six stages that
compute, `Lookup`/`Md5Lookup` of the cache, `SkipStage` and `Reuse` for a hit,
`SkipInsert`/`SkipTrace` when Engine C is not admitted, `Build`, `Insert`, `Close`,
`FinalInsert`, `SetCache` for an executed one; an exception where the code has a
handler ends the stage as failed, elsewhere (`Raise`) leaves the stages as they
are. `ChangeSettings` is the settings request, `Expire` the age of a cache row.
A report keeps the call that made it, its content, whether Engine C ran, the
signature, the models that were called, whether all stages are terminal in its
snapshot, and the call it copies. The report's id digests content and the
executed flag only. The md5 lookup is always on. What `cached_report_usable` compares
beyond that (mode, versions, the analyses a report holds) may turn out either way at each
lookup (`fits`).

### Admission, Analyzers, Debate, Decision and EngineC

`EngineC` follows one sample from what the two upstream engines sent to its verdict.

* `Admission`: the readings of raw scores and labels, the fields that are derived or
  missing, which samples are judged, and the consensus verdict of those that are not.
* `Analyzers`: the four analyzers as operators over the logical fields a sample has,
  with the values they tell apart, and what becomes of a block whose tools or run
  failed (`Evidence`).
* `Debate`: the stages as steps of the caller (`Begin`, `ToAttack`, `ToRebuttal`,
  `ToClosing`, `Conclude`, `Fails`), each of which submits the turns of two models to
  a pool. A turn asks a provider and walks the ladder of payload variants, transport
  tries and the compact retry (`Start`, `Answer`, `Refused`, `Unreachable`,
  `Disconnected`, `Broken`) and then repairs, completes or replaces what came back
  (`Digest`). An answer is a kind, a score and a confidence. The module ends with the
  arbiter's numbers (`RawScore`, `Calibrated`, `DebateConfidence`).
* `Decision`: the dynamic weights, the weighted score, the guarded verdict and the
  degradation policy.

Numbers are hundredths and products are rounded down. The parameters and calibration
are read again by each consumer, so each may see other ones.

### AgentRuntime

`execute` as the submitting and polling caller, the pool's workers, and `Elapse`
for the time. `run_with_retries` is `Work`, `Retry`, `GiveUp`, `Complete`. The
pool's futures are the standard library's: a cancel succeeds only in the queue.
The order of the registry is any order.

### Investigation

One call of `run_investigation` with the degradation policy of the final decision.
The surroundings choose the switches, the signals of the sample, the plan it may
carry, the overrides and how each agent ends; the module has the three planner
modes with the validation of a carried plan and its fallback (`MakePlan`), the
placeholders for agents that do not run (`Execute`), the gate, one recovery with
its new plan (`Recover`), and the gate again. A result is its status and whether
fields are missing.

### EvalWorkflow

A job is a file that requests (`Start`, `Cancel`, `List`) and the worker process
read, change and replace as a whole. `Judge` is the correction of one job by
`load_jobs`: the liveness check of its processes and the write. The worker goes
through `worker_main`, the commands are child processes. `platform` selects how a
cancel kills (`taskkill` on the tree, or SIGTERM to `worker_pid`) and whether an
ended worker stays a zombie which `os.kill(pid, 0)` finds alive, until the server
starts another process (`Reap`) or restarts. `load_jobs` reads all the files in
one step; the fallback of `read_json` for a file it cannot read is left out.

### Experiment

One run-id of `cmd_run` and the invocations that share its directory: the staging of
the retrieval store and the removal of the samples under evaluation (`StageCopy`,
`StageExclude`; what is removed depends on the options of the invocation that makes the
copy, `IsolatedBy`), the compatibility check (`Compatible`), the selection under the
options, then for each sample `Skip`, or `JudgeOk`/`JudgeFails` and `Save`, then
`Finish`. A judgement that fails may have stored its report before, as
`execute_judgement` stores one twice. Of the store and its copy, only the samples that
documents name are kept. A process dies anywhere (`Crash`); what it was writing in place is then read
as empty. `ChangeSettings` and `ChangeStore` are the application's.

### Campaign

The runs of a suite, as their checkpoint, result, last selection and reports, and the
jobs that work off its layers: `Start` takes the next batch, `Launch`, `Judge`,
`Checkpoint`, `Publish` are its commands, `Stopped` a failure, kill or cancel, and
`LoseIndex` the loss of the job files. A batch is a set of rows, of which `Tried` is the
first in the order of the suite's file. The read model is operators over that state:
`Progress`, `Recovered` and `Listed` commands, `ExperimentOf`, `Layers`.

### DataStores, GoldExpansion, EvalSuite, TrainingCorpus, Holdout, RagStore, DataLifecycle

`DataStores` declares the stores that exchange samples. `GoldExpansion` has the review
(each action is one section under `GOLD_EXPANSION_LOCK`; a review is two, `SaveReview`
and `Refill`). `EvalSuite` has the generation of a suite as its sequence of files
(`GenRead` .. `GenPublish`), without a lock and with a failure anywhere. `TrainingCorpus`
reads its boundary in one step and writes the pack in a later one; the order within a
selection is left open. `Holdout` has the generation and publication of the strict
extension and the build of the structured corpus (`RagRead`, `RagPrune`, `RagAdd`,
`RagIndex`, `RagEnd`, `RagRebuild`). `RagStore` has the document table, the graph and its
index rows, in the transactions that SQLite makes of the code: `init_graph_db` runs
`executescript`, which commits what is pending, so a document is committed (`Insert`)
before its facts (`Index`), and a rebuild commits the deletion of the index rows
(`RebuildBegin`) and then one document after the other (`RebuildDoc`). While a rebuild
reads its documents nobody else can commit (`Quiet`). A document is its kind and the
sample it names: `structured` ones are written and pruned by the corpus build, `case` ones
are what `build_index.py` makes of judgements and manual labels (`IndexBuild`) and nothing
prunes. A document that is indexed again with other content leaves the facts of the
old content; the model keeps one fact a document, and one case document a sample. `DataLifecycle` composes them: `cast` says which
processes of a behaviour run together, and on which samples.

A sample is its reference label, its label by hand (which hides the other one, and may be
neither malicious nor benign, so that the sample has no record in the training
corpora), its near-duplicate group and its place in the stable hash orders. Record formats, audits, baselines and the validation report (which does not
stop a publication) are left out.

### TrainingPipeline

The stages `prepare`, `sft`, `train`, `calibrate` and `all` as commands over the tables and
model files: `ImportLabels`, `BuildUnified`, `FreezePart`/`FreezeAll`, `TrainNext`,
`CalibrateNext`, `Finish`. A model is what it was fitted to. Workbooks change between
commands (`NewWorkbooks`), a command dies (`Die`), a JSON file is torn (`Unreadable`).

### SampleImport

Programs over `mvp.db`: requests, each record of which is a transaction, and scripts that
hold SQLite's only write lock over many rows (`holder`, and `draft`, the tables as that
transaction sees them). `Serve`, `LoadRow`, `EndSheet`, `Close`, `Reset` and `Killed` write;
`reported` collects what the programs that ended said they had imported. Field values
are what `load_feature_context` merges again.

## 4. Runs

| run | module, configuration | instance | properties |
|---|---|---|---|
| `batch_serial` | MCBatchJobs, Serial | 1 job, 2 samples in chunks of 1, 2 thread slots, 1 request at a time of any kind, 3 in all, 1 restart, 1 SQLite error, fair | `OneWorker`, `ProgressNeverOverstated`, `KeepsLedger`, `JobSettles` |
| `batch_concurrent` | MCBatchJobs, Concurrent | 2 jobs, 2 samples, 2 threads, 2 requests at once of any kind, 3 in all, 1 restart | `CacheCoherent`, `RunningIsWorked`, `ProgressNeverLost` |
| `release` | MCRelease | 2 candidates, 1 component. Registry commands: 2 processes, 3 commands, 1 crash, from 3 registries. Governance commands: 2 processes, up to 5 commands, 2 writes of data or scorecards, 3 scenes (empty, serving, ready to promote) | `OneChampion`, `NothingSkipped`, `RollbackTargetKept`, `NoLostUpdate`, `Atomically`, `ServedIsGoverned` |
| `judgement` | MCJudgement | 3 calls on 1 content, 2 models, 1 fault (error, crash or degraded stage), 1 change of settings, 1 expiry | `CompletePass`, `CachedIsFinished` |
| `engine_c` | MCEngineC | 10 samples, 6 settings, 2 faults, 3 sets of parameters, 2 calibrations, every ending of the agents | `CostKept`, `RulesOnlyComplete`, `NoSilentBenign`, `DebateEnds` |
| `investigation` | MCInvestigation | 4 agents, 5 tools, all switches, signals and endings, carried plans that are accepted, refused, narrow or borrow another agent's tool, 3 overrides; and 4 agents, one disabled, 2 workers, 1 retry, fair | `BenignNeedsStatic`, `GateIsTrue`, `Accounted`, `ExecuteReturns` |
| `eval_workflow` | MCEvalWorkflow | 2 jobs of one command, both platforms, 3 requests of 1 operator, 1 list beside them, 1 fault | `CompletedRanAll`, `OneExperimentOnNt`, `CancelStops` |
| `experiment` | MCExperiment | 3 rows and an outside sample, 2 rows an invocation, 3 combinations of options, 2 settings, 1 crash, fair | `CompletedIsReported`, `JudgedOnce`, `ResultIsTrue`, `OneFooting`, `RunsFinish` |
| `data_lifecycle` | MCDataLifecycle | 5 samples (1 of the validation set, 2 near duplicates), 3 reviewers, 2 generators, 6 casts of processes | `GoldIsReviewed`, `RefillKeepsTargetReachable`, `PackKeepsBoundary`, `BarredIsGone`, `GraphIsComplete` |
| `offline` | MCOffline | 7 suites of 1 or 2 rows with 2 faults; 4 samples under 3 sets of workbooks with 1 death; 4 casts of importers on 2 samples with 1 death | `CardIsTrue`, `CalibrationMatches`, `AllStartsAfresh`, `ImportedIsKept` |
| `near_duplicates` | MCDataLifecycle, MCNearDuplicates | a held out sample labelled suspicious by hand, beside a near duplicate of it | `NearDuplicatesExcluded` is violated |
| `saved_outcome` | MCDataLifecycle, MCSavedOutcome | a validation sample that is judged, a corpus build and build_index | `NoSavedOutcome` is violated |

What they show:

* `batch_serial`: over an error and a restart anywhere a job that is run long enough
  settles (`JobSettles`); and unless a client resumes a job that is still pausing, no two
  threads run one job (`OneWorker`), persisted counters never exceed the finished items
  (`ProgressNeverOverstated`), and the tables keep the ledger (`KeepsLedger`). The run has
  that resume, and what comes of it: a second thread.
* `batch_concurrent`: with two unrestricted requests at once, and a restart that empties
  `JOBS` so that requests read rows back, what `JOBS` answers is what the table holds
  (`CacheCoherent`), persisted counters never go back (`ProgressNeverLost`), and a job that
  says running has a thread (`RunningIsWorked`). The first two except one case by name:
  a row read while another request is at work on the job is stored late.
* `release`: the registry file moves one permitted mutation at a time (`Atomically`,
  `NoLostUpdate`), and the registry's promises hold of it (`OneChampion`,
  `NothingSkipped`, `RollbackTargetKept`), with crashes and behind a stale lock. And
  (`ServedIsGoverned`) a server runs only a release whose champion was gated, shadowed and
  approved, whose scorecard passes the gate as it is referred to, whose data set keeps
  training and test apart and is the one the champion was cleared with, and which names
  what a rollback restores: whatever data or scorecard was written between the reads of
  the commands that led there.
* `judgement`: no call trips over the state machine and one that answers made a
  complete pass (`CompletePass`); the cache holds only finished reports
  (`CachedIsFinished`).
* `engine_c`: a turn whose text came from a model, or was replaced for its text,
  reports the requests that were sent for it (`CostKept`); with the fallback disabled no
  position is the rules' for want of a reply, a reply whose score can be read has its own
  score and confidence, and the rule's score stands only in place of one that the reply
  lacked (`RulesOnlyComplete`); a benign verdict that nobody
  reviews has neither XGBoost, nor the arbiter, nor the signature, nor a complete strong
  agent, nor a failed static analysis against it (`NoSilentBenign`); every debate that
  begins ends (`DebateEnds`).
* `investigation`: no benign verdict without static analysis (`BenignNeedsStatic`), the
  gate in the report is true of the results in it (`GateIsTrue`). Of the runtime that runs
  the agents: each result is the thread's or a timeout that was due (`Accounted`), and
  `execute` returns even when every agent hangs (`ExecuteReturns`).
* `eval_workflow`: a completed job ran everything (`CompletedRanAll`), a cancelled one
  starts nothing more (`CancelStops`), and on Windows the commands of two jobs never
  overlap (`OneExperimentOnNt`).
* `experiment`: what the checkpoint calls completed has a report (`CompletedIsReported`);
  a sample is judged once, and once more for each process that died (`JudgedOnce`); a
  completed result has a row for its whole selection (`ResultIsTrue`); all reports of a
  run-id, those of failed judgements too, are made with one corpus, and without a crash
  with one set of settings and no document of a sample of the run's
  `--isolation-sample-id-file` (`OneFooting`); who keeps resuming gets every
  row (`RunsFinish`).
* `data_lifecycle`: a label outside the validation set is gold only on the word of two
  distinct reviewers or of a third between them (`GoldIsReviewed`); after a request the
  target is within reach, or there is no candidate (`RefillKeepsTargetReachable`); a pack
  shares no sample with its calibration set or with what was on review or strictly held
  out when it began, and no near duplicate of one of these that has a labelled record
  (`PackKeepsBoundary`); between two corpus builds retrieval has no structured document,
  nor the graph a fact of one, of a sample that the first one barred (`BarredIsGone`); a
  rebuild that gets to its end leaves the graph with the facts of every document, though
  documents are committed before their facts and writers and rebuilds die halfway
  (`GraphIsComplete`).
* `near_duplicates`, `saved_outcome`: two claims of the repository, wider than what the
  code does. The manifest and README of a pack say that near duplicates of all frozen
  samples are excluded (`corpus.py:1140`, `corpus.py:1155`), but the groups are taken from
  labelled records only (`corpus.py:941-947`). `build_structured_rag_corpus` says that
  retrieval cannot look up the saved outcome of an evaluation item
  (`five_layer.py:876-882`), but it prunes its own kind of document only
  (`five_layer.py:947-965`).
* `offline`: the progress shown of a layer is what its runs have while no checkpoint was
  lost, and a layer that is shown ready has a report in each of its runs (`CardIsTrue`);
  a finished calibration belongs to the model beside it and the rows of now
  (`CalibrationMatches`); a finished `all` has nothing left of earlier labels, samples or
  commands that died (`AllStartsAfresh`); what an import said it imported is there, under
  any interleaving with other importers and the reset (`ImportedIsKept`).

Bounds. `MaxRequests`, `MaxRestarts`, `MaxFaults`, `MaxCommands`, `MaxReads`, `MaxWrites`,
`MaxCrashes`, `MaxDeaths`, `MaxSettings`, `MaxExpiry`, `MaxOperators`, `MaxLists`,
`MaxReviews`, and the `suites` of a cast bound the environment; the programs themselves
are not bounded, but for the few rows that their inputs have. Two processes or threads are
enough for the races, since each one involves one shared row or file; two samples in
chunks of one give a thread a second chunk, and in `batch_concurrent` one chunk of two;
three rows with two an invocation give a second invocation; three calls allow a report to be reused after it was reused; three requests
reach start, pause, resume or start, cancel, start; five commands reach from a data set
to a release, or from an approved successor to the second release; the starting
registries and scenes shorten the command sequences, one for each phase of a candidate's
life. Four reviews are two that agree on one sample, or two that differ and a third, with
one left on another. The samples of `engine_c` are one for each way through admission
(production or not, forced, consensus, unscored, a score on either scale) and one for
each kind of evidence (quiet, loud, mixed, packed, unsigned); its settings have one pool
thread and two, one round and two, each shortened mode, the fallback on and off, and a
clash of identities. The casts of `data_lifecycle` and `offline` put together the
processes that share a store; those that share none need no interleaving. One fault at
any point reaches each crash and error hazard; two independent faults are covered by the
proofs where there are some. `judgement` has one content of a sample because three calls
with two contents are too many states; the cache theorems below hold for any number of
contents. Symmetry is used only in runs without liveness properties, and over sets whose
members no definition tells apart. Deadlock is not checked where these systems may stop:
all requests are spent, a call has ended, or an operator does nothing.

Fairness. `BatchJobs!FairSpec`: request and worker threads are scheduled, and the
calls that judge a sample return, since model calls and agents carry timeouts.
`AgentRuntime!FairSpec`, repeated in `AgentsSpec`: the caller's thread runs
and time passes; nothing is assumed of workers and agents. `EngineC!EngineSpec`: the
stages and turns of a debate go on, since requests have timeouts. `Experiment!FairSpec`:
an invocation goes on; a sample that is judged again and again succeeds at some time
(strong fairness of `JudgeOk`), and the operator resumes while rows are left (strong
fairness of `Begin`), which is the hypothesis of `RunsFinish` about the people, not
about the program. The other runs check safety only and assume no fairness.

## 5. Proofs

All proofs hold for any values of the constants that satisfy the named
assumption of the module: any numbers of samples, jobs, threads, processes,
candidates, calls, contents, models, agents, retries, tools, reviewers or
generators, any casts and any bounds. A theorem with a hypothesis of its own says
so below, and why it cannot do without. The invariants were checked by TLC on the
instances of section 4 before they were proved.

* `BatchJobs_proof`. `TypeCorrect`: the type is inductive because it says what
  belongs to each place: a thread or request at a statement has the job and the
  sample that statement uses (`WiredThread`, `WiredRequest`). On it rest
  `Registered` (what is in memory is in the table; a retry's rows are its own until the
  job exists) and six results. No theorem restricts what the clients do; those that need
  their manners say so in the property.
  - `RunningJobsAreWorked`: without an SQLite error a job whose row says running has a
    thread, or a request about to launch one, across restarts and for any clients.
  - `MemoryIsTheTable`: over any restarts that empty the memory and any requests that read
    their rows back, a record in memory is its row. `Reads` says why a row may be read
    outside the lock: without a `"stale"` request nobody else changes the job between the
    read and the store, for the reader is alone with it and no thread works on it.
  - `CountersNeverGoBack`, from `Ahead`: a record in memory is never behind its row, except
    after a `"stale"` read.
  - `OneThreadPerJob`, `ProgressIsHonest` and the refinement `TablesKeepTheLedger`, for any
    number of requests and over any number of errors and restarts, as long as `client` is
    empty, which is the hypothesis the properties and the ledger carry: the tables implement
    `JobLedger`, step by step. `Sole` says that
    a job which is being resumed has no thread; `Work` what a thread still owes: a sample
    without an outcome is in exactly one of its queue, chunk, hand and pool; `Progress`
    that a thread about to count has a finished sample which is not counted yet.
* `Governance_proof`.
  - The registry: `Governance`, over every sequence of commands one champion per
    component and no status whose gate, shadow run or approval is missing; the invariant
    adds that a candidate with a status has a component (`Assigned`). `WayBack`, a
    rollback target is kept: each promotion in the history names candidates that have
    served for the same component (`HistorySound`), which no command undoes.
  - The processes on its file: at most one is between acquire and release, which holds
    the lock file, and its copy is the registry once loaded (`LockInv`). From it
    `NothingLost`, `AtomicMutations`, and `ImplementsRegistry`: from an empty file the
    processes implement `ChampionRegistry`. Hence `FileIsGoverned`.
  - The releases: `ServedGoverned`, what a server runs was gated, shadowed and approved,
    on a scorecard that passes and a data set that is the one it was cleared with, for
    any writes between the reads of a command. The registry moves on between those reads
    and the release, so the invariant says what a release has seen as facts of the
    history (`Snapshot`), which hold for ever because a candidate is promoted at most once.
    The lemma `AuditSeparates` shows that the leakage audit implies the
    separation that the property states. The hypothesis is that behaviours begin in
    projects without candidates (`Unused`), as every project did: the later scenes of the run
    only shorten its way. `CommandsUseRegistry` says that all of it is a behaviour of
    `ChampionRegistry`.
* `Judgement_proof`: `CacheFinished` and `CacheStored` (every cached report has a row).
  The invariant relates where a call is to what it has done: past the first insert
  there is a row of its report, before `SetCache` all its stages have ended, the cached
  report's call is done; rows are replaced but never removed. `PassIsComplete`: the driver
  never trips over the state machine and a call that answers has ended all eight stages
  without a failure; `Passing` says which stages are over and which is open at each place of
  a call, on each of its three paths. `PrefixOfStages` and `OutcomesStand` are about
  `PipelineStages` alone, with any number of stages and any caller.
* `Experiment_proof`: `Reported`, `CountsOnce`, `ResultHolds`, `OneCorpus`, all the safety
  of an evaluation run, for any rows, suites, options and crashes. `Books`: memory and
  checkpoint differ only in the sample that is about to be saved. `Noted`: what either
  calls completed has a report. `Counted`: judgements beyond the recorded one are paid for
  by crashes. `Ahead`: while nothing failed, a selected sample has a report or is still in
  front of the invocation. `Ground`: who passed the compatibility check writes under the
  settings on record, over the copy of the retrieval store that all reports were made with.
* `EvalWorkflow_proof`. `CompletedMeansRun` holds of any requests, crashes and restarts. A
  job file is written back by whoever has read it, so no status in it says what runs;
  but that a worker has come to its end (`Stopped`, `Done`) cannot be undone, hence a copy
  that says so may be as old as it likes (`Told`, `LastWord`). `CancelledStops`,
  `OneWorkerLives` and `OneCommandRuns` assume `Serial`, one start or cancel at a time
  with any lists beside them, and no restart of the server (their properties say so).
  With two operators a cancel can read a file whose worker has no pid in it yet and kill
  nobody, and two starts can both find no active job: the code takes no lock.
* `EngineC_proof`. `CostsAreKept`: on the way to the end of a turn the requests sent are
  those that its result has merged and those of the current generation, on every rung of
  the ladder (`TurnsInv`). `RulesOnlyCompleteReplies`: with the fallback disabled every position
  has its backend, the kind of the reply it was read from, and that reply's score or, if
  it had none, the rule's. `NoBenignInSilence`: the blocks, the arbiter's verdict and the
  guards of the decision, followed from the agents' endings to the verdict (`CaseInv`, and
  the lemma `BenignHasNoWitness` on the weighted and degraded decision). It assumes that each
  analyzer returns a block (in `EngineCAssumption`, evaluated by TLC): the scores of
  `Analyze` are sums over sets of findings, and that a fold yields a number is an
  induction over data.
* `Investigation_proof`: `StaticIsMandatory`. The policy excuses a skipped agent,
  so the invariant must say that static analysis is never skipped, and before
  the agents run that every plan includes or overrides it. `GateReported` uses
  that the gate of the decision was evaluated on the present results;
  `ToolsStayScoped` is the type, which says that no plan or recovery gives an
  agent a tool that is not registered for it; `ResultsAreKept` is the action
  property of the recovery: it takes away no completed result but of the agents it
  runs again for tools. The agents' runtime is in the same module:
  `EveryAgentAccounted`, `ResultsStand`, `NothingStartsLate`. Its invariant follows one
  agent (`Life`): in the dict of futures its result is open, outside it the result says
  what became of the future. `QueueInv` says that an agent is in the pool's queue once and
  only while it is queued or cancelled; without it a worker could start an agent again.
* In the same module, the imports. `ImportsStay`: what a program reported as imported is in
  the tables until a reset. `Books` says it of the tables and of the draft of whoever holds
  the write lock, and of what a running program may yet report (`Told`): rows of a
  transaction still open are in its draft only, and the lock keeps everyone else from
  writing the tables that this draft was begun from. Each way to write keeps what
  stood. It assumes of the plans (`ImportAssumption`, evaluated by TLC) that their rows name
  a sample or none, that a sheet has a label or a detection in each row kept of it, and that
  engine sheets are of one of the two engines.
* `DataLifecycle_proof`: `TypeCorrect`, four invariants and an action property of the
  composition. `GoldReviewed`: a gold label reaches the latest suite through three copies
  taken at different moments (the frozen set, what a generator has read, the file in its
  directory), so `GoldInv` says the same of each of them, and of every item what its
  status promises (`ItemSound`): only items that back no label are still open to change,
  hence no later review takes back what a copy relies on. `PacksKeepBoundary` needs that
  a build reserves at least what its pack is compared with, although that has moved on
  by the time the pack is written; nothing is assumed of the labels by hand. `BarredStaysGone` and
  `GraphWhole` rest on `RagInv`: what a corpus build has still to add, or has stored and
  not indexed, is not barred; facts name stored documents unless there are resets; an
  index row never lacks its facts; and while a rebuild works, a document without an index
  row is still in its list. It holds between any two transactions, with writers and
  rebuilds that die there.
  `TargetsReached` is about `Prepare` and `Refill`: they choose the first candidates of an
  order until the target is within reach, and the lemmas `FirstEnough` and `ChosenEnough`
  count that they are enough or all there are.
* In the same module, the training pipeline. `CalibrationsMatch`: `FilesKept` and
  `Calibrated` relate the calibration files that a command has written so far to the models
  beside them. `EveryModelIsOfNow`: within an `all` that reaches its end, the labels
  (`ImportedSoFar`), the unified table (`UnifiedOfNow`), the blocks and the models
  (`BlocksOfNow`, `ModelsOfNow`) are those of now up to the stage the command has
  reached, whatever earlier commands left behind.
* There too, the campaigns. `CardHolds` (`CardIsTrue`): a card counts the least of its
  variants, which is what all of them have only if they are nested. `Nested` holds because
  a variant with a failed sample ends the job, so that the job that runs has its batch
  behind it in the variants before its command (`BatchOfJob`, `BatchOfCommand`); that a
  command without a failure has tried its whole batch is a count (`Counted`, `Told`), for
  its result says only how many. A replay picks the whole batch of its run
  (`BatchOfReplay`). All of this holds until a checkpoint is lost. Readiness does not need
  it: `FilesReported` and `CommandReported` say of the files that what they call completed
  has a report, whichever of them get lost. It assumes (`CampaignAssumption`) that a suite
  has finitely many samples and that its rows are different samples, as the generators
  write them.

Only model-checked. Liveness (`JobSettles`, `ExecuteReturns`, `DebateEnds`, `RunsFinish`) is
beyond the prover. Every other property of section 4 is the statement of a theorem, under
the hypotheses given here. Nothing depends on a recursively defined operator.

## 6. Known deviations

Behaviour of the code that the models have, that a document, comment or name of the
repository says otherwise of, or that a reader would not expect. No run claims the
contrary; where a property would fail because of one, its statement names the exception.

Batch jobs. `pause_batch_judgement` checks the status and patches "pausing" later: a job
that completes in between stays pausing. A resume is accepted while the job is pausing, and
a second thread then judges and counts its samples again (`batch.py:158`). A row that is
read past the memory is stored over the newer record of a request that came between
(`batch.py:171-180`). An item is completed in one transaction and
counted in another: a restart in between completes the job one sample short.

Judgement. The signature and the cache key read the settings after the models ran
(`judgement.py:1852`): a change in between files the report under the wrong model. An
expired cache row is still found by its exact content. After an error between the two
inserts the stored report keeps a started PERSIST stage.

Engine C. The compact retry cuts the evidence of an initial testimony
(`user_prompt[:1800]`), which
`docs/architecture/business-semantic-alignment.md:33` excludes. A consensus of
two engines may be relabelled by the output thresholds (`engine_c_admission.py:177`). The
score of a turn is read once more from the raw text after it was coerced or recovered, and
may be lost to the fallback's (`debate.py:2564`). Prose or `{}` is
recorded with backend "model" and the fallback's score even with
`MALAPP_DISABLE_LLM_RULE_FALLBACK=1`, although `docs/architecture/runtime-flow.md:74` says
that a production profile forbids rule output posing as model reasoning
("生产 Profile 禁止用规则输出伪装大模型推理"); an exception in a repair returns the fallback with
`request_count` 0; a closing that is skipped keeps its request count; references to
evidence are validated for initial testimonies only. `compact_evidence_for_llm` drops
`status`, so the exclusion of insufficient and degraded blocks at `debate.py:431-435` never
applies. A completed block with any missing field has confidence 0, and one whose tool
failed keeps its confidence, although `business-semantic-alignment.md:44` asks for 0. The
parameters file is written in place and read, changed and written without a lock. The idle
re-plan under `MALAPP_ORCHESTRATION_MODE=v1_planner` contradicts `docs/evaluation/plan.md:516`.

Investigation. A recovery may replace a completed result by a failure of the same agent,
and with tools suggested it looks at no other agent.

Evaluation jobs and campaigns. On POSIX a cancel kills the worker alone; its command goes
on beside that of the next job, and a zombie worker is taken for alive. A server that dies
between writing a queued job and starting its worker leaves the job queued. A batch is the
first eligible rows, so rows that always fail starve later ones. A layer's experiment
counts as completed after one batch (`docs/evaluation/five-layer-guide.md:85` expects the
whole), and from its run files even when its latest job failed. The two commands of production_reliability
share a run directory, so the replay counts as completed before it ran. Variants may be
scored on different sets of samples. Recovered jobs omit the debate and XGBoost ablations.

Evaluation runs. A crash in the copy of the retrieval store leaves an empty one that is
reused for ever, a crash before the exclusion one with all documents (the help text at
`run_evaluation.py:1021` says otherwise). Without `--isolation-sample-id-file` the excluded
samples are not part of the compatibility signature; nor is `--sample-id-file`, though the
copy of the store is made without what the first invocation asks for. Torn files are read as empty. The
selection is overwritten by a dry run. Two invocations at a time lose checkpoint entries.

Review, suites, packs. Frozen rows say `training_overlap: False`, which a freeze does not
check again. A generation that began earlier may publish later, and the suite then lacks
what a freeze added since (`five_layer.py:2573`). `latest.json` is written even when validation did not pass. A half written
suite directory is the newest one, and a pack built then takes it for its boundary while its
manifest says `hard_reserved_ids_excluded` (`corpus.py:131`, `corpus.py:1139`). Near
duplicates of a reserved sample without a labelled record are trained on (run
`near_duplicates`). The corpus
of retrieval bars the validation set and the fresh candidates but not the strict and gold
samples (`five_layer.py:876-882`). Training identifiers are not collected from packs. Two
unpublished holdouts of one salt overlap; a publication with the same count replaces the
earlier extension. A refill after a review uses the target read before it, so it reverts
one that was set meanwhile, and it raises after the review was saved when the gold set has
outgrown the target.

Retrieval. The saved cases of evaluation samples stay in the store, or come back to it (run
`saved_outcome`). After `build_index --reset` the graph keeps facts without a document, which a
prune without stale documents does not delete. The document is committed before the
snapshot file is removed (`store.py:99`), a snapshot's digest is taken over four reads, and
a prune does not invalidate it.

Governance. A process that is killed with the lock leaves it for good, and every later
command fails until someone removes the file (`promotion.py:409`). An evaluation gates the scorecard it has loaded and references the bytes found
under the lock; verification at the start of the server catches a release of other bytes.
Verification does not look at the registry. `require_training_clearance` passes no
reserved identifiers, so the check of frozen evaluation ids runs only in the
`leakage-audit` command, although `docs/governance/training-promotion-release.md` says
that training runs the audit again. A data set's version is not bound to its content. Tolerances of the gate
add up over promotions. The runtime loads the model directory lazily, apart from the
release. Concurrent builders share the names of temporary files.

Training pipeline. `train` after `prepare` without `sft` fits to old labels and splits; the
constant model is a mean over all splits; a command that died leaves models of different
trainings until `train` or `all` is run again; `calibrate` fails on a torn model file.

Imports. The oldest import's field values win while the static package is the newest's.
`save_manual_label` never commits and is never called. A sample imported while it is
judged is completed with the old features. A failed enrichment is not retried by default.
A reset that meets an importer's lock stops halfway. A pull with a record that fails leaves
its batch with a total of 0. The bloom filter file is never consulted.

## 7. What is not modelled

`PROJECT.json` lists each component with its reason. In short: prompts, the wording of
findings, similarity and indicator extraction, metrics, scorecards and trajectories,
layout, the fit of a model and the ranking of documents are computations over one value
with no state between calls. The dashboard is a cache of five seconds over reads;
observability derives rows from one report; inference calls a model under the settings
that `Judgement` has; the server routes a request to one operation; the bridge is a
client; `training/datasets/build.py` and `training/sft/train.py` are single offline
programs. Not modelled within modelled
components: the documents of `build_index.py` that name no sample, the retrieval snapshot
file, a release's runtime snapshot, image digest and
search for secrets, two invocations of one evaluation run at a time, the row filters before
its selection, the registry of field names of imports, and commands that are killed
after too many failures in a row.

Files that the code replaces (registry, gate reports, job files) are written in one step;
those written in place may be torn where a crash is modelled (evaluation runs, training),
and the settings and parameter files are taken as written whole. Clocks are not modelled
but for timeouts and expiry as events.
