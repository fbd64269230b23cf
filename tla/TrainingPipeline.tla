-------------------------- MODULE TrainingPipeline --------------------------
(***************************************************************************)
(* The training pipeline (training/pipeline.py): label workbooks become    *)
(* labels and unified samples in training_dataset.db, those the agents'    *)
(* evidence blocks, those the models, and the validation rows calibrate    *)
(* the models.  Each stage is a command; "all" runs them one after the     *)
(* other.  A command may die anywhere: SQLite keeps what was committed, a  *)
(* JSON file that was being written is torn.                               *)
(*                                                                         *)
(* A model is what it was fitted to.  One command runs at a time.  The     *)
(* engines' features and the groups that follow from them are constant;    *)
(* reports and the JSONL copies of the evidence are left out.              *)
(***************************************************************************)
EXTENDS Integers, FiniteSets, Sequences, SequencesExt

CONSTANTS
    Apps,           \* MD5s in the workbooks and in the engines' tables
    Agents,         \* AGENTS
    Workbooks,      \* what the raw directories may hold, one after another
    SplitOf,        \* stable_split of the group of each sample
    ManualMinimum,  \* the labelled conflicts that an arbiter of its own takes
    MaxDeaths       \* a bound

ASSUME PipelineAssumption ==
    /\ IsFiniteSet(Agents) /\ Agents \cap {"fusion", "wec", "arbiter"} = {}
    /\ SplitOf \in [Apps -> {"train", "val", "test"}]
    /\ ManualMinimum \in Nat /\ MaxDeaths \in Nat

VARIABLES
    raw,            \* the workbooks of now
    labels,         \* table labels: source |-> sample |-> label
    unified,        \* table unified_samples: sample |-> label and its source
    blocks,         \* table evidence_blocks: sample |-> label
    models,         \* models/<name>.json: what it was fitted to
    fits,           \* models/<name>_calibration.json: model and rows it is of
    stage,          \* the command that runs: stage, step, "all" or alone
    deaths

tables == <<labels, unified, blocks>>
trainVars == <<raw, tables, models, fits, stage, deaths>>

\* Sources in the order of their priority, and their samples' labels; a row of the
\* conflict workbook may be without one.
Sources == <<"known_malicious", "known_white", "manual_conflict">>
NotListed == "absent"
Unlabelled == "unlabelled"
NoLabels == [s \in Apps |-> NotListed]

Order == SetToSeq(Agents) \o <<"fusion", "wec", "arbiter">>
ModelNames == ToSet(Order)
NoModel == [kind |-> "none", rows |-> {}, on |-> {}]
NoFit == [kind |-> "none", rows |-> {}, model |-> NoModel, on |-> {}]

Waiting == [name |-> "idle", step |-> 1, all |-> FALSE]

PipelineInit ==
    /\ raw = 1
    /\ labels = [n \in ToSet(Sources) |-> NoLabels]
    /\ unified = [s \in Apps |-> [label |-> NotListed, source |-> NotListed]]
    /\ blocks = NoLabels
    /\ models = [n \in ModelNames |-> NoModel] /\ fits = [n \in ModelNames |-> NoFit]
    /\ stage = Waiting /\ deaths = 0

(* ------------------------------- prepare ------------------------------ *)

\* selected_export_files: of the complete generations the largest, of equal ones the
\* latest; without one the latest; files without a generation only when there is none.
Selected(files) ==
    LET named == {f \in files : f.export > 0}
        of(e) == {f \in named : f.export = e}
        size(e) == Max({f.total : f \in of(e)})
        complete == {e \in {f.export : f \in named} : {f.part : f \in of(e)} = 1..size(e)}
        largest == {e \in complete : \A g \in complete : size(g) <= size(e)}
    IN  IF named = {} THEN files
        ELSE of(Max(IF complete # {} THEN largest ELSE {f.export : f \in named}))

\* The samples of a directory's selected files; the labelled rows of the conflicts.
Listings(w) ==
    [known_malicious |-> [s \in Apps |-> IF \E f \in Selected(w.malicious) : s \in f.samples
                                         THEN "malicious" ELSE NotListed],
     known_white |-> [s \in Apps |-> IF \E f \in Selected(w.white) : s \in f.samples
                                     THEN "benign" ELSE NotListed],
     manual_conflict |-> w.manual]

HasLabel(source, s) == labels[source][s] \notin {NotListed, Unlabelled}
Known(s) == {labels[n][s] : n \in {"known_malicious", "known_white"}} \ {NotListed}

At(name, step) == stage.name = name /\ stage.step = step
Forward == stage' = [stage EXCEPT !.step = @ + 1]

\* The tables are emptied; the deletions are committed with the first import.
ImportLabels ==
    LET source == Sources[stage.step] IN
    /\ stage.name = "prepare" /\ stage.step <= 3
    /\ labels' = [n \in ToSet(Sources) |->
                    IF n = source THEN Listings(Workbooks[raw])[n]
                    ELSE IF stage.step = 1 THEN NoLabels ELSE labels[n]]
    /\ unified' = IF stage.step = 1 THEN [s \in Apps |-> [label |-> NotListed, source |-> NotListed]]
                  ELSE unified
    /\ Forward
    /\ UNCHANGED <<raw, blocks, models, fits, deaths>>

\* The label of a sample: the manual one; none if the directories contradict each
\* other; else the one that is there.
Unify(s) ==
    IF HasLabel("manual_conflict", s)
    THEN [label |-> labels["manual_conflict"][s], source |-> "manual_conflict"]
    ELSE IF Cardinality(Known(s)) > 1
    THEN [label |-> Unlabelled, source |-> "known_label_conflict"]
    ELSE IF Known(s) = {} THEN [label |-> Unlabelled, source |-> "manual_conflict"]
    ELSE [label |-> CHOOSE l \in Known(s) : TRUE,
          source |-> CHOOSE n \in {"known_malicious", "known_white"} : HasLabel(n, s)]

\* build_unified_samples, one transaction.
BuildUnified ==
    LET md5s == {s \in Apps : \E n \in ToSet(Sources) : labels[n][s] # NotListed} IN
    /\ At("prepare", 4)
    /\ unified' = [s \in Apps |-> IF s \in md5s THEN Unify(s) ELSE unified[s]]
    /\ Forward
    /\ UNCHANGED <<raw, labels, blocks, models, fits, deaths>>

(* --------------------------- evidence, models ------------------------- *)

Trainable == {s \in Apps : unified[s].label \notin {NotListed, Unlabelled}}

\* generate_sft_and_freeze: the old blocks go with the commit of the first new ones,
\* which is one of a part of the samples or of all.
FrozenBlocks_Keeps(S) == [s \in Apps |-> IF s \in S THEN unified[s].label ELSE blocks[s]]
FrozenBlocks(S) == [s \in Apps |-> IF s \in S THEN unified[s].label ELSE NotListed]

FreezePart(S) ==
    /\ At("sft", 1) /\ S \subseteq Trainable /\ S \notin {{}, Trainable}
    /\ blocks' = FrozenBlocks(S)
    /\ UNCHANGED <<raw, labels, unified, models, fits, stage, deaths>>

FreezeAll ==
    /\ At("sft", 1)
    /\ blocks' = FrozenBlocks(Trainable)
    /\ Forward
    /\ UNCHANGED <<raw, labels, unified, models, fits, deaths>>

\* The rows of a split, as a model of an agent sees them and as the later ones do, for
\* which a block counts only beside a unified sample.
BlockRows(split) == {<<s, blocks[s]>> : s \in {t \in Apps : blocks[t] # NotListed /\ SplitOf[t] = split}}
StackedRows(split) == {r \in BlockRows(split) : unified[r[1]].label # NotListed}
ManualRows(split) == {r \in StackedRows(split) : unified[r[1]].source = "manual_conflict"}

RowsOf(name, split) ==
    IF name \in Agents THEN BlockRows(split)
    ELSE IF name = "arbiter" THEN ManualRows(split) ELSE StackedRows(split)

\* What the rows of a model are made with: all agents' models, and the fusion.
Below(name) ==
    CASE name \in Agents -> {}
      [] name = "fusion" -> {models[a].rows : a \in Agents}
      [] OTHER -> {models[a].rows : a \in Agents \cup {"fusion"}}

\* fit_binary_model: with one label only, a constant over the rows of all splits.
AllRows(name) == UNION {RowsOf(name, p) : p \in {"train", "val", "test"}}
Classes(rows) == Cardinality({r[2] : r \in rows})

Fitted(name) ==
    IF Classes(RowsOf(name, "train")) < 2
    THEN [kind |-> "constant", rows |-> AllRows(name), on |-> Below(name)]
    ELSE [kind |-> "regression", rows |-> RowsOf(name, "train"), on |-> Below(name)]

\* The arbiter is the model before it unless enough manual rows have both labels.
HasOwnArbiter ==
    Classes(AllRows("arbiter")) >= 2 /\ Cardinality(AllRows("arbiter")) >= ManualMinimum

\* train_models fits and writes one after the other, on what it has fitted before.
TrainNext ==
    LET name == Order[stage.step]
        reused == name = "arbiter" /\ ~HasOwnArbiter
    IN
    /\ stage.name = "train" /\ stage.step <= Len(Order)
    /\ models' = [models EXCEPT ![name] = IF reused THEN models["wec"] ELSE Fitted(name)]
    /\ Forward
    /\ UNCHANGED <<raw, tables, fits, deaths>>

(* ------------------------------ calibration --------------------------- *)

\* The files that must be readable to calibrate a model.
FilesOf(name) ==
    CASE name \in Agents -> {name}
      [] name = "fusion" -> Agents \cup {"fusion"}
      [] OTHER -> Agents \cup {"fusion", name}

\* Rows of one label or none cannot calibrate: the file of an earlier time goes.
Calibration_Stays(name) ==
    IF Classes(RowsOf(name, "val")) < 2 THEN fits[name]
    ELSE [kind |-> "fitted", rows |-> RowsOf(name, "val"), model |-> models[name], on |-> Below(name)]

Calibration(name) ==
    IF Classes(RowsOf(name, "val")) < 2 THEN NoFit
    ELSE [kind |-> "fitted", rows |-> RowsOf(name, "val"), model |-> models[name], on |-> Below(name)]

Readable(name) == \A n \in FilesOf(name) : models[n].kind \notin {"none", "torn"}

\* A model that is not there is passed over.
CalibrateNext ==
    LET name == Order[stage.step] IN
    /\ stage.name = "calibrate" /\ stage.step <= Len(Order)
    /\ \/ models[name].kind = "none" /\ UNCHANGED fits
       \/ /\ models[name].kind # "none" /\ Readable(name)
          /\ fits' = [fits EXCEPT ![name] = Calibration(name)]
    /\ Forward
    /\ UNCHANGED <<raw, tables, models, deaths>>

(* ------------------------------- commands ----------------------------- *)

Steps == [prepare |-> 4, sft |-> 1, train |-> Len(Order), calibrate |-> Len(Order)]
Follows == [prepare |-> "sft", sft |-> "train", train |-> "calibrate"]

Command(name) ==
    /\ stage.name = "idle"
    /\ stage' = IF name = "all" THEN [name |-> "prepare", step |-> 1, all |-> TRUE]
                ELSE [name |-> name, step |-> 1, all |-> FALSE]
    /\ UNCHANGED <<raw, tables, models, fits, deaths>>

\* The last stage of a command ends.
StageDone == stage.name # "idle" /\ stage.step > Steps[stage.name]
Finish ==
    /\ StageDone
    /\ stage' = IF stage.all /\ stage.name # "calibrate"
                THEN [stage EXCEPT !.name = Follows[stage.name], !.step = 1] ELSE Waiting
    /\ UNCHANGED <<raw, tables, models, fits, deaths>>

\* Other workbooks are put into the raw directories.
NewWorkbooks ==
    /\ stage.name = "idle" /\ raw < Len(Workbooks)
    /\ raw' = raw + 1
    /\ UNCHANGED <<tables, models, fits, stage, deaths>>

\* A command dies, or fails on a torn or missing file of a model.
Die ==
    LET within == stage.name \in {"train", "calibrate"} /\ ~StageDone
        name == Order[stage.step]
    IN
    /\ stage.name # "idle" /\ deaths < MaxDeaths
    /\ deaths' = deaths + 1 /\ stage' = Waiting
    /\ \/ UNCHANGED <<models, fits>>
       \/ within /\ stage.name = "train" /\ UNCHANGED fits
          /\ models' = [models EXCEPT ![name].kind = "torn"]
       \/ within /\ stage.name = "calibrate" /\ UNCHANGED models
          /\ Readable(name) /\ Calibration(name).kind = "fitted"
          /\ fits' = [fits EXCEPT ![name].kind = "torn"]
    /\ UNCHANGED <<raw, tables>>

Unreadable ==
    /\ stage.name = "calibrate" /\ ~StageDone
    /\ models[Order[stage.step]].kind # "none"
    /\ ~Readable(Order[stage.step])
    /\ stage' = Waiting
    /\ UNCHANGED <<raw, tables, models, fits, deaths>>

PipelineNext ==
    \/ ImportLabels \/ BuildUnified \/ FreezeAll \/ TrainNext \/ CalibrateNext
    \/ \E S \in SUBSET Apps : FreezePart(S)
    \/ Finish \/ NewWorkbooks \/ Die \/ Unreadable
    \/ \E name \in DOMAIN Steps \cup {"all"} : Command(name)

PipelineSpec == PipelineInit /\ [][PipelineNext]_trainVars

(* ------------------------------ properties ---------------------------- *)

\* When calibrate ends, each calibration file beside a model was fitted to that very
\* model on validation rows of now: one of an earlier model never survives, although
\* trainings and calibrations before it may have died halfway and the rows changed.
CalibrationMatches ==
    [][Finish /\ stage.name = "calibrate" =>
          \A n \in ModelNames : fits[n].kind # "none" =>
              /\ fits[n].model = models[n] /\ fits[n].on = Below(n)
              /\ fits[n].rows = RowsOf(n, "val")]_trainVars

\* The label the workbooks give a sample, whatever was in the database before: what
\* the conflict workbook says, else the label of the only directory that lists it.
GivenLabel(s) ==
    LET w == Listings(Workbooks[raw])
        by == {w[n][s] : n \in {"known_malicious", "known_white"}} \ {NotListed}
    IN  IF w.manual_conflict[s] \notin {NotListed, Unlabelled} THEN w.manual_conflict[s]
        ELSE IF Cardinality(by) = 1 THEN CHOOSE l \in by : TRUE ELSE NotListed

\* When "all" ends, every model was fitted to the samples of now under the labels of
\* now, and never to a validation or test row unless it is a constant: nothing is left
\* of labels that changed, samples that went or commands that died before.
AllStartsAfresh ==
    [][Finish /\ stage.all /\ stage.name = "calibrate" =>
          /\ \A s \in Apps : blocks[s] = GivenLabel(s)
          /\ \A n \in ModelNames : \A r \in models[n].rows :
                /\ r[2] = GivenLabel(r[1])
                /\ models[n].kind = "regression" => SplitOf[r[1]] = "train"]_trainVars
=============================================================================
