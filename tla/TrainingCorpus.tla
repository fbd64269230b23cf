--------------------------- MODULE TrainingCorpus ---------------------------
(***************************************************************************)
(* The training pack a script builds (training/datasets/corpus.py):        *)
(* supervised rows, preference candidates, success trajectories and a      *)
(* calibration set, all outside the evaluation boundary.  The boundary is  *)
(* read first, from the newest suite directory, the review file and the    *)
(* generated holdouts; samples and traces are read after it.               *)
(***************************************************************************)
EXTENDS GoldExpansion

CONSTANTS Enriched,       \* samples with enough evidence for calibration
          CalTarget, CoreTarget, ExpansionTarget, PerGroup

VARIABLES builder,        \* the build in progress
          pack            \* the last pack written

NoPack == [cal |-> {}, sft |-> {}, dpo |-> {}, success |-> {}, docs |-> {},
           passed |-> FALSE, held |-> {}]
NotBuilding == [pc |-> "idle", reserved |-> {}, held |-> {}]

(* ------------------------------ boundary ------------------------------ *)

\* The suite directory with the latest modification counts as the active one,
\* whether or not latest.json names it.
ActiveSuite ==
    IF newest = None THEN {}
    ELSE Rows(folder[newest].release) \cup Rows(folder[newest].gold)
         \cup folder[newest].rag \cup folder[newest].agent
         \cup folder[newest].e2e \cup folder[newest].fresh

Reserved == ActiveSuite \cup Items \cup generated

\* The labelled samples of the database.  A manual label hides the label of the sheet,
\* and a sample that is labelled otherwise by hand (suspicious, say) has no record.
CorpusLabel(s) == IF ManualLabel[s] = None THEN RefLabel[s] ELSE ManualLabel[s]
Records == {s \in Samples : CorpusLabel(s) \in Verdicts}

Groups(S) == {Group[s] : s \in S}

\* The groups that are kept out are those of the records in S, not those of all of S.
Outside_Ids(S) == Records \ S
Outside(S) == {s \in Records : s \notin S /\ Group[s] \notin Groups(S \cap Records)}

(* ------------------------------ selection ----------------------------- *)

\* What stable_stratified_select may return: no more than the target nor than
\* cap members of a group, and short of the target only if nothing else fits.
Selections(pool, target, cap) ==
    LET InGroup(S, s) == Cardinality({t \in S : Group[t] = Group[s]}) IN
    {S \in SUBSET pool :
        /\ Cardinality(S) <= target
        /\ \A s \in S : InGroup(S, s) <= cap
        /\ Cardinality(S) < target => \A s \in pool \ S : InGroup(S, s) >= cap}

(* -------------------------------- build ------------------------------- *)

\* held are the samples on review or in the strict extension when the build began:
\* a property compares the pack with them.
PackRead ==
    /\ builder.pc = "idle"
    /\ builder' = [pc |-> "select", reserved |-> Reserved, held |-> Items \cup strict]
    /\ UNCHANGED pack

\* A trace is a candidate pair unless its sample or group is blocked; a document
\* gives a retrieval row unless it names a blocked sample.
TracePairs(blocked) == Outside(blocked) \cap seen
RetrievalRows(blocked) == {d \in rag : d[2] \notin blocked}

\* The checks of the quality report, against the boundary the build itself read.
QualityPasses(reserved, cal, sft, dpo, success) ==
    /\ (sft \cup dpo \cup success) \cap reserved = {}
    /\ Groups(cal) \cap Groups(sft \cup dpo \cup success) = {}

\* Calibration first; then the core and the expansion, outside its groups; a
\* candidate pair is a success if its trace ended well.
PackWrite ==
    /\ builder.pc = "select"
    /\ LET trainable == Outside(builder.reserved) IN
       \E cal \in Selections(trainable \cap Enriched, CalTarget, 1) :
       LET blocked == builder.reserved \cup cal
           pool == trainable \cap Outside(cal)
       IN  \E core \in Selections(pool, CoreTarget, PerGroup) :
           \E expansion \in Selections(pool \ core, ExpansionTarget, PerGroup),
              success \in SUBSET TracePairs(blocked) :
              pack' = [cal |-> cal, sft |-> core \cup expansion,
                       dpo |-> TracePairs(blocked), success |-> success,
                       docs |-> RetrievalRows(blocked),
                       passed |-> QualityPasses(builder.reserved, cal,
                                     core \cup expansion, TracePairs(blocked), success),
                       held |-> builder.held]
    /\ builder' = NotBuilding

Build == PackRead \/ PackWrite
=============================================================================
