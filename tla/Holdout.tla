------------------------------ MODULE Holdout -------------------------------
(***************************************************************************)
(* The strict unseen holdout (scripts/evaluation/generate_holdout.py and   *)
(* publish_holdout.py) and the structured retrieval corpus                 *)
(* (five_layer.py, build_structured_rag_corpus): the two scripts that move *)
(* samples of the catalogue into evaluation and into retrieval.            *)
(***************************************************************************)
EXTENDS DataStores

CONSTANTS HoldSize,       \* --count, an even number
          RagSize         \* documents a corpus build may add

VARIABLES staged,         \* the last generated holdout
          holder,         \* the generation in progress
          ragger          \* the corpus build in progress

Nobody == [pc |-> "idle", excluded |-> {}]
Working(excluded) == [pc |-> "work", excluded |-> excluded]

\* A corpus build also knows the documents it still has to add, whether it pruned
\* any, and which samples the last prune barred from the store.
NoRagger == [pc |-> "idle", excluded |-> {}, todo |-> {}, pruned |-> FALSE, barred |-> {}]

(* ------------------------------- holdout ------------------------------ *)

\* Everything the script can find: training, validation, the latest suite's
\* release and fresh rows, the published extension, judged samples, documents.
\* Not the earlier generated directories.
CanonicalTraining == trained
ReservedEvaluation == Base
ExistingFresh == Rows(suite.release) \cup suite.fresh
PublishedStrict == strict
OperationalSeen == seen
RagIds == Named(rag)

Discoverable ==
    CanonicalTraining \cup ReservedEvaluation \cup ExistingFresh
        \cup PublishedStrict \cup OperationalSeen \cup RagIds

HoldRead ==
    /\ holder.pc = "idle"
    /\ holder' = Working(Discoverable)
    /\ UNCHANGED <<generated, staged>>

\* The same number per label, or the script raises and nothing is written.
CandidatePool(l) == Labelled(Samples \ holder.excluded, l)
Enough == \A l \in Verdicts : Cardinality(CandidatePool(l)) >= HoldSize \div 2
Balanced == UNION {First(CandidatePool(l), HoldSize \div 2) : l \in Verdicts}

HoldWrite ==
    /\ holder.pc = "work"
    /\ holder' = Nobody
    /\ staged' = IF Enough THEN Balanced ELSE staged
    /\ generated' = IF Enough THEN generated \cup Balanced ELSE generated

\* The audit in the directory is trusted; the CSV is named after the count, so
\* it replaces the extension of an earlier holdout of that size.
HoldPublish ==
    /\ staged # {}
    /\ strict' = staged
    /\ UNCHANGED <<generated, staged, holder>>

(* --------------------------- retrieval corpus ------------------------- *)

\* Validation rows, the fresh candidates as the training files give them now,
\* and those of the latest suite.  Not the strict extension.
RagExcluded ==
    Base \cup FreshCandidates(trained \cup Base, FreshSize) \cup suite.fresh

RagRead ==
    /\ ragger.pc = "idle"
    /\ ragger' = [ragger EXCEPT !.pc = "prune", !.excluded = RagExcluded]
    /\ UNCHANGED store

\* Candidates that have something besides their MD5 are to be added.
RagPrune ==
    /\ ragger.pc = "prune"
    /\ Prune(ragger.excluded)
    /\ \E useful \in SUBSET FreshCandidates(ragger.excluded, RagSize) :
          ragger' = [ragger EXCEPT !.pc = "add", !.todo = useful, !.barred = ragger.excluded,
                                   !.pruned = Stale(ragger.excluded) # {}]

RagAdd ==
    /\ ragger.pc = "add"
    /\ \E s \in ragger.todo :
          /\ Insert("corpus", <<"structured", s>>)
          /\ ragger' = [ragger EXCEPT !.todo = @ \ {s}]

RagIndex ==
    /\ Index("corpus")
    /\ UNCHANGED ragger

\* The graph that a prune removed is rebuilt at the end.
RagOver == [NoRagger EXCEPT !.barred = ragger.barred]

RagEnd ==
    /\ ragger.pc = "add" /\ ragger.todo = {} /\ hand["corpus"] = {}
    /\ IF ragger.pruned THEN RebuildRead("corpus") /\ ragger' = [ragger EXCEPT !.pc = "rebuild"]
       ELSE UNCHANGED store /\ ragger' = RagOver

RagRebuild ==
    /\ ragger.pc = "rebuild"
    /\ RebuildGoesOn("corpus")
    /\ ragger' = IF rebuild'["corpus"].pc = "idle" THEN RagOver ELSE ragger

\* An exception or the end of the process between two transactions.
RagFails ==
    /\ ragger.pc \in {"prune", "add"}
    /\ ragger' = RagOver
    /\ hand' = [hand EXCEPT !["corpus"] = {}]
    /\ UNCHANGED <<rag, edges, indexed, rebuild>>

CorpusBuild == RagRead \/ RagPrune \/ RagAdd \/ RagIndex \/ RagEnd \/ RagRebuild \/ RagFails
=============================================================================
