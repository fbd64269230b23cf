--------------------------- MODULE DataLifecycle ----------------------------
(***************************************************************************)
(* Review, suites, training packs, holdouts and the retrieval corpus over  *)
(* the same samples.                                                       *)
(***************************************************************************)
EXTENDS EvalSuite, TrainingCorpus, Holdout

CONSTANT Casts            \* which processes run together, and on what

ASSUME CastsAssumption ==
    \A x \in Casts :
        /\ x.generators \subseteq Generators /\ x.first \in Generators \cup {None}
        /\ x.strict \subseteq Samples /\ x.trains \subseteq Samples
        /\ x.judges \subseteq Samples

VARIABLE cast             \* the ones of this behaviour, and a bound on its suites

reviewVars == <<review, frozen, clerk>>
suiteVars == <<suite, folder, newest, gen, started>>
packVars == <<builder, pack>>
holdVars == <<staged, holder>>
vars == <<stores, store, reviewVars, suiteVars, packVars, holdVars, ragger, cast>>

\* A server that starts on a directory without a suite, or with the one generated
\* before any review.
FirstRows == [s \in Samples |-> IF s \in Base \cup cast.strict THEN RefLabel[s] ELSE None]
FirstGold == [s \in Samples |-> IF s \in Base THEN RefLabel[s] ELSE None]
FirstFolder == [release |-> FirstRows, gold |-> FirstGold, rag |-> Base \cap Queried, agent |-> {},
                e2e |-> Base \cup cast.strict,
                fresh |-> FreshCandidates(Base \cup cast.strict, FreshSize)]
FirstSuite == [release |-> FirstRows, gold |-> FirstGold, fresh |-> FirstFolder.fresh,
               exists |-> TRUE]

Init ==
    /\ cast \in Casts
    /\ trained = {} /\ seen = {}
    /\ StoreInit
    /\ strict = cast.strict /\ generated = cast.strict
    /\ review = NewState /\ frozen = NoRows /\ clerk = [c \in Clerks |-> None]
    /\ gen = [g \in Generators |-> Idle]
    /\ \/ cast.first = None /\ suite = NoSuite /\ started = 0 /\ newest = None
          /\ folder = [g \in Generators |-> Empty]
       \/ cast.first # None /\ suite = FirstSuite /\ started = 1 /\ newest = cast.first
          /\ folder = [g \in Generators |->
                         IF g = cast.first THEN FirstFolder ELSE Empty]
    /\ builder = NotBuilding /\ pack = NoPack
    /\ staged = {} /\ holder = Nobody /\ ragger = NoRagger

(* -------------------- review, freeze and generation ------------------- *)

ReviewStep ==
    /\ \/ /\ "prepare" \in cast.runs
          /\ \E t \in Targets : Prepare(t)
       \/ /\ "review" \in cast.runs
          /\ \E c \in Clerks, s \in Samples, r \in Reviewers, l \in Labels :
                Review(c, s, r, l) \/ Adjudicate(c, s, r, l)
       \/ \E c \in Clerks : Refill(c)
    /\ UNCHANGED <<stores, store, suiteVars, packVars, holdVars, ragger, cast>>

FreezeStep ==
    /\ "review" \in cast.runs
    /\ \E g \in cast.generators, t \in Targets : Freeze(g, t)
    /\ started' <= cast.suites
    /\ UNCHANGED <<stores, store, suite, folder, newest, packVars, holdVars, ragger, cast>>

SuiteStep ==
    /\ \E g \in cast.generators : Generate(g)
    /\ started' <= cast.suites
    /\ UNCHANGED <<stores, store, reviewVars, packVars, holdVars, ragger, cast>>

(* ------------------------------- scripts ------------------------------ *)

PackStep ==
    /\ "pack" \in cast.runs
    /\ Build
    /\ UNCHANGED <<stores, store, reviewVars, suiteVars, holdVars, ragger, cast>>

HoldStep ==
    /\ "hold" \in cast.runs
    /\ \/ (HoldRead \/ HoldWrite) /\ UNCHANGED strict
       \/ HoldPublish
    /\ UNCHANGED <<trained, seen, store, reviewVars, suiteVars, packVars, ragger, cast>>

\* A retrieval rebuilds the graph first.
Retrieve == \E r \in Retrievals : RebuildRead(r) \/ RebuildGoesOn(r)

\* build_index adds the cases of the judgements and of the manual labels.
LabelledByHand == {s \in Samples : ManualLabel[s] # None}

IndexBuild ==
    /\ "index" \in cast.runs
    /\ \/ \E s \in seen \cup LabelledByHand : Insert("index", <<"case", s>>)
       \/ Index("index") \/ WriterFails("index")
       \/ "reset" \in cast.runs /\ hand["index"] = {} /\ Reset

RagStep ==
    /\ "rag" \in cast.runs
    /\ \/ CorpusBuild
       \/ (Retrieve \/ IndexBuild) /\ UNCHANGED ragger
    /\ UNCHANGED <<stores, reviewVars, suiteVars, packVars, holdVars, cast>>

\* A data preparation script puts a sample into a training set.
Train ==
    /\ \E s \in cast.trains \ trained : trained' = trained \cup {s}
    /\ UNCHANGED <<strict, seen, generated, store, reviewVars, suiteVars, packVars, holdVars, ragger, cast>>

\* A sample is judged: it has a report and a trace from now on.
JudgeSample ==
    /\ \E s \in cast.judges \ seen : seen' = seen \cup {s}
    /\ UNCHANGED <<trained, strict, generated, store, reviewVars, suiteVars, packVars, holdVars, ragger, cast>>

Next == ReviewStep \/ FreezeStep \/ SuiteStep \/ PackStep \/ HoldStep \/ RagStep
        \/ Train \/ JudgeSample

Spec == Init /\ [][Next]_vars

(* ------------------------------- the type ----------------------------- *)

RowFile == [Samples -> Verdicts \cup {None}]
Reviewing == [by : Reviewers, label : Labels]
Item == [status : Statuses, reviews : Seq(Reviewing), judge : Reviewing \cup {None},
         label : Labels \cup {None}]
Folder == [release : RowFile, gold : RowFile, rag : SUBSET Samples, agent : SUBSET Samples,
           e2e : SUBSET Samples, fresh : SUBSET Samples]
Generation == [pc : {"idle", "read", "open", "layer1", "layer2", "layers", "fresh", "publish"},
               release : RowFile, gold : RowFile, strict : SUBSET Samples,
               trained : SUBSET Samples]

TypeOK ==
    /\ cast \in Casts
    /\ trained \subseteq Samples /\ strict \subseteq Samples
    /\ seen \subseteq Samples /\ generated \subseteq Samples
    /\ rag \subseteq Documents /\ edges \subseteq Documents /\ indexed \subseteq Documents
    /\ hand \in [Writers -> SUBSET Documents]
    /\ rebuild \in [Rebuilders -> [pc : {"idle", "read", "loop"}, bare : BOOLEAN,
                                   todo : SUBSET Documents]]
    /\ review \in [target : Nat, items : [Samples -> Item], decided : Seq(Samples)]
    /\ clerk \in [Clerks -> Nat \cup {None}]
    /\ frozen \in RowFile
    /\ suite \in [release : RowFile, gold : RowFile, fresh : SUBSET Samples, exists : BOOLEAN]
    /\ folder \in [Generators -> Folder]
    /\ gen \in [Generators -> Generation]
    /\ newest \in Generators \cup {None} /\ started \in Nat
    /\ builder \in [pc : {"idle", "select"}, reserved : SUBSET Samples, held : SUBSET Samples]
    /\ staged \subseteq Samples
    /\ holder \in [pc : {"idle", "work"}, excluded : SUBSET Samples]
    /\ ragger \in [pc : {"idle", "prune", "add", "rebuild"}, excluded : SUBSET Samples,
                   todo : SUBSET Samples, pruned : BOOLEAN, barred : SUBSET Samples]

(* ------------------------------ properties ---------------------------- *)

\* What two reviewers, or a third one after them, say of an item.
Backed(i, l) ==
    /\ Len(i.reviews) = 2
    /\ i.reviews[1].by # i.reviews[2].by
    /\ \/ i.reviews[1].label = l /\ i.reviews[2].label = l
       \/ /\ i.reviews[1].label # i.reviews[2].label
          /\ i.judge # None
          /\ i.judge.label = l
          /\ i.judge.by \notin {i.reviews[1].by, i.reviews[2].by}

\* A label outside the validation set reaches the gold set or the latest suite's
\* gold only on the word of two distinct reviewers who agree, or of a third who
\* decided between them: however reviews, freezes, generations and crashes mix.
GoldIsReviewed ==
    \A s \in Samples \ Base :
        /\ frozen[s] # None => Backed(items[s], frozen[s])
        /\ suite.gold[s] # None => Backed(items[s], suite.gold[s])

\* When the request of a review has ended without an error, the target is within
\* reach: gold and items on review make it up, or the suite has no candidate left.
Reachable(t) ==
    \/ Cardinality(Official) + Cardinality(Extra) + Cardinality(OnReview) >= t
    \/ Free = {}

RefillKeepsTargetReachable ==
    [][\A c \in Clerks, t \in Targets :
          clerk[c] = t /\ clerk'[c] = None /\ MayPrepare(t) => Reachable(t)']_vars

\* No sample a pack trains on is in its calibration set, or was on expert review or
\* in the strict extension when the build began; nor is it a near duplicate of one of
\* these that has a record, a verdict for a label.  These boundaries do not depend on
\* which suite directory is the newest.
TrainedOn == pack.sft \cup pack.dpo \cup pack.success

PackKeepsBoundary ==
    \A s \in TrainedOn :
        /\ s \notin pack.cal \cup pack.held
        /\ Group[s] \notin Groups((pack.cal \cup pack.held) \cap Records)

\* What the pack's own words say (corpus.py, near_duplicate_group_exclusion): near
\* duplicates of every reserved sample are kept out.  The code does otherwise.
NearDuplicatesExcluded == \A s \in TrainedOn : Group[s] \notin Groups(pack.cal \cup pack.held)

\* From the prune of a corpus build to that of the next, retrieval has no structured
\* document of a sample the first one barred (the validation set, the fresh candidates),
\* not even one of an earlier build; nor has the graph a fact of one, unless documents
\* were deleted under it by build_index --reset.  Builds fail between a document and
\* its facts or within a rebuild, retrievals and build_index go on.
BarredIsGone ==
    /\ rag \cap Structured(ragger.barred) = {}
    /\ "reset" \notin cast.runs => edges \cap Structured(ragger.barred) = {}

\* What build_structured_rag_corpus says of itself: retrieval cannot answer an
\* evaluation item by looking up its previously saved outcome.  The code does
\* otherwise, as the cases of build_index are not pruned.
NoSavedOutcome == Named(rag) \cap ragger.barred = {}

\* The lazy rebuild is enough: when one has got to its end, a retrieval finds the facts
\* of every document in the graph, although documents are committed before their facts,
\* and whatever was pruned, reset or left half done by a writer or a rebuild before.
GraphIsComplete == [][\A r \in Rebuilders : RebuildEnd(r) => rag \subseteq edges']_vars

=============================================================================
