-------------------------- MODULE DataLifecycle_proof --------------------------
(***************************************************************************)
(* What review, suites, training packs and retrieval promise one another   *)
(* holds for any samples, reviewers, generators and casts of processes.    *)
(*                                                                         *)
(* A gold label reaches the latest suite through three copies that are     *)
(* taken at different moments: the frozen set, what a generator has read,  *)
(* and the file in its directory.  The invariant says of each of them what *)
(* GoldIsReviewed says of the first and the last, and of every item what   *)
(* its status promises, so that no later review can undo it.               *)
(*                                                                         *)
(* The training pipeline is beside it: what a stage of "all" has made      *)
(* afresh, and which files a calibration leaves behind.  Last come the     *)
(* campaigns that work off a suite: what their page shows.                 *)
(***************************************************************************)
EXTENDS DataLifecycle, TrainingPipeline, Campaign, SequenceTheorems, FiniteSetTheorems,
        WellFoundedInduction, TLAPS

\* What the status of an item on review promises.
ItemSound(i) ==
  /\ i.status \in {"absent", "pending_first_review"} => i.reviews = <<>> /\ i.judge = None
  /\ i.status = "pending_second_review" => Len(i.reviews) = 1 /\ i.judge = None
  /\ i.status = "needs_adjudication" =>
       /\ Len(i.reviews) = 2 /\ i.judge = None
       /\ i.reviews[1].by # i.reviews[2].by /\ i.reviews[1].label # i.reviews[2].label
  /\ i.status \in {"approved", "adjudicated"} => Backed(i, i.label)

\* A sample |-> label map has no gold but the validation rows and what is backed.
GoldOnly(f) == \A s \in Samples \ Base : f[s] # None => Backed(items[s], f[s])

GoldInv ==
  /\ \A s \in Samples : ItemSound(items[s])
  /\ GoldOnly(frozen) /\ GoldOnly(suite.gold)
  /\ \A g \in Generators : GoldOnly(gen[g].gold) /\ GoldOnly(folder[g].gold)

\* A published holdout was generated, and a build reserves what it is compared with.
PackInv ==
  /\ strict \subseteq generated /\ staged \subseteq generated
  /\ builder.held \subseteq builder.reserved
  /\ PackKeepsBoundary

\* What a build still has to add or to index is not barred; the graph has no facts of a
\* structured document that is gone, unless documents were deleted under it; an index
\* row never comes without its facts; and a rebuild at work has on its list whatever
\* has no row.
RagInv ==
  /\ rag \cap Structured(ragger.barred) = {}
  /\ ragger.pc = "add" => ragger.barred = ragger.excluded /\ ragger.todo \cap ragger.excluded = {}
  /\ ragger.pc # "add" => hand["corpus"] = {}
  /\ hand["corpus"] \cap Structured(ragger.barred) = {}
  /\ hand["index"] \cap Structured(Samples) = {}
  /\ "reset" \notin cast.runs => (edges \cup hand["corpus"]) \cap Structured(Samples) \subseteq rag
  /\ indexed \subseteq edges
  /\ \A r \in Rebuilders : rebuild[r].pc = "loop" =>
        rebuild[r].todo \subseteq rag /\ rag \subseteq indexed \cup rebuild[r].todo

(* ------------------------------ operators ----------------------------- *)

\* A choice of fresh candidates is outside what it excludes.
LEMMA FreshOutside ==
  ASSUME NEW X, NEW n PROVE FreshCandidates(X, n) \subseteq Samples \ X
<1>1. \A S, m : First(S, m) \subseteq S
  BY DEF First
<1>2. \A S, l : Labelled(S, l) \subseteq S
  BY DEF Labelled
<1> QED
  BY <1>1, <1>2 DEF FreshCandidates

LEMMA EmptyRows == NoRows \in RowFile /\ \A s \in Samples : NoRows[s] = None
BY DEF NoRows, RowFile

\* The label a settled item has is a verdict or none.
LEMMA LabelsOfRows == ASSUME TypeOK PROVE ReleaseRows \in RowFile /\ GoldRows \in RowFile
<1>1. ReleaseRows \in RowFile
  BY SamplesAssumption DEF TypeOK, ReleaseRows, RowFile
<1> QED
  BY <1>1 DEF GoldRows, RowFile

LEMMA RowsOfFile == \A f : Rows(f) \subseteq Samples
BY DEF Rows

(* -------------------------------- the type ---------------------------- *)

LEMMA TypeInit == ASSUME Init PROVE TypeOK
<1> USE DEF Init
<1>1. cast.strict \subseteq Samples /\ cast.generators \subseteq Generators
  BY CastsAssumption
<1>2. review \in [target : Nat, items : [Samples -> Item], decided : Seq(Samples)]
  BY ReviewAssumption DEF NewState, Absent, Item, Statuses
<1>3. FirstRows \in RowFile /\ FirstGold \in RowFile
  BY SamplesAssumption DEF FirstRows, FirstGold, RowFile
<1>4. FirstFolder \in Folder
  BY <1>1, <1>3, FreshOutside, SamplesAssumption DEF FirstFolder, Folder
<1>5. Empty \in Folder
  BY EmptyRows DEF Empty, Folder
<1>6. suite \in [release : RowFile, gold : RowFile, fresh : SUBSET Samples, exists : BOOLEAN]
  <2>1. NoSuite \in [release : RowFile, gold : RowFile, fresh : SUBSET Samples, exists : BOOLEAN]
    BY EmptyRows DEF NoSuite
  <2>2. FirstFolder.fresh \subseteq Samples
    BY <1>4 DEF Folder
  <2>3. FirstSuite \in [release : RowFile, gold : RowFile, fresh : SUBSET Samples, exists : BOOLEAN]
    BY <1>3, <2>2 DEF FirstSuite
  <2> QED
    BY <2>1, <2>3
<1>7. folder \in [Generators -> Folder]
  BY <1>4, <1>5
<1>8. gen \in [Generators -> Generation]
  BY EmptyRows DEF Idle, Generation
<1>9. frozen \in RowFile
  BY EmptyRows
<1>10. newest \in Generators \cup {None} /\ started \in Nat
  BY CastsAssumption
<1>11. /\ rag \subseteq Documents /\ edges \subseteq Documents /\ indexed \subseteq Documents
       /\ hand \in [Writers -> SUBSET Documents]
       /\ rebuild \in [Rebuilders -> [pc : {"idle", "read", "loop"}, bare : BOOLEAN,
                                      todo : SUBSET Documents]]
  BY DEF StoreInit, NoRebuild
<1> QED
  BY <1>1, <1>2, <1>6, <1>7, <1>8, <1>9, <1>10, <1>11
  DEF TypeOK, NotBuilding, Nobody, NoRagger

\* A generator moves on, a file of its directory is written.
LEMMA TypeOfThen ==
  ASSUME TypeOK, NEW g \in Generators,
         NEW step \in {"idle", "read", "open", "layer1", "layer2", "layers", "fresh", "publish"}
  PROVE  Then(g, step) \in [Generators -> Generation]
<1>1. gen[g] \in Generation
  BY DEF TypeOK
<1>2. [gen[g] EXCEPT !.pc = step] \in Generation
  BY <1>1 DEF Generation
<1> QED
  BY <1>2 DEF Then, TypeOK

LEMMA TypeOfFile ==
  ASSUME TypeOK, NEW g \in Generators, NEW f \in RowFile, NEW h \in RowFile,
         NEW X \in SUBSET Samples, NEW Y \in SUBSET Samples
  PROVE  /\ [folder EXCEPT ![g].release = f, ![g].gold = h] \in [Generators -> Folder]
         /\ [folder EXCEPT ![g].rag = X] \in [Generators -> Folder]
         /\ [folder EXCEPT ![g].agent = X, ![g].e2e = Y] \in [Generators -> Folder]
         /\ [folder EXCEPT ![g].fresh = X] \in [Generators -> Folder]
<1>1. folder[g] \in Folder
  BY DEF TypeOK
<1>2. /\ [folder[g] EXCEPT !.release = f, !.gold = h] \in Folder
      /\ [folder[g] EXCEPT !.rag = X] \in Folder
      /\ [folder[g] EXCEPT !.agent = X, !.e2e = Y] \in Folder
      /\ [folder[g] EXCEPT !.fresh = X] \in Folder
  BY <1>1 DEF Folder
<1>3. folder \in [Generators -> Folder]
  BY DEF TypeOK
<1> QED
  BY <1>2, <1>3

\* The generators and their directories.
LEMMA TypeOfSuites ==
  ASSUME TypeOK, NEW g \in Generators, Generate(g)
  PROVE  /\ gen' \in [Generators -> Generation] /\ folder' \in [Generators -> Folder]
         /\ suite' \in [release : RowFile, gold : RowFile, fresh : SUBSET Samples,
                        exists : BOOLEAN]
<1> USE DEF TypeOK
<1>1. CASE GenStart(g)
  BY <1>1, TypeOfThen DEF GenStart, BeginSuite, Then
<1>2. CASE GenRead(g)
  <2>1. [pc |-> "open", release |-> ReleaseRows, gold |-> GoldRows,
         strict |-> StrictExtension \ (TrainingIds \cup Base), trained |-> TrainingIds] \in Generation
    BY LabelsOfRows DEF StrictExtension, TrainingIds, Generation
  <2> QED
    BY <1>2, <2>1 DEF GenRead
<1>3. CASE GenOpen(g)
  <2>1. Empty \in Folder
    BY EmptyRows DEF Empty, Folder
  <2> QED
    BY <1>3, <2>1, TypeOfThen DEF GenOpen
<1>4. CASE GenLayer1(g)
  <2>1. gen[g].release \in RowFile /\ gen[g].gold \in RowFile
    BY DEF Generation
  <2> QED
    BY <1>4, <2>1, TypeOfThen, TypeOfFile DEF GenLayer1
<1>5. CASE GenLayer2(g)
  <2>1. Base \cap Queried \subseteq Samples
    BY SamplesAssumption
  <2> QED
    BY <1>5, <2>1, TypeOfThen, TypeOfFile DEF GenLayer2
<1>6. CASE GenLayers(g)
  <2>1. AgentRows \subseteq Samples /\ EndToEndRows(g) \subseteq Samples
    BY SamplesAssumption, RowsOfFile DEF AgentRows, EndToEndRows
  <2> QED
    BY <1>6, <2>1, TypeOfThen, TypeOfFile DEF GenLayers
<1>7. CASE GenFresh(g)
  <2>1. FreshOf(g) \subseteq Samples
    BY FreshOutside DEF FreshOf
  <2> QED
    BY <1>7, <2>1, TypeOfThen, TypeOfFile DEF GenFresh
<1>8. CASE GenPublish(g)
  <2>1. Idle \in Generation
    BY EmptyRows DEF Idle, Generation
  <2>2. folder[g] \in Folder
    OBVIOUS
  <2> QED
    BY <1>8, <2>1, <2>2 DEF GenPublish, Folder
<1>9. CASE GenFails(g)
  <2>1. Idle \in Generation
    BY EmptyRows DEF Idle, Generation
  <2> QED
    BY <1>9, <2>1 DEF GenFails
<1> QED
  BY <1>1, <1>2, <1>3, <1>4, <1>5, <1>6, <1>7, <1>8, <1>9 DEF Generate

\* The review file: what a review, an adjudication and a preparation write is an item.
LEMMA TypeOfPrepared ==
  ASSUME TypeOK, NEW t \in Nat
  PROVE  Prepared(t) \in [target : Nat, items : [Samples -> Item], decided : Seq(Samples)]
<1>1. Absent \in Item
  BY DEF Absent, Item, Statuses
<1> HIDE DEF Absent
<1>2. Candidate \in Item
  BY <1>1 DEF Candidate, Item, Statuses
<1>3. [s \in Samples |-> IF s \in Chosen(t) THEN Candidate ELSE items[s]] \in [Samples -> Item]
  BY <1>2 DEF TypeOK, items
<1> QED
  BY <1>3 DEF Prepared, TypeOK

LEMMA TypeOfReviewed ==
  ASSUME NEW i \in Item, NEW r \in Reviewers, NEW l \in Labels
  PROVE  Reviewed(i, r, l) \in Item /\ Adjudicated(i, r, l) \in Item
<1> DEFINE with == [i EXCEPT !.reviews = Append(@, [by |-> r, label |-> l])]
           judged == [i EXCEPT !.judge = [by |-> r, label |-> l]]
<1>1. with \in Item /\ judged \in Item
  <2>1. [by |-> r, label |-> l] \in Reviewing
    BY DEF Reviewing
  <2>2. i.reviews \in Seq(Reviewing)
    BY DEF Item
  <2>3. Append(i.reviews, [by |-> r, label |-> l]) \in Seq(Reviewing)
    BY <2>1, <2>2
  <2> QED
    BY <2>1, <2>3 DEF Item
<1>2. \A x \in Item, status \in Statuses : Settle(x, l, status) \in Item
  BY DEF Settle, Item, Statuses
<1>3. Reviewed(i, r, l) \in Item
  <2>1. [with EXCEPT !.status = "pending_second_review"] \in Item
    BY <1>1 DEF Item, Statuses
  <2>2. [with EXCEPT !.label = None, !.status = "needs_adjudication"] \in Item
    BY <1>1 DEF Item, Statuses
  <2>3. Settle(with, l, "approved") \in Item
    BY <1>1, <1>2 DEF Statuses
  <2> HIDE DEF with
  <2> QED
    BY <2>1, <2>2, <2>3 DEF Reviewed, with
<1>4. Adjudicated(i, r, l) \in Item
  BY <1>1, <1>2 DEF Adjudicated, Statuses
<1> QED
  BY <1>3, <1>4

LEMMA TypeOfSaved ==
  ASSUME TypeOK, NEW c \in Clerks, NEW s \in Samples, NEW i \in Item, SaveReview(c, s, i)
  PROVE  /\ review' \in [target : Nat, items : [Samples -> Item], decided : Seq(Samples)]
         /\ clerk' \in [Clerks -> Nat \cup {None}]
<1>1. [items EXCEPT ![s] = i] \in [Samples -> Item]
  BY DEF TypeOK, items
<1>2. Append(review.decided, s) \in Seq(Samples)
  BY DEF TypeOK
<1> QED
  BY <1>1, <1>2 DEF SaveReview, TypeOK, items

LEMMA TypeReview == ASSUME TypeOK, ReviewStep PROVE TypeOK'
<1> DEFINE Written ==
      /\ review' \in [target : Nat, items : [Samples -> Item], decided : Seq(Samples)]
      /\ clerk' \in [Clerks -> Nat \cup {None}]
<1>1. Written
  <2>1. ASSUME NEW t \in Targets, Prepare(t) PROVE Written
    BY <2>1, TypeOfPrepared, ReviewAssumption DEF Prepare, TypeOK
  <2>2. ASSUME NEW c \in Clerks, NEW s \in Samples, NEW r \in Reviewers, NEW l \in Labels,
               Review(c, s, r, l) \/ Adjudicate(c, s, r, l)
        PROVE  Written
    <3>1. items[s] \in Item
      BY DEF TypeOK, items
    <3>2. Reviewed(items[s], r, l) \in Item /\ Adjudicated(items[s], r, l) \in Item
      BY <3>1, TypeOfReviewed
    <3> QED
      BY <2>2, <3>2, TypeOfSaved DEF Review, Adjudicate
  <2>3. ASSUME NEW c \in Clerks, Refill(c) PROVE Written
    <3>1. clerk[c] \in Nat
      BY <2>3 DEF TypeOK, Refill
    <3> QED
      BY <2>3, <3>1, TypeOfPrepared DEF Refill, TypeOK
  <2> HIDE DEF Written
  <2> QED
    BY <2>1, <2>2, <2>3 DEF ReviewStep
<1>2. UNCHANGED <<stores, store, suiteVars, frozen, packVars, holdVars, ragger, cast>>
  BY DEF ReviewStep, Prepare, Review, Adjudicate, SaveReview, Refill, suiteVars
<1> QED
  BY <1>1, <1>2 DEF TypeOK, stores, store, suiteVars, packVars, holdVars

\* A frozen set has a verdict in each of its rows.
LEMMA TypeOfFrozen == ASSUME TypeOK, NEW t PROVE Frozen(t) \in RowFile
<1>1. ASSUME NEW s \in Taken(t) PROVE items[s].label \in Verdicts
  BY <1>1 DEF Taken, Additions, Extra, Approved
<1> QED
  BY <1>1 DEF Frozen, RowFile, TypeOK, Official, Rows

LEMMA TypeSuite == ASSUME TypeOK, SuiteStep \/ FreezeStep PROVE TypeOK'
<1>0. cast \in Casts /\ cast.generators \subseteq Generators
  BY CastsAssumption DEF TypeOK
<1>1. CASE SuiteStep
  <2>1. PICK g \in Generators : Generate(g)
    BY <1>0, <1>1 DEF SuiteStep
  <2>2. newest' \in Generators \cup {None} /\ started' \in Nat
    BY <2>1 DEF TypeOK, Generate, GenStart, GenRead, GenOpen, GenLayer1, GenLayer2, GenLayers,
                GenFresh, GenPublish, GenFails, BeginSuite
  <2> QED
    BY <1>1, <2>1, <2>2, TypeOfSuites
    DEF SuiteStep, TypeOK, stores, store, reviewVars, packVars, holdVars
<1>2. CASE FreezeStep
  <2>1. PICK g \in Generators, t \in Targets : Freeze(g, t)
    BY <1>0, <1>2 DEF FreezeStep
  <2>2. gen' \in [Generators -> Generation]
    BY <2>1, TypeOfThen DEF Freeze, BeginSuite, Then
  <2>3. frozen' \in RowFile
    BY <2>1, TypeOfFrozen DEF Freeze
  <2>4. started' \in Nat
    BY <2>1 DEF Freeze, BeginSuite, TypeOK
  <2> QED
    BY <1>2, <2>1, <2>2, <2>3, <2>4
    DEF FreezeStep, Freeze, TypeOK, stores, store, packVars, holdVars
<1> QED
  BY <1>1, <1>2

LEMMA TypePack == ASSUME TypeOK, PackStep PROVE TypeOK'
<1>1. builder' \in [pc : {"idle", "select"}, reserved : SUBSET Samples, held : SUBSET Samples]
  <2>1. CASE PackRead
    <3>1. ActiveSuite \subseteq Samples
      <4>1. newest # None => folder[newest] \in Folder
        BY DEF TypeOK
      <4> QED
        BY <4>1, RowsOfFile DEF ActiveSuite, Folder
    <3>2. Items \subseteq Samples
      BY DEF Items
    <3> QED
      BY <2>1, <3>1, <3>2 DEF PackRead, Reserved, TypeOK
  <2>2. CASE PackWrite
    BY <2>2 DEF PackWrite, NotBuilding
  <2> QED
    BY <2>1, <2>2 DEF PackStep, Build
<1> QED
  BY <1>1 DEF PackStep, TypeOK, stores, store, reviewVars, suiteVars, holdVars

LEMMA TypeHold == ASSUME TypeOK, HoldStep PROVE TypeOK'
<1>1. Balanced \subseteq Samples
  BY DEF Balanced, First, CandidatePool, Labelled
<1>2. Discoverable \subseteq Samples
  <2>1. Named(rag) \subseteq Samples
    BY DEF Named, Documents, TypeOK
  <2> QED
    BY <2>1, SamplesAssumption, RowsOfFile
    DEF Discoverable, CanonicalTraining, ReservedEvaluation, ExistingFresh, PublishedStrict,
        OperationalSeen, RagIds, TypeOK
<1>3. /\ strict' \subseteq Samples /\ staged' \subseteq Samples /\ generated' \subseteq Samples
      /\ holder' \in [pc : {"idle", "work"}, excluded : SUBSET Samples]
  BY <1>1, <1>2
  DEF HoldStep, HoldRead, HoldWrite, HoldPublish, Working, Nobody, TypeOK
<1> QED
  BY <1>3 DEF HoldStep, TypeOK, store, reviewVars, suiteVars, packVars

StoreType ==
  /\ rag \subseteq Documents /\ edges \subseteq Documents /\ indexed \subseteq Documents
  /\ hand \in [Writers -> SUBSET Documents]
  /\ rebuild \in [Rebuilders -> [pc : {"idle", "read", "loop"}, bare : BOOLEAN,
                                 todo : SUBSET Documents]]

\* Each transaction of the store.
LEMMA TypeOfWriters ==
  ASSUME StoreType, NEW p \in Writers, NEW d \in Documents,
         Insert(p, d) \/ Index(p) \/ WriterFails(p)
  PROVE  StoreType'
<1>1. /\ rag' \subseteq Documents /\ edges' \subseteq Documents /\ indexed' \subseteq Documents
      /\ hand' \in [Writers -> SUBSET Documents]
  BY DEF StoreType, Insert, Index, WriterFails
<1>2. UNCHANGED rebuild
  BY DEF Insert, Index, WriterFails
<1> QED
  BY <1>1, <1>2 DEF StoreType

LEMMA TypeOfRebuilds ==
  ASSUME StoreType, NEW r \in Rebuilders, RebuildRead(r) \/ RebuildGoesOn(r)
  PROVE  StoreType'
<1> DEFINE Work == [pc : {"idle", "read", "loop"}, bare : BOOLEAN, todo : SUBSET Documents]
<1>0. rebuild \in [Rebuilders -> Work] /\ rebuild[r] \in Work
  BY DEF StoreType
<1>1. CASE RebuildRead(r)
  <2>1. PICK b \in BOOLEAN : b = (edges = {})
    OBVIOUS
  <2>2. [rebuild[r] EXCEPT !.pc = "read", !.bare = b] \in Work
    BY <1>0
  <2>3. rebuild' = [rebuild EXCEPT ![r] = [rebuild[r] EXCEPT !.pc = "read", !.bare = b]]
    BY <1>0, <1>1, <2>1 DEF RebuildRead
  <2> HIDE DEF Work
  <2>4. rebuild' \in [Rebuilders -> Work]
    BY <1>0, <2>2, <2>3
  <2> QED
    BY <1>1, <2>4 DEF RebuildRead, StoreType, Work
<1>2. CASE RebuildBegin(r)
  <2>1. PICK believed \in SUBSET Documents :
          believed = IF rebuild[r].bare /\ rag # {} THEN {} ELSE indexed
    BY DEF StoreType
  <2>2. [rebuild[r] EXCEPT !.pc = "loop", !.todo = rag \ believed] \in Work
    BY <1>0 DEF StoreType
  <2>3. /\ indexed' = believed /\ UNCHANGED <<rag, edges, hand>>
        /\ rebuild' = [rebuild EXCEPT ![r] = [rebuild[r] EXCEPT !.pc = "loop", !.todo = rag \ believed]]
    BY <1>0, <1>2, <2>1 DEF RebuildBegin
  <2> HIDE DEF Work
  <2>4. rebuild' \in [Rebuilders -> Work]
    BY <1>0, <2>2, <2>3
  <2> QED
    BY <2>3, <2>4 DEF StoreType, Work
<1>3. CASE RebuildDoc(r)
  <2>1. PICK d \in rebuild[r].todo :
          /\ edges' = edges \cup {d} /\ indexed' = indexed \cup {d}
          /\ rebuild' = [rebuild EXCEPT ![r].todo = @ \ {d}]
    BY <1>3 DEF RebuildDoc
  <2>2. d \in Documents /\ [rebuild[r] EXCEPT !.todo = @ \ {d}] \in Work
    BY <1>0
  <2>3. rebuild' = [rebuild EXCEPT ![r] = [rebuild[r] EXCEPT !.todo = @ \ {d}]]
    BY <1>0, <2>1
  <2> HIDE DEF Work
  <2>4. rebuild' \in [Rebuilders -> Work]
    BY <1>0, <2>2, <2>3
  <2> QED
    BY <1>3, <2>1, <2>2, <2>4 DEF RebuildDoc, StoreType, Work
<1>4. CASE RebuildEnd(r) \/ RebuildFails(r)
  <2>1. NoRebuild \in Work
    BY DEF NoRebuild
  <2> HIDE DEF Work
  <2>2. rebuild' \in [Rebuilders -> Work]
    BY <1>0, <1>4, <2>1 DEF RebuildEnd, RebuildFails
  <2> QED
    BY <1>4, <2>2 DEF RebuildEnd, RebuildFails, StoreType, Work
<1> QED
  BY <1>1, <1>2, <1>3, <1>4 DEF RebuildGoesOn

LEMMA TypeOfDeletions ==
  ASSUME StoreType, NEW barred, Prune(barred) \/ Reset PROVE StoreType'
BY DEF StoreType, Prune, Reset

LEMMA StoreNames == /\ "corpus" \in Writers /\ "index" \in Writers /\ "corpus" \in Rebuilders
               /\ Retrievals \subseteq Rebuilders
               /\ \A s \in Samples : <<"structured", s>> \in Documents /\ <<"case", s>> \in Documents
BY DEF Writers, Rebuilders, Documents

LEMMA TypeIndexBuild == ASSUME TypeOK, Retrieve \/ IndexBuild PROVE StoreType'
<1>0. StoreType
  BY DEF TypeOK, StoreType
<1>1. CASE Retrieve
  BY <1>0, <1>1, StoreNames, TypeOfRebuilds DEF Retrieve
<1>2. ASSUME NEW s \in seen \cup LabelledByHand, Insert("index", <<"case", s>>) PROVE StoreType'
  <2>1. s \in Samples
    BY DEF TypeOK, LabelledByHand
  <2> QED
    BY <1>0, <1>2, <2>1, StoreNames, TypeOfWriters
<1>3. CASE Index("index") \/ WriterFails("index")
  <2>1. Samples = {} \/ \E s \in Samples : TRUE
    OBVIOUS
  <2>2. Documents # {}
    BY <1>0, <1>3, StoreNames DEF StoreType, Index, WriterFails
  <2> QED
    BY <1>0, <1>3, <2>2, StoreNames, TypeOfWriters
<1>4. CASE Reset
  BY <1>0, <1>4, TypeOfDeletions
<1> QED
  BY <1>1, <1>2, <1>3, <1>4 DEF IndexBuild

LEMMA TypeCorpus ==
  ASSUME TypeOK, CorpusBuild
  PROVE  /\ StoreType'
         /\ ragger' \in [pc : {"idle", "prune", "add", "rebuild"}, excluded : SUBSET Samples,
                         todo : SUBSET Samples, pruned : BOOLEAN, barred : SUBSET Samples]
<1> DEFINE Corpus == [pc : {"idle", "prune", "add", "rebuild"}, excluded : SUBSET Samples,
                      todo : SUBSET Samples, pruned : BOOLEAN, barred : SUBSET Samples]
<1>0. StoreType /\ ragger \in Corpus
  BY DEF TypeOK, StoreType
<1>a. RagOver \in Corpus
  BY <1>0 DEF RagOver, NoRagger
<1>1. CASE RagRead
  <2>1. RagExcluded \subseteq Samples
    BY SamplesAssumption, FreshOutside DEF RagExcluded, TypeOK
  <2> QED
    BY <1>0, <1>1, <2>1 DEF RagRead, store, StoreType
<1>2. CASE RagPrune
  <2>1. PICK useful \in SUBSET FreshCandidates(ragger.excluded, RagSize) :
          ragger' = [ragger EXCEPT !.pc = "add", !.todo = useful, !.barred = ragger.excluded,
                                   !.pruned = Stale(ragger.excluded) # {}]
    BY <1>2 DEF RagPrune
  <2>2. useful \subseteq Samples
    BY <2>1, FreshOutside
  <2>3. ragger' \in Corpus
    BY <1>0, <2>1, <2>2
  <2>4. StoreType'
    BY <1>0, <1>2, TypeOfDeletions DEF RagPrune
  <2> QED
    BY <2>3, <2>4
<1>3. CASE RagAdd
  <2>1. PICK s \in ragger.todo :
          Insert("corpus", <<"structured", s>>) /\ ragger' = [ragger EXCEPT !.todo = @ \ {s}]
    BY <1>3 DEF RagAdd
  <2>2. s \in Samples /\ ragger.todo \ {s} \subseteq Samples
    BY <1>0, <2>1
  <2>3. ragger' \in Corpus
    BY <1>0, <2>1, <2>2
  <2>4. StoreType'
    BY <1>0, <2>1, <2>2, StoreNames, TypeOfWriters
  <2> QED
    BY <2>3, <2>4
<1>4. CASE RagIndex
  <2>1. Index("corpus") /\ UNCHANGED ragger
    BY <1>4 DEF RagIndex
  <2>2. Documents # {}
    BY <1>0, <2>1, StoreNames DEF StoreType, Index
  <2> QED
    BY <1>0, <2>1, <2>2, StoreNames, TypeOfWriters
<1>5. CASE RagEnd
  <2>1. CASE RebuildRead("corpus") /\ ragger' = [ragger EXCEPT !.pc = "rebuild"]
    <3>1. ragger' \in Corpus
      BY <1>0, <2>1
    <3> QED
      BY <1>0, <2>1, <3>1, StoreNames, TypeOfRebuilds
  <2>2. CASE UNCHANGED store /\ ragger' = RagOver
    BY <1>0, <1>a, <2>2 DEF store, StoreType
  <2> QED
    BY <1>5, <2>1, <2>2 DEF RagEnd
<1>6. CASE RagRebuild
  <2>1. ragger' \in Corpus
    BY <1>0, <1>a, <1>6 DEF RagRebuild
  <2> QED
    BY <1>0, <1>6, <2>1, StoreNames, TypeOfRebuilds DEF RagRebuild
<1>7. CASE RagFails
  BY <1>0, <1>a, <1>7, StoreNames DEF RagFails, StoreType
<1> QED
  BY <1>1, <1>2, <1>3, <1>4, <1>5, <1>6, <1>7 DEF CorpusBuild

LEMMA TypeRag == ASSUME TypeOK, RagStep PROVE TypeOK'
<1>1. /\ StoreType'
      /\ ragger' \in [pc : {"idle", "prune", "add", "rebuild"}, excluded : SUBSET Samples,
                      todo : SUBSET Samples, pruned : BOOLEAN, barred : SUBSET Samples]
  <2>1. CASE CorpusBuild
    BY <2>1, TypeCorpus
  <2>2. CASE (Retrieve \/ IndexBuild) /\ UNCHANGED ragger
    BY <2>2, TypeIndexBuild DEF TypeOK
  <2> QED
    BY <2>1, <2>2 DEF RagStep
<1> QED
  BY <1>1 DEF RagStep, TypeOK, StoreType, stores, reviewVars, suiteVars, packVars, holdVars

LEMMA TypeStep == ASSUME TypeOK, [Next]_vars PROVE TypeOK'
<1>1. CASE Train
  BY <1>1, CastsAssumption
  DEF Train, TypeOK, store, reviewVars, suiteVars, packVars, holdVars
<1>2. CASE JudgeSample
  BY <1>2, CastsAssumption
  DEF JudgeSample, TypeOK, store, reviewVars, suiteVars, packVars, holdVars
<1>3. CASE UNCHANGED vars
  BY <1>3 DEF vars, TypeOK, stores, store, reviewVars, suiteVars, packVars, holdVars
<1> QED
  BY <1>1, <1>2, <1>3, TypeReview, TypeSuite, TypePack, TypeHold, TypeRag DEF Next

\* Every file and table keeps its type, whatever runs beside whatever
\* (DataLifecycle: review, suites, packs, holdouts, corpora).
THEOREM TypeCorrect == Spec => []TypeOK
<1> QED
  BY TypeInit, TypeStep, PTL DEF Spec

(* ------------------------------ the graph ----------------------------- *)

LEMMA RagInit == ASSUME Init PROVE RagInv
<1>1. \A r \in Rebuilders : rebuild[r].pc = "idle"
  BY DEF Init, StoreInit, NoRebuild
<1>2. hand["corpus"] = {} /\ hand["index"] = {}
  BY StoreNames DEF Init, StoreInit
<1> QED
  BY <1>1, <1>2 DEF Init, StoreInit, RagInv, NoRagger, Structured

\* A writer's transaction: no rebuild is at work.
LEMMA WriterKeeps ==
  ASSUME TypeOK, RagInv, NEW d \in Documents, UNCHANGED <<ragger, cast>>,
         \/ Index("corpus")
         \/ d \notin Structured(Samples) /\ Insert("index", d)
         \/ Index("index") \/ WriterFails("index")
  PROVE  RagInv'
<1> USE DEF RagInv
<1>0. /\ hand \in [Writers -> SUBSET Documents] /\ "index" # "corpus"
      /\ Structured(ragger.barred) \subseteq Structured(Samples)
  BY DEF TypeOK, Structured
<1>1. UNCHANGED rebuild
  BY DEF Insert, Index, WriterFails
<1>2. CASE Index("corpus")
  <2>1. hand'["corpus"] = {} /\ hand'["index"] = hand["index"]
    BY <1>0, <1>2, StoreNames DEF Index
  <2>2. \A r \in Rebuilders : rebuild[r].pc # "loop"
    BY <1>2 DEF Index, Quiet
  <2> QED
    BY <1>1, <1>2, <2>1, <2>2 DEF Index, Structured
<1>3. CASE d \notin Structured(Samples) /\ Insert("index", d)
  <2>1. hand'["index"] = {d} /\ hand'["corpus"] = hand["corpus"]
    BY <1>0, <1>3, StoreNames DEF Insert
  <2>2. \A r \in Rebuilders : rebuild[r].pc # "loop"
    BY <1>3 DEF Insert, Quiet
  <2>3. rag' = rag \cup {d} /\ UNCHANGED <<edges, indexed>>
    BY <1>3 DEF Insert
  <2>4. Structured(ragger.barred)' = Structured(ragger.barred) /\ Structured(Samples)' = Structured(Samples)
    BY DEF Structured
  <2> QED
    BY <1>0, <1>1, <1>3, <2>1, <2>2, <2>3, <2>4
<1>4. CASE Index("index")
  <2>1. hand'["index"] = {} /\ hand'["corpus"] = hand["corpus"]
    BY <1>0, <1>4, StoreNames DEF Index
  <2>2. \A r \in Rebuilders : rebuild[r].pc # "loop"
    BY <1>4 DEF Index, Quiet
  <2> QED
    BY <1>1, <1>4, <2>1, <2>2 DEF Index, Structured
<1>5. CASE WriterFails("index")
  <2>1. hand'["index"] = {} /\ hand'["corpus"] = hand["corpus"]
    BY <1>0, <1>5, StoreNames DEF WriterFails
  <2> QED
    BY <1>1, <1>5, <2>1 DEF WriterFails, Structured
<1> QED
  BY <1>2, <1>3, <1>4, <1>5

\* A rebuild gives facts to documents that are there.
LEMMA RebuildKeeps ==
  ASSUME TypeOK, RagInv, NEW x \in Rebuilders, RebuildRead(x) \/ RebuildGoesOn(x),
         UNCHANGED cast, ragger'.barred = ragger.barred,
         ragger'.pc = "add" => UNCHANGED ragger,
         ragger'.pc # "add" => hand["corpus"] = {}
  PROVE  RagInv'
<1> USE DEF RagInv
<1> DEFINE Works(r) == rebuild[r].todo \subseteq rag /\ rag \subseteq indexed \cup rebuild[r].todo
<1>0. rebuild \in [Rebuilders -> [pc : {"idle", "read", "loop"}, bare : BOOLEAN,
                                  todo : SUBSET Documents]]
  BY DEF TypeOK
<1>1. UNCHANGED <<rag, hand>>
  BY DEF RebuildRead, RebuildGoesOn, RebuildBegin, RebuildDoc, RebuildEnd, RebuildFails
<1>2. /\ edges' \subseteq edges \cup rag /\ indexed' \subseteq edges'
      /\ \A r \in Rebuilders : rebuild'[r].pc = "loop" => Works(r)'
  <2>1. CASE RebuildRead(x)
    <3>1. UNCHANGED <<rag, edges, indexed>> /\ rebuild'[x].pc = "read"
          /\ \A r \in Rebuilders \ {x} : rebuild'[r] = rebuild[r]
      BY <1>0, <2>1 DEF RebuildRead
    <3> QED
      BY <3>1
  <2>2. CASE RebuildBegin(x)
    <3>1. \A r \in Rebuilders \ {x} : rebuild'[r].pc # "loop"
      BY <1>0, <2>2 DEF RebuildBegin, Quiet
    <3>2. PICK believed : believed = IF rebuild[x].bare /\ rag # {} THEN {} ELSE indexed
      OBVIOUS
    <3>3. rebuild'[x].todo = rag \ believed /\ indexed' = believed /\ UNCHANGED <<rag, edges>>
      BY <1>0, <2>2, <3>2 DEF RebuildBegin
    <3> QED
      BY <3>1, <3>2, <3>3
  <2>3. CASE RebuildDoc(x)
    <3>1. PICK d \in rebuild[x].todo :
            /\ edges' = edges \cup {d} /\ indexed' = indexed \cup {d}
            /\ rebuild' = [rebuild EXCEPT ![x].todo = @ \ {d}]
      BY <2>3 DEF RebuildDoc
    <3>2. d \in rag /\ rebuild[x].pc = "loop"
      BY <2>3, <3>1 DEF RebuildDoc
    <3>3. /\ rebuild'[x].todo = rebuild[x].todo \ {d}
          /\ \A r \in Rebuilders \ {x} : rebuild'[r] = rebuild[r]
      BY <1>0, <3>1
    <3> QED
      BY <1>1, <3>1, <3>2, <3>3
  <2>4. CASE RebuildEnd(x) \/ RebuildFails(x)
    <3>1. UNCHANGED <<rag, edges, indexed>> /\ rebuild'[x].pc = "idle"
          /\ \A r \in Rebuilders \ {x} : rebuild'[r] = rebuild[r]
      BY <1>0, <2>4 DEF RebuildEnd, RebuildFails, NoRebuild
    <3> QED
      BY <3>1
  <2> QED
    BY <2>1, <2>2, <2>3, <2>4 DEF RebuildGoesOn
<1>3. "reset" \notin cast.runs => (edges' \cup hand["corpus"]) \cap Structured(Samples) \subseteq rag
  BY <1>2
<1>4. Structured(ragger'.barred) = Structured(ragger.barred)
  OBVIOUS
<1>5. ragger'.pc = "add" =>
        ragger'.barred = ragger'.excluded /\ ragger'.todo \cap ragger'.excluded = {}
  OBVIOUS
<1> QED
  BY <1>1, <1>2, <1>3, <1>4, <1>5 DEF Structured

\* A prune takes the graph with it.
LEMMA PruneKeeps == ASSUME TypeOK, RagInv, UNCHANGED cast, RagPrune PROVE RagInv'
<1> USE DEF RagInv
<1>1. PICK useful \in SUBSET FreshCandidates(ragger.excluded, RagSize) :
        ragger' = [ragger EXCEPT !.pc = "add", !.todo = useful, !.barred = ragger.excluded,
                                 !.pruned = Stale(ragger.excluded) # {}]
  BY DEF RagPrune
<1>2. useful \cap ragger.excluded = {}
  BY <1>1, FreshOutside
<1>3. /\ ragger'.barred = ragger.excluded /\ ragger'.excluded = ragger.excluded
      /\ ragger'.todo = useful /\ ragger'.pc = "add"
  BY <1>1 DEF TypeOK
<1>4. /\ UNCHANGED <<hand, rebuild>> /\ hand["corpus"] = {}
      /\ \A r \in Rebuilders : rebuild[r].pc # "loop"
      /\ rag' = rag \ Stale(ragger.excluded)
  BY DEF RagPrune, Prune, Quiet
<1>5. /\ Structured(ragger'.barred) = Structured(ragger.excluded)
      /\ rag' \cap Structured(ragger.excluded) = {}
  BY <1>3, <1>4 DEF Stale
<1>6. CASE Stale(ragger.excluded) = {}
  <2>1. rag' = rag /\ UNCHANGED <<edges, indexed>>
    BY <1>4, <1>6 DEF RagPrune, Prune
  <2> QED
    BY <1>2, <1>3, <1>4, <1>5, <2>1 DEF Structured
<1>7. CASE Stale(ragger.excluded) # {}
  <2>1. edges' = {} /\ indexed' = {}
    BY <1>7 DEF RagPrune, Prune
  <2> QED
    BY <1>2, <1>3, <1>4, <1>5, <2>1 DEF Structured
<1> QED
  BY <1>6, <1>7

LEMMA CorpusKeeps == ASSUME TypeOK, RagInv, UNCHANGED cast, CorpusBuild PROVE RagInv'
<1>1. CASE RagRead
  BY <1>1 DEF RagInv, RagRead, store, TypeOK
<1>2. CASE RagPrune
  BY <1>2, PruneKeeps
<1>3. CASE RagAdd
  <2>1. PICK s \in ragger.todo :
          Insert("corpus", <<"structured", s>>) /\ ragger' = [ragger EXCEPT !.todo = @ \ {s}]
    BY <1>3 DEF RagAdd
  <2>2. /\ ragger.pc = "add" /\ ragger'.pc = "add" /\ ragger'.barred = ragger.barred
        /\ ragger'.excluded = ragger.excluded /\ ragger'.todo = ragger.todo \ {s}
        /\ s \notin ragger.barred
    BY <1>3, <2>1 DEF RagAdd, RagInv, TypeOK
  <2>3. PICK d \in Documents : d = <<"structured", s>> /\ d \notin Structured(ragger.barred)
    <3>1. s \in Samples
      BY <2>1 DEF TypeOK
    <3> QED
      BY <2>2, <3>1, StoreNames DEF Structured
  <2>4. /\ rag' = rag \cup {d} /\ UNCHANGED <<edges, indexed, rebuild>>
        /\ hand'["corpus"] = {d} /\ hand'["index"] = hand["index"]
    BY <2>1, <2>3, StoreNames DEF Insert, TypeOK
  <2>5. \A r \in Rebuilders : rebuild[r].pc # "loop"
    BY <2>1 DEF Insert, Quiet
  <2> QED
    BY <2>2, <2>3, <2>4, <2>5 DEF RagInv
<1>4. CASE RagIndex
  <2>1. Documents # {}
    BY <1>4, StoreNames DEF RagIndex, Index, TypeOK
  <2> QED
    BY <1>4, <2>1, WriterKeeps DEF RagIndex
<1>5. CASE RagEnd
  <2>1. CASE UNCHANGED store /\ ragger' = RagOver
    <3>1. /\ ragger'.pc = "idle" /\ ragger'.barred = ragger.barred
          /\ hand["corpus"] = {} /\ UNCHANGED store
      BY <1>5, <2>1 DEF RagEnd, RagOver, NoRagger
    <3> QED
      BY <3>1 DEF RagInv, store
  <2>2. CASE RebuildRead("corpus") /\ ragger' = [ragger EXCEPT !.pc = "rebuild"]
    <3>1. ragger'.pc = "rebuild" /\ ragger'.barred = ragger.barred /\ hand["corpus"] = {}
      BY <1>5, <2>2 DEF RagEnd, TypeOK
    <3> QED
      BY <2>2, <3>1, StoreNames, RebuildKeeps
  <2> QED
    BY <1>5, <2>1, <2>2 DEF RagEnd
<1>6. CASE RagRebuild
  <2>1. /\ ragger'.pc \in {"rebuild", "idle"} /\ ragger'.barred = ragger.barred
        /\ hand["corpus"] = {} /\ RebuildGoesOn("corpus")
    BY <1>6 DEF RagRebuild, RagOver, NoRagger, RagInv
  <2> QED
    BY <2>1, StoreNames, RebuildKeeps
<1>7. CASE RagFails
  <2>1. /\ ragger'.pc = "idle" /\ ragger'.barred = ragger.barred
        /\ hand'["corpus"] = {} /\ hand'["index"] = hand["index"]
        /\ UNCHANGED <<rag, edges, indexed, rebuild>>
    BY <1>7, StoreNames DEF RagFails, RagOver, NoRagger, TypeOK
  <2> QED
    BY <2>1 DEF RagInv, Structured
<1> QED
  BY <1>1, <1>2, <1>3, <1>4, <1>5, <1>6, <1>7 DEF CorpusBuild

LEMMA RagStepKeeps == ASSUME TypeOK, RagInv, RagStep PROVE RagInv'
<1>0. UNCHANGED cast
  BY DEF RagStep
<1>1. CASE CorpusBuild
  BY <1>0, <1>1, CorpusKeeps
<1>2. CASE Retrieve /\ UNCHANGED ragger
  <2>1. PICK r \in Retrievals : RebuildRead(r) \/ RebuildGoesOn(r)
    BY <1>2 DEF Retrieve
  <2>2. ragger'.barred = ragger.barred /\ (ragger'.pc # "add" => hand["corpus"] = {})
    BY <1>2 DEF RagInv
  <2> QED
    BY <1>0, <1>2, <2>1, <2>2, StoreNames, RebuildKeeps
<1>3. CASE IndexBuild /\ UNCHANGED ragger
  <2>1. ASSUME NEW s \in seen \cup LabelledByHand, Insert("index", <<"case", s>>) PROVE RagInv'
    <3>1. s \in Samples
      BY DEF TypeOK, LabelledByHand
    <3>2. PICK d \in Documents : d = <<"case", s>> /\ d \notin Structured(Samples)
      BY <3>1, StoreNames DEF Structured
    <3> QED
      BY <1>0, <1>3, <2>1, <3>2, WriterKeeps
  <2>2. CASE Index("index") \/ WriterFails("index")
    <3>1. Documents # {}
      BY <2>2, StoreNames DEF Index, WriterFails, TypeOK
    <3> QED
      BY <1>0, <1>3, <2>2, <3>1, WriterKeeps
  <2>3. CASE "reset" \in cast.runs /\ Reset
    BY <1>0, <1>3, <2>3 DEF RagInv, Reset, Quiet
  <2> QED
    BY <1>3, <2>1, <2>2, <2>3 DEF IndexBuild
<1> QED
  BY <1>1, <1>2, <1>3 DEF RagStep

LEMMA RagKeeps == ASSUME TypeOK, RagInv, [Next]_vars PROVE RagInv'
<1>1. CASE RagStep
  BY <1>1, RagStepKeeps
<1>2. CASE ~RagStep
  <2>1. UNCHANGED <<store, ragger, cast>>
    BY <1>2 DEF Next, ReviewStep, FreezeStep, SuiteStep, PackStep, HoldStep, Train, JudgeSample, vars
  <2> QED
    BY <2>1 DEF RagInv, store
<1> QED
  BY <1>1, <1>2

\* Retrieval has forgotten the structured documents of what the last corpus build barred
\* (BarredIsGone; five_layer.py, build_structured_rag_corpus), for any samples, and
\* however builds and rebuilds fail between their transactions.
THEOREM BarredStaysGone == Spec => []BarredIsGone
<1>1. TypeOK /\ RagInv => BarredIsGone
  <2> SUFFICES ASSUME TypeOK, RagInv PROVE BarredIsGone
    OBVIOUS
  <2>1. Structured(ragger.barred) \subseteq Structured(Samples)
    BY DEF TypeOK, Structured
  <2> QED
    BY <2>1 DEF RagInv, BarredIsGone
<1> QED
  BY <1>1, TypeInit, TypeStep, RagInit, RagKeeps, PTL DEF Spec

\* Each rebuild that gets to its end (store.py, rebuild_graph_index) leaves the graph
\* with the facts of every document (GraphIsComplete), although each document and each
\* step of a rebuild is committed on its own and any of them may be the last.
THEOREM GraphWhole == Spec => GraphIsComplete
<1>1. ASSUME RagInv, NEW r \in Rebuilders, RebuildEnd(r) PROVE rag \subseteq edges'
  <2>1. rag \subseteq indexed /\ UNCHANGED edges
    BY <1>1 DEF RagInv, RebuildEnd
  <2> QED
    BY <1>1, <2>1 DEF RagInv
<1>2. RagInv => [\A r \in Rebuilders : RebuildEnd(r) => rag \subseteq edges']_vars
  BY <1>1
<1> QED
  BY <1>2, TypeInit, TypeStep, RagInit, RagKeeps, PTL DEF Spec, GraphIsComplete

(* ----------------------------- the boundary --------------------------- *)

LEMMA PackInit == ASSUME Init PROVE PackInv
BY DEF Init, PackInv, PackKeepsBoundary, TrainedOn, NotBuilding, NoPack, Groups

LEMMA PackWritten == ASSUME PackInv, PackWrite PROVE PackKeepsBoundary'
<1> DEFINE trainable == Outside(builder.reserved)
<1>1. PICK cal \in Selections(trainable \cap Enriched, CalTarget, 1) :
        \E core \in Selections(trainable \cap Outside(cal), CoreTarget, PerGroup) :
        \E expansion \in Selections((trainable \cap Outside(cal)) \ core, ExpansionTarget, PerGroup),
           success \in SUBSET TracePairs(builder.reserved \cup cal) :
          pack' = [cal |-> cal, sft |-> core \cup expansion,
                   dpo |-> TracePairs(builder.reserved \cup cal), success |-> success,
                   docs |-> RetrievalRows(builder.reserved \cup cal),
                   passed |-> QualityPasses(builder.reserved, cal, core \cup expansion,
                                            TracePairs(builder.reserved \cup cal), success),
                   held |-> builder.held]
  BY Zenon DEF PackWrite
<1>2. PICK core \in Selections(trainable \cap Outside(cal), CoreTarget, PerGroup) :
        \E expansion \in Selections((trainable \cap Outside(cal)) \ core, ExpansionTarget, PerGroup),
           success \in SUBSET TracePairs(builder.reserved \cup cal) :
          pack' = [cal |-> cal, sft |-> core \cup expansion,
                   dpo |-> TracePairs(builder.reserved \cup cal), success |-> success,
                   docs |-> RetrievalRows(builder.reserved \cup cal),
                   passed |-> QualityPasses(builder.reserved, cal, core \cup expansion,
                                            TracePairs(builder.reserved \cup cal), success),
                   held |-> builder.held]
  BY <1>1, Zenon
<1>3. PICK expansion \in Selections((trainable \cap Outside(cal)) \ core, ExpansionTarget, PerGroup),
           success \in SUBSET TracePairs(builder.reserved \cup cal) :
          pack' = [cal |-> cal, sft |-> core \cup expansion,
                   dpo |-> TracePairs(builder.reserved \cup cal), success |-> success,
                   docs |-> RetrievalRows(builder.reserved \cup cal),
                   passed |-> QualityPasses(builder.reserved, cal, core \cup expansion,
                                            TracePairs(builder.reserved \cup cal), success),
                   held |-> builder.held]
  BY <1>2, Zenon
<1>4. /\ pack'.cal = cal /\ pack'.sft = core \cup expansion
      /\ pack'.dpo = TracePairs(builder.reserved \cup cal)
      /\ pack'.success = success /\ pack'.held = builder.held
  BY <1>3
<1>5. ASSUME NEW s, s \in pack'.sft PROVE s \in trainable /\ s \in Outside(cal)
  BY <1>2, <1>3, <1>4, <1>5 DEF Selections
<1>6. ASSUME NEW s, s \in pack'.dpo \cup pack'.success PROVE s \in Outside(builder.reserved \cup cal)
  BY <1>3, <1>4, <1>6 DEF TracePairs
<1>7. ASSUME NEW s, s \in pack'.sft \cup pack'.dpo \cup pack'.success
      PROVE  /\ s \notin cal \cup builder.held
             /\ Group[s] \notin Groups((cal \cup builder.held) \cap Records)
  BY <1>5, <1>6, <1>7 DEF Outside, Groups, PackInv
<1> QED
  BY <1>4, <1>7 DEF PackKeepsBoundary, TrainedOn

LEMMA PackKeeps == ASSUME TypeOK, PackInv, [Next]_vars PROVE PackInv'
<1> USE DEF PackInv
<1>1. CASE PackStep
  <2>1. CASE PackRead
    BY <1>1, <2>1 DEF PackStep, PackRead, Reserved, PackKeepsBoundary, TrainedOn, stores, holdVars
  <2>2. CASE PackWrite
    BY <1>1, <2>2, PackWritten DEF PackStep, PackWrite, NotBuilding, stores, holdVars
  <2> QED
    BY <1>1, <2>1, <2>2 DEF PackStep, Build
<1>2. CASE HoldStep
  BY <1>2 DEF HoldStep, HoldRead, HoldWrite, HoldPublish, PackKeepsBoundary, TrainedOn, packVars
<1>3. CASE ~PackStep /\ ~HoldStep
  <2>1. UNCHANGED <<strict, generated, packVars, holdVars>>
    BY <1>3 DEF Next, ReviewStep, FreezeStep, SuiteStep, RagStep, Train, JudgeSample, vars, stores
  <2> QED
    BY <2>1 DEF packVars, holdVars, PackKeepsBoundary, TrainedOn
<1> QED
  BY <1>1, <1>2, <1>3

\* No training pack (corpus.py, build_training_corpora) trains on a sample that it
\* calibrates on or that was reserved when its build began, or on a near duplicate of one
\* that has a record (PackKeepsBoundary), whatever labels were given by hand.
THEOREM PacksKeepBoundary == Spec => []PackKeepsBoundary
<1>1. PackInv => PackKeepsBoundary
  BY DEF PackInv
<1> QED
  BY <1>1, TypeInit, TypeStep, PackInit, PackKeeps, PTL DEF Spec

(* ------------------------------- the gold ----------------------------- *)

LEMMA GoldInit == ASSUME Init PROVE GoldInv
<1>1. \A s \in Samples \ Base : NoRows[s] = None /\ FirstGold[s] = None
  BY DEF NoRows, FirstGold
<1>2. \A s \in Samples : ItemSound(items[s])
  BY DEF Init, NewState, Absent, items, ItemSound
<1>3. GoldOnly(frozen) /\ GoldOnly(suite.gold)
  BY <1>1 DEF Init, GoldOnly, NoSuite, FirstSuite
<1>4. \A g \in Generators : GoldOnly(gen[g].gold) /\ GoldOnly(folder[g].gold)
  BY <1>1 DEF Init, GoldOnly, Idle, Empty, FirstFolder
<1> QED
  BY <1>2, <1>3, <1>4 DEF GoldInv

\* An item that is still open for a review or a decision backs no label.
LEMMA OpenBacksNothing ==
  ASSUME NEW i \in Item, ItemSound(i), NEW l,
         i.status \in {"absent"} \cup Pending
  PROVE  ~Backed(i, l)
BY DEF ItemSound, Backed, Pending, Item

\* The second entry of a log of one leaves the first where it is.
LEMMA EntryAdded ==
  ASSUME NEW S, NEW q \in Seq(S), NEW e \in S
  PROVE  /\ Append(q, e) \in Seq(S) /\ Len(Append(q, e)) = Len(q) + 1
         /\ Append(q, e)[Len(q) + 1] = e
         /\ Len(q) >= 1 => Append(q, e)[1] = q[1]
<1>1. Append(q, e) \in Seq(S) /\ Len(Append(q, e)) = Len(q) + 1
  OBVIOUS
<1>2. Append(q, e)[Len(q) + 1] = e
  OBVIOUS
<1>3. Len(q) >= 1 => Append(q, e)[1] = q[1]
  OBVIOUS
<1> QED
  BY <1>1, <1>2, <1>3

\* A review or a decision leaves an item that keeps the promise of its status.
LEMMA ReviewSound ==
  ASSUME NEW i \in Item, ItemSound(i), NEW r \in Reviewers, NEW l \in Labels, MayReview(i, r)
  PROVE  ItemSound(Reviewed(i, r, l))
<1> DEFINE entry == [by |-> r, label |-> l]
           with == [i EXCEPT !.reviews = Append(@, entry)]
<1>0. i.reviews \in Seq(Reviewing) /\ entry \in Reviewing /\ i.judge = None
  BY DEF Item, Reviewing, ItemSound, MayReview
<1>1. CASE i.reviews = <<>>
  <2>1. with.reviews = <<entry>> /\ with.judge = None
    BY <1>0, <1>1 DEF Item
  <2>2. Reviewed(i, r, l) = [with EXCEPT !.status = "pending_second_review"]
    BY <1>1 DEF Reviewed
  <2>3. /\ Reviewed(i, r, l).status = "pending_second_review"
        /\ Reviewed(i, r, l).reviews = <<entry>> /\ Reviewed(i, r, l).judge = None
    BY <2>1, <2>2 DEF Item
  <2> QED
    BY <2>3 DEF ItemSound
<1>2. CASE i.reviews # <<>>
  <2>1. Len(i.reviews) = 1 /\ i.reviews[1].by # r
    BY <1>0, <1>2 DEF ItemSound, MayReview, Names, Item
  <2>2. /\ with.reviews \in Seq(Reviewing) /\ Len(with.reviews) = 2
        /\ with.reviews[1] = i.reviews[1] /\ with.reviews[2] = entry
        /\ with.judge = None
    <3>1. with.reviews = Append(i.reviews, entry) /\ with.judge = i.judge
      BY DEF Item
    <3>2. Len(i.reviews) >= 1 /\ Len(i.reviews) + 1 = 2
      BY <2>1
    <3>3. /\ Append(i.reviews, entry) \in Seq(Reviewing)
          /\ Len(Append(i.reviews, entry)) = Len(i.reviews) + 1
          /\ Append(i.reviews, entry)[Len(i.reviews) + 1] = entry
          /\ Len(i.reviews) >= 1 => Append(i.reviews, entry)[1] = i.reviews[1]
      BY <1>0, EntryAdded
    <3> HIDE DEF with, entry
    <3> QED
      BY <1>0, <3>1, <3>2, <3>3, Zenon
  <2>3. CASE i.reviews[1].label = l
    <3>1. Reviewed(i, r, l) = Settle(with, l, "approved")
      BY <1>2, <2>3 DEF Reviewed
    <3>2. /\ Reviewed(i, r, l).reviews = with.reviews /\ Reviewed(i, r, l).judge = None
          /\ \/ Reviewed(i, r, l).status = "rejected"
             \/ Reviewed(i, r, l).status = "approved" /\ Reviewed(i, r, l).label = l
      BY <2>2, <3>1 DEF Settle, Item
    <3> QED
      BY <2>1, <2>2, <2>3, <3>2 DEF ItemSound, Backed
  <2>4. CASE i.reviews[1].label # l
    <3>1. Reviewed(i, r, l) = [with EXCEPT !.label = None, !.status = "needs_adjudication"]
      BY <1>2, <2>4 DEF Reviewed
    <3>2. /\ Reviewed(i, r, l).reviews = with.reviews /\ Reviewed(i, r, l).judge = None
          /\ Reviewed(i, r, l).status = "needs_adjudication"
      BY <2>2, <3>1 DEF Item
    <3> QED
      BY <2>1, <2>2, <2>4, <3>2 DEF ItemSound
  <2> QED
    BY <2>3, <2>4
<1> QED
  BY <1>1, <1>2

LEMMA DecisionSound ==
  ASSUME NEW i \in Item, ItemSound(i), NEW r \in Reviewers, NEW l \in Labels,
         MayAdjudicate(i, r)
  PROVE  ItemSound(Adjudicated(i, r, l))
<1> DEFINE entry == [by |-> r, label |-> l]
           judged == [i EXCEPT !.judge = entry]
<1>1. entry # None
  BY ReviewAssumption
<1>2. /\ Len(i.reviews) = 2 /\ i.reviews[1].by # i.reviews[2].by
      /\ i.reviews[1].label # i.reviews[2].label
      /\ r \notin {i.reviews[1].by, i.reviews[2].by}
  BY DEF ItemSound, MayAdjudicate, Names, Item
<1>3. judged.reviews = i.reviews /\ judged.judge = entry
  BY DEF Item
<1>4. Adjudicated(i, r, l) = Settle(judged, l, "adjudicated")
  BY DEF Adjudicated
<1>5. /\ Adjudicated(i, r, l).reviews = i.reviews /\ Adjudicated(i, r, l).judge = entry
      /\ \/ Adjudicated(i, r, l).status = "rejected"
         \/ Adjudicated(i, r, l).status = "adjudicated" /\ Adjudicated(i, r, l).label = l
  BY <1>3, <1>4 DEF Settle, Item
<1> QED
  BY <1>1, <1>2, <1>5 DEF ItemSound, Backed

\* Only open items change, so whatever was backed still is.
LEMMA GoldSurvives ==
  ASSUME TypeOK, GoldInv, UNCHANGED <<frozen, suite, gen, folder>>,
         \A s \in Samples : ItemSound(items'[s]),
         \A s \in Samples : items'[s] = items[s] \/ items[s].status \in {"absent"} \cup Pending
  PROVE  GoldInv'
<1>1. ASSUME NEW s \in Samples, NEW l, Backed(items[s], l) PROVE Backed(items'[s], l)
  <2>1. items[s] \in Item
    BY DEF TypeOK, items
  <2> QED
    BY <1>1, <2>1, OpenBacksNothing DEF GoldInv
<1>2. \A f : GoldOnly(f) => \A s \in Samples \ Base : f[s] # None => Backed(items'[s], f[s])
  BY <1>1 DEF GoldOnly
<1>3. /\ \A s \in Samples \ Base : frozen[s] # None => Backed(items'[s], frozen[s])
      /\ \A s \in Samples \ Base : suite.gold[s] # None => Backed(items'[s], suite.gold[s])
  BY <1>2 DEF GoldInv
<1>4. \A g \in Generators, s \in Samples \ Base :
         /\ gen[g].gold[s] # None => Backed(items'[s], gen[g].gold[s])
         /\ folder[g].gold[s] # None => Backed(items'[s], folder[g].gold[s])
  BY <1>2 DEF GoldInv
<1> QED
  BY <1>3, <1>4 DEF GoldInv, GoldOnly

LEMMA GoldPrepared ==
  ASSUME TypeOK, GoldInv, NEW t \in Nat, review' = Prepared(t),
         UNCHANGED <<frozen, suite, gen, folder>>
  PROVE  GoldInv'
<1>1. \A s \in Chosen(t) : items[s].status = "absent"
  <2>1. \A S, n : First(S, n) \subseteq S
    BY DEF First
  <2>2. \A S, l : Labelled(S, l) \subseteq S
    BY DEF Labelled
  <2>3. Chosen(t) \subseteq Free
    BY <2>1, <2>2 DEF Chosen
  <2> QED
    BY <2>3, RowsOfFile DEF Free, Items, Release
<1>2. \A s \in Samples : items'[s] = IF s \in Chosen(t) THEN Candidate ELSE items[s]
  BY DEF Prepared, items, TypeOK
<1>3. ItemSound(Candidate)
  BY DEF Candidate, Absent, ItemSound
<1>4. \A s \in Samples : ItemSound(items'[s])
  BY <1>2, <1>3 DEF GoldInv
<1>5. \A s \in Samples : items'[s] = items[s] \/ items[s].status \in {"absent"} \cup Pending
  BY <1>1, <1>2
<1> QED
  BY <1>4, <1>5, GoldSurvives

LEMMA GoldSaved ==
  ASSUME TypeOK, GoldInv, NEW c \in Clerks, NEW s \in Samples, NEW i,
         items[s].status \in Pending, ItemSound(i), SaveReview(c, s, i),
         UNCHANGED <<suite, gen, folder>>
  PROVE  GoldInv'
<1>1. items' = [items EXCEPT ![s] = i]
  BY DEF SaveReview, items, TypeOK
<1>2. \A x \in Samples : items'[x] = IF x = s THEN i ELSE items[x]
  BY <1>1 DEF TypeOK, items
<1>3. \A x \in Samples : ItemSound(items'[x])
  BY <1>2 DEF GoldInv
<1>4. \A x \in Samples : items'[x] = items[x] \/ items[x].status \in {"absent"} \cup Pending
  BY <1>2
<1> QED
  BY <1>3, <1>4, GoldSurvives DEF SaveReview

LEMMA GoldReviewKeeps == ASSUME TypeOK, GoldInv, ReviewStep PROVE GoldInv'
<1>0. UNCHANGED <<suite, gen, folder>>
  BY DEF ReviewStep, suiteVars
<1>1. ASSUME NEW t \in Targets, Prepare(t) PROVE GoldInv'
  BY <1>0, <1>1, GoldPrepared, ReviewAssumption DEF Prepare
<1>2. ASSUME NEW c \in Clerks, NEW s \in Samples, NEW r \in Reviewers, NEW l \in Labels,
             Review(c, s, r, l) \/ Adjudicate(c, s, r, l)
      PROVE  GoldInv'
  <2>1. items[s] \in Item /\ ItemSound(items[s])
    BY DEF TypeOK, items, GoldInv
  <2>2. CASE Review(c, s, r, l)
    <3>1. MayReview(items[s], r) /\ SaveReview(c, s, Reviewed(items[s], r, l))
      BY <2>2 DEF Review
    <3>2. items[s].status \in Pending
      BY <3>1 DEF MayReview, Pending
    <3>3. ItemSound(Reviewed(items[s], r, l))
      BY <2>1, <3>1, ReviewSound
    <3> QED
      BY <1>0, <3>1, <3>2, <3>3, GoldSaved
  <2>3. CASE Adjudicate(c, s, r, l)
    <3>1. MayAdjudicate(items[s], r) /\ SaveReview(c, s, Adjudicated(items[s], r, l))
      BY <2>3 DEF Adjudicate
    <3>2. items[s].status \in Pending
      BY <3>1 DEF MayAdjudicate, Pending
    <3>3. ItemSound(Adjudicated(items[s], r, l))
      BY <2>1, <3>1, DecisionSound
    <3> QED
      BY <1>0, <3>1, <3>2, <3>3, GoldSaved
  <2> QED
    BY <1>2, <2>2, <2>3
<1>3. ASSUME NEW c \in Clerks, Refill(c) PROVE GoldInv'
  <2>1. clerk[c] \in Nat /\ UNCHANGED frozen
    BY <1>3 DEF Refill, TypeOK
  <2>2. CASE MayPrepare(clerk[c])
    BY <1>0, <1>3, <2>1, <2>2, GoldPrepared DEF Refill
  <2>3. CASE ~MayPrepare(clerk[c])
    BY <1>0, <1>3, <2>1, <2>3 DEF Refill, GoldInv, GoldOnly, items
  <2> QED
    BY <2>2, <2>3
<1> QED
  BY <1>1, <1>2, <1>3 DEF ReviewStep

\* What a generator reads as gold: validation rows, and frozen rows of the others.
LEMMA RowsAreGold == ASSUME GoldInv PROVE GoldOnly(GoldRows)
<1>1. ASSUME NEW s \in Samples \ Base, GoldRows[s] # None PROVE GoldRows[s] = frozen[s]
  BY <1>1 DEF GoldRows, ReleaseRows, IsOfficial
<1> QED
  BY <1>1 DEF GoldInv, GoldOnly

\* What a freeze adds was approved by two reviewers or by a third.
LEMMA FrozenIsGold == ASSUME GoldInv, NEW t PROVE GoldOnly(Frozen(t))
<1>1. ASSUME NEW s \in Taken(t) PROVE Backed(items[s], items[s].label)
  <2>1. s \in Samples /\ items[s].status \in {"approved", "adjudicated"}
    BY <1>1 DEF Taken, Additions, Extra, Items, Approved
  <2> QED
    BY <2>1 DEF GoldInv, ItemSound
<1> QED
  BY <1>1 DEF GoldInv, GoldOnly, Frozen, Official, Rows

\* The suite and its copies change, the items do not.
LEMMA GoldCopied ==
  ASSUME GoldInv, UNCHANGED items, GoldOnly(frozen'), GoldOnly(suite'.gold),
         \A g \in Generators : GoldOnly(gen'[g].gold) /\ GoldOnly(folder'[g].gold)
  PROVE  GoldInv'
<1>1. \A f : GoldOnly(f) => \A s \in Samples \ Base : f[s] # None => Backed(items'[s], f[s])
  BY DEF GoldOnly
<1>2. \A g \in Generators, s \in Samples \ Base :
         /\ gen'[g].gold[s] # None => Backed(items'[s], gen'[g].gold[s])
         /\ folder'[g].gold[s] # None => Backed(items'[s], folder'[g].gold[s])
  BY <1>1
<1>3. /\ \A s \in Samples \ Base : frozen'[s] # None => Backed(items'[s], frozen'[s])
      /\ \A s \in Samples \ Base : suite'.gold[s] # None => Backed(items'[s], suite'.gold[s])
  BY <1>1
<1> QED
  BY <1>2, <1>3 DEF GoldInv, GoldOnly

LEMMA GoldStays ==
  ASSUME TypeOK, GoldInv, NEW g \in Generators, Generate(g)
  PROVE  /\ GoldOnly(suite'.gold)
         /\ \A h \in Generators : GoldOnly(gen'[h].gold) /\ GoldOnly(folder'[h].gold)
<1>0. /\ gen \in [Generators -> Generation] /\ folder \in [Generators -> Folder]
      /\ GoldOnly(suite.gold)
      /\ \A h \in Generators : GoldOnly(gen[h].gold) /\ GoldOnly(folder[h].gold)
  BY DEF TypeOK, GoldInv
<1>1. \A step : \A h \in Generators : Then(g, step)[h].gold = gen[h].gold
  BY <1>0 DEF Then, Generation
<1>2. GoldOnly(NoRows)
  BY DEF GoldOnly, NoRows
<1>3. CASE GenStart(g)
  BY <1>0, <1>1, <1>3 DEF GenStart, BeginSuite, Then
<1>4. CASE GenRead(g)
  BY <1>0, <1>4, RowsAreGold DEF GenRead
<1>5. CASE GenOpen(g)
  BY <1>0, <1>1, <1>2, <1>5 DEF GenOpen, Empty
<1>6. CASE GenLayer1(g)
  <2>1. \A h \in Generators :
           folder'[h].gold = IF h = g THEN gen[g].gold ELSE folder[h].gold
    BY <1>0, <1>6 DEF GenLayer1, Folder
  <2> QED
    BY <1>0, <1>1, <1>6, <2>1 DEF GenLayer1
<1>7. CASE GenLayer2(g) \/ GenLayers(g) \/ GenFresh(g)
  <2>1. \A h \in Generators : folder'[h].gold = folder[h].gold
    <3>1. CASE GenLayer2(g)
      BY <1>0, <3>1 DEF GenLayer2, Folder
    <3>2. CASE GenLayers(g)
      BY <1>0, <3>2 DEF GenLayers, Folder
    <3>3. CASE GenFresh(g)
      BY <1>0, <3>3 DEF GenFresh, Folder
    <3> QED
      BY <1>7, <3>1, <3>2, <3>3
  <2> QED
    BY <1>0, <1>1, <1>7, <2>1 DEF GenLayer2, GenLayers, GenFresh
<1>8. CASE GenPublish(g)
  BY <1>0, <1>2, <1>8 DEF GenPublish, Idle
<1>9. CASE GenFails(g)
  BY <1>0, <1>2, <1>9 DEF GenFails, Idle
<1> QED
  BY <1>3, <1>4, <1>5, <1>6, <1>7, <1>8, <1>9 DEF Generate

LEMMA GoldKeeps == ASSUME TypeOK, GoldInv, [Next]_vars PROVE GoldInv'
<1>0. cast \in Casts /\ cast.generators \subseteq Generators
  BY CastsAssumption DEF TypeOK
<1>1. CASE SuiteStep
  <2>1. PICK g \in Generators : Generate(g)
    BY <1>0, <1>1 DEF SuiteStep
  <2>2. UNCHANGED <<items, frozen>>
    BY <1>1 DEF SuiteStep, reviewVars, items
  <2> QED
    BY <2>1, <2>2, GoldStays, GoldCopied DEF GoldInv
<1>2. CASE FreezeStep
  <2>1. PICK g \in Generators, t \in Targets : Freeze(g, t)
    BY <1>0, <1>2 DEF FreezeStep
  <2>2. \A h \in Generators : gen'[h].gold = gen[h].gold
    BY <2>1 DEF Freeze, BeginSuite, Then, TypeOK, Generation
  <2>3. UNCHANGED <<items, suite, folder>> /\ frozen' = Frozen(t)
    BY <1>2, <2>1 DEF FreezeStep, Freeze, items
  <2> QED
    BY <2>2, <2>3, FrozenIsGold, GoldCopied DEF GoldInv
<1>3. CASE ~(ReviewStep \/ SuiteStep \/ FreezeStep)
  <2>1. UNCHANGED <<review, frozen, suite, gen, folder>>
    BY <1>3 DEF Next, PackStep, HoldStep, RagStep, Train, JudgeSample, vars, reviewVars, suiteVars
  <2> QED
    BY <2>1 DEF GoldInv, GoldOnly, items
<1> QED
  BY <1>1, <1>2, <1>3, GoldReviewKeeps

\* No sample outside the validation set is gold, frozen or in the latest suite, but on the
\* word of two distinct reviewers or of a third (gold_expansion.py, five_layer.py).
THEOREM GoldReviewed == Spec => []GoldIsReviewed
<1>1. GoldInv => GoldIsReviewed
  BY DEF GoldInv, GoldOnly, GoldIsReviewed
<1> QED
  BY <1>1, TypeInit, TypeStep, GoldInit, GoldKeeps, PTL DEF Spec

(* ------------------------- the target of a review --------------------- *)

\* A set of samples has one that comes first in the hash order.
LEMMA SomeIsFirst ==
  ASSUME NEW S \in SUBSET Samples, S # {}
  PROVE  \E s \in S : \A x \in S : ~(Rank[x] < Rank[s])
<1> DEFINE Ranks == {Rank[s] : s \in S}
<1>1. Ranks \subseteq Nat /\ Ranks # {}
  BY SamplesAssumption
<1>2. PICK n \in Ranks : \A m \in Ranks : ~(<<m, n>> \in OpToRel(<, Nat))
  <2>1. IsWellFoundedOn(OpToRel(<, Nat), Nat)
    BY NatLessThanWellFounded
  <2> HIDE DEF Ranks
  <2> QED
    BY <1>1, <2>1, WFMin
<1>3. PICK s \in S : Rank[s] = n
  BY <1>2
<1>4. ASSUME NEW x \in S PROVE ~(Rank[x] < Rank[s])
  <2>1. Rank[x] \in Nat /\ Rank[s] \in Nat /\ ~(<<Rank[x], Rank[s]>> \in OpToRel(<, Nat))
    BY <1>2, <1>3, SamplesAssumption
  <2> QED
    BY <2>1 DEF OpToRel
<1> QED
  BY <1>4

\* The first n of a set are n of them, unless they are all there are.
LEMMA FirstEnough ==
  ASSUME NEW S \in SUBSET Samples, NEW n \in Int
  PROVE  /\ First(S, n) \subseteq S
         /\ Cardinality(First(S, n)) \in Nat
         /\ First(S, n) = S \/ Cardinality(First(S, n)) >= n
<1>1. First(S, n) \subseteq S /\ IsFiniteSet(S) /\ IsFiniteSet(First(S, n))
  BY SamplesAssumption, FS_Subset DEF First
<1>2. Cardinality(First(S, n)) \in Nat
  BY <1>1, FS_CardinalityType
<1>3. ASSUME First(S, n) # S PROVE Cardinality(First(S, n)) >= n
  <2>1. PICK s \in S \ First(S, n) : \A x \in S \ First(S, n) : ~(Rank[x] < Rank[s])
    BY <1>1, <1>3, SomeIsFirst
  <2> DEFINE before == {x \in S : Rank[x] < Rank[s]}
  <2>2. before \subseteq First(S, n)
    BY <2>1
  <2>3. ~(Cardinality(before) < n)
    BY <2>1 DEF First
  <2>4. IsFiniteSet(before) /\ Cardinality(before) \in Nat
        /\ Cardinality(before) <= Cardinality(First(S, n))
    BY <1>1, <2>2, FS_Subset, FS_CardinalityType
  <2> QED
    BY <1>2, <2>3, <2>4
<1> QED
  BY <1>1, <1>2, <1>3

\* Prepare fills the queue up to its places, or takes every sample that is free.
LEMMA ChosenEnough ==
  ASSUME NEW t \in Nat
  PROVE  /\ Chosen(t) \subseteq Free
         /\ Chosen(t) = Free \/ Cardinality(Chosen(t)) >= Slots(t)
<1> DEFINE l(x) == Labelled(Free, x)
           mal == First(l("malicious"), Smaller(Slots(t), Need(t, "malicious")))
           ben == First(l("benign"),
                        Smaller(Slots(t) - Cardinality(mal), Need(t, "benign")))
           left == Slots(t) - Cardinality(mal) - Cardinality(ben)
           rest == First(Free \ (mal \cup ben), left)
<1>0. Chosen(t) = mal \cup ben \cup rest
  BY DEF Chosen
<1>1. Free \subseteq Samples /\ \A x : l(x) \subseteq Free
  BY RowsOfFile DEF Free, Release, Labelled
<1>2. Slots(t) \in Int
  <2>1. \A S \in SUBSET Samples : Cardinality(S) \in Nat
    BY SamplesAssumption, FS_Subset, FS_CardinalityType
  <2>2. Official \subseteq Samples /\ Extra \subseteq Samples /\ OnReview \subseteq Samples
    BY RowsOfFile DEF Official, Extra, OnReview, Items
  <2> QED
    BY <2>1, <2>2 DEF Slots, Atleast0
<1>3. mal \subseteq Free /\ ben \subseteq Free /\ rest \subseteq Free \ (mal \cup ben)
  BY <1>1 DEF First
<1>4. mal \cap ben = {}
  BY <1>1 DEF First, Labelled
<1>5. IsFiniteSet(mal) /\ IsFiniteSet(ben) /\ IsFiniteSet(rest)
      /\ Cardinality(mal) \in Nat /\ Cardinality(ben) \in Nat /\ Cardinality(rest) \in Nat
  <2> HIDE DEF mal, ben, rest
  <2> QED
    BY <1>1, <1>3, SamplesAssumption, FS_Subset, FS_CardinalityType
<1>6. left \in Int
  BY <1>2, <1>5
<1>7. rest = Free \ (mal \cup ben) \/ Cardinality(rest) >= left
  <2> HIDE DEF mal, ben, left
  <2> QED
    BY <1>1, <1>6, FirstEnough
<1>8. Cardinality(mal \cup ben \cup rest) = Cardinality(mal) + Cardinality(ben) + Cardinality(rest)
  <2> HIDE DEF mal, ben, rest
  <2>1. IsFiniteSet(mal \cup ben)
        /\ Cardinality(mal \cup ben) = Cardinality(mal) + Cardinality(ben)
    BY <1>4, <1>5, FS_Union, FS_EmptySet
  <2>2. (mal \cup ben) \cap rest = {}
    BY <1>3
  <2>3. Cardinality((mal \cup ben) \cup rest)
           = Cardinality(mal \cup ben) + Cardinality(rest) - Cardinality((mal \cup ben) \cap rest)
    BY <1>5, <2>1, FS_Union
  <2>4. Cardinality((mal \cup ben) \cap rest) = 0
    BY <2>2, FS_EmptySet
  <2> QED
    BY <1>5, <2>1, <2>3, <2>4
<1>9. CASE rest = Free \ (mal \cup ben)
  <2> HIDE DEF mal, ben, rest
  <2> QED
    BY <1>0, <1>3, <1>9
<1>10. CASE Cardinality(rest) >= left
  <2> HIDE DEF mal, ben, rest
  <2> QED
    BY <1>0, <1>2, <1>3, <1>5, <1>8, <1>10
<1> HIDE DEF mal, ben, rest
<1> QED
  BY <1>7, <1>9, <1>10

\* After it, gold, approved items and items on review reach the target, or no sample of
\* the suite is free.
LEMMA PrepareReaches ==
  ASSUME TypeOK, NEW t \in Nat, review' = Prepared(t), UNCHANGED suite
  PROVE  Reachable(t)'
<1>1. \A s \in Samples : items'[s] = IF s \in Chosen(t) THEN Candidate ELSE items[s]
  BY DEF Prepared, items, TypeOK
<1>2. Chosen(t) \subseteq Free /\ (Chosen(t) = Free \/ Cardinality(Chosen(t)) >= Slots(t))
  BY ChosenEnough
<1>3. Free \subseteq Samples /\ Free \cap Items = {} /\ Free \cap Official = {}
  BY RowsOfFile DEF Free, Release
<1>4. Official' = Official /\ Release' = Release
  BY DEF Official, Release, Rows
<1>5. Candidate.status = "pending_first_review"
  BY DEF Candidate, Absent
<1>6. Items' = Items \cup Chosen(t)
  BY <1>1, <1>2, <1>3, <1>5 DEF Items
<1>7. Extra' = Extra
  <2>1. \A s \in Chosen(t) : s \notin Items /\ ~Approved(items'[s])
    BY <1>1, <1>2, <1>3, <1>5 DEF Approved
  <2>2. \A s \in Samples \ Chosen(t) : items'[s] = items[s]
    BY <1>1
  <2>3. Items \subseteq Samples /\ Items' \subseteq Samples
    BY DEF Items
  <2>4. \A s \in Samples : s \in (Items' \ Official') /\ Approved(items'[s])
                           <=> s \in (Items \ Official) /\ Approved(items[s])
    BY <1>4, <1>6, <2>1, <2>2
  <2> QED
    BY <2>3, <2>4 DEF Extra
<1>8. OnReview' = OnReview \cup Chosen(t)
  <2>1. \A s \in Chosen(t) : s \in Samples /\ s \notin Official /\ items'[s].status \in Pending
    BY <1>1, <1>2, <1>3, <1>5 DEF Pending
  <2>2. \A s \in Samples \ Chosen(t) : items'[s] = items[s]
    BY <1>1
  <2>3. Items \subseteq Samples /\ Items' \subseteq Samples
    BY DEF Items
  <2>4. \A s \in Samples : s \in (Items' \ Official') /\ items'[s].status \in Pending
          <=> (s \in (Items \ Official) /\ items[s].status \in Pending) \/ s \in Chosen(t)
    BY <1>4, <1>6, <2>1, <2>2
  <2> QED
    BY <2>1, <2>3, <2>4 DEF OnReview
<1>9. CASE Chosen(t) = Free
  BY <1>3, <1>4, <1>6, <1>9 DEF Reachable, Free
<1>10. CASE Cardinality(Chosen(t)) >= Slots(t)
  <2>1. /\ Official \subseteq Samples /\ Extra \subseteq Samples /\ OnReview \subseteq Samples
        /\ Chosen(t) \subseteq Samples
    BY <1>2, <1>3, RowsOfFile DEF Official, Extra, OnReview, Items
  <2>2. \A S \in SUBSET Samples : IsFiniteSet(S) /\ Cardinality(S) \in Nat
    BY SamplesAssumption, FS_Subset, FS_CardinalityType
  <2>3. OnReview \cap Chosen(t) = {}
    BY <1>2, <1>3 DEF OnReview
  <2>4. Cardinality(OnReview \cup Chosen(t)) = Cardinality(OnReview) + Cardinality(Chosen(t))
    <3>1. Cardinality(OnReview \cup Chosen(t)) = Cardinality(OnReview) + Cardinality(Chosen(t))
                                                 - Cardinality(OnReview \cap Chosen(t))
      BY <2>1, <2>2, FS_Union
    <3> QED
      BY <2>1, <2>2, <2>3, <3>1, FS_EmptySet
  <2>5. Cardinality(Chosen(t)) >= t - Cardinality(Official) - Cardinality(Extra)
                                    - Cardinality(OnReview)
    BY <1>10, <2>1, <2>2 DEF Slots, Atleast0
  <2>6. Cardinality(Official) + Cardinality(Extra) + Cardinality(OnReview \cup Chosen(t)) >= t
    BY <2>1, <2>2, <2>4, <2>5
  <2>7. Cardinality(Official') + Cardinality(Extra') + Cardinality(OnReview') >= t
    BY <1>4, <1>7, <1>8, <2>6
  <2> QED
    BY <2>7 DEF Reachable
<1> QED
  BY <1>2, <1>9, <1>10

\* Whoever's request ends has refilled for the target it read with its review, or found
\* that it may not.
LEMMA RefillReaches ==
  ASSUME TypeOK, [Next]_vars, NEW c \in Clerks, NEW t \in Targets,
         clerk[c] = t, clerk'[c] = None, MayPrepare(t)
  PROVE  Reachable(t)'
<1>1. t \in Nat /\ t # None /\ review.target \in Nat /\ review.target # None
  BY ReviewAssumption DEF TypeOK
<1>2. ReviewStep
  <2>1. clerk' # clerk
    BY <1>1
  <2> QED
    BY <2>1 DEF Next, vars, reviewVars, FreezeStep, Freeze, SuiteStep, PackStep, HoldStep, RagStep,
                Train, JudgeSample
<1>3. PICK d \in Clerks : Refill(d)
  <2>1. ASSUME NEW u \in Targets, Prepare(u) PROVE FALSE
    BY <1>1, <2>1 DEF Prepare
  <2>2. ASSUME NEW d \in Clerks, NEW s \in Samples, NEW r \in Reviewers, NEW l \in Labels,
               Review(d, s, r, l) \/ Adjudicate(d, s, r, l)
        PROVE  FALSE
    <3>1. clerk' = [clerk EXCEPT ![d] = review.target] /\ clerk[d] = None
      BY <2>2 DEF Review, Adjudicate, SaveReview
    <3> QED
      BY <1>1, <3>1 DEF TypeOK
  <2> QED
    BY <1>2, <2>1, <2>2 DEF ReviewStep
<1>4. d = c
  BY <1>1, <1>3 DEF Refill, TypeOK
<1>5. review' = Prepared(t)
  BY <1>3, <1>4 DEF Refill
<1>6. UNCHANGED suite
  BY <1>2 DEF ReviewStep, suiteVars
<1> QED
  BY <1>1, <1>5, <1>6, PrepareReaches

\* When a review's request ends and the target may be prepared, the target is within
\* reach, whatever other reviews, freezes and generations came between the review and
\* the refill (gold_expansion.save_gold_review, _prepare_locked).
THEOREM TargetsReached == Spec => RefillKeepsTargetReachable
<1>1. TypeOK /\ [Next]_vars =>
        [\A c \in Clerks, t \in Targets :
            clerk[c] = t /\ clerk'[c] = None /\ MayPrepare(t) => Reachable(t)']_vars
  BY RefillReaches
<1> QED
  BY <1>1, TypeInit, TypeStep, PTL DEF Spec, RefillKeepsTargetReachable

(* ------------------------- the training pipeline ---------------------- *)

\* The stage that runs, and how far it may have come.
CommandStage ==
  /\ stage \in [name : {"idle"} \cup DOMAIN Steps, step : Nat \ {0}, all : BOOLEAN]
  /\ stage.name = "prepare" => stage.step <= 5

\* A calibration file is never left without its model, and a training has written what
\* it has passed.
FilesKept ==
  /\ DOMAIN models = ModelNames /\ DOMAIN fits = ModelNames
  /\ \A n \in ModelNames :
       /\ "kind" \in DOMAIN models[n]
       /\ models[n].kind = "none" => fits[n].kind = "none"
  /\ stage.name = "train" =>
       \A i \in DOMAIN Order : i < stage.step => models[Order[i]].kind # "none"

\* What CalibrationMatches says of a model; it holds of those a calibration has passed.
FitMatches(n) ==
  fits[n].kind # "none" =>
     fits[n].model = models[n] /\ fits[n].on = Below(n) /\ fits[n].rows = RowsOf(n, "val")

Calibrated ==
  stage.name = "calibrate" => \A i \in DOMAIN Order : i < stage.step => FitMatches(Order[i])

\* What AllStartsAfresh says of the blocks and of a model, and which part of it each
\* stage of "all" has made true.
TrainLabel(s) == IF unified[s].label \in {NotListed, Unlabelled} THEN NotListed
                 ELSE unified[s].label
OfNow(m) ==
  \A r \in m.rows : r[2] = GivenLabel(r[1]) /\ (m.kind = "regression" => SplitOf[r[1]] = "train")

ImportedSoFar ==
  stage.all /\ stage.name = "prepare" =>
    /\ \A k \in 1..3 : k < stage.step =>
          labels[Sources[k]] = Listings(Workbooks[raw])[Sources[k]]
    /\ stage.step \in 2..4 => \A s \in Apps : unified[s].label = NotListed
UnifiedOfNow ==
  stage.all /\ (stage.name = "sft" \/ (stage.name = "prepare" /\ stage.step > 4)) =>
    \A s \in Apps : TrainLabel(s) = GivenLabel(s)
BlocksOfNow ==
  stage.all /\ (stage.name \in {"train", "calibrate"} \/ (stage.name = "sft" /\ stage.step > 1)) =>
    \A s \in Apps : blocks[s] = GivenLabel(s)
ModelsOfNow ==
  /\ stage.all /\ stage.name = "train" =>
       \A i \in DOMAIN Order : i < stage.step => OfNow(models[Order[i]])
  /\ stage.all /\ stage.name = "calibrate" => \A n \in ModelNames : OfNow(models[n])

PipeInv == CommandStage /\ FilesKept /\ Calibrated
           /\ ImportedSoFar /\ UnifiedOfNow /\ BlocksOfNow /\ ModelsOfNow

\* The order of the models: the agents', then the three that are made on them.
LEMMA OrderOfModels ==
  /\ Len(Order) \in Nat /\ Len(Order) >= 3 /\ DOMAIN Order = 1..Len(Order)
  /\ ModelNames = {Order[i] : i \in DOMAIN Order}
  /\ "wec" \in ModelNames
  /\ \A i \in DOMAIN Order : Order[i] = "arbiter" => \E j \in DOMAIN Order : j < i /\ Order[j] = "wec"
<1> DEFINE n == Cardinality(Agents)
           agents == SetToSeq(Agents)
           rest == <<"fusion", "wec", "arbiter">>
<1>1. n \in Nat /\ Bijection(1..n, Agents) # {}
  BY PipelineAssumption, FS_CardinalityType DEF ExistsBijection
<1>2. \E f \in [1..n -> Agents] : IsInjective(f)
  BY <1>1 DEF Bijection, Injection
<1>3. agents \in [1..n -> Agents]
  BY <1>2 DEF SetToSeq
<1>4. agents \in Seq(Agents) /\ Len(agents) = n
  <2> HIDE DEF agents, n
  <2>1. agents \in Seq(Agents)
    BY <1>1, <1>3
  <2>2. DOMAIN agents = 1..n /\ DOMAIN agents = 1..Len(agents) /\ Len(agents) \in Nat
    BY <1>3, <2>1
  <2> QED
    BY <1>1, <2>1, <2>2
<1>5. Order = agents \o rest
  BY DEF Order
<1>6. /\ Len(Order) = n + 3 /\ DOMAIN Order = 1..(n + 3)
      /\ \A i \in 1..n : Order[i] = agents[i]
      /\ Order[n + 1] = "fusion" /\ Order[n + 2] = "wec" /\ Order[n + 3] = "arbiter"
  <2> HIDE DEF agents, n
  <2> QED
    BY <1>1, <1>4, <1>5
<1>7. \A i \in 1..n : Order[i] # "arbiter"
  BY <1>3, <1>6, PipelineAssumption
<1>8. ModelNames = {Order[i] : i \in DOMAIN Order}
  BY DEF ModelNames, ToSet
<1>9. n + 2 \in DOMAIN Order
  BY <1>1, <1>6
<1>10. ASSUME NEW i \in DOMAIN Order, Order[i] = "arbiter"
       PROVE  n + 2 < i
  <2> HIDE DEF agents, n
  <2>1. i \in 1..(n + 3) /\ i \notin 1..n /\ i # n + 1 /\ i # n + 2
    BY <1>6, <1>7, <1>10
  <2> QED
    BY <1>1, <2>1
<1> QED
  <2> HIDE DEF agents, n
  <2> QED
    BY <1>1, <1>6, <1>8, <1>9, <1>10

LEMMA StepsOfStages ==
  /\ DOMAIN Steps = {"prepare", "sft", "train", "calibrate"}
  /\ Steps["prepare"] = 4 /\ Steps["sft"] = 1
  /\ Steps["train"] = Len(Order) /\ Steps["calibrate"] = Len(Order)
  /\ Follows["prepare"] = "sft" /\ Follows["sft"] = "train" /\ Follows["train"] = "calibrate"
BY DEF Steps, Follows

LEMMA PipeInitially == ASSUME PipelineInit PROVE PipeInv
<1> USE DEF PipelineInit, Waiting
<1>1. CommandStage
  BY StepsOfStages DEF CommandStage
<1>2. FilesKept
  BY DEF FilesKept, NoModel, NoFit
<1> QED
  BY <1>1, <1>2 DEF PipeInv, Calibrated, ImportedSoFar, UnifiedOfNow, BlocksOfNow, ModelsOfNow

LEMMA StageTyped == ASSUME CommandStage, [PipelineNext]_trainVars PROVE CommandStage'
<1> USE DEF CommandStage
<1>1. CASE ImportLabels \/ BuildUnified \/ FreezeAll \/ TrainNext \/ CalibrateNext
  <2>1. stage' = [stage EXCEPT !.step = @ + 1]
    BY <1>1 DEF ImportLabels, BuildUnified, FreezeAll, TrainNext, CalibrateNext, Forward
  <2>2. stage.name = "prepare" => stage.step <= 4
    BY <1>1 DEF ImportLabels, BuildUnified, FreezeAll, TrainNext, CalibrateNext, At
  <2> QED
    BY <2>1, <2>2
<1>2. CASE Finish
  <2>1. stage' = Waiting \/ stage' = [stage EXCEPT !.name = Follows[stage.name], !.step = 1]
    BY <1>2 DEF Finish
  <2>2. CASE stage' = Waiting
    BY <2>2 DEF Waiting
  <2>3. CASE stage' # Waiting
    <3>1. /\ stage' = [stage EXCEPT !.name = Follows[stage.name], !.step = 1]
          /\ stage.name \in {"prepare", "sft", "train"}
      BY <1>2, <2>3, StepsOfStages DEF Finish, StageDone
    <3>2. Follows[stage.name] \in DOMAIN Steps /\ Follows[stage.name] # "prepare"
      BY <3>1, StepsOfStages
    <3>3. PICK next : next = Follows[stage.name]
      OBVIOUS
    <3>4. stage' = [name |-> next, step |-> 1, all |-> stage.all]
      BY <3>1, <3>3
    <3> QED
      BY <3>2, <3>3, <3>4
  <2> QED
    BY <2>2, <2>3
<1>3. CASE Die \/ Unreadable
  <2>1. stage' = Waiting
    BY <1>3 DEF Die, Unreadable
  <2> QED
    BY <2>1 DEF Waiting
<1>4. ASSUME NEW name \in DOMAIN Steps \cup {"all"}, Command(name) PROVE CommandStage'
  BY <1>4, StepsOfStages DEF Command
<1>5. CASE UNCHANGED stage
  BY <1>5
<1> QED
  BY <1>1, <1>2, <1>3, <1>4, <1>5 DEF PipelineNext, trainVars, FreezePart, NewWorkbooks

\* What a step leaves alone, by its kind.
LEMMA StepFrames ==
  ASSUME [PipelineNext]_trainVars
  PROVE  /\ TrainNext \/ Die \/ UNCHANGED models
         /\ CalibrateNext \/ Die \/ UNCHANGED fits
         /\ ImportLabels \/ BuildUnified \/ UNCHANGED unified
         /\ FreezeAll \/ (\E S \in SUBSET Apps : FreezePart(S)) \/ UNCHANGED blocks
         /\ ImportLabels \/ UNCHANGED labels
         /\ NewWorkbooks \/ UNCHANGED raw
BY DEF PipelineNext, trainVars, tables, ImportLabels, BuildUnified, FreezeAll, TrainNext,
       CalibrateNext, FreezePart, Finish, NewWorkbooks, Die, Unreadable, Command

\* A stage goes on by one step, or one begins at its first.
LEMMA StageMoves ==
  ASSUME CommandStage, [PipelineNext]_trainVars
  PROVE  \/ UNCHANGED stage \/ stage'.step = 1
         \/ /\ stage' = [stage EXCEPT !.step = stage.step + 1]
            /\ stage'.name = stage.name /\ stage'.all = stage.all /\ stage'.step = stage.step + 1
            /\ \/ stage.name = "prepare" /\ (ImportLabels \/ BuildUnified)
               \/ stage.name = "sft" /\ FreezeAll
               \/ stage.name = "train" /\ TrainNext
               \/ stage.name = "calibrate" /\ CalibrateNext
<1>1. CASE ImportLabels \/ BuildUnified \/ FreezeAll \/ TrainNext \/ CalibrateNext
  <2>1. stage' = [stage EXCEPT !.step = stage.step + 1]
    BY <1>1 DEF ImportLabels, BuildUnified, FreezeAll, TrainNext, CalibrateNext, Forward
  <2>2. stage'.name = stage.name /\ stage'.all = stage.all /\ stage'.step = stage.step + 1
    BY <2>1 DEF CommandStage
  <2> QED
    BY <1>1, <2>1, <2>2 DEF ImportLabels, BuildUnified, FreezeAll, TrainNext, CalibrateNext, At
<1>2. CASE Finish
  BY <1>2 DEF Finish, Waiting, CommandStage
<1>3. CASE Die \/ Unreadable
  <2>1. stage' = Waiting
    BY <1>3 DEF Die, Unreadable
  <2> QED
    BY <2>1 DEF Waiting
<1>4. ASSUME NEW name \in DOMAIN Steps \cup {"all"}, Command(name) PROVE stage'.step = 1
  BY <1>4 DEF Command
<1>5. CASE UNCHANGED stage
  BY <1>5
<1> QED
  BY <1>1, <1>2, <1>3, <1>4, <1>5 DEF PipelineNext, trainVars, FreezePart, NewWorkbooks

\* What a training writes is a model.
LEMMA FittedIsThere == \A n : Fitted(n).kind \in {"constant", "regression"}
BY DEF Fitted

LEMMA TrainWrites ==
  ASSUME CommandStage, FilesKept, TrainNext
  PROVE  \E m :
            /\ Order[stage.step] \in ModelNames
            /\ models' = [models EXCEPT ![Order[stage.step]] = m]
            /\ "kind" \in DOMAIN m /\ m.kind # "none"
            /\ \/ m = Fitted(Order[stage.step])
               \/ \E j \in DOMAIN Order : j < stage.step /\ m = models[Order[j]]
<1> DEFINE name == Order[stage.step]
<1>1. stage.step \in DOMAIN Order /\ name \in ModelNames /\ stage.name = "train"
  BY OrderOfModels DEF TrainNext, CommandStage
<1>2. CASE name = "arbiter" /\ ~HasOwnArbiter
  <2>1. PICK j \in DOMAIN Order : j < stage.step /\ Order[j] = "wec"
    BY <1>1, <1>2, OrderOfModels
  <2>2. models[Order[j]].kind # "none" /\ "kind" \in DOMAIN models["wec"]
    BY <1>1, <2>1, OrderOfModels DEF FilesKept
  <2>3. models' = [models EXCEPT ![name] = models["wec"]]
    BY <1>2 DEF TrainNext
  <2> QED
    BY <1>1, <2>1, <2>2, <2>3
<1>3. CASE ~(name = "arbiter" /\ ~HasOwnArbiter)
  <2>1. models' = [models EXCEPT ![name] = Fitted(name)]
    BY <1>3 DEF TrainNext
  <2>2. "kind" \in DOMAIN Fitted(name) /\ Fitted(name).kind # "none"
    BY DEF Fitted
  <2> QED
    BY <1>1, <2>1, <2>2
<1> QED
  BY <1>2, <1>3

\* A death leaves the files, or tears the one that was being written.
LEMMA DieTears ==
  ASSUME CommandStage, FilesKept, Die
  PROVE  /\ stage' = Waiting
         /\ \/ UNCHANGED <<models, fits>>
            \/ \E name \in ModelNames :
                 /\ models' = [models EXCEPT ![name].kind = "torn"] /\ UNCHANGED fits
            \/ \E name \in ModelNames :
                 /\ fits' = [fits EXCEPT ![name].kind = "torn"] /\ UNCHANGED models
                 /\ models[name].kind # "none"
<1>1. Die => stage' = Waiting /\ stage.name # "idle"
  BY DEF Die
<1>2. stage.name \in {"train", "calibrate"} /\ ~StageDone =>
        stage.step \in DOMAIN Order /\ Order[stage.step] \in ModelNames
  BY OrderOfModels, StepsOfStages DEF CommandStage, StageDone
<1>3. \A n : Readable(n) /\ n \in ModelNames => models[n].kind # "none"
  <2> SUFFICES ASSUME NEW n, Readable(n) PROVE models[n].kind # "none"
    OBVIOUS
  <2>1. n \in FilesOf(n)
    BY DEF FilesOf
  <2> QED
    BY <2>1 DEF Readable
<1> QED
  BY <1>1, <1>2, <1>3 DEF Die

LEMMA FilesStayKept ==
  ASSUME CommandStage, FilesKept, [PipelineNext]_trainVars PROVE FilesKept'
<1>0. /\ DOMAIN models = ModelNames /\ DOMAIN fits = ModelNames
      /\ \A n \in ModelNames : "kind" \in DOMAIN models[n]
      /\ \A n \in ModelNames : models[n].kind = "none" => fits[n].kind = "none"
  BY DEF FilesKept
<1>1. CASE TrainNext
  <2>1. PICK m :
            /\ Order[stage.step] \in ModelNames
            /\ models' = [models EXCEPT ![Order[stage.step]] = m]
            /\ "kind" \in DOMAIN m /\ m.kind # "none"
    BY <1>1, TrainWrites
  <2>2. UNCHANGED fits /\ stage' = [stage EXCEPT !.step = @ + 1] /\ stage.name = "train"
    BY <1>1 DEF TrainNext, Forward
  <2>3. stage'.name = "train" /\ stage'.step = stage.step + 1 /\ stage.step \in Nat
    BY <2>2 DEF CommandStage
  <2>4. \A n \in ModelNames : models'[n] = IF n = Order[stage.step] THEN m ELSE models[n]
    BY <1>0, <2>1
  <2>5. \A i \in DOMAIN Order : i < stage'.step => models'[Order[i]].kind # "none"
    <3>1. \A i \in DOMAIN Order : Order[i] \in ModelNames /\ i \in Nat
      BY OrderOfModels
    <3>2. \A i \in DOMAIN Order : i < stage'.step => i < stage.step \/ i = stage.step
      BY <2>3, <3>1
    <3> QED
      BY <2>1, <2>2, <2>4, <3>1, <3>2 DEF FilesKept
  <2> QED
    BY <1>0, <2>1, <2>2, <2>4, <2>5 DEF FilesKept
<1>2. CASE CalibrateNext
  <2> DEFINE name == Order[stage.step]
  <2>1. UNCHANGED models /\ stage' = [stage EXCEPT !.step = @ + 1] /\ stage.name = "calibrate"
    BY <1>2 DEF CalibrateNext, Forward
  <2>2. stage'.name = "calibrate"
    BY <2>1 DEF CommandStage
  <2>3. UNCHANGED fits \/ (models[name].kind # "none" /\ fits' = [fits EXCEPT ![name] = Calibration(name)])
    BY <1>2 DEF CalibrateNext
  <2> QED
    BY <1>0, <2>1, <2>2, <2>3 DEF FilesKept
<1>3. CASE Die
  <2>1. stage' = Waiting /\ Waiting.name = "idle"
    BY <1>3, DieTears DEF Waiting
  <2>2. CASE UNCHANGED <<models, fits>>
    BY <1>0, <2>1, <2>2 DEF FilesKept
  <2>3. ASSUME NEW name \in ModelNames, models' = [models EXCEPT ![name].kind = "torn"], UNCHANGED fits
        PROVE  FilesKept'
    <3>1. DOMAIN models' = ModelNames
      BY <1>0, <2>3
    <3>2. \A n \in ModelNames : n # name => models'[n] = models[n]
      BY <1>0, <2>3
    <3>3. "kind" \in DOMAIN models'[name] /\ models'[name].kind = "torn"
      <4>1. models'[name] = [models[name] EXCEPT !.kind = "torn"]
        BY <1>0, <2>3
      <4> QED
        BY <1>0, <4>1
    <3> QED
      BY <1>0, <2>1, <2>3, <3>1, <3>2, <3>3 DEF FilesKept
  <2>4. ASSUME NEW name \in ModelNames, fits' = [fits EXCEPT ![name].kind = "torn"], UNCHANGED models,
               models[name].kind # "none"
        PROVE  FilesKept'
    BY <1>0, <2>1, <2>4 DEF FilesKept
  <2> QED
    BY <1>3, <2>2, <2>3, <2>4, DieTears
<1>4. CASE ~(TrainNext \/ CalibrateNext \/ Die)
  <2>1. UNCHANGED <<models, fits>>
    BY <1>4, StepFrames
  <2>2. stage'.name = "train" => UNCHANGED stage \/ stage'.step = 1
    BY <1>4, StageMoves
  <2>3. \A i \in DOMAIN Order : ~(i < 1)
    BY OrderOfModels
  <2> QED
    BY <1>0, <2>1, <2>2, <2>3 DEF FilesKept
<1> QED
  BY <1>1, <1>2, <1>3, <1>4

LEMMA CalibratedStays ==
  ASSUME CommandStage, FilesKept, Calibrated, [PipelineNext]_trainVars PROVE Calibrated'
<1>0. \A i \in DOMAIN Order : ~(i < 1) /\ i \in Nat /\ Order[i] \in ModelNames
  BY OrderOfModels
<1>1. CASE stage'.step = 1
  BY <1>0, <1>1 DEF Calibrated
<1>2. CASE UNCHANGED stage /\ stage'.step # 1
  <2>1. CASE stage.name = "calibrate"
    <3>1. ~(TrainNext \/ CalibrateNext \/ Die \/ ImportLabels \/ BuildUnified \/ FreezeAll
            \/ \E S \in SUBSET Apps : FreezePart(S))
      BY <1>2, <2>1 DEF CommandStage, TrainNext, CalibrateNext, Die, ImportLabels, BuildUnified,
                        FreezeAll, FreezePart, At, Forward, Waiting
    <3>2. UNCHANGED <<models, fits, unified, blocks>>
      BY <3>1, StepFrames
    <3>3. \A n : Below(n)' = Below(n) /\ RowsOf(n, "val")' = RowsOf(n, "val")
      BY <3>2 DEF Below, RowsOf, BlockRows, ManualRows, StackedRows
    <3> QED
      BY <1>2, <3>2, <3>3 DEF Calibrated, FitMatches
  <2> QED
    BY <1>2, <2>1 DEF Calibrated
<1>3. CASE stage.name = "calibrate" /\ CalibrateNext /\ stage'.step = stage.step + 1
  <2>0. PICK name : name = Order[stage.step]
    OBVIOUS
  <2>1. UNCHANGED <<models, unified, blocks>> /\ name \in ModelNames /\ stage.step \in Nat
    BY <1>0, <1>3, <2>0, OrderOfModels DEF CalibrateNext, tables, CommandStage
  <2>2. \A n : Below(n)' = Below(n) /\ RowsOf(n, "val")' = RowsOf(n, "val")
    BY <2>1 DEF Below, RowsOf, BlockRows, ManualRows, StackedRows
  <2>3. \A n \in ModelNames \ {name} : fits'[n] = fits[n]
    BY <1>3, <2>0 DEF CalibrateNext, FilesKept
  <2>4. FitMatches(name)'
    <3>1. CASE models[name].kind = "none" /\ UNCHANGED fits
      BY <2>1, <3>1 DEF FilesKept, FitMatches
    <3>2. CASE fits' = [fits EXCEPT ![name] = Calibration(name)]
      <4>1. fits'[name] = Calibration(name)
        BY <2>1, <3>2 DEF FilesKept
      <4> QED
        BY <2>1, <2>2, <4>1 DEF FitMatches, Calibration, NoFit
    <3> QED
      BY <1>3, <2>0, <3>1, <3>2 DEF CalibrateNext
  <2>5. \A i \in DOMAIN Order : i < stage'.step => i < stage.step \/ i = stage.step
    BY <1>0, <1>3, <2>1
  <2>6. \A i \in DOMAIN Order : i < stage.step => FitMatches(Order[i])
    BY <1>3 DEF Calibrated
  <2>7. \A n \in ModelNames : FitMatches(n) /\ n # name => FitMatches(n)'
    BY <2>1, <2>2, <2>3 DEF FitMatches
  <2> QED
    BY <1>0, <2>0, <2>4, <2>5, <2>6, <2>7 DEF Calibrated
<1> QED
  BY <1>1, <1>2, <1>3, StageMoves DEF Calibrated

\* When a calibration ends, each calibration file is of the model beside it and of the
\* validation rows of now, whatever died before (training/calibration.py).
THEOREM CalibrationsMatch == PipelineSpec => CalibrationMatches
<1>1. CommandStage /\ FilesKept /\ Calibrated /\ [PipelineNext]_trainVars
        => (CommandStage /\ FilesKept /\ Calibrated)'
  BY StageTyped, FilesStayKept, CalibratedStays
<1>2. CommandStage /\ FilesKept /\ Calibrated =>
        (Finish /\ stage.name = "calibrate" =>
          \A n \in ModelNames : fits[n].kind # "none" =>
              /\ fits[n].model = models[n] /\ fits[n].on = Below(n)
              /\ fits[n].rows = RowsOf(n, "val"))
  <2> SUFFICES ASSUME CommandStage, FilesKept, Calibrated, Finish, stage.name = "calibrate",
                      NEW n \in ModelNames
               PROVE  FitMatches(n)
    BY DEF FitMatches
  <2>1. PICK i \in DOMAIN Order : Order[i] = n
    BY OrderOfModels
  <2>2. i < stage.step
    BY OrderOfModels, StepsOfStages DEF Finish, StageDone, CommandStage
  <2> QED
    BY <2>1, <2>2 DEF Calibrated
<1> QED
  BY <1>1, <1>2, PipeInitially, PTL DEF PipelineSpec, CalibrationMatches, PipeInv

\* What may happen while "all" runs, after its first step.
LEMMA AllGoesOn ==
  ASSUME CommandStage, [PipelineNext]_trainVars, stage'.all, stage'.name # "idle",
         ~(stage'.name = "prepare" /\ stage'.step = 1)
  PROVE  /\ stage.all /\ UNCHANGED raw
         /\ \/ /\ stage'.name = stage.name /\ stage'.step = stage.step + 1
               /\ ImportLabels \/ BuildUnified \/ FreezeAll \/ TrainNext \/ CalibrateNext
            \/ UNCHANGED <<stage, labels, unified, blocks, models>>
            \/ /\ UNCHANGED <<stage, labels, unified, models>>
               /\ stage.name = "sft" /\ stage.step = 1
            \/ /\ UNCHANGED <<labels, unified, blocks, models>>
               /\ stage.step > Steps[stage.name] /\ stage'.step = 1
               /\ stage.name \in {"prepare", "sft", "train"} /\ stage'.name = Follows[stage.name]
<1>1. CASE ImportLabels \/ BuildUnified \/ FreezeAll \/ TrainNext \/ CalibrateNext
  <2>1. stage' = [stage EXCEPT !.step = stage.step + 1]
    BY <1>1 DEF ImportLabels, BuildUnified, FreezeAll, TrainNext, CalibrateNext, Forward
  <2>2. stage'.name = stage.name /\ stage'.all = stage.all /\ stage'.step = stage.step + 1
    BY <2>1 DEF CommandStage
  <2> QED
    BY <1>1, <2>2 DEF ImportLabels, BuildUnified, FreezeAll, TrainNext, CalibrateNext
<1>2. CASE Finish
  <2>1. stage' # Waiting
    BY DEF Waiting
  <2>2. /\ stage' = [stage EXCEPT !.name = Follows[stage.name], !.step = 1] /\ stage.all
        /\ stage.name \in {"prepare", "sft", "train"} /\ stage.step > Steps[stage.name]
    BY <1>2, <2>1, StepsOfStages DEF Finish, StageDone, CommandStage
  <2>3. PICK next : next = Follows[stage.name]
    OBVIOUS
  <2>4. stage' = [name |-> next, step |-> 1, all |-> stage.all]
    BY <2>2, <2>3 DEF CommandStage
  <2> QED
    BY <1>2, <2>2, <2>3, <2>4 DEF Finish, tables
<1>3. CASE Die \/ Unreadable
  <2>1. stage' = Waiting
    BY <1>3 DEF Die, Unreadable
  <2> QED
    BY <2>1 DEF Waiting
<1>4. ASSUME NEW name \in DOMAIN Steps \cup {"all"}, Command(name) PROVE FALSE
  BY <1>4 DEF Command
<1>5. CASE NewWorkbooks
  BY <1>5 DEF NewWorkbooks
<1>6. ASSUME NEW S \in SUBSET Apps, FreezePart(S)
      PROVE  UNCHANGED <<stage, raw, labels, unified, models>> /\ stage.name = "sft" /\ stage.step = 1
  BY <1>6 DEF FreezePart, At
<1>7. CASE UNCHANGED trainVars
  BY <1>7 DEF trainVars, tables
<1> QED
  BY <1>1, <1>2, <1>3, <1>4, <1>5, <1>6, <1>7 DEF PipelineNext

LEMMA ImportsSoFar ==
  ASSUME CommandStage, ImportedSoFar, [PipelineNext]_trainVars PROVE ImportedSoFar'
<1> SUFFICES ASSUME stage'.all, stage'.name = "prepare"
             PROVE  /\ \A k \in 1..3 : k < stage'.step =>
                          labels'[Sources[k]] = Listings(Workbooks[raw'])[Sources[k]]
                    /\ stage'.step \in 2..4 => \A s \in Apps : unified'[s].label = NotListed
  BY DEF ImportedSoFar, Listings
<1>1. CASE stage'.step = 1
  BY <1>1
<1>2. CASE ImportLabels /\ stage.all /\ stage'.step = stage.step + 1
  <2>1. stage.step \in 1..3 /\ stage.name = "prepare" /\ UNCHANGED raw
    BY <1>2 DEF ImportLabels, CommandStage
  <2>2. /\ Sources[1] = "known_malicious" /\ Sources[2] = "known_white"
        /\ Sources[3] = "manual_conflict"
        /\ ToSet(Sources) = {"known_malicious", "known_white", "manual_conflict"}
    BY DEF Sources, ToSet
  <2>3. \A n \in ToSet(Sources) :
           labels'[n] = IF n = Sources[stage.step] THEN Listings(Workbooks[raw])[n]
                        ELSE IF stage.step = 1 THEN NoLabels ELSE labels[n]
    BY <1>2 DEF ImportLabels
  <2>4. \A k \in 1..3 : Sources[k] \in ToSet(Sources)
    BY <2>2
  <2>5. \A k \in 1..3 : k < stage'.step =>
           labels'[Sources[k]] = Listings(Workbooks[raw])[Sources[k]]
    <3> SUFFICES ASSUME NEW k \in 1..3, k < stage.step + 1
                 PROVE  labels'[Sources[k]] = Listings(Workbooks[raw])[Sources[k]]
      BY <1>2
    <3>1. CASE k = stage.step
      BY <2>3, <2>4, <3>1
    <3>2. CASE k # stage.step
      <4>1. k < stage.step /\ stage.step # 1 /\ Sources[k] # Sources[stage.step]
        BY <2>1, <2>2, <3>2
      <4>2. labels'[Sources[k]] = labels[Sources[k]]
        BY <2>3, <2>4, <4>1
      <4> QED
        BY <1>2, <2>1, <4>1, <4>2 DEF ImportedSoFar
    <3> QED
      BY <3>1, <3>2
  <2>6. \A s \in Apps : unified'[s].label = NotListed
    <3>1. CASE stage.step = 1
      <4>1. unified' = [s \in Apps |-> [label |-> NotListed, source |-> NotListed]]
        BY <1>2, <3>1 DEF ImportLabels
      <4> QED
        BY <4>1
    <3>2. CASE stage.step # 1
      BY <1>2, <2>1, <3>2 DEF ImportLabels, ImportedSoFar
    <3> QED
      BY <3>1, <3>2
  <2> QED
    BY <2>1, <2>5, <2>6
<1>3. CASE BuildUnified /\ stage.all /\ stage'.step = stage.step + 1
  <2>1. stage.step = 4 /\ stage.name = "prepare" /\ UNCHANGED <<raw, labels>>
    BY <1>3 DEF BuildUnified, At
  <2> QED
    BY <1>3, <2>1 DEF ImportedSoFar
<1>4. CASE UNCHANGED <<stage, labels, unified, raw>>
  BY <1>4 DEF ImportedSoFar
<1>5. FreezeAll \/ TrainNext \/ CalibrateNext => stage.name # "prepare"
  BY DEF FreezeAll, TrainNext, CalibrateNext, At
<1>6. \A n \in {"prepare", "sft", "train"} : Follows[n] # "prepare"
  BY StepsOfStages
<1> QED
  BY <1>1, <1>2, <1>3, <1>4, <1>5, <1>6, AllGoesOn

\* The one label of a sample that a directory lists without the other.
LEMMA OneLabel ==
  ASSUME NEW S \in SUBSET {"malicious", "benign"}
  PROVE  /\ S # {} /\ ~(Cardinality(S) > 1) => Cardinality(S) = 1
         /\ Cardinality(S) = 1 => (CHOOSE l \in S : TRUE) \in {"malicious", "benign"}
         /\ S = {} => Cardinality(S) # 1
<1>1. IsFiniteSet({"malicious", "benign"})
  <2>1. IsFiniteSet({"malicious"} \cup {"benign"})
    BY FS_Singleton, FS_Union
  <2>2. {"malicious"} \cup {"benign"} = {"malicious", "benign"}
    OBVIOUS
  <2> QED
    BY <2>1, <2>2
<1>2. IsFiniteSet(S) /\ Cardinality(S) \in Nat /\ (Cardinality(S) = 0 <=> S = {})
  BY <1>1, FS_Subset, FS_CardinalityType, FS_EmptySet
<1>3. ASSUME S # {}, ~(Cardinality(S) > 1) PROVE Cardinality(S) = 1
  <2>1. PICK c : c = Cardinality(S)
    OBVIOUS
  <2>2. c \in Nat /\ c # 0 /\ ~(c > 1)
    BY <1>2, <1>3, <2>1
  <2> QED
    BY <2>1, <2>2
<1>4. Cardinality(S) = 1 => S # {}
  BY <1>2
<1>5. S # {} => (CHOOSE l \in S : TRUE) \in S
  OBVIOUS
<1> QED
  BY <1>3, <1>4, <1>5

LEMMA UnifiedIsGiven ==
  ASSUME \A k \in 1..3 : labels[Sources[k]] = Listings(Workbooks[raw])[Sources[k]],
         \A s \in Apps : unified[s].label = NotListed,
         BuildUnified, NEW s \in Apps
  PROVE  TrainLabel(s)' = GivenLabel(s)
<1> DEFINE w == Listings(Workbooks[raw])
           by == {w[n][s] : n \in {"known_malicious", "known_white"}} \ {NotListed}
           manual == w.manual_conflict[s]
<1>1. /\ labels["known_malicious"] = w.known_malicious /\ labels["known_white"] = w.known_white
      /\ labels["manual_conflict"] = w.manual_conflict
  <2>1. /\ labels[Sources[1]] = w[Sources[1]] /\ labels[Sources[2]] = w[Sources[2]]
        /\ labels[Sources[3]] = w[Sources[3]]
    OBVIOUS
  <2>2. /\ Sources[1] = "known_malicious" /\ Sources[2] = "known_white"
        /\ Sources[3] = "manual_conflict"
    BY DEF Sources
  <2> HIDE DEF w
  <2> QED
    BY <2>1, <2>2
<1>2. w.known_malicious[s] \in {"malicious", NotListed} /\ w.known_white[s] \in {"benign", NotListed}
  BY DEF Listings
<1>3. Known(s) = by /\ by \subseteq {"malicious", "benign"}
  <2>1. by = {w.known_malicious[s], w.known_white[s]} \ {NotListed}
    OBVIOUS
  <2>2. Known(s) = {labels["known_malicious"][s], labels["known_white"][s]} \ {NotListed}
    BY DEF Known
  <2> HIDE DEF w, by
  <2> QED
    BY <1>1, <1>2, <2>1, <2>2
<1>4. GivenLabel(s) = IF manual \notin {NotListed, Unlabelled} THEN manual
                      ELSE IF Cardinality(by) = 1 THEN CHOOSE l \in by : TRUE ELSE NotListed
  BY DEF GivenLabel
<1>5. HasLabel("manual_conflict", s) <=> manual \notin {NotListed, Unlabelled}
  BY <1>1 DEF HasLabel
<1> DEFINE listed == \E n \in ToSet(Sources) : labels[n][s] # NotListed
<1>6. unified'[s] = IF listed THEN Unify(s) ELSE unified[s]
  BY DEF BuildUnified
<1>7. listed <=> (manual # NotListed \/ by # {})
  <2>1. ToSet(Sources) = {"known_malicious", "known_white", "manual_conflict"}
    BY DEF Sources, ToSet
  <2>2. listed <=> \/ labels["known_malicious"][s] # NotListed
                   \/ labels["known_white"][s] # NotListed
                   \/ labels["manual_conflict"][s] # NotListed
    BY <2>1
  <2>3. by = {w.known_malicious[s], w.known_white[s]} \ {NotListed}
    OBVIOUS
  <2> HIDE DEF w, by, listed
  <2> QED
    BY <1>1, <2>2, <2>3 DEF manual
<1>8. Unify(s).label = IF manual \notin {NotListed, Unlabelled} THEN manual
                       ELSE IF Cardinality(by) > 1 \/ by = {} THEN Unlabelled
                       ELSE CHOOSE l \in by : TRUE
  <2> HIDE DEF w, by, listed
  <2> QED
    BY <1>1, <1>3, <1>5 DEF Unify, manual
<1>9. NotListed # Unlabelled /\ {"malicious", "benign"} \cap {NotListed, Unlabelled} = {}
  BY DEF NotListed, Unlabelled
<1>10. TrainLabel(s)' = IF unified'[s].label \in {NotListed, Unlabelled} THEN NotListed
                        ELSE unified'[s].label
  BY DEF TrainLabel
<1>11. unified[s].label = NotListed
  OBVIOUS
<1>12. /\ by # {} /\ ~(Cardinality(by) > 1) => Cardinality(by) = 1
       /\ Cardinality(by) = 1 => (CHOOSE l \in by : TRUE) \in {"malicious", "benign"}
       /\ by = {} => Cardinality(by) # 1
  <2> HIDE DEF by
  <2> QED
    BY <1>3, OneLabel
<1>13. Cardinality(by) = 1 => ~(Cardinality(by) > 1)
  OBVIOUS
<1> HIDE DEF w, by, manual, listed
<1>14. CASE manual \notin {NotListed, Unlabelled}
  BY <1>4, <1>6, <1>7, <1>8, <1>9, <1>10, <1>14
<1>15. CASE manual \in {NotListed, Unlabelled} /\ Cardinality(by) = 1
  BY <1>4, <1>6, <1>7, <1>8, <1>9, <1>10, <1>12, <1>13, <1>15
<1>16. CASE manual \in {NotListed, Unlabelled} /\ Cardinality(by) # 1
  BY <1>4, <1>6, <1>7, <1>8, <1>9, <1>10, <1>11, <1>12, <1>16
<1> QED
  BY <1>14, <1>15, <1>16

LEMMA UnifiedStays ==
  ASSUME CommandStage, ImportedSoFar, UnifiedOfNow, [PipelineNext]_trainVars
  PROVE  UnifiedOfNow'
<1> SUFFICES ASSUME stage'.all,
                    stage'.name = "sft" \/ (stage'.name = "prepare" /\ stage'.step > 4),
                    NEW s \in Apps
             PROVE  TrainLabel(s)' = GivenLabel(s)'
  BY DEF UnifiedOfNow
<1>0. UNCHANGED raw => GivenLabel(s)' = GivenLabel(s)
  BY DEF GivenLabel, Listings
<1>1. UNCHANGED <<raw, unified>> /\ TrainLabel(s) = GivenLabel(s)
        => TrainLabel(s)' = GivenLabel(s)'
  BY <1>0 DEF TrainLabel
<1>2. CASE BuildUnified /\ stage.all /\ UNCHANGED raw
  <2>1. stage.name = "prepare" /\ stage.step = 4
    BY <1>2 DEF BuildUnified, At
  <2>2. /\ \A k \in 1..3 : labels[Sources[k]] = Listings(Workbooks[raw])[Sources[k]]
        /\ \A x \in Apps : unified[x].label = NotListed
    BY <1>2, <2>1 DEF ImportedSoFar
  <2> QED
    BY <1>0, <1>2, <2>2, UnifiedIsGiven
<1>3. CASE ImportLabels
  <2>1. stage.name = "prepare" /\ stage.step <= 3 /\ stage' = [stage EXCEPT !.step = stage.step + 1]
    BY <1>3 DEF ImportLabels, Forward
  <2> QED
    BY <2>1 DEF CommandStage
<1>4. CASE stage.all /\ UNCHANGED <<raw, unified>>
           /\ (stage.name = "sft" \/ (stage.name = "prepare" /\ stage.step > 4))
  BY <1>1, <1>4 DEF UnifiedOfNow
<1>5. FreezeAll \/ TrainNext \/ CalibrateNext => UNCHANGED unified /\ stage.name # "prepare"
  BY DEF FreezeAll, TrainNext, CalibrateNext, At, tables
<1>6. /\ Follows["prepare"] = "sft" /\ Steps["prepare"] = 4
      /\ Follows["sft"] \notin {"sft", "prepare"} /\ Follows["train"] \notin {"sft", "prepare"}
  BY StepsOfStages
<1> QED
  BY <1>2, <1>3, <1>4, <1>5, <1>6, AllGoesOn

LEMMA BlocksStay ==
  ASSUME CommandStage, UnifiedOfNow, BlocksOfNow, [PipelineNext]_trainVars
  PROVE  BlocksOfNow'
<1> SUFFICES ASSUME stage'.all,
                    stage'.name \in {"train", "calibrate"} \/ (stage'.name = "sft" /\ stage'.step > 1),
                    NEW s \in Apps
             PROVE  blocks'[s] = GivenLabel(s)'
  BY DEF BlocksOfNow
<1>0. UNCHANGED raw => GivenLabel(s)' = GivenLabel(s)
  BY DEF GivenLabel, Listings
<1>1. CASE FreezeAll /\ stage.all /\ UNCHANGED raw
  <2>1. stage.name = "sft"
    BY <1>1 DEF FreezeAll, At
  <2>2. TrainLabel(s) = GivenLabel(s)
    BY <1>1, <2>1 DEF UnifiedOfNow
  <2>3. blocks'[s] = IF s \in Trainable THEN unified[s].label ELSE NotListed
    BY <1>1 DEF FreezeAll, FrozenBlocks
  <2> QED
    BY <1>0, <1>1, <2>2, <2>3 DEF TrainLabel, Trainable
<1>2. CASE stage.all /\ UNCHANGED <<raw, blocks>>
           /\ (stage.name \in {"train", "calibrate"} \/ (stage.name = "sft" /\ stage.step > 1))
  BY <1>0, <1>2 DEF BlocksOfNow
<1>3. /\ ImportLabels \/ BuildUnified => stage.name = "prepare"
      /\ TrainNext \/ CalibrateNext => UNCHANGED blocks /\ stage.name \in {"train", "calibrate"}
      /\ FreezeAll => stage.name = "sft"
  BY DEF ImportLabels, BuildUnified, FreezeAll, TrainNext, CalibrateNext, At, tables
<1>4. Follows["prepare"] = "sft" /\ Steps["sft"] = 1
  BY StepsOfStages
<1>5. stage.step \in Nat
  BY DEF CommandStage
<1> QED
  BY <1>1, <1>2, <1>3, <1>4, <1>5, AllGoesOn

\* What is fitted to blocks of now is of now.
LEMMA FittedIsOfNow ==
  ASSUME \A s \in Apps : blocks[s] = GivenLabel(s), NEW n PROVE OfNow(Fitted(n))
<1>1. \A p : \A r \in RowsOf(n, p) :
         r[1] \in Apps /\ r[2] = blocks[r[1]] /\ SplitOf[r[1]] = p
  BY DEF RowsOf, ManualRows, StackedRows, BlockRows
<1>2. \A r \in AllRows(n) : r[1] \in Apps /\ r[2] = blocks[r[1]]
  BY <1>1 DEF AllRows
<1> QED
  BY <1>1, <1>2 DEF OfNow, Fitted

LEMMA ModelsStay ==
  ASSUME CommandStage, FilesKept, BlocksOfNow, ModelsOfNow, [PipelineNext]_trainVars
  PROVE  ModelsOfNow'
<1> SUFFICES ASSUME stage'.all, stage'.name \in {"train", "calibrate"}
             PROVE  /\ stage'.name = "train" =>
                         \A i \in DOMAIN Order : i < stage'.step => OfNow(models'[Order[i]])
                    /\ stage'.name = "calibrate" => \A n \in ModelNames : OfNow(models'[n])
  <2>1. stage'.all /\ stage'.name \in {"train", "calibrate"} => UNCHANGED raw
    BY AllGoesOn
  <2>2. UNCHANGED raw => \A n : OfNow(models'[n]) => OfNow(models[n])'
    <3>1. UNCHANGED raw => \A s : GivenLabel(s)' = GivenLabel(s)
      BY DEF GivenLabel, Listings
    <3> QED
      BY <3>1 DEF OfNow
  <2>3. UNCHANGED raw => \A i : OfNow(models'[Order[i]]) => OfNow(models[Order[i]])'
    BY <2>2
  <2> QED
    BY <2>1, <2>2, <2>3 DEF ModelsOfNow
<1>0. \A i \in DOMAIN Order : ~(i < 1) /\ i \in Nat /\ Order[i] \in ModelNames
  BY OrderOfModels
<1>1. CASE TrainNext /\ stage.all /\ UNCHANGED raw /\ stage'.name = stage.name
           /\ stage'.step = stage.step + 1
  <2>1. PICK m :
            /\ Order[stage.step] \in ModelNames
            /\ models' = [models EXCEPT ![Order[stage.step]] = m]
            /\ \/ m = Fitted(Order[stage.step])
               \/ \E j \in DOMAIN Order : j < stage.step /\ m = models[Order[j]]
    BY <1>1, TrainWrites
  <2>2. stage.name = "train" /\ stage.step \in Nat
    BY <1>1 DEF TrainNext, CommandStage
  <2>3. \A s \in Apps : blocks[s] = GivenLabel(s)
    BY <1>1, <2>2 DEF BlocksOfNow
  <2>4. \A j \in DOMAIN Order : j < stage.step => OfNow(models[Order[j]])
    BY <1>1, <2>2 DEF ModelsOfNow
  <2>5. OfNow(m)
    BY <2>1, <2>3, <2>4, FittedIsOfNow
  <2>6. \A n \in ModelNames : models'[n] = IF n = Order[stage.step] THEN m ELSE models[n]
    BY <2>1 DEF FilesKept
  <2>7. \A i \in DOMAIN Order : i < stage'.step => OfNow(models'[Order[i]])
    BY <1>0, <1>1, <2>2, <2>4, <2>5, <2>6
  <2> QED
    BY <1>1, <2>2, <2>7
<1>2. CASE UNCHANGED <<stage, raw, models>>
  BY <1>2 DEF ModelsOfNow
<1>3. CASE stage.name = "train" /\ stage.all /\ UNCHANGED <<raw, models>> /\ stage.step > Len(Order)
           /\ stage'.name = "calibrate"
  <2>1. \A n \in ModelNames : OfNow(models[n])
    BY <1>3, OrderOfModels DEF ModelsOfNow, CommandStage
  <2> QED
    BY <1>3, <2>1
<1>4. CASE stage'.step = 1 /\ stage'.name = "train"
  BY <1>0, <1>4
<1>5. CASE CalibrateNext /\ stage.all /\ UNCHANGED raw
  <2>1. stage.name = "calibrate" /\ UNCHANGED models
    BY <1>5 DEF CalibrateNext
  <2>2. stage'.name = "calibrate"
    BY <1>5, <2>1 DEF CalibrateNext, Forward, CommandStage
  <2> QED
    BY <1>5, <2>1, <2>2 DEF ModelsOfNow
<1>6. ImportLabels \/ BuildUnified \/ FreezeAll => stage.name \in {"prepare", "sft"}
  BY DEF ImportLabels, BuildUnified, FreezeAll, At
<1>7. /\ Follows["prepare"] = "sft" /\ Follows["sft"] = "train" /\ Follows["train"] = "calibrate"
      /\ Steps["train"] = Len(Order)
  BY StepsOfStages
<1> QED
  BY <1>1, <1>2, <1>3, <1>4, <1>5, <1>6, <1>7, AllGoesOn

\* When "all" ends, every model is of the samples and labels that the workbooks give now,
\* and a regression of training rows only: nothing is left of earlier workbooks, samples
\* or commands that died (training/pipeline.py, build_dataset.py, train_models.py).
THEOREM EveryModelIsOfNow == PipelineSpec => AllStartsAfresh
<1>1. PipeInv /\ [PipelineNext]_trainVars => PipeInv'
  BY StageTyped, FilesStayKept, CalibratedStays, ImportsSoFar, UnifiedStays, BlocksStay,
     ModelsStay DEF PipeInv
<1>2. PipeInv =>
        (Finish /\ stage.all /\ stage.name = "calibrate" =>
          /\ \A s \in Apps : blocks[s] = GivenLabel(s)
          /\ \A n \in ModelNames : \A r \in models[n].rows :
                /\ r[2] = GivenLabel(r[1])
                /\ models[n].kind = "regression" => SplitOf[r[1]] = "train")
  BY DEF PipeInv, BlocksOfNow, ModelsOfNow, OfNow
<1> QED
  BY <1>1, <1>2, PipeInitially, PTL DEF PipelineSpec, AllStartsAfresh

(***************************************************************************)
(* What the card of a layer shows.  The variants of an action are worked   *)
(* off in their order, and a variant with a failed sample ends the job:    *)
(* so what one has completed, those before it have too (Nested), as long   *)
(* as no checkpoint was lost.  The job that runs has completed its batch   *)
(* in the variants before its command (BatchOfJob, BatchOfCommand), and a  *)
(* replay picks the whole batch, for nothing of it was completed before    *)
(* (BatchOfReplay).  Readiness rests on the files alone: no report is ever *)
(* taken away, and what the files call completed has one (FilesReported,   *)
(* CommandReported).                                                       *)
(***************************************************************************)
CampaignTypeOK ==
    /\ role \in Roles
    /\ ledger \in [Runs -> [SuiteSamples -> {"none", "completed", "failed"}]]
    /\ published \in [Runs -> [status : {"none", "completed", "failed"},
                               selected : Nat, failed : Nat, completed : Nat]]
    /\ reports \in [Runs -> [SuiteSamples -> {"none", "whole", "thin"}]]
    /\ picked \in [Runs -> SUBSET SuiteSamples] /\ begun \subseteq Runs
    /\ source \subseteq SuiteSamples
    /\ jobs \in [Actions -> [status : {"none", "running", "completed", "failed", "cancelled"},
                             batch : SUBSET RowIds, selected : Seq(Nat)]]
    /\ cmd \in [pc : {"none", "next", "judge", "save", "saveFailed", "record"},
                k : Nat \ {0}, todo : SUBSET RowIds, ok : Nat, failed : Nat, skipped : Nat]
    /\ faults \in [n : Nat, lost : BOOLEAN]

\* Which command runs, and on what.
AtWork == cmd.pc \in {"judge", "save", "saveFailed", "record"}
OnJob ==
    /\ active = "none" <=> cmd.pc = "none"
    /\ active # "none" => active \in Actions /\ jobs[active].status = "running"
    /\ active # "none" => cmd.k <= Len(Commands[active]) + 1
    /\ AtWork => cmd.k \in DOMAIN Commands[active]
    /\ AtWork => cmd.todo \subseteq jobs[active].batch
    /\ cmd.pc \in {"save", "saveFailed"} => cmd.todo # {} /\ ledger[Ordered.run][Tried] # "completed"
    /\ cmd.pc = "record" => cmd.todo = {}

HasReport(run) == \E s \in SuiteSamples : reports[run][s] # "none"

FilesReported ==
    \A run \in Runs :
        /\ \A s \in SuiteSamples : ledger[run][s] = "completed" => reports[run][s] # "none"
        /\ published[run].completed > 0 => HasReport(run)
        /\ HasReport(run) => run \in begun

CommandReported ==
    AtWork => /\ Ordered.run \in begun
              /\ cmd.pc = "save" => reports[Ordered.run][Tried] # "none"
              /\ cmd.ok + cmd.skipped > 0 => HasReport(Ordered.run)

\* The progress while all checkpoints are there.
Nested ==
    \A a \in Actions : \A i, j \in DOMAIN RunsOf[a] :
        i <= j => Completed(RunsOf[a][j]) \subseteq Completed(RunsOf[a][i])

\* The application has not taken a sample of the batch over.
Alone(a) == a = "complete_release" => source = {}

Done(a, k) == jobs[a].batch \subseteq Completed(Commands[a][k].run)

BatchOfJob ==
    active # "none" /\ Alone(active) =>
        \A k \in DOMAIN Commands[active] : k < cmd.k => Done(active, k)

BatchOfCommand ==
    AtWork /\ Alone(active) /\ cmd.failed = 0 =>
        jobs[active].batch \subseteq Completed(Ordered.run) \cup cmd.todo

\* What a command has counted: one that has tried a sample has yet to save it.
Counted ==
    /\ AtWork => cmd.ok + cmd.failed + cmd.skipped + Cardinality(cmd.todo) =
                   Cardinality(picked[Ordered.run]) + (IF cmd.pc \in {"save", "saveFailed"} THEN 1 ELSE 0)
    /\ cmd.pc = "saveFailed" => cmd.failed > 0
Told ==
    cmd.pc = "record" =>
        LET told == published[Ordered.run]
        IN  /\ told.selected = Cardinality(picked[Ordered.run]) /\ told.failed = cmd.failed
            /\ told.status = "failed" <=> cmd.failed > 0

Replay == "production_reliability"
Replayed == jobs[Replay].selected[2] = Cardinality(jobs[Replay].batch) /\ Len(jobs[Replay].selected) >= 2
BatchOfReplay ==
    active = Replay =>
        /\ Len(jobs[Replay].selected) = cmd.k - 1
        /\ cmd.k = 1 /\ cmd.pc = "next" => jobs[Replay].batch \cap Completed("fault-recovery") = {}
        /\ cmd.k > 1 \/ cmd.pc # "next" => picked["fault-recovery"] = jobs[Replay].batch
        /\ cmd.k = 3 => Replayed

JobsDone ==
    \A a \in Actions : jobs[a].status = "completed" =>
        /\ Alone(a) => \A k \in DOMAIN Commands[a] : Done(a, k)
        /\ a = Replay => Replayed

ProgressInv == Nested /\ BatchOfJob /\ BatchOfCommand /\ BatchOfReplay /\ JobsDone

CampaignInv ==
    /\ CampaignTypeOK /\ OnJob /\ FilesReported /\ CommandReported /\ Counted /\ Told
    /\ ~faults.lost => ProgressInv

(* ----------------------- actions and commands ------------------------- *)

LEMMA ActionsAre ==
  Actions = {"gold_compare", "model_release", "complete_release", "rag_compare", "agent_ablation",
             "debate_ablation", "xgb_ablation", "production_reliability"}
  BY DEF Actions, RunsOf

\* Each action has variants, each of a run of its own.
LEMMA RunsAsSeq ==
  ASSUME NEW a \in Actions
  PROVE  /\ (\E S : RunsOf[a] \in Seq(S)) /\ Len(RunsOf[a]) \in Nat /\ Len(RunsOf[a]) >= 1
         /\ DOMAIN RunsOf[a] = 1..Len(RunsOf[a])
         /\ \A i, j \in DOMAIN RunsOf[a] : RunsOf[a][i] = RunsOf[a][j] => i = j
<1>1. CASE a = "rag_compare"
  <2>1. PICK runs : runs = <<"rag_off", "rag_vector", "rag_hybrid">>
    OBVIOUS
  <2>2. \E S : runs \in Seq(S)
    <3>1. <<"rag_off", "rag_vector", "rag_hybrid">> \in
            Seq({"rag_off", "rag_vector", "rag_hybrid"})
      OBVIOUS
    <3> QED
      BY <2>1, <3>1, Zenon
  <2>3. Len(runs) = 3 /\ DOMAIN runs = 1..3
    BY <2>1
  <2>4. \A i, j \in 1..3 : runs[i] = runs[j] => i = j
    BY <2>1
  <2>5. RunsOf[a] = runs
    BY <1>1, <2>1 DEF RunsOf
  <2> QED
    <3>1. Len(runs) \in Nat /\ Len(runs) >= 1 /\ DOMAIN runs = 1..Len(runs)
      BY <2>3
    <3> QED
      BY <2>2, <2>3, <2>4, <2>5, <3>1, Zenon
<1>2. CASE a = "agent_ablation"
  <2>1. PICK runs : runs = <<"full", "no-static_analysis", "no-threat_intel",
              "no-impersonation", "no-business_label">>
    OBVIOUS
  <2>2. \E S : runs \in Seq(S)
    <3>1. <<"full", "no-static_analysis", "no-threat_intel",
            "no-impersonation", "no-business_label">> \in
            Seq({"full", "no-static_analysis", "no-threat_intel",
            "no-impersonation", "no-business_label"})
      OBVIOUS
    <3> QED
      BY <2>1, <3>1, Zenon
  <2>3. Len(runs) = 5 /\ DOMAIN runs = 1..5
    BY <2>1
  <2>4. \A i, j \in 1..5 : runs[i] = runs[j] => i = j
    BY <2>1
  <2>5. RunsOf[a] = runs
    BY <1>2, <2>1 DEF RunsOf
  <2> QED
    <3>1. Len(runs) \in Nat /\ Len(runs) >= 1 /\ DOMAIN runs = 1..Len(runs)
      BY <2>3
    <3> QED
      BY <2>2, <2>3, <2>4, <2>5, <3>1, Zenon
<1>3. CASE a = "debate_ablation"
  <2>1. PICK runs : runs = <<"debate_none", "debate_single", "debate_short", "debate_full">>
    OBVIOUS
  <2>2. \E S : runs \in Seq(S)
    <3>1. <<"debate_none", "debate_single", "debate_short", "debate_full">> \in
            Seq({"debate_none", "debate_single", "debate_short", "debate_full"})
      OBVIOUS
    <3> QED
      BY <2>1, <3>1, Zenon
  <2>3. Len(runs) = 4 /\ DOMAIN runs = 1..4
    BY <2>1
  <2>4. \A i, j \in 1..4 : runs[i] = runs[j] => i = j
    BY <2>1
  <2>5. RunsOf[a] = runs
    BY <1>3, <2>1 DEF RunsOf
  <2> QED
    <3>1. Len(runs) \in Nat /\ Len(runs) >= 1 /\ DOMAIN runs = 1..Len(runs)
      BY <2>3
    <3> QED
      BY <2>2, <2>3, <2>4, <2>5, <3>1, Zenon
<1>4. CASE a = "xgb_ablation"
  <2>1. PICK runs : runs = <<"xgb_off", "xgb_agent_only", "xgb_fusion", "xgb_full">>
    OBVIOUS
  <2>2. \E S : runs \in Seq(S)
    <3>1. <<"xgb_off", "xgb_agent_only", "xgb_fusion", "xgb_full">> \in
            Seq({"xgb_off", "xgb_agent_only", "xgb_fusion", "xgb_full"})
      OBVIOUS
    <3> QED
      BY <2>1, <3>1, Zenon
  <2>3. Len(runs) = 4 /\ DOMAIN runs = 1..4
    BY <2>1
  <2>4. \A i, j \in 1..4 : runs[i] = runs[j] => i = j
    BY <2>1
  <2>5. RunsOf[a] = runs
    BY <1>4, <2>1 DEF RunsOf
  <2> QED
    <3>1. Len(runs) \in Nat /\ Len(runs) >= 1 /\ DOMAIN runs = 1..Len(runs)
      BY <2>3
    <3> QED
      BY <2>2, <2>3, <2>4, <2>5, <3>1, Zenon
<1>5. CASE a \notin {"rag_compare", "agent_ablation", "debate_ablation", "xgb_ablation"}
  <2>1. PICK run : RunsOf[a] = <<run>>
    <3>1. RunsOf[a] = <<"gold-compare">> \/ RunsOf[a] = <<"model-release">>
          \/ RunsOf[a] = <<"fault-recovery">>
      BY <1>5, ActionsAre DEF RunsOf
    <3> QED
      BY <3>1
  <2>2. <<run>> \in Seq({run})
    OBVIOUS
  <2>3. Len(<<run>>) = 1 /\ DOMAIN <<run>> = 1..1
    OBVIOUS
  <2>4. Len(<<run>>) \in Nat /\ Len(<<run>>) >= 1 /\ DOMAIN <<run>> = 1..Len(<<run>>)
    BY <2>3
  <2>5. \A i, j \in DOMAIN <<run>> : i = j
    BY <2>3
  <2> QED
    BY <2>1, <2>2, <2>4, <2>5, Zenon
<1> QED
  BY <1>1, <1>2, <1>3, <1>4, <1>5

LEMMA RunsShape ==
  ASSUME NEW a \in Actions
  PROVE  /\ RunsOf[a] \in Seq(Runs) /\ Len(RunsOf[a]) \in Nat /\ Len(RunsOf[a]) >= 1
         /\ DOMAIN RunsOf[a] = 1..Len(RunsOf[a])
         /\ \A i, j \in DOMAIN RunsOf[a] : RunsOf[a][i] = RunsOf[a][j] => i = j
         /\ ToSet(RunsOf[a]) = {RunsOf[a][i] : i \in DOMAIN RunsOf[a]}
<1>1. PICK len \in Nat : len = Len(RunsOf[a]) /\ DOMAIN RunsOf[a] = 1..len 
                     /\ RunsOf[a] = [i \in 1..len |-> RunsOf[a][i]]
  BY RunsAsSeq, LenProperties
<1>2. \A i \in 1..len : RunsOf[a][i] \in Runs
  BY <1>1 DEF Runs, ToSet
<1>3. RunsOf[a] \in [1..len -> Runs]
  BY <1>1, <1>2
<1>4. RunsOf[a] \in Seq(Runs)
  BY <1>1, <1>3, SeqDef
<1> QED
  BY <1>4, RunsAsSeq, Zenon DEF ToSet

\* Only the two release actions share a run.
LEMMA RunsApart ==
  ASSUME NEW a \in Actions, NEW b \in Actions, a # b,
         NEW i \in DOMAIN RunsOf[a], NEW j \in DOMAIN RunsOf[b], RunsOf[a][i] = RunsOf[b][j]
  PROVE  /\ Len(RunsOf[a]) = 1 /\ Len(RunsOf[b]) = 1
         /\ a \in {"model_release", "complete_release"}
  BY ActionsAre DEF RunsOf

\* The commands of an action: its variants, and for the reliability test the replay.
LEMMA CommandsShape ==
  ASSUME NEW a \in Actions
  PROVE  /\ DOMAIN Commands[a] = 1..Len(Commands[a])
         /\ Len(Commands[a]) = Len(RunsOf[a]) + (IF a = Replay THEN 1 ELSE 0)
         /\ \A k \in DOMAIN RunsOf[a] : k \in DOMAIN Commands[a] /\ Commands[a][k].run = RunsOf[a][k]
         /\ \A k \in DOMAIN Commands[a] :
               /\ Commands[a][k].run \in Runs /\ Commands[a][k].run \in ToSet(RunsOf[a])
               /\ Commands[a][k].replay <=> k \notin DOMAIN RunsOf[a]
               /\ Commands[a][k].pending <=> a = "complete_release"
<1>1. PICK len \in Nat : len >= 1 /\ len = Len(RunsOf[a]) /\ DOMAIN RunsOf[a] = 1..len
  BY RunsShape
<1>2. PICK more \in Nat : more = IF a = Replay THEN 1 ELSE 0
  OBVIOUS
<1>3. PICK n \in Nat : n = len + more
  OBVIOUS
<1>4. len <= n /\ (\A k \in 1..len : k \in 1..n)
  BY <1>3
<1> DEFINE command(k) == [run |-> IF k <= len THEN RunsOf[a][k] ELSE RunsOf[a][1],
                          replay |-> k > len, pending |-> a = "complete_release"]
<1>5. Commands[a] = [k \in 1..n |-> command(k)]
  BY <1>1, <1>2, <1>3, Zenon DEF Commands, Replay
<1>6. \A k \in 1..n : /\ command(k).run = IF k <= len THEN RunsOf[a][k] ELSE RunsOf[a][1]
                      /\ command(k).replay = (k > len)
                      /\ command(k).pending = (a = "complete_release")
  BY Zenon
<1>7. \A k \in 1..len : RunsOf[a][k] \in Runs /\ RunsOf[a][k] \in ToSet(RunsOf[a])
  <2>1. RunsOf[a] \in Seq(Runs) /\ ToSet(RunsOf[a]) = {RunsOf[a][i] : i \in DOMAIN RunsOf[a]}
    BY RunsShape
  <2> QED
    BY <1>1, <2>1, ElementOfSeq
<1> HIDE DEF command
<1>8. \A k \in 1..n : command(k).run \in Runs /\ command(k).run \in ToSet(RunsOf[a])
  BY <1>1, <1>6, <1>7
<1>9. \A k \in 1..n : command(k).replay <=> k \notin DOMAIN RunsOf[a]
  <2>1. \A k \in 1..n : k > len <=> k \notin DOMAIN RunsOf[a]
    BY <1>1
  <2> QED
    BY <1>6, <2>1, Zenon
<1>10. \A k \in DOMAIN RunsOf[a] : k \in 1..n /\ command(k).run = RunsOf[a][k]
  BY <1>1, <1>4, <1>6
<1>11. Commands[a] \in [1..n -> {command(k) : k \in 1..n}]
  BY <1>5
<1>12. Len(Commands[a]) = n /\ DOMAIN Commands[a] = 1..n
  <2>1. Commands[a] \in Seq({command(k) : k \in 1..n})
    BY <1>11, SeqDef, Zenon
  <2> QED
    BY <1>11, <2>1, LenProperties
<1>13. \A k \in 1..n : Commands[a][k] = command(k)
  BY <1>5
<1>14. /\ DOMAIN Commands[a] = 1..Len(Commands[a])
       /\ Len(Commands[a]) = Len(RunsOf[a]) + (IF a = Replay THEN 1 ELSE 0)
  BY <1>1, <1>2, <1>3, <1>12
<1>15. \A k \in 1..n : /\ Commands[a][k].run \in Runs /\ Commands[a][k].run \in ToSet(RunsOf[a])
                       /\ Commands[a][k].replay <=> k \notin DOMAIN RunsOf[a]
                       /\ Commands[a][k].pending = (a = "complete_release")
  BY <1>6, <1>8, <1>9, <1>13, Zenon
<1>16. \A k \in DOMAIN RunsOf[a] : k \in 1..n /\ Commands[a][k].run = RunsOf[a][k]
  BY <1>10, <1>13, Zenon
<1> QED
  BY <1>12, <1>14, <1>15, <1>16, Zenon

(* ------------------------- types and the job -------------------------- *)

\* The part every other rests on: types, and which command runs on what.
FilesHold == CampaignTypeOK /\ OnJob

\* The row whose turn it is, is one of those still to do.
LEMMA TriedIsLeft ==
  ASSUME role \in Roles, cmd.todo \subseteq RowIds, cmd.todo # {}
  PROVE  Tried \in cmd.todo
<1> DEFINE places == {i \in DOMAIN role.rows : role.rows[i] \in cmd.todo}
<1>1. DOMAIN role.rows \subseteq Nat
  <2>1. role.rows \in Seq(SuiteSamples)
    BY CampaignAssumption DEF IsRole
  <2> QED
    BY <2>1, LenProperties
<1>2. places # {}
  BY DEF RowIds, ToSet
<1>3. \E x \in places : \A y \in places : x <= y
  <2>1. PICK x \in places : \A y \in places : ~(<<y, x>> \in OpToRel(<, Nat))
    BY <1>1, <1>2, WFMin, NatLessThanWellFounded
  <2>2. \A y \in places : ~(y < x)
    BY <1>1, <2>1 DEF OpToRel
  <2> QED
    BY <1>1, <2>2
<1>4. Min(places) \in places
  BY <1>3 DEF Min
<1> QED
  BY <1>4 DEF Tried

\* The rows of a suite stay what they are, and no batch is of others.
LEMMA BatchInRows ==
  ASSUME role \in Roles, NEW a, NEW size PROVE Batch(a, size) \subseteq RowIds
  BY DEF Batch, RowIds, ToSet

LEMMA RowsFinite == ASSUME role \in Roles PROVE RowIds \subseteq SuiteSamples /\ IsFiniteSet(RowIds)
<1>1. role.rows \in Seq(SuiteSamples)
  BY CampaignAssumption DEF IsRole
<1>2. RowIds \subseteq SuiteSamples
  BY <1>1, LenProperties DEF RowIds, ToSet
<1> QED
  BY <1>2, FS_Subset, CampaignAssumption

LEMMA BaseInit == ASSUME CampaignInit PROVE FilesHold
  BY ActionsAre DEF CampaignInit, FilesHold, CampaignTypeOK, OnJob, Nothing, NoReport, NoFile, NoCommand,
     Turn, AtWork

\* What a start, and the end of a job, leave behind.
LEMMA StartEffect ==
  ASSUME FilesHold, NEW a \in Actions, NEW size \in BatchSizes, Start(a, size)
  PROVE  /\ active = "none" /\ active' = a
         /\ UNCHANGED <<role, runFiles, source, faults>> /\ RowIds' = RowIds
         /\ cmd' = [pc |-> "next", k |-> 1, todo |-> {}, ok |-> 0, failed |-> 0, skipped |-> 0]
         /\ jobs' = [jobs EXCEPT ![a] =
                       [status |-> "running", batch |-> Batch(a, size), selected |-> <<>>]]
         /\ jobs'[a] = [status |-> "running", batch |-> Batch(a, size), selected |-> <<>>]
         /\ \A b \in Actions : b # a => jobs'[b] = jobs[b]
         /\ Batch(a, size) \in SUBSET RowIds
<1>1. /\ active = "none" /\ active' = a /\ UNCHANGED <<role, runFiles, source, faults>>
      /\ cmd' = Turn("next", 1, {})
      /\ jobs' = [jobs EXCEPT ![a] =
                    [status |-> "running", batch |-> Batch(a, size), selected |-> <<>>]]
  BY Zenon DEF Start
<1>2. cmd' = [pc |-> "next", k |-> 1, todo |-> {}, ok |-> 0, failed |-> 0, skipped |-> 0]
  BY <1>1 DEF Turn
<1>5. jobs'[a] = [status |-> "running", batch |-> Batch(a, size), selected |-> <<>>]
  BY <1>1 DEF FilesHold, CampaignTypeOK
<1>6. \A b \in Actions : b # a => jobs'[b] = jobs[b]
  BY <1>1 DEF FilesHold, CampaignTypeOK
<1>7. RowIds' = RowIds
  BY <1>1 DEF RowIds
<1>8. Batch(a, size) \in SUBSET RowIds
  BY BatchInRows DEF FilesHold, CampaignTypeOK
<1> QED
  BY <1>1, <1>2, <1>5, <1>6, <1>7, <1>8, Zenon

LEMMA EndedEffect ==
  ASSUME FilesHold, active \in Actions, NEW status \in {"completed", "failed", "cancelled"}, Ended(status)
  PROVE  /\ active' = "none"
         /\ cmd' = [pc |-> "none", k |-> 1, todo |-> {}, ok |-> 0, failed |-> 0, skipped |-> 0]
         /\ jobs' \in [Actions -> [status : {"none", "running", "completed", "failed", "cancelled"},
                                    batch : SUBSET RowIds, selected : Seq(Nat)]]
         /\ jobs'[active] = [status |-> status, batch |-> jobs[active].batch,
                             selected |-> jobs[active].selected]
         /\ \A b \in Actions : b # active => jobs'[b] = jobs[b]
  BY DEF Ended, NoCommand, Turn, FilesHold, CampaignTypeOK

LEMMA StartBase ==
  ASSUME FilesHold, NEW a \in Actions, NEW size \in BatchSizes, Start(a, size) PROVE FilesHold'
<1>0. /\ active' = a /\ UNCHANGED <<role, runFiles, source, faults>> /\ RowIds' = RowIds
      /\ cmd' = [pc |-> "next", k |-> 1, todo |-> {}, ok |-> 0, failed |-> 0, skipped |-> 0]
      /\ jobs' = [jobs EXCEPT ![a] =
                    [status |-> "running", batch |-> Batch(a, size), selected |-> <<>>]]
      /\ jobs'[a] = [status |-> "running", batch |-> Batch(a, size), selected |-> <<>>]
      /\ Batch(a, size) \in SUBSET RowIds
  BY StartEffect, Zenon
<1>1. CampaignTypeOK'
  <2>1. jobs' \in [Actions -> [status : {"none", "running", "completed", "failed", "cancelled"},
                               batch : SUBSET RowIds, selected : Seq(Nat)]]
    <3>1. [status |-> "running", batch |-> Batch(a, size), selected |-> <<>>] \in
            [status : {"none", "running", "completed", "failed", "cancelled"},
             batch : SUBSET RowIds, selected : Seq(Nat)]
      <4>1. PICK none \in Seq(Nat) : none = <<>>
        BY EmptySeq
      <4>2. [status |-> "running", batch |-> Batch(a, size), selected |-> none] \in
              [status : {"none", "running", "completed", "failed", "cancelled"},
               batch : SUBSET RowIds, selected : Seq(Nat)]
        BY <1>0
      <4> QED
        BY <4>1, <4>2, Zenon
    <3>2. PICK file : file = [status |-> "running", batch |-> Batch(a, size), selected |-> <<>>]
      OBVIOUS
    <3>3. jobs' = [jobs EXCEPT ![a] = file]
      BY <1>0, <3>2, Zenon
    <3> QED
      BY <3>1, <3>2, <3>3 DEF FilesHold, CampaignTypeOK
  <2> QED
    BY <1>0, <2>1 DEF FilesHold, CampaignTypeOK, runFiles
<1>2. OnJob'
  <2>1. 1 <= Len(Commands[a]) + 1
    BY CommandsShape, RunsShape
  <2>2. active' = a /\ cmd'.pc = "next" /\ cmd'.k = 1 /\ jobs'[a].status = "running"
    BY <1>0
  <2> QED
    BY <2>1, <2>2, ActionsAre DEF OnJob, AtWork
<1> QED
  BY <1>1, <1>2 DEF FilesHold

\* The three ways a worker goes on after a command.
Over == cmd.k > Len(Commands[active]) /\ Ended("completed") /\ UNCHANGED <<runFiles, release>>
NoSelection ==
    /\ cmd.k <= Len(Commands[active]) /\ Ordered.replay /\ picked[Ordered.run] = {}
    /\ Ended("failed") /\ UNCHANGED <<runFiles, release>>
Selects ==
    /\ cmd.k <= Len(Commands[active])
    /\ Ordered.replay => picked[Ordered.run] # {}
    /\ cmd' = Turn("judge", cmd.k, Picks(Ordered))
    /\ picked' = [picked EXCEPT ![Ordered.run] = Picks(Ordered)]
    /\ begun' = begun \cup {Ordered.run}
    /\ UNCHANGED <<ledger, published, reports, active, jobs>>

LEMMA LaunchCases ==
  ASSUME Launch
  PROVE  /\ active # "none" /\ cmd.pc = "next" /\ UNCHANGED <<role, source, faults>>
         /\ RowIds' = RowIds
         /\ Over \/ NoSelection \/ Selects
  BY DEF Launch, Over, NoSelection, Selects, RowIds

\* The command at work is one of the active action's, on a run of its.
LEMMA AtCommand ==
  ASSUME FilesHold, active # "none", cmd.k \in DOMAIN Commands[active]
  PROVE  active \in Actions /\ Ordered.run \in Runs /\ cmd.k <= Len(Commands[active])
<1>1. active \in Actions
  BY DEF FilesHold, OnJob
<1>2. Commands[active][cmd.k].run \in Runs /\ DOMAIN Commands[active] = 1..Len(Commands[active])
  BY <1>1, CommandsShape
<1> QED
  BY <1>1, <1>2 DEF Ordered

LEMMA PicksAreLeft ==
  ASSUME FilesHold, active \in Actions
  PROVE  Picks(Ordered) \subseteq RowIds /\ Picks(Ordered) \subseteq jobs[active].batch
  BY DEF Picks

LEMMA LaunchBase == ASSUME FilesHold, Launch PROVE FilesHold'
<1>1. active \in Actions /\ cmd.k \in Nat \ {0}
  BY LaunchCases DEF FilesHold, OnJob, CampaignTypeOK
<1>2. CASE Over \/ NoSelection
  <2>1. PICK status \in {"completed", "failed", "cancelled"} : Ended(status)
    BY <1>2 DEF Over, NoSelection
  <2>2. UNCHANGED <<role, runFiles, source, faults>> /\ RowIds' = RowIds
    BY <1>2, LaunchCases DEF Over, NoSelection
  <2>3. CampaignTypeOK'
    BY <1>1, <2>1, <2>2, EndedEffect DEF FilesHold, CampaignTypeOK, runFiles
  <2>4. OnJob'
    BY <1>1, <2>1, EndedEffect DEF OnJob, AtWork
  <2> QED
    BY <2>3, <2>4 DEF FilesHold
<1>3. CASE Selects
  <2>1. cmd.k \in DOMAIN Commands[active]
    <3>1. DOMAIN Commands[active] = 1..Len(Commands[active]) /\ Len(Commands[active]) \in Nat
      BY <1>1, CommandsShape, RunsShape
    <3> QED
      BY <1>1, <1>3, <3>1 DEF Selects
  <2>2. Ordered.run \in Runs
    BY <2>1, AtCommand, LaunchCases
  <2>3. PICK left \in SUBSET RowIds : left = Picks(Ordered) /\ left \subseteq jobs[active].batch
    BY <1>1, PicksAreLeft
  <2>4. /\ cmd' = [pc |-> "judge", k |-> cmd.k, todo |-> left, ok |-> 0, failed |-> 0, skipped |-> 0]
        /\ picked' = [picked EXCEPT ![Ordered.run] = left] /\ begun' = begun \cup {Ordered.run}
        /\ UNCHANGED <<role, ledger, published, reports, active, jobs, source, faults>>
        /\ RowIds' = RowIds
    BY <1>3, <2>3, LaunchCases DEF Selects, Turn
  <2>5. left \in SUBSET SuiteSamples
    BY <2>3, RowsFinite DEF FilesHold, CampaignTypeOK
  <2>6. CampaignTypeOK'
    BY <1>1, <2>2, <2>4, <2>5 DEF FilesHold, CampaignTypeOK
  <2>7. OnJob'
    BY <1>1, <2>1, <2>3, <2>4, AtCommand, LaunchCases DEF FilesHold, OnJob, AtWork
  <2> QED
    BY <2>6, <2>7 DEF FilesHold
<1> QED
  BY <1>2, <1>3, LaunchCases

LEMMA StoppedBase ==
  ASSUME FilesHold, NEW status \in {"cancelled", "failed"}, Stopped(status) PROVE FilesHold'
<1>1. active \in Actions
  BY DEF Stopped, FilesHold, OnJob
<1>2. /\ Ended(status) /\ RowIds' = RowIds
      /\ UNCHANGED <<role, published, reports, picked, begun, source>>
  BY DEF Stopped, RowIds
<1>3. /\ ledger' \in [Runs -> [SuiteSamples -> {"none", "completed", "failed"}]]
      /\ faults' \in [n : Nat, lost : BOOLEAN]
  <2>1. faults' \in [n : Nat, lost : BOOLEAN]
    <3>1. faults \in [n : Nat, lost : BOOLEAN]
      BY DEF FilesHold, CampaignTypeOK
    <3>2. faults' = [faults EXCEPT !.n = @ + 1] \/ faults' = [n |-> faults.n + 1, lost |-> TRUE]
      BY DEF Stopped
    <3>3. CASE faults' = [faults EXCEPT !.n = @ + 1]
      BY <3>1, <3>3
    <3>4. CASE faults' = [n |-> faults.n + 1, lost |-> TRUE]
      BY <3>1, <3>4
    <3> QED
      BY <3>2, <3>3, <3>4
  <2>2. Nothing \in [SuiteSamples -> {"none", "completed", "failed"}]
    BY DEF Nothing
  <2>3. ledger' = ledger \/ (Ordered.run \in Runs /\ ledger' = [ledger EXCEPT ![Ordered.run] = Nothing])
    <3>1. cmd.pc \in {"save", "saveFailed"} => cmd.k \in DOMAIN Commands[active]
      BY DEF FilesHold, OnJob, AtWork
    <3> QED
      BY <3>1, <1>1, AtCommand, ActionsAre DEF Stopped
  <2>4. CASE ledger' = ledger
    BY <2>1, <2>4 DEF FilesHold, CampaignTypeOK
  <2>5. CASE Ordered.run \in Runs /\ ledger' = [ledger EXCEPT ![Ordered.run] = Nothing]
    <3>1. PICK none \in [SuiteSamples -> {"none", "completed", "failed"}] : none = Nothing
      BY <2>2
    <3>2. ledger' = [ledger EXCEPT ![Ordered.run] = none]
      BY <2>5, <3>1
    <3> QED
      BY <2>1, <3>2 DEF FilesHold, CampaignTypeOK
  <2> QED
    BY <2>3, <2>4, <2>5
<1>4. CampaignTypeOK'
  BY <1>1, <1>2, <1>3, EndedEffect DEF FilesHold, CampaignTypeOK
<1>5. OnJob'
  BY <1>1, <1>2, EndedEffect DEF OnJob, AtWork
<1> QED
  BY <1>4, <1>5 DEF FilesHold

Places == [pc : {"none", "next", "judge", "save", "saveFailed", "record"}, k : Nat \ {0},
           todo : SUBSET RowIds, ok : Nat, failed : Nat, skipped : Nat]
LEMMA CmdIsPlace == CampaignTypeOK => cmd \in Places
  BY DEF CampaignTypeOK, Places

LEMMA AtWorkFacts ==
  ASSUME FilesHold, AtWork
  PROVE  /\ active \in Actions /\ active # "none" /\ cmd.k \in DOMAIN Commands[active]
         /\ Ordered.run \in Runs
         /\ cmd.todo # {} => Tried \in cmd.todo /\ Tried \in SuiteSamples
<1>1. active # "none" /\ cmd.k \in DOMAIN Commands[active]
  BY DEF FilesHold, OnJob, AtWork
<1>2. cmd.todo \subseteq RowIds /\ role \in Roles
  BY DEF FilesHold, CampaignTypeOK
<1>3. cmd.todo # {} => Tried \in cmd.todo /\ Tried \in SuiteSamples
  BY <1>2, TriedIsLeft, RowsFinite
<1> QED
  BY <1>1, <1>3, AtCommand

\* Steps of a command that leave it at work on the same files.
LEMMA PassedBase == ASSUME FilesHold, Passed PROVE FilesHold'
<1>1. AtWork /\ cmd.todo # {} /\ cmd.pc = "judge"
  BY DEF Passed, Judging, AtWork
<1>2. PICK tried : tried = Tried
  OBVIOUS
<1>3. /\ cmd' = [cmd EXCEPT !.todo = @ \ {tried}, !.skipped = @ + 1]
      /\ UNCHANGED <<role, runFiles, source, jobs, active, faults>> /\ RowIds' = RowIds
  BY <1>2 DEF Passed, RowIds
<1>7. cmd' \in Places
  <2>1. cmd \in Places
    BY CmdIsPlace DEF FilesHold
  <2>2. PICK left \in SUBSET RowIds : left = cmd.todo \ {tried}
    BY <2>1 DEF Places
  <2>3. PICK n \in Nat : n = cmd.skipped + 1
    BY <2>1 DEF Places
  <2>4. cmd' = [cmd EXCEPT !.todo = left, !.skipped = n]
    BY <1>3, <2>2, <2>3
  <2> QED
    BY <2>1, <2>4 DEF Places
<1>4. CampaignTypeOK'
  BY <1>3, <1>7 DEF FilesHold, CampaignTypeOK, runFiles, Places
<1>5. cmd'.pc = "judge" /\ cmd'.k = cmd.k /\ cmd'.todo \subseteq cmd.todo
  BY <1>1, <1>3 DEF FilesHold, CampaignTypeOK
<1>6. OnJob'
  BY <1>1, <1>3, <1>5 DEF FilesHold, OnJob, AtWork
<1> QED
  BY <1>4, <1>6 DEF FilesHold

LEMMA JudgeBase ==
  ASSUME FilesHold, NEW s \in SuiteSamples, NEW quality \in {"whole", "thin", "none"}, Judge(s, quality)
  PROVE  FilesHold'
<1>1. AtWork /\ cmd.todo # {} /\ cmd.pc = "judge"
  BY DEF Judge, Judging, AtWork
<1>2. Ordered.run \in Runs
  BY <1>1, AtWorkFacts
<1>3. UNCHANGED <<role, ledger, published, picked, begun, source, jobs, active, faults>> /\ RowIds' = RowIds
  BY DEF Judge, RowIds
<1>4. \/ cmd' = [cmd EXCEPT !.pc = "saveFailed", !.failed = @ + 1]
      \/ cmd' = [cmd EXCEPT !.pc = "save", !.ok = @ + 1]
  BY DEF Judge
<1>5. reports' \in [Runs -> [SuiteSamples -> {"none", "whole", "thin"}]]
  <2>1. reports' = reports \/ (quality # "none" /\ reports' = [reports EXCEPT ![Ordered.run][s] = quality])
    BY DEF Judge
  <2>2. CASE reports' = reports
    BY <2>2 DEF FilesHold, CampaignTypeOK
  <2>3. CASE quality # "none" /\ reports' = [reports EXCEPT ![Ordered.run][s] = quality]
    <3>1. PICK run \in Runs : run = Ordered.run
      BY <1>2
    <3>2. PICK entry \in {"none", "whole", "thin"} : entry = quality
      OBVIOUS
    <3>3. reports' = [reports EXCEPT ![run][s] = entry]
      BY <2>3, <3>1, <3>2
    <3> QED
      BY <3>3 DEF FilesHold, CampaignTypeOK
  <2> QED
    BY <2>1, <2>2, <2>3
<1>10. cmd' \in Places
  <2>1. cmd \in Places
    BY CmdIsPlace DEF FilesHold
  <2>2. PICK n \in Nat, m \in Nat : n = cmd.failed + 1 /\ m = cmd.ok + 1
    BY <2>1 DEF Places
  <2>3. \/ cmd' = [cmd EXCEPT !.pc = "saveFailed", !.failed = n]
        \/ cmd' = [cmd EXCEPT !.pc = "save", !.ok = m]
    BY <1>4, <2>2
  <2>4. CASE cmd' = [cmd EXCEPT !.pc = "saveFailed", !.failed = n]
    BY <2>1, <2>4 DEF Places
  <2>5. CASE cmd' = [cmd EXCEPT !.pc = "save", !.ok = m]
    BY <2>1, <2>5 DEF Places
  <2> QED
    BY <2>3, <2>4, <2>5
<1>6. CampaignTypeOK'
  BY <1>3, <1>10, <1>5 DEF FilesHold, CampaignTypeOK, Places
<1>7. cmd'.pc \in {"save", "saveFailed"} /\ cmd'.k = cmd.k /\ cmd'.todo = cmd.todo
  BY <1>1, <1>4 DEF FilesHold, CampaignTypeOK
<1>8. Ordered' = Ordered /\ Tried' = Tried
  BY <1>3, <1>7 DEF Ordered, Tried
<1>9. OnJob'
  BY <1>1, <1>3, <1>7, <1>8 DEF FilesHold, OnJob, AtWork, Judge
<1> QED
  BY <1>6, <1>9 DEF FilesHold

LEMMA CheckpointBase == ASSUME FilesHold, Checkpoint PROVE FilesHold'
<1>1. AtWork /\ cmd.pc \in {"save", "saveFailed"} /\ cmd.todo # {}
  BY DEF Checkpoint, AtWork, FilesHold, OnJob
<1>2. Ordered.run \in Runs /\ Tried \in SuiteSamples
  BY <1>1, AtWorkFacts
<1>3. PICK tried : tried = Tried
  OBVIOUS
<1>4. /\ UNCHANGED <<role, published, reports, picked, begun, source, jobs, active, faults>>
      /\ RowIds' = RowIds
      /\ cmd' = [cmd EXCEPT !.pc = "judge", !.todo = @ \ {tried}]
  BY <1>3 DEF Checkpoint, RowIds
<1>5. ledger' \in [Runs -> [SuiteSamples -> {"none", "completed", "failed"}]]
  <2>1. PICK entry \in {"completed", "failed"} : ledger' = [ledger EXCEPT ![Ordered.run][Tried] = entry]
    BY DEF Checkpoint
  <2> QED
    BY <1>2, <2>1 DEF FilesHold, CampaignTypeOK
<1>6. CampaignTypeOK'
  BY <1>4, <1>5 DEF FilesHold, CampaignTypeOK
<1>7. cmd'.pc = "judge" /\ cmd'.k = cmd.k /\ cmd'.todo \subseteq cmd.todo
  BY <1>1, <1>4 DEF FilesHold, CampaignTypeOK
<1>8. OnJob'
  BY <1>1, <1>4, <1>7 DEF FilesHold, OnJob, AtWork
<1> QED
  BY <1>6, <1>8 DEF FilesHold

LEMMA PublishBase == ASSUME FilesHold, Publish PROVE FilesHold'
<1>1. AtWork /\ cmd.pc = "judge" /\ cmd.todo = {}
  BY DEF Publish, AtWork
<1>2. Ordered.run \in Runs
  BY <1>1, AtWorkFacts
<1>3. /\ UNCHANGED <<role, ledger, reports, picked, begun, source, jobs, active, faults>> /\ RowIds' = RowIds
      /\ cmd' = [cmd EXCEPT !.pc = "record"]
  BY DEF Publish, RowIds
<1>4. published' \in [Runs -> [status : {"none", "completed", "failed"},
                               selected : Nat, failed : Nat, completed : Nat]]
  <2>1. cmd.ok \in Nat /\ cmd.failed \in Nat /\ cmd.skipped \in Nat
    BY DEF FilesHold, CampaignTypeOK
  <2>2. PICK status \in {"completed", "failed"} : status = IF cmd.failed > 0 THEN "failed" ELSE "completed"
    OBVIOUS
  <2>3. PICK n \in Nat, m \in Nat, e \in Nat :
           n = cmd.ok + cmd.failed + cmd.skipped /\ m = cmd.ok + cmd.skipped /\ e = cmd.failed
    BY <2>1
  <2>4. published' = [published EXCEPT ![Ordered.run] =
                       [status |-> status, selected |-> n, failed |-> e, completed |-> m]]
    BY <2>2, <2>3 DEF Publish
  <2> QED
    BY <1>2, <2>4 DEF FilesHold, CampaignTypeOK
<1>5. CampaignTypeOK'
  <2>1. cmd' \in Places
    BY <1>3, CmdIsPlace DEF FilesHold, Places
  <2> QED
    BY <1>3, <1>4, <2>1 DEF FilesHold, CampaignTypeOK, Places
<1>6. cmd'.pc = "record" /\ cmd'.k = cmd.k /\ cmd'.todo = {}
  BY <1>1, <1>3 DEF FilesHold, CampaignTypeOK
<1>7. OnJob'
  BY <1>1, <1>3, <1>6 DEF FilesHold, OnJob, AtWork
<1> QED
  BY <1>5, <1>7 DEF FilesHold

\* The worker takes the result down, and goes on only if nothing failed.
LEMMA RecordEffect ==
  ASSUME FilesHold, Record
  PROVE  LET told == published[Ordered.run]
             failed == told.failed > 0 \/ told.status = "failed"
         IN  /\ AtWork /\ cmd.pc = "record" /\ active \in Actions
             /\ UNCHANGED <<role, runFiles, source, faults>> /\ RowIds' = RowIds
             /\ jobs' \in [Actions -> [status : {"none", "running", "completed", "failed", "cancelled"},
                                       batch : SUBSET RowIds, selected : Seq(Nat)]]
             /\ jobs'[active] = [status |-> IF failed THEN "failed" ELSE jobs[active].status,
                                 batch |-> jobs[active].batch,
                                 selected |-> Append(jobs[active].selected, told.selected + told.failed)]
             /\ \A b \in Actions : b # active => jobs'[b] = jobs[b]
             /\ failed => active' = "none" /\ cmd' = NoCommand
             /\ ~failed => active' = active /\ cmd' = Turn("next", cmd.k + 1, {})
<1> DEFINE told == published[Ordered.run]
           failed == told.failed > 0 \/ told.status = "failed"
<1>1. AtWork /\ cmd.pc = "record"
  BY DEF Record, AtWork
<1>2. active \in Actions /\ Ordered.run \in Runs
  BY <1>1, AtWorkFacts
<1>3. PICK list \in Seq(Nat) : list = Append(jobs[active].selected, told.selected + told.failed)
  <2>1. told.selected + told.failed \in Nat
    BY <1>2 DEF FilesHold, CampaignTypeOK
  <2>2. jobs[active].selected \in Seq(Nat)
    BY <1>2 DEF FilesHold, CampaignTypeOK
  <2> QED
    BY <2>1, <2>2, AppendProperties
<1>4. /\ UNCHANGED <<role, runFiles, source, faults>> /\ RowIds' = RowIds
      /\ jobs' = [jobs EXCEPT ![active].selected = list,
                              ![active].status = IF failed THEN "failed" ELSE @]
      /\ active' = (IF failed THEN "none" ELSE active)
      /\ cmd' = (IF failed THEN NoCommand ELSE Turn("next", cmd.k + 1, {}))
  BY <1>3 DEF Record, RowIds
<1> HIDE DEF failed
<1>8. PICK status \in {"none", "running", "completed", "failed", "cancelled"} :
         status = IF failed THEN "failed" ELSE jobs[active].status
  BY <1>2 DEF FilesHold, CampaignTypeOK
<1>9. jobs' = [jobs EXCEPT ![active] = [@ EXCEPT !.selected = list, !.status = status]]
  <2>1. jobs \in [Actions -> [status : {"none", "running", "completed", "failed", "cancelled"},
                              batch : SUBSET RowIds, selected : Seq(Nat)]]
    BY DEF FilesHold, CampaignTypeOK
  <2> QED
    BY <1>2, <1>4, <1>8, <2>1
<1>5. jobs' \in [Actions -> [status : {"none", "running", "completed", "failed", "cancelled"},
                             batch : SUBSET RowIds, selected : Seq(Nat)]]
  BY <1>2, <1>9 DEF FilesHold, CampaignTypeOK
<1>6. jobs'[active] = [status |-> IF failed THEN "failed" ELSE jobs[active].status,
                       batch |-> jobs[active].batch, selected |-> list]
  BY <1>2, <1>8, <1>9 DEF FilesHold, CampaignTypeOK
<1>7. \A b \in Actions : b # active => jobs'[b] = jobs[b]
  BY <1>2, <1>9 DEF FilesHold, CampaignTypeOK
<1> QED
  BY <1>1, <1>2, <1>3, <1>4, <1>5, <1>6, <1>7, Zenon DEF failed

LEMMA RecordBase == ASSUME FilesHold, Record PROVE FilesHold'
<1> DEFINE told == published[Ordered.run]
           failed == told.failed > 0 \/ told.status = "failed"
<1>1. /\ AtWork /\ cmd.pc = "record" /\ active \in Actions
      /\ UNCHANGED <<role, runFiles, source, faults>> /\ RowIds' = RowIds
      /\ jobs' \in [Actions -> [status : {"none", "running", "completed", "failed", "cancelled"},
                                batch : SUBSET RowIds, selected : Seq(Nat)]]
      /\ jobs'[active].status = IF failed THEN "failed" ELSE jobs[active].status
      /\ failed => active' = "none" /\ cmd' = NoCommand
      /\ ~failed => active' = active /\ cmd' = Turn("next", cmd.k + 1, {})
  BY RecordEffect
<1> HIDE DEF failed
<1>2. cmd.k \in Nat \ {0} /\ cmd.k \in 1..Len(Commands[active]) /\ Len(Commands[active]) \in Nat
      /\ active # "none"
  <2>1. cmd.k \in DOMAIN Commands[active] /\ active # "none" /\ cmd.k \in Nat \ {0}
    BY <1>1, AtWorkFacts DEF FilesHold, CampaignTypeOK
  <2>2. DOMAIN Commands[active] = 1..Len(Commands[active]) /\ Len(Commands[active]) \in Nat
    BY <1>1, CommandsShape, RunsShape
  <2> QED
    BY <2>1, <2>2
<1>3. CASE failed
  BY <1>1, <1>3 DEF FilesHold, CampaignTypeOK, OnJob, AtWork, NoCommand, Turn, runFiles
<1>4. CASE ~failed
  <2>1. PICK k \in Nat \ {0} : k = cmd.k + 1 /\ k <= Len(Commands[active]) + 1
    BY <1>2
  <2>2. cmd' = [pc |-> "next", k |-> k, todo |-> {}, ok |-> 0, failed |-> 0, skipped |-> 0]
    BY <1>1, <1>4, <2>1 DEF Turn
  <2>3. CampaignTypeOK'
    BY <1>1, <2>2 DEF FilesHold, CampaignTypeOK, runFiles
  <2>4. OnJob'
    BY <1>1, <1>2, <1>4, <2>1, <2>2, Zenon DEF FilesHold, OnJob, AtWork
  <2> QED
    BY <2>3, <2>4 DEF FilesHold
<1> QED
  BY <1>3, <1>4

LEMMA OutsideBase == ASSUME FilesHold, LoseIndex \/ (\E s \in SuiteSamples : Reported(s)) PROVE FilesHold'
<1>1. CASE LoseIndex
  <2>1. NoFile \in [status : {"none", "running", "completed", "failed", "cancelled"},
                    batch : SUBSET RowIds, selected : Seq(Nat)]
    <3>1. PICK none \in Seq(Nat) : none = <<>>
      BY EmptySeq
    <3>2. [status |-> "none", batch |-> {}, selected |-> none] \in
            [status : {"none", "running", "completed", "failed", "cancelled"},
             batch : SUBSET RowIds, selected : Seq(Nat)]
      OBVIOUS
    <3> QED
      BY <3>1, <3>2, Zenon DEF NoFile
  <2>2. jobs' = [a \in Actions |-> NoFile] /\ UNCHANGED <<role, runFiles, source, active, cmd>>
        /\ active = "none" /\ faults' = [faults EXCEPT !.n = @ + 1] /\ RowIds' = RowIds
    BY <1>1 DEF LoseIndex, RowIds
  <2>5. jobs' \in [Actions -> [status : {"none", "running", "completed", "failed", "cancelled"},
                               batch : SUBSET RowIds, selected : Seq(Nat)]]
    BY <2>1, <2>2, Zenon
  <2>3. CampaignTypeOK'
    BY <2>5, <2>2 DEF FilesHold, CampaignTypeOK, runFiles
  <2>4. OnJob'
    BY <2>2 DEF FilesHold, OnJob, AtWork
  <2> QED
    BY <2>3, <2>4 DEF FilesHold
<1>2. CASE \E s \in SuiteSamples : Reported(s)
  <2>1. PICK s \in SuiteSamples : Reported(s)
    BY <1>2
  <2>2. source' = source \cup {s} /\ UNCHANGED <<role, runFiles, jobs, active, cmd, faults>>
        /\ RowIds' = RowIds
    BY <2>1 DEF Reported, RowIds
  <2>3. CampaignTypeOK'
    BY <2>2 DEF FilesHold, CampaignTypeOK, runFiles
  <2>4. OnJob'
    BY <2>2 DEF FilesHold, OnJob, AtWork, Ordered, Tried, runFiles
  <2> QED
    BY <2>3, <2>4 DEF FilesHold
<1> QED
  BY <1>1, <1>2

LEMMA BaseNext == ASSUME FilesHold, [CampaignNext]_campaignVars PROVE FilesHold'
<1>1. CASE UNCHANGED campaignVars
  BY <1>1 DEF campaignVars, runFiles, FilesHold, CampaignTypeOK, OnJob, AtWork, Ordered, Tried, RowIds
<1> QED
  BY <1>1, LaunchBase, PassedBase, JudgeBase, CheckpointBase, PublishBase, RecordBase, OutsideBase,
     StoppedBase, StartBase DEF CampaignNext, JobStep

(* ---------------------------- the reports ----------------------------- *)

\* What the files call completed has a report.
AllReported == FilesReported /\ CommandReported

LEMMA IdleReported ==
  ASSUME FilesHold, FilesReported, UNCHANGED runFiles, ~AtWork' PROVE AllReported'
  BY DEF AllReported, FilesReported, CommandReported, HasReport, runFiles, Completed, With

LEMMA LaunchReported == ASSUME FilesHold, AllReported, Launch PROVE AllReported'
<1>1. active \in Actions
  BY LaunchCases DEF FilesHold, OnJob
<1>2. CASE Over \/ NoSelection
  <2>1. PICK status \in {"completed", "failed", "cancelled"} : Ended(status)
    BY <1>2 DEF Over, NoSelection
  <2>2. UNCHANGED runFiles
    BY <1>2 DEF Over, NoSelection
  <2>3. ~AtWork'
    BY <1>1, <2>1, EndedEffect DEF AtWork
  <2> QED
    BY <2>2, <2>3, IdleReported DEF AllReported
<1>3. CASE Selects
  <2>1. /\ cmd'.pc = "judge" /\ cmd'.k = cmd.k /\ cmd'.ok = 0 /\ cmd'.skipped = 0 /\ active' = active
        /\ begun' = begun \cup {Ordered.run} /\ UNCHANGED <<ledger, published, reports>>
    BY <1>3 DEF Selects, Turn
  <2>2. Ordered' = Ordered
    BY <2>1 DEF Ordered
  <2>3. FilesReported'
    BY <2>1 DEF AllReported, FilesReported, HasReport
  <2>4. CommandReported'
    BY <2>1, <2>2 DEF CommandReported
  <2> QED
    BY <2>3, <2>4 DEF AllReported
<1> QED
  BY <1>2, <1>3, LaunchCases

LEMMA PassedReported == ASSUME FilesHold, AllReported, Passed PROVE AllReported'
<1>1. AtWork /\ cmd.todo # {} /\ cmd.pc = "judge"
  BY DEF Passed, Judging, AtWork
<1>2. Ordered.run \in Runs /\ Tried \in SuiteSamples
  BY <1>1, AtWorkFacts
<1>3. UNCHANGED runFiles /\ active' = active /\ cmd'.k = cmd.k /\ cmd'.pc = "judge"
  BY <1>1 DEF Passed, FilesHold, CampaignTypeOK
<1>4. Ordered' = Ordered
  BY <1>3 DEF Ordered
<1>5. HasReport(Ordered.run)
  BY <1>2 DEF Passed, AllReported, FilesReported, HasReport
<1>6. FilesReported' /\ (HasReport(Ordered.run))'
  BY <1>3, <1>4, <1>5 DEF AllReported, FilesReported, HasReport, runFiles
<1>7. CommandReported'
  BY <1>1, <1>3, <1>4, <1>6 DEF AllReported, CommandReported, runFiles
<1> QED
  BY <1>6, <1>7 DEF AllReported

LEMMA JudgeReported ==
  ASSUME FilesHold, AllReported, NEW s \in SuiteSamples, NEW quality \in {"whole", "thin", "none"},
         Judge(s, quality)
  PROVE  AllReported'
<1>1. AtWork /\ cmd.todo # {} /\ cmd.pc = "judge"
  BY DEF Judge, Judging, AtWork
<1>2. Ordered.run \in Runs /\ s = Tried /\ Ordered.run \in begun
  BY <1>1, AtWorkFacts DEF Judge, AllReported, CommandReported
<1>3. /\ UNCHANGED <<role, ledger, published, begun, active>>
      /\ cmd'.k = cmd.k /\ cmd'.todo = cmd.todo
      /\ IF quality = "none" THEN cmd'.pc = "saveFailed" /\ cmd'.ok = cmd.ok /\ cmd'.skipped = cmd.skipped
         ELSE cmd'.pc = "save"
  BY DEF Judge, FilesHold, CampaignTypeOK
<1>4. Ordered' = Ordered /\ Tried' = Tried
  BY <1>3 DEF Ordered, Tried
<1>5. /\ quality = "none" => reports' = reports
      /\ quality # "none" => reports'[Ordered.run][s] = quality
      /\ \A r \in Runs : \A t \in SuiteSamples :
            reports'[r][t] # reports[r][t] => r = Ordered.run /\ t = s /\ quality # "none"
  BY <1>2 DEF Judge, FilesHold, CampaignTypeOK
<1>6. \A r \in Runs : \A t \in SuiteSamples : reports[r][t] # "none" => reports'[r][t] # "none"
  BY <1>5
<1>7. FilesReported'
  BY <1>2, <1>3, <1>5, <1>6 DEF AllReported, FilesReported, HasReport
<1>8. CommandReported'
  BY <1>1, <1>2, <1>3, <1>4, <1>5, <1>6 DEF AllReported, CommandReported, HasReport
<1> QED
  BY <1>7, <1>8 DEF AllReported

LEMMA CheckpointReported == ASSUME FilesHold, AllReported, Checkpoint PROVE AllReported'
<1>1. AtWork /\ cmd.pc \in {"save", "saveFailed"} /\ cmd.todo # {}
  BY DEF Checkpoint, AtWork, FilesHold, OnJob
<1>2. Ordered.run \in Runs /\ Tried \in SuiteSamples
  BY <1>1, AtWorkFacts
<1>3. /\ UNCHANGED <<published, reports, begun, active>>
      /\ cmd'.pc = "judge" /\ cmd'.k = cmd.k /\ cmd'.ok = cmd.ok /\ cmd'.skipped = cmd.skipped
  BY DEF Checkpoint, FilesHold, CampaignTypeOK
<1>4. \A r \in Runs : \A t \in SuiteSamples :
         ledger'[r][t] = "completed" => \/ ledger[r][t] = "completed"
                                        \/ r = Ordered.run /\ t = Tried /\ cmd.pc = "save"
  BY <1>1, <1>2 DEF Checkpoint, FilesHold, CampaignTypeOK
<1>5. Ordered' = Ordered
  BY <1>3 DEF Ordered
<1>6. FilesReported'
  BY <1>1, <1>3, <1>4 DEF AllReported, FilesReported, CommandReported, HasReport
<1>7. CommandReported'
  BY <1>1, <1>3, <1>5 DEF AllReported, CommandReported, HasReport
<1> QED
  BY <1>6, <1>7 DEF AllReported

LEMMA PublishReported == ASSUME FilesHold, AllReported, Publish PROVE AllReported'
<1>1. AtWork /\ cmd.pc = "judge"
  BY DEF Publish, AtWork
<1>2. Ordered.run \in Runs
  BY <1>1, AtWorkFacts
<1>3. /\ UNCHANGED <<ledger, reports, begun, active>>
      /\ cmd'.pc = "record" /\ cmd'.k = cmd.k /\ cmd'.ok = cmd.ok /\ cmd'.skipped = cmd.skipped
  BY DEF Publish, FilesHold, CampaignTypeOK
<1>4. \A r \in Runs : \/ published'[r] = published[r]
                      \/ r = Ordered.run /\ published'[r].completed = cmd.ok + cmd.skipped
  BY <1>2 DEF Publish, FilesHold, CampaignTypeOK
<1>5. Ordered' = Ordered
  BY <1>3 DEF Ordered
<1>6. FilesReported'
  <2> SUFFICES ASSUME NEW r \in Runs
               PROVE  /\ \A s \in SuiteSamples : ledger[r][s] = "completed" => reports[r][s] # "none"
                      /\ published'[r].completed > 0 => HasReport(r)
                      /\ HasReport(r) => r \in begun
    BY <1>3 DEF FilesReported, HasReport
  <2>1. CASE published'[r] = published[r]
    BY <2>1 DEF AllReported, FilesReported
  <2>2. CASE r = Ordered.run /\ published'[r].completed = cmd.ok + cmd.skipped
    BY <1>1, <2>2 DEF AllReported, FilesReported, CommandReported
  <2> QED
    BY <1>4, <2>1, <2>2
<1>7. CommandReported'
  BY <1>1, <1>3, <1>5 DEF AllReported, CommandReported, HasReport
<1> QED
  BY <1>6, <1>7 DEF AllReported

LEMMA ReportedNext == ASSUME FilesHold, AllReported, [CampaignNext]_campaignVars PROVE AllReported'
<1>1. CASE UNCHANGED campaignVars \/ \E s \in SuiteSamples : Reported(s)
  <2>1. UNCHANGED <<runFiles, active, cmd, role>>
    BY <1>1 DEF campaignVars, Reported
  <2> QED
    BY <2>1 DEF runFiles, AllReported, FilesReported, CommandReported, HasReport, AtWork, Ordered, Tried
<1>2. CASE Record
  <2>1. UNCHANGED runFiles /\ ~AtWork'
    BY <1>2, RecordEffect DEF AtWork, NoCommand, Turn
  <2> QED
    BY <2>1, IdleReported DEF AllReported
<1>3. CASE \E status \in {"cancelled", "failed"} : Stopped(status)
  <2>1. PICK status \in {"cancelled", "failed"} : Stopped(status)
    BY <1>3
  <2>2. active \in Actions
    BY <2>1 DEF Stopped, FilesHold, OnJob
  <2>3. ~AtWork'
    BY <2>1, <2>2, EndedEffect DEF Stopped, AtWork
  <2>4. UNCHANGED <<published, reports, begun>>
    BY <2>1 DEF Stopped
  <2>5. ledger' = ledger \/ ledger' = [ledger EXCEPT ![Ordered.run] = Nothing]
    BY <2>1 DEF Stopped
  <2>6. \A r \in Runs : \A t \in SuiteSamples : ledger'[r][t] = "completed" => ledger[r][t] = "completed"
    <3>1. CASE ledger' = ledger
      BY <3>1
    <3>2. CASE ledger' = [ledger EXCEPT ![Ordered.run] = Nothing]
      <4>1. \A t \in SuiteSamples : Nothing[t] = "none"
        BY DEF Nothing
      <4>2. \A r \in Runs : ledger'[r] = ledger[r] \/ ledger'[r] = Nothing
        BY <3>2 DEF FilesHold, CampaignTypeOK
      <4> QED
        BY <4>1, <4>2
    <3> QED
      BY <2>5, <3>1, <3>2
  <2> QED
    BY <2>3, <2>4, <2>6 DEF AllReported, FilesReported, CommandReported, HasReport
<1>4. CASE \E a \in Actions, size \in BatchSizes : Start(a, size)
  <2>1. PICK a \in Actions, size \in BatchSizes : Start(a, size)
    BY <1>4
  <2>2. UNCHANGED runFiles /\ ~AtWork'
    <3>1. UNCHANGED <<role, runFiles, source, faults>> /\ cmd' =
             [pc |-> "next", k |-> 1, todo |-> {}, ok |-> 0, failed |-> 0, skipped |-> 0]
      BY <2>1, StartEffect, Zenon
    <3> QED
      BY <3>1 DEF AtWork
  <2> QED
    BY <2>2, IdleReported DEF AllReported
<1>5. CASE LoseIndex
  <2>1. UNCHANGED runFiles /\ ~AtWork'
    BY <1>5 DEF LoseIndex, FilesHold, OnJob, AtWork
  <2> QED
    BY <2>1, IdleReported DEF AllReported
<1> QED
  BY <1>1, <1>2, <1>3, <1>4, <1>5, LaunchReported, PassedReported, JudgeReported, CheckpointReported,
     PublishReported DEF CampaignNext, JobStep

(* ----------------------------- the counts ----------------------------- *)

\* A command accounts for every row it picked.
AllCounted == Counted /\ Told

LEMMA LeftIsFinite == ASSUME FilesHold PROVE IsFiniteSet(cmd.todo) /\ Cardinality(cmd.todo) \in Nat
<1>1. role \in Roles /\ cmd.todo \subseteq RowIds
  BY DEF FilesHold, CampaignTypeOK
<1>2. IsFiniteSet(cmd.todo)
  BY <1>1, RowsFinite, FS_Subset
<1> QED
  BY <1>2, FS_CardinalityType

\* One row less is left.
LEMMA OneLess ==
  ASSUME FilesHold, AtWork, cmd.todo # {}
  PROVE  Cardinality(cmd.todo \ {Tried}) = Cardinality(cmd.todo) - 1
  BY AtWorkFacts, LeftIsFinite, FS_RemoveElement

LEMMA IdleCounted == ASSUME ~AtWork' PROVE AllCounted'
  BY DEF AllCounted, Counted, Told, AtWork

LEMMA CountsTyped == ASSUME FilesHold PROVE cmd.ok \in Nat /\ cmd.failed \in Nat /\ cmd.skipped \in Nat
  BY DEF FilesHold, CampaignTypeOK

LEMMA PickedIsFinite == ASSUME FilesHold, AtWork PROVE Cardinality(picked[Ordered.run]) \in Nat
<1>1. picked[Ordered.run] \subseteq SuiteSamples
  BY AtWorkFacts DEF FilesHold, CampaignTypeOK
<1> QED
  BY <1>1, FS_Subset, FS_CardinalityType, CampaignAssumption

LEMMA LaunchCounted == ASSUME FilesHold, AllCounted, Launch PROVE AllCounted'
<1>1. active \in Actions
  BY LaunchCases DEF FilesHold, OnJob
<1>2. CASE Over \/ NoSelection
  <2>1. PICK status \in {"completed", "failed", "cancelled"} : Ended(status)
    BY <1>2 DEF Over, NoSelection
  <2>2. ~AtWork'
    BY <1>1, <2>1, EndedEffect DEF AtWork
  <2> QED
    BY <2>2, IdleCounted
<1>3. CASE Selects
  <2>1. /\ cmd'.pc = "judge" /\ cmd'.k = cmd.k /\ cmd'.todo = Picks(Ordered)
        /\ cmd'.ok = 0 /\ cmd'.failed = 0 /\ cmd'.skipped = 0 /\ active' = active
        /\ picked' = [picked EXCEPT ![Ordered.run] = Picks(Ordered)]
    BY <1>3 DEF Selects, Turn
  <2>2. Ordered' = Ordered
    BY <2>1 DEF Ordered
  <2>3. (AtWork /\ FilesHold)' /\ FilesHold
    BY <2>1, LaunchBase DEF AtWork
  <2>4. Ordered.run \in Runs
    <3>1. cmd.k \in DOMAIN Commands[active] /\ active # "none"
      BY <2>1, <2>3, <1>1, ActionsAre DEF FilesHold, OnJob
    <3> QED
      BY <3>1, AtCommand
  <2>5. picked'[Ordered.run] = cmd'.todo
    BY <2>1, <2>4 DEF FilesHold, CampaignTypeOK
  <2>6. Cardinality(cmd'.todo) \in Nat
    <3>1. Picks(Ordered) \subseteq RowIds /\ role \in Roles
      BY <1>1, PicksAreLeft DEF FilesHold, CampaignTypeOK
    <3> QED
      BY <2>1, <3>1, RowsFinite, FS_Subset, FS_CardinalityType
  <2> QED
    BY <2>1, <2>2, <2>5, <2>6 DEF AllCounted, Counted, Told
<1> QED
  BY <1>2, <1>3, LaunchCases

LEMMA PassedCounted == ASSUME FilesHold, AllCounted, Passed PROVE AllCounted'
<1>1. AtWork /\ cmd.todo # {} /\ cmd.pc = "judge"
  BY DEF Passed, Judging, AtWork
<1>2. PICK tried : tried = Tried
  OBVIOUS
<1>3. cmd' = [cmd EXCEPT !.todo = @ \ {tried}, !.skipped = @ + 1] /\ active' = active /\ picked' = picked
  BY <1>2 DEF Passed, runFiles
<1>4. /\ cmd'.k = cmd.k /\ cmd'.pc = "judge" /\ cmd'.todo = cmd.todo \ {tried}
      /\ cmd'.ok = cmd.ok /\ cmd'.failed = cmd.failed /\ cmd'.skipped = cmd.skipped + 1
  BY <1>1, <1>3 DEF FilesHold, CampaignTypeOK
<1>5. Ordered' = Ordered
  BY <1>3, <1>4 DEF Ordered
<1>6. Cardinality(cmd'.todo) = Cardinality(cmd.todo) - 1 /\ Cardinality(cmd.todo) \in Nat
  BY <1>1, <1>2, <1>4, OneLess, LeftIsFinite
<1> QED
  BY <1>1, <1>3, <1>4, <1>5, <1>6, CountsTyped DEF AllCounted, Counted, Told

LEMMA JudgeCounted ==
  ASSUME FilesHold, AllCounted, NEW s \in SuiteSamples, NEW quality \in {"whole", "thin", "none"},
         Judge(s, quality)
  PROVE  AllCounted'
<1>1. AtWork /\ cmd.pc = "judge"
  BY DEF Judge, Judging, AtWork
<1>2. active' = active /\ picked' = picked
  BY DEF Judge
<1>3. /\ cmd'.k = cmd.k /\ cmd'.todo = cmd.todo /\ cmd'.skipped = cmd.skipped
      /\ \/ cmd'.pc = "saveFailed" /\ cmd'.failed = cmd.failed + 1 /\ cmd'.ok = cmd.ok
         \/ cmd'.pc = "save" /\ cmd'.failed = cmd.failed /\ cmd'.ok = cmd.ok + 1
  BY DEF Judge, FilesHold, CampaignTypeOK
<1>4. Ordered' = Ordered
  BY <1>2, <1>3 DEF Ordered
<1>5. cmd.ok + cmd.failed + cmd.skipped + Cardinality(cmd.todo) = Cardinality(picked[Ordered.run])
  BY <1>1, CountsTyped, LeftIsFinite, PickedIsFinite DEF AllCounted, Counted
<1> QED
  BY <1>1, <1>2, <1>3, <1>4, <1>5, CountsTyped, LeftIsFinite, PickedIsFinite DEF AllCounted, Counted, Told

LEMMA CheckpointCounted == ASSUME FilesHold, AllCounted, Checkpoint PROVE AllCounted'
<1>1. AtWork /\ cmd.pc \in {"save", "saveFailed"} /\ cmd.todo # {}
  BY DEF Checkpoint, AtWork, FilesHold, OnJob
<1>2. PICK tried : tried = Tried
  OBVIOUS
<1>3. cmd' = [cmd EXCEPT !.pc = "judge", !.todo = @ \ {tried}] /\ active' = active /\ picked' = picked
  BY <1>2 DEF Checkpoint
<1>4. /\ cmd'.k = cmd.k /\ cmd'.pc = "judge" /\ cmd'.todo = cmd.todo \ {tried}
      /\ cmd'.ok = cmd.ok /\ cmd'.failed = cmd.failed /\ cmd'.skipped = cmd.skipped
  BY <1>3 DEF FilesHold, CampaignTypeOK
<1>5. Ordered' = Ordered
  BY <1>3, <1>4 DEF Ordered
<1>6. Cardinality(cmd'.todo) = Cardinality(cmd.todo) - 1 /\ Cardinality(cmd.todo) \in Nat
  BY <1>1, <1>2, <1>4, OneLess, LeftIsFinite
<1>7. cmd.ok + cmd.failed + cmd.skipped + Cardinality(cmd.todo) = Cardinality(picked[Ordered.run]) + 1
  BY <1>1 DEF AllCounted, Counted
<1> QED
  BY <1>1, <1>3, <1>4, <1>5, <1>6, <1>7, CountsTyped, PickedIsFinite DEF AllCounted, Counted, Told

LEMMA PublishCounted == ASSUME FilesHold, AllCounted, Publish PROVE AllCounted'
<1>1. AtWork /\ cmd.pc = "judge" /\ cmd.todo = {}
  BY DEF Publish, AtWork
<1>2. Ordered.run \in Runs
  BY <1>1, AtWorkFacts
<1>3. active' = active /\ picked' = picked /\ cmd' = [cmd EXCEPT !.pc = "record"]
  BY DEF Publish
<1>4. /\ cmd'.k = cmd.k /\ cmd'.pc = "record" /\ cmd'.todo = cmd.todo
      /\ cmd'.ok = cmd.ok /\ cmd'.failed = cmd.failed /\ cmd'.skipped = cmd.skipped
  BY <1>3 DEF FilesHold, CampaignTypeOK
<1>5. Ordered' = Ordered
  BY <1>3, <1>4 DEF Ordered
<1>6. cmd.ok + cmd.failed + cmd.skipped = Cardinality(picked[Ordered.run])
  <2>1. cmd.ok + cmd.failed + cmd.skipped + Cardinality(cmd.todo) = Cardinality(picked[Ordered.run])
    BY <1>1, CountsTyped, LeftIsFinite, PickedIsFinite DEF AllCounted, Counted
  <2> QED
    BY <1>1, <2>1, FS_EmptySet, CountsTyped
<1>7. published'[Ordered.run] =
        [status |-> IF cmd.failed > 0 THEN "failed" ELSE "completed",
         selected |-> cmd.ok + cmd.failed + cmd.skipped, failed |-> cmd.failed,
         completed |-> cmd.ok + cmd.skipped]
  BY <1>2 DEF Publish, FilesHold, CampaignTypeOK
<1>8. Counted'
  BY <1>1, <1>3, <1>4, <1>5, CountsTyped, LeftIsFinite, PickedIsFinite DEF AllCounted, Counted
<1>9. Told'
  BY <1>3, <1>4, <1>5, <1>6, <1>7 DEF Told
<1> QED
  BY <1>8, <1>9 DEF AllCounted

LEMMA CountedNext == ASSUME FilesHold, AllCounted, [CampaignNext]_campaignVars PROVE AllCounted'
<1>1. CASE UNCHANGED campaignVars \/ \E s \in SuiteSamples : Reported(s)
  <2>1. UNCHANGED <<runFiles, active, cmd>>
    BY <1>1 DEF campaignVars, Reported
  <2> QED
    BY <2>1 DEF runFiles, AllCounted, Counted, Told, AtWork, Ordered
<1>2. CASE Record \/ LoseIndex
  <2>1. ~AtWork'
    BY <1>2, RecordEffect DEF AtWork, NoCommand, Turn, LoseIndex, FilesHold, OnJob
  <2> QED
    BY <2>1, IdleCounted
<1>3. CASE \E status \in {"cancelled", "failed"} : Stopped(status)
  <2>1. PICK status \in {"cancelled", "failed"} : Stopped(status)
    BY <1>3
  <2>2. active \in Actions
    BY <2>1 DEF Stopped, FilesHold, OnJob
  <2>3. ~AtWork'
    BY <2>1, <2>2, EndedEffect DEF Stopped, AtWork
  <2> QED
    BY <2>3, IdleCounted
<1>4. CASE \E a \in Actions, size \in BatchSizes : Start(a, size)
  <2>1. PICK a \in Actions, size \in BatchSizes : Start(a, size)
    BY <1>4
  <2>2. cmd' = [pc |-> "next", k |-> 1, todo |-> {}, ok |-> 0, failed |-> 0, skipped |-> 0]
    BY <2>1, StartEffect, Zenon
  <2> QED
    BY <2>2, IdleCounted DEF AtWork
<1> QED
  BY <1>1, <1>2, <1>3, <1>4, LaunchCounted, PassedCounted, JudgeCounted, CheckpointCounted,
     PublishCounted DEF CampaignNext, JobStep

(* ---------------------------- the progress ---------------------------- *)

\* What is completed stays so in a step that keeps or extends the checkpoints.
Grows == \A run \in Runs : Completed(run) \subseteq Completed(run)'

LEMMA SameLedger == ASSUME ledger' = ledger PROVE \A run \in Runs : Completed(run)' = Completed(run)
  BY DEF Completed, With

LEMMA DoneStays ==
  ASSUME NEW a \in Actions, NEW k \in DOMAIN Commands[a], Grows,
         jobs'[a].batch = jobs[a].batch, Done(a, k)
  PROVE  Done(a, k)'
<1>1. Commands[a][k].run \in Runs
  BY CommandsShape
<1> QED
  BY <1>1 DEF Done, Grows

\* Jobs that were done before the step stay done.
LEMMA JobsStayDone ==
  ASSUME JobsDone, Grows, source \subseteq source',
         NEW a \in Actions, jobs'[a] = jobs[a], jobs[a].status = "completed"
  PROVE  /\ Alone(a)' => \A k \in DOMAIN Commands[a] : Done(a, k)'
         /\ a = Replay => Replayed'
<1>1. Alone(a)' => Alone(a)
  BY DEF Alone
<1>2. Alone(a)' => \A k \in DOMAIN Commands[a] : Done(a, k)'
  BY <1>1, DoneStays DEF JobsDone
<1>3. a = Replay => Replayed'
  BY DEF JobsDone, Replayed
<1> QED
  BY <1>2, <1>3

\* A step after which no job runs.
LEMMA IdleProgress ==
  ASSUME FilesHold, Nested, ledger' = ledger, active' = "none", cmd'.pc = "none", JobsDone'
  PROVE  ProgressInv'
<1>1. Nested'
  <2>1. \A a \in Actions : \A i \in DOMAIN RunsOf[a] : RunsOf[a][i] \in Runs
    BY RunsShape, ElementOfSeq
  <2> QED
    BY <2>1, SameLedger DEF Nested
<1>2. BatchOfJob' /\ BatchOfCommand' /\ BatchOfReplay'
  BY DEF BatchOfJob, BatchOfCommand, BatchOfReplay, AtWork, Replay
<1> QED
  BY <1>1, <1>2 DEF ProgressInv

\* The same, for a step that leaves the checkpoints to the command at work.
LEMMA NestedStays == ASSUME Nested, ledger' = ledger PROVE Nested'
<1>1. \A a \in Actions : \A i \in DOMAIN RunsOf[a] : RunsOf[a][i] \in Runs
  BY RunsShape, ElementOfSeq
<1> QED
  BY <1>1, SameLedger DEF Nested

LEMMA JobsDoneStays ==
  ASSUME JobsDone, Grows, source \subseteq source',
         \A a \in Actions : jobs'[a].status = "completed" => jobs'[a] = jobs[a]
  PROVE  JobsDone'
<1> SUFFICES ASSUME NEW a \in Actions, jobs'[a].status = "completed"
             PROVE  /\ Alone(a)' => \A k \in DOMAIN Commands[a] : Done(a, k)'
                    /\ a = Replay => Replayed'
  BY DEF JobsDone
<1>1. jobs'[a] = jobs[a] /\ jobs[a].status = "completed"
  OBVIOUS
<1> QED
  BY <1>1, JobsStayDone

LEMMA StartProgress ==
  ASSUME FilesHold, ProgressInv, NEW a \in Actions, NEW size \in BatchSizes, Start(a, size)
  PROVE  ProgressInv'
<1>1. /\ active' = a /\ UNCHANGED <<role, runFiles, source, faults>>
      /\ cmd' = [pc |-> "next", k |-> 1, todo |-> {}, ok |-> 0, failed |-> 0, skipped |-> 0]
      /\ jobs'[a] = [status |-> "running", batch |-> Batch(a, size), selected |-> <<>>]
      /\ \A b \in Actions : b # a => jobs'[b] = jobs[b]
  BY StartEffect, Zenon
<1>2. ledger' = ledger /\ cmd'.pc = "next" /\ cmd'.k = 1 /\ ~AtWork' /\ source' = source
  BY <1>1 DEF runFiles, AtWork
<1>3. Nested' /\ Grows
  BY <1>2, NestedStays, SameLedger DEF ProgressInv, Grows
<1>4. JobsDone'
  <2>1. \A b \in Actions : jobs'[b].status = "completed" => jobs'[b] = jobs[b]
    BY <1>1
  <2> QED
    BY <1>2, <1>3, <2>1, JobsDoneStays DEF ProgressInv
<1>5. BatchOfJob'
  <2>1. \A k \in DOMAIN Commands[a] : ~(k < 1)
    <3>1. DOMAIN Commands[a] = 1..Len(Commands[a])
      BY CommandsShape
    <3> QED
      BY <3>1
  <2> QED
    BY <1>1, <1>2, <2>1 DEF BatchOfJob
<1>6. BatchOfCommand'
  BY <1>2 DEF BatchOfCommand
<1>7. BatchOfReplay'
  <2> SUFFICES ASSUME a = Replay
               PROVE  /\ Len(jobs'[Replay].selected) = cmd'.k - 1
                      /\ jobs'[Replay].batch \cap Completed("fault-recovery")' = {}
    BY <1>1, <1>2 DEF BatchOfReplay
  <2>1. Len(jobs'[Replay].selected) = 0
    <3>1. jobs'[a].selected = <<>>
      BY <1>1
    <3> QED
      BY <3>1, EmptySeq
  <2>2. \A s \in SuiteSamples : s \in Completed("fault-recovery") => s \in CompletedInAll(a)
    <3>1. RunsOf[a] = <<"fault-recovery">>
      BY DEF Replay, RunsOf
    <3>2. \A r \in ToSet(<<"fault-recovery">>) : r = "fault-recovery"
      BY DEF ToSet
    <3> QED
      BY <3>1, <3>2, Zenon DEF CompletedInAll
  <2>3. \A s \in Batch(a, size) : s \notin CompletedInAll(a)
    BY DEF Batch
  <2>4. Batch(a, size) \subseteq SuiteSamples
    BY StartEffect, RowsFinite DEF FilesHold, CampaignTypeOK
  <2>5. "fault-recovery" \in Runs
    <3>1. RunsOf[a] = <<"fault-recovery">> /\ <<"fault-recovery">>[1] = "fault-recovery"
      BY DEF Replay, RunsOf
    <3>2. 1 \in DOMAIN RunsOf[a] /\ \A i \in DOMAIN RunsOf[a] : RunsOf[a][i] \in Runs
      BY RunsShape, ElementOfSeq
    <3> QED
      BY <3>1, <3>2, Zenon
  <2>6. Completed("fault-recovery")' = Completed("fault-recovery")
    BY <1>2 DEF Completed, With
  <2> QED
    BY <1>1, <1>2, <2>1, <2>2, <2>3, <2>4, <2>6
<1> QED
  BY <1>3, <1>4, <1>5, <1>6, <1>7 DEF ProgressInv

\* The reliability test has two commands on one run, of which the second is the replay.
LEMMA ReplayShape ==
  /\ Replay \in Actions /\ Len(Commands[Replay]) = 2 /\ DOMAIN Commands[Replay] = 1..2
  /\ \A k \in 1..2 : /\ Commands[Replay][k].run = "fault-recovery"
                     /\ Commands[Replay][k].replay <=> k = 2
                     /\ ~Commands[Replay][k].pending
  /\ "fault-recovery" \in Runs
<1>1. Replay \in Actions /\ RunsOf[Replay] = <<"fault-recovery">>
  BY ActionsAre DEF Replay, RunsOf
<1>2. Len(RunsOf[Replay]) = 1 /\ DOMAIN RunsOf[Replay] = {1} /\ RunsOf[Replay][1] = "fault-recovery"
  BY <1>1
<1>3. Len(Commands[Replay]) = 2 /\ DOMAIN Commands[Replay] = 1..2
  <2>1. /\ DOMAIN Commands[Replay] = 1..Len(Commands[Replay])
        /\ Len(Commands[Replay]) = Len(RunsOf[Replay]) + (IF Replay = Replay THEN 1 ELSE 0)
    BY <1>1, CommandsShape, Zenon
  <2> QED
    BY <1>2, <2>1
<1>4. ToSet(RunsOf[Replay]) = {"fault-recovery"}
  BY <1>2 DEF ToSet
<1>5. \A k \in 1..2 : /\ Commands[Replay][k].run \in Runs
                      /\ Commands[Replay][k].run \in {"fault-recovery"}
                      /\ Commands[Replay][k].replay <=> k \notin {1}
                      /\ Commands[Replay][k].pending <=> Replay = "complete_release"
  BY <1>1, <1>2, <1>3, <1>4, CommandsShape, Zenon
<1>6. \A k \in 1..2 : k \notin {1} <=> k = 2
  OBVIOUS
<1>7. Replay # "complete_release"
  BY DEF Replay
<1>8. \A k \in 1..2 : /\ Commands[Replay][k].run = "fault-recovery"
                      /\ Commands[Replay][k].replay <=> k = 2
                      /\ ~Commands[Replay][k].pending
  BY <1>5, <1>6, <1>7, Zenon
<1>9. "fault-recovery" \in Runs
  <2>1. 1 \in 1..2
    OBVIOUS
  <2> QED
    BY <1>5, <1>8, <2>1, Zenon
<1> QED
  BY <1>1, <1>3, <1>8, <1>9

\* Of its batch a command picks all that its run has not completed.
LEMMA PicksTheRest ==
  ASSUME FilesHold, ProgressInv, active \in Actions, cmd.pc = "next", cmd.k \in DOMAIN Commands[active],
         Alone(active)
  PROVE  jobs[active].batch \subseteq Completed(Ordered.run) \cup Picks(Ordered)
<1>1. active # "none" /\ jobs[active].batch \subseteq RowIds
  BY ActionsAre DEF FilesHold, CampaignTypeOK
<1>2. Ordered.pending => source = {}
  BY CommandsShape DEF Ordered, Alone
<1>3. CASE ~Ordered.replay
  BY <1>1, <1>2, <1>3 DEF Picks
<1>4. CASE Ordered.replay
  <2>1. active = Replay
    <3>1. cmd.k \notin DOMAIN RunsOf[active]
      BY <1>4, CommandsShape DEF Ordered
    <3>2. active # Replay => DOMAIN Commands[active] = DOMAIN RunsOf[active]
      <4>1. /\ DOMAIN Commands[active] = 1..Len(Commands[active])
            /\ Len(Commands[active]) = Len(RunsOf[active]) + (IF active = Replay THEN 1 ELSE 0)
        BY CommandsShape, Zenon
      <4>2. Len(RunsOf[active]) \in Nat /\ DOMAIN RunsOf[active] = 1..Len(RunsOf[active])
        BY RunsShape
      <4> QED
        BY <4>1, <4>2
    <3> QED
      BY <3>1, <3>2
  <2>2. cmd.k = 2
    BY <1>4, <2>1, ReplayShape DEF Ordered
  <2>3. Done(Replay, 1)
    <3>1. \A k \in DOMAIN Commands[active] : k < cmd.k => Done(active, k)
      BY <1>1 DEF ProgressInv, BatchOfJob
    <3> QED
      BY <2>1, <2>2, <3>1, ReplayShape
  <2>4. Commands[Replay][1].run = "fault-recovery" /\ Ordered.run = "fault-recovery"
    BY <2>1, <2>2, ReplayShape DEF Ordered
  <2> QED
    BY <2>1, <2>3, <2>4 DEF Done
<1> QED
  BY <1>3, <1>4

LEMMA LaunchProgress == ASSUME FilesHold, ProgressInv, Launch PROVE ProgressInv'
<1>1. /\ active \in Actions /\ active # "none" /\ cmd.pc = "next" /\ cmd.k \in Nat \ {0}
      /\ cmd.k <= Len(Commands[active]) + 1 /\ DOMAIN Commands[active] = 1..Len(Commands[active])
      /\ Len(Commands[active]) \in Nat /\ source' = source
  <2>1. active \in Actions /\ active # "none" /\ cmd.pc = "next" /\ source' = source
    BY LaunchCases DEF FilesHold, OnJob
  <2>2. DOMAIN Commands[active] = 1..Len(Commands[active]) /\ Len(Commands[active]) \in Nat
    BY <2>1, CommandsShape, RunsShape
  <2> QED
    BY <2>1, <2>2 DEF FilesHold, OnJob, CampaignTypeOK
<1>2. CASE Over
  <2>1. /\ Ended("completed") /\ ledger' = ledger /\ cmd.k > Len(Commands[active])
    BY <1>2 DEF Over, runFiles
  <2>2. /\ active' = "none" /\ cmd'.pc = "none"
        /\ jobs'[active].batch = jobs[active].batch /\ jobs'[active].selected = jobs[active].selected
        /\ \A b \in Actions : b # active => jobs'[b] = jobs[b]
    BY <1>1, <2>1, EndedEffect
  <2>3. Grows
    BY <2>1, SameLedger DEF Grows
  <2>4. JobsDone'
    <3> SUFFICES ASSUME NEW a \in Actions, jobs'[a].status = "completed"
                 PROVE  /\ Alone(a)' => \A k \in DOMAIN Commands[a] : Done(a, k)'
                        /\ a = Replay => Replayed'
      BY DEF JobsDone
    <3>1. CASE a # active
      <4>1. jobs'[a] = jobs[a] /\ jobs[a].status = "completed"
        BY <2>2, <3>1
      <4> QED
        BY <1>1, <2>3, <4>1, JobsStayDone DEF ProgressInv
    <3>2. CASE a = active
      <4>1. Alone(a)' => \A k \in DOMAIN Commands[a] : Done(a, k)
        BY <1>1, <2>1, <3>2 DEF ProgressInv, BatchOfJob, Alone
      <4>2. Alone(a)' => \A k \in DOMAIN Commands[a] : Done(a, k)'
        BY <2>2, <2>3, <3>2, <4>1, DoneStays
      <4>3. a = Replay => cmd.k = 3
        <5> SUFFICES ASSUME a = Replay PROVE cmd.k = 3
          OBVIOUS
        <5>1. Len(Commands[active]) = 2
          BY <3>2, ReplayShape
        <5>2. PICK len \in Nat : len = Len(Commands[active]) /\ cmd.k > len /\ cmd.k <= len + 1
          BY <1>1, <2>1
        <5>3. cmd.k = len + 1
          BY <1>1, <5>2
        <5>4. len = 2
          BY <5>1, <5>2
        <5>5. len + 1 = 3
          BY <5>4
        <5> QED
          BY <5>3, <5>5
      <4>4. a = Replay => Replayed'
        BY <2>2, <3>2, <4>3 DEF ProgressInv, BatchOfReplay, Replayed
      <4> QED
        BY <4>2, <4>4
    <3> QED
      BY <3>1, <3>2
  <2> QED
    BY <2>1, <2>2, <2>4, IdleProgress DEF ProgressInv
<1>3. CASE NoSelection
  <2>1. Ended("failed") /\ ledger' = ledger
    BY <1>3 DEF NoSelection, runFiles
  <2>2. /\ active' = "none" /\ cmd'.pc = "none" /\ jobs'[active].status = "failed"
        /\ \A b \in Actions : b # active => jobs'[b] = jobs[b]
    BY <1>1, <2>1, EndedEffect
  <2>3. Grows
    BY <2>1, SameLedger DEF Grows
  <2>4. \A b \in Actions : jobs'[b].status = "completed" => jobs'[b] = jobs[b]
    BY <2>2
  <2>5. JobsDone'
    BY <1>1, <2>3, <2>4, JobsDoneStays DEF ProgressInv
  <2> QED
    BY <2>1, <2>2, <2>5, IdleProgress DEF ProgressInv
<1>4. CASE Selects
  <2>1. /\ cmd'.pc = "judge" /\ cmd'.k = cmd.k /\ cmd'.todo = Picks(Ordered) /\ cmd'.failed = 0
        /\ picked' = [picked EXCEPT ![Ordered.run] = Picks(Ordered)]
        /\ UNCHANGED <<ledger, active, jobs>>
    BY <1>4 DEF Selects, Turn
  <2>2. cmd.k \in DOMAIN Commands[active] /\ Ordered' = Ordered /\ Ordered.run \in Runs
    <3>1. cmd.k \in DOMAIN Commands[active]
      BY <1>1, <1>4 DEF Selects
    <3> QED
      BY <1>1, <2>1, <3>1, AtCommand DEF Ordered
  <2>3. Nested' /\ Grows /\ \A run \in Runs : Completed(run)' = Completed(run)
    BY <2>1, NestedStays, SameLedger DEF ProgressInv, Grows
  <2>4. JobsDone'
    BY <1>1, <2>1, <2>3, JobsDoneStays DEF ProgressInv
  <2>5. BatchOfJob'
    <3>1. Alone(active) => \A k \in DOMAIN Commands[active] : k < cmd.k => Done(active, k)
      BY <1>1 DEF ProgressInv, BatchOfJob
    <3>2. \A k \in DOMAIN Commands[active] : Done(active, k) => Done(active, k)'
      BY <1>1, <2>1, <2>3, DoneStays
    <3> QED
      BY <1>1, <2>1, <3>1, <3>2 DEF BatchOfJob, Alone
  <2>6. BatchOfCommand'
    <3>1. Alone(active) => jobs[active].batch \subseteq Completed(Ordered.run) \cup Picks(Ordered)
      BY <1>1, <2>2, PicksTheRest
    <3>2. Alone(active)' <=> Alone(active)
      BY <1>1, <2>1 DEF Alone
    <3> QED
      BY <2>1, <2>2, <2>3, <3>1, <3>2 DEF BatchOfCommand, Alone
  <2>7. BatchOfReplay'
    <3> SUFFICES ASSUME active = Replay
                 PROVE  /\ Len(jobs[Replay].selected) = cmd.k - 1
                        /\ picked'["fault-recovery"] = jobs[Replay].batch
                        /\ cmd.k # 3
      BY <2>1 DEF BatchOfReplay
    <3>1. cmd.k \in 1..2 /\ Ordered.run = "fault-recovery" /\ (Ordered.replay <=> cmd.k = 2) /\ ~Ordered.pending
      BY <2>2, ReplayShape DEF Ordered
    <3>2. picked'["fault-recovery"] = Picks(Ordered)
      BY <2>1, <2>2, <3>1 DEF FilesHold, CampaignTypeOK
    <3>3. jobs[Replay].batch \subseteq RowIds
      BY <1>1 DEF FilesHold, CampaignTypeOK
    <3>4. CASE cmd.k = 1
      <4>1. jobs[Replay].batch \cap Completed("fault-recovery") = {}
        BY <1>1, <3>4 DEF ProgressInv, BatchOfReplay
      <4>2. Picks(Ordered) = {s \in jobs[Replay].batch \cap RowIds : s \notin Completed("fault-recovery")}
        BY <3>1, <3>4 DEF Picks
      <4> QED
        BY <3>1, <3>2, <3>3, <3>4, <4>1, <4>2 DEF ProgressInv, BatchOfReplay
    <3>5. CASE cmd.k = 2
      <4>1. picked["fault-recovery"] = jobs[Replay].batch
        BY <3>5 DEF ProgressInv, BatchOfReplay
      <4>2. Picks(Ordered) = {s \in jobs[Replay].batch \cap RowIds : s \in picked["fault-recovery"]}
        BY <3>1, <3>5 DEF Picks
      <4> QED
        BY <3>1, <3>2, <3>3, <3>5, <4>1, <4>2 DEF ProgressInv, BatchOfReplay
    <3> QED
      BY <3>1, <3>4, <3>5
  <2> QED
    BY <2>3, <2>4, <2>5, <2>6, <2>7 DEF ProgressInv
<1> QED
  BY <1>2, <1>3, <1>4, LaunchCases

\* Steps of a command that leave the checkpoints and its batch as they are.
LEMMA SameBatch ==
  ASSUME FilesHold, ProgressInv, AtWork, active' = active, cmd'.k = cmd.k, Grows,
         UNCHANGED <<jobs, source, picked>>, cmd'.pc \in {"judge", "save", "saveFailed", "record"}
  PROVE  JobsDone' /\ BatchOfJob' /\ BatchOfReplay' /\ Ordered' = Ordered
<1>1. active \in Actions /\ active # "none"
  BY AtWorkFacts
<1>2. JobsDone'
  BY JobsDoneStays DEF ProgressInv
<1>3. BatchOfJob'
  <2>1. Alone(active) => \A k \in DOMAIN Commands[active] : k < cmd.k => Done(active, k)
    BY <1>1 DEF ProgressInv, BatchOfJob
  <2>2. \A k \in DOMAIN Commands[active] : Done(active, k) => Done(active, k)'
    BY <1>1, DoneStays
  <2> QED
    BY <2>1, <2>2 DEF BatchOfJob, Alone
<1>4. BatchOfReplay'
  <2>1. active = Replay => /\ Len(jobs[Replay].selected) = cmd.k - 1
                           /\ picked["fault-recovery"] = jobs[Replay].batch
                           /\ cmd.k = 3 => Replayed
    BY DEF ProgressInv, BatchOfReplay, AtWork
  <2> QED
    BY <2>1 DEF BatchOfReplay, Replayed
<1>5. Ordered' = Ordered
  BY DEF Ordered
<1> QED
  BY <1>2, <1>3, <1>4, <1>5

LEMMA PassedProgress == ASSUME FilesHold, ProgressInv, Passed PROVE ProgressInv'
<1>1. AtWork /\ cmd.todo # {} /\ cmd.pc = "judge"
  BY DEF Passed, Judging, AtWork
<1>2. PICK tried : tried = Tried
  OBVIOUS
<1>3. cmd' = [cmd EXCEPT !.todo = @ \ {tried}, !.skipped = @ + 1] /\ active' = active
      /\ UNCHANGED <<ledger, picked, jobs, source>>
  BY <1>2 DEF Passed, runFiles
<1>4. /\ cmd'.k = cmd.k /\ cmd'.pc = "judge" /\ cmd'.todo = cmd.todo \ {tried}
      /\ cmd'.failed = cmd.failed
  BY <1>1, <1>3 DEF FilesHold, CampaignTypeOK
<1>5. tried \in Completed(Ordered.run)
  BY <1>1, <1>2, AtWorkFacts DEF Passed, Completed, With
<1>6. Nested' /\ Grows /\ \A run \in Runs : Completed(run)' = Completed(run)
  BY <1>3, NestedStays, SameLedger DEF ProgressInv, Grows
<1>7. JobsDone' /\ BatchOfJob' /\ BatchOfReplay' /\ Ordered' = Ordered
  BY <1>1, <1>3, <1>4, <1>6, SameBatch
<1>8. BatchOfCommand'
  BY <1>1, <1>3, <1>4, <1>5, <1>6, <1>7, AtWorkFacts DEF ProgressInv, BatchOfCommand, Alone
<1> QED
  BY <1>6, <1>7, <1>8 DEF ProgressInv

LEMMA JudgeProgress ==
  ASSUME FilesHold, ProgressInv, NEW s \in SuiteSamples, NEW quality \in {"whole", "thin", "none"},
         Judge(s, quality)
  PROVE  ProgressInv'
<1>1. AtWork /\ cmd.pc = "judge"
  BY DEF Judge, Judging, AtWork
<1>2. active' = active /\ UNCHANGED <<ledger, picked, jobs, source>>
  BY DEF Judge
<1>3. /\ cmd'.k = cmd.k /\ cmd'.todo = cmd.todo
      /\ \/ cmd'.pc = "saveFailed" /\ cmd'.failed = cmd.failed + 1
         \/ cmd'.pc = "save" /\ cmd'.failed = cmd.failed
  BY DEF Judge, FilesHold, CampaignTypeOK
<1>4. Nested' /\ Grows /\ \A run \in Runs : Completed(run)' = Completed(run)
  BY <1>2, NestedStays, SameLedger DEF ProgressInv, Grows
<1>5. JobsDone' /\ BatchOfJob' /\ BatchOfReplay' /\ Ordered' = Ordered
  BY <1>1, <1>2, <1>3, <1>4, SameBatch
<1>6. cmd'.failed = 0 => cmd.failed = 0
  BY <1>3, CountsTyped
<1>7. BatchOfCommand'
  BY <1>1, <1>2, <1>3, <1>4, <1>5, <1>6, AtWorkFacts DEF ProgressInv, BatchOfCommand, Alone
<1> QED
  BY <1>4, <1>5, <1>7 DEF ProgressInv

LEMMA PublishProgress == ASSUME FilesHold, ProgressInv, Publish PROVE ProgressInv'
<1>1. AtWork /\ cmd.pc = "judge"
  BY DEF Publish, AtWork
<1>2. active' = active /\ UNCHANGED <<ledger, picked, jobs, source>> /\ cmd' = [cmd EXCEPT !.pc = "record"]
  BY DEF Publish
<1>3. cmd'.k = cmd.k /\ cmd'.todo = cmd.todo /\ cmd'.pc = "record" /\ cmd'.failed = cmd.failed
  BY <1>2 DEF FilesHold, CampaignTypeOK
<1>4. Nested' /\ Grows /\ \A run \in Runs : Completed(run)' = Completed(run)
  BY <1>2, NestedStays, SameLedger DEF ProgressInv, Grows
<1>5. JobsDone' /\ BatchOfJob' /\ BatchOfReplay' /\ Ordered' = Ordered
  BY <1>1, <1>2, <1>3, <1>4, SameBatch
<1>6. BatchOfCommand'
  BY <1>1, <1>2, <1>3, <1>4, <1>5, AtWorkFacts DEF ProgressInv, BatchOfCommand, Alone
<1> QED
  BY <1>4, <1>5, <1>6 DEF ProgressInv

\* A variant's row is completed after the same row of the variants before it.
LEMMA CheckpointProgress == ASSUME FilesHold, AllCounted, ProgressInv, Checkpoint PROVE ProgressInv'
<1>1. AtWork /\ cmd.pc \in {"save", "saveFailed"} /\ cmd.todo # {} /\ ledger[Ordered.run][Tried] # "completed"
  BY DEF Checkpoint, AtWork, FilesHold, OnJob
<1>2. /\ active \in Actions /\ active # "none" /\ cmd.k \in DOMAIN Commands[active]
      /\ Ordered.run \in Runs /\ Tried \in cmd.todo /\ Tried \in SuiteSamples
  BY <1>1, AtWorkFacts
<1>3. PICK tried : tried = Tried
  OBVIOUS
<1>4. cmd' = [cmd EXCEPT !.pc = "judge", !.todo = @ \ {tried}] /\ active' = active
      /\ UNCHANGED <<picked, jobs, source>>
  BY <1>3 DEF Checkpoint
<1>5. /\ cmd'.k = cmd.k /\ cmd'.pc = "judge" /\ cmd'.todo = cmd.todo \ {tried}
      /\ cmd'.failed = cmd.failed
  BY <1>4 DEF FilesHold, CampaignTypeOK
<1>6. PICK new : new = IF cmd.pc = "save" THEN {tried} ELSE {}
  OBVIOUS
<1>7. /\ \A run \in Runs \ {Ordered.run} : Completed(run)' = Completed(run)
      /\ Completed(Ordered.run)' = Completed(Ordered.run) \cup new
  <2>1. PICK entry \in {"completed", "failed"} :
           /\ ledger' = [ledger EXCEPT ![Ordered.run][Tried] = entry]
           /\ entry = "completed" <=> cmd.pc = "save"
    BY DEF Checkpoint
  <2>2. \A run \in Runs \ {Ordered.run} : ledger'[run] = ledger[run]
    BY <2>1 DEF FilesHold, CampaignTypeOK
  <2>3. /\ \A t \in SuiteSamples \ {Tried} : ledger'[Ordered.run][t] = ledger[Ordered.run][t]
        /\ ledger'[Ordered.run][Tried] = entry
    BY <1>2, <2>1 DEF FilesHold, CampaignTypeOK
  <2>4. \A run \in Runs \ {Ordered.run} : Completed(run)' = Completed(run)
    BY <2>2 DEF Completed, With
  <2>5. Completed(Ordered.run)' = Completed(Ordered.run) \cup new
    <3> DEFINE now == {t \in SuiteSamples : ledger'[Ordered.run][t] = "completed"}
    <3>1. now = {t \in SuiteSamples : ledger[Ordered.run][t] = "completed"} \cup new
      BY <1>1, <1>2, <1>3, <1>6, <2>1, <2>3
    <3>2. Ordered' = Ordered
      BY <1>4, <1>5 DEF Ordered
    <3> QED
      BY <3>1, <3>2 DEF Completed, With
  <2> QED
    BY <2>4, <2>5
<1>8. Grows
  <2>1. Ordered' = Ordered
    BY <1>4, <1>5 DEF Ordered
  <2> QED
    BY <1>7, <2>1 DEF Grows
<1>9. JobsDone' /\ BatchOfJob' /\ BatchOfReplay' /\ Ordered' = Ordered
  BY <1>1, <1>4, <1>5, <1>8, SameBatch
<1>10. BatchOfCommand'
  <2>1. cmd.failed = 0 => cmd.pc = "save"
    BY <1>1, CountsTyped DEF AllCounted, Counted
  <2> QED
    BY <1>1, <1>2, <1>3, <1>4, <1>5, <1>6, <1>7, <1>9, <2>1 DEF ProgressInv, BatchOfCommand, Alone
<1>11. Nested'
  <2> SUFFICES ASSUME NEW a \in Actions, NEW i \in DOMAIN RunsOf[a], NEW j \in DOMAIN RunsOf[a], i <= j
               PROVE  Completed(RunsOf[a][j])' \subseteq Completed(RunsOf[a][i])'
    BY DEF Nested
  <2>1. RunsOf[a][i] \in Runs /\ RunsOf[a][j] \in Runs
    BY RunsShape, ElementOfSeq
  <2>2. Completed(RunsOf[a][j]) \subseteq Completed(RunsOf[a][i])
    BY DEF ProgressInv, Nested
  <2>3. CASE RunsOf[a][j] # Ordered.run
    BY <1>7, <1>8, <2>1, <2>2, <2>3 DEF Grows
  <2>4. CASE RunsOf[a][j] = Ordered.run /\ i = j
    BY <2>4
  <2>5. CASE RunsOf[a][j] = Ordered.run /\ i # j
    <3>1. PICK n \in DOMAIN RunsOf[active] : RunsOf[active][n] = Ordered.run
      <4>1. Ordered.run \in ToSet(RunsOf[active])
        BY <1>2, CommandsShape DEF Ordered
      <4>2. ToSet(RunsOf[active]) = {RunsOf[active][n] : n \in DOMAIN RunsOf[active]}
        BY <1>2, RunsShape
      <4> QED
        BY <4>1, <4>2
    <3>2. Len(RunsOf[a]) # 1
      BY <2>5, RunsShape
    <3>3. a = active
      BY <1>2, <2>5, <3>1, <3>2, RunsApart
    <3>4. a # Replay /\ a # "complete_release"
      BY <3>2 DEF RunsOf, Replay
    <3>5. cmd.k = j
      <4>1. DOMAIN Commands[a] = DOMAIN RunsOf[a]
        <5>1. /\ DOMAIN Commands[a] = 1..Len(Commands[a])
              /\ Len(Commands[a]) = Len(RunsOf[a]) + (IF a = Replay THEN 1 ELSE 0)
          BY CommandsShape, Zenon
        <5>2. Len(RunsOf[a]) \in Nat /\ DOMAIN RunsOf[a] = 1..Len(RunsOf[a])
          BY RunsShape
        <5> QED
          BY <3>4, <5>1, <5>2
      <4>2. RunsOf[a][cmd.k] = RunsOf[a][j]
        BY <1>2, <2>5, <3>3, <4>1, CommandsShape DEF Ordered
      <4> QED
        BY <1>2, <3>3, <4>1, <4>2, RunsShape
    <3>6. i < cmd.k /\ i \in DOMAIN Commands[a] /\ Commands[a][i].run = RunsOf[a][i]
      <4>1. i \in Nat /\ j \in Nat
        BY RunsShape
      <4>2. i < cmd.k
        BY <2>5, <3>5, <4>1
      <4>3. i \in DOMAIN Commands[a] /\ Commands[a][i].run = RunsOf[a][i]
        BY CommandsShape
      <4> QED
        BY <4>2, <4>3
    <3>7. Done(a, i)
      BY <1>2, <3>3, <3>4, <3>6 DEF ProgressInv, BatchOfJob, Alone
    <3>8. tried \in Completed(RunsOf[a][i])
      BY <1>1, <1>2, <1>3, <3>3, <3>6, <3>7 DEF Done, FilesHold, OnJob
    <3>9. Completed(RunsOf[a][j])' \subseteq Completed(RunsOf[a][j]) \cup {tried}
      <4>1. Completed(Ordered.run)' = Completed(RunsOf[a][j])'
        BY <2>5, <1>9
      <4> QED
        BY <1>6, <1>7, <2>5, <4>1
    <3> QED
      BY <1>8, <2>1, <2>2, <3>8, <3>9 DEF Grows
  <2> QED
    BY <2>3, <2>4, <2>5
<1> QED
  BY <1>9, <1>10, <1>11 DEF ProgressInv

LEMMA RecordProgress == ASSUME FilesHold, AllCounted, ProgressInv, Record PROVE ProgressInv'
<1> DEFINE told == published[Ordered.run]
           failed == told.failed > 0 \/ told.status = "failed"
<1>1. /\ AtWork /\ cmd.pc = "record" /\ active \in Actions
      /\ UNCHANGED <<role, runFiles, source, faults>>
      /\ jobs'[active] = [status |-> IF failed THEN "failed" ELSE jobs[active].status,
                          batch |-> jobs[active].batch,
                          selected |-> Append(jobs[active].selected, told.selected + told.failed)]
      /\ \A b \in Actions : b # active => jobs'[b] = jobs[b]
      /\ failed => active' = "none" /\ cmd' = NoCommand
      /\ ~failed => active' = active /\ cmd' = Turn("next", cmd.k + 1, {})
  BY RecordEffect
<1>2. /\ active # "none" /\ cmd.k \in DOMAIN Commands[active] /\ Ordered.run \in Runs
      /\ jobs[active].status = "running" /\ cmd.todo = {} /\ cmd.k \in Nat \ {0}
  BY <1>1, AtWorkFacts DEF FilesHold, OnJob, CampaignTypeOK
<1>3. ledger' = ledger /\ source' = source /\ picked' = picked
  BY <1>1 DEF runFiles
<1>4. Nested' /\ Grows
  BY <1>3, NestedStays, SameLedger DEF ProgressInv, Grows
<1>5. jobs'[active].batch = jobs[active].batch
      /\ jobs'[active].selected = Append(jobs[active].selected, told.selected + told.failed)
      /\ jobs'[active].status # "completed"
  BY <1>1, <1>2
<1>6. JobsDone'
  <2>1. \A b \in Actions : jobs'[b].status = "completed" => jobs'[b] = jobs[b]
    BY <1>1, <1>5
  <2> QED
    BY <1>3, <1>4, <2>1, JobsDoneStays DEF ProgressInv
<1>7. CASE failed
  <2>1. active' = "none" /\ cmd'.pc = "none"
    BY <1>1, <1>7 DEF NoCommand, Turn
  <2> QED
    BY <1>3, <1>6, <2>1, IdleProgress DEF ProgressInv
<1>8. CASE ~failed
  <2>1. active' = active /\ cmd'.pc = "next" /\ cmd'.k = cmd.k + 1
    BY <1>1, <1>8 DEF Turn
  <2>2. cmd.failed = 0 /\ told.failed = 0 /\ told.selected = Cardinality(picked[Ordered.run])
    BY <1>1, <1>8, CountsTyped DEF AllCounted, Told
  <2>3. BatchOfCommand'
    BY <2>1 DEF BatchOfCommand, AtWork
  <2>4. BatchOfJob'
    <3> SUFFICES ASSUME Alone(active), NEW k \in DOMAIN Commands[active], k < cmd.k + 1
                 PROVE  Done(active, k)'
      BY <1>3, <2>1 DEF BatchOfJob, Alone
    <3>1. Done(active, k)
      <4>1. CASE k < cmd.k
        BY <1>2, <4>1 DEF ProgressInv, BatchOfJob
      <4>2. CASE k = cmd.k
        BY <1>1, <1>2, <2>2, <4>2 DEF ProgressInv, BatchOfCommand, Done, Ordered
      <4>3. k \in Nat
        <5>1. DOMAIN Commands[active] = 1..Len(Commands[active])
          BY <1>1, CommandsShape
        <5> QED
          BY <5>1
      <4> QED
        BY <1>2, <4>1, <4>2, <4>3
    <3> QED
      BY <1>1, <1>4, <1>5, <2>1, <3>1, DoneStays
  <2>5. BatchOfReplay'
    <3> SUFFICES ASSUME active = Replay
                 PROVE  /\ Len(jobs'[Replay].selected) = cmd.k
                        /\ picked["fault-recovery"] = jobs[Replay].batch
                        /\ cmd.k = 2 => jobs'[Replay].selected[2] = Cardinality(jobs[Replay].batch)
      BY <1>2, <1>3, <1>5, <2>1 DEF BatchOfReplay, Replayed
    <3>1. /\ Len(jobs[Replay].selected) = cmd.k - 1 /\ picked["fault-recovery"] = jobs[Replay].batch
          /\ jobs[Replay].selected \in Seq(Nat)
      BY <1>1 DEF ProgressInv, BatchOfReplay, FilesHold, CampaignTypeOK
    <3>2. Ordered.run = "fault-recovery"
      BY <1>2, ReplayShape DEF Ordered
    <3>3. PICK n \in Nat : n = told.selected + told.failed /\ n = Cardinality(jobs[Replay].batch)
      BY <1>1, <2>2, <3>1, <3>2, PickedIsFinite
    <3>4. jobs'[Replay].selected = Append(jobs[Replay].selected, n)
      BY <1>5, <3>3
    <3>5. Len(jobs'[Replay].selected) = cmd.k /\ jobs'[Replay].selected[cmd.k] = n
      BY <1>2, <3>1, <3>4, AppendProperties
    <3> QED
      BY <3>1, <3>3, <3>5
  <2> QED
    BY <1>4, <1>6, <2>3, <2>4, <2>5 DEF ProgressInv
<1> QED
  BY <1>7, <1>8

LEMMA ProgressNext ==
  ASSUME FilesHold, AllCounted, ~faults.lost => ProgressInv, [CampaignNext]_campaignVars
  PROVE  (~faults.lost => ProgressInv)'
<1>1. faults.lost => faults'.lost
  <2>1. CASE UNCHANGED campaignVars \/ JobStep \/ \E s \in SuiteSamples : Reported(s)
    BY <2>1 DEF JobStep, campaignVars, Launch, Passed, Judge, Checkpoint, Publish, Record, Reported
  <2>2. CASE LoseIndex \/ \E a \in Actions, size \in BatchSizes : Start(a, size)
    BY <2>2 DEF LoseIndex, Start, FilesHold, CampaignTypeOK
  <2>3. CASE \E status \in {"cancelled", "failed"} : Stopped(status)
    <3>1. faults' = [faults EXCEPT !.n = @ + 1] \/ faults' = [n |-> faults.n + 1, lost |-> TRUE]
      BY <2>3 DEF Stopped
    <3>2. faults' = [faults EXCEPT !.n = @ + 1] => faults'.lost = faults.lost
      BY DEF FilesHold, CampaignTypeOK
    <3>3. faults' = [n |-> faults.n + 1, lost |-> TRUE] => faults'.lost
      OBVIOUS
    <3> QED
      BY <3>1, <3>2, <3>3
  <2> QED
    BY <2>1, <2>2, <2>3 DEF CampaignNext
<1> SUFFICES ASSUME ~faults'.lost, ProgressInv PROVE ProgressInv'
  BY <1>1
<1>2. CASE UNCHANGED campaignVars
  BY <1>2 DEF campaignVars, runFiles, ProgressInv, Nested, BatchOfJob, BatchOfCommand, BatchOfReplay,
              JobsDone, Replayed, Alone, Done, Completed, With, AtWork, Ordered
<1>3. CASE \E status \in {"cancelled", "failed"} : Stopped(status)
  <2>1. PICK status \in {"cancelled", "failed"} : Stopped(status)
    BY <1>3
  <2>2. active \in Actions /\ Ended(status)
    BY <2>1 DEF Stopped, FilesHold, OnJob
  <2>3. ledger' = ledger /\ source' = source
    BY <2>1 DEF Stopped
  <2>4. /\ active' = "none" /\ cmd'.pc = "none" /\ jobs'[active].status = status
        /\ \A b \in Actions : b # active => jobs'[b] = jobs[b]
    BY <2>2, EndedEffect
  <2>5. JobsDone'
    <3>1. \A b \in Actions : jobs'[b].status = "completed" => jobs'[b] = jobs[b]
      BY <2>4
    <3>2. Grows
      BY <2>3, SameLedger DEF Grows
    <3> QED
      BY <2>3, <3>1, <3>2, JobsDoneStays DEF ProgressInv
  <2> QED
    BY <2>3, <2>4, <2>5, IdleProgress DEF ProgressInv
<1>4. CASE LoseIndex
  <2>1. /\ ledger' = ledger /\ active' = "none" /\ cmd'.pc = "none" /\ jobs' = [a \in Actions |-> NoFile]
    BY <1>4 DEF LoseIndex, runFiles, FilesHold, OnJob
  <2>2. \A a \in Actions : jobs'[a].status # "completed"
    BY <2>1 DEF NoFile
  <2>3. JobsDone'
    BY <2>2 DEF JobsDone
  <2> QED
    BY <2>1, <2>3, IdleProgress DEF ProgressInv
<1>5. CASE \E s \in SuiteSamples : Reported(s)
  <2>1. UNCHANGED <<role, runFiles, jobs, active, cmd>> /\ source \subseteq source'
    BY <1>5 DEF Reported
  <2>2. ledger' = ledger /\ picked' = picked
    BY <2>1 DEF runFiles
  <2>3. Nested' /\ Grows /\ \A run \in Runs : Completed(run)' = Completed(run)
    BY <2>2, NestedStays, SameLedger DEF ProgressInv, Grows
  <2>4. JobsDone'
    BY <2>1, <2>3, JobsDoneStays DEF ProgressInv
  <2>5. Alone(active)' => Alone(active)
    BY <2>1 DEF Alone
  <2>6. BatchOfJob'
    <3>1. active # "none" => active \in Actions
      BY DEF FilesHold, OnJob
    <3>2. active # "none" => \A k \in DOMAIN Commands[active] : Done(active, k) => Done(active, k)'
      BY <2>1, <2>3, <3>1, DoneStays
    <3> QED
      BY <2>1, <2>5, <3>2 DEF ProgressInv, BatchOfJob
  <2>7. BatchOfCommand'
    <3>1. AtWork => Ordered.run \in Runs /\ Ordered' = Ordered
      BY <2>1, AtWorkFacts DEF Ordered
    <3> QED
      BY <2>1, <2>3, <2>5, <3>1 DEF ProgressInv, BatchOfCommand, AtWork
  <2>8. BatchOfReplay'
    <3>1. Completed("fault-recovery")' = Completed("fault-recovery")
      BY <2>3, ReplayShape
    <3> QED
      BY <2>1, <2>2, <3>1 DEF ProgressInv, BatchOfReplay, Replayed
  <2> QED
    BY <2>3, <2>4, <2>6, <2>7, <2>8 DEF ProgressInv
<1> QED
  BY <1>2, <1>3, <1>4, <1>5, LaunchProgress, PassedProgress, JudgeProgress, CheckpointProgress,
     PublishProgress, RecordProgress, StartProgress DEF CampaignNext, JobStep

(* ------------------------------ the card ------------------------------ *)

LEMMA CampaignStarts == CampaignInit => CampaignInv
<1> SUFFICES ASSUME CampaignInit PROVE CampaignInv
  OBVIOUS
<1>1. FilesHold
  BY BaseInit
<1>2. /\ cmd.pc = "none" /\ active = "none" /\ begun = {}
      /\ ledger = [r \in Runs |-> Nothing] /\ reports = [r \in Runs |-> Nothing]
      /\ published = [r \in Runs |-> NoReport] /\ jobs = [a \in Actions |-> NoFile]
  BY DEF CampaignInit, NoCommand, Turn
<1>3. FilesReported
  BY <1>2 DEF FilesReported, HasReport, Nothing, NoReport
<1>4. CommandReported /\ Counted /\ Told
  BY <1>2 DEF CommandReported, Counted, Told, AtWork
<1>5. Nested
  <2>1. \A r \in Runs : Completed(r) = {}
    BY <1>2 DEF Completed, With, Nothing
  <2>2. \A a \in Actions : \A i \in DOMAIN RunsOf[a] : RunsOf[a][i] \in Runs
    BY RunsShape, ElementOfSeq
  <2> QED
    BY <2>1, <2>2 DEF Nested
<1>6. JobsDone
  BY <1>2 DEF JobsDone, NoFile
<1>7. BatchOfJob /\ BatchOfCommand /\ BatchOfReplay
  BY <1>2 DEF BatchOfJob, BatchOfCommand, BatchOfReplay, AtWork, Replay
<1> QED
  BY <1>1, <1>3, <1>4, <1>5, <1>6, <1>7 DEF FilesHold, CampaignInv, ProgressInv

\* CampaignInv: through every step of a campaign the files, the jobs and the commands
\* agree as far as a lost checkpoint leaves them to.
THEOREM CampaignKeeps == CampaignSpec => []CampaignInv
<1>1. CampaignInv /\ [CampaignNext]_campaignVars => CampaignInv'
  <2> SUFFICES ASSUME CampaignInv, [CampaignNext]_campaignVars PROVE CampaignInv'
    OBVIOUS
  <2>1. FilesHold /\ AllReported /\ AllCounted /\ (~faults.lost => ProgressInv)
    BY DEF CampaignInv, FilesHold, AllReported, AllCounted
  <2>2. FilesHold' /\ AllReported' /\ AllCounted' /\ (~faults.lost => ProgressInv)'
    BY <2>1, BaseNext, ReportedNext, CountedNext, ProgressNext
  <2> QED
    BY <2>2 DEF CampaignInv, FilesHold, AllReported, AllCounted
<1> QED
  BY <1>1, CampaignStarts, PTL DEF CampaignSpec

\* The least count of the variants is that of the last one, which is that of all.
LEMMA LeastIsAll ==
  ASSUME CampaignInv, ~faults.lost, NEW a \in Actions, a # "complete_release"
  PROVE  Progress(a) = Cardinality(CompletedInAll(a))
<1>1. PICK n \in Nat : n >= 1 /\ DOMAIN RunsOf[a] = 1..n
  BY RunsShape
<1>2. ToSet(RunsOf[a]) = {RunsOf[a][i] : i \in 1..n} /\ \A i \in 1..n : RunsOf[a][i] \in Runs
  BY <1>1, RunsShape, ElementOfSeq
<1>3. n \in 1..n
  BY <1>1
<1>4. \A i \in 1..n : Completed(RunsOf[a][n]) \subseteq Completed(RunsOf[a][i])
  <2>1. \A i \in 1..n : i \in DOMAIN RunsOf[a] /\ n \in DOMAIN RunsOf[a] /\ i <= n
    BY <1>1
  <2> QED
    BY <2>1 DEF CampaignInv, ProgressInv, Nested
<1>5. CompletedInAll(a) = Completed(RunsOf[a][n])
  <2>1. CompletedInAll(a) \subseteq Completed(RunsOf[a][n])
    BY <1>2, <1>3 DEF CompletedInAll
  <2>2. Completed(RunsOf[a][n]) \subseteq CompletedInAll(a)
    BY <1>2, <1>4 DEF CompletedInAll, Completed, With
  <2> QED
    BY <2>1, <2>2
<1>6. \A i \in 1..n : /\ Cardinality(Completed(RunsOf[a][i])) \in Nat
                      /\ Cardinality(Completed(RunsOf[a][n])) <= Cardinality(Completed(RunsOf[a][i]))
  <2>1. \A i \in 1..n : IsFiniteSet(Completed(RunsOf[a][i]))
    BY FS_Subset, CampaignAssumption DEF Completed, With
  <2> QED
    BY <1>4, <2>1, FS_Subset, FS_CardinalityType
<1> DEFINE counts == {Cardinality(Completed(r)) : r \in ToSet(RunsOf[a])}
           least == Cardinality(Completed(RunsOf[a][n]))
<1>7. least \in counts /\ \A c \in counts : least <= c /\ c \in Nat
  BY <1>2, <1>3, <1>6
<1>8. Min(counts) = least
  <2> HIDE DEF counts, least
  <2>1. \A c \in counts : (\A d \in counts : c <= d) => c = least
    BY <1>7
  <2> QED
    BY <1>7, <2>1 DEF Min
<1> QED
  BY <1>5, <1>8 DEF Progress

\* Finished executions: those of each command.
Executions(a) ==
  LET tried(run) == jobs[a].batch \cap (Completed(run) \cup With(run, "failed"))
      of(k) == IF ~Commands[a][k].replay THEN tried(Commands[a][k].run)
               ELSE IF k <= Len(jobs[a].selected) THEN 1..jobs[a].selected[k] ELSE {}
  IN  UNION {{k} \X of(k) : k \in DOMAIN Commands[a]}

LEMMA AtPlan ==
  ASSUME NEW a, Cardinality(jobs[a].batch) \in Nat, Len(Commands[a]) \in Nat,
         Cardinality(Executions(a)) = Cardinality(jobs[a].batch) * Len(Commands[a])
  PROVE  Finished(a) = Planned(a)
<1>1. PICK n \in Nat : n = Planned(a) /\ n = Cardinality(Executions(a))
  BY DEF Planned
<1>2. Finished(a) = Min({n})
  <2>1. Finished(a) = Min({Planned(a), Cardinality(Executions(a))})
    BY DEF Finished, Executions
  <2>2. {Planned(a), Cardinality(Executions(a))} = {n}
    BY <1>1
  <2> QED
    BY <2>1, <2>2
<1>3. Min({n}) = n
  BY DEF Min
<1> QED
  BY <1>1, <1>2, <1>3

LEMMA Numbered == \A n \in Nat : IsFiniteSet(1..n) /\ Cardinality(1..n) = n
  BY FS_Interval

\* A job that is complete has all its executions finished.
LEMMA AllFinished ==
  ASSUME CampaignInv, ~faults.lost, NEW a \in Actions, jobs[a].status = "completed", source = {}
  PROVE  Finished(a) = Planned(a)
<1> DEFINE batch == jobs[a].batch
           n == Len(Commands[a])
           tried(run) == batch \cap (Completed(run) \cup With(run, "failed"))
           of(k) == IF ~Commands[a][k].replay THEN tried(Commands[a][k].run)
                    ELSE IF k <= Len(jobs[a].selected) THEN 1..jobs[a].selected[k] ELSE {}
           all == UNION {{k} \X of(k) : k \in DOMAIN Commands[a]}
<1>0. all = Executions(a)
  BY DEF Executions
<1>1. IsFiniteSet(batch) /\ Cardinality(batch) \in Nat
  <2>1. batch \subseteq RowIds /\ role \in Roles
    BY DEF CampaignInv, CampaignTypeOK
  <2> QED
    BY <2>1, RowsFinite, FS_Subset, FS_CardinalityType
<1>2. n \in Nat /\ DOMAIN Commands[a] = 1..n
  BY CommandsShape, RunsShape
<1>3. \A k \in 1..n : Done(a, k)
  BY <1>2 DEF CampaignInv, ProgressInv, JobsDone, Alone
<1>4. \A k \in 1..n : ~Commands[a][k].replay => of(k) = batch
  BY <1>3 DEF Done
<1>5. CASE a # Replay
  <2>1. \A k \in 1..n : ~Commands[a][k].replay
    <3>1. /\ DOMAIN Commands[a] = 1..Len(Commands[a])
          /\ Len(Commands[a]) = Len(RunsOf[a]) + (IF a = Replay THEN 1 ELSE 0)
      BY CommandsShape, Zenon
    <3>2. Len(RunsOf[a]) \in Nat /\ DOMAIN RunsOf[a] = 1..Len(RunsOf[a])
      BY RunsShape
    <3>3. DOMAIN Commands[a] = DOMAIN RunsOf[a]
      BY <1>5, <3>1, <3>2
    <3> QED
      BY <1>2, <3>3, CommandsShape, Zenon
  <2>2. \A k \in 1..n : of(k) = batch
    BY <1>4, <2>1
  <2>3. all = (1..n) \X batch
    <3> HIDE DEF of, batch, n
    <3> QED
      BY <1>2, <2>2
  <2>4. Cardinality(all) = n * Cardinality(batch)
    <3>1. IsFiniteSet(1..n) /\ Cardinality(1..n) = n
      BY <1>2, Numbered, Zenon
    <3> HIDE DEF all, batch, n
    <3> QED
      BY <1>1, <2>3, <3>1, FS_Product
  <2>5. \A x, y \in Nat : x * y = y * x
    OBVIOUS
  <2>6. Cardinality(all) = Cardinality(batch) * n
    BY <1>1, <1>2, <2>4, <2>5
  <2> QED
    BY <1>0, <1>1, <1>2, <2>6, AtPlan, Zenon
<1>6. CASE a = Replay
  <2>1. n = 2 /\ DOMAIN Commands[a] = 1..2 /\ ~Commands[a][1].replay /\ Commands[a][2].replay
    <3>1. 1 \in 1..2 /\ 2 \in 1..2 /\ 1 # 2
      OBVIOUS
    <3> QED
      BY <1>6, <3>1, ReplayShape
  <2>2. jobs[a].selected[2] = Cardinality(batch) /\ Len(jobs[a].selected) >= 2
    BY <1>6 DEF CampaignInv, ProgressInv, JobsDone, Replayed
  <2>3. of(1) = batch
    <3>1. 1 \in 1..n
      BY <2>1
    <3> QED
      BY <1>4, <2>1, <3>1
  <2>4. of(2) = 1..Cardinality(batch)
    <3>1. 2 <= Len(jobs[a].selected)
      BY <2>2
    <3> QED
      BY <2>1, <2>2, <3>1
  <2> DEFINE first == {1} \X batch
             second == {2} \X (1..Cardinality(batch))
  <2>5. all = first \cup second
    <3>1. all = UNION {{k} \X of(k) : k \in {1, 2}}
      <4>1. 1..2 = {1, 2}
        OBVIOUS
      <4> QED
        BY <2>1, <4>1
    <3> HIDE DEF of, batch, all
    <3> QED
      BY <2>3, <2>4, <3>1
  <2>6. IsFiniteSet(first) /\ Cardinality(first) = Cardinality(batch)
    <3>1. IsFiniteSet({1}) /\ Cardinality({1}) = 1
      BY FS_Singleton
    <3> HIDE DEF batch
    <3>2. IsFiniteSet({1} \X batch) /\ Cardinality({1} \X batch) = Cardinality({1}) * Cardinality(batch)
      BY <1>1, <3>1, FS_Product
    <3> QED
      BY <1>1, <3>1, <3>2
  <2>7. IsFiniteSet(second) /\ Cardinality(second) = Cardinality(batch)
    <3> PICK c \in Nat : c = Cardinality(batch)
      BY <1>1
    <3>1. IsFiniteSet({2}) /\ Cardinality({2}) = 1
      BY FS_Singleton
    <3>2. IsFiniteSet(1..c) /\ Cardinality(1..c) = c
      BY FS_Interval
    <3>3. IsFiniteSet({2} \X (1..c)) /\ Cardinality({2} \X (1..c)) = Cardinality({2}) * Cardinality(1..c)
      BY <3>1, <3>2, FS_Product
    <3> QED
      BY <3>1, <3>2, <3>3
  <2>8. first \cap second = {}
    OBVIOUS
  <2>9. Cardinality(all) = Cardinality(batch) + Cardinality(batch)
    <3> HIDE DEF all, first, second, batch
    <3>1. Cardinality(first \cup second) =
            Cardinality(first) + Cardinality(second) - Cardinality(first \cap second)
      BY <2>6, <2>7, FS_Union
    <3>2. Cardinality(first \cap second) = 0
      BY <2>8, FS_EmptySet
    <3> QED
      BY <1>1, <2>5, <2>6, <2>7, <3>1, <3>2
  <2>10. \A x \in Nat : x + x = x * 2
    OBVIOUS
  <2>11. Cardinality(all) = Cardinality(batch) * n
    BY <1>1, <2>1, <2>9, <2>10
  <2> QED
    BY <1>0, <1>1, <1>2, <2>11, AtPlan, Zenon
<1> QED
  BY <1>5, <1>6

\* What the progress of an action shows is true.
LEMMA ProgressHolds == CampaignInv => ProgressIsTrue
<1> SUFFICES ASSUME CampaignInv, ~faults.lost, NEW a \in role.actions, a \in Actions
             PROVE  /\ a # "complete_release" => Progress(a) = Cardinality(CompletedInAll(a))
                    /\ jobs[a].status = "completed" /\ source = {} => Finished(a) = Planned(a)
  BY CampaignAssumption DEF ProgressIsTrue, CampaignInv, CampaignTypeOK, IsRole
<1> QED
  BY LeastIsAll, AllFinished

\* An experiment that is complete has a report in the run of each command.
LEMMA CompleteIsReported ==
  ASSUME CampaignInv, NEW a \in Actions, ExperimentOf(a) = "completed"
  PROVE  \A r \in ToSet(RunsOf[a]) : HasReport(r)
<1> DEFINE shown == {k \in Listed(a) : Variant(Commands[a][k].run).status = "completed"}
<1>1. Len(Commands[a]) \in Nat /\ DOMAIN Commands[a] = 1..Len(Commands[a])
  BY CommandsShape, RunsShape
<1>2. Listed(a) \subseteq DOMAIN Commands[a]
  BY DEF Listed, Recovered
<1>3. ~(Cardinality(shown) < Expected(a))
  BY DEF ExperimentOf
<1>4. shown = DOMAIN Commands[a]
  <2>1. IsFiniteSet(DOMAIN Commands[a]) /\ Cardinality(DOMAIN Commands[a]) = Len(Commands[a])
    BY <1>1, FS_Interval
  <2>2. shown \subseteq DOMAIN Commands[a]
    BY <1>2
  <2> HIDE DEF shown
  <2>3. Cardinality(shown) <= Cardinality(DOMAIN Commands[a]) /\ Cardinality(shown) \in Nat
    BY <2>1, <2>2, FS_Subset, FS_CardinalityType
  <2>4. Cardinality(shown) = Cardinality(DOMAIN Commands[a])
    BY <1>1, <1>3, <2>1, <2>3 DEF Expected
  <2> QED
    BY <2>1, <2>2, <2>4, FS_Subset
<1> SUFFICES ASSUME NEW r \in ToSet(RunsOf[a]) PROVE HasReport(r)
  OBVIOUS
<1>5. PICK k \in DOMAIN Commands[a] : Commands[a][k].run = r /\ r \in Runs
  <2>1. ToSet(RunsOf[a]) = {RunsOf[a][i] : i \in DOMAIN RunsOf[a]}
    BY DEF ToSet
  <2>2. PICK i \in DOMAIN RunsOf[a] : r = RunsOf[a][i]
    BY <2>1
  <2>3. RunsOf[a][i] \in Runs
    BY <2>2, RunsShape, ElementOfSeq
  <2>4. i \in DOMAIN Commands[a] /\ Commands[a][i].run = RunsOf[a][i]
    BY <2>2, CommandsShape, Zenon
  <2> QED
    BY <2>2, <2>3, <2>4
<1>6. Variant(r).status = "completed"
  BY <1>4, <1>5
<1>7. Variant(r).samples > 0
  <2>1. Variant(r).samples = Max({Cardinality(Completed(r)), published[r].completed})
    BY DEF Variant
  <2> QED
    BY <1>6, <2>1 DEF Variant
<1>8. CASE published[r].completed > 0
  BY <1>5, <1>8 DEF CampaignInv, FilesReported
<1>9. CASE ~(published[r].completed > 0)
  <2>1. published[r].completed = 0 /\ IsFiniteSet(Completed(r)) /\ Cardinality(Completed(r)) \in Nat
    BY <1>5, <1>9, FS_Subset, FS_CardinalityType, CampaignAssumption
       DEF CampaignInv, CampaignTypeOK, Completed, With
  <2>2. Completed(r) # {}
    <3> SUFFICES ASSUME Completed(r) = {} PROVE FALSE
      OBVIOUS
    <3>1. Variant(r).samples = Max({0})
      BY <2>1, FS_EmptySet DEF Variant
    <3>2. Max({0}) = 0
      BY DEF Max
    <3> QED
      BY <1>7, <3>1, <3>2
  <2> QED
    BY <1>5, <2>2 DEF CampaignInv, FilesReported, HasReport, Completed, With
<1> QED
  BY <1>8, <1>9

\* A layer that is shown as ready rests on reports.
LEMMA ReadyHolds == CampaignInv => ReadyIsReported
<1> SUFFICES ASSUME CampaignInv PROVE ReadyIsReported
  OBVIOUS
<1> DEFINE shown(a) == \A r \in ToSet(RunsOf[a]) : \E s \in SuiteSamples : reports[r][s] # "none"
<1>1. \A a \in Actions : ExperimentOf(a) = "completed" => shown(a)
  BY CompleteIsReported DEF HasReport
<1>2. \A a \in Actions : shown(a) => HasResults
  <2> SUFFICES ASSUME NEW a \in Actions, shown(a) PROVE begun # {}
    BY DEF HasResults
  <2>1. PICK r \in ToSet(RunsOf[a]) : r \in Runs
    <3>1. 1 \in DOMAIN RunsOf[a]
      BY RunsShape
    <3>2. RunsOf[a][1] \in Runs
      BY <3>1, RunsShape, ElementOfSeq
    <3>3. RunsOf[a][1] \in ToSet(RunsOf[a])
      BY <3>1 DEF ToSet
    <3> QED
      BY <3>2, <3>3
  <2> QED
    BY <2>1 DEF CampaignInv, FilesReported, HasReport
<1>3. Layers.layer1 = "ready" => shown("model_release")
  <2> SUFFICES ASSUME Layers.layer1 = "ready" PROVE shown("model_release")
    OBVIOUS
  <2>1. ChannelsComplete
    BY DEF Layers
  <2>2. PICK s \in RowIds : reports["model-release"][s] = "whole"
    BY <2>1 DEF ChannelsComplete
  <2>3. s \in SuiteSamples
    BY <2>2, RowsFinite DEF CampaignInv, CampaignTypeOK
  <2>4. \A r \in ToSet(RunsOf["model_release"]) : r = "model-release"
    BY DEF RunsOf, ToSet
  <2> QED
    BY <2>2, <2>3, <2>4
<1>4. Layers.layer2 = "ready" => shown("rag_compare")
  BY <1>1, ActionsAre DEF Layers
<1>5. Layers.layer3 = "ready" => shown("agent_ablation") /\ shown("production_reliability")
  BY <1>1, ActionsAre DEF Layers, RecoveryShown
<1>6. Layers.layer4 = "ready" => shown("debate_ablation") /\ shown("xgb_ablation")
  BY <1>1, ActionsAre DEF Layers
<1> HIDE DEF shown
<1>7. \A l \in {"layer1", "layer2", "layer3", "layer4"} : Layers[l] = "ready" =>
        LET needs == [layer1 |-> {"model_release"}, layer2 |-> {"rag_compare"},
                      layer3 |-> {"agent_ablation", "production_reliability"},
                      layer4 |-> {"debate_ablation", "xgb_ablation"}]
        IN  HasResults /\ \A a \in needs[l] : shown(a)
  BY <1>2, <1>3, <1>4, <1>5, <1>6, ActionsAre
<1> QED
  BY <1>7 DEF ReadyIsReported, shown

\* CardIsTrue: what the page of a suite shows of its layers is what the runs have,
\* through cancels, failures, lost checkpoints and lost job files.
THEOREM CardHolds == CampaignSpec => []CardIsTrue
<1>1. CampaignInv => CardIsTrue
  BY ProgressHolds, ReadyHolds DEF CardIsTrue
<1> QED
  BY <1>1, CampaignKeeps, PTL

================================================================================
