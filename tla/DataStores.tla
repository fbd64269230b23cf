----------------------------- MODULE DataStores -----------------------------
(***************************************************************************)
(* The files and tables through which evaluation, expert review, training  *)
(* and retrieval share samples.  No process owns them: each script or      *)
(* handler reads the ones it needs, computes, and writes its own.          *)
(*                                                                         *)
(* A sample is known by its MD5.  Its reference label, its near-duplicate  *)
(* group and its place in the stable hash orders never change, so they are *)
(* constants; what moves is which store holds it.                          *)
(***************************************************************************)
EXTENDS RagStore, Sequences

CONSTANTS
    Base,         \* those of the frozen validation CSV
    RefLabel,     \* the label of its source sheet
    ManualLabel,  \* what manual_labels says of it instead, if anything
    Group,        \* its near-duplicate group
    Rank,         \* its place in the stable hash order
    Queried,      \* samples with the fields a retrieval query is made of
    FreshSize,    \* fresh_candidate_size
    Reviewers, Generators, None

Verdicts == {"malicious", "benign"}

ASSUME SamplesAssumption ==
    /\ IsFiniteSet(Samples)
    /\ Base \subseteq Samples
    /\ RefLabel \in [Samples -> Verdicts]
    /\ ManualLabel \in [Samples -> Verdicts \cup {"other", None}]
    /\ Rank \in [Samples -> Nat]
    /\ None \notin Verdicts

VARIABLES
    trained,      \* samples of the training files and databases
    strict,       \* samples of the published strict extension
    seen,         \* samples with a report, a trace or a queue entry
    generated,    \* samples of every generated holdout directory
    review,       \* review_state.json
    frozen,       \* the gold set gold_sets/latest.json points to: sample |-> label
    suite,        \* the suite latest.json points to
    folder,       \* what each generator has written to its suite directory
    newest,       \* the generator whose directory was written to last
    gen,          \* the generators
    started       \* how many generations have begun

stores == <<trained, strict, seen, generated>>

Atleast0(n) == IF n < 0 THEN 0 ELSE n
Smaller(m, n) == IF m < n THEN m ELSE n

\* The first n samples of S in the stable hash order.
First(S, n) == {s \in S : Cardinality({t \in S : Rank[t] < Rank[s]}) < n}
Labelled(S, l) == {s \in S : RefLabel[s] = l}

\* A sample |-> label map of a file; None where the file has no row.
NoRows == [s \in Samples |-> None]
Rows(f) == {s \in Samples : f[s] # None}

\* Balanced choice from the catalogue without the excluded samples: half of the
\* size per label, then whatever is left in the order.
FreshCandidates(excluded, size) ==
    LET pool == Samples \ excluded
        half == UNION {First(Labelled(pool, l), size \div 2) : l \in Verdicts}
    IN  half \cup First(pool \ half, Smaller(size, Cardinality(pool)) - Cardinality(half))

\* A thread or script enters generate_five_layer_suite.
BeginSuite(g) ==
    /\ gen[g].pc = "idle"
    /\ gen' = [gen EXCEPT ![g].pc = "read"]
    /\ started' = started + 1

NoSuite == [release |-> NoRows, gold |-> NoRows, fresh |-> {}, exists |-> FALSE]
=============================================================================
