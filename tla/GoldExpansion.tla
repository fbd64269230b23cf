--------------------------- MODULE GoldExpansion ----------------------------
(***************************************************************************)
(* The expert review that grows the frozen gold set                        *)
(* (malapp/evaluation/gold_expansion.py).  Candidates of the latest suite  *)
(* are put on review; two distinct reviewers who agree, or a third who     *)
(* adjudicates, give the label; a freeze writes the gold set and makes its *)
(* thread generate a suite from it.                                        *)
(*                                                                         *)
(* GOLD_EXPANSION_LOCK makes each of the actions below one step.  A review *)
(* takes it twice: once to save the review, once to refill the queue with  *)
(* the target read in the first section.                                   *)
(***************************************************************************)
EXTENDS DataStores

CONSTANTS Clerks,         \* request threads that submit reviews
          Labels,         \* the labels a reviewer may submit
          Targets, DefaultTarget, MaxReviews

\* Neither a target nor a label nor a review is None.
ASSUME ReviewAssumption ==
    /\ Targets \subseteq Nat /\ DefaultTarget \in Nat /\ None \notin Nat
    /\ None \notin Labels /\ None \notin [by : Reviewers, label : Labels]

VARIABLES clerk           \* the target a clerk is about to refill for, or None

Statuses == {"absent", "pending_first_review", "pending_second_review",
             "needs_adjudication", "approved", "adjudicated", "rejected"}
Pending == {"pending_first_review", "pending_second_review", "needs_adjudication"}

Absent == [status |-> "absent", reviews |-> <<>>, judge |-> None, label |-> None]
Candidate == [Absent EXCEPT !.status = "pending_first_review"]

NewState == [target |-> DefaultTarget, items |-> [s \in Samples |-> Absent],
             decided |-> <<>>]

items == review.items
Items == {s \in Samples : items[s].status # "absent"}
Approved(i) == i.status \in {"approved", "adjudicated"} /\ i.label \in Verdicts

\* Rows of the latest suite: what may be chosen, and what is gold already.
Release == Rows(suite.release)
Official == Rows(suite.gold)
Extra == {s \in Items \ Official : Approved(items[s])}
OnReview == {s \in Items \ Official : items[s].status \in Pending}

(* ------------------------------ prepare ------------------------------- *)

\* Python rounds target * 0.6 to the nearest; the product is never a half.
Desired(t) == [malicious |-> (6 * t + 5) \div 10,
               benign |-> t - (6 * t + 5) \div 10]

Need(t, l) ==
    Atleast0(Desired(t)[l] - Cardinality({s \in Official : suite.gold[s] = l})
                           - Cardinality({s \in Extra : items[s].label = l})
                           - Cardinality(Labelled(OnReview, l)))

Slots_AllItems(t) == Atleast0(t - Cardinality(Official) - Cardinality(Items \ Official))
Slots(t) == Atleast0(t - Cardinality(Official) - Cardinality(Extra)
                       - Cardinality(OnReview))

Free == (Release \ Official) \ Items

Chosen(t) ==
    LET mal == First(Labelled(Free, "malicious"), Smaller(Slots(t), Need(t, "malicious")))
        ben == First(Labelled(Free, "benign"),
                     Smaller(Slots(t) - Cardinality(mal), Need(t, "benign")))
    IN  mal \cup ben \cup First(Free \ (mal \cup ben),
                                Slots(t) - Cardinality(mal) - Cardinality(ben))

\* _suite_records raises without a suite, _prepare_locked on a target out of range.
MayPrepare(t) ==
    /\ suite.exists
    /\ Cardinality(Official) <= t
    /\ t <= Cardinality(Release)

Prepared(t) ==
    LET chosen == Chosen(t) IN
    [review EXCEPT !.target = t,
                   !.items = [s \in Samples |->
                                IF s \in chosen THEN Candidate ELSE items[s]]]

Prepare(t) ==
    /\ MayPrepare(t)
    /\ review' = Prepared(t)
    /\ UNCHANGED <<frozen, clerk>>

(* ------------------------------- review ------------------------------- *)

Names(i) == {i.reviews[n].by : n \in DOMAIN i.reviews}
Reviews == {x \in Samples \X (1..3) :
              \/ x[2] <= Len(items[x[1]].reviews)
              \/ x[2] = 3 /\ items[x[1]].judge # None}

\* A label a reviewer gives is the item's, "exclude" means it has none.
Settle(i, l, status) ==
    [i EXCEPT !.label = IF l = "exclude" THEN None ELSE l,
              !.status = IF l = "exclude" THEN "rejected" ELSE status]

Reviewed(i, r, l) ==
    LET with == [i EXCEPT !.reviews = Append(@, [by |-> r, label |-> l])] IN
    IF i.reviews = <<>> THEN [with EXCEPT !.status = "pending_second_review"]
    ELSE IF i.reviews[1].label = l THEN Settle(with, l, "approved")
    ELSE [with EXCEPT !.label = None, !.status = "needs_adjudication"]

MayReview_Again(i, r) ==
    i.status \in {"pending_first_review", "pending_second_review"}

MayReview(i, r) ==
    /\ r \notin Names(i)
    /\ i.status \in {"pending_first_review", "pending_second_review"}

Adjudicated(i, r, l) ==
    Settle([i EXCEPT !.judge = [by |-> r, label |-> l]], l, "adjudicated")

MayAdjudicate(i, r) ==
    /\ r \notin Names(i)
    /\ i.status = "needs_adjudication"

\* The first section of save_gold_review: the item as the review leaves it, and
\* the target it will refill for.  decided is the order of the deciding reviews.
SaveReview(c, s, i) ==
    /\ review' = [review EXCEPT !.items[s] = i,
                                !.decided = IF Approved(i) THEN Append(@, s) ELSE @]
    /\ clerk' = [clerk EXCEPT ![c] = review.target]
    /\ UNCHANGED frozen

Review(c, s, r, l) ==
    /\ clerk[c] = None
    /\ MayReview(items[s], r)
    /\ Cardinality(Reviews) < MaxReviews
    /\ SaveReview(c, s, Reviewed(items[s], r, l))

Adjudicate(c, s, r, l) ==
    /\ clerk[c] = None
    /\ MayAdjudicate(items[s], r)
    /\ Cardinality(Reviews) < MaxReviews
    /\ SaveReview(c, s, Adjudicated(items[s], r, l))

\* The second section: prepare with the target read in the first.  When prepare
\* raises, the review stays saved and the request fails.
Refill(c) ==
    /\ clerk[c] # None
    /\ clerk' = [clerk EXCEPT ![c] = None]
    /\ review' = IF MayPrepare(clerk[c]) THEN Prepared(clerk[c]) ELSE review
    /\ UNCHANGED frozen

(* ------------------------------- freeze ------------------------------- *)

\* The places of the deciding reviews that may add to the gold, and how many it needs.
Additions == {n \in DOMAIN review.decided : review.decided[n] \in Extra}
Needed(t) == Atleast0(t - Cardinality(Official))

MayFreeze(t) ==
    /\ suite.exists
    /\ Needed(t) <= Cardinality(Additions)
    /\ Cardinality(Official) <= t

\* The first ones are taken.
Taken(t) ==
    {review.decided[n] :
        n \in {m \in Additions : Cardinality({k \in Additions : k < m}) < Needed(t)}}

Frozen(t) ==
    LET taken == Taken(t) IN
    [s \in Samples |-> IF s \in Official THEN suite.gold[s]
                       ELSE IF s \in taken THEN items[s].label ELSE None]

\* The gold set is written under the lock; the same thread then generates a suite.
Freeze(g, t) ==
    /\ MayFreeze(t)
    /\ frozen' = Frozen(t)
    /\ BeginSuite(g)
    /\ UNCHANGED <<review, clerk>>
=============================================================================
