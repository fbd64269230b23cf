-------------------------- MODULE MCDataLifecycle ---------------------------
(***************************************************************************)
(* Five samples: one of the validation set, four of the catalogue, two of  *)
(* them near duplicates.                                                   *)
(***************************************************************************)
EXTENDS DataLifecycle, TLC

CONSTANTS v, a, b, c, d, ann, bob, eve, g1, g2

MCSamples == {v, a, b, c, d}
MCBase == {v}
MCRefLabel == (v :> "malicious") @@ (a :> "malicious") @@ (b :> "benign")
              @@ (c :> "malicious") @@ (d :> "benign")
MCGroup == (v :> 1) @@ (a :> 2) @@ (b :> 3) @@ (c :> 2) @@ (d :> 3)
MCManualLabel == (v :> None) @@ (a :> None) @@ (b :> "other") @@ (c :> None) @@ (d :> None)
MCRank == (v :> 0) @@ (a :> 1) @@ (b :> 2) @@ (c :> 3) @@ (d :> 4)
MCReviewers == {ann, bob, eve}
MCEnriched == {a, d}
MCCasts ==
    { [runs |-> {"prepare", "review"}, generators |-> {g1}, first |-> g1, suites |-> 3,
       strict |-> {a, b, c}, trains |-> {a}, judges |-> {}],
      [runs |-> {"prepare", "pack"}, generators |-> {g1, g2}, first |-> g1, suites |-> 3,
       strict |-> {a}, trains |-> {}, judges |-> {c}],
      [runs |-> {"hold", "pack"}, generators |-> {g1}, first |-> g1, suites |-> 2,
       strict |-> {}, trains |-> {}, judges |-> {a}],
      [runs |-> {"hold", "rag"}, generators |-> {}, first |-> None, suites |-> 0,
       strict |-> {}, trains |-> {}, judges |-> {}],
      [runs |-> {"rag"}, generators |-> {g1}, first |-> None, suites |-> 1,
       strict |-> {}, trains |-> {a}, judges |-> {}],
      [runs |-> {"rag", "index", "reset"}, generators |-> {}, first |-> None, suites |-> 0,
       strict |-> {}, trains |-> {a}, judges |-> {}] }

\* A holdout that was labelled suspicious by hand, and a near duplicate of it.
MCPackCasts ==
    { [runs |-> {"prepare", "pack"}, generators |-> {g1}, first |-> None, suites |-> 1,
       strict |-> {b}, trains |-> {}, judges |-> {d}] }

\* A sample of the validation set that is judged.
MCIndexCasts ==
    { [runs |-> {"rag", "index"}, generators |-> {}, first |-> None, suites |-> 0,
       strict |-> {}, trains |-> {}, judges |-> {v}] }

ReviewerSymmetry == Permutations(MCReviewers)
=============================================================================
