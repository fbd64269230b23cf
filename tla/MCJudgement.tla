----------------------------- MODULE MCJudgement -----------------------------
(* Small instances of Judgement for TLC.                                   *)
EXTENDS Judgement, TLC

Symmetry == Permutations(Calls)
==============================================================================
