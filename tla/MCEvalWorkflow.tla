---------------------------- MODULE MCEvalWorkflow ----------------------------
(* Small instances of EvalWorkflow for TLC.                                *)
EXTENDS EvalWorkflow, TLC

Symmetry == Permutations(Jobs) \cup Permutations(Handlers)
==============================================================================
