----------------------------- MODULE MCBatchJobs -----------------------------
(* Small instances of BatchJobs for TLC.                                   *)
EXTENDS BatchJobs, TLC

Symmetry == Permutations(Md5s) \cup Permutations(Threads)
              \cup Permutations(Handlers) \cup Permutations(Jobs)
==============================================================================
