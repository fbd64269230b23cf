---------------------------- MODULE MCExperiment ----------------------------
(***************************************************************************)
(* Three rows and a sample outside the suite, two rows an invocation.      *)
(***************************************************************************)
EXTENDS Experiment

CONSTANTS a, b, c, o

MCRows == <<a, b, c>>
MCIsolated == {a, b, c}

\* Resuming, the last selection again with --stop-on-error, and a dry run of the rows
\* of a list (one of its ids is no row): it stages the copy, and its selection is the
\* last one.
MCOptions == {Resume, [Resume EXCEPT !.next = FALSE, !.replay = TRUE, !.stop = TRUE],
              [Resume EXCEPT !.next = FALSE, !.dry = TRUE, !.only = {b, o}]}
=============================================================================
