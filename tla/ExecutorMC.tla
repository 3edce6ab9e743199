----------------------------- MODULE ExecutorMC -----------------------------
(***************************************************************************)
(* Constants for the run of Executor: a task of low priority that expects  *)
(* to be done at once, and an urgent one with a long estimate that arrives *)
(* late: the two ordering policies disagree about them.                   *)
(***************************************************************************)
EXTENDS ExecutorHistory

MCProfiles == {<<0, 0, 0>>, <<1, 2, 1>>}
=============================================================================
