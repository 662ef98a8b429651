--------------------------- MODULE MCLaunchJournal ---------------------------
(***************************************************************************)
(* Two controllers on one run directory: two trainings compete for the     *)
(* last launch, and resume refuses to touch the workspace of one of them.  *)
(***************************************************************************)
EXTENDS LaunchJournal, TLC

CONSTANTS t1, t2

Symmetry == Permutations(Controllers)
=============================================================================
