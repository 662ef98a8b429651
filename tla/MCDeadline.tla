----------------------------- MODULE MCDeadline -----------------------------
(* Two controllers observe one deadline on a machine that sleeps, reboots   *)
(* and has its wall clock adjusted.                                         *)
EXTENDS Deadline, TLC

Symmetry == Permutations(Controllers)
=============================================================================
