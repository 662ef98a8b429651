----------------------------- MODULE Selection -----------------------------
(***************************************************************************)
(* The frozen selection rules: Selector, which compares a candidate with   *)
(* its parent (always the incumbent) and with the official-FM fallback,    *)
(* and ConvergenceState, which decides when research ends.                 *)
(*                                                                         *)
(* Evidence is a function from rungs to primary scores.  Scores are whole  *)
(* numbers; a mean over folds or seeds is compared as a sum.               *)
(***************************************************************************)
EXTENDS Integers

CONSTANTS
  Tolerance,      \* WORST_FOLD_DEGRADATION_LIMIT
  Material,       \* MATERIAL_PRIMARY_DELTA, over the sum of the seeds
  Epsilon,        \* EPSILON, over the sum of the seeds
  Patience,       \* PATIENCE
  MaxUnmeasured   \* MAX_UNMEASURED_STREAK

ASSUME SelectionAssumption ==
  /\ Patience \in Nat \ {0} /\ MaxUnmeasured \in Nat \ {0}
  /\ Tolerance \in Nat /\ Material \in Nat /\ Epsilon \in Nat

\* The rungs of a candidate, in the order of their runs: Fold B, Fold A, matched seeds 0, 1, 2.
FoldB == 1
FoldA == 2
Folds == {FoldB, FoldA}
FirstSeed == 3
LastSeed == 5
Seeds == FirstSeed .. LastSeed
Rungs == FoldB .. LastSeed

FoldTotal(evidence) == evidence[FoldA] + evidence[FoldB]
SeedTotal(evidence) == evidence[3] + evidence[4] + evidence[5]

\* The Fold B screen, which a diversity root passes whatever its score.
Screened(root, evidence, incumbent) == root \/ evidence[FoldB] > incumbent[FoldB]

\* assess_outer_eligibility of a candidate that may specialise for blending.
OuterEligible(root, evidence, incumbent, fallback) ==
  /\ Screened(root, evidence, incumbent)
  /\ FoldTotal(evidence) > FoldTotal(fallback)

\* Mutant of Replaces: the matched seeds are not compared with those of the incumbent.
ReplacesOnFolds(evidence, incumbent) == FoldTotal(evidence) > FoldTotal(incumbent)

\* decide: the folds must improve together and none may degrade, then the matched seeds.
Replaces(evidence, incumbent) ==
  /\ \A f \in Folds : evidence[f] >= incumbent[f] - Tolerance
  /\ FoldTotal(evidence) > FoldTotal(incumbent)
  /\ SeedTotal(evidence) > SeedTotal(incumbent)

Decide(root, evidence, incumbent, fallback) ==
  IF ~OuterEligible(root, evidence, incumbent, fallback) \/ ~Replaces(evidence, incumbent)
  THEN "retained"
  ELSE IF SeedTotal(evidence) - SeedTotal(incumbent) > Material
       THEN "confirmed" ELSE "unconfirmed"

Promotions == {"confirmed", "unconfirmed"}
Measured == {"retained"} \cup Promotions

-----------------------------------------------------------------------------
(* ConvergenceState                                                        *)

Convergence == [best : Nat, flat : Nat, blank : Nat, done : Nat]

InitialConvergence(best) == [best |-> best, flat |-> 0, blank |-> 0, done |-> 0]

Converged(state) == state.flat >= Patience
ShouldStop(state) == Converged(state) \/ state.blank >= MaxUnmeasured

\* An iteration with an eligible outer primary.
MeasuredUpdate(state, primary) ==
  [best |-> IF primary > state.best THEN primary ELSE state.best,
   flat |-> IF primary - state.best > Epsilon THEN 0 ELSE state.flat + 1,
   blank |-> 0,
   done |-> state.done + 1]

\* Mutant of UnmeasuredUpdate: a rejection counts as an iteration without material gain.
UnmeasuredUpdateFlat(state) ==
  [state EXCEPT !.flat = @ + 1, !.blank = @ + 1, !.done = @ + 1]

\* An iteration that produced none: a failure or a rejection.
UnmeasuredUpdate(state) == [state EXCEPT !.blank = @ + 1, !.done = @ + 1]

=============================================================================
