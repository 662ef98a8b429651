--------------------------- MODULE MCOuterQueries ---------------------------
(***************************************************************************)
(* Two controllers on one campaign and one controller of a second campaign *)
(* of the same configuration share a project ledger.                       *)
(***************************************************************************)
EXTENDS OuterQueries, TLC

CONSTANTS c1, c2, f1, p1, p2, p3

MCConfigOf == [c \in {c1, c2} |-> f1]
MCCampaignOf == (p1 :> c1) @@ (p2 :> c1) @@ (p3 :> c2)
Symmetry ==
  Permutations(Candidates) \cup Permutations(Results) \cup Permutations({p1, p2})
=============================================================================
