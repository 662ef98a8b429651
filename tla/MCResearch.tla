----------------------------- MODULE MCResearch -----------------------------
(* Research for TLC: two families, one proposal that allows a repair and one that does not. *)
EXTENDS Research

MCFamilies == {"pairwise", "listwise"}
MCProposals == {[family |-> "pairwise", repairs |-> 1], [family |-> "listwise", repairs |-> 0]}

=============================================================================
