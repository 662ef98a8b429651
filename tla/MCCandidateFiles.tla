--------------------------- MODULE MCCandidateFiles ---------------------------
(***************************************************************************)
(* A training and the prediction that reads its checkpoint, both with an   *)
(* empty log, after a campaign that has stored one, or died at it.         *)
(***************************************************************************)
EXTENDS CandidateFiles, TLC

CONSTANTS t1, x1, empty, checkpoint, scores

MCOutput == (t1 :> checkpoint) @@ (x1 :> scores)
MCReads == (t1 :> {}) @@ (x1 :> {t1})
=============================================================================
