--------------------------- MODULE MCFinalization ---------------------------
(* Finalization for TLC. *)
EXTENDS Finalization

=============================================================================
