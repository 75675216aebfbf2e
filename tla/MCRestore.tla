------------------------------ MODULE MCRestore ------------------------------
(* Instances of RestoreService for TLC. *)
EXTENDS RestoreService, TLC

Symmetry == Permutations(Collections)
=============================================================================
