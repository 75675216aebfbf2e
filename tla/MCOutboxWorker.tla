--------------------------- MODULE MCOutboxWorker ---------------------------
(* Instance of OutboxWorker for TLC. *)
EXTENDS OutboxWorker, TLC

Symmetry == Permutations(Workers)
=============================================================================
