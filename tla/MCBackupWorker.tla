---------------------------- MODULE MCBackupWorker ----------------------------
(* Instances of BackupWorker for TLC. *)
EXTENDS BackupWorker, TLC

Symmetry == Permutations(Jobs)
=============================================================================
