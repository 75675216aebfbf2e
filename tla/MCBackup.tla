------------------------------- MODULE MCBackup -------------------------------
(* Instances of BackupService for TLC. *)
EXTENDS BackupService, TLC

Symmetry == Permutations(Snapshots) \union Permutations(Collections)
=============================================================================
