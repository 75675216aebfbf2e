---------------------------- MODULE MCOrderService ----------------------------
(* Instance of OrderService for TLC. *)
EXTENDS OrderService, TLC

Symmetry ==
  Permutations(Requests) \cup Permutations(Keys) \cup Permutations(Hashes)
=============================================================================
