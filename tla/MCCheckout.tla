------------------------------ MODULE MCCheckout ------------------------------
(* An instance of Checkout for TLC. *)
EXTENDS Checkout, TLC

Symmetry == Permutations(Submissions) \cup Permutations(Products)
=============================================================================
