--------------------------- MODULE MCInventoryClient ---------------------------
(* Instance of InventoryClient for TLC. *)
EXTENDS InventoryClient
=============================================================================
