---------------------------- MODULE MCRabbitClient ----------------------------
(* Instances of RabbitClient for TLC. *)
EXTENDS RabbitClient
=============================================================================
