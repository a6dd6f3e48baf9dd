-------------------------- MODULE MCRabbitPublisher --------------------------
(* Instances of RabbitPublisher for TLC. *)
EXTENDS RabbitPublisher
=============================================================================
