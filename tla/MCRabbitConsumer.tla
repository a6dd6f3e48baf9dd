--------------------------- MODULE MCRabbitConsumer ---------------------------
(* The instance of RabbitConsumer for TLC. *)
EXTENDS RabbitConsumer
=============================================================================
