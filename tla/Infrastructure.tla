----------------------------- MODULE Infrastructure ----------------------------
(***************************************************************************)
(* The parts around the services: three relays of messages, the life of the   *)
(* programs, the declarations at the broker, the opening of the database and  *)
(* the command line.  They share no state.                                  *)
(***************************************************************************)
EXTENDS
  PlainTaskManager, BrokerLibrary, Converter, ProcessLife, RabbitTopology, ScyllaInit, Cli

InfrastructureSpec ==
  /\ Spec /\ LibrarySpec /\ ConverterSpec /\ LifeSpec
  /\ TopologySpec /\ DatabaseSpec /\ CliSpec

\* The types of all parts.
InfrastructureTypeOK ==
  /\ TypeOK /\ LibraryTypeOK /\ ConverterTypeOK /\ LifeTypeOK
  /\ TopologyTypeOK /\ DatabaseTypeOK /\ CliTypeOK

\* The plain task manager, the broker library and the converter implement
\* Relay: they send nothing that was not published or could not be decoded, and
\* send again only what a break gave back before it was settled.
RelaysImplement == ImplementsRelay /\ LibraryIsRelay /\ ConverterIsRelay
=============================================================================
