-------------------------------- MODULE Messages -------------------------------
(***************************************************************************)
(* The messages that the relays move (PlainTaskManager, BrokerLibrary and      *)
(* Converter).                                                              *)
(***************************************************************************)

CONSTANTS
  Message,  \* the messages, each published once
  Garbled,  \* those that cannot be decoded
  None      \* no message

ASSUME NoneIsNoMessage == None \notin Message
=============================================================================
