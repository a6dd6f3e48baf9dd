--------------------------- MODULE MCProcessedEvents ---------------------------
(* Instances of ProcessedEvents for TLC. *)
EXTENDS ProcessedEvents
=============================================================================
