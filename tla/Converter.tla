------------------------------- MODULE Converter -------------------------------
(***************************************************************************)
(* The converter between channels of bytes and channels of events or tasks.   *)
(*                                                                          *)
(* Its four functions have one shape: the first call for a channel makes the  *)
(* channel of the other type and starts a goroutine that reads the one and    *)
(* starts a goroutine for every message, which converts it and sends it to    *)
(* the other; a later call returns the channel made before.  The goroutines   *)
(* of the messages run in any order, and a send does not look at done.       *)
(*                                                                          *)
(* Source: src/pkg/channel/converter.go                                      *)
(***************************************************************************)
EXTENDS Naturals, FiniteSets, Messages

CONSTANTS
  InputSize,   \* the size of the channel that is read
  OutputSize,  \* the size of the channel that is written
  MaxCalls     \* bound on the calls of the function

ASSUME ConverterAssumption == OutputSize \in Nat /\ MaxCalls \in Nat

VARIABLES
  function,   \* the function that converts the channel (rigid)
  put,        \* the messages sent into the channel that is read
  input,      \* those waiting in it
  loops,      \* the goroutines that read it and have not returned
  memo,       \* the map holds the channel made by the first call
  calls,      \* the calls so far
  stopped,    \* done is closed
  converting, \* the messages of the goroutines that have not sent theirs
  output,     \* the number of messages in the channel that is written
  converted   \* history: the messages sent into it

converterVars == <<function, put, input, loops, memo, calls, stopped, converting, output,
                   converted>>

Function == {"ConvertToOutputProcessedEventChannel", "ConvertToOutputTaskChannel",
             "ConvertToInputTaskChannel", "ConvertToInputDeliveryTaskChannel"}

ConverterInit ==
  /\ function \in Function
  /\ put = {} /\ input = {} /\ converting = {} /\ converted = {}
  /\ loops = 0 /\ calls = 0 /\ output = 0
  /\ memo = FALSE /\ stopped = FALSE

\* Mutant: the channel is not remembered.
ConvertForgets(f) ==
  /\ function = f /\ calls < MaxCalls
  /\ calls' = calls + 1
  /\ loops' = loops + 1
  /\ UNCHANGED <<function, memo, put, input, stopped, converting, output, converted>>

\* A call: the channel made before, or a new one and the goroutine that reads.
Convert(f) ==
  /\ function = f /\ calls < MaxCalls
  /\ calls' = calls + 1
  /\ memo' = TRUE
  /\ loops' = IF memo THEN loops ELSE loops + 1
  /\ UNCHANGED <<function, put, input, stopped, converting, output, converted>>

\* Each function has its own map of channels and its own type to convert.
ConvertToOutputProcessedEventChannel == Convert("ConvertToOutputProcessedEventChannel")
ConvertToOutputTaskChannel == Convert("ConvertToOutputTaskChannel")
ConvertToInputTaskChannel == Convert("ConvertToInputTaskChannel")
ConvertToInputDeliveryTaskChannel == Convert("ConvertToInputDeliveryTaskChannel")

\* A sender of the channel that is read.
Put(m) ==
  /\ m \notin put
  /\ Cardinality(input) < InputSize
  /\ put' = put \cup {m}
  /\ input' = input \cup {m}
  /\ UNCHANGED <<function, loops, memo, calls, stopped, converting, output, converted>>

\* case msg := <-originalChannel (inputChannel): a goroutine for the message,
\* which ends at once if the conversion fails.
ReadMessage(m) ==
  /\ loops > 0
  /\ m \in input
  /\ input' = input \ {m}
  /\ converting' = IF m \in Garbled THEN converting ELSE converting \cup {m}
  /\ UNCHANGED <<function, put, loops, memo, calls, stopped, output, converted>>

\* outputChannel <- e (originalChannel <- e)
SendConverted(m) ==
  /\ m \in converting
  /\ output < OutputSize
  /\ output' = output + 1
  /\ converting' = converting \ {m}
  /\ converted' = converted \cup {m}
  /\ UNCHANGED <<function, put, input, loops, memo, calls, stopped>>

\* A reader of the channel that is written.
Get ==
  /\ output > 0
  /\ output' = output - 1
  /\ UNCHANGED <<function, put, input, loops, memo, calls, stopped, converting, converted>>

\* done is closed.
CloseStopped ==
  /\ ~stopped
  /\ stopped' = TRUE
  /\ UNCHANGED <<function, put, input, loops, memo, calls, converting, output, converted>>

\* case <-c.done: the select may also take a message first.
Stop ==
  /\ stopped /\ loops > 0
  /\ loops' = loops - 1
  /\ UNCHANGED <<function, put, input, memo, calls, stopped, converting, output, converted>>

ConverterNext ==
  \/ ConvertToOutputProcessedEventChannel \/ ConvertToOutputTaskChannel
  \/ ConvertToInputTaskChannel \/ ConvertToInputDeliveryTaskChannel
  \/ Get \/ CloseStopped \/ Stop
  \/ \E m \in Message : Put(m) \/ ReadMessage(m) \/ SendConverted(m)

ConverterSpec == ConverterInit /\ [][ConverterNext]_converterVars

-----------------------------------------------------------------------------
(* The promise *)

ConverterRelay == INSTANCE Relay WITH
       published <- put, offered <- input, held <- converting, sent <- converted,
       unsettled <- {}, returned <- {}

-----------------------------------------------------------------------------
(* Properties *)

\* The type of every variable of the converter; a channel has one goroutine
\* that reads it, however often it is converted.
ConverterTypeOK ==
  /\ function \in Function
  /\ put \subseteq Message
  /\ input \subseteq put /\ converting \subseteq put \ Garbled /\ converted \subseteq put
  /\ loops \in 0 .. 1
  /\ memo \in BOOLEAN /\ stopped \in BOOLEAN
  /\ calls \in 0 .. MaxCalls
  /\ output \in 0 .. OutputSize

\* The converter is a relay that settles at once: only messages that can be
\* converted are sent, and none again once no goroutine has it.
ConverterIsRelay == ConverterRelay!Spec
=============================================================================
