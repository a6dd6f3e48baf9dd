---------------------------- MODULE PlainTaskManager ---------------------------
(***************************************************************************)
(* The plain task manager over RabbitMQ: Publish opens a connection for each  *)
(* event, and a consumer reads the queue into a channel for the workers.      *)
(*                                                                          *)
(* The consumer acknowledges a message before it decodes it and hands it on;  *)
(* the broker sees the acknowledgement later, or never if the connection is   *)
(* lost first.  A consumer whose connection was lost does not open another:   *)
(* the closed channel yields empty deliveries, whose Ack fails, until done.   *)
(*                                                                          *)
(* Source: src/destination/taskmanager/adapter/rabbitmqtaskmanager            *)
(***************************************************************************)
EXTENDS Naturals, FiniteSets, Messages

CONSTANTS
  Consumer,     \* the processes that consume the queue
  ChannelSize   \* the size of eventsChannel (100)

ASSUME SizeIsPositive == ChannelSize \in Nat \ {0}

VARIABLES
  enqueued,  \* the events whose Enqueue returned nil
  ready,     \* the messages waiting in the queue (their order is left out)
  conn,      \* whether the consumer's connection is open
  inflight,  \* the message delivered and not settled (Qos: at most one)
  acked,     \* its acknowledgement was written
  pc,        \* where the consumer's goroutine is
  held,      \* the event that it sends to eventsChannel
  waiting,   \* the number of events in eventsChannel
  sent,      \* history: the events sent to an eventsChannel
  returned   \* history: those put back although they had been read

vars == <<enqueued, ready, conn, inflight, acked, pc, held, waiting, sent, returned>>

Init ==
  /\ enqueued = {}
  /\ ready = {}
  /\ conn = [c \in Consumer |-> FALSE]
  /\ inflight = [c \in Consumer |-> None]
  /\ acked = [c \in Consumer |-> FALSE]
  /\ pc = [c \in Consumer |-> "starting"]
  /\ held = [c \in Consumer |-> None]
  /\ waiting = [c \in Consumer |-> 0]
  /\ sent = {} /\ returned = {}

\* Publish, Enqueue: no confirmation is asked for, so a publishing that the
\* broker lost is a success as well.  (An error ends the publisher in a panic,
\* or is returned when Marshal fails, and nothing is enqueued.)
Enqueue(m) ==
  /\ m \notin enqueued
  /\ enqueued' = enqueued \cup {m}
  /\ ready' \in {ready, ready \cup {m}}
  /\ UNCHANGED <<conn, inflight, acked, pc, held, waiting, sent, returned>>

\* Consume: dial, open, declare, Qos, register.
Consume(c) ==
  /\ pc[c] = "starting"
  /\ pc' = [pc EXCEPT ![c] = "select"]
  /\ conn' = [conn EXCEPT ![c] = TRUE]
  /\ UNCHANGED <<enqueued, ready, inflight, acked, held, waiting, sent, returned>>

\* The broker delivers a message to a consumer that has none.
Deliver(c, m) ==
  /\ conn[c] /\ inflight[c] = None
  /\ m \in ready
  /\ ready' = ready \ {m}
  /\ inflight' = [inflight EXCEPT ![c] = m]
  /\ UNCHANGED <<enqueued, conn, acked, pc, held, waiting, sent, returned>>

\* Mutant: the branch after the failed decoding does not leave the select.
ReadSendsGarbled(c) ==
  /\ pc[c] = "select"
  /\ inflight[c] # None /\ ~acked[c]
  /\ acked' = [acked EXCEPT ![c] = TRUE]
  /\ pc' = [pc EXCEPT ![c] = "send"]
  /\ held' = [held EXCEPT ![c] = inflight[c]]
  /\ UNCHANGED <<enqueued, ready, conn, inflight, waiting, sent, returned>>

\* case msg := <-msgs: Ack, then UnmarshalBytesToProcessedEvent; an event that
\* cannot be decoded is forgotten.  (When the connection was lost, the Ack
\* fails and nothing else happens.)
Read(c) ==
  /\ pc[c] = "select"
  /\ inflight[c] # None /\ ~acked[c]
  /\ acked' = [acked EXCEPT ![c] = TRUE]
  /\ IF inflight[c] \in Garbled THEN UNCHANGED <<pc, held>>
     ELSE /\ pc' = [pc EXCEPT ![c] = "send"]
          /\ held' = [held EXCEPT ![c] = inflight[c]]
  /\ UNCHANGED <<enqueued, ready, conn, inflight, waiting, sent, returned>>

\* eventsChannel <- e: it waits for room, and does not look at done.
SendEvent(c) ==
  /\ pc[c] = "send"
  /\ waiting[c] < ChannelSize
  /\ waiting' = [waiting EXCEPT ![c] = @ + 1]
  /\ sent' = sent \cup {held[c]}
  /\ held' = [held EXCEPT ![c] = None]
  /\ pc' = [pc EXCEPT ![c] = "select"]
  /\ UNCHANGED <<enqueued, ready, conn, inflight, acked, returned>>

\* A worker takes an event from eventsChannel.
WorkerTakes(c) ==
  /\ waiting[c] > 0
  /\ waiting' = [waiting EXCEPT ![c] = @ - 1]
  /\ UNCHANGED <<enqueued, ready, conn, inflight, acked, pc, held, sent, returned>>

\* The broker processes the acknowledgement.
BrokerAcks(c) ==
  /\ inflight[c] # None /\ acked[c]
  /\ inflight' = [inflight EXCEPT ![c] = None]
  /\ acked' = [acked EXCEPT ![c] = FALSE]
  /\ UNCHANGED <<enqueued, ready, conn, pc, held, waiting, sent, returned>>

\* The broker puts back what it has no acknowledgement for.
Disconnect(c) ==
  /\ conn' = [conn EXCEPT ![c] = FALSE]
  /\ ready' = IF inflight[c] = None THEN ready ELSE ready \cup {inflight[c]}
  /\ inflight' = [inflight EXCEPT ![c] = None]
  /\ acked' = [acked EXCEPT ![c] = FALSE]
  /\ returned' = IF acked[c] THEN returned \cup {inflight[c]} ELSE returned

ConnectionLost(c) ==
  /\ conn[c]
  /\ Disconnect(c)
  /\ UNCHANGED <<enqueued, pc, held, waiting, sent>>

\* case <-done: the deferred calls close the connection.  An acknowledgement
\* that was written is processed before that.
Done(c) ==
  /\ pc[c] = "select" /\ ~acked[c]
  /\ pc' = [pc EXCEPT ![c] = "ended"]
  /\ Disconnect(c)
  /\ UNCHANGED <<enqueued, held, waiting, sent>>

\* The process dies.
Crash(c) ==
  /\ pc[c] # "ended"
  /\ pc' = [pc EXCEPT ![c] = "ended"]
  /\ Disconnect(c)
  /\ held' = [held EXCEPT ![c] = None]
  /\ waiting' = [waiting EXCEPT ![c] = 0]
  /\ UNCHANGED <<enqueued, sent>>

Restart(c) ==
  /\ pc[c] = "ended"
  /\ pc' = [pc EXCEPT ![c] = "starting"]
  /\ waiting' = [waiting EXCEPT ![c] = 0]
  /\ UNCHANGED <<enqueued, ready, conn, inflight, acked, held, sent, returned>>

Next ==
  \/ \E m \in Message : Enqueue(m)
  \/ \E c \in Consumer :
       \/ Consume(c)
       \/ \E m \in Message : Deliver(c, m)
       \/ Read(c) \/ SendEvent(c) \/ WorkerTakes(c) \/ BrokerAcks(c)
       \/ ConnectionLost(c) \/ Done(c) \/ Crash(c) \/ Restart(c)

Spec == Init /\ [][Next]_vars

-----------------------------------------------------------------------------
(* The promise *)

\* Deliveries, by whether they were read (and their Ack was written).
Delivered(read) == {m \in Message : \E c \in Consumer : inflight[c] = m /\ acked[c] = read}

Held == {m \in Message : \E c \in Consumer : held[c] = m}

R == INSTANCE Relay WITH
       published <- enqueued,
       offered <- ready \cup Delivered(FALSE),
       held <- Held,
       unsettled <- Delivered(TRUE)

-----------------------------------------------------------------------------
(* Properties *)

\* The type of every variable of the plain task manager.
TypeOK ==
  /\ enqueued \subseteq Message
  /\ ready \subseteq enqueued
  /\ conn \in [Consumer -> BOOLEAN]
  /\ inflight \in [Consumer -> enqueued \cup {None}]
  /\ acked \in [Consumer -> BOOLEAN]
  /\ pc \in [Consumer -> {"starting", "select", "send", "ended"}]
  /\ held \in [Consumer -> enqueued \cup {None}]
  /\ waiting \in [Consumer -> 0 .. ChannelSize]
  /\ sent \subseteq enqueued /\ returned \subseteq enqueued

\* The plain task manager is a relay: an event that the broker has settled and
\* that was sent to the workers never reaches them again; what comes again was
\* given back because a connection was lost between the Ack that was written
\* and its processing; and no event is sent that could not be decoded.
ImplementsRelay == R!Spec
=============================================================================
