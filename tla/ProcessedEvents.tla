---------------------------- MODULE ProcessedEvents ----------------------------
(***************************************************************************)
(* The destination process up to its task queue.  Consumer.Consume takes    *)
(* processed events from an exclusive queue of RabbitMQ and puts them in    *)
(* the Go channel events, a goroutine per message; the coordinator takes    *)
(* them from there and, a goroutine per event, has the publisher of their   *)
(* destination type enqueue them in inputChannel.                           *)
(*                                                                          *)
(* The RabbitMQ channel behind inputChannel is module RabbitPublisher; here *)
(* it only takes what is in inputChannel, until it stops.                   *)
(*                                                                          *)
(* Source: src/destination/processedevent, src/destination/taskcoordinator, *)
(*         src/cmd/destination/main.go                                      *)
(***************************************************************************)
EXTENDS Naturals, FiniteSets

CONSTANTS
  Event,        \* the processed events that the core publishes
  Malformed,    \* those that do not unmarshal
  NoPublisher,  \* those whose destination type has no task publisher
  EventsSize,   \* the capacity of events
  BufferSize    \* the capacity of inputChannel

ASSUME PipelineAssumption ==
  /\ IsFiniteSet(Event)
  /\ Malformed \subseteq Event
  /\ NoPublisher \subseteq Event
  /\ EventsSize \in Nat \ {0}
  /\ BufferSize \in Nat \ {0}

VARIABLES
  conn,         \* the consumer's connection
  loop,         \* the goroutine of Consume: the call it is about to make
  stage,        \* where each event is
  ack,          \* its acknowledgement
  coordinator,  \* the goroutine of Start
  publisher,    \* the instances of the RabbitMQ channel
  panicked,     \* a goroutine has panicked, and the process with it
  done          \* the channel done has been closed

vars == <<conn, loop, stage, ack, coordinator, publisher, panicked, done>>

Stage ==
  {"core", "queue", "lost", "received", "rejected", "sending", "events", "coordinating",
   "notFound", "input", "published"}

At(s) == {e \in Event : stage[e] = s}

To(e, s) == stage' = [stage EXCEPT ![e] = s]

\* The calls of Consume before its loop: amqp.Dial, then the channel, the exchange
\* and the queue, which is bound next and consumed from last.
Setup == {"dialing", "declaring", "binding", "consuming"}

\* Consume has started its goroutine, and main the coordinator and the publisher.
Init ==
  /\ conn = "none"
  /\ loop = "dialing"
  /\ stage = [e \in Event |-> "core"]
  /\ ack = [e \in Event |-> "none"]
  /\ coordinator = "running"
  /\ publisher = "running"
  /\ panicked = FALSE
  /\ done = FALSE

\* The core publishes an event.  The queue is exclusive: before it is bound, and
\* without the connection that declared it, the event goes nowhere.
CorePublishes(e) ==
  /\ ~panicked
  /\ stage[e] = "core"
  /\ To(e, IF conn = "open" /\ loop \notin {"dialing", "declaring", "binding"} THEN "queue" ELSE "lost")
  /\ UNCHANGED <<conn, loop, ack, coordinator, publisher, panicked, done>>

\* The queue is gone, and with it the events that the broker still had.
QueueGone(kept) ==
  stage' = [e \in Event |-> IF stage[e] = "queue" /\ e \notin kept THEN "lost" ELSE stage[e]]

\* The connection is lost, and the queue with it; msgs may still hold events that
\* the broker had sent ahead.  Consume is told by zero values from msgs, for each
\* of which it starts a goroutine that returns at once.
ConnectionLost ==
  /\ ~panicked
  /\ conn = "open"
  /\ conn' = "lost"
  /\ \E kept \in SUBSET At("queue") : QueueGone(kept) /\ (kept # {} => loop = "selecting")
  /\ UNCHANGED <<loop, ack, coordinator, publisher, panicked, done>>

-----------------------------------------------------------------------------
(* Consumer.Consume *)

\* A call of the setup fails, because the connection is lost or the broker refuses
\* it: failOnError panics, and the exclusive queue goes with the process.
SetupFails ==
  /\ ~panicked
  /\ loop \in Setup
  /\ panicked' = TRUE
  /\ conn' = "lost"
  /\ QueueGone({})
  /\ UNCHANGED <<loop, ack, coordinator, publisher, done>>

Dial ==
  /\ ~panicked
  /\ loop = "dialing"
  /\ conn' = "open"
  /\ loop' = "declaring"
  /\ UNCHANGED <<stage, ack, coordinator, publisher, panicked, done>>

\* Each of the later calls needs the connection and leads to the next.
SetupCall(call, next) ==
  /\ ~panicked
  /\ loop = call
  /\ conn = "open"
  /\ loop' = next
  /\ UNCHANGED <<conn, stage, ack, coordinator, publisher, panicked, done>>

DeclareQueue == SetupCall("declaring", "binding")

QueueBind == SetupCall("binding", "consuming")

Consume == SetupCall("consuming", "selecting")

SelectMessage(e) ==
  /\ ~panicked
  /\ loop = "selecting"
  /\ stage[e] = "queue"
  /\ To(e, "received")
  /\ UNCHANGED <<conn, loop, ack, coordinator, publisher, panicked, done>>

\* Mutant: Consume also returns when msgs is closed.
SelectClosed ==
  /\ ~panicked
  /\ loop = "selecting"
  /\ done \/ conn = "lost"
  /\ loop' = "closing"
  /\ UNCHANGED <<conn, stage, ack, coordinator, publisher, panicked, done>>

\* Consume returns; the first thing it defers is to close its AMQP channel.
SelectDone ==
  /\ ~panicked
  /\ loop = "selecting"
  /\ done
  /\ loop' = "closing"
  /\ UNCHANGED <<conn, stage, ack, coordinator, publisher, panicked, done>>

\* The other deferred calls: conn.Close, which fails on a lost connection and
\* has failOnError panic, and close(events).
Close ==
  /\ ~panicked
  /\ loop = "closing"
  /\ loop' = "closed"
  /\ panicked' = (conn = "lost")
  /\ conn' = IF conn = "lost" THEN conn ELSE "closed"
  /\ QueueGone({})
  /\ UNCHANGED <<ack, coordinator, publisher, done>>

UnmarshalBytesToProcessedEvent(e) ==
  /\ ~panicked
  /\ stage[e] = "received"
  /\ To(e, IF e \in Malformed THEN "rejected" ELSE "sending")
  /\ UNCHANGED <<conn, loop, ack, coordinator, publisher, panicked, done>>

\* Mutant: the send does not wait for room.
SendEventUnbounded(e) ==
  /\ ~panicked
  /\ stage[e] = "sending"
  /\ loop # "closed"
  /\ To(e, "events")
  /\ UNCHANGED <<conn, loop, ack, coordinator, publisher, panicked, done>>

\* The send to events waits for room, and panics once events is closed, whether
\* it began before or begins after.
SendEvent(e) ==
  /\ ~panicked
  /\ stage[e] = "sending"
  /\ \/ /\ loop # "closed"
        /\ Cardinality(At("events")) < EventsSize
        /\ To(e, "events")
        /\ UNCHANGED panicked
     \/ /\ loop = "closed"
        /\ panicked' = TRUE
        /\ UNCHANGED stage
  /\ UNCHANGED <<conn, loop, ack, coordinator, publisher, done>>

Sent == {"events", "coordinating", "notFound", "input", "published"}

\* The goroutine that sent the event acknowledges the message.  That an
\* acknowledgement failed is only logged.
Ack(e) ==
  /\ ~panicked
  /\ stage[e] \in Sent
  /\ ack[e] = "none"
  /\ ack' = [ack EXCEPT ![e] = IF conn = "open" /\ loop = "selecting" THEN "acked" ELSE "failed"]
  /\ UNCHANGED <<conn, loop, stage, coordinator, publisher, panicked, done>>

-----------------------------------------------------------------------------
(* DestinationTypeCoordinator.Start *)

\* A closed events also yields zero events; no publisher is found for them, and
\* their goroutines return.
TakeEvent(e) ==
  /\ ~panicked
  /\ coordinator = "running"
  /\ stage[e] = "events"
  /\ To(e, "coordinating")
  /\ UNCHANGED <<conn, loop, ack, coordinator, publisher, panicked, done>>

CoordinatorStops ==
  /\ ~panicked
  /\ coordinator = "running"
  /\ done
  /\ coordinator' = "stopped"
  /\ UNCHANGED <<conn, loop, stage, ack, publisher, panicked, done>>

\* Mutant: an event is given up when inputChannel is full.
PublishGivesUp(e) ==
  /\ ~panicked
  /\ stage[e] = "coordinating"
  /\ To(e, IF e \in NoPublisher \/ Cardinality(At("input")) >= BufferSize
           THEN "notFound"
           ELSE "input")
  /\ UNCHANGED <<conn, loop, ack, coordinator, publisher, panicked, done>>

\* Mutant: the loop of Start, not the goroutine, returns for an unknown type.
PublishReturns(e) ==
  /\ ~panicked
  /\ stage[e] = "coordinating"
  /\ \/ /\ e \in NoPublisher
        /\ To(e, "notFound")
        /\ coordinator' = "stopped"
     \/ /\ e \notin NoPublisher
        /\ Cardinality(At("input")) < BufferSize
        /\ To(e, "input")
        /\ UNCHANGED coordinator
  /\ UNCHANGED <<conn, loop, ack, publisher, panicked, done>>

\* The goroutine of an event looks up the publisher and calls Publish, that is
\* Queue.Enqueue, which blocks while inputChannel is full.
Publish(e) ==
  /\ ~panicked
  /\ stage[e] = "coordinating"
  /\ \/ /\ e \in NoPublisher
        /\ To(e, "notFound")
     \/ /\ e \notin NoPublisher
        /\ Cardinality(At("input")) < BufferSize
        /\ To(e, "input")
  /\ UNCHANGED <<conn, loop, ack, coordinator, publisher, panicked, done>>

\* The RabbitMQ channel takes a message from inputChannel.
Drain(e) ==
  /\ ~panicked
  /\ publisher = "running"
  /\ stage[e] = "input"
  /\ To(e, "published")
  /\ UNCHANGED <<conn, loop, ack, coordinator, publisher, panicked, done>>

PublisherStops ==
  /\ ~panicked
  /\ publisher = "running"
  /\ done
  /\ publisher' = "stopped"
  /\ UNCHANGED <<conn, loop, stage, ack, coordinator, panicked, done>>

CloseDone ==
  /\ ~panicked
  /\ ~done
  /\ done' = TRUE
  /\ UNCHANGED <<conn, loop, stage, ack, coordinator, publisher, panicked>>

-----------------------------------------------------------------------------

\* The goroutine that Consume starts for a message, up to its send.
MessageStep(e) == UnmarshalBytesToProcessedEvent(e) \/ SendEvent(e)

\* A goroutine of the process moves.
Goroutine ==
  \/ \E e \in Event :
       SelectMessage(e) \/ MessageStep(e) \/ Ack(e) \/ TakeEvent(e) \/ Publish(e) \/ Drain(e)
  \/ SetupFails \/ Dial \/ DeclareQueue \/ QueueBind \/ Consume
  \/ SelectDone \/ Close \/ CoordinatorStops \/ PublisherStops

Next == Goroutine \/ (\E e \in Event : CorePublishes(e)) \/ ConnectionLost \/ CloseDone

Spec == Init /\ [][Next]_vars

\* While goroutines of the process can move, Go runs one of them; which one is left
\* open, as every event takes each step once.  The network and the signal are not
\* fair.
FairSpec == Spec /\ WF_vars(Goroutine)

-----------------------------------------------------------------------------
(* Properties *)

\* Every variable keeps to the values the code can give it, and the Go channels
\* events and inputChannel to their capacities.
TypeOK ==
  /\ conn \in {"none", "open", "lost", "closed"}
  /\ loop \in Setup \cup {"selecting", "closing", "closed"}
  /\ stage \in [Event -> Stage]
  /\ Cardinality(At("events")) <= EventsSize
  /\ Cardinality(At("input")) <= BufferSize
  /\ ack \in [Event -> {"none", "acked", "failed"}]
  /\ coordinator \in {"running", "stopped"}
  /\ publisher \in {"running", "stopped"}
  /\ panicked \in BOOLEAN
  /\ done \in BOOLEAN

\* Once Consume is in its loop, losing the connection does not kill the process:
\* a goroutine of the pipeline panics at shutdown or not at all.
RunningSurvives == panicked => done \/ loop \in Setup

\* A well-formed event of a known destination type that reaches the queue is
\* published to the task queue, unless it was lost with the connection before
\* Consume took it, or the process is stopped.
EventuallyPublished ==
  \A e \in Event \ (Malformed \cup NoPublisher) :
    stage[e] = "queue" ~> stage[e] \in {"published", "lost"} \/ done

\* Once an event is acknowledged no broker will deliver it again.  What Consume
\* acknowledged is published to the task queue, whether or not the connection is
\* lost, unless the process is stopped or its type has no publisher.
AckedIsPublished ==
  \A e \in Event \ (Malformed \cup NoPublisher) :
    ack[e] = "acked" ~> stage[e] = "published" \/ done

\* Shutting down is graceful: once Consume is in its loop no goroutine panics.
StopsGracefully == panicked => loop \in Setup
=============================================================================
