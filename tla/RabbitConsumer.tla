---------------------------- MODULE RabbitConsumer ----------------------------
(***************************************************************************)
(* A delivery worker's way from the broker to Worker.Run: the output side   *)
(* of a RabbitMQ channel, whose instances take messages from the broker and *)
(* start a goroutine each that sends to outputChannel, and the task         *)
(* consumer, which starts a goroutine for each message it receives there    *)
(* that decodes it, sends the event to EventsChannel and acknowledges.      *)
(*                                                                          *)
(* The channels set no Qos, so that the broker sends its messages ahead of  *)
(* the instances' selects.  An acknowledgement is a frame: the broker learns *)
(* of it later, or never when the connection is lost.  On a closed AMQP     *)
(* channel it fails; the branch that reports it dereferences a nil error,   *)
(* in a goroutine that recovers nothing, and the worker process dies.       *)
(*                                                                          *)
(* Source: src/pkg/channel/adapter/rabbitmq/channel.go,                     *)
(*         src/destination/taskmanager/adapter/rabbitmqchanneltaskmanager   *)
(***************************************************************************)
EXTENDS RabbitConnection, FiniteSets

CONSTANTS
  Message,     \* the messages in the broker's queue
  Malformed,   \* those that do not decode
  Zero,        \* the zero value that a closed Go channel yields
  BufferSize   \* the capacity of outputChannel and of EventsChannel

ASSUME ConsumerAssumption ==
  /\ IsFiniteSet(Instance) /\ IsFiniteSet(Message)
  /\ Malformed \subseteq Message
  /\ Zero \notin Message
  /\ BufferSize \in Nat \ {0}

VARIABLES
  ready,     \* messages in the broker's queue
  unacked,   \* messages sent and not acknowledged, with their instance
  acks,      \* acknowledgements on their way to the broker
  stage,     \* where each delivery is in the process
  consumer,  \* the loop of Consumer.Consume
  worker,    \* the loop of Worker.Run
  events,    \* the deliveries in EventsChannel
  handed,    \* history: times each message was sent to EventsChannel
  taken,     \* history: messages Worker.Run took from there
  lost       \* history: messages that were in EventsChannel at a panic

queue == <<ready, unacked, acks>>

history == <<handed, taken, lost>>

consumerVars == <<queue, stage, consumer, worker, events, history>>

vars == <<connectionVars, consumerVars>>

\* Every lost connection is followed by a reconnection, and by a restart of the
\* process at most.
Connection == 0 .. 2 * MaxDrops

\* A body sent to an instance on its channel of a connection.
Delivery == (Message \cup {Zero}) \X Instance \X Connection

Stage == {"none", "ahead", "sending", "output", "decoded", "handed", "finished"}

At(s) == {d \in Delivery : stage[d] = s}

\* The channel of a delivery is open.
Open(d) == Alive(d[2], d[3])

Init ==
  /\ ConnectionInit
  /\ ready = Message
  /\ unacked = {}
  /\ acks = {}
  /\ stage = [d \in Delivery |-> "none"]
  /\ consumer = "running"
  /\ worker = "running"
  /\ events = {}
  /\ handed = [m \in Message |-> 0]
  /\ taken = {}
  /\ lost = {}

-----------------------------------------------------------------------------
(* The broker, and startOutput *)

\* Channels are closed: of the messages sent on them, the broker takes back all
\* but those whose acknowledgements arrive before it learns of the close.
GiveBack(closed, arrived) ==
  LET back == {u \in unacked \ arrived : u[2] \in closed} IN
  /\ ready' = ready \cup {u[1] : u \in back}
  /\ unacked' = {u \in unacked : u[2] \notin closed}
  /\ acks' = {u \in acks : u[2] \notin closed}

\* The broker sends a message ahead to an instance that consumes.
Send(i, m) ==
  /\ inst[i] \in {"checking", "selecting"}
  /\ Alive(i, ch[i])
  /\ m \in ready
  /\ ready' = ready \ {m}
  /\ unacked' = unacked \cup {<<m, i>>}
  /\ stage' = [stage EXCEPT ![<<m, i, ch[i]>>] = "ahead"]
  /\ UNCHANGED <<connectionVars, acks, consumer, worker, events, history>>

\* An acknowledgement reaches the broker, which forgets the message.
BrokerAcks(u) ==
  /\ u \in acks
  /\ acks' = acks \ {u}
  /\ unacked' = unacked \ {u}
  /\ UNCHANGED <<connectionVars, ready, stage, consumer, worker, events, history>>

\* The connection is lost, with the acknowledgements on it.
LoseConnection ==
  /\ ConnectionLost
  /\ GiveBack(Instance, {})
  /\ UNCHANGED <<stage, consumer, worker, events, history>>

\* The process dies: its memory is gone, the events in EventsChannel with it.
Die ==
  /\ GiveBack(Instance, {})
  /\ stage' = [d \in Delivery |-> IF stage[d] \in {"none", "ahead"} THEN "none" ELSE "finished"]
  /\ consumer' = "stopped"
  /\ worker' = "stopped"
  /\ events' = {}
  /\ lost' = lost \cup {d[1] : d \in events}
  /\ UNCHANGED <<handed, taken>>

\* Whoever runs the process starts it again, unless they told it to stop.
Restart ==
  /\ Panicked
  /\ ~done
  /\ connection' = connection + 1
  /\ up' = TRUE
  /\ watcher' = "registering"
  /\ inst' = [i \in Instance |-> "starting"]
  /\ consumer' = "running"
  /\ worker' = "running"
  /\ UNCHANGED <<ch, done, queue, stage, events, history>>

Watch ==
  /\ WatcherStep
  /\ IF watcher' = "panicked" THEN Die ELSE UNCHANGED consumerVars

\* An instance that stops closes its channel behind its acknowledgements.
OutputStep(i) ==
  /\ InstanceStep(i, "consuming")
  /\ IF inst'[i] = "stopped" THEN GiveBack({i}, acks) ELSE UNCHANGED queue
  /\ UNCHANGED <<stage, consumer, worker, events, history>>

\* ch.Consume succeeds on an open channel.  The branch that reports its failure
\* dereferences the nil error of the call before it.
Consume(i) ==
  /\ inst[i] = "consuming"
  /\ \/ /\ Alive(i, ch[i])
        /\ inst' = [inst EXCEPT ![i] = "checking"]
        /\ UNCHANGED <<connection, up, watcher, ch, done, consumerVars>>
     \/ /\ ~Alive(i, ch[i])
        /\ Panic
        /\ Die

\* The instance's select receives a body; a goroutine will send it on.
Received(i, x) ==
  /\ inst[i] = "selecting"
  /\ inst' = [inst EXCEPT ![i] = "checking"]
  /\ stage' = [stage EXCEPT ![<<x, i, ch[i]>>] = "sending"]
  /\ UNCHANGED <<connection, up, watcher, ch, done, queue, consumer, worker, events, history>>

\* Mutant: the message is received and not sent on.
SelectForgotten(i, m) ==
  /\ inst[i] = "selecting"
  /\ stage[<<m, i, ch[i]>>] = "ahead"
  /\ inst' = [inst EXCEPT ![i] = "checking"]
  /\ stage' = [stage EXCEPT ![<<m, i, ch[i]>>] = "finished"]
  /\ UNCHANGED <<connection, up, watcher, ch, done, queue, consumer, worker, events, history>>

\* A message that was sent ahead is received.  When the channel is closed by
\* now, the library drops such messages sooner or later.
SelectMessage(i, m) ==
  /\ stage[<<m, i, ch[i]>>] = "ahead"
  /\ Received(i, m)

\* The channel msgs is closed and yields a zero value.
SelectClosed(i) ==
  /\ ~Alive(i, ch[i])
  /\ Received(i, Zero)

\* Mutant: outputChannel has no limit.
SendOutputAlways(d) ==
  /\ stage[d] = "sending"
  /\ stage' = [stage EXCEPT ![d] = "output"]
  /\ UNCHANGED <<connectionVars, queue, consumer, worker, events, history>>

\* The goroutine of a delivery gets room in outputChannel.
SendOutput(d) ==
  /\ stage[d] = "sending"
  /\ Cardinality(At("output")) < BufferSize
  /\ stage' = [stage EXCEPT ![d] = "output"]
  /\ UNCHANGED <<connectionVars, queue, consumer, worker, events, history>>

-----------------------------------------------------------------------------
(* Consumer.Consume and Worker.Run *)

\* The consumer's select takes a delivery; a body that does not decode is left
\* without an answer.
Unmarshal(d) ==
  /\ consumer = "running"
  /\ stage[d] = "output"
  /\ stage' = [stage EXCEPT ![d] = IF d[1] \in Message \ Malformed THEN "decoded" ELSE "finished"]
  /\ UNCHANGED <<connectionVars, queue, consumer, worker, events, history>>

\* Mutant: the event is sent again and again.
HandOffAgain(d) ==
  /\ stage[d] = "decoded"
  /\ Cardinality(events) < BufferSize
  /\ events' = events \cup {d}
  /\ handed' = [handed EXCEPT ![d[1]] = @ + 1]
  /\ UNCHANGED <<connectionVars, queue, stage, consumer, worker, taken, lost>>

\* The goroutine gets room in EventsChannel.
HandOff(d) ==
  /\ stage[d] = "decoded"
  /\ Cardinality(events) < BufferSize
  /\ stage' = [stage EXCEPT ![d] = "handed"]
  /\ events' = events \cup {d}
  /\ handed' = [handed EXCEPT ![d[1]] = @ + 1]
  /\ UNCHANGED <<connectionVars, queue, consumer, worker, taken, lost>>

\* Mutant: the message is acknowledged before the event is handed over.
AckFirst(d) ==
  /\ stage[d] = "decoded"
  /\ Open(d)
  /\ acks' = acks \cup {<<d[1], d[2]>>}
  /\ UNCHANGED <<connectionVars, ready, unacked, stage, consumer, worker, events, history>>

\* After the event was handed over its acknowledgement is sent.  On a closed
\* channel that fails, and the branch that reports it dereferences a nil error.
Ack(d) ==
  /\ stage[d] = "handed"
  /\ \/ /\ Open(d)
        /\ stage' = [stage EXCEPT ![d] = "finished"]
        /\ acks' = acks \cup {<<d[1], d[2]>>}
        /\ UNCHANGED <<connectionVars, ready, unacked, consumer, worker, events, history>>
     \/ /\ ~Open(d)
        /\ Panic
        /\ Die

ConsumerStops ==
  /\ done
  /\ consumer = "running"
  /\ consumer' = "stopped"
  /\ UNCHANGED <<connectionVars, queue, stage, worker, events, history>>

\* Worker.Run takes an event and starts the goroutine that handles it.
Take(d) ==
  /\ worker = "running"
  /\ d \in events
  /\ events' = events \ {d}
  /\ taken' = taken \cup {d[1]}
  /\ UNCHANGED <<connectionVars, queue, stage, consumer, worker, handed, lost>>

WorkerStops ==
  /\ done
  /\ worker = "running"
  /\ worker' = "stopped"
  /\ UNCHANGED <<connectionVars, queue, stage, consumer, events, history>>

-----------------------------------------------------------------------------

DeliveryStep(d) == SendOutput(d) \/ Unmarshal(d) \/ HandOff(d) \/ Ack(d)

Next ==
  \/ Watch
  \/ LoseConnection
  \/ CloseDone /\ UNCHANGED consumerVars
  \/ \E i \in Instance : OutputStep(i) \/ Consume(i) \/ SelectClosed(i)
  \/ \E i \in Instance, m \in Message : Send(i, m) \/ SelectMessage(i, m)
  \/ \E u \in acks : BrokerAcks(u)
  \/ \E d \in Delivery : DeliveryStep(d) \/ Take(d)
  \/ Restart \/ ConsumerStops \/ WorkerStops

Spec == Init /\ [][Next]_vars

\* Go schedules every goroutine that can move, timers fire, the broker sends what
\* it has to a consumer, can be dialled again sooner or later, and a dead process
\* is started again.  That acknowledgements arrive is not assumed.
Fairness ==
  /\ WF_vars(Watch)
  /\ \A i \in Instance :
       WF_vars(\/ OutputStep(i) \/ Consume(i) \/ SelectClosed(i)
               \/ \E m \in Message : SelectMessage(i, m))
  /\ \A m \in Message : WF_vars(\E i \in Instance : Send(i, m))
  /\ \A d \in Delivery : WF_vars(DeliveryStep(d))
  /\ WF_vars(\E d \in Delivery : Take(d))
  /\ WF_vars(Restart) /\ WF_vars(ConsumerStops) /\ WF_vars(WorkerStops)

FairSpec == Spec /\ Fairness

-----------------------------------------------------------------------------
(* Properties *)

\* Every variable keeps to the values the code can give it; the two Go channels
\* hold no more than their capacity.
TypeOK ==
  /\ ConnectionTypeOK
  /\ connection \in Connection
  /\ ready \subseteq Message
  /\ unacked \subseteq Message \X Instance
  /\ acks \subseteq Message \X Instance
  /\ stage \in [Delivery -> Stage]
  /\ Cardinality(At("output")) <= BufferSize
  /\ consumer \in {"running", "stopped"}
  /\ worker \in {"running", "stopped"}
  /\ events \subseteq Delivery
  /\ Cardinality(events) <= BufferSize
  /\ handed \in [Message -> Nat]
  /\ taken \subseteq Message
  /\ lost \subseteq Message

\* The broker has forgotten the message.
Gone(m) == m \notin ready /\ \A i \in Instance : <<m, i>> \notin unacked

\* A message leaves the broker only after its event reached EventsChannel: it is
\* there, or with a worker, or it died in the memory of a process that panicked.
AckedIsAccounted ==
  \A m \in Message :
    Gone(m) => m \in taken \/ m \in lost \/ \E d \in events : d[1] = m

\* Deliveries of a message that an instance received on a channel since closed.
CutOff(m) == {d \in Delivery : d[1] = m /\ stage[d] \notin {"none", "ahead"} /\ ~Open(d)}

\* A message is handed over once, and once more for each channel on which it was
\* received and that was closed, before its acknowledgement reached the broker.
RedeliveryBound == \A m \in Message : handed[m] <= 1 + Cardinality(CutOff(m))

\* The broker waits for no message in vain: one that it sent and that is not
\* acknowledged is on its way to an instance, or held by a goroutine that can
\* still acknowledge it, or its acknowledgement is on its way back, or it could
\* not be decoded.
UnackedIsHeld ==
  \A u \in unacked :
    LET d == <<u[1], u[2], connection>> IN
    /\ Open(d)
    /\ u[1] \notin ready
    /\ \/ stage[d] \in {"ahead", "sending", "output", "decoded", "handed"}
       \/ u \in acks
       \/ u[1] \in Malformed /\ stage[d] = "finished"

\* Every well-formed message reaches a worker, through lost connections, zero
\* values and panics, unless it was acknowledged and lost at a panic, or the
\* process is told to stop.
EventuallyTaken ==
  \A m \in Message \ Malformed : m \in ready ~> m \in taken \/ m \in lost \/ done

\* Without a lost connection the process does not panic, not even when it is
\* shutting down gracefully.
StopsGracefully == MaxDrops = 0 => ~Panicked
=============================================================================
