---------------------------- MODULE RabbitPublisher ----------------------------
(***************************************************************************)
(* The input side of a RabbitMQ channel: messages put in the Go channel     *)
(* inputChannel are taken by the instances and published by a goroutine     *)
(* each, which tries again on the same AMQP channel when Publish reports an *)
(* error.  The broker does not confirm what it receives.                    *)
(*                                                                          *)
(* Source: src/pkg/channel/adapter/rabbitmq/channel.go,                     *)
(*         src/destination/taskmanager/adapter/rabbitmqchanneltaskmanager   *)
(***************************************************************************)
EXTENDS RabbitConnection, FiniteSets

CONSTANTS
  Message,         \* the messages of the client
  BufferSize,      \* the capacity of inputChannel
  MaxRetryPolicy   \* retries after the first attempt

ASSUME PublisherAssumption ==
  /\ BufferSize \in Nat \ {0}
  /\ MaxRetryPolicy \in Nat

VARIABLES
  place,    \* where each message is on its way to the broker
  pubCh,    \* the channel its goroutine publishes on
  tries,    \* the attempts that failed so far
  arrived,  \* copies of each message in the broker's queue
  late      \* history: the instance and the closed channel a message met

publisherVars == <<place, pubCh, tries, arrived, late>>

vars == <<connectionVars, publisherVars>>

Place == {"client", "input", "publishing", "published", "dropped"}

NoChannel == <<>>

Usable(c) == Alive(c[1], c[2])

At(p) == {m \in Message : place[m] = p}

Init ==
  /\ ConnectionInit
  /\ place = [m \in Message |-> "client"]
  /\ pubCh = [m \in Message |-> NoChannel]
  /\ tries = [m \in Message |-> 0]
  /\ arrived = [m \in Message |-> 0]
  /\ late = {}

\* Queue.Enqueue: the send blocks while inputChannel is full.
Enqueue(m) ==
  /\ ~Panicked
  /\ place[m] = "client"
  /\ Cardinality(At("input")) < BufferSize
  /\ place' = [place EXCEPT ![m] = "input"]
  /\ UNCHANGED <<connectionVars, pubCh, tries, arrived, late>>

\* Mutant: the instance forgets to look whether its channel is closed.
SelectAgain(i, m) ==
  /\ inst[i] = "selecting"
  /\ place[m] = "input"
  /\ place' = [place EXCEPT ![m] = "publishing"]
  /\ pubCh' = [pubCh EXCEPT ![m] = <<i, ch[i]>>]
  /\ tries' = [tries EXCEPT ![m] = 0]
  /\ late' = IF Alive(i, ch[i]) THEN late ELSE late \cup {<<i, ch[i], m>>}
  /\ UNCHANGED <<connection, up, watcher, inst, ch, done, arrived>>

\* Mutant: publishToRabbitmq compares tries with its limit the wrong way round.
SelectGivesUp(i, m) ==
  /\ inst[i] = "selecting"
  /\ place[m] = "input"
  /\ inst' = [inst EXCEPT ![i] = "checking"]
  /\ place' = [place EXCEPT ![m] = "dropped"]
  /\ pubCh' = [pubCh EXCEPT ![m] = <<i, ch[i]>>]
  /\ UNCHANGED <<connection, up, watcher, ch, done, tries, arrived, late>>

\* An instance in its select takes a message and starts the goroutine that
\* publishes it.  The select does not wake when the AMQP channel is closed.
SelectMessage(i, m) ==
  /\ inst[i] = "selecting"
  /\ place[m] = "input"
  /\ inst' = [inst EXCEPT ![i] = "checking"]
  /\ place' = [place EXCEPT ![m] = "publishing"]
  /\ pubCh' = [pubCh EXCEPT ![m] = <<i, ch[i]>>]
  /\ tries' = [tries EXCEPT ![m] = 0]
  /\ late' = IF Alive(i, ch[i]) THEN late ELSE late \cup {<<i, ch[i], m>>}
  /\ UNCHANGED <<connection, up, watcher, ch, done, arrived>>

\* Mutant: the number of tries is not looked at.
RetryForever(m) ==
  /\ tries' = [tries EXCEPT ![m] = @ + 1]
  /\ UNCHANGED <<place, pubCh, late>>

\* publishToRabbitmq is called with one more try, on the same channel.
Retry(m) ==
  /\ tries' = [tries EXCEPT ![m] = @ + 1]
  /\ place' = [place EXCEPT ![m] = IF tries[m] + 1 > MaxRetryPolicy THEN "dropped" ELSE @]
  /\ UNCHANGED <<pubCh, late>>

\* The goroutine of publishToRabbitmq is about to publish.
Publishing(m) == ~Panicked /\ place[m] = "publishing"

\* Mutant: the goroutine tries again whatever Publish returns.
PublishAgain(m) ==
  /\ Publishing(m)
  /\ Usable(pubCh[m])
  /\ arrived' = [arrived EXCEPT ![m] = @ + 1]
  /\ Retry(m)
  /\ UNCHANGED connectionVars

\* The message is written to an open connection and arrives.
Publish(m) ==
  /\ Publishing(m)
  /\ Usable(pubCh[m])
  /\ place' = [place EXCEPT ![m] = "published"]
  /\ arrived' = [arrived EXCEPT ![m] = @ + 1]
  /\ UNCHANGED <<connectionVars, pubCh, tries, late>>

\* The message is written and the connection is lost before it arrives: Publish
\* has returned no error.
PublishUnnoticed(m) ==
  /\ Publishing(m)
  /\ Usable(pubCh[m])
  /\ ConnectionLost
  /\ place' = [place EXCEPT ![m] = "published"]
  /\ UNCHANGED <<pubCh, tries, arrived, late>>

\* The write reports an error, which closes the connection; the message may have
\* arrived all the same.
PublishBreaks(m) ==
  /\ Publishing(m)
  /\ Usable(pubCh[m])
  /\ ConnectionLost
  /\ arrived' \in {arrived, [arrived EXCEPT ![m] = @ + 1]}
  /\ Retry(m)

\* Publish on a closed channel always fails.
PublishFails(m) ==
  /\ Publishing(m)
  /\ ~Usable(pubCh[m])
  /\ Retry(m)
  /\ UNCHANGED <<connectionVars, arrived>>

PublishStep(m) == Publish(m) \/ PublishFails(m)

Next ==
  \/ WatcherStep /\ UNCHANGED publisherVars
  \/ ConnectionLost /\ UNCHANGED publisherVars
  \/ CloseDone /\ UNCHANGED publisherVars
  \/ \E i \in Instance : InstanceStep(i, "checking") /\ UNCHANGED publisherVars
  \/ \E i \in Instance, m \in Message : SelectMessage(i, m)
  \/ \E m \in Message : Enqueue(m) \/ PublishStep(m) \/ PublishUnnoticed(m) \/ PublishBreaks(m)

Spec == Init /\ [][Next]_vars

\* Go schedules every goroutine that can move, timers fire, and the broker can
\* be dialled again sooner or later.
Fairness ==
  /\ WF_vars(WatcherStep /\ UNCHANGED publisherVars)
  /\ \A i \in Instance :
       WF_vars(\/ InstanceStep(i, "checking") /\ UNCHANGED publisherVars
               \/ \E m \in Message : SelectMessage(i, m))
  /\ \A m \in Message : WF_vars(PublishStep(m))

FairSpec == Spec /\ Fairness

-----------------------------------------------------------------------------
(* Properties *)

\* Every variable keeps to the values the code can give it.
TypeOK ==
  /\ ConnectionTypeOK
  /\ place \in [Message -> Place]
  /\ pubCh \in [Message -> {NoChannel} \cup (Instance \X (0 .. connection))]
  /\ tries \in [Message -> 0 .. MaxRetryPolicy + 1]
  /\ arrived \in [Message -> Nat]
  /\ late \subseteq Instance \X (0 .. connection) \X Message

\* The retries of publishToRabbitmq never put a second copy of a message in the
\* queue, even when an attempt that reported an error had arrived.
NoDuplicates == \A m \in Message : arrived[m] <= 1

\* A message given up after its retries is one whose channel was closed: while its
\* instance runs and the connection stays up, a message that was taken from
\* inputChannel is published.
DroppedOnClosed == \A m \in At("dropped") : ~Usable(pubCh[m])

\* After a connection is lost each instance takes at most one more message for
\* the closed channel, and loses it, before it notices.
OneLatePerChannel ==
  \A x, y \in late : x[1] = y[1] /\ x[2] = y[2] => x = y

\* Whatever is in inputChannel is taken out of it, through every reconnection,
\* until the adapter is told to stop or its watcher panics.
InputDrains ==
  \A m \in Message :
    place[m] = "input" ~> place[m] # "input" \/ done \/ Panicked

\* Once done is closed every goroutine of the wait group returns, so that
\* wg.Wait, which main and the tests call last, returns.  An instance that waits
\* for its first connection is not in the wait group.
ShutdownCompletes ==
  done ~> \/ Panicked
          \/ /\ watcher = "stopped"
             /\ \A i \in Instance : inst[i] \in {"starting", "stopped"}
             /\ At("publishing") = {}
=============================================================================
