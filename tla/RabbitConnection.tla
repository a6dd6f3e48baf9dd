--------------------------- MODULE RabbitConnection ---------------------------
(***************************************************************************)
(* The connection of a RabbitMQ channel adapter and the life of the         *)
(* goroutines that use it: the watcher that reconnects, and the instances   *)
(* that open an AMQP channel, loop over it, and are called again ten        *)
(* seconds after they find it closed.                                       *)
(*                                                                          *)
(* Connections are numbered, and an instance opens at most one AMQP channel *)
(* on each: a channel is an instance and a connection.  It is closed with   *)
(* its connection, or by its instance when that stops.                      *)
(*                                                                          *)
(* Source: src/pkg/channel/adapter/rabbitmq                                 *)
(***************************************************************************)
EXTENDS Naturals

CONSTANTS
  Instance,   \* the numberInstants goroutines of one rabbitmqChannel
  MaxDrops    \* bound on the connections that are lost

ASSUME DropsAssumption == MaxDrops \in Nat

VARIABLES
  connection,  \* the number of the connection in Rabbitmq.connection
  up,          \* whether that connection is open
  watcher,     \* the goroutine of waitForConnectionClose
  inst,        \* where each instance is in startInput or startOutput
  ch,          \* the connection of each instance's AMQP channel
  done         \* the channel done has been closed

connectionVars == <<connection, up, watcher, inst, ch, done>>

WatcherState == {"registering", "watching", "reconnecting", "stopped", "panicked"}

InstanceState ==
  {"starting", "waiting", "opening", "consuming", "checking", "selecting", "pausing",
   "stopped", "dead"}

\* The AMQP channel that instance i opened on connection c is open.
Alive(i, c) == up /\ c = connection /\ inst[i] # "stopped"

Panicked == watcher = "panicked"

\* NewWithContext returns once connect has succeeded, and startWithContext
\* starts the instances.
ConnectionInit ==
  /\ connection = 0
  /\ up = TRUE
  /\ watcher = "registering"
  /\ inst = [i \in Instance |-> "starting"]
  /\ ch = [i \in Instance |-> 0]
  /\ done = FALSE

\* The connection is lost.
ConnectionLost ==
  /\ up
  /\ connection < MaxDrops
  /\ up' = FALSE
  /\ UNCHANGED <<connection, watcher, inst, ch, done>>

\* A goroutine that recovers nothing panics: the process dies.
Panic ==
  /\ watcher' = "panicked"
  /\ inst' = [i \in Instance |-> "dead"]
  /\ up' = FALSE
  /\ UNCHANGED <<connection, ch, done>>

\* waitForConnectionClose registers for the loss of the connection connect has
\* just made.  When that connection is lost already, it is handed a closed Go
\* channel, takes a nil error from it and dereferences it, unless its select
\* picks done.
NotifyClose ==
  /\ watcher = "registering"
  /\ \/ /\ up \/ done
        /\ watcher' = IF up THEN "watching" ELSE "stopped"
        /\ UNCHANGED <<connection, up, inst, ch, done>>
     \/ /\ ~up
        /\ Panic

\* waitForConnectionClose learns of the loss and from then on ignores done.
ConnectionClosed ==
  /\ watcher = "watching"
  /\ ~up
  /\ watcher' = "reconnecting"
  /\ UNCHANGED <<connection, up, inst, ch, done>>

\* connect succeeds, after any number of failures, wakes the instances that wait
\* for a connection and leaves the new connection to a new watcher.
Connect ==
  /\ watcher = "reconnecting"
  /\ connection' = connection + 1
  /\ up' = TRUE
  /\ watcher' = "registering"
  /\ UNCHANGED <<inst, ch, done>>

WatcherStops ==
  /\ watcher = "watching"
  /\ done
  /\ watcher' = "stopped"
  /\ UNCHANGED <<connection, up, inst, ch, done>>

\* The instance sees an open connection.
WaitForConnection(i) ==
  /\ inst[i] \in {"starting", "waiting"}
  /\ up
  /\ inst' = [inst EXCEPT ![i] = "opening"]
  /\ ch' = [ch EXCEPT ![i] = connection]
  /\ UNCHANGED <<connection, up, watcher, done>>

\* The instance opens its channel on what is now in Rabbitmq.connection, which
\* it reads without the lock: the open fails when the connection it saw is gone.
\* The input loop follows at once, the output loop after a call of Consume.
OpenChannel(i, next) ==
  /\ inst[i] = "opening"
  /\ \/ /\ up
        /\ inst' = [inst EXCEPT ![i] = next]
        /\ ch' = [ch EXCEPT ![i] = connection]
     \/ /\ ~Alive(i, ch[i])
        /\ inst' = [inst EXCEPT ![i] = "pausing"]
        /\ UNCHANGED ch
  /\ UNCHANGED <<connection, up, watcher, done>>

\* The head of the instance's loop.
IsClosed(i) ==
  /\ inst[i] = "checking"
  /\ inst' = [inst EXCEPT ![i] = IF Alive(i, ch[i]) THEN "selecting" ELSE "pausing"]
  /\ UNCHANGED <<connection, up, watcher, ch, done>>

\* The instance's select sees done; on its way out it closes its channel.
SelectDone(i) ==
  /\ inst[i] = "selecting"
  /\ done
  /\ inst' = [inst EXCEPT ![i] = "stopped"]
  /\ UNCHANGED <<connection, up, watcher, ch, done>>

\* Mutant: the instance is not called again.
NeverCalledAgain(i) ==
  /\ inst[i] = "pausing"
  /\ inst' = [inst EXCEPT ![i] = "stopped"]
  /\ UNCHANGED <<connection, up, watcher, ch, done>>

\* Ten seconds later the instance starts again.
callMeNextTime(i) ==
  /\ inst[i] = "pausing"
  /\ inst' = [inst EXCEPT ![i] = "waiting"]
  /\ UNCHANGED <<connection, up, watcher, ch, done>>

\* The main goroutine closes done.
CloseDone ==
  /\ ~done /\ ~Panicked
  /\ done' = TRUE
  /\ UNCHANGED <<connection, up, watcher, inst, ch>>

\* The steps of the watcher, and those of an instance that are the same for
\* input and output.
WatcherStep == NotifyClose \/ ConnectionClosed \/ Connect \/ WatcherStops

InstanceStep(i, next) ==
  \/ WaitForConnection(i)
  \/ OpenChannel(i, next)
  \/ IsClosed(i)
  \/ SelectDone(i)
  \/ callMeNextTime(i)

\* The steps of the connection and of all that use it; next is where an instance
\* goes once it has opened its channel.
ConnectionStep(next) ==
  \/ WatcherStep \/ ConnectionLost \/ CloseDone
  \/ \E i \in Instance : InstanceStep(i, next)

ConnectionTypeOK ==
  /\ connection \in Nat
  /\ up \in BOOLEAN
  /\ watcher \in WatcherState
  /\ inst \in [Instance -> InstanceState]
  /\ ch \in [Instance -> 0 .. connection]
  /\ done \in BOOLEAN
=============================================================================
