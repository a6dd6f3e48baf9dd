----------------------------- MODULE RabbitTopology ----------------------------
(***************************************************************************)
(* How a process makes a channel of the RabbitMQ adapter: NewChannel          *)
(* declares the exchange and the queue, binds them and starts the instances,  *)
(* while the connection may be lost and made again.                          *)
(*                                                                          *)
(* Several processes declare the same names; the broker may hold an exchange  *)
(* or a queue of that name with other attributes, and may refuse any call.    *)
(*                                                                          *)
(* Source: src/pkg/channel/adapter/rabbitmq                                  *)
(***************************************************************************)
EXTENDS Naturals

CONSTANTS
  Declarer,  \* the processes that make the channel
  MaxLosses  \* bound on the connections that each of them loses

ASSUME LossesAssumption == MaxLosses \in Nat

VARIABLES
  connection,  \* Rabbitmq.connection: the number of the newest connection
  up,          \* that connection is open
  connRead,    \* the connection that newChannelWithContext read
  making,      \* where newChannelWithContext is
  exchange,    \* the exchange in the broker: absent, as declared, or other
  queue,       \* the queue
  bound,       \* the queue is bound to the exchange
  reopened     \* channels opened for a passive declaration, and never closed

topologyVars == <<connection, up, connRead, making, exchange, queue, bound, reopened>>

broker == <<exchange, queue, bound>>

Entity == {"absent", "declared", "other"}

\* NewWithContext has returned; its connection may be lost already.
TopologyInit ==
  /\ connection = [p \in Declarer |-> 0]
  /\ up = [p \in Declarer |-> TRUE]
  /\ connRead = [p \in Declarer |-> 0]
  /\ making = [p \in Declarer |-> "read"]
  /\ exchange \in Entity
  /\ queue \in Entity
  /\ bound = FALSE
  /\ reopened = [p \in Declarer |-> 0]

LoseConnection(p) ==
  /\ up[p] /\ connection[p] < MaxLosses
  /\ up' = [up EXCEPT ![p] = FALSE]
  /\ UNCHANGED <<connection, connRead, making, broker, reopened>>

\* connect, called by waitForConnectionClose; the channels of the connection
\* that was lost are gone.
Reconnect(p) ==
  /\ ~up[p]
  /\ up' = [up EXCEPT ![p] = TRUE]
  /\ connection' = [connection EXCEPT ![p] = @ + 1]
  /\ reopened' = [reopened EXCEPT ![p] = 0]
  /\ UNCHANGED <<connRead, making, broker>>

\* The connection that was read can open channels and make calls.
Usable(p) == up[p] /\ connRead[p] = connection[p]

Reaches(p, to) == making' = [making EXCEPT ![p] = to]

\* conn := rabbitmq.connection
ReadConnection(p) ==
  /\ making[p] = "read"
  /\ connRead' = [connRead EXCEPT ![p] = connection[p]]
  /\ Reaches(p, "wait")
  /\ UNCHANGED <<connection, up, broker, reopened>>

\* Mutant: it waits for the connection that was read.
WaitForRead(p) ==
  /\ making[p] = "wait"
  /\ Usable(p)
  /\ Reaches(p, "open")
  /\ UNCHANGED <<connection, up, connRead, broker, reopened>>

\* It waits until the newest connection is open, and the one that was read is
\* not read again.
WaitForConnection(p) ==
  /\ making[p] = "wait"
  /\ up[p]
  /\ Reaches(p, "open")
  /\ UNCHANGED <<connection, up, connRead, broker, reopened>>

\* Opening a channel, in any of the calls below, fails on a connection that is
\* lost; the error is returned.
Lost(p) == ~Usable(p) /\ Reaches(p, "failed")

OpenChannel(p) ==
  /\ making[p] = "open"
  /\ (Usable(p) /\ Reaches(p, "exchange")) \/ Lost(p)
  /\ UNCHANGED <<connection, up, connRead, broker, reopened>>

\* A declaration of an entity, which is found as e and left as f.  The broker
\* accepts it, or refuses it and closes the channel: it must if the attributes
\* differ.  Then the passive one, on a channel opened anew, is accepted if there is
\* such an entity, or refused.  The deferred Close is for the first channel.
Declare(p, e, f, next) ==
  \/ /\ Usable(p) /\ e # "other"
     /\ f = "declared"
     /\ Reaches(p, next)
     /\ UNCHANGED reopened
  \/ /\ Usable(p)
     /\ f = e
     /\ reopened' = [reopened EXCEPT ![p] = @ + 1]
     /\ (e # "absent" /\ Reaches(p, next)) \/ Reaches(p, "failed")
  \/ Lost(p) /\ f = e /\ UNCHANGED reopened

declareExchange(p) ==
  /\ making[p] = "exchange"
  /\ Declare(p, exchange, exchange', "queue")
  /\ UNCHANGED <<connection, up, connRead, queue, bound>>

declareQueue(p) ==
  /\ making[p] = "queue"
  /\ Declare(p, queue, queue', "bind")
  /\ UNCHANGED <<connection, up, connRead, exchange, bound>>

\* The broker binds what is there, or refuses.  Then startWithContext starts the
\* instances, and the adapter registers the channel.
bindExchangeToQueue(p) ==
  /\ making[p] = "bind"
  /\ \/ /\ Usable(p) /\ exchange # "absent" /\ queue # "absent"
        /\ bound' = TRUE
        /\ Reaches(p, "started")
     \/ Reaches(p, "failed") /\ UNCHANGED bound
  /\ UNCHANGED <<connection, up, connRead, exchange, queue, reopened>>

newChannelWithContext(p) ==
  \/ ReadConnection(p) \/ WaitForConnection(p) \/ OpenChannel(p)
  \/ declareExchange(p) \/ declareQueue(p) \/ bindExchangeToQueue(p)

TopologyNext ==
  \E p \in Declarer : LoseConnection(p) \/ Reconnect(p) \/ newChannelWithContext(p)

TopologySpec == TopologyInit /\ [][TopologyNext]_topologyVars

\* connect is tried until the broker answers, and nothing stops newChannelWithContext
\* where it can go on.  Which process moves is left open: each takes finitely many
\* steps.
TopologyProgress == \E p \in Declarer : Reconnect(p) \/ newChannelWithContext(p)

TopologyFairness == WF_topologyVars(TopologyProgress)

-----------------------------------------------------------------------------
(* Properties *)

\* The type of every variable of the topology.
TopologyTypeOK ==
  /\ connection \in [Declarer -> 0 .. MaxLosses]
  /\ up \in [Declarer -> BOOLEAN]
  /\ connRead \in [Declarer -> 0 .. MaxLosses]
  /\ making \in [Declarer -> {"read", "wait", "open", "exchange", "queue", "bind", "started", "failed"}]
  /\ exchange \in Entity /\ queue \in Entity /\ bound \in BOOLEAN
  /\ reopened \in [Declarer -> 0 .. 2]

\* A channel that is started has its exchange, its queue and their binding in
\* the broker, whoever declared them and with which attributes.
Started(p) == making[p] = "started" /\ exchange # "absent" /\ queue # "absent" /\ bound

\* Once it has read the connection, newChannelWithContext returns, with a channel
\* whose exchange, queue and binding are in the broker, or with an error.  It does
\* not wait for ever for the connection that it read when that one is lost and
\* replaced, and neither other processes that declare the same names at the same
\* time nor other attributes nor refusals of the broker keep it from returning.
NewChannelReturns ==
  \A p \in Declarer : making[p] = "wait" ~> Started(p) \/ making[p] = "failed"
=============================================================================
