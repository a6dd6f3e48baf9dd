----------------------------- MODULE BrokerLibrary -----------------------------
(***************************************************************************)
(* The message broker of pkg/broker over RabbitMQ: PublishMessage declares    *)
(* the exchange and the queue and publishes; ConsumeMessage relays the        *)
(* deliveries to a channel until the AMQP channel is closed.                 *)
(*                                                                          *)
(* A client has one AMQP channel for everything: an error of the broker       *)
(* closes it, and no call opens another.  The library never acknowledges:     *)
(* the broker settles at delivery (auto-ack, the default), or never, and      *)
(* then offers everything again once the channel is closed.                  *)
(*                                                                          *)
(* Source: src/pkg/broker/rabbitmq                                            *)
(***************************************************************************)
EXTENDS Naturals, Messages

CONSTANTS
  Client,  \* the clients of the broker
  OutSize  \* ConsumeMessageChanSize (100)

ASSUME OutSizeAssumption == OutSize \in Nat

VARIABLES
  autoAck,     \* ConsumerAutoAck (rigid)
  autoDelete,  \* QueueAutoDeleted (rigid)
  channel,     \* the state of the client's AMQP channel
  queueExists, \* the queue exists
  stored,      \* the messages waiting in it (their order is left out)
  published,   \* the messages that PublishMessage published without an error
  consuming,   \* the client's relay goroutine runs (at most one per client)
  inbox,       \* the deliveries that it has not read
  holding,     \* the message that it sends to out
  out,         \* the number of messages in out
  unacked,     \* the deliveries that the broker still expects an Ack for
  relayed,     \* history: the messages sent to an out
  givenBack    \* history: the deliveries that the broker took back

libraryVars == <<autoAck, autoDelete, channel, queueExists, stored, published, consuming,
                 inbox, holding, out, unacked, relayed, givenBack>>

amqpOptions == <<autoAck, autoDelete>>
queueVars == <<queueExists, stored, unacked, givenBack>>
relayGoroutine == <<consuming, inbox, holding, out, relayed>>

\* NEWAMQPConfig: the options that the relay depends on; without options both
\* are TRUE.
LibraryInit ==
  /\ autoAck \in BOOLEAN /\ autoDelete \in BOOLEAN
  /\ channel = [c \in Client |-> "new"]
  /\ queueExists = FALSE
  /\ stored = {}
  /\ published = {}
  /\ consuming = [c \in Client |-> FALSE]
  /\ inbox = [c \in Client |-> {}]
  /\ holding = [c \in Client |-> None]
  /\ out = [c \in Client |-> 0]
  /\ unacked = [c \in Client |-> {}]
  /\ relayed = {} /\ givenBack = {}

NewRabbitMQBroker(c) ==
  /\ channel[c] = "new"
  /\ channel' = [channel EXCEPT ![c] = "open"]
  /\ UNCHANGED <<amqpOptions, queueVars, published, relayGoroutine>>

\* DeclareExchange, DeclareAndBindQueue: from here on the queue exists.
DeclareExchangeAndBindQueue == queueExists' = TRUE

\* The messages are published one by one; an error leaves those before it
\* published.  Without confirmations, one that the broker loses is a success.
PublishMessage(c) ==
  /\ channel[c] = "open"
  /\ DeclareExchangeAndBindQueue
  /\ \E new \in SUBSET (Message \ published) : \E arrived \in SUBSET new :
       /\ published' = published \cup new
       /\ stored' = stored \cup arrived
  /\ UNCHANGED <<amqpOptions, channel, unacked, givenBack, relayGoroutine>>

-----------------------------------------------------------------------------
(* The AMQP channel *)

\* A broker deletes a queue of this kind with its last consumer.
LastConsumerGone(c) ==
  /\ autoDelete /\ consuming[c]
  /\ \A d \in Client \ {c} : consuming[d] => channel[d] = "closed"

\* The channel is closed: the broker takes back the deliveries without an
\* Ack, and deliveries that were not read may be dropped.
ChannelCloses(c) ==
  /\ channel' = [channel EXCEPT ![c] = "closed"]
  /\ unacked' = [unacked EXCEPT ![c] = {}]
  /\ inbox' \in {[inbox EXCEPT ![c] = rest] : rest \in SUBSET inbox[c]}
  /\ IF LastConsumerGone(c) THEN queueExists' = FALSE /\ stored' = {} /\ UNCHANGED givenBack
     ELSE /\ stored' = stored \cup unacked[c]
          /\ givenBack' = givenBack \cup unacked[c]
          /\ UNCHANGED queueExists

\* Close, CloseChannel, or the connection is lost.  (Close of a closed channel
\* returns the error and leaves the connection open.)
Close(c) ==
  /\ channel[c] = "open"
  /\ ChannelCloses(c)
  /\ UNCHANGED <<amqpOptions, published, consuming, holding, out, relayed>>

\* ConsumeMessage: consuming a queue that does not exist is an error of the
\* channel, which the broker closes.
ConsumeMessage(c) ==
  /\ channel[c] = "open" /\ ~consuming[c]
  /\ IF queueExists THEN /\ consuming' = [consuming EXCEPT ![c] = TRUE]
                   /\ out' = [out EXCEPT ![c] = 0]
                   /\ UNCHANGED channel
     ELSE /\ channel' = [channel EXCEPT ![c] = "closed"]
          /\ UNCHANGED <<consuming, out>>
  /\ UNCHANGED <<amqpOptions, queueVars, published, inbox, holding, relayed>>

\* The broker delivers; with auto-ack it forgets the message.
DeliverTo(c, m) ==
  /\ channel[c] = "open" /\ consuming[c]
  /\ m \in stored
  /\ stored' = stored \ {m}
  /\ inbox' = [inbox EXCEPT ![c] = @ \cup {m}]
  /\ unacked' = IF autoAck THEN unacked ELSE [unacked EXCEPT ![c] = @ \cup {m}]
  /\ UNCHANGED <<amqpOptions, channel, queueExists, published, consuming, holding, out, relayed,
                 givenBack>>

-----------------------------------------------------------------------------
(* The goroutine of ConsumeMessage *)

\* for amqpMsg := range msgs
ReadDelivery(c, m) ==
  /\ consuming[c] /\ holding[c] = None
  /\ m \in inbox[c]
  /\ inbox' = [inbox EXCEPT ![c] = @ \ {m}]
  /\ holding' = [holding EXCEPT ![c] = m]
  /\ UNCHANGED <<amqpOptions, channel, queueVars, published, consuming, out, relayed>>

\* out <- msg waits for room.
SendMessage(c) ==
  /\ holding[c] # None
  /\ out[c] < OutSize
  /\ out' = [out EXCEPT ![c] = @ + 1]
  /\ relayed' = relayed \cup {holding[c]}
  /\ holding' = [holding EXCEPT ![c] = None]
  /\ UNCHANGED <<amqpOptions, channel, queueVars, published, consuming, inbox>>

\* The caller takes a message from out.
CallerTakes(c) ==
  /\ out[c] > 0
  /\ out' = [out EXCEPT ![c] = @ - 1]
  /\ UNCHANGED <<amqpOptions, channel, queueVars, published, consuming, inbox, holding, relayed>>

\* msgs is closed and read: out is closed.
CloseOut(c) ==
  /\ consuming[c] /\ channel[c] = "closed" /\ inbox[c] = {} /\ holding[c] = None
  /\ consuming' = [consuming EXCEPT ![c] = FALSE]
  /\ UNCHANGED <<amqpOptions, channel, queueVars, published, inbox, holding, out, relayed>>

\* A new client in place of one that was closed.
NewClient(c) ==
  /\ channel[c] = "closed" /\ ~consuming[c]
  /\ channel' = [channel EXCEPT ![c] = "new"]
  /\ UNCHANGED <<amqpOptions, queueVars, published, relayGoroutine>>

LibraryNext ==
  \E c \in Client :
    \/ NewRabbitMQBroker(c) \/ PublishMessage(c) \/ Close(c) \/ ConsumeMessage(c)
    \/ \E m \in Message : DeliverTo(c, m) \/ ReadDelivery(c, m)
    \/ SendMessage(c) \/ CallerTakes(c) \/ CloseOut(c) \/ NewClient(c)

LibrarySpec == LibraryInit /\ [][LibraryNext]_libraryVars

-----------------------------------------------------------------------------
(* The promise *)

\* The copies that the library has, and the deliveries without an Ack.
Copies == {m \in Message : \E c \in Client : m \in inbox[c] \/ m = holding[c]}
Unacked == UNION {unacked[c] : c \in Client}

LibraryRelay == INSTANCE Relay WITH
       Garbled <- {},
       offered <- stored,
       held <- Copies,
       sent <- relayed,
       unsettled <- Unacked,
       returned <- givenBack

-----------------------------------------------------------------------------
(* Properties *)

\* The type of every variable of the broker library.
LibraryTypeOK ==
  /\ autoAck \in BOOLEAN /\ autoDelete \in BOOLEAN
  /\ channel \in [Client -> {"new", "open", "closed"}]
  /\ queueExists \in BOOLEAN
  /\ published \subseteq Message
  /\ stored \subseteq published
  /\ consuming \in [Client -> BOOLEAN]
  /\ inbox \in [Client -> SUBSET published]
  /\ holding \in [Client -> published \cup {None}]
  /\ out \in [Client -> 0 .. OutSize]
  /\ unacked \in [Client -> SUBSET published]
  /\ relayed \subseteq published /\ givenBack \subseteq published

\* The broker library is a relay: once no copy of a message is left it comes
\* again only if a channel that was closed gave it back, and with auto-ack never.
LibraryIsRelay == LibraryRelay!Spec
=============================================================================
