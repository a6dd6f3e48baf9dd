-------------------------- MODULE InfrastructureProofs -------------------------
(***************************************************************************)
(* The relays implement Relay, step by step, for any number of consumers,     *)
(* clients and messages; and the types of all parts around the services.     *)
(*                                                                          *)
(* The argument needs that a message is in one place at the broker (the       *)
(* queue, or the delivery to one consumer), that a consumer has a copy only   *)
(* while it sends it, and that there is one copy of a message in all as long  *)
(* as no break gave it back.                                                *)
(***************************************************************************)
EXTENDS Infrastructure, ProgramProofs

-----------------------------------------------------------------------------
(* The plain task manager *)

\* The broker has each message in at most one place, and knows of an
\* acknowledgement only for a message that it delivered.
OnePlace ==
  /\ \A c \in Consumer : inflight[c] \notin ready
  /\ \A c, d \in Consumer : c # d /\ inflight[c] = inflight[d] => inflight[c] = None
  /\ \A c \in Consumer : acked[c] => inflight[c] # None

\* A consumer has a copy just while it sends it, and the copy was decoded.
HeldIsSent ==
  \A c \in Consumer : /\ pc[c] = "send" <=> held[c] # None
                      /\ held[c] \notin Garbled \ {None}

\* There is one copy of an event that was not put back: it is sent, or being
\* sent by one consumer, or it was not read.
OneCopy ==
  \A m \in Message \ returned :
    /\ \A c, d \in Consumer : held[c] = m /\ held[d] = m => c = d
    /\ m \in sent => m \notin Held
    /\ m \in sent \cup Held => m \notin ready \cup Delivered(FALSE)

IInv == TypeOK /\ OnePlace /\ HeldIsSent /\ OneCopy

LEMMA InitIInv == Init => IInv
<1> SUFFICES ASSUME Init PROVE IInv
  BY Zenon
<1>1. TypeOK /\ OnePlace /\ HeldIsSent
  BY NoneIsNoMessage, SizeIsPositive DEF Init, TypeOK, OnePlace, HeldIsSent
<1>2. OneCopy
  BY NoneIsNoMessage, Zenon DEF Init, OneCopy, Held
<1> QED BY <1>1, <1>2, Zenon DEF IInv

\* Every action keeps the types.
LEMMA NextTypeOK == IInv /\ [Next]_vars => TypeOK'
<1> SUFFICES ASSUME IInv, [Next]_vars PROVE TypeOK'
  BY Zenon
<1> USE NoneIsNoMessage, SizeIsPositive DEF IInv, TypeOK
<1>1. ASSUME NEW m \in Message, Enqueue(m) PROVE TypeOK'
  BY <1>1, Zenon DEF Enqueue
<1>2. ASSUME NEW c \in Consumer, Consume(c) PROVE TypeOK'
  BY <1>2, Zenon DEF Consume
<1>3. ASSUME NEW c \in Consumer, NEW m \in Message, Deliver(c, m) PROVE TypeOK'
  BY <1>3, Zenon DEF Deliver
<1>4. ASSUME NEW c \in Consumer, Read(c) PROVE TypeOK'
  BY <1>4, Zenon DEF Read
<1>5. ASSUME NEW c \in Consumer, SendEvent(c) PROVE TypeOK'
  BY <1>5 DEF SendEvent, HeldIsSent
<1>6. ASSUME NEW c \in Consumer, WorkerTakes(c) PROVE TypeOK'
  BY <1>6 DEF WorkerTakes
<1>7. ASSUME NEW c \in Consumer, BrokerAcks(c) PROVE TypeOK'
  BY <1>7, Zenon DEF BrokerAcks
<1>0. ASSUME NEW c \in Consumer, Disconnect(c), enqueued' = enqueued
      PROVE  /\ ready' \subseteq enqueued' /\ conn' \in [Consumer -> BOOLEAN]
             /\ inflight' \in [Consumer -> enqueued' \cup {None}]
             /\ acked' \in [Consumer -> BOOLEAN] /\ returned' \subseteq enqueued'
  <2>1. conn' \in [Consumer -> BOOLEAN] /\ acked' \in [Consumer -> BOOLEAN]
    BY <1>0, Zenon DEF Disconnect
  <2>2. inflight' \in [Consumer -> enqueued' \cup {None}]
    BY <1>0, Zenon DEF Disconnect
  <2>3. ready' \subseteq enqueued' /\ returned' \subseteq enqueued'
    BY <1>0, Zenon DEF Disconnect, OnePlace
  <2> QED BY <2>1, <2>2, <2>3, Zenon
<1>8. ASSUME NEW c \in Consumer, ConnectionLost(c) PROVE TypeOK'
  BY <1>0, <1>8, Zenon DEF ConnectionLost
<1>9. ASSUME NEW c \in Consumer, Done(c) PROVE TypeOK'
  <2>1. pc' \in [Consumer -> {"starting", "select", "send", "ended"}]
    BY <1>9, Zenon DEF Done
  <2> QED BY <1>0, <1>9, <2>1, Zenon DEF Done
<1>10. ASSUME NEW c \in Consumer, Crash(c) PROVE TypeOK'
  <2>1. /\ pc' \in [Consumer -> {"starting", "select", "send", "ended"}]
        /\ held' \in [Consumer -> enqueued' \cup {None}]
    BY <1>10, Zenon DEF Crash
  <2>2. waiting' \in [Consumer -> 0 .. ChannelSize]
    BY <1>10 DEF Crash
  <2> QED BY <1>0, <1>10, <2>1, <2>2, Zenon DEF Crash
<1>11. ASSUME NEW c \in Consumer, Restart(c) PROVE TypeOK'
  BY <1>11 DEF Restart
<1>12. CASE UNCHANGED vars
  BY <1>12, Zenon DEF vars
<1> QED BY <1>1, <1>2, <1>3, <1>4, <1>5, <1>6, <1>7, <1>8, <1>9, <1>10, <1>11, <1>12, ZenonT(40) DEF Next

\* Every action keeps each message in one place.
LEMMA NextOnePlace == IInv /\ [Next]_vars => OnePlace'
<1> SUFFICES ASSUME IInv, [Next]_vars PROVE OnePlace'
  BY Zenon
<1> USE NoneIsNoMessage DEF IInv, TypeOK, OnePlace
<1>1. ASSUME NEW m \in Message, Enqueue(m) PROVE OnePlace'
  BY <1>1, Zenon DEF Enqueue
<1>2. ASSUME NEW c \in Consumer, NEW m \in Message, Deliver(c, m) PROVE OnePlace'
  BY <1>2, ZenonT(40) DEF Deliver
<1>3. ASSUME NEW c \in Consumer, Read(c) PROVE OnePlace'
  BY <1>3, Zenon DEF Read
<1>4. ASSUME NEW c \in Consumer, BrokerAcks(c) PROVE OnePlace'
  BY <1>4, Zenon DEF BrokerAcks
<1>5. ASSUME NEW c \in Consumer, Disconnect(c) PROVE OnePlace'
  BY <1>5, Zenon DEF Disconnect
<1>6. ASSUME UNCHANGED <<ready, inflight, acked>> PROVE OnePlace'
  BY <1>6, Zenon
<1> QED BY <1>1, <1>2, <1>3, <1>4, <1>5, <1>6, Zenon
        DEF Next, vars, Consume, SendEvent, WorkerTakes, Restart, ConnectionLost, Done, Crash

\* Every action keeps a copy only where it is being sent.
LEMMA NextHeldIsSent == IInv /\ [Next]_vars => HeldIsSent'
<1> SUFFICES ASSUME IInv, [Next]_vars PROVE HeldIsSent'
  BY Zenon
<1> USE NoneIsNoMessage DEF IInv, TypeOK, HeldIsSent
<1>1. ASSUME NEW c \in Consumer, Consume(c) PROVE HeldIsSent'
  BY <1>1, Zenon DEF Consume
<1>2. ASSUME NEW c \in Consumer, Read(c) PROVE HeldIsSent'
  BY <1>2, Zenon DEF Read
<1>3. ASSUME NEW c \in Consumer, SendEvent(c) PROVE HeldIsSent'
  BY <1>3, Zenon DEF SendEvent
<1>4. ASSUME NEW c \in Consumer, Done(c) PROVE HeldIsSent'
  BY <1>4, Zenon DEF Done
<1>5. ASSUME NEW c \in Consumer, Crash(c) PROVE HeldIsSent'
  BY <1>5, Zenon DEF Crash
<1>6. ASSUME NEW c \in Consumer, Restart(c) PROVE HeldIsSent'
  BY <1>6, Zenon DEF Restart
<1>7. ASSUME UNCHANGED <<pc, held>> PROVE HeldIsSent'
  BY <1>7, Zenon
<1> QED BY <1>1, <1>2, <1>3, <1>4, <1>5, <1>6, <1>7, ZenonT(40)
        DEF Next, vars, Enqueue, Deliver, WorkerTakes, BrokerAcks, ConnectionLost

\* What OneCopy says of one event.
LEMMA OneCopyIs ==
  ASSUME IInv, NEW m \in Message, m \notin returned
  PROVE  /\ \A c, d \in Consumer : held[c] = m /\ held[d] = m => c = d
         /\ \A c \in Consumer : held[c] = m => m \notin sent
         /\ m \in sent \/ (\E c \in Consumer : held[c] = m)
              => m \notin ready /\ \A d \in Consumer : inflight[d] = m => acked[d]
  BY Zenon DEF IInv, TypeOK, OneCopy, Held, Delivered

\* Every action keeps one copy of an event that was not put back: the event is
\* read where it is delivered, and it is put back unread where it was not read.
LEMMA NextOneCopy == IInv /\ [Next]_vars => OneCopy'
<1> SUFFICES ASSUME IInv, [Next]_vars, NEW m \in Message, m \notin returned'
             PROVE  /\ \A c, d \in Consumer : held'[c] = m /\ held'[d] = m => c = d
                    /\ \A c \in Consumer : held'[c] = m => m \notin sent'
                    /\ m \in sent' \/ (\E c \in Consumer : held'[c] = m)
                         => m \notin ready' /\ \A d \in Consumer : inflight'[d] = m => acked'[d]
  BY Zenon DEF OneCopy, Held, Delivered
<1> DEFINE One == /\ \A c, d \in Consumer : held[c] = m /\ held[d] = m => c = d
                  /\ \A c \in Consumer : held[c] = m => m \notin sent
                  /\ m \in sent \/ (\E c \in Consumer : held[c] = m)
                       => m \notin ready /\ \A d \in Consumer : inflight[d] = m => acked[d]
<1>0. m \notin returned => One
  BY OneCopyIs, Zenon
<1>1. ASSUME NEW n \in Message, Enqueue(n) PROVE One'
  BY <1>0, <1>1, NoneIsNoMessage, ZenonT(40) DEF Enqueue, IInv, TypeOK
<1>2. ASSUME NEW c \in Consumer, NEW n \in Message, Deliver(c, n) PROVE One'
  BY <1>0, <1>2, Zenon DEF Deliver, IInv, TypeOK
<1>3. ASSUME NEW c \in Consumer, Read(c) PROVE One'
  <2>1. /\ ~acked[c] /\ acked'[c] /\ \A d \in Consumer \ {c} : acked'[d] = acked[d]
        /\ UNCHANGED <<ready, inflight, sent, returned>>
    BY <1>3, Zenon DEF Read, IInv, TypeOK
  <2>2. CASE inflight[c] \in Garbled
    <3>1. held' = held
      BY <1>3, <2>2, Zenon DEF Read
    <3> QED BY <1>0, <2>1, <3>1, Zenon
  <2>3. CASE inflight[c] \notin Garbled
    <3>1. held'[c] = inflight[c] /\ \A d \in Consumer \ {c} : held'[d] = held[d]
      BY <1>3, <2>3, Zenon DEF Read, IInv, TypeOK
    <3>2. CASE inflight[c] = m
      <4>1. m \notin ready /\ \A d \in Consumer \ {c} : inflight[d] # m
        BY <3>2, NoneIsNoMessage, Zenon DEF IInv, TypeOK, OnePlace
      <4> QED BY <1>0, <2>1, <3>1, <3>2, <4>1, Zenon
    <3>3. CASE inflight[c] # m
      BY <1>0, <2>1, <3>1, <3>3, Zenon
    <3> QED BY <3>2, <3>3, Zenon
  <2> QED BY <2>2, <2>3, Zenon
<1>4. ASSUME NEW c \in Consumer, SendEvent(c) PROVE One'
  BY <1>0, <1>4, NoneIsNoMessage, Zenon DEF SendEvent, IInv, TypeOK
<1>5. ASSUME NEW c \in Consumer, BrokerAcks(c) PROVE One'
  BY <1>0, <1>5, NoneIsNoMessage, Zenon DEF BrokerAcks, IInv, TypeOK
<1>6. ASSUME NEW c \in Consumer, Disconnect(c), sent' = sent,
             \A d \in Consumer : held'[d] = held[d] \/ held'[d] = None
      PROVE  One'
  BY <1>0, <1>6, NoneIsNoMessage, Zenon DEF Disconnect, IInv, TypeOK
<1>7. ASSUME NEW c \in Consumer, ConnectionLost(c) \/ Done(c) \/ Crash(c) PROVE One'
  BY <1>6, <1>7, Zenon DEF ConnectionLost, Done, Crash, IInv, TypeOK
<1>8. ASSUME UNCHANGED <<ready, inflight, acked, held, sent, returned>> PROVE One'
  BY <1>0, <1>8, Zenon
<1> QED BY <1>1, <1>2, <1>3, <1>4, <1>5, <1>7, <1>8, Zenon
        DEF Next, vars, Consume, WorkerTakes, Restart

LEMMA Inductive == Spec => []IInv
<1>1. IInv /\ [Next]_vars => IInv'
  BY NextTypeOK, NextOnePlace, NextHeldIsSent, NextOneCopy, Zenon DEF IInv
<1> QED BY InitIInv, <1>1, PTL DEF Spec

\* Every variable keeps its type, for any set of consumers and events.
THEOREM PlainTypeCorrect == Spec => []TypeOK
<1>1. IInv => TypeOK
  BY Zenon DEF IInv
<1> QED BY Inductive, <1>1, PTL

-----------------------------------------------------------------------------
(* The step simulation *)

\* What a step that only moves one consumer's delivery does to the sets of
\* deliveries: by OnePlace no other consumer has the same message.
LEMMA DeliveredOthers ==
  ASSUME IInv, NEW c \in Consumer, NEW m \in Message, inflight[c] = m
  PROVE  /\ m \notin ready
         /\ \A d \in Consumer \ {c} : inflight[d] # m
  BY NoneIsNoMessage, Zenon DEF IInv, TypeOK, OnePlace

\* A step that leaves the deliveries, the copies and the histories alone is a
\* stuttering step of the relay.
LEMMA Stutters ==
  ASSUME UNCHANGED <<enqueued, ready, inflight, acked, held, sent, returned>>
  PROVE  UNCHANGED R!relayVars
  BY Zenon DEF R!relayVars, Delivered, Held

\* Enqueue publishes one event, which arrives or not.
LEMMA EnqueuePublishes ==
  ASSUME IInv, NEW m \in Message, Enqueue(m)
  PROVE  R!Publish
<1>1. Held' = Held /\ Delivered(TRUE)' = Delivered(TRUE) /\ Delivered(FALSE)' = Delivered(FALSE)
  BY Zenon DEF Enqueue, Held, Delivered
<1>2. PICK arrived \in SUBSET {m} : ready' = ready \cup arrived
  <2>1. CASE ready' = ready
    BY <2>1, ready' = ready \cup {}, {} \in SUBSET {m}, Zenon
  <2>2. CASE ready' = ready \cup {m}
    BY <2>2, {m} \in SUBSET {m}, Zenon
  <2> QED BY <2>1, <2>2, Zenon DEF Enqueue
<1>3. /\ {m} \in SUBSET (Message \ enqueued) /\ enqueued' = enqueued \cup {m}
      /\ UNCHANGED <<sent, returned>>
  BY Zenon DEF Enqueue
<1>4. (ready \cup Delivered(FALSE))' = (ready \cup Delivered(FALSE)) \cup arrived
  BY <1>1, <1>2, Zenon
<1> QED BY <1>1, <1>2, <1>3, <1>4, Zenon DEF R!Publish

\* A delivery moves a message from the queue to a consumer: it stays on offer.
LEMMA DeliverStutters ==
  ASSUME IInv, NEW c \in Consumer, NEW m \in Message, Deliver(c, m)
  PROVE  UNCHANGED R!relayVars
<1> USE NoneIsNoMessage DEF IInv, TypeOK, OnePlace, Deliver
<1>1. ~acked[c] /\ inflight[c] = None /\ inflight'[c] = m /\ acked' = acked
  BY Zenon
<1>2. \A d \in Consumer \ {c} : inflight'[d] = inflight[d]
  BY Zenon
<1>3. Delivered(TRUE)' = Delivered(TRUE)
  BY <1>1, <1>2, SMTT(30) DEF Delivered
<1>4. Delivered(FALSE)' = Delivered(FALSE) \cup {m}
  <2>1. m \in Delivered(FALSE)'
    BY <1>1 DEF Delivered
  <2>2. ASSUME NEW n \in Message, n # m PROVE n \in Delivered(FALSE)' <=> n \in Delivered(FALSE)
    BY <1>1, <1>2, <2>2, Zenon DEF Delivered
  <2> QED BY <2>1, <2>2, SMTT(30) DEF Delivered
<1>5. Held' = Held
  BY Zenon DEF Held
<1>6. m \in ready /\ ready' = ready \ {m} /\ UNCHANGED <<enqueued, sent, returned>>
  BY Zenon
<1> QED BY ONLY <1>3, <1>4, <1>5, <1>6, Zenon DEF R!relayVars

\* Reading takes the message: it is on offer no more, because no other place
\* has it, and it is unsettled until the broker sees the Ack.
LEMMA ReadTakes ==
  ASSUME IInv, NEW c \in Consumer, Read(c)
  PROVE  \E m \in Message : R!Take(m)
<1> DEFINE m == inflight[c]
<1>1. m \in Message /\ ~acked[c] /\ held[c] = None
  BY NoneIsNoMessage, Zenon DEF IInv, TypeOK, HeldIsSent, Read
<1>2. m \notin ready /\ \A d \in Consumer \ {c} : inflight[d] # m
  BY <1>1, DeliveredOthers, Zenon
<1>3. inflight' = inflight /\ acked'[c] /\ \A d \in Consumer \ {c} : acked'[d] = acked[d]
  BY Zenon DEF Read, IInv, TypeOK
<1>4. Delivered(FALSE)' = Delivered(FALSE) \ {m}
  BY <1>1, <1>2, <1>3, Zenon DEF Delivered
<1>5. Delivered(TRUE)' = Delivered(TRUE) \cup {m}
  <2>1. m \in Delivered(TRUE)'
    BY <1>1, <1>3, Zenon DEF Delivered, IInv, TypeOK, Read
  <2>2. ASSUME NEW n \in Message, n # m PROVE n \in Delivered(TRUE)' <=> n \in Delivered(TRUE)
    BY <1>3, <2>2, Zenon DEF Delivered
  <2> QED BY <1>1, <2>1, <2>2, Zenon DEF Delivered
<1>6. m \in Delivered(FALSE)
  BY <1>1, Zenon DEF Delivered, IInv, TypeOK
<1>7. Held' = IF m \in Garbled THEN Held ELSE Held \cup {m}
  <2>1. CASE m \in Garbled
    BY <2>1, Zenon DEF Read, Held
  <2>2. CASE m \notin Garbled
    <3>1. held'[c] = m /\ \A d \in Consumer \ {c} : held'[d] = held[d]
      BY <2>2, Zenon DEF Read, IInv, TypeOK
    <3>2. ASSUME NEW n \in Message, n # m PROVE n \in Held' <=> n \in Held
      BY NoneIsNoMessage, <1>1, <3>1, <3>2, Zenon DEF Held
    <3> QED BY <1>1, <2>2, <3>1, <3>2 DEF Held
  <2> QED BY <2>1, <2>2, Zenon
<1>8. (ready \cup Delivered(FALSE))' = (ready \cup Delivered(FALSE)) \ {m}
  BY <1>2, <1>4, Zenon DEF Read
<1>9. R!Take(m)
  BY <1>5, <1>6, <1>7, <1>8, Zenon DEF R!Take, Read
<1> QED BY <1>1, <1>9, Zenon

\* Sending an event sends a copy; another consumer may have one as well if the
\* event was put back.
LEMMA SendEventSends ==
  ASSUME IInv, NEW c \in Consumer, SendEvent(c)
  PROVE  \E m \in Message : R!Send(m)
<1> DEFINE m == held[c]
<1>1. m \in Message
  BY Zenon DEF IInv, TypeOK, HeldIsSent, SendEvent
<1>2. held'[c] = None /\ \A d \in Consumer \ {c} : held'[d] = held[d]
  BY Zenon DEF SendEvent, IInv, TypeOK
<1>3. ASSUME NEW n \in Message, n # m PROVE n \in Held' <=> n \in Held
  BY NoneIsNoMessage, <1>2, <1>3, Zenon DEF Held
<1>4. m \in Held
  BY <1>1, Zenon DEF Held
<1>5. (m \in returned /\ Held' = Held) \/ Held' = Held \ {m}
  <2>1. CASE m \in Held'
    <3>1. Held' = Held
      BY <1>3, <1>4, <2>1, Zenon DEF Held
    <3>2. PICK d \in Consumer : held'[d] = m
      BY <2>1, Zenon DEF Held
    <3>3. d # c /\ held[d] = m
      BY <1>1, <1>2, <3>2, NoneIsNoMessage, Zenon
    <3> QED BY <1>1, <3>1, <3>3, OneCopyIs, Zenon
  <2>2. CASE m \notin Held'
    BY <1>3, <2>2, Zenon DEF Held
  <2> QED BY <2>1, <2>2, Zenon
<1>6. (ready \cup Delivered(FALSE))' = ready \cup Delivered(FALSE) /\ Delivered(TRUE)' = Delivered(TRUE)
  BY Zenon DEF SendEvent, Delivered
<1>7. R!Send(m)
  BY <1>4, <1>5, <1>6, Zenon DEF R!Send, SendEvent
<1> QED BY <1>1, <1>7, Zenon

\* The acknowledgement settles the message: it was the only delivery of it.
LEMMA BrokerAcksSettles ==
  ASSUME IInv, NEW c \in Consumer, BrokerAcks(c)
  PROVE  \E m \in Message : R!Settle(m)
<1> DEFINE m == inflight[c]
<1>1. m \in Message /\ acked[c] = TRUE
  BY Zenon DEF IInv, TypeOK, BrokerAcks
<1>2. \A d \in Consumer \ {c} : inflight[d] # m
  BY <1>1, DeliveredOthers, Zenon
<1>3. inflight'[c] = None /\ \A d \in Consumer \ {c} : inflight'[d] = inflight[d] /\ acked'[d] = acked[d]
  BY Zenon DEF BrokerAcks, IInv, TypeOK
<1>4. m \in Delivered(TRUE)
  BY <1>1, Zenon DEF Delivered
<1>5. ASSUME NEW n \in Message, n # m, NEW b \in BOOLEAN PROVE n \in Delivered(b)' <=> n \in Delivered(b)
  BY NoneIsNoMessage, <1>3, <1>5, Zenon DEF Delivered
<1>6. m \notin Delivered(TRUE)' /\ m \notin Delivered(FALSE)'
  BY NoneIsNoMessage, <1>1, <1>2, <1>3, Zenon DEF Delivered
<1>7. m \notin Delivered(FALSE)
  BY <1>1, <1>2, Zenon DEF Delivered
<1>8. Delivered(TRUE)' = Delivered(TRUE) \ {m} /\ Delivered(FALSE)' = Delivered(FALSE)
  <2>1. ASSUME NEW n \in Message, n # m
        PROVE  /\ n \in Delivered(TRUE)' <=> n \in Delivered(TRUE)
               /\ n \in Delivered(FALSE)' <=> n \in Delivered(FALSE)
    BY <1>5, <2>1, Zenon
  <2>2. Delivered(TRUE)' = Delivered(TRUE) \ {m}
    <3>1. \A n \in Message : n \in Delivered(TRUE)' <=> n \in Delivered(TRUE) /\ n # m
      BY <1>6, <2>1, Zenon
    <3> QED BY <3>1, Zenon DEF Delivered
  <2>3. Delivered(FALSE)' = Delivered(FALSE)
    <3>1. \A n \in Message : n \in Delivered(FALSE)' <=> n \in Delivered(FALSE)
      BY <1>6, <1>7, <2>1, Zenon
    <3> QED BY <3>1, Zenon DEF Delivered
  <2> QED BY <2>2, <2>3, Zenon
<1>9. Held' = Held
  BY Zenon DEF BrokerAcks, Held
<1>10. R!Settle(m)
  BY <1>4, <1>8, <1>9, Zenon DEF R!Settle, BrokerAcks
<1> QED BY <1>1, <1>10, Zenon

\* A lost connection is a break: a message that was read is offered again, and
\* one that was not stays on offer.
LEMMA DisconnectBreaks ==
  ASSUME IInv, NEW c \in Consumer, Disconnect(c),
         Held' \in SUBSET Held, UNCHANGED <<enqueued, sent>>
  PROVE  R!Break
<1> DEFINE m == inflight[c]
<1>1. inflight'[c] = None /\ \A d \in Consumer \ {c} : inflight'[d] = inflight[d] /\ acked'[d] = acked[d]
  BY Zenon DEF Disconnect, IInv, TypeOK
<1>2. ASSUME NEW n \in Message, n # m, NEW b \in BOOLEAN PROVE n \in Delivered(b)' <=> n \in Delivered(b)
  BY NoneIsNoMessage, <1>1, <1>2, Zenon DEF Delivered
<1>3. CASE m = None
  <2>1. ready' = ready /\ returned' = returned \cup {}
    BY <1>3, Zenon DEF Disconnect, IInv, OnePlace
  <2>2. Delivered(TRUE)' = Delivered(TRUE) /\ Delivered(FALSE)' = Delivered(FALSE)
    <3>1. ASSUME NEW n \in Message
          PROVE  /\ n \in Delivered(TRUE)' <=> n \in Delivered(TRUE)
                 /\ n \in Delivered(FALSE)' <=> n \in Delivered(FALSE)
      BY <1>2, <1>3, NoneIsNoMessage, Zenon
    <3> QED BY <3>1, Zenon DEF Delivered
  <2>3. (ready \cup Delivered(FALSE))' = ((ready \cup Delivered(FALSE)) \ {}) \cup {}
    BY <2>1, <2>2, Zenon
  <2>4. Delivered(TRUE)' \in SUBSET (Delivered(TRUE) \ {})
    BY <2>2, Zenon
  <2>5. {} \in SUBSET Delivered(TRUE) /\ {} \in SUBSET (ready \cup Delivered(FALSE))
    BY Zenon
  <2> QED BY <2>1, <2>3, <2>4, <2>5, Zenon DEF R!Break
<1>4. CASE m # None
  <2>1. m \in Message /\ ready' = ready \cup {m}
    BY <1>4, Zenon DEF Disconnect, IInv, TypeOK
  <2>2. \A d \in Consumer \ {c} : inflight[d] # m
    BY <2>1, DeliveredOthers, Zenon
  <2>3. m \notin Delivered(TRUE)' /\ m \notin Delivered(FALSE)'
    BY NoneIsNoMessage, <1>1, <2>1, <2>2, Zenon DEF Delivered
  <2>4. m \in Delivered(TRUE) \/ m \in Delivered(FALSE)
    BY <2>1, Zenon DEF Delivered, IInv, TypeOK
  <2> DEFINE back == Delivered(TRUE) \cap {m}
  <2>5. (ready \cup Delivered(FALSE))' = ((ready \cup Delivered(FALSE)) \ {}) \cup back
    <3>1. ASSUME NEW n \in Message, n # m PROVE n \in Delivered(FALSE)' <=> n \in Delivered(FALSE)
      BY <1>2, <3>1, Zenon
    <3> QED BY <2>1, <2>3, <2>4, <3>1, ZenonT(40) DEF Delivered
  <2>6. Delivered(TRUE)' \in SUBSET (Delivered(TRUE) \ back)
    <3>1. ASSUME NEW n \in Message, n # m PROVE n \in Delivered(TRUE)' <=> n \in Delivered(TRUE)
      BY <1>2, <3>1, Zenon
    <3> QED BY <2>3, <3>1, Zenon DEF Delivered
  <2>7. returned' = returned \cup back
    <3>1. acked[c] <=> m \in Delivered(TRUE)
      BY <2>1, <2>2, Zenon DEF Delivered, IInv, TypeOK
    <3> QED BY <3>1, Zenon DEF Disconnect
  <2> HIDE DEF back
  <2>8. back \in SUBSET Delivered(TRUE) /\ {} \in SUBSET (ready \cup Delivered(FALSE))
    BY Zenon DEF back
  <2> QED BY <2>5, <2>6, <2>7, <2>8, Zenon DEF R!Break
<1> QED BY <1>3, <1>4, Zenon

\* A process that dies loses its copy.
LEMMA CrashLosesCopy ==
  ASSUME IInv, NEW c \in Consumer, Crash(c)
  PROVE  Held' \in SUBSET Held
<1>1. ASSUME NEW d \in Consumer PROVE held'[d] = held[d] \/ held'[d] = None
  BY Zenon DEF Crash, IInv, TypeOK
<1> QED BY NoneIsNoMessage, <1>1, Zenon DEF Held

\* Each step of the plain task manager is a step of the relay, or none.
LEMMA StepSimulation == IInv /\ [Next]_vars => [R!Next]_(R!relayVars)
<1> SUFFICES ASSUME IInv, [Next]_vars PROVE R!Next \/ UNCHANGED R!relayVars
  BY Zenon
<1>1. ASSUME NEW m \in Message, Enqueue(m) PROVE R!Next
  BY <1>1, EnqueuePublishes, Zenon DEF R!Next
<1>2. ASSUME NEW c \in Consumer, NEW m \in Message, Deliver(c, m) PROVE UNCHANGED R!relayVars
  BY <1>2, DeliverStutters, Zenon
<1>3. ASSUME NEW c \in Consumer, Read(c) PROVE R!Next
  BY <1>3, ReadTakes, Zenon DEF R!Next
<1>4. ASSUME NEW c \in Consumer, SendEvent(c) PROVE R!Next
  BY <1>4, SendEventSends, Zenon DEF R!Next
<1>5. ASSUME NEW c \in Consumer, BrokerAcks(c) PROVE R!Next
  BY <1>5, BrokerAcksSettles, Zenon DEF R!Next
<1>6. ASSUME NEW c \in Consumer, ConnectionLost(c) \/ Done(c) PROVE R!Next
  <2>1. Disconnect(c) /\ UNCHANGED <<enqueued, held, sent>>
    BY <1>6, Zenon DEF ConnectionLost, Done
  <2>2. Held' \in SUBSET Held
    BY <2>1, Zenon DEF Held
  <2> QED BY <2>1, <2>2, DisconnectBreaks, Zenon DEF R!Next
<1>7. ASSUME NEW c \in Consumer, Crash(c) PROVE R!Next
  <2>1. Disconnect(c) /\ UNCHANGED <<enqueued, sent>>
    BY <1>7, Zenon DEF Crash
  <2> QED BY <1>7, <2>1, CrashLosesCopy, DisconnectBreaks, Zenon DEF R!Next
<1>8. ASSUME UNCHANGED <<enqueued, ready, inflight, acked, held, sent, returned>>
      PROVE  UNCHANGED R!relayVars
  BY <1>8, Stutters, Zenon
<1>9. ASSUME NEW c \in Consumer, Consume(c) \/ WorkerTakes(c) \/ Restart(c)
      PROVE  UNCHANGED R!relayVars
  BY <1>8, <1>9, Zenon DEF Consume, WorkerTakes, Restart
<1>10. CASE UNCHANGED vars
  BY <1>8, <1>10, Zenon DEF vars
<1> QED BY <1>1, <1>2, <1>3, <1>4, <1>5, <1>6, <1>7, <1>9, <1>10, Zenon DEF Next

LEMMA InitSimulation == Init => R!Init
<1> SUFFICES ASSUME Init PROVE R!Init
  BY Zenon
<1>1. Held = {} /\ Delivered(TRUE) = {} /\ Delivered(FALSE) = {}
  BY NoneIsNoMessage, Zenon DEF Init, Held, Delivered
<1> QED BY <1>1, Zenon DEF Init, R!Init

\* The plain task manager implements the relay: whatever connections are lost
\* and whatever processes die, task_consumer.go sends an event again only when
\* the broker had not yet processed the Ack written for it.
THEOREM PlainIsRelay == Spec => ImplementsRelay
  BY Inductive, InitSimulation, StepSimulation, PTL DEF Spec, ImplementsRelay, R!Spec

\* Once an event is settled at the broker and no consumer has a copy, no
\* interleaving of crashes, restarts and lost connections sends it again, or
\* for the first time: the Ack before the send is all that kept it.
THEOREM PlainGoneForever == Spec => R!GoneForever
<1> DEFINE Stays == \A m \in Message : R!Gone(m) => R!Gone(m)' /\ (m \in sent' => m \in sent)
<1>1. [R!Next]_(R!relayVars) => [Stays]_(R!relayVars)
  <2> SUFFICES ASSUME R!Next, NEW m \in Message, R!Gone(m)
               PROVE  R!Gone(m)' /\ (m \in sent' => m \in sent)
    BY Zenon
  <2> USE DEF R!Gone
  <2>1. CASE R!Publish
    BY <2>1, Zenon DEF R!Publish
  <2>2. ASSUME NEW n \in Message, R!Take(n) PROVE R!Gone(m)' /\ (m \in sent' => m \in sent)
    BY <2>2, Zenon DEF R!Take
  <2>3. ASSUME NEW n \in Message, R!Send(n) PROVE R!Gone(m)' /\ (m \in sent' => m \in sent)
    BY <2>3, Zenon DEF R!Send
  <2>4. ASSUME NEW n \in Message, R!Settle(n) PROVE R!Gone(m)' /\ (m \in sent' => m \in sent)
    BY <2>4, Zenon DEF R!Settle
  <2>5. CASE R!Break
    BY <2>5, Zenon DEF R!Break
  <2> QED BY <2>1, <2>2, <2>3, <2>4, <2>5, Zenon DEF R!Next
<1>2. IInv /\ [Next]_vars => [Stays]_(R!relayVars)
  BY <1>1, StepSimulation, Zenon
<1> QED BY Inductive, <1>2, PTL DEF Spec, R!GoneForever

\* An event is sent to the workers a second time only if the broker put it back
\* after the consumer had read it, because the connection was lost before the
\* Ack was processed: without a lost connection or a crash, the Ack before the
\* send of task_consumer.go makes it at most once, with any number of consumers.
THEOREM PlainSendsOnce == Spec => []R!SentOnce
<1>1. IInv => R!SentOnce
  BY Zenon DEF IInv, TypeOK, OneCopy, R!SentOnce
<1> QED BY Inductive, <1>1, PTL

-----------------------------------------------------------------------------
(* The broker library *)

\* A message waits for an Ack of at most one client, and not in the queue too.
UnackedOnce ==
  /\ \A c \in Client : unacked[c] \cap stored = {}
  /\ \A c, d \in Client : c # d => unacked[c] \cap unacked[d] = {}

\* A client has a message in its deliveries or sends it.
Has(c, m) == m \in inbox[c] \/ m = holding[c]

\* There is one copy of a message that was not given back: it was sent, or one
\* client has it once, or it is in the queue.
OneCopyEach ==
  \A m \in Message \ givenBack :
    /\ \A c, d \in Client : Has(c, m) /\ Has(d, m) => c = d
    /\ \A c \in Client : Has(c, m) => m \notin relayed \cup stored
    /\ \A c \in Client : m \in inbox[c] => m # holding[c]
    /\ m \in relayed => m \notin stored

\* With auto-ack the broker settles at delivery and has nothing to take back.
SettledAtDelivery == autoAck => givenBack = {} /\ \A c \in Client : unacked[c] = {}

LibraryInv == LibraryTypeOK /\ UnackedOnce /\ OneCopyEach /\ SettledAtDelivery

LEMMA InitLibrary == LibraryInit => LibraryInv
<1> SUFFICES ASSUME LibraryInit PROVE LibraryInv
  BY Zenon
<1>1. out \in [Client -> 0 .. OutSize]
  BY OutSizeAssumption DEF LibraryInit
<1>2. queueExists \in BOOLEAN /\ consuming \in [Client -> BOOLEAN]
  BY Zenon DEF LibraryInit
<1>3. channel \in [Client -> {"new", "open", "closed"}]
  BY Zenon DEF LibraryInit
<1>4. LibraryTypeOK /\ UnackedOnce /\ SettledAtDelivery
  BY <1>1, <1>2, <1>3, Zenon DEF LibraryInit, LibraryTypeOK, UnackedOnce, SettledAtDelivery
<1>5. OneCopyEach
  BY NoneIsNoMessage, Zenon DEF LibraryInit, OneCopyEach, Has
<1> QED BY <1>4, <1>5, Zenon DEF LibraryInv

\* Every action keeps the types.
LEMMA LibraryTypes == LibraryInv /\ [LibraryNext]_libraryVars => LibraryTypeOK'
<1> SUFFICES ASSUME LibraryInv, [LibraryNext]_libraryVars PROVE LibraryTypeOK'
  BY Zenon
<1> USE DEF LibraryInv, LibraryTypeOK, amqpOptions, queueVars, relayGoroutine
<1>1. ASSUME NEW c \in Client, NewRabbitMQBroker(c) PROVE LibraryTypeOK'
  BY <1>1, Zenon DEF NewRabbitMQBroker
<1>2. ASSUME NEW c \in Client, PublishMessage(c) PROVE LibraryTypeOK'
  <2>1. PICK new \in SUBSET (Message \ published) : \E arrived \in SUBSET new :
          published' = published \cup new /\ stored' = stored \cup arrived
    BY <1>2, Zenon DEF PublishMessage
  <2>2. published' \subseteq Message /\ stored' \subseteq published' /\ published \subseteq published'
    BY <2>1, Zenon
  <2>3. inbox' \in [Client -> SUBSET published'] /\ unacked' \in [Client -> SUBSET published']
    BY <1>2, <2>2, Zenon DEF PublishMessage
  <2>4. holding' \in [Client -> published' \cup {None}]
    BY <1>2, <2>2, Zenon DEF PublishMessage
  <2>5. queueExists' \in BOOLEAN
    BY <1>2, Zenon DEF PublishMessage, DeclareExchangeAndBindQueue
  <2> QED BY <1>2, <2>2, <2>3, <2>4, <2>5, Zenon DEF PublishMessage
<1>3. ASSUME NEW c \in Client, Close(c) PROVE LibraryTypeOK'
  <2>1. channel' \in [Client -> {"new", "open", "closed"}]
    BY <1>3, Zenon DEF Close, ChannelCloses
  <2>2. inbox' \in [Client -> SUBSET published']
    BY <1>3, ZenonT(40) DEF Close, ChannelCloses
  <2>3. /\ stored' \subseteq published' /\ queueExists' \in BOOLEAN
        /\ givenBack' \subseteq published'
    BY <1>3, Zenon DEF Close, ChannelCloses
  <2>4. unacked' \in [Client -> SUBSET published']
    BY <1>3, Zenon DEF Close, ChannelCloses
  <2> QED BY <1>3, <2>1, <2>2, <2>3, <2>4, Zenon DEF Close
<1>4. ASSUME NEW c \in Client, ConsumeMessage(c) PROVE LibraryTypeOK'
  <2>1. 0 \in 0 .. OutSize
    BY OutSizeAssumption
  <2>2. channel' \in [Client -> {"new", "open", "closed"}]
    BY <1>4, Zenon DEF ConsumeMessage
  <2>3. consuming' \in [Client -> BOOLEAN]
    BY <1>4, Zenon DEF ConsumeMessage
  <2>4. out' \in [Client -> 0 .. OutSize]
    BY <1>4, <2>1, Zenon DEF ConsumeMessage
  <2> QED BY <1>4, <2>2, <2>3, <2>4, Zenon DEF ConsumeMessage
<1>5. ASSUME NEW c \in Client, NEW m \in Message, DeliverTo(c, m) PROVE LibraryTypeOK'
  <2>1. inbox' \in [Client -> SUBSET published']
    BY <1>5, Zenon DEF DeliverTo
  <2>2. unacked' \in [Client -> SUBSET published']
    BY <1>5, Zenon DEF DeliverTo
  <2> QED BY <1>5, <2>1, <2>2, Zenon DEF DeliverTo
<1>6. ASSUME NEW c \in Client, NEW m \in Message, ReadDelivery(c, m) PROVE LibraryTypeOK'
  <2>1. inbox' \in [Client -> SUBSET published']
    BY <1>6, Zenon DEF ReadDelivery
  <2>2. holding' \in [Client -> published' \cup {None}]
    BY <1>6, Zenon DEF ReadDelivery
  <2> QED BY <1>6, <2>1, <2>2, Zenon DEF ReadDelivery
<1>7. ASSUME NEW c \in Client, SendMessage(c) PROVE LibraryTypeOK'
  <2>1. out[c] + 1 \in 0 .. OutSize
    BY <1>7, OutSizeAssumption DEF SendMessage
  <2>2. out' \in [Client -> 0 .. OutSize]
    BY <1>7, <2>1, Zenon DEF SendMessage
  <2>3. holding' \in [Client -> published' \cup {None}] /\ relayed' \subseteq published'
    BY <1>7, Zenon DEF SendMessage
  <2> QED BY <1>7, <2>2, <2>3, Zenon DEF SendMessage
<1>8. ASSUME NEW c \in Client, CallerTakes(c) PROVE LibraryTypeOK'
  <2>1. out[c] - 1 \in 0 .. OutSize
    BY <1>8, OutSizeAssumption DEF CallerTakes
  <2>2. out' \in [Client -> 0 .. OutSize]
    BY <1>8, <2>1, Zenon DEF CallerTakes
  <2> QED BY <1>8, <2>2, Zenon DEF CallerTakes
<1>9. ASSUME NEW c \in Client, CloseOut(c) PROVE LibraryTypeOK'
  <2>1. consuming' \in [Client -> BOOLEAN]
    BY <1>9, Zenon DEF CloseOut
  <2> QED BY <1>9, <2>1, Zenon DEF CloseOut
<1>10. ASSUME NEW c \in Client, NewClient(c) PROVE LibraryTypeOK'
  BY <1>10, Zenon DEF NewClient
<1>11. CASE UNCHANGED libraryVars
  BY <1>11, Zenon DEF libraryVars
<1> QED BY <1>1, <1>2, <1>3, <1>4, <1>5, <1>6, <1>7, <1>8, <1>9, <1>10, <1>11, ZenonT(40)
        DEF LibraryNext

\* Every action keeps a message without its Ack in one place: only a delivery
\* puts one there, from the queue, and only a channel that closes puts it back.
LEMMA LibraryUnacked == LibraryInv /\ [LibraryNext]_libraryVars => UnackedOnce'
<1> SUFFICES ASSUME LibraryInv, [LibraryNext]_libraryVars PROVE UnackedOnce'
  BY Zenon
<1> USE DEF LibraryInv, LibraryTypeOK, UnackedOnce
<1>1. ASSUME NEW c \in Client, PublishMessage(c) PROVE UnackedOnce'
  BY <1>1, Zenon DEF PublishMessage
<1>2. ASSUME NEW c \in Client, ChannelCloses(c) PROVE UnackedOnce'
  <2>1. unacked'[c] = {} /\ \A d \in Client \ {c} : unacked'[d] = unacked[d]
    BY <1>2, Zenon DEF ChannelCloses
  <2>2. stored' \subseteq stored \cup unacked[c]
    BY <1>2, Zenon DEF ChannelCloses
  <2> QED BY <2>1, <2>2, Zenon
<1>3. ASSUME NEW c \in Client, NEW m \in Message, DeliverTo(c, m) PROVE UnackedOnce'
  <2>1. \A d \in Client \ {c} : unacked'[d] = unacked[d]
    BY <1>3, Zenon DEF DeliverTo
  <2>2. unacked'[c] \subseteq unacked[c] \cup {m} /\ m \in stored /\ stored' = stored \ {m}
    BY <1>3, Zenon DEF DeliverTo
  <2>3. \A d \in Client : unacked'[d] \cap stored' = {}
    BY <2>1, <2>2, Zenon
  <2>4. \A d, e \in Client : d # e => unacked'[d] \cap unacked'[e] = {}
    <3>1. \A d \in Client \ {c} : unacked'[d] \cap unacked'[c] = {}
      BY <2>1, <2>2, ZenonT(40)
    <3> QED BY <2>1, <3>1, Zenon
  <2> QED BY <2>3, <2>4, Zenon
<1>4. ASSUME UNCHANGED <<stored, unacked>> PROVE UnackedOnce'
  BY <1>4, Zenon
<1> QED BY <1>1, <1>2, <1>3, <1>4, Zenon
        DEF LibraryNext, libraryVars, queueVars, NewRabbitMQBroker, Close, ConsumeMessage,
            ReadDelivery, SendMessage, CallerTakes, CloseOut, NewClient

\* Every action keeps one copy of a message that was not given back: a delivery
\* takes it from the queue, and a read from the deliveries.
LEMMA LibraryOneCopy == LibraryInv /\ [LibraryNext]_libraryVars => OneCopyEach'
<1> SUFFICES ASSUME LibraryInv, [LibraryNext]_libraryVars, NEW m \in Message, m \notin givenBack'
             PROVE  /\ \A c, d \in Client : Has(c, m)' /\ Has(d, m)' => c = d
                    /\ \A c \in Client : Has(c, m)' => m \notin relayed' \cup stored'
                    /\ \A c \in Client : m \in inbox'[c] => m # holding'[c]
                    /\ m \in relayed' => m \notin stored'
  BY Zenon DEF OneCopyEach
<1> DEFINE One == /\ \A c, d \in Client : Has(c, m) /\ Has(d, m) => c = d
                  /\ \A c \in Client : Has(c, m) => m \notin relayed \cup stored
                  /\ \A c \in Client : m \in inbox[c] => m # holding[c]
                  /\ m \in relayed => m \notin stored
<1>0. m \notin givenBack => One
  BY Zenon DEF LibraryInv, OneCopyEach
<1>1. ASSUME NEW c \in Client, PublishMessage(c) PROVE One'
  <2>1. PICK new \in SUBSET (Message \ published) : \E arrived \in SUBSET new :
          published' = published \cup new /\ stored' = stored \cup arrived
    BY <1>1, Zenon DEF PublishMessage
  <2>2. UNCHANGED <<inbox, holding, relayed, givenBack>>
    BY <1>1, Zenon DEF PublishMessage, relayGoroutine
  <2>3. m \in stored' => m \in stored \/ m \notin published
    BY <2>1, Zenon
  <2>4. m \notin published => m \notin relayed /\ \A d \in Client : ~Has(d, m)
    BY NoneIsNoMessage, Zenon DEF LibraryInv, LibraryTypeOK, Has
  <2> QED BY <1>0, <2>2, <2>3, <2>4, Zenon DEF Has
<1>2. ASSUME NEW c \in Client, Close(c) PROVE One'
  <2>1. /\ \A d \in Client : inbox'[d] \subseteq inbox[d]
        /\ UNCHANGED <<holding, relayed>>
    BY <1>2, Zenon DEF Close, ChannelCloses, LibraryInv, LibraryTypeOK
  <2>2. m \notin givenBack /\ (m \in stored' => m \in stored)
    BY <1>2, Zenon DEF Close, ChannelCloses
  <2> QED BY <1>0, <2>1, <2>2, Zenon DEF Has
<1>3. ASSUME NEW c \in Client, NEW n \in Message, DeliverTo(c, n) PROVE One'
  <2>1. /\ inbox'[c] = inbox[c] \cup {n} /\ \A d \in Client \ {c} : inbox'[d] = inbox[d]
        /\ n \in stored /\ stored' = stored \ {n}
        /\ UNCHANGED <<holding, relayed, givenBack>>
    BY <1>3, Zenon DEF DeliverTo, LibraryInv, LibraryTypeOK
  <2> QED BY <1>0, <2>1, Zenon DEF Has
<1>4. ASSUME NEW c \in Client, NEW n \in Message, ReadDelivery(c, n) PROVE One'
  <2>1. /\ inbox'[c] = inbox[c] \ {n} /\ \A d \in Client \ {c} : inbox'[d] = inbox[d]
        /\ holding'[c] = n /\ \A d \in Client \ {c} : holding'[d] = holding[d]
        /\ n \in inbox[c]
        /\ UNCHANGED <<stored, relayed, givenBack>>
    BY <1>4, Zenon DEF ReadDelivery, queueVars, LibraryInv, LibraryTypeOK
  <2>2. \A d \in Client : Has(d, m)' => Has(d, m)
    BY <2>1, Zenon DEF Has
  <2>3. \A d \in Client : m \in inbox'[d] => m # holding'[d]
    BY <1>0, <2>1, Zenon
  <2> QED BY <1>0, <2>1, <2>2, <2>3, Zenon
<1>5. ASSUME NEW c \in Client, SendMessage(c) PROVE One'
  <2>1. /\ holding'[c] = None /\ \A d \in Client \ {c} : holding'[d] = holding[d]
        /\ relayed' = relayed \cup {holding[c]}
        /\ UNCHANGED <<inbox, stored, givenBack>>
    BY <1>5, Zenon DEF SendMessage, queueVars, LibraryInv, LibraryTypeOK
  <2>2. \A d \in Client : Has(d, m)' => Has(d, m)
    BY <2>1, NoneIsNoMessage, Zenon DEF Has
  <2>3. ASSUME m = holding[c] PROVE \A d \in Client : ~Has(d, m)'
    BY <1>0, <2>1, <2>3, NoneIsNoMessage, Zenon DEF Has
  <2>4. \A d \in Client : m \in inbox'[d] => m # holding'[d]
    BY <1>0, <2>1, NoneIsNoMessage, Zenon
  <2>5. m \in relayed' => m \in relayed \/ m = holding[c]
    BY <2>1, Zenon
  <2>6. m = holding[c] => Has(c, m)
    BY Zenon DEF Has
  <2> QED BY <1>0, <2>1, <2>2, <2>3, <2>4, <2>5, <2>6, Zenon
<1>6. ASSUME UNCHANGED <<inbox, holding, relayed, stored, givenBack>> PROVE One'
  BY <1>0, <1>6, Zenon DEF Has
<1> QED BY <1>1, <1>2, <1>3, <1>4, <1>5, <1>6, Zenon
        DEF LibraryNext, libraryVars, queueVars, relayGoroutine, NewRabbitMQBroker, ConsumeMessage,
            CallerTakes, CloseOut, NewClient

\* Without an Ack to wait for, nothing is ever given back.
LEMMA LibrarySettled == LibraryInv /\ [LibraryNext]_libraryVars => SettledAtDelivery'
<1> SUFFICES ASSUME LibraryInv, [LibraryNext]_libraryVars PROVE SettledAtDelivery'
  BY Zenon
<1> USE DEF LibraryInv, LibraryTypeOK, SettledAtDelivery, amqpOptions
<1>1. ASSUME NEW c \in Client, Close(c) PROVE SettledAtDelivery'
  <2>1. unacked'[c] = {} /\ \A d \in Client \ {c} : unacked'[d] = unacked[d]
    BY <1>1, Zenon DEF Close, ChannelCloses
  <2>2. givenBack' \subseteq givenBack \cup unacked[c] /\ autoAck' = autoAck
    BY <1>1, Zenon DEF Close, ChannelCloses
  <2> QED BY <2>1, <2>2, Zenon
<1>2. ASSUME NEW c \in Client, NEW m \in Message, DeliverTo(c, m) PROVE SettledAtDelivery'
  BY <1>2, Zenon DEF DeliverTo
<1>3. ASSUME UNCHANGED <<autoAck, unacked, givenBack>> PROVE SettledAtDelivery'
  BY <1>3, Zenon
<1> QED BY <1>1, <1>2, <1>3, Zenon
        DEF LibraryNext, libraryVars, queueVars, NewRabbitMQBroker, PublishMessage, ConsumeMessage,
            ReadDelivery, SendMessage, CallerTakes, CloseOut, NewClient

LEMMA LibraryHolds == LibrarySpec => []LibraryInv
<1>1. LibraryInv /\ [LibraryNext]_libraryVars => LibraryInv'
  BY LibraryTypes, LibraryUnacked, LibraryOneCopy, LibrarySettled, Zenon DEF LibraryInv
<1> QED BY InitLibrary, <1>1, PTL DEF LibrarySpec

-----------------------------------------------------------------------------

LEMMA UnackedIs ==
  /\ \A n : n \in Unacked <=> \E c \in Client : n \in unacked[c]
  /\ \A n : n \in Unacked' <=> \E c \in Client : n \in unacked'[c]
  BY Zenon DEF Unacked

\* Publishing publishes.
LEMMA PublishPublishes ==
  ASSUME NEW c \in Client, PublishMessage(c)
  PROVE  LibraryRelay!Publish
<1>1. Copies' = Copies /\ Unacked' = Unacked /\ UNCHANGED <<relayed, givenBack>>
  BY Zenon DEF PublishMessage, relayGoroutine, Copies, Unacked
<1> QED BY <1>1, Zenon DEF PublishMessage, LibraryRelay!Publish

\* A delivery takes the message from the queue.
LEMMA DeliverTakes ==
  ASSUME LibraryInv, NEW c \in Client, NEW m \in Message, DeliverTo(c, m)
  PROVE  LibraryRelay!Take(m)
<1> USE DEF LibraryInv, LibraryTypeOK
<1>1. inbox'[c] = inbox[c] \cup {m} /\ \A d \in Client \ {c} : inbox'[d] = inbox[d]
  BY Zenon DEF DeliverTo
<1>2. Copies' = Copies \cup {m}
  BY <1>1, Zenon DEF Copies, DeliverTo
<1>3. Unacked' \in {Unacked, Unacked \cup {m}}
  <2>1. CASE autoAck
    BY <2>1, ZenonT(40) DEF Unacked, DeliverTo
  <2>2. CASE ~autoAck
    <3>1. unacked'[c] = unacked[c] \cup {m} /\ \A d \in Client \ {c} : unacked'[d] = unacked[d]
      BY <2>2, Zenon DEF DeliverTo
    <3>2. Unacked' = Unacked \cup {m}
      BY <3>1, UnackedIs, Zenon
    <3> QED BY <3>2, Zenon
  <2> QED BY <2>1, <2>2, Zenon
<1>4. /\ m \in stored /\ stored' = stored \ {m} /\ m \notin {}
      /\ UNCHANGED <<published, relayed, givenBack>>
  BY Zenon DEF DeliverTo
<1> QED BY <1>2, <1>3, <1>4, Zenon DEF LibraryRelay!Take

\* Reading a delivery keeps the copy.
LEMMA ReadStutters ==
  ASSUME LibraryInv, NEW c \in Client, NEW m \in Message, ReadDelivery(c, m)
  PROVE  UNCHANGED LibraryRelay!relayVars
<1> USE DEF LibraryInv, LibraryTypeOK
<1>1. /\ inbox'[c] = inbox[c] \ {m} /\ \A d \in Client \ {c} : inbox'[d] = inbox[d]
      /\ holding'[c] = m /\ \A d \in Client \ {c} : holding'[d] = holding[d]
      /\ m \in inbox[c] /\ holding[c] = None
  BY Zenon DEF ReadDelivery
<1>2. ASSUME NEW n \in Message PROVE n \in Copies' <=> n \in Copies
  BY <1>1, NoneIsNoMessage, ZenonT(40) DEF Copies
<1>3. Copies' = Copies
  BY <1>2, Zenon DEF Copies
<1>4. UNCHANGED <<published, stored, relayed, unacked, givenBack>>
  BY Zenon DEF ReadDelivery, queueVars
<1> QED BY <1>3, <1>4, Zenon DEF LibraryRelay!relayVars, Unacked

\* Sending sends a copy; another client may have one as well if the message was
\* given back.
LEMMA SendMessageSends ==
  ASSUME LibraryInv, NEW c \in Client, SendMessage(c)
  PROVE  \E m \in Message : LibraryRelay!Send(m)
<1> DEFINE m == holding[c]
<1>1. m \in Message /\ m \in Copies
  BY Zenon DEF LibraryInv, LibraryTypeOK, SendMessage, Copies
<1>2. holding'[c] = None /\ \A d \in Client \ {c} : holding'[d] = holding[d]
  BY Zenon DEF LibraryInv, LibraryTypeOK, SendMessage
<1>3. ASSUME NEW n \in Message, n # m PROVE n \in Copies' <=> n \in Copies
  BY <1>2, <1>3, NoneIsNoMessage, Zenon DEF Copies, SendMessage
<1>4. (m \in givenBack /\ Copies' = Copies) \/ Copies' = Copies \ {m}
  <2>1. CASE m \in Copies'
    <3>1. Copies' = Copies
      BY <1>1, <1>3, <2>1, Zenon DEF Copies
    <3>2. PICK d \in Client : m \in inbox[d] \/ m = holding'[d]
      BY <2>1, Zenon DEF Copies, SendMessage
    <3>3. m \in inbox[d] \/ (d # c /\ m = holding[d])
      BY <1>1, <1>2, <3>2, NoneIsNoMessage, Zenon
    <3> QED BY <1>1, <3>1, <3>3, Zenon DEF LibraryInv, OneCopyEach, Has
  <2>2. CASE m \notin Copies'
    BY <1>3, <2>2, Zenon DEF Copies
  <2> QED BY <2>1, <2>2, Zenon
<1>5. /\ relayed' = relayed \cup {m} /\ Unacked' = Unacked
      /\ UNCHANGED <<published, stored, givenBack>>
  BY Zenon DEF SendMessage, queueVars, Unacked
<1>6. LibraryRelay!Send(m)
  BY <1>1, <1>4, <1>5, Zenon DEF LibraryRelay!Send
<1> QED BY <1>1, <1>6, Zenon

\* A channel that closes is a break: what had no Ack goes back to the queue,
\* unless the queue goes with its last consumer.
LEMMA CloseBreaks ==
  ASSUME LibraryInv, NEW c \in Client, Close(c)
  PROVE  LibraryRelay!Break
<1> USE DEF LibraryInv, LibraryTypeOK
<1>1. \A d \in Client : inbox'[d] \subseteq inbox[d]
  BY Zenon DEF Close, ChannelCloses
<1>2. Copies' \in SUBSET Copies
  BY <1>1, Zenon DEF Copies, Close
<1>3. unacked'[c] = {} /\ \A d \in Client \ {c} : unacked'[d] = unacked[d]
  BY Zenon DEF Close, ChannelCloses
<1>4. Unacked' \in SUBSET (Unacked \ unacked[c])
  BY <1>3, UnackedIs, ZenonT(40) DEF UnackedOnce
<1>5. unacked[c] \in SUBSET Unacked
  BY Zenon DEF Unacked
<1>6. UNCHANGED <<published, relayed>>
  BY Zenon DEF Close
<1>7. CASE LastConsumerGone(c)
  <2>1. stored' = (stored \ stored) \cup {} /\ givenBack' = givenBack \cup {}
    BY <1>7, Zenon DEF Close, ChannelCloses
  <2>2. {} \in SUBSET Unacked /\ stored \in SUBSET stored /\ Unacked' \in SUBSET (Unacked \ {})
    BY <1>4, Zenon
  <2> QED BY <1>2, <1>6, <2>1, <2>2, Zenon DEF LibraryRelay!Break
<1>8. CASE ~LastConsumerGone(c)
  <2>1. /\ stored' = (stored \ {}) \cup unacked[c] /\ {} \in SUBSET stored
        /\ givenBack' = givenBack \cup unacked[c]
    BY <1>8, Zenon DEF Close, ChannelCloses
  <2> QED BY <1>2, <1>4, <1>5, <1>6, <2>1, Zenon DEF LibraryRelay!Break
<1> QED BY <1>7, <1>8, Zenon

\* Each step of the broker library is a step of the relay, or none.
LEMMA LibrarySimulation ==
  LibraryInv /\ [LibraryNext]_libraryVars => [LibraryRelay!Next]_(LibraryRelay!relayVars)
<1> SUFFICES ASSUME LibraryInv, [LibraryNext]_libraryVars
             PROVE  LibraryRelay!Next \/ UNCHANGED LibraryRelay!relayVars
  BY Zenon
<1>1. ASSUME NEW c \in Client, PublishMessage(c) PROVE LibraryRelay!Next
  BY <1>1, PublishPublishes, Zenon DEF LibraryRelay!Next
<1>2. ASSUME NEW c \in Client, NEW m \in Message, DeliverTo(c, m) PROVE LibraryRelay!Next
  BY <1>2, DeliverTakes, Zenon DEF LibraryRelay!Next
<1>3. ASSUME NEW c \in Client, NEW m \in Message, ReadDelivery(c, m)
      PROVE  UNCHANGED LibraryRelay!relayVars
  BY <1>3, ReadStutters, Zenon
<1>4. ASSUME NEW c \in Client, SendMessage(c) PROVE LibraryRelay!Next
  BY <1>4, SendMessageSends, Zenon DEF LibraryRelay!Next
<1>5. ASSUME NEW c \in Client, Close(c) PROVE LibraryRelay!Next
  BY <1>5, CloseBreaks, Zenon DEF LibraryRelay!Next
<1>6. ASSUME UNCHANGED <<published, stored, relayed, unacked, inbox, holding, givenBack>>
      PROVE  UNCHANGED LibraryRelay!relayVars
  BY <1>6, Zenon DEF LibraryRelay!relayVars, Copies, Unacked
<1>7. ASSUME NEW c \in Client,
             NewRabbitMQBroker(c) \/ ConsumeMessage(c) \/ CallerTakes(c) \/ CloseOut(c) \/ NewClient(c)
      PROVE  UNCHANGED LibraryRelay!relayVars
  BY <1>6, <1>7, Zenon DEF NewRabbitMQBroker, ConsumeMessage, CallerTakes, CloseOut, NewClient,
                           queueVars, relayGoroutine
<1>8. CASE UNCHANGED libraryVars
  BY <1>6, <1>8, Zenon DEF libraryVars
<1> QED BY <1>1, <1>2, <1>3, <1>4, <1>5, <1>7, <1>8, Zenon DEF LibraryNext

LEMMA InitLibraryRelay == LibraryInit => LibraryRelay!Init
<1> SUFFICES ASSUME LibraryInit PROVE LibraryRelay!Init
  BY Zenon
<1>1. Copies = {} /\ Unacked = {}
  BY NoneIsNoMessage, Zenon DEF LibraryInit, Copies, Unacked
<1> QED BY <1>1, Zenon DEF LibraryInit, LibraryRelay!Init

\* The broker library implements the relay: ConsumeMessage sends nothing that
\* PublishMessage did not publish and, once no copy is left, sends a message
\* again only if a closed channel gave it back, which with auto-ack none does.
THEOREM LibraryRelays == LibrarySpec => LibraryIsRelay
  BY LibraryHolds, InitLibraryRelay, LibrarySimulation, PTL
  DEF LibrarySpec, LibraryIsRelay, LibraryRelay!Spec

\* ConsumeMessage sends a message a second time only if the broker took the
\* delivery back because the channel was closed without an Ack; with auto-ack,
\* the default of NEWAMQPConfig, each message is sent at most once, with any
\* number of clients and whatever channels are closed.
THEOREM LibrarySendsOnce ==
  LibrarySpec => []/\ LibraryRelay!SentOnce
                   /\ autoAck => relayed \cap (stored \cup Copies) = {}
<1>1. LibraryInv => LibraryRelay!SentOnce
  BY Zenon DEF LibraryInv, LibraryTypeOK, OneCopyEach, Has, Copies, LibraryRelay!SentOnce
<1>2. LibraryInv /\ LibraryRelay!SentOnce
        => (autoAck => relayed \cap (stored \cup Copies) = {})
  BY Zenon DEF LibraryInv, SettledAtDelivery, LibraryRelay!SentOnce
<1> QED BY LibraryHolds, <1>1, <1>2, PTL

-----------------------------------------------------------------------------
(* The converter *)

\* No goroutine reads a channel that was never converted.
NoneBefore == memo \/ loops = 0

\* A message is in the one channel, with its goroutine, or in the other.
OneStage ==
  /\ input \cap (converting \cup converted) = {}
  /\ converting \cap converted = {}

ConverterInv == ConverterTypeOK /\ NoneBefore /\ OneStage

LEMMA InitConverter == ConverterInit => ConverterInv
<1> SUFFICES ASSUME ConverterInit PROVE ConverterInv
  BY Zenon
<1>1. loops \in 0 .. 1 /\ calls \in 0 .. MaxCalls /\ output \in 0 .. OutputSize
  BY ConverterAssumption DEF ConverterInit
<1>2. memo \in BOOLEAN /\ stopped \in BOOLEAN
  BY Zenon DEF ConverterInit
<1> QED BY <1>1, <1>2, Zenon DEF ConverterInit, ConverterInv, ConverterTypeOK, NoneBefore,
                                   OneStage

\* A call starts a goroutine only if no call did before.
LEMMA ConvertStep ==
  ASSUME ConverterInv, NEW f, Convert(f)
  PROVE  ConverterInv'
<1>1. calls' \in 0 .. MaxCalls
  BY ConverterAssumption DEF ConverterInv, ConverterTypeOK, Convert
<1>2. loops' \in 0 .. 1
  <2>1. CASE memo
    BY <2>1, Zenon DEF ConverterInv, ConverterTypeOK, Convert
  <2>2. CASE ~memo
    <3>1. loops = 0 /\ loops' = loops + 1
      BY <2>2, Zenon DEF ConverterInv, NoneBefore, Convert
    <3> QED BY <3>1
  <2> QED BY <2>1, <2>2, Zenon
<1>3. memo' /\ memo' \in BOOLEAN
  BY Zenon DEF Convert
<1> QED BY <1>1, <1>2, <1>3, Zenon DEF ConverterInv, ConverterTypeOK, NoneBefore, OneStage, Convert

\* The messages move from the one channel to the other.
LEMMA MessageStep ==
  ASSUME ConverterInv, NEW m \in Message, Put(m) \/ ReadMessage(m) \/ SendConverted(m)
  PROVE  ConverterInv'
<1> USE DEF ConverterInv, ConverterTypeOK, NoneBefore, OneStage
<1>1. CASE Put(m)
  BY <1>1, Zenon DEF Put
<1>2. CASE ReadMessage(m)
  BY <1>2, Zenon DEF ReadMessage
<1>3. CASE SendConverted(m)
  <2>1. output' \in 0 .. OutputSize
    BY <1>3, ConverterAssumption DEF SendConverted
  <2> QED BY <1>3, <2>1, Zenon DEF SendConverted
<1> QED BY <1>1, <1>2, <1>3, Zenon

\* A reader, and the end of the goroutine.
LEMMA StopStep ==
  ASSUME ConverterInv, Get \/ CloseStopped \/ Stop
  PROVE  ConverterInv'
<1> USE DEF ConverterInv, ConverterTypeOK, NoneBefore, OneStage
<1>1. CASE Get
  <2>1. output' \in 0 .. OutputSize
    BY <1>1, ConverterAssumption DEF Get
  <2> QED BY <1>1, <2>1, Zenon DEF Get
<1>2. CASE CloseStopped
  <2>1. stopped' \in BOOLEAN
    BY <1>2, Zenon DEF CloseStopped
  <2> QED BY <1>2, <2>1, Zenon DEF CloseStopped
<1>3. CASE Stop
  <2>1. loops' \in 0 .. 1 /\ loops # 0
    BY <1>3 DEF Stop
  <2> QED BY <1>3, <2>1, Zenon DEF Stop
<1> QED BY <1>1, <1>2, <1>3, Zenon

LEMMA ConverterHolds == ConverterSpec => []ConverterInv
<1>1. ConverterInv /\ [ConverterNext]_converterVars => ConverterInv'
  <2> SUFFICES ASSUME ConverterInv, [ConverterNext]_converterVars PROVE ConverterInv'
    BY Zenon
  <2>1. CASE UNCHANGED converterVars
    BY <2>1, Zenon DEF converterVars, ConverterInv, ConverterTypeOK, NoneBefore, OneStage
  <2> QED BY <2>1, ConvertStep, MessageStep, StopStep, Zenon
          DEF ConverterNext, ConvertToOutputProcessedEventChannel, ConvertToOutputTaskChannel,
              ConvertToInputTaskChannel, ConvertToInputDeliveryTaskChannel
<1> QED BY InitConverter, <1>1, PTL DEF ConverterSpec

-----------------------------------------------------------------------------

\* Each step of the converter is a step of the relay, or none.
LEMMA ConverterSimulation ==
  ConverterInv /\ [ConverterNext]_converterVars
    => [ConverterRelay!Next]_(ConverterRelay!relayVars)
<1> SUFFICES ASSUME ConverterInv, [ConverterNext]_converterVars
             PROVE  ConverterRelay!Next \/ UNCHANGED ConverterRelay!relayVars
  BY Zenon
<1>1. ASSUME NEW m \in Message, Put(m) PROVE ConverterRelay!Next
  <2>1. {m} \in SUBSET (Message \ put) /\ {m} \in SUBSET {m}
    BY <1>1, Zenon DEF Put
  <2>2. ConverterRelay!Publish
    BY <1>1, <2>1, Zenon DEF Put, ConverterRelay!Publish
  <2> QED BY <2>2, Zenon DEF ConverterRelay!Next
<1>2. ASSUME NEW m \in Message, ReadMessage(m) PROVE ConverterRelay!Next
  <2>1. ConverterRelay!Take(m)
    BY <1>2, Zenon DEF ReadMessage, ConverterRelay!Take
  <2> QED BY <2>1, Zenon DEF ConverterRelay!Next
<1>3. ASSUME NEW m \in Message, SendConverted(m) PROVE ConverterRelay!Next
  <2>1. ConverterRelay!Send(m)
    BY <1>3, Zenon DEF SendConverted, ConverterRelay!Send
  <2> QED BY <2>1, Zenon DEF ConverterRelay!Next
<1>4. ASSUME UNCHANGED <<put, input, converting, converted>>
      PROVE  UNCHANGED ConverterRelay!relayVars
  BY <1>4, Zenon DEF ConverterRelay!relayVars
<1> QED BY <1>1, <1>2, <1>3, <1>4, Zenon
        DEF ConverterNext, converterVars, ConvertToOutputProcessedEventChannel,
            ConvertToOutputTaskChannel, ConvertToInputTaskChannel,
            ConvertToInputDeliveryTaskChannel, Convert, Get, CloseStopped, Stop

LEMMA InitConverterRelay == ConverterInit => ConverterRelay!Init
  BY Zenon DEF ConverterInit, ConverterRelay!Init

\* The converter implements the relay: whatever order the goroutines of
\* converter.go run in, they send nothing that was not put in or cannot be
\* converted, and nothing again once no goroutine has it.
THEOREM ConverterRelays == ConverterSpec => ConverterIsRelay
  BY ConverterHolds, InitConverterRelay, ConverterSimulation, PTL
  DEF ConverterSpec, ConverterIsRelay, ConverterRelay!Spec

\* Each message is sent at most once, whatever order the goroutines that
\* converter.go starts for the messages run in: nothing is ever given back.
THEOREM ConverterSendsOnce == ConverterSpec => []ConverterRelay!SentOnce
<1>1. ConverterInv => ConverterRelay!SentOnce
  BY Zenon DEF ConverterInv, ConverterTypeOK, OneStage, ConverterRelay!SentOnce
<1> QED BY ConverterHolds, <1>1, PTL

-----------------------------------------------------------------------------
(* The parts together *)

\* Every variable of every part keeps its type, for any values of the constants.
THEOREM InfrastructureTypeCorrect == InfrastructureSpec => []InfrastructureTypeOK
<1>1. IInv => TypeOK
  BY Zenon DEF IInv
<1>2. LibraryInv => LibraryTypeOK
  BY Zenon DEF LibraryInv
<1>3. ConverterInv => ConverterTypeOK
  BY Zenon DEF ConverterInv
<1>4. LifeInv => LifeTypeOK
  BY Zenon DEF LifeInv
<1>5. TopologyInv => TopologyTypeOK
  BY Zenon DEF TopologyInv
<1>6. DatabaseInv => DatabaseTypeOK
  BY Zenon DEF DatabaseInv
<1>7. CliInv => CliTypeOK
  BY Zenon DEF CliInv
<1> QED BY <1>1, <1>2, <1>3, <1>4, <1>5, <1>6, <1>7, Inductive, LibraryHolds, ConverterHolds,
           LifeHolds, TopologyHolds, DatabaseHolds, CliHolds, PTL
        DEF InfrastructureSpec, InfrastructureTypeOK

\* The plain task manager, the broker library and the converter implement the
\* relay, for any number of consumers, clients and messages.
THEOREM AllImplementRelay == InfrastructureSpec => RelaysImplement
  BY PlainIsRelay, LibraryRelays, ConverterRelays, PTL DEF InfrastructureSpec, RelaysImplement
=============================================================================
