------------------------- MODULE RabbitPublisherProofs -------------------------
(***************************************************************************)
(* What holds of the input side of a RabbitMQ channel for any instances,      *)
(* messages, retries and lost connections.                                   *)
(*                                                                          *)
(* Everything rests on ClosedStays: an AMQP channel that is closed is never   *)
(* open again, because a new connection has a new number and an instance that *)
(* stopped does not start again.                                            *)
(***************************************************************************)
EXTENDS RabbitPublisher, TLAPS

\* A message whose goroutine was started has that goroutine's channel, and the
\* goroutine has tries left.
HasChannel ==
  \A m \in Message :
    /\ place[m] \in {"publishing", "published", "dropped"} =>
         pubCh[m] \in Instance \X (0 .. connection)
    /\ place[m] = "publishing" => tries[m] <= MaxRetryPolicy

\* A message that arrived is not on its way any more, or on a closed channel.
ArrivedOnce ==
  \A m \in Message :
    /\ arrived[m] \in {0, 1}
    /\ arrived[m] = 1 => \/ place[m] \in {"published", "dropped"}
                         \/ place[m] = "publishing" /\ ~Usable(pubCh[m])

\* A message whose goroutine ended well without arriving was on a channel that is
\* closed now.
PublishedOrLost ==
  \A m \in Message : place[m] = "published" /\ arrived[m] = 0 => ~Usable(pubCh[m])

\* The channel that a late message met is closed, and its instance is in its
\* select only once it has opened another.
LateIsPast ==
  \A x \in late : /\ ~Alive(x[1], x[2])
                  /\ inst[x[1]] = "selecting" => ch[x[1]] # x[2]

IInv ==
  /\ TypeOK /\ HasChannel /\ ArrivedOnce /\ DroppedOnClosed /\ PublishedOrLost
  /\ LateIsPast /\ OneLatePerChannel

LEMMA InitIInv == Init => IInv
<1> SUFFICES ASSUME Init PROVE IInv
  BY Zenon
<1> USE DEF Init, ConnectionInit
<1>1. ConnectionTypeOK
  <2>1. up \in BOOLEAN /\ done \in BOOLEAN
    BY Zenon
  <2> QED BY <2>1 DEF ConnectionTypeOK, WatcherState, InstanceState
<1>2. TypeOK
  BY <1>1, PublisherAssumption DEF TypeOK, Place
<1>3. HasChannel /\ DroppedOnClosed /\ PublishedOrLost
  BY Zenon DEF HasChannel, DroppedOnClosed, PublishedOrLost, At
<1>4. ArrivedOnce
  BY DEF ArrivedOnce
<1>5. LateIsPast /\ OneLatePerChannel
  BY Zenon DEF LateIsPast, OneLatePerChannel
<1> QED BY <1>2, <1>3, <1>4, <1>5, Zenon DEF IInv

-----------------------------------------------------------------------------
(* The connection *)

\* The connection keeps its types, whatever else happens; its number only grows.
LEMMA ConnectionTypes ==
  ASSUME NEW next \in InstanceState, ConnectionTypeOK, ConnectionStep(next)
  PROVE  ConnectionTypeOK' /\ connection' \in Nat /\ connection <= connection'
<1> USE DEF ConnectionTypeOK, WatcherState, InstanceState
<1>1. CASE NotifyClose
  <2>1. CASE Panic
    <3>1. up' \in BOOLEAN
      BY <2>1, Zenon DEF Panic
    <3> QED BY <2>1, <3>1 DEF Panic
  <2>2. CASE ~Panic
    BY <1>1, <2>2 DEF NotifyClose
  <2> QED BY <2>1, <2>2, Zenon
<1>2. CASE Connect
  <2>1. connection' = connection + 1 /\ UNCHANGED <<inst, ch, done>> /\ up' = TRUE /\ watcher' = "registering"
    BY <1>2, Zenon DEF Connect
  <2>2. \A i \in Instance : ch[i] \in 0 .. connection + 1
    OBVIOUS
  <2>3. ch' \in [Instance -> 0 .. connection']
    BY <2>1, <2>2, Zenon
  <2> QED BY <2>1, <2>3
<1>3. CASE ConnectionClosed \/ WatcherStops
  BY <1>3 DEF ConnectionClosed, WatcherStops
<1>4. CASE ConnectionLost \/ CloseDone
  <2>1. up' \in BOOLEAN /\ done' \in BOOLEAN
    BY <1>4, Zenon DEF ConnectionLost, CloseDone
  <2> QED BY <1>4, <2>1 DEF ConnectionLost, CloseDone
<1>5. ASSUME NEW i \in Instance, WaitForConnection(i) \/ OpenChannel(i, next)
      PROVE  ConnectionTypeOK' /\ connection' \in Nat /\ connection <= connection'
  BY <1>5 DEF WaitForConnection, OpenChannel
<1>6. ASSUME NEW i \in Instance, IsClosed(i) \/ SelectDone(i) \/ callMeNextTime(i)
      PROVE  ConnectionTypeOK' /\ connection' \in Nat /\ connection <= connection'
  BY <1>6 DEF IsClosed, SelectDone, callMeNextTime
<1> QED BY <1>1, <1>2, <1>3, <1>4, <1>5, <1>6, Zenon DEF ConnectionStep, WatcherStep, InstanceStep

\* A closed AMQP channel stays closed: a new connection has a new number, and an
\* instance that stopped does not start again.
LEMMA ClosedStays ==
  ASSUME NEW next \in InstanceState, ConnectionTypeOK, ConnectionStep(next),
         NEW i \in Instance, NEW c \in 0 .. connection, ~Alive(i, c)
  PROVE  ~Alive(i, c)'
<1> USE DEF ConnectionTypeOK, Alive
<1>1. CASE NotifyClose
  BY <1>1, Zenon DEF NotifyClose, Panic
<1>2. CASE ConnectionClosed \/ Connect \/ WatcherStops \/ ConnectionLost \/ CloseDone
  BY <1>2 DEF ConnectionClosed, Connect, WatcherStops, ConnectionLost, CloseDone
<1>3. ASSUME NEW j \in Instance, WaitForConnection(j) \/ OpenChannel(j, next) PROVE ~Alive(i, c)'
  BY <1>3, Zenon DEF WaitForConnection, OpenChannel
<1>4. ASSUME NEW j \in Instance, IsClosed(j) \/ SelectDone(j) \/ callMeNextTime(j) PROVE ~Alive(i, c)'
  BY <1>4, Zenon DEF IsClosed, SelectDone, callMeNextTime
<1> QED BY <1>1, <1>2, <1>3, <1>4, Zenon DEF ConnectionStep, WatcherStep, InstanceStep

\* An instance that comes to its select has an open channel.
LEMMA SelectsOnOpen ==
  ASSUME ConnectionTypeOK, ConnectionStep("checking"), NEW i \in Instance, inst'[i] = "selecting"
  PROVE  /\ ch'[i] = ch[i]
         /\ inst[i] = "selecting" \/ Alive(i, ch[i])
<1> USE DEF ConnectionTypeOK
<1>1. CASE NotifyClose
  BY <1>1, Zenon DEF NotifyClose, Panic
<1>2. CASE ConnectionClosed \/ Connect \/ WatcherStops \/ ConnectionLost \/ CloseDone
  BY <1>2, Zenon DEF ConnectionClosed, Connect, WatcherStops, ConnectionLost, CloseDone
<1>3. ASSUME NEW j \in Instance, WaitForConnection(j) \/ OpenChannel(j, "checking")
      PROVE  ch'[i] = ch[i] /\ inst[i] = "selecting"
  BY <1>3, Zenon DEF WaitForConnection, OpenChannel
<1>4. ASSUME NEW j \in Instance, IsClosed(j) \/ SelectDone(j) \/ callMeNextTime(j)
      PROVE  ch'[i] = ch[i] /\ (inst[i] = "selecting" \/ Alive(i, ch[i]))
  BY <1>4, Zenon DEF IsClosed, SelectDone, callMeNextTime
<1> QED BY <1>1, <1>2, <1>3, <1>4, Zenon DEF ConnectionStep, WatcherStep, InstanceStep

\* What is known of closed channels and of past ones survives a step of the
\* connection that leaves the messages alone.
LEMMA ConnectionKeeps ==
  ASSUME IInv, ConnectionStep("checking"), UNCHANGED publisherVars
  PROVE  IInv'
<1> USE DEF IInv, publisherVars
<1>1. ConnectionTypeOK /\ ConnectionTypeOK' /\ connection \in Nat /\ connection' \in Nat /\ connection <= connection'
  BY ConnectionTypes, Zenon DEF InstanceState, TypeOK, ConnectionTypeOK
<1>2. 0 .. connection \subseteq 0 .. connection'
  BY <1>1
<1>3. TypeOK'
  <2>1. pubCh' \in [Message -> {NoChannel} \cup (Instance \X (0 .. connection'))]
    BY <1>2, Zenon DEF TypeOK
  <2>2. late' \subseteq Instance \X (0 .. connection') \X Message
    BY <1>2, Zenon DEF TypeOK
  <2> QED BY <1>1, <2>1, <2>2, Zenon DEF TypeOK
<1>4. HasChannel'
  BY <1>2, Zenon DEF HasChannel
<1>5. ASSUME NEW m \in Message, place[m] \in {"publishing", "published", "dropped"}, ~Usable(pubCh[m])
      PROVE  ~Usable(pubCh[m])'
  <2>1. pubCh[m] \in Instance \X (0 .. connection)
    BY <1>5, Zenon DEF HasChannel
  <2> QED BY <1>1, <1>5, <2>1, ClosedStays, Zenon DEF InstanceState, Usable
<1>6. ArrivedOnce'
  BY <1>5, Zenon DEF ArrivedOnce
<1>7. DroppedOnClosed' /\ PublishedOrLost'
  BY <1>5, Zenon DEF DroppedOnClosed, PublishedOrLost, At
<1>8. LateIsPast'
  <2> SUFFICES ASSUME NEW x \in late
               PROVE  ~Alive(x[1], x[2])' /\ (inst'[x[1]] = "selecting" => ch'[x[1]] # x[2])
    BY Zenon DEF LateIsPast
  <2>1. x[1] \in Instance /\ x[2] \in 0 .. connection /\ ~Alive(x[1], x[2])
    BY Zenon DEF TypeOK, LateIsPast
  <2>2. ~Alive(x[1], x[2])'
    BY <1>1, <2>1, ClosedStays, Zenon DEF InstanceState
  <2>3. ASSUME inst'[x[1]] = "selecting" PROVE ch'[x[1]] # x[2]
    BY <1>1, <2>1, <2>3, SelectsOnOpen, Zenon DEF LateIsPast
  <2> QED BY <2>2, <2>3, Zenon
<1>9. OneLatePerChannel'
  BY Zenon DEF OneLatePerChannel
<1> QED BY <1>3, <1>4, <1>6, <1>7, <1>8, <1>9, Zenon

-----------------------------------------------------------------------------
(* The messages *)

\* Taking a message: it starts without tries, and if its channel is closed no
\* message was late for that channel before.
LEMMA SelectKeeps ==
  ASSUME IInv, NEW i \in Instance, NEW m \in Message, SelectMessage(i, m)
  PROVE  IInv'
<1> USE DEF IInv
<1>1. ch[i] \in 0 .. connection /\ inst' = [inst EXCEPT ![i] = "checking"] /\ inst[i] = "selecting"
  BY Zenon DEF TypeOK, ConnectionTypeOK, SelectMessage
<1>2. ConnectionTypeOK'
  BY <1>1, Zenon DEF SelectMessage, TypeOK, ConnectionTypeOK, InstanceState
<1>3. ASSUME NEW j \in Instance, NEW c PROVE Alive(j, c)' <=> Alive(j, c)
  BY <1>1, Zenon DEF SelectMessage, TypeOK, ConnectionTypeOK, Alive
<1>4. pubCh' = [pubCh EXCEPT ![m] = <<i, ch[i]>>] /\ <<i, ch[i]>> \in Instance \X (0 .. connection)
  BY <1>1, Zenon DEF SelectMessage
<1>5. late' = late \/ (late' = late \cup {<<i, ch[i], m>>} /\ ~Alive(i, ch[i]))
  BY Zenon DEF SelectMessage
<1>6. TypeOK'
  <2>1. late' \subseteq Instance \X (0 .. connection) \X Message
    BY <1>1, <1>5 DEF TypeOK
  <2>2. place' \in [Message -> Place] /\ tries' \in [Message -> 0 .. MaxRetryPolicy + 1]
    BY PublisherAssumption DEF SelectMessage, TypeOK, Place
  <2>3. pubCh' \in [Message -> {NoChannel} \cup (Instance \X (0 .. connection))]
    BY <1>4, Zenon DEF TypeOK
  <2> QED BY <1>2, <2>1, <2>2, <2>3, Zenon DEF TypeOK, SelectMessage
<1>7. HasChannel'
  BY <1>4, PublisherAssumption DEF HasChannel, SelectMessage, TypeOK
<1>8. ASSUME NEW n \in Message \ {m} PROVE place'[n] = place[n] /\ pubCh'[n] = pubCh[n]
  BY <1>4, Zenon DEF SelectMessage, TypeOK
<1>9. ASSUME NEW n \in Message \ {m}, place[n] \in {"publishing", "published", "dropped"}
      PROVE  Usable(pubCh[n])' <=> Usable(pubCh[n])
  BY <1>3, <1>8, <1>9, Zenon DEF HasChannel, Usable
<1>10. ArrivedOnce'
  BY <1>8, <1>9, Zenon DEF ArrivedOnce, SelectMessage, TypeOK
<1>11. DroppedOnClosed' /\ PublishedOrLost'
  BY <1>8, <1>9, Zenon DEF DroppedOnClosed, PublishedOrLost, At, SelectMessage, TypeOK
<1>12. \A x \in late : x[1] \in Instance /\ (x[1] # i \/ x[2] # ch[i])
  BY <1>1, Zenon DEF LateIsPast, TypeOK
<1>13. LateIsPast'
  <2> SUFFICES ASSUME NEW x \in late'
               PROVE  ~Alive(x[1], x[2])' /\ (inst'[x[1]] = "selecting" => ch'[x[1]] # x[2])
    BY Zenon DEF LateIsPast
  <2>1. x[1] \in Instance /\ ~Alive(x[1], x[2])
    BY <1>5, <1>12 DEF LateIsPast
  <2>2. inst'[x[1]] = "selecting" => ch'[x[1]] # x[2]
    BY <1>1, <1>5, <1>12, <2>1 DEF LateIsPast, SelectMessage, TypeOK, ConnectionTypeOK
  <2> QED BY <1>3, <2>1, <2>2, Zenon
<1>14. OneLatePerChannel'
  BY <1>5, <1>12 DEF OneLatePerChannel
<1> QED BY <1>6, <1>7, <1>10, <1>11, <1>13, <1>14, Zenon

\* A message enters inputChannel.
LEMMA EnqueueKeeps ==
  ASSUME IInv, NEW m \in Message, Enqueue(m)
  PROVE  IInv'
<1> USE DEF IInv, Enqueue, connectionVars
<1>1. TypeOK'
  BY Zenon DEF TypeOK, ConnectionTypeOK, Place
<1>2. HasChannel'
  BY Zenon DEF HasChannel, TypeOK
<1>3. ArrivedOnce'
  BY Zenon DEF ArrivedOnce, TypeOK, Usable, Alive
<1>4. DroppedOnClosed' /\ PublishedOrLost'
  BY Zenon DEF DroppedOnClosed, PublishedOrLost, At, TypeOK, Usable, Alive
<1>5. LateIsPast' /\ OneLatePerChannel'
  BY Zenon DEF LateIsPast, OneLatePerChannel, Alive
<1> QED BY <1>1, <1>2, <1>3, <1>4, <1>5, Zenon

\* A message is published on an open channel: none of it had arrived before.
LEMMA PublishKeeps ==
  ASSUME IInv, NEW m \in Message, Publish(m)
  PROVE  IInv'
<1> USE DEF IInv, Publish, Publishing, connectionVars
<1>1. arrived[m] = 0
  BY Zenon DEF ArrivedOnce
<1>2. TypeOK'
  BY DEF TypeOK, ConnectionTypeOK, Place
<1>3. HasChannel'
  BY Zenon DEF HasChannel, TypeOK
<1>4. ArrivedOnce'
  BY <1>1 DEF ArrivedOnce, TypeOK, Usable, Alive
<1>5. DroppedOnClosed'
  BY Zenon DEF DroppedOnClosed, At, TypeOK, Usable, Alive
<1>6. PublishedOrLost'
  BY <1>1 DEF PublishedOrLost, TypeOK, Usable, Alive
<1>7. LateIsPast' /\ OneLatePerChannel'
  BY Zenon DEF LateIsPast, OneLatePerChannel, Alive
<1> QED BY <1>2, <1>3, <1>4, <1>5, <1>6, <1>7, Zenon

\* What Retry does to the types: the last try drops the message.
LEMMA RetryTypes ==
  ASSUME TypeOK, HasChannel, NEW m \in Message, place[m] = "publishing", Retry(m)
  PROVE  /\ tries' \in [Message -> 0 .. MaxRetryPolicy + 1]
         /\ place' \in [Message -> Place]
         /\ place'[m] \in {"publishing", "dropped"}
         /\ place'[m] = "publishing" => tries'[m] <= MaxRetryPolicy
         /\ \A n \in Message \ {m} : place'[n] = place[n] /\ tries'[n] = tries[n]
         /\ pubCh' = pubCh /\ late' = late
<1>1. tries[m] \in 0 .. MaxRetryPolicy
  BY PublisherAssumption DEF TypeOK, HasChannel
<1>2. tries' = [tries EXCEPT ![m] = tries[m] + 1] /\ tries[m] + 1 \in 0 .. MaxRetryPolicy + 1
  BY <1>1, PublisherAssumption DEF Retry
<1>3. place' = [place EXCEPT ![m] = IF tries[m] + 1 > MaxRetryPolicy THEN "dropped" ELSE "publishing"]
  BY Zenon DEF Retry
<1> QED BY <1>1, <1>2, <1>3, PublisherAssumption DEF TypeOK, Place, Retry

\* A failed attempt on a closed channel leaves everything else alone.
LEMMA PublishFailsKeeps ==
  ASSUME IInv, NEW m \in Message, PublishFails(m)
  PROVE  IInv'
<1> USE DEF IInv
<1>1. place[m] = "publishing" /\ ~Usable(pubCh[m]) /\ Retry(m) /\ arrived' = arrived /\ UNCHANGED connectionVars
  BY Zenon DEF PublishFails, Publishing
<1>2. TypeOK'
  BY <1>1, RetryTypes, Zenon DEF TypeOK, ConnectionTypeOK, connectionVars
<1>3. HasChannel'
  BY <1>1, RetryTypes, Zenon DEF HasChannel, connectionVars
<1>4. \A c : Usable(c)' <=> Usable(c)
  BY <1>1, Zenon DEF Usable, Alive, connectionVars
<1>5. ArrivedOnce'
  BY <1>1, <1>4, RetryTypes DEF ArrivedOnce, Usable, Alive, connectionVars
<1>6. DroppedOnClosed'
  BY <1>1, <1>4, RetryTypes DEF DroppedOnClosed, At, Usable, Alive, connectionVars
<1>7. PublishedOrLost'
  BY <1>1, <1>4, RetryTypes DEF PublishedOrLost
<1>8. LateIsPast' /\ OneLatePerChannel'
  BY <1>1, RetryTypes, Zenon DEF LateIsPast, OneLatePerChannel, Alive, connectionVars
<1> QED BY <1>2, <1>3, <1>5, <1>6, <1>7, <1>8, Zenon

\* Once the connection is lost no channel is open, whatever became of a message.
LEMMA LostKeeps ==
  ASSUME IInv, ConnectionLost, UNCHANGED late
  PROVE  /\ ConnectionTypeOK' /\ connection' = connection
         /\ \A c : ~Usable(c)'
         /\ LateIsPast' /\ OneLatePerChannel'
<1>1. ConnectionTypeOK' /\ connection' = connection
  BY ConnectionTypes, Zenon DEF ConnectionLost, ConnectionStep, InstanceState, IInv, TypeOK
<1>2. \A c : ~Usable(c)'
  BY Zenon DEF ConnectionLost, Usable, Alive
<1>3. LateIsPast' /\ OneLatePerChannel'
  BY Zenon DEF ConnectionLost, Alive, IInv, LateIsPast, OneLatePerChannel
<1> QED BY <1>1, <1>2, <1>3, Zenon

\* A message that was written to a connection that is then lost.
LEMMA UnnoticedKeeps ==
  ASSUME IInv, NEW m \in Message, PublishUnnoticed(m)
  PROVE  IInv'
<1> USE LostKeeps DEF IInv, PublishUnnoticed
<1>1. TypeOK'
  BY Zenon DEF TypeOK, Place
<1>2. HasChannel'
  BY Zenon DEF HasChannel, TypeOK, Publishing
<1>3. ArrivedOnce'
  BY Zenon DEF ArrivedOnce, TypeOK
<1>4. DroppedOnClosed' /\ PublishedOrLost'
  BY Zenon DEF DroppedOnClosed, PublishedOrLost
<1> QED BY <1>1, <1>2, <1>3, <1>4, Zenon

\* An attempt that arrived and still reported an error has broken the
\* connection: the retries of the message all meet a closed channel.
LEMMA BreaksKeeps ==
  ASSUME IInv, NEW m \in Message, PublishBreaks(m)
  PROVE  IInv'
<1> USE DEF IInv
<1>1. place[m] = "publishing" /\ Usable(pubCh[m]) /\ Retry(m) /\ ConnectionLost
  BY Zenon DEF PublishBreaks, Publishing
<1>2. arrived[m] = 0
  BY <1>1, Zenon DEF ArrivedOnce
<1>3. /\ \A n \in Message \ {m} : arrived'[n] = arrived[n]
      /\ arrived'[m] \in {0, 1} /\ arrived' \in [Message -> Nat]
  BY <1>2 DEF PublishBreaks, TypeOK
<1>4. UNCHANGED late
  BY <1>1, Zenon DEF Retry
<1> USE <1>1, <1>3, <1>4, LostKeeps, RetryTypes
<1>5. TypeOK'
  BY Zenon DEF TypeOK
<1>6. HasChannel'
  BY Zenon DEF HasChannel
<1>7. ArrivedOnce'
  BY ZenonT(40) DEF ArrivedOnce
<1>8. DroppedOnClosed' /\ PublishedOrLost'
  BY Zenon DEF DroppedOnClosed, PublishedOrLost
<1> QED BY <1>5, <1>6, <1>7, <1>8, Zenon

-----------------------------------------------------------------------------

LEMMA Inductive == Spec => []IInv
<1>1. ASSUME IInv, [Next]_vars PROVE IInv'
  <2> USE <1>1
  <2>1. ASSUME ConnectionStep("checking"), UNCHANGED publisherVars PROVE IInv'
    BY <2>1, ConnectionKeeps, Zenon
  <2>2. ASSUME NEW i \in Instance, NEW m \in Message, SelectMessage(i, m) PROVE IInv'
    BY <2>2, SelectKeeps, Zenon
  <2>3. ASSUME NEW m \in Message, Enqueue(m) PROVE IInv'
    BY <2>3, EnqueueKeeps, Zenon
  <2>4. ASSUME NEW m \in Message, PublishStep(m) PROVE IInv'
    BY <2>4, PublishKeeps, PublishFailsKeeps, Zenon DEF PublishStep
  <2>5. ASSUME NEW m \in Message, PublishUnnoticed(m) \/ PublishBreaks(m) PROVE IInv'
    BY <2>5, UnnoticedKeeps, BreaksKeeps, Zenon
  <2>6. CASE UNCHANGED vars
    BY <2>6, Zenon
    DEF vars, connectionVars, publisherVars, IInv, TypeOK, ConnectionTypeOK, HasChannel,
        ArrivedOnce, DroppedOnClosed, PublishedOrLost, LateIsPast, OneLatePerChannel, At, Usable, Alive
  <2> QED BY <2>1, <2>2, <2>3, <2>4, <2>5, <2>6, Zenon DEF Next, ConnectionStep
<1> QED BY InitIInv, <1>1, PTL DEF Spec

\* Every reachable state of the adapter has the declared types; in particular a
\* goroutine of publishToRabbitmq never makes more than MaxRetryPolicy + 1 tries.
THEOREM PublisherTypeCorrect == Spec => []TypeOK
<1>1. IInv => TypeOK
  BY Zenon DEF IInv
<1> QED BY Inductive, <1>1, PTL

\* The retries of publishToRabbitmq never put a second copy of a message in the
\* queue, for any number of retries, instances and lost connections.
THEOREM RetriesDoNotDuplicate == Spec => []NoDuplicates
<1>1. IInv => NoDuplicates
  BY DEF IInv, ArrivedOnce, NoDuplicates
<1> QED BY Inductive, <1>1, PTL

\* publishToRabbitmq gives a message up only on a channel that is closed.
THEOREM GivenUpOnClosed == Spec => []DroppedOnClosed
<1>1. IInv => DroppedOnClosed
  BY Zenon DEF IInv
<1> QED BY Inductive, <1>1, PTL

\* A message that left the adapter, given up or not, is in the queue exactly once
\* unless the channel of its goroutine was closed: without publisher confirms a
\* lost connection is the only thing that costs a message.
THEOREM LossNeedsClosed ==
  Spec => []\A m \in At("published") \cup At("dropped") : arrived[m] = 1 \/ ~Usable(pubCh[m])
<1>1. IInv => \A m \in At("published") \cup At("dropped") : arrived[m] = 1 \/ ~Usable(pubCh[m])
  BY Zenon DEF IInv, ArrivedOnce, DroppedOnClosed, PublishedOrLost, At
<1> QED BY Inductive, <1>1, PTL

\* However often connections are lost, each loss costs an instance of startInput
\* at most one message that it takes for the closed channel.
THEOREM OneLateMessage == Spec => []OneLatePerChannel
<1>1. IInv => OneLatePerChannel
  BY Zenon DEF IInv
<1> QED BY Inductive, <1>1, PTL
=============================================================================
