------------------------- MODULE RabbitConsumerProofs -------------------------
(***************************************************************************)
(* What holds of a delivery worker's way from the broker to Worker.Run for *)
(* any instances, messages, buffers and lost connections, through panics   *)
(* and restarts of the process.                                            *)
(*                                                                         *)
(* The broker redelivers a message only when the channel it was sent on is *)
(* closed, so that of the deliveries of one message at most one has        *)
(* an open channel (OneOpen), and a message that waits in the queue has    *)
(* none (Fresh).                                                           *)
(***************************************************************************)
EXTENDS RabbitConsumer, FiniteSetTheorems, TLAPS

\* A goroutine of the process holds the delivery.
Active == {"sending", "output", "decoded", "handed"}

\* A process that panicked holds nothing and does nothing.
Idle ==
  Panicked => /\ ~up
              /\ events = {}
              /\ \A i \in Instance : inst[i] = "dead"
              /\ \A d \in Delivery : stage[d] \notin Active

\* The connection is down only while another loss is allowed for, and instances
\* stop only at shutdown.
Losses ==
  /\ watcher = "reconnecting" => ~up
  /\ ~up /\ ~Panicked => connection < MaxDrops
  /\ \A i \in Instance : inst[i] = "stopped" => done

\* No connection is lost any more: the last one was, and a panic that followed
\* has restarted the process.
NoMoreLosses == MaxDrops = 0 \/ connection > MaxDrops

\* From then on everything happens on the last connection, and nothing panics
\* before shutdown.
Steady ==
  NoMoreLosses =>
    /\ connection = IF MaxDrops = 0 THEN 0 ELSE MaxDrops + 1
    /\ Panicked => done
    /\ \A i \in Instance : inst[i] \in {"consuming", "checking", "selecting"} => ch[i] = connection
    /\ \A d \in Delivery : d[1] \in Message /\ stage[d] \in Active => d[3] = connection

\* No delivery is of a connection yet to come.
Past == \A d \in Delivery : stage[d] # "none" => d[3] <= connection

\* Only messages that decode get as far as EventsChannel.
Decodes ==
  /\ \A d \in Delivery : stage[d] \in {"decoded", "handed"} => d[1] \in Message \ Malformed
  /\ \A d \in events : d[1] \in Message \ Malformed

\* A message in the queue was sent on no channel that is open.
Fresh == \A d \in Delivery : d[1] \in ready /\ Open(d) => stage[d] = "none"

\* A message was sent on one open channel at most.
OneOpen ==
  \A d, e \in Delivery :
    /\ d[1] \in Message /\ d[1] = e[1]
    /\ Open(d) /\ Open(e)
    /\ stage[d] # "none" /\ stage[e] # "none"
    => d = e

\* The broker waits for one acknowledgement of a message at most.
Once == \A u, v \in unacked : u[1] = v[1] => u = v

\* The event of the message is in EventsChannel, or was taken or lost from there.
Accounted(m) == m \in taken \/ m \in lost \/ \E d \in events : d[1] = m

\* What is about to be acknowledged is accounted for, and so is what the
\* acknowledgements on their way are about.
HandedOver ==
  /\ \A d \in Delivery : stage[d] = "handed" => Accounted(d[1])
  /\ \A u \in acks : Accounted(u[1])

\* The deliveries of a message that went as far as EventsChannel, at least.
Handovers(m) == {d \in Delivery : d[1] = m /\ stage[d] \in {"handed", "finished"}}

\* Every event that was handed over belongs to a delivery of its own.
Counted == \A m \in Message : handed[m] <= Cardinality(Handovers(m))

ConnectionInv == Idle /\ Losses /\ Steady

BrokerInv == Past /\ Decodes /\ Fresh /\ OneOpen /\ Once /\ UnackedIsHeld

HistoryInv == HandedOver /\ AckedIsAccounted /\ Counted

IInv == TypeOK /\ ConnectionInv /\ BrokerInv /\ HistoryInv

-----------------------------------------------------------------------------
(* The connection *)

\* The connection keeps its types, whatever else happens; its number only grows.
LEMMA ConnectionTypes ==
  ASSUME NEW next \in InstanceState, ConnectionTypeOK, ConnectionStep(next)
  PROVE  ConnectionTypeOK' /\ connection' \in Nat /\ connection <= connection'
<1> USE DEF ConnectionTypeOK, WatcherState, InstanceState
<1>1. CASE NotifyClose
  <2>1. CASE Panic
    <3>1. up' \in BOOLEAN
      BY <2>1, Zenon DEF Panic
    <3> QED BY <2>1, <3>1 DEF Panic
  <2>2. CASE ~Panic
    BY <1>1, <2>2 DEF NotifyClose
  <2> QED BY <2>1, <2>2, Zenon
<1>2. CASE Connect
  <2>1. connection' = connection + 1 /\ UNCHANGED <<inst, ch, done>> /\ up' = TRUE /\ watcher' = "registering"
    BY <1>2, Zenon DEF Connect
  <2>2. \A i \in Instance : ch[i] \in 0 .. connection + 1
    OBVIOUS
  <2>3. ch' \in [Instance -> 0 .. connection']
    BY <2>1, <2>2, Zenon
  <2> QED BY <2>1, <2>3
<1>3. CASE ConnectionClosed \/ WatcherStops
  BY <1>3 DEF ConnectionClosed, WatcherStops
<1>4. CASE ConnectionLost \/ CloseDone
  <2>1. up' \in BOOLEAN /\ done' \in BOOLEAN
    BY <1>4, Zenon DEF ConnectionLost, CloseDone
  <2> QED BY <1>4, <2>1 DEF ConnectionLost, CloseDone
<1>5. ASSUME NEW i \in Instance, WaitForConnection(i) \/ OpenChannel(i, next)
      PROVE  ConnectionTypeOK' /\ connection' \in Nat /\ connection <= connection'
  BY <1>5 DEF WaitForConnection, OpenChannel
<1>6. ASSUME NEW i \in Instance, IsClosed(i) \/ SelectDone(i) \/ callMeNextTime(i)
      PROVE  ConnectionTypeOK' /\ connection' \in Nat /\ connection <= connection'
  BY <1>6 DEF IsClosed, SelectDone, callMeNextTime
<1> QED BY <1>1, <1>2, <1>3, <1>4, <1>5, <1>6, Zenon DEF ConnectionStep, WatcherStep, InstanceStep

\* A step of an instance leaves the connection and the other instances alone, and
\* no instance that stopped moves.
LEMMA InstanceSteps ==
  ASSUME NEW next \in InstanceState \ {"stopped", "dead"}, ConnectionTypeOK,
         NEW i \in Instance, InstanceStep(i, next)
  PROVE  /\ UNCHANGED <<connection, up, watcher, done>>
         /\ inst[i] \notin {"stopped", "dead"}
         /\ inst'[i] # "dead"
         /\ inst'[i] = "stopped" => SelectDone(i)
         /\ inst'[i] = next /\ next \notin {"waiting", "opening", "pausing", "selecting"}
              => ch'[i] = connection
         /\ next = "consuming" /\ inst'[i] \in {"checking", "selecting"}
              => inst[i] = "checking" /\ ch'[i] = ch[i]
         /\ \A j \in Instance \ {i} : inst'[j] = inst[j] /\ ch'[j] = ch[j]
<1> USE DEF ConnectionTypeOK, InstanceState
<1>1. CASE WaitForConnection(i) \/ OpenChannel(i, next)
  BY <1>1, Zenon DEF WaitForConnection, OpenChannel
<1>2. CASE IsClosed(i) \/ SelectDone(i) \/ callMeNextTime(i)
  BY <1>2, Zenon DEF IsClosed, SelectDone, callMeNextTime
<1> QED BY <1>1, <1>2, Zenon DEF InstanceStep

-----------------------------------------------------------------------------
(* Sets of deliveries *)

LEMMA DeliveriesFinite == IsFiniteSet(Delivery)
<1>1. IsFiniteSet(Connection)
  BY FS_Interval, DropsAssumption DEF Connection
<1>2. IsFiniteSet(Message \cup {Zero})
  BY FS_AddElement, ConsumerAssumption, Zenon
<1>3. IsFiniteSet((Message \cup {Zero}) \X Instance)
  BY <1>2, FS_Product, ConsumerAssumption, Zenon
<1> DEFINE Pairs == ((Message \cup {Zero}) \X Instance) \X Connection
           f == [x \in Pairs |-> <<x[1][1], x[1][2], x[2]>>]
<1>4. IsFiniteSet(Pairs)
  BY <1>1, <1>3, FS_Product, Zenon
<1>5. f \in [Pairs -> Delivery]
  BY Zenon DEF Delivery
<1>6. ASSUME NEW d \in Delivery PROVE \E x \in Pairs : f[x] = d
  <2>1. <<<<d[1], d[2]>>, d[3]>> \in Pairs /\ d = <<d[1], d[2], d[3]>>
    BY DEF Delivery
  <2>2. f[<<<<d[1], d[2]>>, d[3]>>] = <<d[1], d[2], d[3]>>
    BY <2>1, Zenon
  <2> QED BY <2>1, <2>2, Zenon
<1>7. f \in Surjection(Pairs, Delivery)
  BY <1>5, <1>6, Zenon DEF Surjection
<1> HIDE DEF Pairs, f
<1> QED BY <1>4, <1>7, FS_Surjection, Zenon

\* A set of deliveries that grows by one.
LEMMA AddDelivery ==
  ASSUME NEW S \in SUBSET Delivery, NEW T \in SUBSET Delivery, NEW d \in Delivery,
         T \subseteq S \cup {d}
  PROVE  /\ Cardinality(S) \in Nat /\ Cardinality(T) \in Nat
         /\ Cardinality(T) <= Cardinality(S) + 1
<1>1. IsFiniteSet(S) /\ IsFiniteSet(T) /\ IsFiniteSet(S \cup {d})
  BY DeliveriesFinite, FS_Subset, FS_AddElement, Zenon
<1>2. Cardinality(T) <= Cardinality(S \cup {d})
  BY <1>1, FS_Subset, Zenon
<1>3. Cardinality(S \cup {d}) <= Cardinality(S) + 1
  BY <1>1, FS_AddElement, FS_CardinalityType, SMTT(30)
<1> QED BY <1>1, <1>2, <1>3, FS_CardinalityType

\* A set of deliveries that does not grow.
LEMMA FewerDeliveries ==
  ASSUME NEW S \in SUBSET Delivery, NEW T \in SUBSET Delivery, T \subseteq S
  PROVE  /\ Cardinality(S) \in Nat /\ Cardinality(T) \in Nat
         /\ Cardinality(T) <= Cardinality(S)
  BY DeliveriesFinite, FS_Subset, FS_CardinalityType, Zenon

\* Before anything happens.
LEMMA InitIInv == Init => IInv
<1> SUFFICES ASSUME Init PROVE IInv
  BY Zenon
<1> USE ConsumerAssumption, DropsAssumption DEF Init, ConnectionInit
<1>1. ConnectionTypeOK
  <2>1. up \in BOOLEAN /\ done \in BOOLEAN
    BY Zenon
  <2> QED BY <2>1 DEF ConnectionTypeOK, WatcherState, InstanceState
<1>2. At("output") = {} /\ events = {} /\ \A m \in Message : Handovers(m) = {}
  BY Zenon DEF At, Handovers
<1>3. Cardinality(At("output")) = 0 /\ Cardinality(events) = 0
  BY <1>2, FS_EmptySet, Zenon
<1>4. TypeOK
  BY <1>1, <1>3 DEF TypeOK, Connection, Stage
<1>5. ConnectionInv
  BY DEF ConnectionInv, Idle, Losses, Steady, Panicked, Active, NoMoreLosses
<1>6. BrokerInv
  BY Zenon DEF BrokerInv, Past, Decodes, Fresh, OneOpen, Once, UnackedIsHeld
<1>7. HistoryInv
  <2>1. HandedOver /\ AckedIsAccounted
    BY Zenon DEF HandedOver, AckedIsAccounted, Gone
  <2>2. \A m \in Message : handed[m] = 0 /\ Cardinality(Handovers(m)) \in Nat
    BY FewerDeliveries, Zenon DEF Handovers
  <2> QED BY <2>1, <2>2 DEF HistoryInv, Counted
<1> QED BY <1>4, <1>5, <1>6, <1>7, Zenon DEF IInv

-----------------------------------------------------------------------------
(* Steps of the connection *)

\* A step that neither opens nor closes a channel and leaves the deliveries alone.
LEMMA QuietKeeps ==
  ASSUME IInv, ConnectionTypeOK', ConnectionInv',
         UNCHANGED <<connection, up, consumerVars>>,
         \A i \in Instance : inst'[i] = "stopped" <=> inst[i] = "stopped"
  PROVE  IInv'
<1> USE DEF IInv, consumerVars, queue, history
<1>1. ASSUME NEW d \in Delivery PROVE Open(d)' <=> Open(d)
  BY Zenon DEF Open, Alive, Delivery
<1>2. TypeOK'
  BY Zenon DEF TypeOK, At
<1>3. Past' /\ Decodes' /\ Once'
  BY Zenon DEF BrokerInv, Past, Decodes, Once
<1>4. Fresh' /\ OneOpen'
  BY <1>1, Zenon DEF BrokerInv, Fresh, OneOpen
<1>5. UnackedIsHeld'
  <2> SUFFICES ASSUME NEW u \in unacked PROVE Open(<<u[1], u[2], connection>>)'
    BY Zenon DEF BrokerInv, UnackedIsHeld
  <2>1. <<u[1], u[2], connection>> \in Delivery
    BY Zenon DEF TypeOK, Delivery
  <2> QED BY <1>1, <2>1, Zenon DEF BrokerInv, UnackedIsHeld
<1>6. HistoryInv'
  BY Zenon DEF HistoryInv, HandedOver, Accounted, AckedIsAccounted, Gone, Counted, Handovers
<1> QED BY <1>2, <1>3, <1>4, <1>5, <1>6, Zenon DEF BrokerInv

\* All channels close: the broker takes back every message that it waits for.
LEMMA ClosedKeeps ==
  ASSUME IInv, ~up', connection' = connection, GiveBack(Instance, {}),
         \A d \in Delivery : \/ stage'[d] \in {stage[d], "none"}
                             \/ stage[d] # "none" /\ stage'[d] = "finished",
         events' \subseteq events
  PROVE  /\ BrokerInv'
         /\ unacked' = {} /\ acks' = {} /\ ready' \subseteq Message
         /\ \A m \in Message : Gone(m)' => Gone(m)
<1> USE DEF IInv
<1>1. unacked' = {} /\ acks' = {}
  BY Zenon DEF GiveBack, TypeOK
<1>2. ready' \subseteq Message
  BY Zenon DEF GiveBack, TypeOK
<1>3. ASSUME NEW m \in Message, Gone(m)' PROVE Gone(m)
  <2>1. m \notin ready
    BY <1>3, Zenon DEF Gone, GiveBack
  <2>2. ASSUME NEW i \in Instance, <<m, i>> \in unacked PROVE FALSE
    <3>1. <<m, i>> \in {u \in unacked \ {} : u[2] \in Instance}
      BY <2>2, Zenon
    <3>2. m \in ready'
      BY <3>1 DEF GiveBack
    <3> QED BY <1>3, <3>2, Zenon DEF Gone
  <2> QED BY <2>1, <2>2, Zenon DEF Gone
<1>4. \A d : ~Open(d)'
  BY Zenon DEF Open, Alive
<1>5. Past' /\ Decodes'
  BY Zenon DEF BrokerInv, Past, Decodes
<1>6. Fresh' /\ OneOpen' /\ Once' /\ UnackedIsHeld'
  BY <1>1, <1>4, Zenon DEF Fresh, OneOpen, Once, UnackedIsHeld
<1> QED BY <1>1, <1>2, <1>3, <1>5, <1>6, Zenon DEF BrokerInv

\* A new connection: nothing was received on it yet.
LEMMA ReopenedKeeps ==
  ASSUME IInv, ~up, connection' = connection + 1, ConnectionTypeOK', ConnectionInv',
         consumer' \in {"running", "stopped"}, worker' \in {"running", "stopped"},
         UNCHANGED <<queue, stage, events, history>>
  PROVE  IInv'
<1> USE DEF IInv, queue, history
<1>1. unacked = {}
  BY Zenon DEF BrokerInv, UnackedIsHeld, Open, Alive
<1>2. ASSUME NEW d \in Delivery, stage[d] # "none" PROVE ~Open(d)'
  BY <1>2 DEF BrokerInv, Past, Open, Alive, Delivery, Connection, TypeOK, ConnectionTypeOK
<1>3. connection' \in Connection
  BY DropsAssumption DEF ConnectionInv, Steady, NoMoreLosses, Connection, ConnectionTypeOK
<1>4. TypeOK'
  BY <1>3, Zenon DEF TypeOK, At
<1>5. Past' /\ Decodes'
  BY DEF BrokerInv, Past, Decodes, TypeOK, ConnectionTypeOK, Delivery, Connection
<1>6. Fresh' /\ OneOpen'
  BY <1>2, Zenon DEF Fresh, OneOpen
<1>7. Once' /\ UnackedIsHeld'
  BY <1>1, Zenon DEF Once, UnackedIsHeld
<1>8. HistoryInv'
  BY Zenon DEF HistoryInv, HandedOver, Accounted, AckedIsAccounted, Gone, Counted, Handovers
<1> QED BY <1>4, <1>5, <1>6, <1>7, <1>8, Zenon DEF BrokerInv

\* The connection is lost.
LEMMA LoseKeeps == ASSUME IInv, LoseConnection PROVE IInv'
<1> USE DEF IInv, LoseConnection
<1>1. /\ up /\ ~up' /\ connection < MaxDrops
      /\ UNCHANGED <<connection, watcher, inst, ch, done, stage, consumer, worker, events, history>>
  BY Zenon DEF ConnectionLost
<1>2. ConnectionTypeOK'
  BY ConnectionTypes, Zenon DEF ConnectionStep, TypeOK, InstanceState
<1>3. BrokerInv' /\ unacked' = {} /\ acks' = {} /\ ready' \subseteq Message /\ \A m \in Message : Gone(m)' => Gone(m)
  BY <1>1, ClosedKeeps, Zenon
<1>4. TypeOK'
  BY <1>1, <1>2, <1>3, Zenon DEF TypeOK, At, history
<1>5. ConnectionInv'
  BY <1>1, DropsAssumption, Zenon
  DEF ConnectionInv, Idle, Losses, Steady, NoMoreLosses, Panicked, TypeOK, ConnectionTypeOK
<1>6. HistoryInv'
  <2>1. AckedIsAccounted'
    BY <1>1, <1>3, Zenon DEF HistoryInv, AckedIsAccounted, history
  <2> QED BY <1>1, <1>3, <2>1, Zenon DEF HistoryInv, HandedOver, Accounted, Counted, Handovers, history
<1> QED BY <1>3, <1>4, <1>5, <1>6, Zenon

\* The process dies, before shutdown only if that is no surprise: a connection
\* was lost that the process has not put behind it.
LEMMA DieKeeps ==
  ASSUME IInv, Panic, Die, NoMoreLosses => done
  PROVE  IInv'
<1> USE DEF IInv
<1>1. /\ ~up' /\ watcher' = "panicked" /\ UNCHANGED <<connection, ch, done, handed, taken>>
      /\ inst' = [i \in Instance |-> "dead"]
      /\ consumer' = "stopped" /\ worker' = "stopped" /\ events' = {}
      /\ lost' = lost \cup {d[1] : d \in events}
      /\ stage' = [d \in Delivery |-> IF stage[d] \in {"none", "ahead"} THEN "none" ELSE "finished"]
      /\ GiveBack(Instance, {})
  BY Zenon DEF Panic, Die
<1>2. ConnectionTypeOK'
  <2>1. up' \in BOOLEAN
    BY Zenon DEF Panic
  <2> QED BY <1>1, <2>1, Zenon DEF TypeOK, ConnectionTypeOK, WatcherState, InstanceState
<1>3. BrokerInv' /\ unacked' = {} /\ acks' = {} /\ ready' \subseteq Message /\ \A m \in Message : Gone(m)' => Gone(m)
  BY <1>1, ClosedKeeps, Zenon
<1>4. TypeOK'
  <2>1. At("output")' = {}
    BY <1>1, Zenon DEF At
  <2>2. Cardinality(At("output")') = 0 /\ Cardinality(events') = 0
    BY <1>1, <2>1, FS_EmptySet, Zenon
  <2>3. lost' \subseteq Message
    BY <1>1, Zenon DEF TypeOK, BrokerInv, Decodes
  <2>4. stage' \in [Delivery -> Stage]
    BY <1>1, Zenon DEF Stage
  <2>5. /\ ready' \subseteq Message /\ unacked' \subseteq Message \X Instance
        /\ acks' \subseteq Message \X Instance
    BY <1>3, Zenon
  <2>6. connection' \in Connection /\ handed' \in [Message -> Nat] /\ taken' \subseteq Message
    BY <1>1, Zenon DEF TypeOK
  <2> QED BY <1>1, <1>2, <2>2, <2>3, <2>4, <2>5, <2>6, ConsumerAssumption DEF TypeOK
<1>5. ConnectionInv'
  BY <1>1, DropsAssumption, Zenon
  DEF ConnectionInv, Idle, Losses, Steady, NoMoreLosses, Panicked, Active, TypeOK, ConnectionTypeOK
<1>6. HandedOver'
  BY <1>1, <1>3, Zenon DEF HandedOver
<1>7. AckedIsAccounted'
  BY <1>1, <1>3, Zenon DEF HistoryInv, AckedIsAccounted
<1>8. Counted'
  <2> SUFFICES ASSUME NEW m \in Message PROVE handed[m] <= Cardinality(Handovers(m)')
    BY <1>1, Zenon DEF Counted
  <2>1. Handovers(m) \subseteq Handovers(m)' /\ Handovers(m)' \in SUBSET Delivery
    BY <1>1, Zenon DEF Handovers
  <2>2. /\ Cardinality(Handovers(m)) \in Nat /\ Cardinality(Handovers(m)') \in Nat
        /\ Cardinality(Handovers(m)) <= Cardinality(Handovers(m)')
    BY <2>1, FewerDeliveries, Zenon
  <2> QED BY <2>2 DEF HistoryInv, Counted, TypeOK
<1> QED BY <1>3, <1>4, <1>5, <1>6, <1>7, <1>8, Zenon DEF HistoryInv

\* The watcher, and connect.
LEMMA WatchKeeps == ASSUME IInv, Watch PROVE IInv'
<1> USE DEF IInv
<1>0. ConnectionTypeOK'
  BY ConnectionTypes, Zenon DEF Watch, ConnectionStep, TypeOK, InstanceState
<1>1. CASE Connect
  <2>1. /\ watcher = "reconnecting" /\ connection' = connection + 1 /\ up' /\ watcher' = "registering"
        /\ UNCHANGED <<inst, ch, done, consumerVars>>
    BY <1>1, Zenon DEF Connect, Watch
  <2>2. ~up /\ connection < MaxDrops
    BY <2>1, Zenon DEF ConnectionInv, Losses, Panicked
  <2>3. ConnectionInv'
    BY <2>1, <2>2, DropsAssumption
    DEF ConnectionInv, Idle, Losses, Steady, NoMoreLosses, Panicked, TypeOK, ConnectionTypeOK
  <2> QED BY <1>0, <2>1, <2>2, <2>3, ReopenedKeeps, Zenon DEF consumerVars, TypeOK
<1>2. CASE NotifyClose /\ watcher' = "panicked"
  <2>1. Panic /\ Die /\ ~up /\ ~Panicked
    BY <1>2, Zenon DEF NotifyClose, Watch, Panicked
  <2>2. ~NoMoreLosses
    BY <2>1, DropsAssumption DEF ConnectionInv, Losses, NoMoreLosses, TypeOK, ConnectionTypeOK
  <2> QED BY <2>1, <2>2, DieKeeps, Zenon
<1>3. CASE (NotifyClose /\ watcher' # "panicked") \/ ConnectionClosed \/ WatcherStops
  <2>1. /\ UNCHANGED <<connection, up, inst, ch, done, consumerVars>>
        /\ watcher \in {"registering", "watching"}
        /\ watcher' \in {"watching", "stopped", "reconnecting"}
        /\ watcher' = "reconnecting" => ~up
    BY <1>3, Zenon DEF NotifyClose, Panic, ConnectionClosed, WatcherStops, Watch
  <2>2. ConnectionInv'
    BY <2>1, Zenon
    DEF ConnectionInv, Idle, Losses, Steady, NoMoreLosses, Panicked, consumerVars
  <2> QED BY <1>0, <2>1, <2>2, QuietKeeps, Zenon
<1> QED BY <1>1, <1>2, <1>3, Zenon DEF Watch, WatcherStep

\* The process is started again.
LEMMA RestartKeeps == ASSUME IInv, Restart PROVE IInv'
<1> USE DEF IInv
<1>1. /\ Panicked /\ ~done /\ connection' = connection + 1 /\ up' /\ watcher' = "registering"
      /\ inst' = [i \in Instance |-> "starting"]
      /\ consumer' = "running" /\ worker' = "running"
      /\ UNCHANGED <<ch, done, queue, stage, events, history>>
  BY Zenon DEF Restart
<1>2. ~up /\ \A d \in Delivery : stage[d] \notin Active
  BY <1>1, Zenon DEF ConnectionInv, Idle
<1>3. ~NoMoreLosses
  BY <1>1, Zenon DEF ConnectionInv, Steady
<1>4. ConnectionTypeOK'
  <2>1. up' \in BOOLEAN
    BY Zenon DEF Restart
  <2>2. \A i \in Instance : ch[i] \in 0 .. connection + 1
    BY DEF TypeOK, ConnectionTypeOK
  <2>3. ch' \in [Instance -> 0 .. connection']
    BY <1>1, <2>2, Zenon DEF TypeOK, ConnectionTypeOK
  <2> QED BY <1>1, <2>1, <2>3 DEF TypeOK, ConnectionTypeOK, WatcherState, InstanceState
<1>5. ConnectionInv'
  BY <1>1, <1>2, <1>3, DropsAssumption
  DEF ConnectionInv, Idle, Losses, Steady, NoMoreLosses, Panicked, TypeOK, ConnectionTypeOK
<1> QED BY <1>1, <1>2, <1>4, <1>5, ReopenedKeeps, Zenon

\* The main goroutine closes done.
LEMMA CloseDoneKeeps == ASSUME IInv, CloseDone, UNCHANGED consumerVars PROVE IInv'
<1> USE DEF IInv
<1>1. ConnectionTypeOK'
  BY ConnectionTypes, Zenon DEF ConnectionStep, TypeOK, InstanceState
<1>2. UNCHANGED <<connection, up, watcher, inst, ch>> /\ done'
  BY Zenon DEF CloseDone
<1>3. ConnectionInv'
  BY <1>2, Zenon DEF ConnectionInv, Idle, Losses, Steady, NoMoreLosses, Panicked, consumerVars
<1> QED BY <1>1, <1>2, <1>3, QuietKeeps, Zenon

-----------------------------------------------------------------------------
(* Steps of startOutput *)

\* An instance stops: the broker takes back what it was sent and has not
\* acknowledged.
LEMMA StopKeeps ==
  ASSUME IInv, NEW i \in Instance, SelectDone(i), GiveBack({i}, acks),
         UNCHANGED <<stage, consumer, worker, events, history>>
  PROVE  IInv'
<1> USE DEF IInv
<1>1. /\ done /\ inst[i] = "selecting" /\ inst' = [inst EXCEPT ![i] = "stopped"]
      /\ UNCHANGED <<connection, up, watcher, ch, done>>
  BY Zenon DEF SelectDone
<1>2. inst \in [Instance -> InstanceState]
  BY Zenon DEF TypeOK, ConnectionTypeOK
<1>3. ASSUME NEW d \in Delivery PROVE Open(d)' <=> Open(d) /\ d[2] # i
  BY <1>1, <1>2, Zenon DEF Open, Alive, Delivery
<1>4. ConnectionTypeOK'
  BY <1>1, Zenon DEF TypeOK, ConnectionTypeOK, InstanceState
<1>5. ConnectionInv'
  BY <1>1, <1>2, Zenon DEF ConnectionInv, Idle, Losses, Steady, NoMoreLosses, Panicked
<1>6. TypeOK'
  <2>1. /\ ready' \subseteq Message /\ unacked' \subseteq Message \X Instance
        /\ acks' \subseteq Message \X Instance
    BY Zenon DEF GiveBack, TypeOK
  <2> QED BY <1>1, <1>4, <2>1, Zenon DEF TypeOK, At, history
<1>7. Past' /\ Decodes' /\ OneOpen' /\ Once'
  BY <1>1, <1>3, Zenon DEF BrokerInv, Past, Decodes, OneOpen, Once, GiveBack
<1>8. ASSUME NEW m \in ready', m \notin ready
      PROVE  \E u \in unacked \ acks : u[1] = m /\ u[2] = i /\ u = <<m, i>>
  BY <1>8 DEF GiveBack, TypeOK
<1>9. Fresh'
  <2> SUFFICES ASSUME NEW d \in Delivery, d[1] \in ready', Open(d)' PROVE stage[d] = "none"
    BY Zenon DEF Fresh
  <2>1. Open(d) /\ d[2] # i
    BY <1>3, Zenon
  <2>2. CASE d[1] \in ready
    BY <2>1, <2>2, Zenon DEF BrokerInv, Fresh
  <2>3. CASE d[1] \notin ready
    <3>1. <<d[1], i>> \in unacked \ acks
      BY <1>8, <2>3, Zenon
    <3> DEFINE e == <<d[1], i, connection>>
    <3>2. e \in Delivery /\ d[1] \in Message /\ e[1] = d[1] /\ e[2] = i
      BY <3>1, Zenon DEF TypeOK, Delivery
    <3>3. Open(e) /\ stage[e] # "none"
      BY <3>1, Zenon DEF BrokerInv, UnackedIsHeld
    <3>4. stage[d] # "none" => d = e
      BY <2>1, <3>2, <3>3, Zenon DEF BrokerInv, OneOpen
    <3> QED BY <2>1, <3>2, <3>4, Zenon
  <2> QED BY <2>2, <2>3, Zenon
<1>10. UnackedIsHeld'
  <2> SUFFICES ASSUME NEW u \in unacked'
               PROVE  Open(<<u[1], u[2], connection>>)' /\ u[1] \notin ready'
    BY <1>1, Zenon DEF BrokerInv, UnackedIsHeld, GiveBack
  <2>1. u \in unacked /\ u[2] # i
    BY Zenon DEF GiveBack
  <2>2. <<u[1], u[2], connection>> \in Delivery
    BY <2>1, Zenon DEF TypeOK, Delivery
  <2>3. Open(<<u[1], u[2], connection>>)'
    BY <1>1, <1>3, <2>1, <2>2, Zenon DEF BrokerInv, UnackedIsHeld
  <2>4. u[1] \notin ready'
    <3>1. u[1] \notin ready
      BY <2>1, Zenon DEF BrokerInv, UnackedIsHeld
    <3>2. \A v \in unacked : v[1] = u[1] => v = u
      BY <2>1, Zenon DEF BrokerInv, Once
    <3> QED BY <1>8, <2>1, <3>1, <3>2, Zenon
  <2> QED BY <2>3, <2>4, Zenon
<1>11. AckedIsAccounted'
  <2> SUFFICES ASSUME NEW m \in Message, Gone(m)' PROVE Accounted(m)
    BY Zenon DEF AckedIsAccounted, Accounted, history
  <2>1. m \notin ready
    BY Zenon DEF Gone, GiveBack
  <2>2. \A j \in Instance \ {i} : <<m, j>> \notin unacked
    BY Zenon DEF Gone, GiveBack
  <2>3. CASE <<m, i>> \notin unacked
    BY <2>1, <2>2, <2>3, Zenon DEF Gone, HistoryInv, AckedIsAccounted, Accounted
  <2>4. CASE <<m, i>> \in acks
    BY <2>4, Zenon DEF HistoryInv, HandedOver
  <2>5. CASE <<m, i>> \in unacked \ acks
    <3>1. <<m, i>> \in {u \in unacked \ acks : u[2] \in {i}}
      BY <2>5, Zenon
    <3>2. m \in ready'
      BY <3>1 DEF GiveBack
    <3> QED BY <3>2, Zenon DEF Gone
  <2> QED BY <2>3, <2>4, <2>5, Zenon
<1>12. HandedOver' /\ Counted'
  BY Zenon DEF HistoryInv, HandedOver, Accounted, Counted, Handovers, history, GiveBack
<1> QED BY <1>5, <1>6, <1>7, <1>9, <1>10, <1>11, <1>12, Zenon DEF BrokerInv, HistoryInv

\* The steps of an instance that are the same for input and output.
LEMMA OutputKeeps == ASSUME IInv, NEW i \in Instance, OutputStep(i) PROVE IInv'
<1> USE DEF IInv
<1>1. ConnectionTypeOK /\ InstanceStep(i, "consuming") /\ "consuming" \in InstanceState \ {"stopped", "dead"}
  BY Zenon DEF OutputStep, TypeOK, InstanceState
<1>2. ConnectionTypeOK'
  BY <1>1, ConnectionTypes, Zenon DEF ConnectionStep
<1>3. CASE inst'[i] = "stopped"
  BY <1>1, <1>3, InstanceSteps, StopKeeps, Zenon DEF OutputStep
<1>4. CASE inst'[i] # "stopped"
  <2>1. UNCHANGED consumerVars
    BY <1>4, Zenon DEF OutputStep, consumerVars
  <2>2. /\ UNCHANGED <<connection, up, watcher, done>>
        /\ inst[i] \notin {"stopped", "dead"}
        /\ inst'[i] = "consuming" => ch'[i] = connection
        /\ inst'[i] \in {"checking", "selecting"} => inst[i] = "checking" /\ ch'[i] = ch[i]
        /\ \A j \in Instance \ {i} : inst'[j] = inst[j] /\ ch'[j] = ch[j]
    BY <1>1, InstanceSteps, Zenon
  <2>3. Idle' /\ Losses'
    BY <1>4, <2>1, <2>2, Zenon DEF ConnectionInv, Idle, Losses, Panicked, consumerVars
  <2>4. Steady'
    BY <1>4, <2>1, <2>2, Zenon DEF ConnectionInv, Steady, NoMoreLosses, Panicked, consumerVars
  <2>5. \A j \in Instance : inst'[j] = "stopped" <=> inst[j] = "stopped"
    BY <1>4, <2>2, Zenon
  <2> QED BY <1>2, <2>1, <2>2, <2>3, <2>4, <2>5, QuietKeeps, Zenon DEF ConnectionInv
<1> QED BY <1>3, <1>4, Zenon

\* ch.Consume, and the panic when it fails.
LEMMA ConsumeKeeps == ASSUME IInv, NEW i \in Instance, Consume(i) PROVE IInv'
<1> USE DEF IInv
<1>1. inst[i] = "consuming" /\ inst \in [Instance -> InstanceState] /\ ~Panicked
  BY Zenon DEF Consume, TypeOK, ConnectionTypeOK, ConnectionInv, Idle
<1>2. CASE Alive(i, ch[i])
  <2>1. /\ inst' = [inst EXCEPT ![i] = "checking"]
        /\ UNCHANGED <<connection, up, watcher, ch, done, consumerVars>>
    BY <1>2, Zenon DEF Consume
  <2>2. ConnectionTypeOK'
    BY <2>1, Zenon DEF TypeOK, ConnectionTypeOK, InstanceState
  <2>3. ConnectionInv'
    BY <1>1, <2>1, Zenon DEF ConnectionInv, Idle, Losses, Steady, NoMoreLosses, Panicked, consumerVars
  <2>4. \A j \in Instance : inst'[j] = "stopped" <=> inst[j] = "stopped"
    BY <1>1, <2>1, Zenon
  <2> QED BY <2>1, <2>2, <2>3, <2>4, QuietKeeps, Zenon
<1>3. CASE ~Alive(i, ch[i])
  <2>1. ~up \/ ch[i] # connection
    BY <1>1, <1>3, Zenon DEF Alive
  <2>2. ~NoMoreLosses
    BY <1>1, <2>1, DropsAssumption
    DEF ConnectionInv, Losses, Steady, NoMoreLosses, TypeOK, ConnectionTypeOK
  <2> QED BY <1>3, <2>2, DieKeeps, Zenon DEF Consume
<1> QED BY <1>2, <1>3, Zenon

\* The deliveries in outputChannel become no more when one is moved elsewhere.
LEMMA OutputKept ==
  ASSUME IInv, NEW d \in Delivery, NEW s \in Stage \ {"output"}, stage' = [stage EXCEPT ![d] = s]
  PROVE  Cardinality(At("output")') <= BufferSize
<1>1. At("output")' \subseteq At("output")
  BY Zenon DEF At, IInv, TypeOK
<1>2. At("output") \in SUBSET Delivery /\ At("output")' \in SUBSET Delivery
  BY Zenon DEF At
<1>3. /\ Cardinality(At("output")) \in Nat /\ Cardinality(At("output")') \in Nat
      /\ Cardinality(At("output")') <= Cardinality(At("output"))
  BY <1>1, <1>2, FewerDeliveries, Zenon
<1> QED BY <1>3, ConsumerAssumption DEF IInv, TypeOK

\* What the receipt of a body does.
LEMMA ReceivedKeeps ==
  ASSUME IInv, NEW i \in Instance, NEW x \in Message \cup {Zero}, Received(i, x)
  PROVE  /\ <<x, i, ch[i]>> \in Delivery /\ ch[i] <= connection
         /\ stage'[<<x, i, ch[i]>>] = "sending"
         /\ \A d \in Delivery : d # <<x, i, ch[i]>> => stage'[d] = stage[d]
         /\ \A d \in Delivery : Open(d)' <=> Open(d)
         /\ UNCHANGED <<connection, queue, consumer, worker, events, history>>
         /\ ConnectionTypeOK' /\ ConnectionInv'
         /\ stage' \in [Delivery -> Stage]
         /\ Cardinality(At("output")') <= BufferSize
<1> USE DEF IInv
<1>1. /\ inst[i] = "selecting" /\ inst' = [inst EXCEPT ![i] = "checking"]
      /\ stage' = [stage EXCEPT ![<<x, i, ch[i]>>] = "sending"]
      /\ UNCHANGED <<connection, up, watcher, ch, done, queue, consumer, worker, events, history>>
  BY Zenon DEF Received
<1>2. inst \in [Instance -> InstanceState] /\ ch[i] \in 0 .. connection /\ connection \in Connection
      /\ stage \in [Delivery -> Stage] /\ ~Panicked
  BY <1>1, Zenon DEF TypeOK, ConnectionTypeOK, ConnectionInv, Idle
<1>3. ch[i] \in Connection
  BY <1>2, DropsAssumption DEF Connection
<1>4. <<x, i, ch[i]>> \in Delivery
  BY <1>3, Zenon DEF Delivery
<1>5. /\ stage'[<<x, i, ch[i]>>] = "sending"
      /\ \A d \in Delivery : d # <<x, i, ch[i]>> => stage'[d] = stage[d]
      /\ stage' \in [Delivery -> Stage]
  BY <1>1, <1>2, <1>4, Zenon DEF Stage
<1>6. \A d \in Delivery : Open(d)' <=> Open(d)
  BY <1>1, <1>2, Zenon DEF Open, Alive, Delivery
<1>7. ConnectionTypeOK'
  BY <1>1, Zenon DEF TypeOK, ConnectionTypeOK, InstanceState
<1>8. ConnectionInv'
  <2>1. Idle' /\ Losses'
    BY <1>1, <1>2, Zenon DEF ConnectionInv, Idle, Losses, Panicked
  <2>2. ASSUME NEW d \in Delivery, d[1] \in Message, stage'[d] \in Active, NoMoreLosses
        PROVE  d[3] = connection
    BY <1>1, <1>5, <2>2 DEF ConnectionInv, Steady
  <2>3. Steady'
    BY <1>1, <1>2, <2>2, Zenon DEF ConnectionInv, Steady, NoMoreLosses, Panicked
  <2> QED BY <2>1, <2>3, Zenon DEF ConnectionInv
<1>9. Cardinality(At("output")') <= BufferSize
  <2>1. At("output")' \subseteq At("output") /\ At("output") \in SUBSET Delivery
    BY <1>5, Zenon DEF At
  <2>2. At("output")' \in SUBSET Delivery
    BY Zenon DEF At
  <2>3. /\ Cardinality(At("output")) \in Nat /\ Cardinality(At("output")') \in Nat
        /\ Cardinality(At("output")') <= Cardinality(At("output"))
    BY <2>1, <2>2, FewerDeliveries, Zenon
  <2> QED BY <2>3, ConsumerAssumption DEF TypeOK
<1> QED BY <1>1, <1>2, <1>4, <1>5, <1>6, <1>7, <1>8, <1>9, DropsAssumption DEF Connection

\* The broker sends a message ahead: it had sent it on no open channel.
LEMMA SendKeeps ==
  ASSUME IInv, NEW i \in Instance, NEW m \in Message, Send(i, m)
  PROVE  IInv'
<1> USE DEF IInv
<1> DEFINE n == <<m, i, connection>>
<1>1. /\ ch[i] = connection /\ m \in ready
      /\ ready' = ready \ {m} /\ unacked' = unacked \cup {<<m, i>>}
      /\ stage' = [stage EXCEPT ![n] = "ahead"]
      /\ UNCHANGED <<connectionVars, acks, consumer, worker, events, history>>
  BY Zenon DEF Send, Alive
<1>2. /\ n \in Delivery /\ stage'[n] = "ahead"
      /\ \A d \in Delivery : d # n => stage'[d] = stage[d]
      /\ stage' \in [Delivery -> Stage]
  BY <1>1, Zenon DEF TypeOK, Delivery, Stage
<1>3. n[1] = m /\ n[2] = i /\ n[3] = connection /\ Open(n)
  BY Zenon DEF Open, Send, Alive
<1>4. stage[n] = "none"
  BY <1>1, <1>2, <1>3, Zenon DEF BrokerInv, Fresh
<1> HIDE DEF n
<1>5. \A d : Open(d)' <=> Open(d)
  BY <1>1, Zenon DEF Open, Alive, connectionVars
<1>6. TypeOK'
  <2>1. Cardinality(At("output")') <= BufferSize
    BY <1>1, <1>2, OutputKept, Zenon DEF Stage
  <2> QED BY <1>1, <1>2, <2>1 DEF TypeOK, ConnectionTypeOK, history, connectionVars
<1>7. ConnectionInv'
  <2>1. Idle' /\ Losses'
    BY <1>1, <1>2, Zenon DEF ConnectionInv, Idle, Losses, Panicked, Active, connectionVars
  <2>2. Steady'
    BY <1>1, <1>2, Zenon DEF ConnectionInv, Steady, NoMoreLosses, Panicked, Active, connectionVars
  <2> QED BY <2>1, <2>2, Zenon DEF ConnectionInv
<1>8. Past' /\ Decodes'
  BY <1>1, <1>2, <1>3 DEF BrokerInv, Past, Decodes, TypeOK, ConnectionTypeOK, connectionVars
<1>9. Fresh'
  BY <1>1, <1>2, <1>3, <1>5, Zenon DEF BrokerInv, Fresh
<1>10. OneOpen'
  <2>1. \A d \in Delivery : d[1] = m /\ Open(d) /\ stage'[d] # "none" => d = n
    BY <1>1, <1>2, <1>3, Zenon DEF BrokerInv, Fresh
  <2>2. \A d \in Delivery : d[1] # m => stage'[d] = stage[d]
    BY <1>2, <1>3, Zenon
  <2> QED BY <1>5, <2>1, <2>2, Zenon DEF BrokerInv, OneOpen
<1>11. Once'
  <2>1. \A u \in unacked : u[1] # m
    BY <1>1, Zenon DEF BrokerInv, UnackedIsHeld
  <2> QED BY <1>1, <2>1 DEF BrokerInv, Once
<1>12. UnackedIsHeld'
  <2> SUFFICES ASSUME NEW u \in unacked' PROVE UnackedIsHeld!(u)'
    BY Zenon DEF UnackedIsHeld
  <2>1. CASE u = <<m, i>>
    <3>1. <<u[1], u[2], connection>> = n /\ u[1] \notin ready'
      BY <1>1, <2>1, Zenon DEF n
    <3> QED BY <1>1, <1>2, <1>3, <1>5, <3>1, Zenon DEF connectionVars
  <2>2. CASE u \in unacked
    <3>1. u[1] \notin ready /\ u[1] # m /\ <<u[1], u[2], connection>> \in Delivery
      BY <1>1, <2>2, Zenon DEF BrokerInv, UnackedIsHeld, TypeOK, Delivery
    <3>2. <<u[1], u[2], connection>> # n
      BY <1>3, <3>1
    <3> QED BY <1>1, <1>2, <1>5, <2>2, <3>1, <3>2, Zenon DEF BrokerInv, UnackedIsHeld, connectionVars
  <2> QED BY <1>1, <2>1, <2>2, Zenon
<1>13. HandedOver'
  BY <1>1, <1>2, Zenon DEF HistoryInv, HandedOver, Accounted, history
<1>14. AckedIsAccounted'
  <2>1. \A k \in Message : Gone(k)' => Gone(k)
    BY <1>1, Zenon DEF Gone
  <2> QED BY <1>1, <2>1, Zenon DEF HistoryInv, AckedIsAccounted, history
<1>15. Counted'
  <2>1. \A k \in Message : Handovers(k)' = Handovers(k)
    BY <1>2, <1>4, Zenon DEF Handovers
  <2> QED BY <1>1, <2>1, Zenon DEF HistoryInv, Counted, history
<1> QED BY <1>6, <1>7, <1>8, <1>9, <1>10, <1>11, <1>12, <1>13, <1>14, <1>15, Zenon DEF BrokerInv, HistoryInv

\* An acknowledgement arrives: its event is accounted for.
LEMMA BrokerAcksKeeps == ASSUME IInv, NEW u \in acks, BrokerAcks(u) PROVE IInv'
<1> USE DEF IInv
<1>1. /\ acks' = acks \ {u} /\ unacked' = unacked \ {u}
      /\ UNCHANGED <<connectionVars, ready, stage, consumer, worker, events, history>>
  BY Zenon DEF BrokerAcks
<1>2. \A d : Open(d)' <=> Open(d)
  BY <1>1, Zenon DEF Open, Alive, connectionVars
<1>3. TypeOK'
  BY <1>1, Zenon DEF TypeOK, ConnectionTypeOK, At, history, connectionVars
<1>4. ConnectionInv'
  BY <1>1, ZenonT(40) DEF ConnectionInv, Idle, Losses, Steady, NoMoreLosses, Panicked, connectionVars
<1>5. Past' /\ Decodes' /\ Fresh' /\ OneOpen' /\ Once'
  BY <1>1, <1>2, Zenon DEF BrokerInv, Past, Decodes, Fresh, OneOpen, Once, connectionVars
<1>6. UnackedIsHeld'
  <2> SUFFICES ASSUME NEW v \in unacked' PROVE UnackedIsHeld!(v)'
    BY Zenon DEF UnackedIsHeld
  <2>1. v \in unacked /\ (v \in acks => v \in acks')
    BY <1>1, Zenon
  <2> QED BY <1>1, <1>2, <2>1, Zenon DEF BrokerInv, UnackedIsHeld, connectionVars
<1>7. HandedOver'
  BY <1>1, Zenon DEF HistoryInv, HandedOver, Accounted, history
<1>8. AckedIsAccounted'
  <2> SUFFICES ASSUME NEW m \in Message, Gone(m)' PROVE Accounted(m)
    BY <1>1, Zenon DEF AckedIsAccounted, Accounted, history
  <2>1. CASE Gone(m)
    BY <2>1, Zenon DEF HistoryInv, AckedIsAccounted, Accounted
  <2>2. CASE ~Gone(m)
    <3>1. PICK j \in Instance : <<m, j>> \in unacked /\ <<m, j>> \notin unacked'
      BY <1>1, <2>2, Zenon DEF Gone
    <3>2. u = <<m, j>>
      BY <1>1, <3>1, Zenon
    <3>3. u[1] = m
      BY <3>2
    <3> QED BY <3>3, Zenon DEF HistoryInv, HandedOver
  <2> QED BY <2>1, <2>2, Zenon
<1>9. Counted'
  BY <1>1, Zenon DEF HistoryInv, Counted, Handovers, history
<1> QED BY <1>3, <1>4, <1>5, <1>6, <1>7, <1>8, <1>9, Zenon DEF BrokerInv, HistoryInv

\* An instance receives a message that was sent ahead.
LEMMA SelectMessageKeeps ==
  ASSUME IInv, NEW i \in Instance, NEW m \in Message, SelectMessage(i, m)
  PROVE  IInv'
<1> USE DEF IInv
<1> DEFINE n == <<m, i, ch[i]>>
<1>1. Received(i, m) /\ stage[n] = "ahead"
  BY Zenon DEF SelectMessage
<1>2. /\ n \in Delivery /\ stage'[n] = "sending"
      /\ \A d \in Delivery : d # n => stage'[d] = stage[d]
      /\ \A d \in Delivery : Open(d)' <=> Open(d)
      /\ UNCHANGED <<connection, queue, consumer, worker, events, history>>
      /\ ConnectionTypeOK' /\ ConnectionInv'
      /\ stage' \in [Delivery -> Stage]
      /\ Cardinality(At("output")') <= BufferSize
  BY <1>1, ReceivedKeeps, Zenon
<1> HIDE DEF n
<1>3. \A d \in Delivery : /\ stage'[d] # "none" <=> stage[d] # "none"
                          /\ {stage[d], stage'[d]} \subseteq {"ahead", "sending"} \/ stage'[d] = stage[d]
  BY <1>1, <1>2, Zenon
<1>4. TypeOK'
  BY <1>2, Zenon DEF TypeOK, queue, history
<1>5. Past' /\ Fresh' /\ OneOpen' /\ Once'
  BY <1>2, <1>3, Zenon DEF BrokerInv, Past, Fresh, OneOpen, Once, queue
<1>6. Decodes'
  BY <1>2, <1>3, Zenon DEF BrokerInv, Decodes
<1>7. UnackedIsHeld'
  <2> SUFFICES ASSUME NEW u \in unacked PROVE UnackedIsHeld!(u)'
    BY <1>2, Zenon DEF UnackedIsHeld, queue
  <2>1. <<u[1], u[2], connection>> \in Delivery
    BY Zenon DEF TypeOK, Delivery
  <2>2. stage'[<<u[1], u[2], connection>>] \in {stage[<<u[1], u[2], connection>>], "sending"}
    BY <1>2, <2>1, Zenon
  <2>3. stage[<<u[1], u[2], connection>>] = "finished" => stage'[<<u[1], u[2], connection>>] = "finished"
    BY <1>3, <2>1, Zenon
  <2> QED BY <1>2, <2>1, <2>2, <2>3, Zenon DEF BrokerInv, UnackedIsHeld, queue
<1>8. HandedOver' /\ AckedIsAccounted'
  BY <1>2, <1>3, Zenon DEF HistoryInv, HandedOver, Accounted, AckedIsAccounted, Gone, queue, history
<1>9. Counted'
  <2>1. \A k \in Message : Handovers(k)' = Handovers(k)
    BY <1>3, Zenon DEF Handovers
  <2> QED BY <1>2, <2>1, Zenon DEF HistoryInv, Counted, history
<1> QED BY <1>2, <1>4, <1>5, <1>6, <1>7, <1>8, <1>9, Zenon DEF BrokerInv, HistoryInv

\* A closed Go channel yields a zero value, which is no message.
LEMMA SelectClosedKeeps == ASSUME IInv, NEW i \in Instance, SelectClosed(i) PROVE IInv'
<1> USE ConsumerAssumption DEF IInv
<1> DEFINE n == <<Zero, i, ch[i]>>
<1>1. Received(i, Zero) /\ UNCHANGED queue
  BY Zenon DEF SelectClosed, Received
<1>2. /\ n \in Delivery /\ ch[i] <= connection /\ stage'[n] = "sending"
      /\ \A d \in Delivery : d # n => stage'[d] = stage[d]
      /\ \A d \in Delivery : Open(d)' <=> Open(d)
      /\ UNCHANGED <<connection, consumer, worker, events, history>>
      /\ ConnectionTypeOK' /\ ConnectionInv'
      /\ stage' \in [Delivery -> Stage]
      /\ Cardinality(At("output")') <= BufferSize
  BY <1>1, ReceivedKeeps
<1>3. n[1] = Zero /\ n[3] = ch[i]
  BY Zenon
<1> HIDE DEF n
<1>4. \A d \in Delivery : d[1] \in Message => stage'[d] = stage[d]
  BY <1>2, <1>3, Zenon
<1>5. TypeOK'
  BY <1>1, <1>2, Zenon DEF TypeOK, queue, history
<1>6. Past' /\ Decodes'
  BY <1>2, <1>3, Zenon DEF BrokerInv, Past, Decodes
<1>7. Fresh' /\ OneOpen' /\ Once'
  BY <1>1, <1>2, <1>4, Zenon DEF BrokerInv, Fresh, OneOpen, Once, TypeOK, queue
<1>8. UnackedIsHeld'
  <2> SUFFICES ASSUME NEW u \in unacked PROVE UnackedIsHeld!(u)'
    BY <1>1, Zenon DEF UnackedIsHeld, queue
  <2>1. <<u[1], u[2], connection>> \in Delivery /\ u[1] \in Message
    BY Zenon DEF TypeOK, Delivery
  <2> QED BY <1>1, <1>2, <1>4, <2>1, Zenon DEF BrokerInv, UnackedIsHeld, queue
<1>9. HandedOver' /\ AckedIsAccounted'
  BY <1>1, <1>2, Zenon DEF HistoryInv, HandedOver, Accounted, AckedIsAccounted, Gone, queue, history
<1>10. Counted'
  <2>1. \A k \in Message : Handovers(k)' = Handovers(k)
    BY <1>4, Zenon DEF Handovers
  <2> QED BY <1>2, <2>1, Zenon DEF HistoryInv, Counted, history
<1> QED BY <1>2, <1>5, <1>6, <1>7, <1>8, <1>9, <1>10, Zenon DEF BrokerInv, HistoryInv

-----------------------------------------------------------------------------
(* Steps of a delivery's goroutines, and of Worker.Run *)

\* A goroutine that holds a delivery moves it on.
LEMMA MoveKeeps ==
  ASSUME IInv, NEW d \in Delivery, NEW s \in Stage \ {"none"}, stage[d] \in Active,
         stage' = [stage EXCEPT ![d] = s],
         UNCHANGED <<connectionVars, ready, unacked>>
  PROVE  /\ ConnectionTypeOK' /\ ConnectionInv'
         /\ Past' /\ Fresh' /\ OneOpen' /\ Once'
         /\ stage' \in [Delivery -> Stage] /\ stage'[d] = s
         /\ \A e \in Delivery : e # d => stage'[e] = stage[e]
         /\ \A e : Open(e)' <=> Open(e)
<1> USE DEF IInv, connectionVars
<1>1. ConnectionTypeOK'
  BY Zenon DEF TypeOK, ConnectionTypeOK
<1>2. stage \in [Delivery -> Stage] /\ stage[d] # "none"
  BY Zenon DEF TypeOK, Active
<1>3. /\ stage' \in [Delivery -> Stage] /\ stage'[d] = s
      /\ \A e \in Delivery : e # d => stage'[e] = stage[e]
  BY <1>2, Zenon
<1>4. \A e : Open(e)' <=> Open(e)
  BY Zenon DEF Open, Alive
<1>5. ConnectionInv'
  <2>1. Idle' /\ Losses'
    BY Zenon DEF ConnectionInv, Idle, Losses, Panicked
  <2>2. Steady'
    BY <1>3, Zenon DEF ConnectionInv, Steady, NoMoreLosses, Panicked
  <2> QED BY <2>1, <2>2, Zenon DEF ConnectionInv
<1>6. Past'
  BY <1>2, <1>3, Zenon DEF BrokerInv, Past
<1>7. Fresh'
  BY <1>2, <1>3, <1>4, Zenon DEF BrokerInv, Fresh
<1>8. \A e \in Delivery : stage'[e] # "none" => stage[e] # "none"
  BY <1>2, <1>3, Zenon
<1>9. OneOpen'
  BY <1>4, <1>8, Zenon DEF BrokerInv, OneOpen
<1>10. Once'
  BY Zenon DEF BrokerInv, Once
<1> QED BY <1>1, <1>3, <1>4, <1>5, <1>6, <1>7, <1>9, <1>10, Zenon

\* What the broker waits for is held still, when the delivery it is about stays in
\* the hands of a goroutine or is acknowledged.
LEMMA HeldKeeps ==
  ASSUME IInv, NEW d \in Delivery, NEW s \in Stage,
         stage' = [stage EXCEPT ![d] = s], UNCHANGED <<connectionVars, ready, unacked>>,
         acks \subseteq acks',
         \/ s \in Active
         \/ s = "finished" /\ d[1] \in Malformed \cup {Zero}
         \/ s = "finished" /\ <<d[1], d[2]>> \in acks'
  PROVE  UnackedIsHeld'
<1> USE DEF IInv, connectionVars
<1> SUFFICES ASSUME NEW u \in unacked' PROVE UnackedIsHeld!(u)'
  BY Zenon DEF UnackedIsHeld
<1> DEFINE e == <<u[1], u[2], connection>>
<1>1. u \in unacked /\ u = <<u[1], u[2]>> /\ u[1] \in Message /\ e \in Delivery
  BY DEF TypeOK, Delivery
<1>2. Open(e) /\ Open(e)' /\ u[1] \notin ready'
  BY <1>1, Zenon DEF BrokerInv, UnackedIsHeld, Open, Alive
<1>3. e # d => stage'[e] = stage[e]
  BY <1>1, Zenon DEF TypeOK
<1>4. e = d => stage'[e] = s /\ d[1] = u[1] /\ d[2] = u[2]
  BY <1>1 DEF TypeOK
<1>5. \/ stage'[e] \in Active \cup {"ahead"}
      \/ u \in acks'
      \/ u[1] \in Malformed /\ stage'[e] = "finished"
  <2>1. CASE e # d
    BY <1>1, <1>3, <2>1, Zenon DEF BrokerInv, UnackedIsHeld, Active
  <2>2. CASE e = d
    BY <1>1, <1>2, <1>4, <2>2, ConsumerAssumption, Zenon
  <2> QED BY <2>1, <2>2, Zenon
<1> QED BY <1>2, <1>5, Zenon DEF Active

\* The goroutine of a delivery gets room in outputChannel.
LEMMA SendOutputKeeps == ASSUME IInv, NEW d \in Delivery, SendOutput(d) PROVE IInv'
<1> USE DEF IInv
<1>1. /\ stage[d] = "sending" /\ stage' = [stage EXCEPT ![d] = "output"]
      /\ Cardinality(At("output")) < BufferSize
      /\ UNCHANGED <<connectionVars, queue, consumer, worker, events, history>>
  BY Zenon DEF SendOutput
<1>2. /\ ConnectionTypeOK' /\ ConnectionInv'
      /\ Past' /\ Fresh' /\ OneOpen' /\ Once'
      /\ stage' \in [Delivery -> Stage] /\ stage'[d] = "output"
      /\ \A e \in Delivery : e # d => stage'[e] = stage[e]
  BY <1>1, MoveKeeps, Zenon DEF queue, Active, Stage
<1>3. UnackedIsHeld'
  BY <1>1, HeldKeeps, Zenon DEF queue, Active, Stage
<1>4. Cardinality(At("output")') <= BufferSize
  <2>1. At("output")' \subseteq At("output") \cup {d}
    BY <1>2, Zenon DEF At
  <2>2. At("output") \in SUBSET Delivery /\ At("output")' \in SUBSET Delivery
    BY Zenon DEF At
  <2>3. /\ Cardinality(At("output")) \in Nat /\ Cardinality(At("output")') \in Nat
        /\ Cardinality(At("output")') <= Cardinality(At("output")) + 1
    BY <2>1, <2>2, AddDelivery, Zenon
  <2> QED BY <1>1, <2>3, ConsumerAssumption
<1>5. TypeOK'
  BY <1>1, <1>2, <1>4, Zenon DEF TypeOK, queue, history, connectionVars
<1>6. Decodes'
  BY <1>1, <1>2, Zenon DEF BrokerInv, Decodes
<1>7. HandedOver' /\ AckedIsAccounted'
  BY <1>1, <1>2, Zenon DEF HistoryInv, HandedOver, Accounted, AckedIsAccounted, Gone, queue, history
<1>8. Counted'
  <2>1. \A m \in Message : Handovers(m)' = Handovers(m)
    BY <1>1, <1>2, Zenon DEF Handovers
  <2> QED BY <1>1, <2>1, Zenon DEF HistoryInv, Counted, history
<1> QED BY <1>2, <1>3, <1>5, <1>6, <1>7, <1>8, Zenon DEF BrokerInv, HistoryInv

\* More deliveries of a message have been handed over, or as many.
LEMMA HandoversGrow ==
  ASSUME NEW m \in Message, \A e \in Delivery : stage[e] \in {"handed", "finished"}
                                                  => stage'[e] \in {"handed", "finished"}
  PROVE  /\ Cardinality(Handovers(m)) \in Nat /\ Cardinality(Handovers(m)') \in Nat
         /\ Cardinality(Handovers(m)) <= Cardinality(Handovers(m)')
<1>1. Handovers(m) \subseteq Handovers(m)' /\ Handovers(m)' \in SUBSET Delivery
  BY Zenon DEF Handovers
<1> QED BY <1>1, FewerDeliveries, Zenon

\* The consumer takes a delivery, and drops a body that does not decode.
LEMMA UnmarshalKeeps == ASSUME IInv, NEW d \in Delivery, Unmarshal(d) PROVE IInv'
<1> USE DEF IInv
<1> DEFINE s == IF d[1] \in Message \ Malformed THEN "decoded" ELSE "finished"
<1>1. /\ stage[d] = "output" /\ stage' = [stage EXCEPT ![d] = s]
      /\ UNCHANGED <<connectionVars, queue, consumer, worker, events, history>>
  BY Zenon DEF Unmarshal
<1>2. s \in Stage \ {"none", "output"}
  BY Zenon DEF Stage
<1>3. \/ s \in Active /\ d[1] \in Message \ Malformed
      \/ s = "finished" /\ d[1] \in Malformed \cup {Zero}
  BY Zenon DEF Active, Delivery
<1> HIDE DEF s
<1>4. /\ ConnectionTypeOK' /\ ConnectionInv'
      /\ Past' /\ Fresh' /\ OneOpen' /\ Once'
      /\ stage' \in [Delivery -> Stage] /\ stage'[d] = s
      /\ \A e \in Delivery : e # d => stage'[e] = stage[e]
  BY <1>1, <1>2, MoveKeeps, Zenon DEF queue, Active
<1>5. UnackedIsHeld'
  BY <1>1, <1>2, <1>3, HeldKeeps, Zenon DEF queue
<1>6. TypeOK'
  BY <1>1, <1>2, <1>4, OutputKept, Zenon DEF TypeOK, queue, history, connectionVars
<1>7. Decodes'
  BY <1>1, <1>3, <1>4, Zenon DEF BrokerInv, Decodes
<1>8. HandedOver' /\ AckedIsAccounted'
  <2>1. s # "handed"
    BY Zenon DEF s
  <2> QED BY <1>1, <1>4, <2>1, Zenon
      DEF HistoryInv, HandedOver, Accounted, AckedIsAccounted, Gone, queue, history
<1>9. Counted'
  <2> SUFFICES ASSUME NEW m \in Message PROVE handed[m] <= Cardinality(Handovers(m)')
    BY <1>1, Zenon DEF Counted, history
  <2>1. /\ Cardinality(Handovers(m)) \in Nat /\ Cardinality(Handovers(m)') \in Nat
        /\ Cardinality(Handovers(m)) <= Cardinality(Handovers(m)')
    BY <1>1, <1>4, HandoversGrow, Zenon
  <2> QED BY <2>1 DEF HistoryInv, Counted, TypeOK
<1> QED BY <1>4, <1>5, <1>6, <1>7, <1>8, <1>9, Zenon DEF BrokerInv, HistoryInv

\* The goroutine gets room in EventsChannel: one delivery more was handed over.
LEMMA HandOffKeeps == ASSUME IInv, NEW d \in Delivery, HandOff(d) PROVE IInv'
<1> USE DEF IInv
<1>1. /\ stage[d] = "decoded" /\ stage' = [stage EXCEPT ![d] = "handed"]
      /\ Cardinality(events) < BufferSize /\ events' = events \cup {d}
      /\ handed' = [handed EXCEPT ![d[1]] = @ + 1]
      /\ UNCHANGED <<connectionVars, queue, consumer, worker, taken, lost>>
  BY Zenon DEF HandOff
<1>2. /\ ConnectionTypeOK' /\ ConnectionInv'
      /\ Past' /\ Fresh' /\ OneOpen' /\ Once'
      /\ stage' \in [Delivery -> Stage] /\ stage'[d] = "handed"
      /\ \A e \in Delivery : e # d => stage'[e] = stage[e]
  BY <1>1, MoveKeeps, Zenon DEF queue, Active, Stage
<1>3. UnackedIsHeld'
  BY <1>1, HeldKeeps, Zenon DEF queue, Active, Stage
<1>4. d[1] \in Message \ Malformed
  BY <1>1, Zenon DEF BrokerInv, Decodes
<1>5. Decodes'
  BY <1>1, <1>2, <1>4, Zenon DEF BrokerInv, Decodes
<1>6. TypeOK'
  <2>1. events' \in SUBSET Delivery /\ events \in SUBSET Delivery
    BY <1>1, Zenon DEF TypeOK
  <2>2. /\ Cardinality(events) \in Nat /\ Cardinality(events') \in Nat
        /\ Cardinality(events') <= Cardinality(events) + 1
    BY <1>1, <2>1, AddDelivery, Zenon
  <2>3. Cardinality(events') <= BufferSize
    BY <1>1, <2>2, ConsumerAssumption
  <2>4. handed' \in [Message -> Nat]
    BY <1>1, <1>4 DEF TypeOK
  <2>5. Cardinality(At("output")') <= BufferSize
    BY <1>1, OutputKept, Zenon DEF Stage
  <2> QED BY <1>1, <1>2, <2>1, <2>3, <2>4, <2>5, Zenon DEF TypeOK, queue, connectionVars
<1>7. HandedOver' /\ AckedIsAccounted'
  BY <1>1, <1>2, Zenon DEF HistoryInv, HandedOver, Accounted, AckedIsAccounted, Gone, queue
<1>8. Counted'
  <2> SUFFICES ASSUME NEW m \in Message PROVE handed'[m] <= Cardinality(Handovers(m)')
    BY Zenon DEF Counted
  <2>1. handed[m] <= Cardinality(Handovers(m)) /\ handed[m] \in Nat
    BY Zenon DEF HistoryInv, Counted, TypeOK
  <2>2. CASE m # d[1]
    <3>1. handed'[m] = handed[m]
      BY <1>1, <2>2, Zenon DEF TypeOK
    <3>2. /\ Cardinality(Handovers(m)) \in Nat /\ Cardinality(Handovers(m)') \in Nat
          /\ Cardinality(Handovers(m)) <= Cardinality(Handovers(m)')
      BY <1>1, <1>2, HandoversGrow, Zenon
    <3> QED BY <2>1, <3>1, <3>2
  <2>3. CASE m = d[1]
    <3>1. handed'[m] = handed[m] + 1
      BY <1>1, <2>3, Zenon DEF TypeOK
    <3>2. d \notin Handovers(m) /\ Handovers(m)' = Handovers(m) \cup {d}
      BY <1>1, <1>2, <2>3, Zenon DEF Handovers
    <3>3. IsFiniteSet(Handovers(m))
      BY DeliveriesFinite, FS_Subset, Zenon DEF Handovers
    <3>4. Cardinality(Handovers(m)') = Cardinality(Handovers(m)) + 1 /\ Cardinality(Handovers(m)) \in Nat
      BY <3>2, <3>3, FS_AddElement, FS_CardinalityType, Zenon
    <3> QED BY <2>1, <3>1, <3>4
  <2> QED BY <2>2, <2>3, Zenon
<1> QED BY <1>2, <1>3, <1>5, <1>6, <1>7, <1>8, Zenon DEF BrokerInv, HistoryInv

\* The acknowledgement is sent: the event is accounted for.
LEMMA AckKeeps == ASSUME IInv, NEW d \in Delivery, Ack(d) PROVE IInv'
<1> USE DEF IInv
<1>1. stage[d] = "handed" /\ d[1] \in Message \ Malformed /\ d = <<d[1], d[2], d[3]>> /\ d[2] \in Instance
  BY DEF Ack, BrokerInv, Decodes, Delivery
<1>2. CASE Open(d)
  <2>1. /\ stage' = [stage EXCEPT ![d] = "finished"]
        /\ acks' = acks \cup {<<d[1], d[2]>>}
        /\ UNCHANGED <<connectionVars, ready, unacked, consumer, worker, events, history>>
    BY <1>2, Zenon DEF Ack
  <2>2. /\ ConnectionTypeOK' /\ ConnectionInv'
        /\ Past' /\ Fresh' /\ OneOpen' /\ Once'
        /\ stage' \in [Delivery -> Stage] /\ stage'[d] = "finished"
        /\ \A e \in Delivery : e # d => stage'[e] = stage[e]
    BY <1>1, <2>1, MoveKeeps, Zenon DEF Active, Stage
  <2>3. UnackedIsHeld'
    BY <2>1, HeldKeeps, Zenon DEF Stage
  <2>4. TypeOK'
    <3>1. <<d[1], d[2]>> \in Message \X Instance
      BY <1>1
    <3>2. acks' \subseteq Message \X Instance
      BY <2>1, <3>1, Zenon DEF TypeOK
    <3> QED BY <2>1, <2>2, <3>2, OutputKept, Zenon DEF Stage, TypeOK, history, connectionVars
  <2>5. Decodes'
    BY <2>1, <2>2, Zenon DEF BrokerInv, Decodes
  <2>6. HandedOver'
    <3>1. Accounted(d[1])
      BY <1>1, Zenon DEF HistoryInv, HandedOver
    <3>2. \A u \in acks' : Accounted(u[1])
      BY <2>1, <3>1 DEF HistoryInv, HandedOver
    <3> QED BY <2>1, <2>2, <3>2, Zenon DEF HistoryInv, HandedOver, Accounted, history
  <2>7. AckedIsAccounted'
    BY <2>1, Zenon DEF HistoryInv, AckedIsAccounted, Gone, history
  <2>8. Counted'
    <3> SUFFICES ASSUME NEW m \in Message PROVE handed[m] <= Cardinality(Handovers(m)')
      BY <2>1, Zenon DEF Counted, history
    <3>1. /\ Cardinality(Handovers(m)) \in Nat /\ Cardinality(Handovers(m)') \in Nat
          /\ Cardinality(Handovers(m)) <= Cardinality(Handovers(m)')
      BY <2>2, HandoversGrow, Zenon
    <3> QED BY <3>1 DEF HistoryInv, Counted, TypeOK
  <2> QED BY <2>2, <2>3, <2>4, <2>5, <2>6, <2>7, <2>8, Zenon DEF BrokerInv, HistoryInv
<1>3. CASE ~Open(d)
  <2>1. ~Panicked
    BY <1>1, Zenon DEF ConnectionInv, Idle, Active
  <2>2. ~up \/ d[3] # connection \/ inst[d[2]] = "stopped"
    BY <1>3, Zenon DEF Open, Alive
  <2>3. CASE ~up
    BY <1>3, <2>1, <2>3, DieKeeps, DropsAssumption, SMTT(30)
    DEF Ack, ConnectionInv, Losses, NoMoreLosses, TypeOK, ConnectionTypeOK
  <2>4. CASE d[3] # connection
    <3>1. ~NoMoreLosses
      BY <1>1, <2>4, Zenon DEF ConnectionInv, Steady, Active
    <3> QED BY <1>3, <3>1, DieKeeps, Zenon DEF Ack
  <2>5. CASE inst[d[2]] = "stopped"
    BY <1>1, <1>3, <2>5, DieKeeps, Zenon DEF Ack, ConnectionInv, Losses
  <2> QED BY <2>2, <2>3, <2>4, <2>5, Zenon
<1> QED BY <1>2, <1>3, Zenon

\* Worker.Run takes an event.
LEMMA TakeKeeps == ASSUME IInv, NEW d \in Delivery, Take(d) PROVE IInv'
<1> USE DEF IInv
<1>1. /\ d \in events /\ events' = events \ {d} /\ taken' = taken \cup {d[1]}
      /\ UNCHANGED <<connectionVars, queue, stage, consumer, worker, handed, lost>>
  BY Zenon DEF Take
<1>2. d[1] \in Message
  BY <1>1, Zenon DEF BrokerInv, Decodes
<1>3. TypeOK'
  <2>1. events' \in SUBSET Delivery /\ events \in SUBSET Delivery
    BY <1>1, Zenon DEF TypeOK
  <2>2. /\ Cardinality(events) \in Nat /\ Cardinality(events') \in Nat
        /\ Cardinality(events') <= Cardinality(events)
    BY <1>1, <2>1, FewerDeliveries, Zenon
  <2>3. Cardinality(events') <= BufferSize
    BY <2>2, ConsumerAssumption DEF TypeOK
  <2>4. taken' \subseteq Message
    BY <1>1, <1>2, Zenon DEF TypeOK
  <2> QED BY <1>1, <2>1, <2>3, <2>4, Zenon DEF TypeOK, ConnectionTypeOK, queue, connectionVars, At
<1>4. ConnectionInv'
  BY <1>1, Zenon DEF ConnectionInv, Idle, Losses, Steady, NoMoreLosses, Panicked, connectionVars
<1>5. BrokerInv'
  BY <1>1, SMTT(30) DEF BrokerInv, Past, Decodes, Fresh, OneOpen, Once, UnackedIsHeld, Open, Alive,
              connectionVars, queue
<1>6. \A m : Accounted(m) => Accounted(m)'
  BY <1>1, Zenon DEF Accounted
<1>7. HandedOver'
  BY <1>1, <1>6, Zenon DEF HistoryInv, HandedOver, queue
<1>8. AckedIsAccounted'
  BY <1>1, <1>6, Zenon DEF HistoryInv, AckedIsAccounted, Accounted, Gone, queue
<1>9. Counted'
  BY <1>1, Zenon DEF HistoryInv, Counted, Handovers
<1> QED BY <1>3, <1>4, <1>5, <1>7, <1>8, <1>9, Zenon DEF HistoryInv

\* The loops of Consume and Run end, or nothing happens.
LEMMA LoopsKeep ==
  ASSUME IInv,
         /\ UNCHANGED <<connectionVars, queue, stage, events, history>>
         /\ consumer' \in {consumer, "stopped"} /\ worker' \in {worker, "stopped"}
  PROVE  IInv'
<1> USE DEF IInv, connectionVars, queue, history
<1>1. TypeOK'
  BY Zenon DEF TypeOK, ConnectionTypeOK, At
<1>2. ConnectionInv'
  BY ZenonT(40) DEF ConnectionInv, Idle, Losses, Steady, NoMoreLosses, Panicked
<1>3. BrokerInv'
  BY SMTT(30) DEF BrokerInv, Past, Decodes, Fresh, OneOpen, Once, UnackedIsHeld, Open, Alive
<1>4. HistoryInv'
  BY Zenon DEF HistoryInv, HandedOver, Accounted, AckedIsAccounted, Gone, Counted, Handovers
<1> QED BY <1>1, <1>2, <1>3, <1>4, Zenon

-----------------------------------------------------------------------------

LEMMA Inductive == Spec => []IInv
<1>1. ASSUME IInv, [Next]_vars PROVE IInv'
  <2> USE <1>1
  <2>1. CASE Watch \/ LoseConnection \/ Restart
    BY <2>1, WatchKeeps, LoseKeeps, RestartKeeps, Zenon
  <2>2. CASE CloseDone /\ UNCHANGED consumerVars
    BY <2>2, CloseDoneKeeps, Zenon
  <2>3. ASSUME NEW i \in Instance, OutputStep(i) \/ Consume(i) \/ SelectClosed(i) PROVE IInv'
    BY <2>3, OutputKeeps, ConsumeKeeps, SelectClosedKeeps, Zenon
  <2>4. ASSUME NEW i \in Instance, NEW m \in Message, Send(i, m) \/ SelectMessage(i, m) PROVE IInv'
    BY <2>4, SendKeeps, SelectMessageKeeps, Zenon
  <2>5. ASSUME NEW d \in Delivery, DeliveryStep(d) \/ Take(d) PROVE IInv'
    BY <2>5, SendOutputKeeps, UnmarshalKeeps, HandOffKeeps, AckKeeps, TakeKeeps, Zenon DEF DeliveryStep
  <2>6. CASE ConsumerStops \/ WorkerStops \/ UNCHANGED vars
    <3>1. /\ UNCHANGED <<connectionVars, queue, stage, events, history>>
          /\ consumer' \in {consumer, "stopped"} /\ worker' \in {worker, "stopped"}
      BY <2>6, Zenon DEF ConsumerStops, WorkerStops, vars, consumerVars
    <3> QED BY <3>1, LoopsKeep, Zenon
  <2>7. ASSUME NEW u \in acks, BrokerAcks(u) PROVE IInv'
    BY <2>7, BrokerAcksKeeps, Zenon
  <2> QED BY <2>1, <2>2, <2>3, <2>4, <2>5, <2>6, <2>7, Zenon DEF Next
<1> QED BY InitIInv, <1>1, PTL DEF Spec

\* Every reachable state of the worker's input has the declared types: the two Go
\* channels keep to their capacity, and however the loss of connections and the
\* panics it causes are interleaved, each lost connection costs at most one
\* reconnection and one restart.
THEOREM ConsumerTypeCorrect == Spec => []TypeOK
<1>1. IInv => TypeOK
  BY Zenon DEF IInv
<1> QED BY Inductive, <1>1, PTL

\* The broker forgets a message only once its event has reached EventsChannel,
\* however late or often in vain Consumer.Consume acknowledges it.
THEOREM AcknowledgedIsAccounted == Spec => []AckedIsAccounted
<1>1. IInv => AckedIsAccounted
  BY Zenon DEF IInv, HistoryInv
<1> QED BY Inductive, <1>1, PTL

\* The broker waits for no message in vain: the process still has the message, or
\* has sent the acknowledgement, or could not decode it, whatever the broker sent
\* ahead and whichever acknowledgements were lost with their connections.
THEOREM UnacknowledgedIsHeld == Spec => []UnackedIsHeld
<1>1. IInv => UnackedIsHeld
  BY Zenon DEF IInv, BrokerInv
<1> QED BY Inductive, <1>1, PTL

\* A message is handed to Worker.Run at most once more than channels closed on it.
THEOREM RedeliveriesBounded == Spec => []RedeliveryBound
<1>1. IInv => RedeliveryBound
  <2> SUFFICES ASSUME IInv, NEW m \in Message
               PROVE  handed[m] <= 1 + Cardinality(CutOff(m))
    BY Zenon DEF RedeliveryBound
  <2> DEFINE Opened == {d \in Delivery : d[1] = m /\ stage[d] # "none" /\ Open(d)}
  <2>1. Handovers(m) \subseteq CutOff(m) \cup Opened
    BY Zenon DEF Handovers, CutOff
  <2>2. \A d, e \in Opened : d = e
    BY Zenon DEF IInv, BrokerInv, OneOpen
  <2>3. handed[m] <= Cardinality(Handovers(m)) /\ handed[m] \in Nat
    BY Zenon DEF IInv, HistoryInv, Counted, TypeOK
  <2>4. CutOff(m) \in SUBSET Delivery /\ Handovers(m) \in SUBSET Delivery
    BY Zenon DEF Handovers, CutOff
  <2>5. CASE Opened = {}
    <3>1. Handovers(m) \subseteq CutOff(m)
      BY <2>1, <2>5, Zenon
    <3>2. /\ Cardinality(CutOff(m)) \in Nat /\ Cardinality(Handovers(m)) \in Nat
          /\ Cardinality(Handovers(m)) <= Cardinality(CutOff(m))
      BY <2>4, <3>1, FewerDeliveries, Zenon
    <3> QED BY <2>3, <3>2
  <2>6. CASE Opened # {}
    <3>1. PICK d \in Opened : TRUE
      BY <2>6, Zenon
    <3>2. Handovers(m) \subseteq CutOff(m) \cup {d} /\ d \in Delivery
      BY <2>1, <2>2, <3>1, Zenon
    <3>3. /\ Cardinality(CutOff(m)) \in Nat /\ Cardinality(Handovers(m)) \in Nat
          /\ Cardinality(Handovers(m)) <= Cardinality(CutOff(m)) + 1
      BY <2>4, <3>2, AddDelivery, Zenon
    <3> QED BY <2>3, <3>3
  <2> QED BY <2>5, <2>6, Zenon
<1> QED BY Inductive, <1>1, PTL

\* A worker that never lost a connection panics at shutdown at the earliest.
THEOREM NoPanicWithoutLoss == Spec => [](MaxDrops = 0 /\ Panicked => done)
<1>1. IInv => (MaxDrops = 0 /\ Panicked => done)
  BY Zenon DEF IInv, ConnectionInv, Steady, NoMoreLosses
<1> QED BY Inductive, <1>1, PTL

-----------------------------------------------------------------------------
(* Sends without a reader *)

\* The channel on which an instance received a zero value is closed, and the
\* instance is in its select only once it has opened another.
ZeroIsPast ==
  \A d \in Delivery :
    d[1] = Zero /\ stage[d] # "none" =>
      ~Open(d) /\ (inst[d[2]] = "selecting" => ch[d[2]] # d[3])

\* Whatever happens, a closed channel stays closed, and an instance that comes to
\* its select has an open one.
LEMMA ChannelsSettle ==
  ASSUME IInv, [Next]_vars, NEW i \in Instance, NEW c \in 0 .. connection
  PROVE  /\ ~Alive(i, c) => ~Alive(i, c)'
         /\ inst'[i] = "selecting" => ch'[i] = ch[i] /\ (inst[i] = "selecting" \/ Alive(i, ch[i]))
<1> DEFINE Goal == /\ ~Alive(i, c) => ~Alive(i, c)'
                   /\ inst'[i] = "selecting" => ch'[i] = ch[i] /\ (inst[i] = "selecting" \/ Alive(i, ch[i]))
<1>0. inst \in [Instance -> InstanceState] /\ ch \in [Instance -> 0 .. connection] /\ connection \in Nat
  BY Zenon DEF IInv, TypeOK, ConnectionTypeOK
<1>1. CASE UNCHANGED connectionVars
  BY ONLY <1>1, Zenon DEF connectionVars, Alive
<1>2. CASE Panic
  BY ONLY <1>2, Zenon DEF Panic, Alive
<1>3. CASE ConnectionClosed \/ WatcherStops \/ ConnectionLost \/ CloseDone \/ NotifyClose
  <2>1. CASE UNCHANGED <<connection, inst, ch>> /\ (up' => up)
    BY ONLY <2>1, Zenon DEF Alive
  <2> QED BY ONLY <1>2, <1>3, <2>1 DEF ConnectionClosed, WatcherStops, ConnectionLost, CloseDone, NotifyClose
<1>4. CASE connection' = connection + 1 /\ ch' = ch /\ (inst' = inst \/ inst' = [k \in Instance |-> "starting"])
  <2>1. ~Alive(i, c)'
    BY ONLY <1>0, <1>4 DEF Alive
  <2>2. inst'[i] = "selecting" => inst[i] = "selecting"
    BY ONLY <1>4, Zenon
  <2> QED BY ONLY <1>4, <2>1, <2>2, Zenon
<1>5. ASSUME NEW j \in Instance, WaitForConnection(j) \/ OpenChannel(j, "consuming") PROVE Goal
  <2>1. inst[j] \notin {"stopped", "selecting"} /\ inst'[j] \notin {"stopped", "selecting"}
    BY ONLY <1>0, <1>5, Zenon DEF WaitForConnection, OpenChannel
  <2>2. \A k \in Instance \ {j} : inst'[k] = inst[k] /\ ch'[k] = ch[k]
    BY ONLY <1>0, <1>5, Zenon DEF WaitForConnection, OpenChannel
  <2>3. UNCHANGED <<connection, up>>
    BY ONLY <1>5, Zenon DEF WaitForConnection, OpenChannel
  <2> QED BY ONLY <2>1, <2>2, <2>3, i \in Instance, Zenon DEF Alive
<1>6. ASSUME NEW j \in Instance, IsClosed(j) \/ SelectDone(j) \/ callMeNextTime(j) PROVE Goal
  <2>1. /\ inst[j] # "stopped"
        /\ inst'[j] = "selecting" => Alive(j, ch[j])
    BY ONLY <1>0, <1>6, Zenon DEF IsClosed, SelectDone, callMeNextTime
  <2>2. \A k \in Instance \ {j} : inst'[k] = inst[k]
    BY ONLY <1>0, <1>6, Zenon DEF IsClosed, SelectDone, callMeNextTime
  <2>3. UNCHANGED <<connection, up, ch>>
    BY ONLY <1>6, Zenon DEF IsClosed, SelectDone, callMeNextTime
  <2> QED BY ONLY <2>1, <2>2, <2>3, i \in Instance, Zenon DEF Alive
<1>7. ASSUME NEW j \in Instance, inst[j] # "stopped", inst' = [inst EXCEPT ![j] = "checking"],
             UNCHANGED <<connection, up, ch>>
      PROVE  Goal
  BY ONLY <1>0, <1>7, Zenon DEF Alive
<1>8. CASE Watch \/ LoseConnection \/ Restart \/ (CloseDone /\ UNCHANGED consumerVars)
  BY <1>1, <1>2, <1>3, <1>4, <1>8, Zenon DEF Watch, WatcherStep, LoseConnection, Restart, Connect
<1>9. ASSUME NEW j \in Instance, OutputStep(j) \/ Consume(j) \/ SelectClosed(j) PROVE Goal
  BY <1>2, <1>5, <1>6, <1>7, <1>9, Zenon DEF OutputStep, InstanceStep, Consume, SelectClosed, Received
<1>10. ASSUME NEW j \in Instance, NEW m \in Message, SelectMessage(j, m) \/ Send(j, m) PROVE Goal
  BY <1>1, <1>7, <1>10, Zenon DEF SelectMessage, Received, Send
<1>11. ASSUME NEW d \in Delivery, DeliveryStep(d) \/ Take(d) PROVE Goal
  BY <1>1, <1>2, <1>11, Zenon DEF DeliveryStep, SendOutput, Unmarshal, HandOff, Ack, Take
<1>12. CASE ConsumerStops \/ WorkerStops \/ (\E u \in acks : BrokerAcks(u)) \/ UNCHANGED vars
  BY <1>1, <1>12, Zenon DEF ConsumerStops, WorkerStops, BrokerAcks, vars
<1> QED BY <1>8, <1>9, <1>10, <1>11, <1>12, Zenon DEF Next

\* What a step does to the stage of a delivery.
LEMMA StageSteps ==
  ASSUME IInv, ZeroIsPast, [Next]_vars, ~Panicked', NEW d \in Delivery, stage'[d] # stage[d]
  PROVE  \/ d[1] # Zero /\ stage[d] = "none" /\ stage'[d] = "ahead"
         \/ d[1] # Zero /\ stage[d] = "ahead" /\ stage'[d] = "sending"
         \/ /\ d[1] = Zero /\ stage[d] = "none" /\ stage'[d] = "sending"
            /\ ~Alive(d[2], ch[d[2]]) /\ d[3] = ch[d[2]] /\ inst'[d[2]] = "checking"
         \/ SendOutput(d) \/ Unmarshal(d) \/ HandOff(d)
         \/ stage[d] = "handed" /\ stage'[d] = "finished"
<1> DEFINE Goal ==
      \/ d[1] # Zero /\ stage[d] = "none" /\ stage'[d] = "ahead"
      \/ d[1] # Zero /\ stage[d] = "ahead" /\ stage'[d] = "sending"
      \/ /\ d[1] = Zero /\ stage[d] = "none" /\ stage'[d] = "sending"
         /\ ~Alive(d[2], ch[d[2]]) /\ d[3] = ch[d[2]] /\ inst'[d[2]] = "checking"
      \/ SendOutput(d) \/ Unmarshal(d) \/ HandOff(d)
      \/ stage[d] = "handed" /\ stage'[d] = "finished"
<1>0. /\ inst \in [Instance -> InstanceState] /\ ch \in [Instance -> 0 .. connection]
      /\ stage \in [Delivery -> Stage] /\ connection \in Connection
      /\ 0 .. connection \subseteq Connection /\ Zero \notin Message
  <2>1. 0 .. connection \subseteq Connection
    BY DropsAssumption DEF IInv, TypeOK, Connection
  <2> QED BY <2>1, ConsumerAssumption, Zenon DEF IInv, TypeOK, ConnectionTypeOK
<1>1. ASSUME NEW i \in Instance, NEW x \in Message \cup {Zero}, Received(i, x)
      PROVE  /\ d = <<x, i, ch[i]>> /\ d[1] = x /\ d[2] = i /\ d[3] = ch[i]
             /\ stage'[d] = "sending" /\ inst[i] = "selecting" /\ inst'[i] = "checking"
  <2>1. <<x, i, ch[i]>> \in Delivery
    BY <1>0, <1>1, Zenon DEF Delivery
  <2>2. d = <<x, i, ch[i]>>
    BY <1>0, <1>1, <2>1, Zenon DEF Received
  <2> QED BY <1>0, <1>1, <2>1, <2>2, Zenon DEF Received
<1>2. ASSUME NEW i \in Instance, SelectClosed(i) PROVE Goal
  <2>1. /\ d[1] = Zero /\ d[2] = i /\ d[3] = ch[i]
        /\ stage'[d] = "sending" /\ inst[i] = "selecting" /\ inst'[i] = "checking"
    BY <1>1, <1>2, Zenon DEF SelectClosed
  <2>2. ~Alive(i, ch[i])
    BY <1>2, Zenon DEF SelectClosed
  <2>3. stage[d] = "none"
    BY <2>1, Zenon DEF ZeroIsPast
  <2> QED BY ONLY <2>1, <2>2, <2>3, Zenon
<1>3. ASSUME NEW i \in Instance, NEW m \in Message, SelectMessage(i, m) PROVE Goal
  <2>1. d = <<m, i, ch[i]>> /\ d[1] = m /\ stage'[d] = "sending"
    BY <1>1, <1>3, Zenon DEF SelectMessage
  <2>2. stage[d] = "ahead"
    BY <1>3, <2>1, Zenon DEF SelectMessage
  <2> QED BY <1>0, <2>1, <2>2, Zenon
<1>4. ASSUME NEW x \in Delivery, DeliveryStep(x) PROVE Goal
  <2>1. CASE x # d
    BY <1>0, <1>4, <2>1, Zenon DEF DeliveryStep, SendOutput, Unmarshal, HandOff, Ack, Panic, Panicked
  <2>2. CASE x = d
    BY <1>0, <1>4, <2>2, Zenon DEF DeliveryStep, Ack, Panic, Panicked
  <2> QED BY <2>1, <2>2, Zenon
<1>5. ASSUME NEW i \in Instance, NEW m \in Message, Send(i, m) PROVE Goal
  <2>1. m \in ready /\ Alive(i, ch[i]) /\ stage' = [stage EXCEPT ![<<m, i, ch[i]>>] = "ahead"]
    BY <1>5, Zenon DEF Send
  <2>2. <<m, i, ch[i]>> \in Delivery
    BY <1>0, Zenon DEF Delivery
  <2>3. d = <<m, i, ch[i]>>
    BY <1>0, <2>1, <2>2, Zenon
  <2>4. d[1] = m /\ d[2] = i /\ d[3] = ch[i] /\ stage'[d] = "ahead"
    BY <1>0, <2>1, <2>2, <2>3, Zenon
  <2>5. stage[d] = "none"
    BY <2>1, <2>4, Zenon DEF IInv, BrokerInv, Fresh, Open
  <2> QED BY <1>0, <2>4, <2>5, Zenon
<1> QED BY <1>2, <1>3, <1>4, <1>5, Zenon
        DEF Next, Watch, LoseConnection, Restart, OutputStep, Consume, Panic, Panicked, Take,
            BrokerAcks, ConsumerStops, WorkerStops, consumerVars, vars

\* No delivery begins in the step in which the process dies, or after it.
LEMMA PanicKeepsNone ==
  ASSUME IInv, [Next]_vars, Panicked', NEW d \in Delivery, stage[d] = "none"
  PROVE  stage'[d] = "none"
<1>1. CASE Die
  BY <1>1, Zenon DEF Die
<1>2. CASE UNCHANGED stage
  BY <1>2, Zenon
<1>3. ASSUME NEW i \in Instance, NEW x, Received(i, x) PROVE FALSE
  BY <1>3, Zenon DEF Received, Panicked, IInv, ConnectionInv, Idle
<1>4. ASSUME NEW i \in Instance, NEW m \in Message, Send(i, m) PROVE FALSE
  BY <1>4, Zenon DEF Send, connectionVars, Panicked, IInv, ConnectionInv, Idle
<1>5. ASSUME NEW e \in Delivery, SendOutput(e) \/ Unmarshal(e) \/ HandOff(e) \/ Ack(e) PROVE stage'[d] = "none"
  BY <1>1, <1>5, Zenon DEF SendOutput, Unmarshal, HandOff, Ack, IInv, TypeOK
<1> QED BY <1>1, <1>2, <1>3, <1>4, <1>5, Zenon
        DEF Next, Watch, LoseConnection, Restart, OutputStep, Consume, SelectClosed, SelectMessage,
            DeliveryStep, Take, BrokerAcks, ConsumerStops, WorkerStops, consumerVars, vars

\* ZeroIsPast is inductive with IInv.
LEMMA NextZeroIsPast == IInv /\ ZeroIsPast /\ [Next]_vars => ZeroIsPast'
<1> SUFFICES ASSUME IInv, ZeroIsPast, [Next]_vars, NEW d \in Delivery, d[1] = Zero, stage'[d] # "none"
             PROVE  ~Open(d)' /\ (inst'[d[2]] = "selecting" => ch'[d[2]] # d[3])
  BY Zenon DEF ZeroIsPast
<1>0. /\ d[2] \in Instance /\ ch[d[2]] \in 0 .. connection /\ connection \in Nat
      /\ d[3] \in Nat /\ (stage[d] # "none" => d[3] \in 0 .. connection)
  <2>1. d[2] \in Instance /\ d[3] \in Connection /\ ch[d[2]] \in 0 .. connection /\ connection \in Nat
    BY Zenon DEF Delivery, IInv, TypeOK, ConnectionTypeOK
  <2>2. stage[d] # "none" => d[3] <= connection
    BY Zenon DEF IInv, BrokerInv, Past
  <2> QED BY <2>1, <2>2, DropsAssumption DEF Connection
<1>1. \A c \in 0 .. connection : ~Alive(d[2], c) => ~Alive(d[2], c)'
  BY <1>0, ChannelsSettle, Zenon
<1>2. CASE stage[d] # "none"
  <2>1. d[3] \in 0 .. connection /\ ~Alive(d[2], d[3]) /\ (inst[d[2]] = "selecting" => ch[d[2]] # d[3])
    BY <1>0, <1>2, Zenon DEF ZeroIsPast, Open
  <2>2. inst'[d[2]] = "selecting" =>
          ch'[d[2]] = ch[d[2]] /\ (inst[d[2]] = "selecting" \/ Alive(d[2], ch[d[2]]))
    BY <1>0, ChannelsSettle, Zenon
  <2> QED BY <1>1, <2>1, <2>2, Zenon DEF Open
<1>3. CASE stage[d] = "none"
  <2>1. ~Panicked'
    BY <1>3, PanicKeepsNone, Zenon
  <2>2. ~Alive(d[2], ch[d[2]]) /\ d[3] = ch[d[2]] /\ inst'[d[2]] = "checking"
    BY <1>3, <2>1, StageSteps, Zenon DEF SendOutput, Unmarshal, HandOff
  <2> QED BY <1>0, <1>1, <2>2, Zenon DEF Open
<1> QED BY <1>2, <1>3, Zenon

\* The goroutines of startOutput have no reader any more, and no room.
OutputStuck == done /\ consumer = "stopped" /\ Cardinality(At("output")) >= BufferSize

\* The goroutines of Consumer.Consume have no reader any more, and no room.
EventsStuck == done /\ worker = "stopped" /\ Cardinality(events) >= BufferSize

\* What was told to stop stays so while the process lives.
LEMMA StoppedStays ==
  ASSUME IInv, [Next]_vars, ~Panicked', done
  PROVE  /\ done'
         /\ consumer = "stopped" => consumer' = "stopped"
         /\ worker = "stopped" => worker' = "stopped"
         /\ events' = events \/ \E d \in Delivery : HandOff(d) \/ Take(d)
<1> DEFINE Goal == /\ done'
                   /\ consumer = "stopped" => consumer' = "stopped"
                   /\ worker = "stopped" => worker' = "stopped"
                   /\ events' = events \/ \E d \in Delivery : HandOff(d) \/ Take(d)
<1>1. CASE done' = done /\ UNCHANGED <<consumer, worker, events>>
  BY <1>1, Zenon
<1>2. CASE Watch \/ LoseConnection
  BY <1>1, <1>2, Zenon
  DEF Watch, LoseConnection, WatcherStep, NotifyClose, ConnectionClosed, Connect, WatcherStops,
      ConnectionLost, consumerVars, Panicked, Panic
<1>3. CASE Restart \/ CloseDone
  BY <1>3, Zenon DEF Restart, CloseDone
<1>4. ASSUME NEW i \in Instance, OutputStep(i) PROVE Goal
  BY <1>1, <1>4, Zenon
  DEF OutputStep, InstanceStep, WaitForConnection, OpenChannel, IsClosed, SelectDone, callMeNextTime
<1>5. ASSUME NEW i \in Instance, Consume(i) \/ SelectClosed(i) PROVE Goal
  BY <1>1, <1>5, Zenon DEF Consume, SelectClosed, Received, Panic, Panicked, consumerVars
<1>6. ASSUME NEW i \in Instance, NEW m \in Message, Send(i, m) \/ SelectMessage(i, m) PROVE Goal
  BY <1>1, <1>6, Zenon DEF Send, SelectMessage, Received, connectionVars
<1>7. ASSUME NEW d \in Delivery, SendOutput(d) \/ Unmarshal(d) \/ Ack(d) PROVE Goal
  BY <1>1, <1>7, Zenon DEF SendOutput, Unmarshal, Ack, Panic, Panicked, connectionVars
<1>8. ASSUME NEW d \in Delivery, HandOff(d) \/ Take(d) PROVE Goal
  <2>1. done' = done /\ UNCHANGED <<consumer, worker>>
    BY <1>8, Zenon DEF HandOff, Take, connectionVars
  <2> QED BY <1>8, <2>1, Zenon
<1>9. CASE ConsumerStops \/ WorkerStops
  BY <1>9, Zenon DEF ConsumerStops, WorkerStops, connectionVars
<1>10. CASE (\E u \in acks : BrokerAcks(u)) \/ UNCHANGED vars
  BY <1>1, <1>10, Zenon DEF BrokerAcks, vars, connectionVars, consumerVars
<1> QED BY <1>2, <1>3, <1>4, <1>5, <1>6, <1>7, <1>8, <1>9, <1>10, Zenon DEF Next, DeliveryStep

\* A goroutine of startOutput that sends to a full outputChannel after Consume
\* has returned never gets through, nor does one of Consume that sends to a full
\* EventsChannel after Worker.Run has: neither send looks at done, so that only
\* a panic ends them.
THEOREM SendsBlockForEver ==
  Spec => [][/\ OutputStuck =>
                  Panicked' \/ (OutputStuck' /\ \A d \in At("sending") : stage'[d] = "sending")
             /\ EventsStuck =>
                  Panicked' \/ (EventsStuck' /\ \A d \in At("decoded") : stage'[d] = "decoded")]_vars
<1>1. ASSUME IInv, ZeroIsPast, [Next]_vars, OutputStuck, ~Panicked'
      PROVE  OutputStuck' /\ \A d \in At("sending") : stage'[d] = "sending"
  <2>1. \A d \in Delivery : ~SendOutput(d) /\ ~Unmarshal(d)
    <3>1. ~(Cardinality(At("output")) < BufferSize)
      <4>1. Cardinality(At("output")) \in Nat
        <5>1. At("output") \subseteq Delivery
          BY Zenon DEF At
        <5> QED BY <5>1, FewerDeliveries, Zenon
      <4> QED BY <1>1, <4>1, ConsumerAssumption DEF OutputStuck
    <3> QED BY <1>1, <3>1, Zenon DEF OutputStuck, SendOutput, Unmarshal
  <2>2. \A d \in Delivery : stage[d] \in {"sending", "output"} \/ stage'[d] = "output" => stage'[d] = stage[d]
    BY <1>1, <2>1, StageSteps, Zenon DEF HandOff, IInv, TypeOK
  <2>3. At("output")' = At("output")
    BY <2>2, Zenon DEF At
  <2> QED BY <1>1, <2>2, <2>3, StoppedStays, Zenon DEF OutputStuck, At
<1>2. ASSUME IInv, ZeroIsPast, [Next]_vars, EventsStuck, ~Panicked'
      PROVE  EventsStuck' /\ \A d \in At("decoded") : stage'[d] = "decoded"
  <2>1. \A d \in Delivery : ~HandOff(d) /\ ~Take(d)
    <3>1. ~(Cardinality(events) < BufferSize)
      <4>1. Cardinality(events) \in Nat
        <5>1. events \subseteq Delivery
          BY <1>2, Zenon DEF IInv, TypeOK
        <5> QED BY <5>1, FewerDeliveries, Zenon
      <4> QED BY <1>2, <4>1, ConsumerAssumption DEF EventsStuck
    <3> QED BY <1>2, <3>1, Zenon DEF EventsStuck, HandOff, Take
  <2>2. \A d \in At("decoded") : stage'[d] = "decoded"
    BY <1>2, <2>1, StageSteps, Zenon DEF At, SendOutput, Unmarshal
  <2>3. events' = events
    BY <1>2, <2>1, StoppedStays, Zenon DEF EventsStuck
  <2> QED BY <1>2, <2>2, <2>3, StoppedStays, Zenon DEF EventsStuck
<1>3. Init => ZeroIsPast
  BY Zenon DEF Init, ZeroIsPast
<1>4. ASSUME IInv, ZeroIsPast, [Next]_vars
      PROVE  /\ OutputStuck =>
                  Panicked' \/ (OutputStuck' /\ \A d \in At("sending") : stage'[d] = "sending")
             /\ EventsStuck =>
                  Panicked' \/ (EventsStuck' /\ \A d \in At("decoded") : stage'[d] = "decoded")
  BY <1>1, <1>2, <1>4, Zenon
<1> QED BY <1>3, <1>4, Inductive, NextZeroIsPast, PTL DEF Spec
=============================================================================
