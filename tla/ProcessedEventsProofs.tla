------------------------- MODULE ProcessedEventsProofs -------------------------
(***************************************************************************)
(* What holds of the pipeline from the processed event consumer to            *)
(* inputChannel, for any number of events and any capacities.                *)
(***************************************************************************)
EXTENDS ProcessedEvents, FiniteSetTheorems, TLAPS

ChannelsBounded ==
  Cardinality(At("events")) <= EventsSize /\ Cardinality(At("input")) <= BufferSize

Types ==
  /\ conn \in {"none", "open", "lost", "closed"}
  /\ loop \in Setup \cup {"selecting", "closing", "closed"}
  /\ stage \in [Event -> Stage]
  /\ ack \in [Event -> {"none", "acked", "failed"}]
  /\ coordinator \in {"running", "stopped"}
  /\ publisher \in {"running", "stopped"}
  /\ panicked \in BOOLEAN
  /\ done \in BOOLEAN

\* Consume leaves its loop only when done is closed.
LoopEndsAtDone == loop \in {"closing", "closed"} => done

IInv == Types /\ ChannelsBounded /\ LoopEndsAtDone /\ RunningSurvives

LEMMA AtIsFinite == \A s : IsFiniteSet(At(s)) /\ Cardinality(At(s)) \in Nat
<1> SUFFICES ASSUME NEW s PROVE IsFiniteSet(At(s)) /\ Cardinality(At(s)) \in Nat
  BY Zenon
<1>1. At(s) \subseteq Event
  BY Zenon DEF At
<1>2. IsFiniteSet(At(s))
  BY <1>1, PipelineAssumption, FS_Subset, Zenon
<1> QED BY <1>2, FS_CardinalityType, Zenon

LEMMA InitIInv == Init => IInv
<1> SUFFICES ASSUME Init PROVE IInv
  BY Zenon
<1>1. panicked \in BOOLEAN /\ done \in BOOLEAN
  BY Zenon DEF Init
<1>2. Types
  BY <1>1, Zenon DEF Init, Types, Stage, Setup
<1>3. At("events") = {} /\ At("input") = {}
  BY Zenon DEF Init, At
<1>4. ChannelsBounded
  BY <1>3, FS_EmptySet, PipelineAssumption DEF ChannelsBounded
<1>5. LoopEndsAtDone /\ RunningSurvives
  BY Zenon DEF Init, LoopEndsAtDone, RunningSurvives
<1> QED BY <1>2, <1>4, <1>5, Zenon DEF IInv

-----------------------------------------------------------------------------
(* The capacities *)

\* A stage that no event enters holds no more than before.
LEMMA NoneEnters ==
  ASSUME NEW s, \A e \in Event : stage'[e] = s => stage[e] = s
  PROVE  /\ Cardinality(At(s)') \in Nat
         /\ Cardinality(At(s)') <= Cardinality(At(s))
<1>1. At(s)' \subseteq At(s)
  BY Zenon DEF At
<1> QED BY <1>1, AtIsFinite, FS_Subset, FS_CardinalityType, Zenon

\* A set with one more element.
LEMMA AddOne ==
  ASSUME NEW S, IsFiniteSet(S), NEW x
  PROVE  /\ IsFiniteSet(S \cup {x})
         /\ Cardinality(S \cup {x}) \in Nat
         /\ Cardinality(S \cup {x}) <= Cardinality(S) + 1
<1>1. IsFiniteSet(S \cup {x}) /\ Cardinality(S \cup {x}) = IF x \in S THEN Cardinality(S) ELSE Cardinality(S) + 1
  BY FS_AddElement, Zenon
<1>2. Cardinality(S) \in Nat
  BY FS_CardinalityType, Zenon
<1> QED BY <1>1, <1>2

\* A stage that one event enters holds at most one more.
LEMMA OneEnters ==
  ASSUME NEW s, NEW e \in Event, \A x \in Event \ {e} : stage'[x] = stage[x]
  PROVE  /\ Cardinality(At(s)') \in Nat
         /\ Cardinality(At(s)') <= Cardinality(At(s)) + 1
<1>1. At(s)' \subseteq At(s) \cup {e}
  BY Zenon DEF At
<1>2. IsFiniteSet(At(s) \cup {e}) /\ Cardinality(At(s) \cup {e}) \in Nat
  BY AtIsFinite, AddOne, Zenon
<1>3. Cardinality(At(s) \cup {e}) <= Cardinality(At(s)) + 1
  BY AtIsFinite, AddOne, Zenon
<1>4. Cardinality(At(s)') \in Nat /\ Cardinality(At(s)') <= Cardinality(At(s) \cup {e})
  BY <1>1, <1>2, FS_Subset, FS_CardinalityType, Zenon
<1> QED BY <1>2, <1>3, <1>4, AtIsFinite

\* Sends to a full events, and to a full inputChannel, wait.
LEMMA NextBounded == IInv /\ [Next]_vars => ChannelsBounded'
<1> SUFFICES ASSUME IInv, [Next]_vars PROVE ChannelsBounded'
  BY Zenon
<1> USE DEF IInv, Types
<1> DEFINE Enters(s) == \E e \in Event : stage[e] # s /\ stage'[e] = s
<1>1. ASSUME NEW s, ~Enters(s) PROVE Cardinality(At(s)') <= Cardinality(At(s)) /\ Cardinality(At(s)') \in Nat
  BY <1>1, NoneEnters, Zenon
<1>2. CASE ~Enters("events") /\ ~Enters("input")
  BY <1>1, <1>2, AtIsFinite, PipelineAssumption DEF ChannelsBounded
<1>3. ASSUME NEW e \in Event, SendEvent(e) PROVE ChannelsBounded'
  <2>1. CASE loop # "closed" /\ To(e, "events") /\ Cardinality(At("events")) < EventsSize
    <3>1. Cardinality(At("events")') \in Nat /\ Cardinality(At("events")') <= Cardinality(At("events")) + 1
      BY <2>1, OneEnters, Zenon DEF To
    <3>2. ~Enters("input")
      BY <2>1, Zenon DEF To
    <3> QED BY <1>1, <2>1, <3>1, <3>2, AtIsFinite, PipelineAssumption DEF ChannelsBounded
  <2>2. CASE UNCHANGED stage
    BY <1>2, <2>2, Zenon
  <2> QED BY <1>3, <2>1, <2>2, Zenon DEF SendEvent
<1>4. ASSUME NEW e \in Event, Publish(e) PROVE ChannelsBounded'
  <2>1. CASE To(e, "input") /\ Cardinality(At("input")) < BufferSize
    <3>1. Cardinality(At("input")') \in Nat /\ Cardinality(At("input")') <= Cardinality(At("input")) + 1
      BY <2>1, OneEnters, Zenon DEF To
    <3>2. ~Enters("events")
      BY <2>1, Zenon DEF To
    <3> QED BY <1>1, <2>1, <3>1, <3>2, AtIsFinite, PipelineAssumption DEF ChannelsBounded
  <2>2. CASE To(e, "notFound")
    BY <1>2, <2>2, Zenon DEF To
  <2> QED BY <1>4, <2>1, <2>2, Zenon DEF Publish
<1>5. ASSUME NEW e \in Event,
             CorePublishes(e) \/ SelectMessage(e) \/ UnmarshalBytesToProcessedEvent(e)
             \/ TakeEvent(e) \/ Drain(e)
      PROVE  ChannelsBounded'
  BY <1>2, <1>5, Zenon DEF CorePublishes, SelectMessage, UnmarshalBytesToProcessedEvent, TakeEvent, Drain, To
<1>6. CASE ConnectionLost \/ SetupFails \/ Close
  BY <1>2, <1>6, Zenon DEF ConnectionLost, SetupFails, Close, QueueGone
<1>7. CASE UNCHANGED stage
  BY <1>2, <1>7, Zenon
<1> QED BY <1>3, <1>4, <1>5, <1>6, <1>7, Zenon
        DEF Next, Goroutine, MessageStep, Ack, Dial, SetupCall, DeclareQueue, QueueBind, Consume,
            SelectDone, CoordinatorStops, PublisherStops, CloseDone, vars

-----------------------------------------------------------------------------
(* The other invariants *)

\* Every action keeps the types.
LEMMA NextTypes == IInv /\ [Next]_vars => Types'
<1> SUFFICES ASSUME IInv, [Next]_vars PROVE Types'
  BY Zenon
<1> USE DEF IInv, Types, Stage, To
<1>1. panicked' \in BOOLEAN /\ done' \in BOOLEAN
  <2>1. CASE UNCHANGED <<panicked, done>>
    BY <2>1, Zenon
  <2>2. CASE panicked' = (conn = "lost") /\ UNCHANGED done
    BY <2>2, Zenon
  <2>3. CASE panicked' = TRUE /\ UNCHANGED done
    BY <2>3, Zenon
  <2>4. CASE done' = TRUE /\ UNCHANGED panicked
    BY <2>4, Zenon
  <2> QED BY <2>1, <2>2, <2>3, <2>4, Zenon
          DEF Next, Goroutine, MessageStep, CorePublishes, SelectMessage,
              UnmarshalBytesToProcessedEvent, SendEvent, Ack, TakeEvent, Publish, Drain,
              ConnectionLost, SetupFails, Dial, SetupCall, DeclareQueue, QueueBind, Consume,
              SelectDone, Close, CoordinatorStops, PublisherStops, CloseDone, vars
<1>2. ASSUME NEW e \in Event, CorePublishes(e) \/ SelectMessage(e) \/ MessageStep(e) PROVE Types'
  BY <1>1, <1>2, Zenon DEF CorePublishes, SelectMessage, MessageStep, UnmarshalBytesToProcessedEvent, SendEvent
<1>3. ASSUME NEW e \in Event, Ack(e) \/ TakeEvent(e) \/ Publish(e) \/ Drain(e) PROVE Types'
  BY <1>1, <1>3, Zenon DEF Ack, TakeEvent, Publish, Drain
<1>4. CASE ConnectionLost \/ SelectDone \/ Close
  BY <1>1, <1>4, Zenon DEF ConnectionLost, SelectDone, Close, QueueGone
<1>5. CASE SetupFails
  BY <1>1, <1>5, Zenon DEF SetupFails, QueueGone
<1>6. CASE Dial \/ DeclareQueue \/ QueueBind \/ Consume
  BY <1>1, <1>6, Zenon DEF Dial, DeclareQueue, QueueBind, Consume, SetupCall, Setup
<1>7. CASE CoordinatorStops \/ PublisherStops \/ CloseDone \/ UNCHANGED vars
  BY <1>1, <1>7, Zenon DEF CoordinatorStops, PublisherStops, CloseDone, vars
<1> QED BY <1>2, <1>3, <1>4, <1>5, <1>6, <1>7, Zenon DEF Next, Goroutine

\* Calls of the setup panic, and closing, and sending to a closed events, which
\* follow done.
LEMMA NextShutdown ==
  IInv /\ [Next]_vars => LoopEndsAtDone' /\ RunningSurvives'
<1> SUFFICES ASSUME IInv, [Next]_vars PROVE LoopEndsAtDone' /\ RunningSurvives'
  BY Zenon
<1> USE DEF IInv, LoopEndsAtDone, RunningSurvives
<1>1. ASSUME NEW e \in Event, SendEvent(e) PROVE LoopEndsAtDone' /\ RunningSurvives'
  BY <1>1 DEF SendEvent
<1>2. CASE SelectDone \/ Close
  BY <1>2, Zenon DEF SelectDone, Close
<1>3. CASE CloseDone
  BY <1>3, Zenon DEF CloseDone
<1>4. CASE SetupFails
  BY <1>4, Zenon DEF SetupFails
<1>5. CASE Dial \/ DeclareQueue \/ QueueBind \/ Consume
  <2>1. loop' \in {"declaring", "binding", "consuming", "selecting"}
    BY <1>5, Zenon DEF Dial, DeclareQueue, QueueBind, Consume, SetupCall
  <2>2. loop' \notin {"closing", "closed"}
    BY <2>1
  <2>3. ~panicked'
    BY <1>5, Zenon DEF Dial, DeclareQueue, QueueBind, Consume, SetupCall
  <2> QED BY <2>2, <2>3, Zenon
<1>6. CASE UNCHANGED <<loop, panicked, done>>
  BY <1>6, Zenon
<1> QED BY <1>1, <1>2, <1>3, <1>4, <1>5, <1>6, Zenon
        DEF Next, Goroutine, MessageStep, CorePublishes, SelectMessage,
            UnmarshalBytesToProcessedEvent, Ack, TakeEvent, Publish, Drain, ConnectionLost,
            CoordinatorStops, PublisherStops, vars

\* How an event ends says what it was: only a malformed one is rejected, only one
\* of an unknown type finds no publisher, and an acknowledgement, successful or
\* not, comes after the send, so that a lost event has had none.
Ends ==
  \A e \in Event : /\ stage[e] = "rejected" => e \in Malformed
                   /\ stage[e] = "notFound" => e \in NoPublisher
                   /\ ack[e] # "none" => stage[e] \in Sent

\* The loops run until done is closed.
LoopsRun == ~done => coordinator = "running" /\ publisher = "running"

\* Every action keeps Ends: an event is lost from the core or the queue only,
\* before it could be acknowledged.
LEMMA NextEnds == IInv /\ Ends /\ [Next]_vars => Ends'
<1> SUFFICES ASSUME IInv, Ends, [Next]_vars PROVE Ends'
  BY Zenon
<1> USE DEF IInv, Types, Ends, Sent, To
<1>1. ASSUME NEW e \in Event, CorePublishes(e) \/ SelectMessage(e) PROVE Ends'
  BY <1>1, Zenon DEF CorePublishes, SelectMessage
<1>2. ASSUME NEW e \in Event, MessageStep(e) PROVE Ends'
  BY <1>2, Zenon DEF MessageStep, UnmarshalBytesToProcessedEvent, SendEvent
<1>3. ASSUME NEW e \in Event, Ack(e) PROVE Ends'
  BY <1>3, Zenon DEF Ack
<1>4. ASSUME NEW e \in Event, TakeEvent(e) \/ Publish(e) \/ Drain(e) PROVE Ends'
  BY <1>4, Zenon DEF TakeEvent, Publish, Drain
<1>5. CASE ConnectionLost \/ SetupFails \/ Close
  BY <1>5, ZenonT(40) DEF ConnectionLost, SetupFails, Close, QueueGone
<1>6. CASE UNCHANGED <<stage, ack>>
  BY <1>6, Zenon
<1> QED BY <1>1, <1>2, <1>3, <1>4, <1>5, <1>6, Zenon
        DEF Next, Goroutine, Dial, SetupCall, DeclareQueue, QueueBind, Consume, SelectDone,
            CoordinatorStops, PublisherStops, CloseDone, vars

\* Only done stops the coordinator and the publisher.
LEMMA NextLoopsRun == LoopsRun /\ [Next]_vars => LoopsRun'
<1> SUFFICES ASSUME LoopsRun, [Next]_vars PROVE LoopsRun'
  BY Zenon
<1>1. CASE UNCHANGED <<coordinator, publisher, done>>
  BY <1>1, Zenon DEF LoopsRun
<1>2. CASE CoordinatorStops \/ PublisherStops \/ CloseDone
  <2>1. done'
    BY <1>2 DEF CoordinatorStops, PublisherStops, CloseDone
  <2> QED BY <2>1, Zenon DEF LoopsRun
<1>3. ASSUME NEW e \in Event, CorePublishes(e) \/ SelectMessage(e) \/ MessageStep(e) PROVE LoopsRun'
  BY <1>1, <1>3, Zenon DEF CorePublishes, SelectMessage, MessageStep, UnmarshalBytesToProcessedEvent, SendEvent
<1>4. ASSUME NEW e \in Event, Ack(e) \/ TakeEvent(e) \/ Publish(e) \/ Drain(e) PROVE LoopsRun'
  BY <1>1, <1>4, Zenon DEF Ack, TakeEvent, Publish, Drain
<1>5. CASE ConnectionLost \/ SelectDone \/ Close \/ UNCHANGED vars
  BY <1>1, <1>5, Zenon DEF ConnectionLost, SelectDone, Close, vars
<1>6. CASE SetupFails \/ Dial \/ DeclareQueue \/ QueueBind \/ Consume
  BY <1>1, <1>6, Zenon DEF SetupFails, Dial, DeclareQueue, QueueBind, Consume, SetupCall
<1> QED BY <1>2, <1>3, <1>4, <1>5, <1>6, Zenon DEF Next, Goroutine

LEMMA Inductive == Spec => []IInv
<1>1. IInv /\ [Next]_vars => IInv'
  BY NextTypes, NextBounded, NextShutdown, Zenon DEF IInv
<1> QED BY InitIInv, <1>1, PTL DEF Spec

\* Every reachable state of the pipeline has the declared types, and the Go
\* channels events and inputChannel never hold more than their capacities.
THEOREM PipelineTypeCorrect == Spec => []TypeOK
<1>1. IInv => TypeOK
  BY Zenon DEF IInv, Types, ChannelsBounded, TypeOK
<1> QED BY Inductive, <1>1, PTL

\* Once Consume is in its loop, and before done is closed, no goroutine of the
\* pipeline panics, even when the connection is lost.
THEOREM PanicsAtSetupOrShutdown == Spec => []RunningSurvives
<1>1. IInv => RunningSurvives
  BY Zenon DEF IInv
<1> QED BY Inductive, <1>1, PTL

\* The way of an event through the pipeline: no goroutine skips, repeats or undoes
\* a step of it, and it is lost before Consume has taken it or not at all.
Way ==
  {<<"core", "queue">>, <<"core", "lost">>, <<"queue", "lost">>, <<"queue", "received">>,
   <<"received", "rejected">>, <<"received", "sending">>, <<"sending", "events">>,
   <<"events", "coordinating">>, <<"coordinating", "notFound">>, <<"coordinating", "input">>,
   <<"input", "published">>}

\* An event that Consume took from the queue is not lost any more, by a lost
\* connection, a failed acknowledgement or the closing of events: each step takes
\* it on along its way.
THEOREM TakenIsKept ==
  Spec => [][\A e \in Event : stage'[e] = stage[e] \/ <<stage[e], stage'[e]>> \in Way]_vars
<1>1. ASSUME Types, [Next]_vars
      PROVE  \A e \in Event : stage'[e] = stage[e] \/ <<stage[e], stage'[e]>> \in Way
  <2> SUFFICES ASSUME NEW f \in Event PROVE stage'[f] = stage[f] \/ <<stage[f], stage'[f]>> \in Way
    BY Zenon
  <2> USE <1>1 DEF Types, To, Way
  <2>1. ASSUME NEW e \in Event, CorePublishes(e) \/ SelectMessage(e) \/ MessageStep(e)
        PROVE  stage'[f] = stage[f] \/ <<stage[f], stage'[f]>> \in Way
    BY <2>1, Zenon DEF CorePublishes, SelectMessage, MessageStep, UnmarshalBytesToProcessedEvent, SendEvent
  <2>2. ASSUME NEW e \in Event, TakeEvent(e) \/ Publish(e) \/ Drain(e)
        PROVE  stage'[f] = stage[f] \/ <<stage[f], stage'[f]>> \in Way
    BY <2>2, Zenon DEF TakeEvent, Publish, Drain
  <2>3. CASE ConnectionLost \/ SetupFails \/ Close
    BY <2>3, Zenon DEF ConnectionLost, SetupFails, Close, QueueGone
  <2>4. CASE UNCHANGED stage
    BY <2>4, Zenon
  <2> QED BY <2>1, <2>2, <2>3, <2>4, Zenon
          DEF Next, Goroutine, Ack, Dial, SetupCall, DeclareQueue, QueueBind, Consume,
              SelectDone, CoordinatorStops, PublisherStops, CloseDone, vars
<1>2. IInv => Types
  BY Zenon DEF IInv
<1> QED BY Inductive, <1>1, <1>2, PTL DEF Spec

\* Once Consume is in its loop, and until done is closed, every loop of the
\* pipeline runs; an event that ended short of the task queue was malformed, had no
\* publisher, or was lost without an acknowledgement.  This is the safety half of
\* EventuallyPublished and AckedIsPublished: whatever else is on its way can still
\* move.
THEOREM KnownEventsGoThrough ==
  Spec => []/\ Ends
            /\ ~done /\ loop \notin Setup
               => ~panicked /\ loop = "selecting" /\ coordinator = "running" /\ publisher = "running"
<1>1. Init => Ends /\ LoopsRun
  BY Zenon DEF Init, Ends, LoopsRun
<1>2. IInv /\ LoopsRun =>
        (~done /\ loop \notin Setup
         => ~panicked /\ loop = "selecting" /\ coordinator = "running" /\ publisher = "running")
  BY Zenon DEF IInv, Types, LoopsRun, LoopEndsAtDone, RunningSurvives
<1> QED BY Inductive, <1>1, <1>2, NextEnds, NextLoopsRun, PTL DEF Spec
=============================================================================
