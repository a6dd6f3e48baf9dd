-------------------------- MODULE SimpleChannelProofs --------------------------
(***************************************************************************)
(* Proofs about the manager's internal broker.  All of them rest on the     *)
(* order of the attempts of a delivery (those before the live one have      *)
(* timed out, those after it have not begun) and on every project being     *)
(* paid for by a copy that the worker took.                                 *)
(***************************************************************************)
EXTENDS SimpleChannel, FiniteSetTheorems, TLAPS

Inputs == {m \in Message : user[m] = "input"}

\* The k-th attempt is the last one of its delivery.
Live(m, k) ==
  /\ attempt[<<m, k>>] \in {"waiting", "acked"}
  /\ \A j \in 1 .. MaxAttempts :
       /\ j < k => attempt[<<m, j>>] = "timedOut"
       /\ k < j => attempt[<<m, j>>] = "none"

\* Attempts are made in order, and only for a message that was taken.
Ordered ==
  \A m \in Message :
    IF user[m] = "delivering"
    THEN \E k \in 1 .. MaxAttempts : Live(m, k)
    ELSE \A k \in 1 .. MaxAttempts : attempt[<<m, k>>] = "none"

LEMMA InputsFinite == IsFiniteSet(Inputs)
  BY FS_Subset, SimpleAssumption, Zenon DEF Inputs

\* Every reachable state has the declared types, and inputChannel never exceeds
\* its capacity (the send in Register waits for room).
THEOREM SimpleTypeCorrect == Spec => []TypeOK
<1>1. Init => TypeOK
  <2> SUFFICES ASSUME Init PROVE TypeOK
    BY Zenon
  <2>1. Attempt # {}
    <3>1. PICK m \in Message : TRUE
      BY SimpleAssumption, Zenon
    <3>2. <<m, 1>> \in Attempt
      BY SimpleAssumption DEF Attempt
    <3> QED BY <3>2, Zenon
  <2>2. current \in Attempt
    BY <2>1, Zenon DEF Init
  <2>3. {m \in Message : user[m] = "input"} = {}
    BY Zenon DEF Init
  <2>4. Cardinality({m \in Message : user[m] = "input"}) <= BufferSize
    BY <2>3, FS_EmptySet, SimpleAssumption
  <2>5. /\ user \in [Message -> {"new", "input", "delivering"}]
        /\ attempt \in [Attempt -> AttemptState]
        /\ copy \in [Attempt -> CopyState]
        /\ instance \in [Instance -> {"running", "stopped"}]
        /\ worker \in {"idle", "creating", "acking", "stopped"}
        /\ done \in BOOLEAN
        /\ hasErr \in BOOLEAN
    BY Zenon DEF Init, AttemptState, CopyState
  <2>6. output \in Seq(Attempt) /\ projects \in [Message -> Nat]
    <3>1. output = << >> /\ projects = [m \in Message |-> 0]
      BY Zenon DEF Init
    <3> QED BY <3>1
  <2> QED BY <2>2, <2>4, <2>5, <2>6, Zenon DEF TypeOK
<1>2. TypeOK /\ [Next]_vars => TypeOK'
  <2> SUFFICES ASSUME TypeOK, [Next]_vars PROVE TypeOK'
    BY Zenon
  <2> USE SimpleAssumption DEF AttemptState, CopyState
  <2>1. ASSUME NEW m \in Message, Register(m) PROVE TypeOK'
    <3>1. Inputs' = Inputs \cup {m}
      BY <2>1, Zenon DEF Register, Inputs, TypeOK
    <3>2. m \notin Inputs
      BY <2>1, Zenon DEF Register, Inputs
    <3>3. Cardinality(Inputs') = Cardinality(Inputs) + 1
      BY <3>1, <3>2, InputsFinite, FS_AddElement, Zenon
    <3>4. Cardinality(Inputs) < BufferSize /\ Cardinality(Inputs) \in Nat
      BY <2>1, InputsFinite, FS_CardinalityType, Zenon DEF Register, Inputs
    <3>5. Cardinality(Inputs') <= BufferSize
      BY <3>3, <3>4
    <3> QED BY <2>1, <3>5, Zenon DEF Register, TypeOK, Inputs
  <2>2. ASSUME NEW i \in Instance, NEW m \in Message, startConsume(i, m) PROVE TypeOK'
    <3>1. Inputs' \subseteq Inputs
      BY <2>2, Zenon DEF startConsume, Inputs, TypeOK
    <3>2. /\ Cardinality(Inputs') <= Cardinality(Inputs)
          /\ Cardinality(Inputs) \in Nat
          /\ Cardinality(Inputs') \in Nat
      BY <3>1, InputsFinite, FS_Subset, FS_CardinalityType, Zenon
    <3>3. Cardinality(Inputs') <= BufferSize
      BY <3>2 DEF TypeOK, Inputs
    <3>4. <<m, 1>> \in Attempt
      BY DEF Attempt
    <3> QED BY <2>2, <3>3, <3>4, Zenon DEF startConsume, TypeOK, Inputs
  <2>3. ASSUME NEW i \in Instance, InstanceStops(i) PROVE TypeOK'
    BY <2>3, Zenon DEF InstanceStops, TypeOK
  <2>4. ASSUME NEW m \in Message, NEW k \in 1 .. MaxAttempts, Timeout(m, k) PROVE TypeOK'
    BY <2>4, Zenon DEF Timeout, TypeOK
  <2>5. ASSUME NEW x \in Attempt, publishMessage(x) PROVE TypeOK'
    BY <2>5 DEF publishMessage, TypeOK
  <2>6. CASE WorkerTakes
    BY <2>6 DEF WorkerTakes, TypeOK
  <2>7. CASE Create
    <3>1. current[1] \in Message
      BY Zenon DEF TypeOK, Attempt
    <3>2. projects' \in [Message -> Nat]
      BY <2>7, <3>1 DEF Create, CreateProject, TypeOK
    <3>3. copy' \in [Attempt -> CopyState]
      BY <2>7, Zenon DEF Create, CreateProject, TypeOK
    <3>4. worker' \in {"idle", "creating", "acking", "stopped"}
      BY <2>7, Zenon DEF Create, CreateProject
    <3>5. UNCHANGED <<user, attempt, output, current, instance, done, hasErr>>
      BY <2>7, Zenon DEF Create, CreateProject
    <3> QED BY <3>2, <3>3, <3>4, <3>5, Zenon DEF TypeOK
  <2>8. CASE Ack
    BY <2>8, Zenon DEF Ack, TypeOK
  <2>9. CASE WorkerStops
    BY <2>9, Zenon DEF WorkerStops, TypeOK
  <2>10. CASE CloseDone
    BY <2>10, Zenon DEF CloseDone, TypeOK
  <2>11. CASE UNCHANGED vars
    BY <2>11, Zenon DEF vars, TypeOK
  <2> QED BY <2>1, <2>2, <2>3, <2>4, <2>5, <2>6, <2>7, <2>8, <2>9, <2>10, <2>11, Zenon DEF Next
<1> QED BY <1>1, <1>2, PTL DEF Spec

LEMMA OrderedInit == Init => Ordered
<1> SUFFICES ASSUME Init PROVE Ordered
  BY Zenon
<1>1. \A m \in Message, k \in 1 .. MaxAttempts : <<m, k>> \in Attempt
  BY Zenon DEF Attempt
<1>2. user = [n \in Message |-> "new"] /\ attempt = [x \in Attempt |-> "none"]
  BY Zenon DEF Init
<1> QED BY <1>1, <1>2, Zenon DEF Ordered

\* Where the attempts and the deliveries stay as they are, so does their order.
LEMMA OrderedSame ==
  ASSUME Ordered, UNCHANGED attempt,
         \A m \in Message : (user[m] = "delivering") = (user'[m] = "delivering")
  PROVE  Ordered'
<1> SUFFICES ASSUME NEW m \in Message
             PROVE IF user'[m] = "delivering"
                   THEN \E k \in 1 .. MaxAttempts : Live(m, k)'
                   ELSE \A k \in 1 .. MaxAttempts : attempt'[<<m, k>>] = "none"
  BY Zenon DEF Ordered
<1>1. \A k \in 1 .. MaxAttempts : Live(m, k) => Live(m, k)'
  BY Zenon DEF Live
<1>2. CASE user[m] = "delivering"
  BY <1>1, <1>2, Zenon DEF Ordered
<1>3. CASE user[m] # "delivering"
  BY <1>3, Zenon DEF Ordered
<1> QED BY <1>2, <1>3, Zenon

LEMMA OrderedStep ==
  ASSUME TypeOK, Ordered, [Next]_vars
  PROVE  Ordered'
<1> USE SimpleAssumption
<1>1. ASSUME NEW m \in Message, Register(m) PROVE Ordered'
  BY <1>1, OrderedSame, Zenon DEF Register, TypeOK
<1>2. ASSUME NEW i \in Instance, NEW m \in Message, startConsume(i, m) PROVE Ordered'
  <2> SUFFICES ASSUME NEW n \in Message
               PROVE IF user'[n] = "delivering"
                     THEN \E k \in 1 .. MaxAttempts : Live(n, k)'
                     ELSE \A k \in 1 .. MaxAttempts : attempt'[<<n, k>>] = "none"
    BY Zenon DEF Ordered
  <2>1. CASE n = m
    <3>1. user'[m] = "delivering"
      BY <1>2, Zenon DEF startConsume, TypeOK
    <3>2. \A k \in 1 .. MaxAttempts : attempt[<<m, k>>] = "none" /\ <<m, k>> \in Attempt
      BY <1>2, Zenon DEF startConsume, Ordered, Attempt
    <3>3. Live(m, 1)'
      BY <1>2, <3>2 DEF startConsume, Live, TypeOK
    <3> QED BY <2>1, <3>1, <3>3
  <2>2. CASE n # m
    <3>1. /\ user'[n] = user[n]
          /\ \A k \in 1 .. MaxAttempts : attempt'[<<n, k>>] = attempt[<<n, k>>]
      BY <1>2, <2>2, Zenon DEF startConsume, TypeOK, Attempt
    <3> QED BY <3>1, ZenonT(40) DEF Ordered, Live
  <2> QED BY <2>1, <2>2, Zenon
<1>3. ASSUME NEW i \in Instance, InstanceStops(i) PROVE Ordered'
  BY <1>3, OrderedSame, Zenon DEF InstanceStops
<1>4. ASSUME NEW m \in Message, NEW k \in 1 .. MaxAttempts, Timeout(m, k) PROVE Ordered'
  <2> SUFFICES ASSUME NEW n \in Message
               PROVE IF user'[n] = "delivering"
                     THEN \E j \in 1 .. MaxAttempts : Live(n, j)'
                     ELSE \A j \in 1 .. MaxAttempts : attempt'[<<n, j>>] = "none"
    BY Zenon DEF Ordered
  <2>1. CASE n = m
    <3>1. user[m] = "delivering" /\ user'[m] = user[m]
      BY <1>4, Zenon DEF Timeout, Ordered
    <3>2. PICK l \in 1 .. MaxAttempts : Live(m, l)
      BY <3>1, Zenon DEF Ordered
    <3>3. l = k
      BY <1>4, <3>2 DEF Timeout, Live
    <3>4. k + 1 \in 1 .. MaxAttempts
      BY <1>4 DEF Timeout
    <3>5. \A j \in 1 .. MaxAttempts : <<m, j>> \in Attempt
      BY Zenon DEF Attempt
    <3>6. /\ attempt'[<<m, k + 1>>] = "waiting"
          /\ attempt'[<<m, k>>] = "timedOut"
          /\ \A j \in 1 .. MaxAttempts :
               j # k /\ j # k + 1 => attempt'[<<m, j>>] = attempt[<<m, j>>]
      BY <1>4, <3>4, <3>5 DEF Timeout, TypeOK
    <3>7. /\ \A j \in 1 .. MaxAttempts : j < k => attempt[<<m, j>>] = "timedOut"
          /\ \A j \in 1 .. MaxAttempts : k < j => attempt[<<m, j>>] = "none"
      BY <3>2, <3>3, Zenon DEF Live
    <3>8. \A j \in 1 .. MaxAttempts : j < k + 1 => attempt'[<<m, j>>] = "timedOut"
      BY <3>6, <3>7
    <3>9. \A j \in 1 .. MaxAttempts : k + 1 < j => attempt'[<<m, j>>] = "none"
      BY <3>6, <3>7
    <3>10. Live(m, k + 1)'
      BY <3>6, <3>8, <3>9, Zenon DEF Live
    <3> QED BY <2>1, <3>1, <3>4, <3>10, Zenon
  <2>2. CASE n # m
    <3>1. /\ user'[n] = user[n]
          /\ \A j \in 1 .. MaxAttempts : attempt'[<<n, j>>] = attempt[<<n, j>>]
      BY <1>4, <2>2, Zenon DEF Timeout, TypeOK, Attempt
    <3> QED BY <3>1 DEF Ordered, Live
  <2> QED BY <2>1, <2>2, Zenon
<1>5. ASSUME NEW x \in Attempt, publishMessage(x) PROVE Ordered'
  BY <1>5, OrderedSame, Zenon DEF publishMessage
<1>6. CASE WorkerTakes
  BY <1>6, OrderedSame, Zenon DEF WorkerTakes
<1>7. CASE Create
  BY <1>7, OrderedSame, Zenon DEF Create, CreateProject
<1>8. CASE Ack
  <2>1. \A m \in Message, k \in 1 .. MaxAttempts :
          /\ <<m, k>> \in Attempt
          /\ attempt'[<<m, k>>] = IF <<m, k>> = current THEN "acked" ELSE attempt[<<m, k>>]
    BY <1>8, Zenon DEF Ack, TypeOK, Attempt
  <2>2. attempt[current] = "waiting" /\ user' = user
    BY <1>8, Zenon DEF Ack
  <2>3. \A m \in Message, k \in 1 .. MaxAttempts : Live(m, k) => Live(m, k)'
    BY <2>1, <2>2, Zenon DEF Live
  <2> QED BY <2>1, <2>2, <2>3 DEF Ordered
<1>9. CASE WorkerStops
  BY <1>9, OrderedSame, Zenon DEF WorkerStops
<1>10. CASE CloseDone
  BY <1>10, OrderedSame, Zenon DEF CloseDone
<1>11. CASE UNCHANGED vars
  BY <1>11, OrderedSame, Zenon DEF vars
<1> QED BY <1>1, <1>2, <1>3, <1>4, <1>5, <1>6, <1>7, <1>8, <1>9, <1>10, <1>11, Zenon DEF Next

\* A delivery that startConsume began is never forgotten: one attempt waits for
\* its acknowledgement or has received it, and no other is live.
THEOREM DeliveryKept == Spec => []NeverForgotten
<1>1. Ordered => NeverForgotten
  BY SimpleAssumption DEF Ordered, Live, NeverForgotten
<1> QED BY <1>1, OrderedInit, OrderedStep, SimpleTypeCorrect, PTL DEF Spec

\* A stuck worker stays stuck: no attempt waits twice.
LEMMA StuckStep ==
  ASSUME TypeOK, Ordered, [Next]_vars, Stuck
  PROVE  Stuck'
<1> USE SimpleAssumption DEF Stuck
<1>1. current \in Attempt
  BY Zenon DEF TypeOK
<1>2. ASSUME NEW i \in Instance, NEW m \in Message, startConsume(i, m) PROVE Stuck'
  <2>1. attempt[<<m, 1>>] = "none"
    BY <1>2 DEF startConsume, Ordered
  <2> QED BY <1>1, <1>2, <2>1, Zenon DEF startConsume, TypeOK
<1>3. ASSUME NEW m \in Message, NEW k \in 1 .. MaxAttempts, Timeout(m, k) PROVE Stuck'
  <2>1. PICK l \in 1 .. MaxAttempts : Live(m, l)
    BY <1>3, Zenon DEF Timeout, Ordered
  <2>2. l = k /\ k + 1 \in 1 .. MaxAttempts
    BY <1>3, <2>1 DEF Timeout, Live
  <2>3. attempt[<<m, k + 1>>] = "none"
    BY <2>1, <2>2 DEF Live
  <2> QED BY <1>1, <1>3, <2>3, Zenon DEF Timeout, TypeOK
<1>4. CASE UNCHANGED vars
  BY <1>4, Zenon DEF vars
<1> QED
  BY <1>2, <1>3, <1>4, Zenon
  DEF Next, Register, InstanceStops, publishMessage, WorkerTakes, Create, CreateProject, Ack,
      WorkerStops, CloseDone

\* An acknowledgement that missed its timeout blocks the worker for ever, because
\* startDelivery never waits again on the same ackChan.
THEOREM LateAckBlocks == Spec => StuckForever
<1>1. ASSUME TypeOK, Ordered, [Next]_vars, Stuck PROVE Stuck'
  BY <1>1, StuckStep, Zenon
<1> QED BY <1>1, OrderedInit, OrderedStep, SimpleTypeCorrect, PTL DEF Spec, StuckForever

\* The worker takes no more copies.
Halted == worker = "stopped" \/ Stuck

\* Once the worker has stopped, or is stuck in a late acknowledgement, no
\* delivery is acknowledged and no project created any more.  By DeliveryKept an
\* unacknowledged delivery then keeps an attempt that waits, and as the select of
\* startDelivery does not look at done, only further attempts can follow.
THEOREM HaltedEndsNothing ==
  Spec => [][Halted => /\ Halted'
                       /\ projects' = projects
                       /\ \A x \in Attempt : attempt'[x] = "acked" => attempt[x] = "acked"]_vars
<1>1. ASSUME TypeOK, Ordered, [Next]_vars, Halted PROVE Halted'
  <2>1. CASE Stuck
    BY <1>1, <2>1, StuckStep, Zenon DEF Halted
  <2>2. CASE worker = "stopped"
    BY <1>1, <2>2, Zenon
    DEF Halted, Next, vars, Register, startConsume, InstanceStops, Timeout, publishMessage,
        WorkerTakes, Create, Ack, WorkerStops, CloseDone
  <2> QED BY <1>1, <2>1, <2>2, Zenon DEF Halted
<1>2. ASSUME TypeOK, [Next]_vars, Halted
      PROVE  projects' = projects /\ \A x \in Attempt : attempt'[x] = "acked" => attempt[x] = "acked"
  <2> USE <1>2 DEF TypeOK
  <2>1. ~Create /\ ~Ack
    BY Zenon DEF Halted, Stuck, Create, Ack
  <2>2. ASSUME NEW i \in Instance, NEW m \in Message, startConsume(i, m)
        PROVE  projects' = projects /\ \A x \in Attempt : attempt'[x] = "acked" => attempt[x] = "acked"
    BY <2>2, Zenon DEF startConsume
  <2>3. ASSUME NEW m \in Message, NEW k \in 1 .. MaxAttempts, Timeout(m, k)
        PROVE  projects' = projects /\ \A x \in Attempt : attempt'[x] = "acked" => attempt[x] = "acked"
    BY <2>3, Zenon DEF Timeout
  <2>4. CASE UNCHANGED <<attempt, projects>>
    BY <2>4, Zenon
  <2> QED BY <2>1, <2>2, <2>3, <2>4, Zenon
          DEF Next, vars, Register, InstanceStops, publishMessage, WorkerTakes, WorkerStops, CloseDone
<1> QED BY <1>1, <1>2, OrderedInit, OrderedStep, SimpleTypeCorrect, PTL DEF Spec

\* A delivery ends only when the default project of its user exists: Worker.Run
\* acknowledges after Create, never before.
THEOREM AckAfterCreate == Spec => []AckedHasProject
<1> DEFINE Created == worker = "acking" => projects[current[1]] > 0
<1>1. Init => AckedHasProject /\ Created
  <2> SUFFICES ASSUME Init PROVE AckedHasProject /\ Created
    BY Zenon
  <2>1. worker = "idle" /\ attempt = [x \in Attempt |-> "none"]
    BY Zenon DEF Init
  <2> QED BY <2>1, Zenon DEF AckedHasProject
<1>2. ASSUME TypeOK, Ordered, AckedHasProject, Created, [Next]_vars
      PROVE AckedHasProject' /\ Created'
  <2> USE <1>2, SimpleAssumption
  <2>1. \A x \in Attempt : x[1] \in Message
    BY Zenon DEF Attempt
  <2>2. ASSUME NEW i \in Instance, NEW m \in Message, startConsume(i, m)
        PROVE AckedHasProject' /\ Created'
    BY <2>2, Zenon DEF startConsume, AckedHasProject, TypeOK
  <2>3. ASSUME NEW m \in Message, NEW k \in 1 .. MaxAttempts, Timeout(m, k)
        PROVE AckedHasProject' /\ Created'
    BY <2>3, Zenon DEF Timeout, AckedHasProject, TypeOK
  <2>4. CASE Create
    <3>1. \A m \in Message : projects'[m] >= projects[m] /\ projects[m] \in Nat /\ projects'[m] \in Nat
      BY <2>4, <2>1 DEF Create, CreateProject, TypeOK
    <3>2. AckedHasProject'
      BY <2>4, <2>1, <3>1 DEF Create, CreateProject, AckedHasProject
    <3>3. Created'
      BY <2>4, <2>1 DEF Create, CreateProject, TypeOK
    <3> QED BY <3>2, <3>3, Zenon
  <2>5. CASE Ack
    BY <2>5, Zenon DEF Ack, AckedHasProject, TypeOK
  <2>6. CASE WorkerTakes
    BY <2>6, Zenon DEF WorkerTakes, AckedHasProject
  <2>7. CASE UNCHANGED vars
    BY <2>7, Zenon DEF vars, AckedHasProject
  <2> QED
    BY <2>2, <2>3, <2>4, <2>5, <2>6, <2>7, Zenon
    DEF Next, Register, InstanceStops, publishMessage, WorkerStops, CloseDone, AckedHasProject
<1> QED BY <1>1, <1>2, OrderedInit, OrderedStep, SimpleTypeCorrect, PTL DEF Spec

-----------------------------------------------------------------------------
(* Projects are paid for with copies *)

\* The attempts whose copy the worker has taken.
Taken(m) == {k \in 1 .. MaxAttempts : copy[<<m, k>>] \in {"taken", "finished"}}

\* The worker has a copy of m in hand and has not created its project yet.
InHand(m) == IF worker = "creating" /\ current[1] = m THEN 1 ELSE 0

\* outputChannel holds each copy once, and only copies that were sent.
Queued ==
  /\ \A i \in 1 .. Len(output) : copy[output[i]] = "output"
  /\ \A i, j \in 1 .. Len(output) : output[i] = output[j] => i = j

\* What the worker has in hand is marked as taken, and an attempt that has not
\* begun has no copy.
Marked ==
  /\ worker \in {"creating", "acking"} => copy[current] = "taken"
  /\ \A x \in Attempt : attempt[x] = "none" => copy[x] = "none"

Counted == \A m \in Message : projects[m] + InHand(m) <= Cardinality(Taken(m))

LEMMA TakenFinite ==
  ASSUME NEW m PROVE IsFiniteSet(Taken(m)) /\ Cardinality(Taken(m)) \in Nat
<1>1. IsFiniteSet(1 .. MaxAttempts)
  BY FS_Interval, SimpleAssumption
<1>2. IsFiniteSet(Taken(m))
  BY <1>1, FS_Subset, Zenon DEF Taken
<1> QED BY <1>2, FS_CardinalityType, Zenon

\* A copy that was not yet taken becomes another that is not: a send, a timeout
\* or the start of a delivery.
LEMMA CountedSame ==
  ASSUME Counted, UNCHANGED <<worker, current, projects>>, copy \in [Attempt -> CopyState],
         NEW x \in Attempt, NEW s, copy' = [copy EXCEPT ![x] = s],
         copy[x] \notin {"taken", "finished"}, s \notin {"taken", "finished"}
  PROVE  Counted'
<1>1. ASSUME NEW m \in Message PROVE Taken(m)' = Taken(m)
  <2>1. \A k \in 1 .. MaxAttempts : <<m, k>> \in Attempt
    BY Zenon DEF Attempt
  <2> QED BY <2>1, Zenon DEF Taken
<1>2. \A m \in Message : InHand(m)' = InHand(m)
  BY Zenon DEF InHand
<1> QED BY <1>1, <1>2, Zenon DEF Counted

\* Sending is the only step that adds to outputChannel.
LEMMA QueuedSame ==
  ASSUME Queued, UNCHANGED output, copy \in [Attempt -> CopyState], output \in Seq(Attempt),
         NEW x \in Attempt, NEW s, copy' = [copy EXCEPT ![x] = s], copy[x] # "output"
  PROVE  Queued'
<1>1. \A i \in 1 .. Len(output) : output[i] \in Attempt /\ output[i] # x
  BY DEF Queued
<1> QED BY <1>1, Zenon DEF Queued

LEMMA CopiesStep ==
  ASSUME TypeOK, Ordered, Queued, Marked, Counted, [Next]_vars
  PROVE  Queued' /\ Marked' /\ Counted'
<1> USE SimpleAssumption
<1>0. /\ copy \in [Attempt -> CopyState] /\ output \in Seq(Attempt) /\ current \in Attempt
      /\ attempt \in [Attempt -> AttemptState] /\ projects \in [Message -> Nat]
  BY Zenon DEF TypeOK
<1>1. ASSUME NEW i \in Instance, NEW m \in Message, startConsume(i, m)
      PROVE  Queued' /\ Marked' /\ Counted'
  <2> DEFINE x == <<m, 1>>
  <2>1. x \in Attempt /\ attempt[x] = "none" /\ copy[x] = "none"
    BY <1>1 DEF Attempt, startConsume, Ordered, Marked
  <2>2. /\ UNCHANGED <<worker, current, projects, output>>
        /\ copy' = [copy EXCEPT ![x] = "sending"]
        /\ attempt' = [attempt EXCEPT ![x] = "waiting"]
    BY <1>1, Zenon DEF startConsume
  <2>0. /\ copy[x] \notin {"taken", "finished"} /\ copy[x] # "output"
        /\ "sending" \notin {"taken", "finished"}
    BY <2>1, Zenon
  <2> HIDE DEF x
  <2>3. Queued' /\ Counted'
    BY <1>0, <2>0, <2>1, <2>2, CountedSame, QueuedSame, Zenon
  <2>4. Marked'
    BY <1>0, <2>1, <2>2, Zenon DEF Marked
  <2> QED BY <2>3, <2>4, Zenon
<1>2. ASSUME NEW m \in Message, NEW k \in 1 .. MaxAttempts, Timeout(m, k)
      PROVE  Queued' /\ Marked' /\ Counted'
  <2> DEFINE x == <<m, k + 1>>
  <2>1. PICK l \in 1 .. MaxAttempts : Live(m, l)
    BY <1>2, Zenon DEF Timeout, Ordered
  <2>2. l = k /\ k + 1 \in 1 .. MaxAttempts
    BY <1>2, <2>1 DEF Timeout, Live
  <2>3. x \in Attempt /\ attempt[x] = "none" /\ copy[x] = "none"
    BY <2>1, <2>2 DEF Attempt, Live, Marked
  <2>4. /\ UNCHANGED <<worker, current, projects, output>>
        /\ copy' = [copy EXCEPT ![x] = "sending"]
        /\ attempt' = [attempt EXCEPT ![<<m, k>>] = "timedOut", ![x] = "waiting"]
    BY <1>2, Zenon DEF Timeout
  <2>0. /\ copy[x] \notin {"taken", "finished"} /\ copy[x] # "output"
        /\ "sending" \notin {"taken", "finished"}
    BY <2>3, Zenon
  <2> HIDE DEF x
  <2>5. Queued' /\ Counted'
    BY <1>0, <2>0, <2>3, <2>4, CountedSame, QueuedSame, Zenon
  <2>6. Marked'
    BY <1>0, <2>3, <2>4, Zenon DEF Marked
  <2> QED BY <2>5, <2>6, Zenon
<1>3. ASSUME NEW x \in Attempt, publishMessage(x) PROVE Queued' /\ Marked' /\ Counted'
  <2>1. /\ UNCHANGED <<worker, current, projects, attempt>>
        /\ copy[x] = "sending" /\ copy' = [copy EXCEPT ![x] = "output"]
        /\ output' = Append(output, x)
    BY <1>3, Zenon DEF publishMessage
  <2>0. copy[x] \notin {"taken", "finished"} /\ "output" \notin {"taken", "finished"}
    BY <2>1, Zenon
  <2>2. Counted'
    BY <1>0, <2>0, <2>1, CountedSame, Zenon
  <2>3. Marked'
    BY <1>0, <2>1, Zenon DEF Marked
  <2>4. /\ Len(output) \in Nat /\ Len(output') = Len(output) + 1
        /\ output'[Len(output) + 1] = x
        /\ \A i \in 1 .. Len(output) :
             output'[i] = output[i] /\ output[i] \in Attempt /\ output[i] # x
    <3>1. output \in Seq(Attempt)
      BY <1>0
    <3>2. /\ Len(output) \in Nat /\ Len(output') = Len(output) + 1
          /\ output'[Len(output) + 1] = x
          /\ \A i \in 1 .. Len(output) : output'[i] = output[i] /\ output[i] \in Attempt
      BY <2>1, <3>1
    <3>3. \A i \in 1 .. Len(output) : output[i] # x
      BY <1>0, <2>1, Zenon DEF Queued
    <3> QED BY <3>2, <3>3
  <2>5. \A i \in 1 .. Len(output') : i \in 1 .. Len(output) \/ i = Len(output) + 1
    BY <2>4
  <2>6. copy'[x] = "output" /\ \A i \in 1 .. Len(output) : copy'[output[i]] = copy[output[i]]
    BY <1>0, <2>1, <2>4, Zenon
  <2>7. Queued'
    BY <2>4, <2>5, <2>6 DEF Queued
  <2> QED BY <2>2, <2>3, <2>7, Zenon
<1>4. CASE WorkerTakes
  <2> DEFINE x == Head(output)
             m == x[1]
  <2>1. /\ worker = "idle" /\ worker' = "creating" /\ current' = x
        /\ output # << >> /\ output' = Tail(output)
        /\ copy' = [copy EXCEPT ![x] = "taken"]
        /\ UNCHANGED <<projects, attempt>>
    BY <1>4, Zenon DEF WorkerTakes
  <2>2. /\ x = output[1] /\ x \in Attempt /\ Len(output) \in Nat \ {0}
        /\ Len(output') = Len(output) - 1
        /\ \A i \in 1 .. Len(output') : output'[i] = output[i + 1] /\ i + 1 \in 1 .. Len(output)
    BY <1>0, <2>1
  <2>3. copy[x] = "output"
    BY <2>2 DEF Queued
  <2>4. Marked'
    BY <1>0, <2>1, <2>2, <2>3, Zenon DEF Marked
  <2>5. \A i \in 1 .. Len(output') :
          output'[i] \in Attempt /\ output'[i] # x /\ copy[output'[i]] = "output"
    <3> SUFFICES ASSUME NEW i \in 1 .. Len(output')
                 PROVE  output'[i] \in Attempt /\ output'[i] # x /\ copy[output'[i]] = "output"
      BY Zenon
    <3>1. i + 1 \in 1 .. Len(output) /\ output'[i] = output[i + 1] /\ i + 1 # 1
      BY <2>2
    <3>2. output[i + 1] \in Attempt
      BY <1>0, <3>1
    <3>3. 1 \in 1 .. Len(output)
      BY <2>2
    <3> QED BY <2>2, <3>1, <3>2, <3>3, Zenon DEF Queued
  <2>6. Queued'
    <3>1. \A i \in 1 .. Len(output') : copy'[output'[i]] = "output"
      BY <1>0, <2>1, <2>5, Zenon
    <3>2. ASSUME NEW i \in 1 .. Len(output'), NEW j \in 1 .. Len(output'), output'[i] = output'[j]
          PROVE  i = j
      BY <2>2, <3>2 DEF Queued
    <3> QED BY <3>1, <3>2, Zenon DEF Queued
  <2>7. ASSUME NEW n \in Message
        PROVE  projects'[n] + InHand(n)' <= Cardinality(Taken(n)')
    <3>1. \A k \in 1 .. MaxAttempts : <<n, k>> \in Attempt
      BY Zenon DEF Attempt
    <3>2. InHand(n) = 0 /\ projects[n] \in Nat /\ projects[n] <= Cardinality(Taken(n))
      <4>1. InHand(n) = 0
        BY <2>1, Zenon DEF InHand
      <4> QED BY <1>0, <4>1 DEF Counted
    <3>3. CASE n # m
      <4>1. InHand(n)' = 0
        BY <2>1, <3>3, Zenon DEF InHand
      <4>2. \A k \in 1 .. MaxAttempts : <<n, k>> # x
        BY <3>3
      <4>3. Taken(n)' = Taken(n)
        BY <1>0, <2>1, <3>1, <4>2, Zenon DEF Taken
      <4> QED BY <2>1, <3>2, <4>1, <4>3
    <3>4. CASE n = m
      <4>1. InHand(n)' = 1
        BY <2>1, <3>4, Zenon DEF InHand
      <4>2. x = <<n, x[2]>> /\ x[2] \in 1 .. MaxAttempts
        BY <2>2, <3>4 DEF Attempt
      <4>3. x[2] \notin Taken(n)
        BY <2>3, <4>2, Zenon DEF Taken
      <4>4. Taken(n)' = Taken(n) \cup {x[2]}
        <5>1. \A k \in 1 .. MaxAttempts :
                copy'[<<n, k>>] = IF k = x[2] THEN "taken" ELSE copy[<<n, k>>]
          BY <1>0, <2>1, <3>1, <4>2
        <5> QED BY <4>2, <5>1, Zenon DEF Taken
      <4>5. Cardinality(Taken(n)') = Cardinality(Taken(n)) + 1
        BY <4>3, <4>4, TakenFinite, FS_AddElement, Zenon
      <4> QED BY <2>1, <3>2, <4>1, <4>5, TakenFinite
    <3> QED BY <3>3, <3>4, Zenon
  <2>8. Counted'
    BY <2>7, Zenon DEF Counted
  <2> QED BY <2>4, <2>6, <2>8, Zenon
<1>5. CASE Create
  <2>1. worker = "creating" /\ copy[current] = "taken" /\ UNCHANGED <<attempt, output, current>>
    BY <1>5, Zenon DEF Create, Marked
  <2>2. CASE CreateProject(current[1]) /\ worker' = "acking" /\ UNCHANGED copy
    <3>1. Queued' /\ Marked'
      BY <2>1, <2>2, Zenon DEF Queued, Marked
    <3>2. ASSUME NEW n \in Message
          PROVE  projects'[n] + InHand(n)' <= Cardinality(Taken(n)')
      <4>1. projects'[n] = projects[n] + InHand(n) /\ InHand(n)' = 0
        BY <1>0, <2>1, <2>2 DEF CreateProject, InHand
      <4>2. Taken(n)' = Taken(n) /\ projects[n] \in Nat /\ InHand(n) \in Nat
        BY <1>0, <2>2, Zenon DEF Taken, InHand
      <4> QED BY <4>1, <4>2 DEF Counted
    <3> QED BY <3>1, <3>2, Zenon DEF Counted
  <2>3. CASE copy' = [copy EXCEPT ![current] = "finished"] /\ worker' = "idle" /\ UNCHANGED projects
    <3>1. Queued'
      BY <1>0, <2>1, <2>3, QueuedSame, Zenon
    <3>2. Marked'
      BY <1>0, <2>1, <2>3, Zenon DEF Marked
    <3>3. ASSUME NEW n \in Message
          PROVE  projects'[n] + InHand(n)' <= Cardinality(Taken(n)')
      <4>1. InHand(n)' = 0 /\ InHand(n) \in {0, 1} /\ projects[n] \in Nat
        BY <1>0, <2>3, Zenon DEF InHand
      <4>2. Taken(n)' = Taken(n)
        BY <1>0, <2>1, <2>3, Zenon DEF Taken, Attempt
      <4> QED BY <2>3, <4>1, <4>2, TakenFinite DEF Counted
    <3> QED BY <3>1, <3>2, <3>3, Zenon DEF Counted
  <2> QED BY <1>5, <2>2, <2>3, Zenon DEF Create
<1>6. CASE Ack
  <2>1. /\ worker = "acking" /\ copy[current] = "taken" /\ worker' = "idle"
        /\ copy' = [copy EXCEPT ![current] = "finished"]
        /\ attempt' = [attempt EXCEPT ![current] = "acked"]
        /\ UNCHANGED <<output, current, projects>>
    BY <1>6, Zenon DEF Ack, Marked
  <2>2. Queued'
    BY <1>0, <2>1, QueuedSame, Zenon
  <2>3. Marked'
    BY <1>0, <2>1, Zenon DEF Marked
  <2>4. \A n \in Message : Taken(n)' = Taken(n)
    BY <1>0, <2>1, Zenon DEF Taken, Attempt
  <2>5. \A n \in Message : InHand(n)' = InHand(n)
    BY <2>1, Zenon DEF InHand
  <2>6. Counted'
    BY <2>1, <2>4, <2>5, Zenon DEF Counted
  <2> QED BY <2>2, <2>3, <2>6, Zenon
<1>7. CASE \/ \E m \in Message : Register(m)
           \/ \E i \in Instance : InstanceStops(i)
           \/ WorkerStops \/ CloseDone \/ UNCHANGED vars
  <2>1. UNCHANGED <<attempt, copy, output, current, projects>>
        /\ (worker' = worker \/ (worker = "idle" /\ worker' = "stopped"))
    BY <1>7, Zenon DEF Register, InstanceStops, WorkerStops, CloseDone, vars
  <2>2. Queued' /\ Marked'
    BY <2>1, Zenon DEF Queued, Marked
  <2>3. \A n \in Message : Taken(n)' = Taken(n) /\ InHand(n)' = InHand(n)
    BY <2>1, Zenon DEF Taken, InHand
  <2> QED BY <2>1, <2>2, <2>3, Zenon DEF Counted
<1> QED BY <1>1, <1>2, <1>3, <1>4, <1>5, <1>6, <1>7, Zenon DEF Next

\* A user never has more default projects than copies the worker took of the
\* registration: one, and one more for each acknowledgement that came too late.
THEOREM ProjectsPaidFor == Spec => []ProjectPerCopy
<1>1. Init => Queued /\ Marked /\ Counted
  <2> SUFFICES ASSUME Init PROVE Queued /\ Marked /\ Counted
    BY Zenon
  <2>1. /\ output = << >> /\ worker = "idle" /\ projects = [m \in Message |-> 0]
        /\ copy = [x \in Attempt |-> "none"]
    BY Zenon DEF Init
  <2>2. Queued /\ Marked
    BY <2>1 DEF Queued, Marked
  <2>3. \A m \in Message : InHand(m) = 0 /\ projects[m] = 0
    BY <2>1, Zenon DEF InHand
  <2> QED BY <2>2, <2>3, TakenFinite DEF Counted
<1>2. TypeOK /\ Counted => ProjectPerCopy
  <2> SUFFICES ASSUME TypeOK, Counted, NEW m \in Message
               PROVE  projects[m] <= Cardinality(Taken(m))
    BY Zenon DEF ProjectPerCopy, Taken
  <2>1. projects[m] \in Nat /\ InHand(m) \in {0, 1}
    BY Zenon DEF TypeOK, InHand
  <2> QED BY <2>1, TakenFinite DEF Counted
<1> QED
  BY <1>1, <1>2, CopiesStep, OrderedInit, OrderedStep, SimpleTypeCorrect, PTL DEF Spec
=============================================================================
