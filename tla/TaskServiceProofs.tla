--------------------------- MODULE TaskServiceProofs ---------------------------
(***************************************************************************)
(* What TLAPS proves of TaskService, for every set of processes, events and *)
(* tasks and any number of crashes and expiries.                            *)
(*                                                                          *)
(* That a task is delivered once rests on a budget per task: what was        *)
(* delivered, and what goroutines without the lock may still deliver, is     *)
(* paid for by the mishaps that the task met.                               *)
(***************************************************************************)
EXTENDS TaskService, FiniteSetTheorems, TLAPS

-----------------------------------------------------------------------------
(* Types *)

\* The answers of every handler are task values: the attempts counter wraps.
LEMMA HandleType ==
  ASSUME NEW kind \in HandlerKind, NEW t \in TaskRecord
  PROVE  \A response \in Handle(kind, t) :
           /\ response \in TaskRecord
           /\ response.DeliveryStatus \in
                {RetriableFailedTaskStatus, UnRetriableFailedTaskStatus, SuccessTaskStatus}
<1>1. t.Attempts \in 0 .. 255
  BY DEF TaskRecord, Attempts, AttemptsModulus
<1>2. (t.Attempts + 1) % 256 \in 0 .. 255
  BY <1>1
<1>3. QED
  BY <1>2 DEF Handle, HandlerKind, TaskRecord, Attempts, AttemptsModulus,
     IntegrationDeliveryStatus, SuccessTaskStatus, RetriableFailedTaskStatus,
     UnRetriableFailedTaskStatus

\* A new task is a task value.
LEMMA MakeTaskType == MakeTaskUsingProcessedEvent \in TaskRecord
  BY DEF MakeTaskUsingProcessedEvent, TaskRecord, Attempts, AttemptsModulus,
     IntegrationDeliveryStatus, NotExecutedTaskStatus

\* Every status is stored as one of the five digits.
LEMMA ToNumericStringType ==
  ASSUME NEW s \in IntegrationDeliveryStatus
  PROVE  ToNumericString(s) \in NumericString
  BY DEF ToNumericString, NumericString, IntegrationDeliveryStatus, InvalidTaskStatus,
     NotExecutedTaskStatus, RetriableFailedTaskStatus, UnRetriableFailedTaskStatus,
     SuccessTaskStatus

\* Every step of HandleTask and of its environment keeps the types.
LEMMA TypeStep == TypeOK /\ [Next]_vars => TypeOK'
<1> SUFFICES ASSUME TypeOK, [Next]_vars PROVE TypeOK'
  BY Zenon
<1> USE ConstantsAssumption DEF TypeOK, history, PC, Critical, Result
<1>1. ASSUME NEW e \in Event, Receive(e) PROVE TypeOK'
  BY <1>1, Zenon DEF Receive
<1>2. ASSUME NEW e \in Event, LockTaskByID(e) PROVE TypeOK'
  BY <1>2, Zenon DEF LockTaskByID
<1>3. ASSUME NEW e \in Event, LockTaskByIDFails(e) PROVE TypeOK'
  BY <1>3 DEF LockTaskByIDFails
<1>4. ASSUME NEW e \in Event, GetTaskStatusByID(e) PROVE TypeOK'
  <2>1. pc' \in [Event -> PC] /\ result' \in [Event -> Result]
    BY <1>4, Zenon DEF GetTaskStatusByID, FindHandler, Return
  <2>2. task' \in [Event -> TaskRecord]
    BY <1>4, MakeTaskType, Zenon DEF GetTaskStatusByID
  <2>3. QED
    BY <1>4, <2>1, <2>2, Zenon DEF GetTaskStatusByID
<1>5. ASSUME NEW e \in Event, GetTaskStatusByIDFails(e) PROVE TypeOK'
  BY <1>5, Zenon DEF GetTaskStatusByIDFails, Return
<1>6. ASSUME NEW e \in Event, GetTaskByIDWithContext(e) PROVE TypeOK'
  <2>1. pc' \in [Event -> PC] /\ result' \in [Event -> Result]
    BY <1>6, Zenon DEF GetTaskByIDWithContext, FindHandler, Return
  <2>2. task' \in [Event -> TaskRecord]
    BY <1>6, SMTT(30) DEF GetTaskByIDWithContext
  <2>3. QED
    BY <1>6, <2>1, <2>2, Zenon DEF GetTaskByIDWithContext
<1>7. ASSUME NEW e \in Event, Deliver(e) PROVE TypeOK'
  <2>1. PICK response \in Handle(HandlerOf[ID[e]], task[e]) : Deliver(e)!2!(response)
    BY <1>7, Zenon DEF Deliver
  <2>2. response \in TaskRecord
    BY <2>1, HandleType, Zenon
  <2>3. QED
    BY <1>7, <2>1, <2>2 DEF Deliver
<1>8. ASSUME NEW e \in Event, DeliverFails(e) PROVE TypeOK'
  BY <1>8, Zenon DEF DeliverFails, Return
<1>9. ASSUME NEW e \in Event, UpsertTaskWithContext(e) PROVE TypeOK'
  BY <1>9, Zenon DEF UpsertTaskWithContext
<1>10. ASSUME NEW e \in Event, SaveTaskStatus(e) PROVE TypeOK'
  <2>1. ToNumericString(task[e].DeliveryStatus) \in NumericString
    BY ToNumericStringType, Zenon DEF TaskRecord
  <2>2. QED
    BY <1>10, <2>1, Zenon DEF SaveTaskStatus, Return
<1>11. ASSUME NEW e \in Event, SaveTaskStatusFails(e) PROVE TypeOK'
  <2>1. ToNumericString(task[e].DeliveryStatus) \in NumericString
    BY ToNumericStringType, Zenon DEF TaskRecord
  <2>2. redis' \in [Task -> NumericString \cup {Nil}] /\ faults' \in [Task -> Nat]
    <3>1. CASE /\ redis' = [redis EXCEPT ![ID[e]] = ToNumericString(task[e].DeliveryStatus)]
               /\ UNCHANGED faults
      <4>1. redis \in [Task -> NumericString \cup {Nil}] /\ faults \in [Task -> Nat]
        BY Zenon
      <4>2. QED
        BY <2>1, <3>1, <4>1, Zenon
    <3>2. CASE faults' = [faults EXCEPT ![ID[e]] = @ + 1] /\ UNCHANGED redis
      BY <3>2
    <3>3. QED
      BY <1>11, <3>1, <3>2, Zenon DEF SaveTaskStatusFails
  <2>3. pc' \in [Event -> PC] /\ result' \in [Event -> Result]
    BY <1>11, Zenon DEF SaveTaskStatusFails, Return
  <2>4. QED
    BY <1>11, <2>2, <2>3, Zenon DEF SaveTaskStatusFails
<1>12. ASSUME NEW e \in Event, Unlock(e) PROVE TypeOK'
  BY <1>12, Zenon DEF Unlock
<1>13. ASSUME NEW e \in Event, CtxTimeout(e) PROVE TypeOK'
  BY <1>13, Zenon DEF CtxTimeout
<1>14. ASSUME NEW e \in Event, LeaseLapse(e) PROVE TypeOK'
  BY <1>14 DEF LeaseLapse
<1>15. ASSUME NEW p \in Process, Crash(p) PROVE TypeOK'
  BY <1>15 DEF Crash
<1>16. ASSUME NEW t \in Task, ExpireStatus(t) PROVE TypeOK'
  BY <1>16 DEF ExpireStatus
<1>17. CASE UNCHANGED vars
  BY <1>17, Zenon DEF vars
<1>18. QED
  BY <1>1, <1>2, <1>3, <1>4, <1>5, <1>6, <1>7, <1>8, <1>9, <1>10, <1>11, <1>12,
     <1>13, <1>14, <1>15, <1>16, <1>17, Zenon DEF Next, HandleTask

\* The type invariant of TaskService: HandleTask never stores a status, an
\* attempts count or a lock owner outside its type.
THEOREM TypeCorrect == Spec => []TypeOK
<1>1. Init => TypeOK
  BY ConstantsAssumption, MakeTaskType, SMTT(30) DEF Init, TypeOK, PC, Result
<1>2. QED
  BY <1>1, TypeStep, PTL DEF Spec

-----------------------------------------------------------------------------
(* The lock *)

\* A key is owned by a goroutine of its task.
LockOwner == \A t \in Task, e \in Event : locks[t] = e => ID[e] = t

\* A goroutine that renews its lease owns the key.
LiveLease == \A e \in Event : InCritical(e) /\ ~ctxDone[e] => locks[ID[e]] = e

\* The steps of HandleTask between taking the lock and giving it back.
InnerStep(e) ==
  \/ GetTaskStatusByID(e)
  \/ GetTaskStatusByIDFails(e)
  \/ GetTaskByIDWithContext(e)
  \/ Deliver(e)
  \/ DeliverFails(e)
  \/ UpsertTaskWithContext(e)
  \/ SaveTaskStatus(e)
  \/ SaveTaskStatusFails(e)

\* Between the two, a goroutine moves inside its critical section and touches
\* neither the lock nor its context.
LEMMA InnerStepStays ==
  ASSUME TypeOK, NEW e \in Event, InnerStep(e)
  PROVE  /\ pc[e] \in Critical
         /\ pc'[e] \in Critical
         /\ \A f \in Event : f # e => pc'[f] = pc[f]
         /\ UNCHANGED <<locks, ctxDone, host, crashes, expiries, wiped>>
<1> USE DEF TypeOK, Critical, history, Return, FindHandler
<1>1. CASE GetTaskStatusByID(e)
  BY <1>1, Zenon DEF GetTaskStatusByID
<1>2. CASE GetTaskStatusByIDFails(e)
  BY <1>2, Zenon DEF GetTaskStatusByIDFails
<1>3. CASE GetTaskByIDWithContext(e)
  BY <1>3, Zenon DEF GetTaskByIDWithContext
<1>4. CASE Deliver(e)
  BY <1>4, Zenon DEF Deliver
<1>5. CASE DeliverFails(e)
  BY <1>5, Zenon DEF DeliverFails
<1>6. CASE UpsertTaskWithContext(e)
  BY <1>6, Zenon DEF UpsertTaskWithContext
<1>7. CASE SaveTaskStatus(e)
  BY <1>7, Zenon DEF SaveTaskStatus
<1>8. CASE SaveTaskStatusFails(e)
  BY <1>8, Zenon DEF SaveTaskStatusFails
<1>9. QED
  BY <1>1, <1>2, <1>3, <1>4, <1>5, <1>6, <1>7, <1>8, Zenon DEF InnerStep

\* The two facts about the lock are inductive.
LEMMA LockStep ==
  TypeOK /\ LockOwner /\ LiveLease /\ [Next]_vars => LockOwner' /\ LiveLease'
<1> SUFFICES ASSUME TypeOK, LockOwner, LiveLease, [Next]_vars
             PROVE  LockOwner' /\ LiveLease'
  BY Zenon
<1> USE ConstantsAssumption DEF TypeOK, LockOwner, LiveLease, InCritical, Critical
<1>1. ASSUME NEW e \in Event, Receive(e) PROVE LockOwner' /\ LiveLease'
  BY <1>1 DEF Receive
<1>2. ASSUME NEW e \in Event, LockTaskByID(e) PROVE LockOwner' /\ LiveLease'
  BY <1>2 DEF LockTaskByID
<1>3. ASSUME NEW e \in Event, LockTaskByIDFails(e) PROVE LockOwner' /\ LiveLease'
  BY <1>3, SMTT(30) DEF LockTaskByIDFails
<1>4. ASSUME NEW e \in Event, InnerStep(e) PROVE LockOwner' /\ LiveLease'
  BY <1>4, InnerStepStays
<1>5. ASSUME NEW e \in Event, Unlock(e) PROVE LockOwner' /\ LiveLease'
  BY <1>5 DEF Unlock
<1>6. ASSUME NEW e \in Event, CtxTimeout(e) PROVE LockOwner' /\ LiveLease'
  BY <1>6 DEF CtxTimeout
<1>7. ASSUME NEW e \in Event, LeaseLapse(e) PROVE LockOwner' /\ LiveLease'
  BY <1>7 DEF LeaseLapse
<1>8. ASSUME NEW p \in Process, Crash(p) PROVE LockOwner' /\ LiveLease'
  BY <1>8, Zenon DEF Crash, Running
<1>9. ASSUME NEW t \in Task, ExpireStatus(t) PROVE LockOwner' /\ LiveLease'
  BY <1>9, Zenon DEF ExpireStatus
<1>10. CASE UNCHANGED vars
  BY <1>10, Zenon DEF vars
<1>11. QED
  BY <1>1, <1>2, <1>3, <1>4, <1>5, <1>6, <1>7, <1>8, <1>9, <1>10, Zenon
  DEF Next, HandleTask, InnerStep

\* While leases are renewed, one goroutine at a time works on a task.
THEOREM LockExcludes == Spec => []MutualExclusion
<1>1. Init => LockOwner /\ LiveLease
  BY ConstantsAssumption DEF Init, LockOwner, LiveLease, InCritical, Critical
<1>2. LiveLease => MutualExclusion
  BY Zenon DEF LiveLease, MutualExclusion
<1>3. QED
  BY <1>1, <1>2, LockStep, TypeCorrect, PTL DEF Spec

\* A goroutine that has not got its key holds none: nobody waits for a key with
\* another one in hand.
WaiterHoldsNone ==
  \A t \in Task, e \in Event : pc[e] \in {"queued", "lock"} => locks[t] # e

\* The key of a goroutine that does not work any more is on a lease that nobody
\* renews.
KeyRunsOut ==
  \A t \in Task, e \in Event : locks[t] = e => InCritical(e) \/ ctxDone[e]

\* The two facts about the holders of keys are inductive.
LEMMA HolderStep ==
  TypeOK /\ WaiterHoldsNone /\ KeyRunsOut /\ [Next]_vars => WaiterHoldsNone' /\ KeyRunsOut'
<1> SUFFICES ASSUME TypeOK, WaiterHoldsNone, KeyRunsOut, [Next]_vars
             PROVE  WaiterHoldsNone' /\ KeyRunsOut'
  BY Zenon
<1> USE ConstantsAssumption DEF TypeOK, WaiterHoldsNone, KeyRunsOut, InCritical
<1>1. ASSUME NEW e \in Event, Receive(e) PROVE WaiterHoldsNone' /\ KeyRunsOut'
  BY <1>1, SMTT(30) DEF Receive, Critical
<1>2. ASSUME NEW e \in Event, LockTaskByID(e) PROVE WaiterHoldsNone' /\ KeyRunsOut'
  BY <1>2, SMTT(30) DEF LockTaskByID, Critical
<1>3. ASSUME NEW e \in Event, LockTaskByIDFails(e) PROVE WaiterHoldsNone' /\ KeyRunsOut'
  <2>1. pc'[e] = "done" /\ ctxDone'[e] /\ \A f \in Event \ {e} : pc'[f] = pc[f] /\ ctxDone'[f] = ctxDone[f]
    BY <1>3, Zenon DEF LockTaskByIDFails
  <2>2. \A t \in Task, f \in Event : locks'[t] = f => f = e \/ locks[t] = f
    BY <1>3, SMTT(30) DEF LockTaskByIDFails
  <2> QED BY ONLY <2>1, <2>2, WaiterHoldsNone, KeyRunsOut, ZenonT(40) DEF WaiterHoldsNone, KeyRunsOut, InCritical
<1>4. ASSUME NEW e \in Event, InnerStep(e) PROVE WaiterHoldsNone' /\ KeyRunsOut'
  <2>1. "queued" \notin Critical /\ "lock" \notin Critical
    BY Zenon DEF Critical
  <2> QED BY <1>4, <2>1, InnerStepStays, SMTT(30)
<1>5. ASSUME NEW e \in Event, Unlock(e) PROVE WaiterHoldsNone' /\ KeyRunsOut'
  <2>1. pc'[e] = "done" /\ ctxDone'[e] /\ \A f \in Event \ {e} : pc'[f] = pc[f] /\ ctxDone'[f] = ctxDone[f]
    BY <1>5, Zenon DEF Unlock
  <2>2. \A t \in Task, f \in Event : locks'[t] = f => f = e \/ locks[t] = f
    BY <1>5, SMTT(30) DEF Unlock
  <2> QED BY ONLY <2>1, <2>2, WaiterHoldsNone, KeyRunsOut, ZenonT(40) DEF WaiterHoldsNone, KeyRunsOut, InCritical
<1>6. ASSUME NEW e \in Event, CtxTimeout(e) PROVE WaiterHoldsNone' /\ KeyRunsOut'
  BY <1>6, Zenon DEF CtxTimeout
<1>7. ASSUME NEW e \in Event, LeaseLapse(e) PROVE WaiterHoldsNone' /\ KeyRunsOut'
  BY <1>7, Zenon DEF LeaseLapse
<1>8. ASSUME NEW p \in Process, Crash(p) PROVE WaiterHoldsNone' /\ KeyRunsOut'
  BY <1>8, Zenon DEF Crash, Running
<1>9. ASSUME NEW t \in Task, ExpireStatus(t) PROVE WaiterHoldsNone' /\ KeyRunsOut'
  BY <1>9, Zenon DEF ExpireStatus
<1>10. CASE UNCHANGED vars
  BY <1>10, Zenon DEF vars
<1>11. QED
  BY <1>1, <1>2, <1>3, <1>4, <1>5, <1>6, <1>7, <1>8, <1>9, <1>10, Zenon
  DEF Next, HandleTask, InnerStep

\* Every key in etcd has a way out, whatever crashed, failed or timed out: its
\* owner is a goroutine of the task that is on its way to the unlock, or its
\* lease is not renewed any more; and a goroutine that waits in Lock owns none,
\* so that no two wait for each other.  This is the safety half of EventSettles
\* and LockIsReleased.
THEOREM KeysHaveAWayOut ==
  Spec => []/\ WaiterHoldsNone
            /\ \A t \in Task, e \in Event :
                 locks[t] = e => ID[e] = t /\ (InCritical(e) \/ ctxDone[e])
<1>1. Init => LockOwner /\ LiveLease /\ WaiterHoldsNone /\ KeyRunsOut
  <2>1. Init => LockOwner /\ LiveLease
    BY ConstantsAssumption DEF Init, LockOwner, LiveLease, InCritical, Critical
  <2>2. Init => WaiterHoldsNone /\ KeyRunsOut
    BY ConstantsAssumption, SMTT(30) DEF Init, WaiterHoldsNone, KeyRunsOut
  <2>3. QED
    BY <2>1, <2>2, Zenon
<1>2. LockOwner /\ KeyRunsOut =>
        \A t \in Task, e \in Event :
          locks[t] = e => ID[e] = t /\ (InCritical(e) \/ ctxDone[e])
  BY Zenon DEF LockOwner, KeyRunsOut
<1>3. QED
  BY <1>1, <1>2, LockStep, HolderStep, TypeCorrect, PTL DEF Spec

-----------------------------------------------------------------------------
(* The answers of the handlers *)

\* A recorded answer is one of the three a handler gives.
Answered ==
  \A e \in Event : pc[e] \in {"upsert", "save"} =>
    task[e].DeliveryStatus \in
      {RetriableFailedTaskStatus, UnRetriableFailedTaskStatus, SuccessTaskStatus}

\* What a stored answer means to the next reader.
LEMMA StoredAnswer ==
  /\ ~Settled(Nil)
  /\ ~Settled(ToNumericString(RetriableFailedTaskStatus))
  /\ Settled(ToNumericString(UnRetriableFailedTaskStatus))
  /\ Settled(ToNumericString(SuccessTaskStatus))
  /\ \A t \in Task : redis[t] \in NumericString \cup {Nil} =>
       (CanBeExecuted(StoredStatus(t)) <=> ~Settled(redis[t]))
  BY DEF Settled, Nil, ToNumericString, NumericStringToIntegrationDeliveryStatus, StoredStatus,
     CanBeExecuted, NumericString, InvalidTaskStatus, NotExecutedTaskStatus,
     RetriableFailedTaskStatus, UnRetriableFailedTaskStatus, SuccessTaskStatus

\* Every step keeps the answers that are written within the handlers' contract.
LEMMA AnsweredStep == TypeOK /\ Answered /\ [Next]_vars => Answered'
<1> SUFFICES ASSUME TypeOK, Answered, [Next]_vars PROVE Answered'
  BY Zenon
<1> USE DEF TypeOK, Answered, history
<1>1. ASSUME NEW e \in Event, Receive(e) PROVE Answered'
  BY <1>1, Zenon DEF Receive
<1>2. ASSUME NEW e \in Event, LockTaskByID(e) PROVE Answered'
  BY <1>2, Zenon DEF LockTaskByID
<1>3. ASSUME NEW e \in Event, LockTaskByIDFails(e) PROVE Answered'
  BY <1>3, Zenon DEF LockTaskByIDFails
<1>4. ASSUME NEW e \in Event, GetTaskStatusByID(e) PROVE Answered'
  <2>1. /\ pc'[e] \notin {"upsert", "save"}
        /\ \A f \in Event : f # e => pc'[f] = pc[f] /\ task'[f] = task[f]
    BY <1>4, Zenon DEF GetTaskStatusByID, FindHandler, Return
  <2>2. QED
    BY <2>1, Zenon
<1>5. ASSUME NEW e \in Event, GetTaskStatusByIDFails(e) PROVE Answered'
  BY <1>5, Zenon DEF GetTaskStatusByIDFails, Return
<1>6. ASSUME NEW e \in Event, GetTaskByIDWithContext(e) PROVE Answered'
  <2>1. /\ pc'[e] \notin {"upsert", "save"}
        /\ \A f \in Event : f # e => pc'[f] = pc[f] /\ task'[f] = task[f]
    BY <1>6, Zenon DEF GetTaskByIDWithContext, FindHandler, Return
  <2>2. QED
    BY <2>1, Zenon
<1>7. ASSUME NEW e \in Event, Deliver(e) PROVE Answered'
  <2>1. PICK response \in Handle(HandlerOf[ID[e]], task[e]) : Deliver(e)!2!(response)
    BY <1>7, Zenon DEF Deliver
  <2>2. response.DeliveryStatus \in
          {RetriableFailedTaskStatus, UnRetriableFailedTaskStatus, SuccessTaskStatus}
    BY <2>1, HandleType, ConstantsAssumption, Zenon
  <2>3. QED
    BY <1>7, <2>1, <2>2, Zenon DEF Deliver
<1>8. ASSUME NEW e \in Event, DeliverFails(e) PROVE Answered'
  BY <1>8, Zenon DEF DeliverFails, Return
<1>9. ASSUME NEW e \in Event, UpsertTaskWithContext(e) PROVE Answered'
  BY <1>9, Zenon DEF UpsertTaskWithContext
<1>10. ASSUME NEW e \in Event, SaveTaskStatus(e) PROVE Answered'
  BY <1>10, Zenon DEF SaveTaskStatus, Return
<1>11. ASSUME NEW e \in Event, SaveTaskStatusFails(e) PROVE Answered'
  BY <1>11, Zenon DEF SaveTaskStatusFails, Return
<1>12. ASSUME NEW e \in Event, Unlock(e) PROVE Answered'
  BY <1>12, Zenon DEF Unlock
<1>13. ASSUME NEW e \in Event, CtxTimeout(e) PROVE Answered'
  BY <1>13, Zenon DEF CtxTimeout
<1>14. ASSUME NEW e \in Event, LeaseLapse(e) PROVE Answered'
  BY <1>14, Zenon DEF LeaseLapse
<1>15. ASSUME NEW p \in Process, Crash(p) PROVE Answered'
  BY <1>15, Zenon DEF Crash
<1>16. ASSUME NEW t \in Task, ExpireStatus(t) PROVE Answered'
  BY <1>16, Zenon DEF ExpireStatus
<1>17. CASE UNCHANGED vars
  BY <1>17, Zenon DEF vars
<1>18. QED
  BY <1>1, <1>2, <1>3, <1>4, <1>5, <1>6, <1>7, <1>8, <1>9, <1>10, <1>11, <1>12,
     <1>13, <1>14, <1>15, <1>16, <1>17, Zenon DEF Next, HandleTask

-----------------------------------------------------------------------------
(* Without mishaps a settled status stays *)

\* Without mishaps, whoever works on a task owns its key.
Guarded ==
  \A e \in Event : faults[ID[e]] = 0 /\ InCritical(e) => locks[ID[e]] = e

\* Without mishaps, whoever executes a task finds its status unsettled still.
Decided ==
  \A e \in Event : faults[ID[e]] = 0 /\ pc[e] \in Executing => ~Settled(redis[ID[e]])

\* What each step of a goroutine does to the three pieces of state the two
\* facts speak of.
LEMMA GoroutineStep ==
  ASSUME TypeOK, NEW e \in Event, Receive(e) \/ HandleTask(e) \/ CtxTimeout(e)
  PROVE  /\ \A f \in Event : f # e => pc'[f] = pc[f]
         /\ pc[e] = "lock" /\ pc'[e] = "getStatus" => locks'[ID[e]] = e
         /\ pc[e] = "getStatus" /\ pc'[e] \in Executing => ~Settled(redis[ID[e]])
         /\ pc'[e] \in Critical => pc[e] \in {"lock"} \cup Critical
         /\ pc[e] = "lock" /\ pc'[e] \in Critical => pc'[e] = "getStatus"
         /\ pc'[e] \in Executing => pc[e] \in {"getStatus"} \cup Executing
         /\ \A t \in Task : locks'[t] # locks[t] =>
              ID[e] = t /\ (locks[t] = None \/ (locks[t] = e /\ pc'[e] \notin Critical))
         /\ \A t \in Task : faults'[t] = faults[t] \/ faults'[t] = faults[t] + 1
         /\ \A t \in Task : redis'[t] # redis[t] =>
              ID[e] = t /\ pc[e] = "save" /\ pc'[e] = "unlock"
<1> USE ConstantsAssumption DEF history, Return, FindHandler, Executing, Critical
<1>1. CASE Receive(e)
  BY <1>1, Zenon DEF Receive, TypeOK
<1>2. CASE LockTaskByID(e)
  <2>1. /\ pc[e] = "lock" /\ pc'[e] = "getStatus" /\ locks'[ID[e]] = e
        /\ \A f \in Event : f # e => pc'[f] = pc[f]
    BY <1>2, Zenon DEF LockTaskByID, TypeOK
  <2>2. \A t \in Task : locks'[t] # locks[t] => ID[e] = t /\ locks[t] = None
    BY <1>2, Zenon DEF LockTaskByID, TypeOK
  <2>3. UNCHANGED <<redis, faults>>
    BY <1>2, Zenon DEF LockTaskByID
  <2>4. QED
    BY <2>1, <2>2, <2>3, Zenon
<1>3. CASE LockTaskByIDFails(e)
  <2>1. pc'[e] = "done" /\ \A f \in Event : f # e => pc'[f] = pc[f]
    BY <1>3, Zenon DEF LockTaskByIDFails, TypeOK
  <2>2. \A t \in Task : locks'[t] # locks[t] => ID[e] = t /\ locks[t] = None
    BY <1>3, Zenon DEF LockTaskByIDFails, TypeOK
  <2>3. UNCHANGED <<redis, faults>>
    BY <1>3, Zenon DEF LockTaskByIDFails
  <2>4. QED
    BY <2>1, <2>2, <2>3, Zenon
<1>4. CASE GetTaskStatusByID(e)
  <2>1. pc[e] = "getStatus" /\ pc'[e] \in {"unlock", "getTask", "deliver"}
        /\ \A f \in Event : f # e => pc'[f] = pc[f]
    BY <1>4, Zenon DEF GetTaskStatusByID, TypeOK
  <2>2. pc'[e] \in Executing => ~Settled(redis[ID[e]])
    BY <1>4, StoredAnswer, Zenon DEF GetTaskStatusByID, TypeOK
  <2>3. UNCHANGED <<locks, redis, faults>>
    BY <1>4, Zenon DEF GetTaskStatusByID
  <2>4. QED
    BY <2>1, <2>2, <2>3, Zenon
<1>5. CASE GetTaskStatusByIDFails(e)
  BY <1>5, Zenon DEF GetTaskStatusByIDFails, TypeOK
<1>6. CASE GetTaskByIDWithContext(e)
  <2>1. pc[e] = "getTask" /\ pc'[e] \in {"unlock", "deliver"}
        /\ \A f \in Event : f # e => pc'[f] = pc[f]
    BY <1>6, Zenon DEF GetTaskByIDWithContext, TypeOK
  <2>2. UNCHANGED <<locks, redis, faults>>
    BY <1>6, Zenon DEF GetTaskByIDWithContext
  <2>3. QED
    BY <2>1, <2>2, Zenon
<1>7. CASE Deliver(e)
  BY <1>7, Zenon DEF Deliver, TypeOK
<1>8. CASE DeliverFails(e)
  BY <1>8, Zenon DEF DeliverFails, TypeOK
<1>9. CASE UpsertTaskWithContext(e)
  BY <1>9, Zenon DEF UpsertTaskWithContext, TypeOK
<1>10. CASE SaveTaskStatus(e)
  BY <1>10, Zenon DEF SaveTaskStatus, TypeOK
<1>11. CASE SaveTaskStatusFails(e)
  BY <1>11 DEF SaveTaskStatusFails, TypeOK
<1>12. CASE Unlock(e)
  BY <1>12, Zenon DEF Unlock, TypeOK
<1>13. CASE CtxTimeout(e)
  BY <1>13, Zenon DEF CtxTimeout, TypeOK
<1>14. QED
  BY <1>1, <1>2, <1>3, <1>4, <1>5, <1>6, <1>7, <1>8, <1>9, <1>10, <1>11, <1>12, <1>13, ZenonT(40)
  DEF HandleTask

\* The two facts are inductive together.
LEMMA DecidedStep == TypeOK /\ Guarded /\ Decided /\ [Next]_vars => Guarded' /\ Decided'
<1> SUFFICES ASSUME TypeOK, Guarded, Decided, [Next]_vars PROVE Guarded' /\ Decided'
  BY Zenon
<1> USE ConstantsAssumption
<1>1. ASSUME NEW e \in Event, Receive(e) \/ HandleTask(e) \/ CtxTimeout(e)
      PROVE  Guarded' /\ Decided'
  <2>1. \A f \in Event : faults'[ID[f]] = 0 => faults[ID[f]] = 0
    BY <1>1, GoroutineStep DEF TypeOK
  <2>2. Guarded'
    <3> SUFFICES ASSUME NEW f \in Event, faults'[ID[f]] = 0, pc'[f] \in Critical
                 PROVE  locks'[ID[f]] = f
      BY Zenon DEF Guarded, InCritical
    <3>1. faults[ID[f]] = 0 /\ ID[f] \in Task
      BY <2>1, Zenon
    <3>2. CASE f # e
      BY <1>1, <3>1, <3>2, GoroutineStep DEF Guarded, InCritical
    <3>3. CASE f = e /\ pc[e] = "lock"
      BY <1>1, <3>3, GoroutineStep, Zenon
    <3>4. CASE f = e /\ pc[e] \in Critical
      BY <1>1, <3>1, <3>4, GoroutineStep DEF Guarded, InCritical
    <3>5. QED
      BY <1>1, <3>2, <3>3, <3>4, GoroutineStep, Zenon
  <2>3. Decided'
    <3> SUFFICES ASSUME NEW f \in Event, faults'[ID[f]] = 0, pc'[f] \in Executing
                 PROVE  ~Settled(redis'[ID[f]])
      BY Zenon DEF Decided
    <3>1. faults[ID[f]] = 0 /\ ID[f] \in Task
      BY <2>1, Zenon
    <3>2. ~Settled(redis[ID[f]])
      BY <1>1, <3>1, GoroutineStep, Zenon DEF Decided
    <3>3. redis'[ID[f]] = redis[ID[f]]
      <4> SUFFICES ASSUME redis'[ID[f]] # redis[ID[f]] PROVE FALSE
        BY Zenon
      <4>1. ID[e] = ID[f] /\ pc[e] = "save" /\ pc'[e] = "unlock"
        BY <1>1, <3>1, GoroutineStep, Zenon
      <4>2. f # e
        BY <4>1, Zenon DEF Executing
      <4>3. pc[f] \in Executing
        BY <1>1, <4>2, GoroutineStep
      <4>4. locks[ID[f]] = f /\ locks[ID[e]] = e
        BY <3>1, <4>1, <4>3, Zenon DEF Guarded, InCritical, Executing, Critical
      <4>5. QED
        BY <4>1, <4>2, <4>4, Zenon
    <3>4. QED
      BY <3>2, <3>3, Zenon
  <2>4. QED
    BY <2>2, <2>3, Zenon
<1>2. ASSUME NEW e \in Event, LeaseLapse(e) PROVE Guarded' /\ Decided'
  <2>1. /\ UNCHANGED <<pc, redis>> /\ locks[ID[e]] = e
        /\ \A t \in Task : t # ID[e] => locks'[t] = locks[t] /\ faults'[t] = faults[t]
        /\ faults'[ID[e]] = IF InCritical(e) THEN faults[ID[e]] + 1 ELSE faults[ID[e]]
    BY <1>2, Zenon DEF LeaseLapse, TypeOK
  <2>2. \A f \in Event : faults'[ID[f]] = 0 => faults[ID[f]] = 0
    BY <2>1 DEF TypeOK
  <2>3. faults'[ID[e]] = 0 => ~InCritical(e)
    BY <2>1 DEF TypeOK
  <2>4. Decided'
    BY <2>1, <2>2, Zenon DEF Decided
  <2>5. Guarded'
    BY <2>1, <2>2, <2>3, Zenon DEF Guarded, InCritical
  <2>6. QED
    BY <2>4, <2>5, Zenon
<1>3. ASSUME NEW p \in Process, Crash(p) PROVE Guarded' /\ Decided'
  <2>1. /\ UNCHANGED <<locks, redis>>
        /\ \A e \in Event : pc'[e] = pc[e] \/ pc'[e] = "dead"
        /\ \A t \in Task : faults'[t] = faults[t] \/ faults'[t] = faults[t] + 1
    BY <1>3, Zenon DEF Crash
  <2>2. \A f \in Event : faults'[ID[f]] = 0 => faults[ID[f]] = 0
    BY <2>1 DEF TypeOK
  <2>3. QED
    BY <2>1, <2>2, Zenon DEF Guarded, Decided, InCritical, Executing, Critical
<1>4. ASSUME NEW t \in Task, ExpireStatus(t) PROVE Guarded' /\ Decided'
  <2>1. /\ UNCHANGED <<pc, locks>>
        /\ faults'[t] = faults[t] + 1
        /\ \A u \in Task : u # t => redis'[u] = redis[u] /\ faults'[u] = faults[u]
    BY <1>4, Zenon DEF ExpireStatus, TypeOK
  <2>2. faults'[t] # 0
    BY <2>1, SMTT(30) DEF TypeOK
  <2>3. QED
    BY <2>1, <2>2, Zenon DEF Guarded, Decided, InCritical
<1>5. CASE UNCHANGED vars
  BY <1>5, Zenon DEF vars, Guarded, Decided, InCritical
<1>6. QED
  BY <1>1, <1>2, <1>3, <1>4, <1>5, Zenon DEF Next

\* A status is settled for good, unless the task meets a mishap.
THEOREM SettledStays == Spec => SettledIsFinal
<1>1. Init => Guarded /\ Decided
  BY Zenon DEF Init, Guarded, Decided, InCritical, Critical, Executing
<1>2. TypeOK /\ Decided /\ [Next]_vars =>
        [\A t \in Task : Settled(redis[t]) /\ redis'[t] # redis[t] => faults'[t] > 0]_vars
  <2> SUFFICES ASSUME TypeOK, Decided, Next,
                      NEW t \in Task, Settled(redis[t]), redis'[t] # redis[t]
               PROVE  faults'[t] > 0
    BY Zenon
  <2>1. ASSUME NEW e \in Event, Receive(e) \/ HandleTask(e) \/ CtxTimeout(e)
        PROVE  faults'[t] > 0
    <3>1. ID[e] = t /\ pc[e] = "save"
      BY <2>1, GoroutineStep, Zenon
    <3>2. faults[t] # 0
      BY <3>1, Zenon DEF Decided, Executing
    <3>3. faults'[t] = faults[t] \/ faults'[t] = faults[t] + 1
      BY <2>1, GoroutineStep, Zenon
    <3>4. QED
      BY <3>2, <3>3 DEF TypeOK
  <2>2. ASSUME NEW e \in Event, LeaseLapse(e) PROVE FALSE
    BY <2>2, Zenon DEF LeaseLapse
  <2>3. ASSUME NEW p \in Process, Crash(p) PROVE FALSE
    BY <2>3, Zenon DEF Crash
  <2>4. ASSUME NEW u \in Task, ExpireStatus(u) PROVE faults'[t] > 0
    <3>1. u = t
      BY <2>4, Zenon DEF ExpireStatus, TypeOK
    <3>2. QED
      BY <2>4, <3>1 DEF ExpireStatus, TypeOK
  <2>5. QED
    BY <2>1, <2>2, <2>3, <2>4, Zenon DEF Next
<1>3. QED
  BY <1>1, <1>2, DecidedStep, TypeCorrect, PTL DEF Spec, SettledIsFinal

-----------------------------------------------------------------------------
(* A skipped event was settled by another *)

\* The task reached its third party, or was refused by it, at some time.
Accounted(t) == sent[t] > 0 \/ t \in refused

\* What Redis holds and what is about to be saved was answered by a handler.
Evidence ==
  /\ \A t \in Task : Settled(redis[t]) => Accounted(t)
  /\ \A e \in Event : /\ pc[e] \in {"upsert", "save"}
                      /\ task[e].DeliveryStatus # RetriableFailedTaskStatus
                      => Accounted(ID[e])

\* A step that adds no settled status, no pending answer and no skip keeps the
\* evidence, because deliveries and refusals are never taken back.
LEMMA EvidenceKept ==
  ASSUME TypeOK, Evidence, SkippedWasSettled,
         \A t \in Task : Accounted(t) => Accounted(t)',
         \A t \in Task : Settled(redis'[t]) => Settled(redis[t]) \/ Accounted(t),
         \A e \in Event :
           pc'[e] \in {"upsert", "save"} =>
             \/ pc[e] \in {"upsert", "save"} /\ task'[e] = task[e]
             \/ task'[e].DeliveryStatus = RetriableFailedTaskStatus
             \/ Accounted(ID[e])',
         \A e \in Event :
           result'[e] = "skipped" => result[e] = "skipped" \/ Settled(redis[ID[e]])
  PROVE  Evidence' /\ SkippedWasSettled'
<1> USE ConstantsAssumption
<1>1. \A e \in Event : ID[e] \in Task
  BY Zenon
<1>2. SkippedWasSettled'
  <2>1. \A e \in Event : result'[e] = "skipped" => Accounted(ID[e])
    BY <1>1, Zenon DEF SkippedWasSettled, Evidence, Accounted
  <2>2. \A e \in Event : result'[e] = "skipped" => Accounted(ID[e])'
    BY <1>1, <2>1, Zenon
  <2>3. QED
    BY <2>2, Zenon DEF SkippedWasSettled, Accounted
<1>3. \A t \in Task : Settled(redis'[t]) => Accounted(t)'
  BY Zenon DEF Evidence
<1>4. \A e \in Event : /\ pc'[e] \in {"upsert", "save"}
                       /\ task'[e].DeliveryStatus # RetriableFailedTaskStatus
                       => Accounted(ID[e])'
  BY <1>1, Zenon DEF Evidence
<1>5. QED
  BY <1>2, <1>3, <1>4, Zenon DEF Evidence

\* The evidence is inductive.
LEMMA EvidenceStep ==
  TypeOK /\ Answered /\ Evidence /\ SkippedWasSettled /\ [Next]_vars
  => Evidence' /\ SkippedWasSettled'
<1> SUFFICES ASSUME TypeOK, Answered, Evidence, SkippedWasSettled, [Next]_vars
             PROVE  Evidence' /\ SkippedWasSettled'
  BY Zenon
<1> USE ConstantsAssumption DEF history, Return, FindHandler
<1>1. ASSUME NEW e \in Event,
             \/ Receive(e) \/ LockTaskByID(e) \/ LockTaskByIDFails(e)
             \/ GetTaskStatusByIDFails(e) \/ DeliverFails(e)
             \/ UpsertTaskWithContext(e) \/ Unlock(e) \/ CtxTimeout(e) \/ LeaseLapse(e)
      PROVE  Evidence' /\ SkippedWasSettled'
  <2>1. /\ UNCHANGED <<task, redis, sent, refused>>
        /\ \A f \in Event : pc'[f] \in {"upsert", "save"} => pc[f] \in {"upsert", "save"}
        /\ \A f \in Event : result'[f] = "skipped" => result[f] = "skipped"
    <3>1. CASE Receive(e) \/ LockTaskByID(e) \/ Unlock(e) \/ CtxTimeout(e) \/ LeaseLapse(e)
      BY <3>1, Zenon DEF Receive, LockTaskByID, Unlock, CtxTimeout, LeaseLapse, TypeOK
    <3>2. CASE LockTaskByIDFails(e) \/ GetTaskStatusByIDFails(e)
      BY <3>2, Zenon DEF LockTaskByIDFails, GetTaskStatusByIDFails, TypeOK
    <3>3. CASE DeliverFails(e) \/ UpsertTaskWithContext(e)
      BY <3>3, Zenon DEF DeliverFails, UpsertTaskWithContext, TypeOK
    <3>4. QED
      BY <1>1, <3>1, <3>2, <3>3, Zenon
  <2>2. \A t \in Task : Accounted(t) => Accounted(t)'
    BY <2>1, SMTT(30) DEF Accounted
  <2>3. QED
    BY <2>1, <2>2, EvidenceKept, Zenon
<1>2. ASSUME NEW e \in Event, GetTaskStatusByID(e) PROVE Evidence' /\ SkippedWasSettled'
  <2>1. /\ UNCHANGED <<redis, sent, refused>>
        /\ pc'[e] \notin {"upsert", "save"}
        /\ \A f \in Event : f # e => pc'[f] = pc[f] /\ task'[f] = task[f] /\ result'[f] = result[f]
    BY <1>2, Zenon DEF GetTaskStatusByID, TypeOK
  <2>2. result'[e] = "skipped" => result[e] = "skipped" \/ Settled(redis[ID[e]])
    BY <1>2, StoredAnswer, Zenon DEF GetTaskStatusByID, TypeOK
  <2>3. \A t \in Task : Accounted(t) => Accounted(t)'
    BY <2>1, SMTT(30) DEF Accounted
  <2>4. QED
    BY <2>1, <2>2, <2>3, EvidenceKept, Zenon
<1>3. ASSUME NEW e \in Event, GetTaskByIDWithContext(e) PROVE Evidence' /\ SkippedWasSettled'
  <2>1. /\ UNCHANGED <<redis, sent, refused>>
        /\ pc'[e] \notin {"upsert", "save"}
        /\ result'[e] \in {result[e], "error"}
        /\ \A f \in Event : f # e => pc'[f] = pc[f] /\ task'[f] = task[f] /\ result'[f] = result[f]
    BY <1>3, Zenon DEF GetTaskByIDWithContext, TypeOK
  <2>2. \A t \in Task : Accounted(t) => Accounted(t)'
    BY <2>1, SMTT(30) DEF Accounted
  <2>3. QED
    BY <2>1, <2>2, EvidenceKept, Zenon
<1>4. ASSUME NEW e \in Event, Deliver(e) PROVE Evidence' /\ SkippedWasSettled'
  <2>1. PICK response \in Handle(HandlerOf[ID[e]], task[e]) : Deliver(e)!2!(response)
    BY <1>4, Zenon DEF Deliver
  <2>2. response.DeliveryStatus \in
          {RetriableFailedTaskStatus, UnRetriableFailedTaskStatus, SuccessTaskStatus}
    BY <2>1, HandleType, Zenon DEF TypeOK
  <2>3. /\ UNCHANGED <<redis, result>>
        /\ task'[e] = response
        /\ \A f \in Event : f # e => pc'[f] = pc[f] /\ task'[f] = task[f]
        /\ refused \subseteq refused'
        /\ \A t \in Task : sent[t] > 0 => sent'[t] > 0
    BY <1>4, <2>1 DEF Deliver, TypeOK
  <2>4. \A t \in Task : Accounted(t) => Accounted(t)'
    BY <2>3, Zenon DEF Accounted
  <2>5. response.DeliveryStatus = SuccessTaskStatus => sent'[ID[e]] > 0
    BY <2>1 DEF TypeOK
  <2>6. response.DeliveryStatus = UnRetriableFailedTaskStatus => ID[e] \in refused'
    BY <2>1, SMTT(30)
  <2>7. task'[e].DeliveryStatus = RetriableFailedTaskStatus \/ Accounted(ID[e])'
    BY <2>2, <2>3, <2>5, <2>6, Zenon DEF Accounted
  <2>8. QED
    BY <2>3, <2>4, <2>7, EvidenceKept, Zenon
<1>5. ASSUME NEW e \in Event, SaveTaskStatus(e) \/ SaveTaskStatusFails(e)
      PROVE  Evidence' /\ SkippedWasSettled'
  <2>1. /\ UNCHANGED <<task, sent, refused>>
        /\ pc[e] = "save" /\ pc'[e] = "unlock"
        /\ result'[e] # "skipped"
        /\ \A f \in Event : f # e => pc'[f] = pc[f] /\ result'[f] = result[f]
        /\ \A t \in Task : t # ID[e] => redis'[t] = redis[t]
        /\ redis'[ID[e]] \in {redis[ID[e]], ToNumericString(task[e].DeliveryStatus)}
    BY <1>5, ZenonT(40) DEF SaveTaskStatus, SaveTaskStatusFails, TypeOK
  <2>2. Settled(redis'[ID[e]]) => Settled(redis[ID[e]]) \/ Accounted(ID[e])
    <3>1. CASE task[e].DeliveryStatus = RetriableFailedTaskStatus
      <4>1. ~Settled(ToNumericString(task[e].DeliveryStatus))
        BY <3>1, StoredAnswer, Zenon
      <4>2. QED
        BY <2>1, <4>1, Zenon
    <3>2. CASE task[e].DeliveryStatus # RetriableFailedTaskStatus
      BY <2>1, <3>2, Zenon DEF Evidence
    <3>3. QED
      BY <3>1, <3>2, Zenon
  <2>3. \A t \in Task : Accounted(t) => Accounted(t)'
    BY <2>1, Zenon DEF Accounted
  <2>4. QED
    BY <2>1, <2>2, <2>3, EvidenceKept, Zenon
<1>6. ASSUME NEW p \in Process, Crash(p) PROVE Evidence' /\ SkippedWasSettled'
  <2>1. /\ UNCHANGED <<task, result, redis, sent, refused>>
        /\ \A f \in Event : pc'[f] \in {"upsert", "save"} => pc[f] \in {"upsert", "save"}
    BY <1>6, Zenon DEF Crash
  <2>2. \A t \in Task : Accounted(t) => Accounted(t)'
    BY <2>1, SMTT(30) DEF Accounted
  <2>3. QED
    BY <2>1, <2>2, EvidenceKept, Zenon
<1>7. ASSUME NEW u \in Task, ExpireStatus(u) PROVE Evidence' /\ SkippedWasSettled'
  <2>1. /\ UNCHANGED <<pc, task, result, sent, refused>>
        /\ \A t \in Task : redis'[t] \in {redis[t], Nil}
    BY <1>7, Zenon DEF ExpireStatus, TypeOK
  <2>2. \A t \in Task : Accounted(t) => Accounted(t)'
    BY <2>1, Zenon DEF Accounted
  <2>3. QED
    BY <2>1, <2>2, StoredAnswer, EvidenceKept, Zenon
<1>8. CASE UNCHANGED vars
  BY <1>8, Zenon DEF vars, Evidence, SkippedWasSettled, Accounted
<1>9. QED
  BY <1>1, <1>2, <1>3, <1>4, <1>5, <1>6, <1>7, <1>8, Zenon DEF Next, HandleTask

\* No event is dropped without cause, not even after mishaps.
THEOREM SkipsAreEarned == Spec => []SkippedWasSettled
<1>1. Init => Evidence /\ SkippedWasSettled /\ Answered
  BY StoredAnswer, Zenon DEF Init, Evidence, SkippedWasSettled, Answered, Accounted
<1>2. QED
  BY <1>1, EvidenceStep, AnsweredStep, TypeCorrect, PTL DEF Spec

-----------------------------------------------------------------------------
(* What the repository remembers *)

\* Only the answers of a handler are stored in Redis.
KnownStatus(t) ==
  redis[t] \in {Nil, ToNumericString(RetriableFailedTaskStatus),
                ToNumericString(UnRetriableFailedTaskStatus), ToNumericString(SuccessTaskStatus)}

\* The fake handler answers Success, so its tasks are never read back for a retry.
FakeSucceeds(t) ==
  HandlerOf[t] = "fake" =>
    /\ redis[t] # ToNumericString(RetriableFailedTaskStatus)
    /\ \A e \in Of(t) :
         /\ pc[e] # "getTask"
         /\ pc[e] \in {"upsert", "save"} => task[e].DeliveryStatus = SuccessTaskStatus

\* Before a status is stored, no handler has answered.
NothingYet(t) ==
  redis[t] = Nil /\ (\A e \in Of(t) : pc[e] \notin {"upsert", "save"}) =>
    counted[t] = 0 /\ \A p \in Process : repo[p][t] = None

\* The task is in the repository of one process at most.
OneRepo(t) == \A p, q \in Process : repo[p][t] # None /\ repo[q][t] # None => p = q

\* A goroutine that executes the task carries its count on, and is in the process
\* that remembers the task.
Carried(e, t) ==
  /\ pc[e] = "save" => repo[host[e]][t] = task[e]
  /\ pc[e] \in {"deliver", "upsert"} => \A q \in Process \ {host[e]} : repo[q][t] = None
  /\ pc[e] \in {"deliver", "upsert", "save"} => task[e].Attempts = counted[t] % AttemptsModulus
  /\ pc[e] = "deliver" /\ HandlerOf[t] = "fake" => counted[t] = 0

\* RedisNotAheadOfRepo and AttemptsCounted for one task without mishaps.
StatusFound(t) ==
  t \notin wiped /\ redis[t] # Nil /\ (\A e \in Of(t) : pc[e] # "save") =>
    \E p \in Process : repo[p][t] # None /\ ToNumericString(repo[p][t].DeliveryStatus) = redis[t]

CountKept(t) ==
  \A p \in Process :
    repo[p][t] # None /\ (\A e \in Of(t) : pc[e] # "upsert") =>
      repo[p][t].Attempts = counted[t] % AttemptsModulus

Memory(t) ==
  /\ NothingYet(t) /\ OneRepo(t) /\ StatusFound(t) /\ CountKept(t)
  /\ \A e \in Of(t) : Carried(e, t)

Record(t) ==
  /\ KnownStatus(t)
  /\ FakeSucceeds(t)
  /\ faults[t] = 0 => Memory(t)

\* Without mishaps one goroutine at a time works on a task.
LEMMA Alone ==
  ASSUME Guarded, NEW e \in Event, NEW f \in Event, e # f, ID[e] = ID[f],
         faults[ID[e]] = 0, pc[e] \in Critical
  PROVE  pc[f] \notin Critical
  BY Zenon DEF Guarded, InCritical

\* A step that leaves a task's records alone and starts or ends no execution.
LEMMA RecordKept ==
  ASSUME TypeOK, NEW t \in Task, Record(t),
         redis'[t] = redis[t], counted'[t] = counted[t], host' = host,
         \A p \in Process : repo'[p][t] = repo[p][t],
         faults'[t] = 0 => faults[t] = 0,
         t \notin wiped' => t \notin wiped,
         \A e \in Of(t) :
           /\ pc'[e] \in {"deliver", "upsert", "save"} => pc'[e] = pc[e] /\ task'[e] = task[e]
           /\ pc'[e] = "getTask" => pc[e] = "getTask" \/ HandlerOf[t] # "fake"
           /\ pc[e] \in {"upsert", "save"} => pc'[e] = pc[e]
  PROVE  Record(t)'
<1> USE DEF Record
<1>1. KnownStatus(t)' /\ FakeSucceeds(t)'
  BY Zenon DEF KnownStatus, FakeSucceeds, Of
<1>2. ASSUME faults'[t] = 0 PROVE Memory(t)'
  <2>1. Memory(t)
    BY <1>2, Zenon
  <2>2. \A e \in Of(t) : (pc'[e] = "save" <=> pc[e] = "save") /\ (pc'[e] = "upsert" <=> pc[e] = "upsert")
    BY Zenon
  <2>3. NothingYet(t)'
    BY <2>1, <2>2, Zenon DEF Memory, NothingYet, Of
  <2>4. OneRepo(t)'
    BY <2>1, Zenon DEF Memory, OneRepo
  <2>5. StatusFound(t)'
    BY <2>1, <2>2, Zenon DEF Memory, StatusFound, Of
  <2>6. CountKept(t)'
    BY <2>1, <2>2, ZenonT(40) DEF Memory, CountKept, Of
  <2>7. \A e \in Of(t) : Carried(e, t)'
    BY <2>1, SMTT(30) DEF Memory, Carried, Of, TypeOK
  <2> QED BY <2>3, <2>4, <2>5, <2>6, <2>7, Zenon DEF Memory, Of
<1> QED BY <1>1, <1>2, Zenon

\* What Redis says to a goroutine that may execute the task.
LEMMA StatusRead ==
  ASSUME NEW t \in Task, KnownStatus(t), CanBeExecuted(StoredStatus(t))
  PROVE  /\ IsBroadcast(StoredStatus(t)) => redis[t] = ToNumericString(RetriableFailedTaskStatus)
         /\ ~IsBroadcast(StoredStatus(t)) => redis[t] = Nil
  BY DEF KnownStatus, StoredStatus, CanBeExecuted, IsBroadcast, Nil, ToNumericString,
     NumericStringToIntegrationDeliveryStatus, InvalidTaskStatus, NotExecutedTaskStatus,
     RetriableFailedTaskStatus, UnRetriableFailedTaskStatus, SuccessTaskStatus

\* The three answers are told apart, and from no answer.
LEMMA AnswersDiffer ==
  /\ ToNumericString(SuccessTaskStatus) # ToNumericString(RetriableFailedTaskStatus)
  /\ \A s \in {RetriableFailedTaskStatus, UnRetriableFailedTaskStatus, SuccessTaskStatus} :
       ToNumericString(s) # Nil
<1>1. /\ ToNumericString(RetriableFailedTaskStatus) = "2"
      /\ ToNumericString(UnRetriableFailedTaskStatus) = "3"
      /\ ToNumericString(SuccessTaskStatus) = "4"
  BY DEF ToNumericString, InvalidTaskStatus, NotExecutedTaskStatus,
     RetriableFailedTaskStatus, UnRetriableFailedTaskStatus, SuccessTaskStatus
<1> QED BY <1>1, Zenon DEF Nil

\* A goroutine alone with its task brings it to deliver.
LEMMA DeliverEntered ==
  ASSUME NEW e \in Event, NEW t \in Task, t = ID[e], TypeOK, Guarded, Record(t),
         pc[e] \in {"getStatus", "getTask"}, pc'[e] = "deliver",
         \A f \in Event : f # e => pc'[f] = pc[f] /\ task'[f] = task[f],
         UNCHANGED <<redis, counted, host, repo, faults, wiped>>,
         faults[t] = 0 => Carried(e, t)'
  PROVE  Record(t)'
<1>1. KnownStatus(t)' /\ FakeSucceeds(t)'
  BY Zenon DEF Record, KnownStatus, FakeSucceeds, Of
<1>2. ASSUME faults[t] = 0 PROVE Memory(t)'
  <2>1. Memory(t)
    BY <1>2, Zenon DEF Record
  <2>2. \A f \in Of(t) : (pc'[f] = "save" <=> pc[f] = "save") /\ (pc'[f] = "upsert" <=> pc[f] = "upsert")
    BY Zenon DEF Of
  <2>3. NothingYet(t)' /\ OneRepo(t)' /\ StatusFound(t)' /\ CountKept(t)'
    BY <2>1, <2>2, Zenon DEF Memory, NothingYet, OneRepo, StatusFound, CountKept, Of
  <2>4. ASSUME NEW f \in Of(t) PROVE Carried(f, t)'
    BY <1>2, <2>1, Zenon DEF Memory, Carried, Of
  <2> QED BY <2>3, <2>4, Zenon DEF Memory, Of
<1> QED BY <1>1, <1>2, Zenon DEF Record

\* GetTaskStatusByID, which may send the goroutine on to a new or an old task.
LEMMA GetStatusRecords ==
  ASSUME TypeOK, Guarded, NEW e \in Event, GetTaskStatusByID(e), Record(ID[e])
  PROVE  Record(ID[e])'
<1> DEFINE t == ID[e]
<1>0. t \in Task
  BY ConstantsAssumption, Zenon
<1> USE DEF history, Return, FindHandler
<1>1. /\ pc[e] = "getStatus" /\ pc'[e] \in {"unlock", "getTask", "deliver"}
      /\ \A f \in Event : f # e => pc'[f] = pc[f] /\ task'[f] = task[f]
      /\ UNCHANGED <<redis, counted, host, repo, faults, wiped>>
  BY Zenon DEF GetTaskStatusByID, TypeOK
<1>2. CASE pc'[e] = "unlock"
  BY <1>0, <1>1, <1>2, RecordKept, Zenon DEF Of
<1>3. CASE pc'[e] = "getTask"
  <2>1. CanBeExecuted(StoredStatus(t)) /\ IsBroadcast(StoredStatus(t))
    BY <1>1, <1>3, Zenon DEF GetTaskStatusByID, TypeOK
  <2>2. redis[t] = ToNumericString(RetriableFailedTaskStatus)
    BY <1>0, <2>1, StatusRead, Zenon DEF Record
  <2>3. HandlerOf[t] # "fake"
    BY <2>2, Zenon DEF Record, FakeSucceeds
  <2> QED BY <1>0, <1>1, <1>3, <2>3, RecordKept, Zenon DEF Of
<1>4. CASE pc'[e] = "deliver"
  <2>1. /\ CanBeExecuted(StoredStatus(t)) /\ ~IsBroadcast(StoredStatus(t))
        /\ task'[e] = MakeTaskUsingProcessedEvent
    BY <1>1, <1>4, Zenon DEF GetTaskStatusByID, TypeOK
  <2>2. redis[t] = Nil
    BY <1>0, <2>1, StatusRead, Zenon DEF Record
  <2>3. ASSUME faults[t] = 0 PROVE Carried(e, t)'
    <3>1. \A f \in Of(t) : pc[f] \notin {"upsert", "save"}
      BY <1>1, <2>3, Alone, Zenon DEF Of, Critical
    <3>2. counted[t] = 0 /\ \A p \in Process : repo[p][t] = None
      BY <2>2, <2>3, <3>1, Zenon DEF Record, Memory, NothingYet
    <3>3. task'[e].Attempts = 0
      BY <2>1 DEF MakeTaskUsingProcessedEvent
    <3> QED BY <1>1, <1>4, <3>2, <3>3 DEF Carried, AttemptsModulus
  <2> QED BY <1>0, <1>1, <1>4, <2>3, DeliverEntered, Zenon
<1> QED BY <1>1, <1>2, <1>3, <1>4, Zenon

\* GetTaskByIDWithContext, which goes on from the count in the repository.
LEMMA GetTaskRecords ==
  ASSUME TypeOK, Guarded, NEW e \in Event, GetTaskByIDWithContext(e), Record(ID[e])
  PROVE  Record(ID[e])'
<1> DEFINE t == ID[e]
<1>0. t \in Task /\ host[e] \in Process
  BY ConstantsAssumption, Zenon DEF TypeOK
<1> USE DEF history, Return, FindHandler
<1>1. /\ pc[e] = "getTask" /\ pc'[e] \in {"unlock", "deliver"}
      /\ \A f \in Event : f # e => pc'[f] = pc[f] /\ task'[f] = task[f]
      /\ UNCHANGED <<redis, counted, host, repo, faults, wiped>>
      /\ pc'[e] = "deliver" => repo[host[e]][t] # None /\ task'[e] = repo[host[e]][t]
  BY Zenon DEF GetTaskByIDWithContext, TypeOK
<1>2. CASE pc'[e] = "unlock"
  BY <1>0, <1>1, <1>2, RecordKept, Zenon DEF Of
<1>3. CASE pc'[e] = "deliver"
  <2>1. HandlerOf[t] # "fake"
    BY <1>1, Zenon DEF Record, FakeSucceeds, Of
  <2>2. ASSUME faults[t] = 0 PROVE Carried(e, t)'
    <3>1. \A f \in Of(t) : pc[f] # "upsert"
      BY <1>1, <2>2, Alone, Zenon DEF Of, Critical
    <3>2. \A q \in Process \ {host[e]} : repo[q][t] = None
      BY <1>0, <1>1, <1>3, <2>2, Zenon DEF Record, Memory, OneRepo
    <3>3. repo[host[e]][t].Attempts = counted[t] % AttemptsModulus
      BY <1>0, <1>1, <1>3, <2>2, <3>1, Zenon DEF Record, Memory, CountKept
    <3> QED BY <1>1, <1>3, <2>1, <3>2, <3>3, Zenon DEF Carried
  <2> QED BY <1>0, <1>1, <1>3, <2>2, DeliverEntered, Zenon
<1> QED BY <1>1, <1>2, <1>3, Zenon

\* Counting on from a wrapped count.
LEMMA CountOn ==
  ASSUME NEW n \in Nat
  PROVE  ((n % AttemptsModulus) + 1) % AttemptsModulus = (n + 1) % AttemptsModulus
  BY DEF AttemptsModulus

\* Deliver: the answer carries one attempt more, or as many when it is not counted.
LEMMA DeliverRecords ==
  ASSUME TypeOK, Guarded, NEW e \in Event, Deliver(e), Record(ID[e])
  PROVE  Record(ID[e])'
<1> DEFINE t == ID[e]
<1>0. t \in Task /\ host[e] \in Process /\ counted[t] \in Nat /\ HandlerOf[t] \in HandlerKind
      /\ task[e] \in TaskRecord
  BY ConstantsAssumption, Zenon DEF TypeOK
<1>1. PICK response \in Handle(HandlerOf[t], task[e]) : Deliver(e)!2!(response)
  BY Zenon DEF Deliver
<1>2. /\ pc[e] = "deliver" /\ pc'[e] = "upsert" /\ task'[e] = response
      /\ \A f \in Event : f # e => pc'[f] = pc[f] /\ task'[f] = task[f]
      /\ UNCHANGED <<redis, host, repo, faults, wiped>>
      /\ counted'[t] = IF response.Attempts = task[e].Attempts THEN counted[t] ELSE counted[t] + 1
  BY <1>0, <1>1, Zenon DEF Deliver, TypeOK
<1>3. /\ HandlerOf[t] = "fake" => response.DeliveryStatus = SuccessTaskStatus /\ response.Attempts = 1
      /\ HandlerOf[t] # "fake" =>
           response.Attempts \in {task[e].Attempts, (task[e].Attempts + 1) % AttemptsModulus}
  <2>1. HandlerOf[t] \in {"fake", "webhook", "contract"}
    BY <1>0, <1>1, Zenon DEF Handle, HandlerKind
  <2> QED BY <1>1, <2>1 DEF Handle
<1>4. KnownStatus(t)' /\ FakeSucceeds(t)'
  BY <1>2, <1>3, Zenon DEF Record, KnownStatus, FakeSucceeds, Of
<1>5. ASSUME faults[t] = 0 PROVE Memory(t)'
  <2>1. Memory(t) /\ e \in Of(t)
    BY <1>5, Zenon DEF Record, Of
  <2>2. \A f \in Of(t) : f # e => pc'[f] \notin Critical /\ pc[f] \notin Critical
    BY <1>2, <1>5, Alone, Zenon DEF Of, Critical
  <2>3. NothingYet(t)' /\ CountKept(t)'
    BY <1>2, <2>1, Zenon DEF NothingYet, CountKept, Of
  <2>4. OneRepo(t)'
    BY <1>2, <2>1, Zenon DEF Memory, OneRepo
  <2>5. StatusFound(t)'
    BY <1>2, <2>1, Zenon DEF Memory, StatusFound, Of
  <2>6. response.Attempts = counted'[t] % AttemptsModulus
    <3>1. task[e].Attempts = counted[t] % AttemptsModulus
      BY <1>2, <2>1, Zenon DEF Memory, Carried
    <3>2. CASE response.Attempts = task[e].Attempts
      BY <1>2, <3>1, <3>2, Zenon
    <3>3. CASE response.Attempts # task[e].Attempts /\ HandlerOf[t] # "fake"
      BY <1>0, <1>2, <1>3, <3>1, <3>3, CountOn, ZenonT(40)
    <3>4. CASE response.Attempts # task[e].Attempts /\ HandlerOf[t] = "fake"
      BY <1>2, <1>3, <2>1, <3>4, SMTT(30) DEF Memory, Carried, AttemptsModulus
    <3> QED BY <3>2, <3>3, <3>4, Zenon
  <2>7. Carried(e, t)'
    <3>1. \A q \in Process \ {host[e]} : repo[q][t] = None
      BY <1>2, <2>1, Zenon DEF Memory, Carried
    <3> QED BY <1>2, <2>6, <3>1, Zenon DEF Carried
  <2>8. \A f \in Of(t) : f # e => Carried(f, t)'
    BY <2>2, Zenon DEF Carried, Critical
  <2> QED BY <2>3, <2>4, <2>5, <2>7, <2>8, Zenon DEF Memory, Of
<1> QED BY <1>2, <1>4, <1>5, Zenon DEF Record

\* UpsertTaskWithContext: the repository of this process holds the answer.
LEMMA UpsertRecords ==
  ASSUME TypeOK, Guarded, NEW e \in Event, UpsertTaskWithContext(e), Record(ID[e])
  PROVE  Record(ID[e])'
<1> DEFINE t == ID[e]
<1>0. t \in Task /\ host[e] \in Process
  BY ConstantsAssumption, Zenon DEF TypeOK
<1>1. /\ pc[e] = "upsert" /\ pc'[e] = "save"
      /\ \A f \in Event : f # e => pc'[f] = pc[f]
      /\ UNCHANGED <<task, redis, host, counted, faults, wiped>>
      /\ repo'[host[e]][t] = task[e]
      /\ \A q \in Process : q # host[e] => repo'[q][t] = repo[q][t]
  BY <1>0, Zenon DEF UpsertTaskWithContext, TypeOK, history
<1>2. KnownStatus(t)' /\ FakeSucceeds(t)'
  BY <1>1, Zenon DEF Record, KnownStatus, FakeSucceeds, Of
<1>3. ASSUME faults[t] = 0 PROVE Memory(t)'
  <2>1. Memory(t) /\ e \in Of(t)
    BY <1>3, Zenon DEF Record, Of
  <2>2. \A f \in Of(t) : f # e => pc'[f] \notin Critical
    BY <1>1, <1>3, Alone, Zenon DEF Of, Critical
  <2>3. NothingYet(t)' /\ StatusFound(t)'
    BY <1>1, <2>1, Zenon DEF NothingYet, StatusFound, Of
  <2>4. /\ \A q \in Process \ {host[e]} : repo'[q][t] = None
        /\ task[e].Attempts = counted[t] % AttemptsModulus
    BY <1>1, <2>1, Zenon DEF Memory, Carried
  <2>5. OneRepo(t)'
    BY <1>0, <2>4, Zenon DEF OneRepo
  <2>6. CountKept(t)'
    BY <1>1, <2>4, Zenon DEF CountKept
  <2>7. Carried(e, t)'
    BY <1>1, <2>4, Zenon DEF Carried
  <2>8. \A f \in Of(t) : f # e => Carried(f, t)'
    BY <2>2, Zenon DEF Carried, Critical
  <2> QED BY <2>3, <2>5, <2>6, <2>7, <2>8, Zenon DEF Memory, Of
<1> QED BY <1>1, <1>2, <1>3, Zenon DEF Record

\* SaveTaskStatus: Redis holds what the repository of this process holds.
LEMMA SaveRecords ==
  ASSUME TypeOK, Guarded, Answered, NEW e \in Event, Record(ID[e]),
         SaveTaskStatus(e) \/ SaveTaskStatusFails(e)
  PROVE  Record(ID[e])'
<1> DEFINE t == ID[e]
<1>0. t \in Task /\ host[e] \in Process /\ faults[t] \in Nat /\ task[e] \in TaskRecord
  BY ConstantsAssumption, Zenon DEF TypeOK
<1>1. /\ pc[e] = "save" /\ pc'[e] = "unlock"
      /\ \A f \in Event : f # e => pc'[f] = pc[f]
      /\ UNCHANGED <<task, host, repo, counted, wiped>>
      /\ \/ redis'[t] = ToNumericString(task[e].DeliveryStatus) /\ faults'[t] = faults[t]
         \/ redis'[t] = redis[t] /\ faults'[t] = faults[t] + 1
  BY <1>0 DEF SaveTaskStatus, SaveTaskStatusFails, Return, history, TypeOK
<1>2. task[e].DeliveryStatus \in
        {RetriableFailedTaskStatus, UnRetriableFailedTaskStatus, SuccessTaskStatus}
  BY <1>1, Zenon DEF Answered
<1>3. KnownStatus(t)'
  BY <1>1, <1>2, Zenon DEF Record, KnownStatus
<1>4. FakeSucceeds(t)'
  BY <1>1, AnswersDiffer, Zenon DEF Record, FakeSucceeds, Of
<1>5. ASSUME faults'[t] = 0 PROVE Memory(t)'
  <2>1. faults[t] = 0 /\ redis'[t] = ToNumericString(task[e].DeliveryStatus)
    BY <1>0, <1>1, <1>5, SMTT(30)
  <2>2. Memory(t) /\ e \in Of(t)
    BY <2>1, Zenon DEF Record, Of
  <2>3. \A f \in Of(t) : f # e => pc'[f] \notin Critical
    BY <1>1, <2>1, Alone, Zenon DEF Of, Critical
  <2>4. repo[host[e]][t] = task[e] /\ task[e] # None
    BY <1>0, <1>1, <2>2, ConstantsAssumption, Zenon DEF Memory, Carried
  <2>5. redis'[t] # Nil
    BY <1>2, <2>1, AnswersDiffer, Zenon
  <2>6. NothingYet(t)'
    BY <2>5, Zenon DEF NothingYet
  <2>7. OneRepo(t)'
    BY <1>1, <2>2, Zenon DEF Memory, OneRepo
  <2>8. StatusFound(t)'
    BY <1>0, <1>1, <2>1, <2>4, Zenon DEF StatusFound
  <2>9. CountKept(t)'
    BY <1>1, <2>2, Zenon DEF Memory, CountKept, Of
  <2>10. \A f \in Of(t) : Carried(f, t)'
    BY <1>1, <2>3, Zenon DEF Carried, Critical
  <2> QED BY <2>6, <2>7, <2>8, <2>9, <2>10, ZenonT(40) DEF Memory, Of
<1> QED BY <1>3, <1>4, <1>5, Zenon DEF Record

\* A crash takes a repository, and is a mishap for what it held unrecorded.
LEMMA CrashRecords ==
  ASSUME TypeOK, NEW p \in Process, Crash(p), NEW t \in Task, Record(t)
  PROVE  Record(t)'
<1>1. /\ UNCHANGED <<host, task, redis, counted>>
      /\ \A e \in Event : pc'[e] = IF host[e] = p /\ Running(e) THEN "dead" ELSE pc[e]
      /\ faults'[t] = IF Unrecorded(p, t) # {} THEN faults[t] + 1 ELSE faults[t]
      /\ wiped' = wiped \cup {u \in Task : repo[p][u] # None}
      /\ repo'[p][t] = None
      /\ \A q \in Process : q # p => repo'[q][t] = repo[q][t]
  BY Zenon DEF Crash, TypeOK
<1>2. \A e \in Event : pc'[e] \in Critical => pc'[e] = pc[e] /\ host[e] # p
  BY <1>1, Zenon DEF Running, Critical
<1>3. KnownStatus(t)' /\ FakeSucceeds(t)'
  BY <1>1, <1>2, Zenon DEF Record, KnownStatus, FakeSucceeds, Of, Critical
<1>4. ASSUME faults'[t] = 0 PROVE Memory(t)'
  <2>1. faults[t] = 0 /\ Unrecorded(p, t) = {}
    BY <1>1, <1>4 DEF TypeOK
  <2>2. Memory(t)
    BY <2>1, Zenon DEF Record
  <2>3. \A e \in Of(t) : pc[e] \in {"upsert", "save"} => host[e] # p
    BY <2>1, Zenon DEF Unrecorded
  <2>4. \A e \in Of(t) : /\ pc'[e] = "upsert" <=> pc[e] = "upsert"
                         /\ pc'[e] = "save" <=> pc[e] = "save"
    BY <1>1, <2>3, Zenon DEF Of
  <2>5. \A q \in Process : repo'[q][t] # None => q # p /\ repo'[q][t] = repo[q][t]
    BY <1>1, Zenon
  <2>6. NothingYet(t)'
    BY <1>1, <2>2, <2>4, <2>5, Zenon DEF Memory, NothingYet, Of
  <2>7. OneRepo(t)'
    BY <2>2, <2>5, Zenon DEF Memory, OneRepo
  <2>8. StatusFound(t)'
    <3> SUFFICES ASSUME t \notin wiped', redis[t] # Nil, \A e \in Of(t) : pc'[e] # "save"
                 PROVE  \E q \in Process : /\ repo'[q][t] # None
                                           /\ ToNumericString(repo'[q][t].DeliveryStatus) = redis[t]
      BY <1>1, Zenon DEF StatusFound, Of
    <3>1. t \notin wiped /\ repo[p][t] = None
      BY <1>1, Zenon
    <3>2. PICK q \in Process : repo[q][t] # None /\ ToNumericString(repo[q][t].DeliveryStatus) = redis[t]
      BY <2>2, <2>4, <3>1, Zenon DEF Memory, StatusFound
    <3> QED BY <1>1, <3>1, <3>2, Zenon
  <2>9. CountKept(t)'
    BY <1>1, <2>2, <2>4, <2>5, Zenon DEF Memory, CountKept, Of
  <2>10. ASSUME NEW e \in Of(t) PROVE Carried(e, t)'
    <3>1. e \in Event /\ host[e] \in Process
      BY Zenon DEF Of, TypeOK
    <3>2. CASE pc'[e] \in Critical
      <4>1. pc'[e] = pc[e] /\ host[e] # p
        BY <1>2, <3>1, <3>2, Zenon
      <4> QED BY <1>1, <2>2, <3>1, <4>1, ZenonT(40) DEF Memory, Carried
    <3>3. CASE pc'[e] \notin Critical
      BY <3>3, Zenon DEF Carried, Critical
    <3> QED BY <3>2, <3>3, Zenon
  <2> QED BY <2>6, <2>7, <2>8, <2>9, <2>10, ZenonT(40) DEF Memory, Of
<1> QED BY <1>3, <1>4, Zenon DEF Record

\* The records are inductive.
LEMMA RecordStep ==
  TypeOK /\ Guarded /\ Answered /\ (\A t \in Task : Record(t)) /\ [Next]_vars
  => \A t \in Task : Record(t)'
<1> SUFFICES ASSUME TypeOK, Guarded, Answered, \A u \in Task : Record(u), [Next]_vars, NEW t \in Task
             PROVE  Record(t)'
  BY Zenon
<1> USE ConstantsAssumption
<1>1. ASSUME NEW e \in Event,
             \/ Receive(e) \/ LockTaskByID(e) \/ LockTaskByIDFails(e) \/ GetTaskStatusByIDFails(e)
             \/ DeliverFails(e) \/ Unlock(e) \/ CtxTimeout(e) \/ LeaseLapse(e)
      PROVE  Record(t)'
  <2>1. /\ UNCHANGED <<task, redis, counted, host, repo, wiped>>
        /\ \A f \in Event : f # e => pc'[f] = pc[f]
        /\ pc'[e] \in {"getTask", "deliver", "upsert", "save"} => pc'[e] = pc[e]
        /\ pc[e] \in {"upsert", "save"} => pc'[e] = pc[e]
    <3>1. CASE Receive(e) \/ LockTaskByID(e) \/ Unlock(e) \/ CtxTimeout(e) \/ LeaseLapse(e)
      BY <3>1, Zenon DEF Receive, LockTaskByID, Unlock, CtxTimeout, LeaseLapse, TypeOK, history
    <3>2. CASE LockTaskByIDFails(e) \/ GetTaskStatusByIDFails(e) \/ DeliverFails(e)
      BY <3>2, Zenon DEF LockTaskByIDFails, GetTaskStatusByIDFails, DeliverFails, TypeOK, history, Return
    <3> QED BY <1>1, <3>1, <3>2, Zenon
  <2>2. faults'[t] = 0 => faults[t] = 0
    <3>1. CASE LeaseLapse(e)
      BY <3>1 DEF LeaseLapse, TypeOK
    <3>2. CASE ~LeaseLapse(e)
      <4>1. faults' = faults
        BY <1>1, <3>2, Zenon DEF Receive, LockTaskByID, LockTaskByIDFails, GetTaskStatusByIDFails,
                          DeliverFails, Unlock, CtxTimeout, history
      <4> QED BY <4>1, Zenon
    <3> QED BY <3>1, <3>2, Zenon
  <2> QED BY <2>1, <2>2, RecordKept, Zenon DEF Of
<1>2. ASSUME NEW e \in Event,
             \/ GetTaskStatusByID(e) \/ GetTaskByIDWithContext(e) \/ Deliver(e)
             \/ UpsertTaskWithContext(e) \/ SaveTaskStatus(e) \/ SaveTaskStatusFails(e)
      PROVE  Record(t)'
  <2>0. ID[e] \in Task
    BY Zenon
  <2>1. CASE t = ID[e]
    BY <1>2, <2>1, GetStatusRecords, GetTaskRecords, DeliverRecords, UpsertRecords, SaveRecords, Zenon
  <2>2. CASE t # ID[e]
    <3>1. /\ host' = host /\ wiped' = wiped
          /\ redis'[t] = redis[t] /\ counted'[t] = counted[t] /\ faults'[t] = faults[t]
          /\ \A p \in Process : repo'[p][t] = repo[p][t]
          /\ \A f \in Event : f # e => pc'[f] = pc[f] /\ task'[f] = task[f]
      <4>1. CASE GetTaskStatusByID(e) \/ GetTaskByIDWithContext(e)
        BY <4>1, Zenon DEF GetTaskStatusByID, GetTaskByIDWithContext, FindHandler, Return, history, TypeOK
      <4>2. CASE Deliver(e)
        BY <2>0, <2>2, <4>2, SMTT(30) DEF Deliver, TypeOK
      <4>3. CASE UpsertTaskWithContext(e)
        BY <2>0, <2>2, <4>3, Zenon DEF UpsertTaskWithContext, history, TypeOK
      <4>4. CASE SaveTaskStatus(e) \/ SaveTaskStatusFails(e)
        BY <2>0, <2>2, <4>4, Zenon DEF SaveTaskStatus, SaveTaskStatusFails, Return, history, TypeOK
      <4> QED BY <1>2, <4>1, <4>2, <4>3, <4>4, Zenon
    <3>2. \A f \in Of(t) : f # e
      BY <2>2, Zenon DEF Of
    <3> QED BY <3>1, <3>2, RecordKept, Zenon DEF Of
  <2> QED BY <2>1, <2>2, Zenon
<1>3. ASSUME NEW p \in Process, Crash(p) PROVE Record(t)'
  BY <1>3, CrashRecords, Zenon
<1>4. ASSUME NEW u \in Task, ExpireStatus(u) PROVE Record(t)'
  <2>1. /\ UNCHANGED <<pc, host, task, repo, counted, wiped>>
        /\ t # u => redis'[t] = redis[t] /\ faults'[t] = faults[t]
        /\ t = u => redis'[t] = Nil /\ faults'[t] # 0
    BY <1>4, SMTT(30) DEF ExpireStatus, TypeOK
  <2>2. CASE t = u
    <3>1. KnownStatus(t)' /\ FakeSucceeds(t)'
      BY <2>1, <2>2, AnswersDiffer, Zenon DEF Record, KnownStatus, FakeSucceeds, Of
    <3> QED BY <2>1, <2>2, <3>1, Zenon DEF Record
  <2>3. CASE t # u
    BY <2>1, <2>3, RecordKept, Zenon DEF Of
  <2> QED BY <2>2, <2>3, Zenon
<1>5. CASE UNCHANGED vars
  BY <1>5, RecordKept, Zenon DEF vars
<1> QED BY <1>1, <1>2, <1>3, <1>4, <1>5, Zenon DEF Next, HandleTask

LEMMA RecordsHold == Spec => []\A t \in Task : Record(t)
<1>1. Init => Guarded /\ Decided /\ Answered /\ \A t \in Task : Record(t)
  <2> SUFFICES ASSUME Init PROVE Guarded /\ Decided /\ Answered /\ \A t \in Task : Record(t)
    BY Zenon
  <2>1. Guarded /\ Decided /\ Answered
    BY Zenon DEF Init, Guarded, Decided, Answered, InCritical, Critical, Executing
  <2>2. ASSUME NEW t \in Task PROVE Record(t)
    <3>1. KnownStatus(t) /\ FakeSucceeds(t)
      BY AnswersDiffer, Zenon DEF Init, KnownStatus, FakeSucceeds, Of
    <3>2. Memory(t)
      BY Zenon DEF Init, Memory, NothingYet, OneRepo, StatusFound, CountKept, Carried, Of
    <3> QED BY <3>1, <3>2, Zenon DEF Record
  <2> QED BY <2>1, <2>2, Zenon
<1>2. (\A t \in Task : Record(t))' <=> \A t \in Task : Record(t)'
  BY Zenon
<1> QED BY <1>1, <1>2, RecordStep, DecidedStep, AnsweredStep, TypeCorrect, PTL DEF Spec

\* HandleTask never leaves a status in Redis that no repository can account for,
\* unless the task met a mishap or its process died.
THEOREM RepositoryKeepsUp == Spec => []RedisNotAheadOfRepo
<1>1. (\A t \in Task : Record(t)) => RedisNotAheadOfRepo
  BY Zenon DEF Record, Memory, StatusFound, RedisNotAheadOfRepo
<1> QED BY <1>1, RecordsHold, PTL

\* A retry goes on from the stored count of attempts, for any handler, whether it
\* counts a failed attempt or not, and however often the one byte counter wraps.
THEOREM RetriesCountOn == Spec => []AttemptsCounted
<1>1. (\A t \in Task : Record(t)) => AttemptsCounted
  BY Zenon DEF Record, Memory, CountKept, AttemptsCounted, CountIsDue
<1> QED BY <1>1, RecordsHold, PTL

-----------------------------------------------------------------------------
-----------------------------------------------------------------------------
(* At most one delivery, and one more for each mishap *)

\* The goroutine of e is working and its key is gone: its lease has lapsed.
Lapsed(e) == InCritical(e) /\ locks[ID[e]] # e

\* The goroutine holds a Success it has not recorded.
HoldsSuccess(e) ==
  pc[e] \in {"upsert", "save"} /\ task[e].DeliveryStatus = SuccessTaskStatus

\* The goroutine may still deliver, or write a status that lets others deliver.
MayReopen(e) ==
  \/ pc[e] \in {"getStatus", "getTask", "deliver"}
  \/ pc[e] \in {"upsert", "save"} /\ task[e].DeliveryStatus = RetriableFailedTaskStatus

\* The goroutines of t whose mishap has been counted and not yet used.
Debt(t) == {e \in Event : ID[e] = t /\ Lapsed(e) /\ MayReopen(e)}

\* The owner of the lock, present or future, may deliver t.
Open(t) ==
  /\ ~\E e \in Event : locks[t] = e /\ HoldsSuccess(e)
  /\ \/ ~Settled(redis[t])
     \/ \E e \in Event : locks[t] = e /\ pc[e] \in Executing

\* Deliveries made, deliveries that lapsed goroutines may cause and the one the
\* owner may make never exceed one plus the mishaps.
Budget(t) ==
  /\ IsFiniteSet(Debt(t))
  /\ sent[t] + Cardinality(Debt(t)) + (IF Open(t) THEN 1 ELSE 0) <= 1 + faults[t]

IInv ==
  /\ TypeOK
  /\ LockOwner
  /\ Answered
  /\ \A t \in Task : Budget(t)

\* Sizes of finite sets that gain or lose an element.
LEMMA Sizes ==
  ASSUME NEW S, IsFiniteSet(S)
  PROVE  /\ Cardinality(S) \in Nat
         /\ \A T \in SUBSET S : IsFiniteSet(T) /\ Cardinality(T) \in Nat
                                /\ Cardinality(T) <= Cardinality(S)
         /\ \A x : \A T \in SUBSET (S \cup {x}) :
              IsFiniteSet(T) /\ Cardinality(T) \in Nat /\ Cardinality(T) <= Cardinality(S) + 1
         /\ \A x \in S : \A T \in SUBSET (S \ {x}) :
              IsFiniteSet(T) /\ Cardinality(T) \in Nat /\ Cardinality(T) <= Cardinality(S) - 1
<1>1. Cardinality(S) \in Nat
  BY FS_CardinalityType, Zenon
<1>2. ASSUME NEW R, IsFiniteSet(R), NEW T \in SUBSET R
      PROVE  IsFiniteSet(T) /\ Cardinality(T) \in Nat /\ Cardinality(T) <= Cardinality(R)
  BY <1>2, FS_Subset, FS_CardinalityType, Zenon
<1>3. ASSUME NEW x
      PROVE  /\ IsFiniteSet(S \cup {x})
             /\ Cardinality(S \cup {x}) <= Cardinality(S) + 1
             /\ Cardinality(S \cup {x}) \in Nat
  BY <1>1, FS_AddElement, FS_CardinalityType
<1>4. ASSUME NEW x \in S
      PROVE  IsFiniteSet(S \ {x}) /\ Cardinality(S \ {x}) = Cardinality(S) - 1
  BY <1>1, FS_RemoveElement, Zenon
<1>5. ASSUME NEW x, NEW T \in SUBSET (S \cup {x})
      PROVE  IsFiniteSet(T) /\ Cardinality(T) \in Nat /\ Cardinality(T) <= Cardinality(S) + 1
  <2> DEFINE R == S \cup {x}
  <2>1. IsFiniteSet(R) /\ Cardinality(R) <= Cardinality(S) + 1 /\ Cardinality(R) \in Nat
    BY <1>3, Zenon
  <2>2. IsFiniteSet(T) /\ Cardinality(T) \in Nat /\ Cardinality(T) <= Cardinality(R)
    BY <1>2, <2>1, Zenon
  <2> HIDE DEF R
  <2>3. QED
    BY <1>1, <2>1, <2>2
<1>6. ASSUME NEW x \in S, NEW T \in SUBSET (S \ {x})
      PROVE  IsFiniteSet(T) /\ Cardinality(T) \in Nat /\ Cardinality(T) <= Cardinality(S) - 1
  BY <1>1, <1>2, <1>4, Zenon
<1>7. QED
  BY <1>1, <1>2, <1>5, <1>6, Zenon

\* The five ways in which a step keeps the budget of a task.
LEMMA BudgetKept ==
  ASSUME TypeOK, TypeOK', NEW t \in Task, Budget(t),
         \/ /\ sent'[t] = sent[t] /\ faults'[t] >= faults[t]
            /\ Debt(t)' \subseteq Debt(t) /\ (Open(t)' => Open(t))
         \/ /\ sent'[t] = sent[t] /\ faults'[t] = faults[t] + 1
            /\ Debt(t)' \subseteq Debt(t)
         \/ /\ sent'[t] = sent[t] /\ faults'[t] = faults[t] + 1
            /\ (Open(t)' => Open(t))
            /\ \E e \in Event : Debt(t)' \subseteq Debt(t) \cup {e}
         \/ /\ faults'[t] = faults[t]
            /\ \E e \in Debt(t) : Debt(t)' \subseteq Debt(t) \ {e}
            /\ \/ sent'[t] = sent[t]
               \/ sent'[t] = sent[t] + 1 /\ (Open(t)' => Open(t))
         \/ /\ sent'[t] = sent[t] + 1 /\ faults'[t] = faults[t]
            /\ Debt(t)' \subseteq Debt(t) /\ Open(t) /\ ~Open(t)'
  PROVE  Budget(t)'
<1> DEFINE D == Debt(t)  E == Debt(t)'
<1>1. /\ IsFiniteSet(D) /\ Cardinality(D) \in Nat
      /\ sent[t] \in Nat /\ sent'[t] \in Nat /\ faults[t] \in Nat /\ faults'[t] \in Nat
      /\ sent[t] + Cardinality(D) + (IF Open(t) THEN 1 ELSE 0) <= 1 + faults[t]
  BY Sizes, Zenon DEF Budget, TypeOK
<1> SUFFICES /\ IsFiniteSet(E)
             /\ sent'[t] + Cardinality(E) + (IF Open(t)' THEN 1 ELSE 0) <= 1 + faults'[t]
  BY Zenon DEF Budget
<1>2. CASE E \subseteq D
  <2>1. IsFiniteSet(E) /\ Cardinality(E) \in Nat /\ Cardinality(E) <= Cardinality(D)
    BY <1>1, <1>2, Sizes, Zenon
  <2>2. ASSUME NEW e \in D, E \subseteq D \ {e}
        PROVE  Cardinality(E) <= Cardinality(D) - 1
    BY <1>1, <2>2, Sizes, Zenon
  <2> HIDE DEF D, E
  <2>3. QED
    BY <1>1, <2>1, <2>2, SMTT(30) DEF D, E
<1>3. CASE ~(E \subseteq D)
  <2>1. /\ sent'[t] = sent[t] /\ faults'[t] = faults[t] + 1 /\ (Open(t)' => Open(t))
        /\ \E e \in Event : E \subseteq D \cup {e}
    BY <1>3, Zenon
  <2>2. IsFiniteSet(E) /\ Cardinality(E) \in Nat /\ Cardinality(E) <= Cardinality(D) + 1
    BY <1>1, <2>1, Sizes, Zenon
  <2>3. QED
    BY <1>1, <2>1, <2>2, SMTT(30)
<1>4. QED
  BY <1>2, <1>3, Zenon

\* A step of one goroutine leaves the budgets of the other tasks alone.
LEMMA OtherBudget ==
  ASSUME IInv, TypeOK', NEW e \in Event, NEW t \in Task, t # ID[e],
         \A f \in Event : f # e => pc'[f] = pc[f] /\ task'[f] = task[f],
         locks'[t] = locks[t], redis'[t] = redis[t],
         sent'[t] = sent[t], faults'[t] = faults[t]
  PROVE  Budget(t)'
<1>1. Debt(t)' \subseteq Debt(t)
  BY Zenon DEF Debt, Lapsed, InCritical, MayReopen
<1>2. Open(t)' => Open(t)
  BY DEF Open, HoldsSuccess, IInv, LockOwner
<1>3. faults'[t] >= faults[t]
  BY DEF TypeOK, IInv
<1>4. QED
  BY <1>1, <1>2, <1>3, BudgetKept, Zenon DEF IInv

\* A step of one goroutine keeps every budget when it keeps that of its task.
LEMMA OwnBudget ==
  ASSUME IInv, TypeOK', NEW e \in Event,
         \A f \in Event : f # e => pc'[f] = pc[f] /\ task'[f] = task[f],
         \A t \in Task : t # ID[e] =>
           /\ locks'[t] = locks[t] /\ redis'[t] = redis[t]
           /\ sent'[t] = sent[t] /\ faults'[t] = faults[t],
         Budget(ID[e])'
  PROVE  \A t \in Task : Budget(t)'
  BY OtherBudget, Zenon

\* What a step that neither delivers nor writes a status does to the key of its
\* task.
KeyMove(e) ==
  \/ locks'[ID[e]] = locks[ID[e]]
  \/ locks[ID[e]] = None /\ locks'[ID[e]] = e /\ pc[e] = "lock"
  \/ locks[ID[e]] = e /\ locks'[ID[e]] = None /\ pc[e] = "unlock"

\* What such a step does to its goroutine.
PlaceMove(e) ==
  \/ pc'[e] = pc[e] /\ task'[e] = task[e]
  \/ pc[e] \in {"queued", "lock", "unlock"} /\ pc'[e] \in {"lock", "done"}
  \/ pc[e] = "lock" /\ pc'[e] = "getStatus" /\ locks'[ID[e]] = e
  \/ pc[e] \in {"getStatus", "getTask", "deliver"} /\ pc'[e] = "unlock"
  \/ pc[e] = "getStatus" /\ pc'[e] \in {"getTask", "deliver"} /\ ~Settled(redis[ID[e]])
  \/ pc[e] = "getTask" /\ pc'[e] = "deliver"
  \/ pc[e] = "upsert" /\ pc'[e] = "save" /\ task'[e] = task[e]

\* It touches no other goroutine, no other key and none of the counts.
Quiet(e) ==
  /\ \A f \in Event : f # e => pc'[f] = pc[f] /\ task'[f] = task[f]
  /\ UNCHANGED <<redis, sent, faults>>
  /\ \A u \in Task : u # ID[e] => locks'[u] = locks[u]
  /\ KeyMove(e)
  /\ PlaceMove(e)

\* The steps of HandleTask that take, keep or give back the key are quiet.
LEMMA KeySteps ==
  ASSUME TypeOK, NEW e \in Event
  PROVE  /\ Receive(e) => Quiet(e)
         /\ LockTaskByID(e) => Quiet(e)
         /\ LockTaskByIDFails(e) => Quiet(e)
         /\ Unlock(e) => Quiet(e)
         /\ CtxTimeout(e) => Quiet(e)
<1> USE ConstantsAssumption DEF TypeOK, history, Quiet, KeyMove, PlaceMove
<1>1. Receive(e) => Quiet(e)
  BY Zenon DEF Receive
<1>2. LockTaskByID(e) => Quiet(e)
  BY ZenonT(40) DEF LockTaskByID
<1>3. LockTaskByIDFails(e) => Quiet(e)
  BY DEF LockTaskByIDFails
<1>4. Unlock(e) => Quiet(e)
  BY Zenon DEF Unlock
<1>5. CtxTimeout(e) => Quiet(e)
  BY Zenon DEF CtxTimeout
<1>6. QED
  BY <1>1, <1>2, <1>3, <1>4, <1>5, ZenonT(40)

\* So are the steps that read, fail, or write only to the repository.
LEMMA ReadingSteps ==
  ASSUME TypeOK, NEW e \in Event
  PROVE  /\ GetTaskStatusByID(e) => Quiet(e)
         /\ GetTaskStatusByIDFails(e) => Quiet(e)
         /\ GetTaskByIDWithContext(e) => Quiet(e)
         /\ DeliverFails(e) => Quiet(e)
         /\ UpsertTaskWithContext(e) => Quiet(e)
<1>0. ID[e] \in Task
  BY ConstantsAssumption, Zenon
<1>1. redis[ID[e]] \in NumericString \cup {Nil}
  BY <1>0, Zenon DEF TypeOK
<1>2. CanBeExecuted(StoredStatus(ID[e])) <=> ~Settled(redis[ID[e]])
  BY <1>0, <1>1, StoredAnswer, Zenon
<1> USE DEF TypeOK, history, Return, FindHandler, Quiet, KeyMove, PlaceMove
<1>3. GetTaskStatusByID(e) => Quiet(e)
  BY <1>2, Zenon DEF GetTaskStatusByID
<1>4. GetTaskStatusByIDFails(e) => Quiet(e)
  BY Zenon DEF GetTaskStatusByIDFails
<1>5. GetTaskByIDWithContext(e) => Quiet(e)
  BY Zenon DEF GetTaskByIDWithContext
<1>6. DeliverFails(e) => Quiet(e)
  BY Zenon DEF DeliverFails
<1>7. UpsertTaskWithContext(e) => Quiet(e)
  BY Zenon DEF UpsertTaskWithContext
<1>8. QED
  BY <1>3, <1>4, <1>5, <1>6, <1>7, ZenonT(40)

\* A quiet step adds no debt.
LEMMA QuietDebt ==
  ASSUME NEW e \in Event, Quiet(e)
  PROVE  Debt(ID[e])' \subseteq Debt(ID[e])
<1> SUFFICES ASSUME NEW f \in Event, ID[f] = ID[e], Lapsed(f)', MayReopen(f)'
             PROVE  Lapsed(f) /\ MayReopen(f)
  BY Zenon DEF Debt
<1>1. CASE f # e
  BY <1>1, ConstantsAssumption, Zenon DEF Quiet, KeyMove, Lapsed, MayReopen, InCritical
<1>2. CASE f = e
  BY <1>2, Zenon DEF Quiet, KeyMove, PlaceMove, Lapsed, MayReopen, InCritical, Critical
<1>3. QED
  BY <1>1, <1>2, Zenon

\* A quiet step does not open a task.
LEMMA QuietOpen ==
  ASSUME NEW e \in Event, Quiet(e), Open(ID[e])'
  PROVE  Open(ID[e])
<1>1. ASSUME NEW f \in Event, locks[ID[e]] = f, HoldsSuccess(f) PROVE FALSE
  <2>1. CASE f # e
    BY <1>1, <2>1, ConstantsAssumption, Zenon DEF Quiet, KeyMove, HoldsSuccess, Open
  <2>2. CASE f = e
    BY <1>1, <2>2, ConstantsAssumption, Zenon DEF Quiet, KeyMove, PlaceMove, HoldsSuccess, Open
  <2>3. QED
    BY <2>1, <2>2, Zenon
<1>2. ASSUME NEW f \in Event, locks'[ID[e]] = f, pc'[f] \in Executing
      PROVE  ~Settled(redis[ID[e]]) \/ (locks[ID[e]] = f /\ pc[f] \in Executing)
  <2>1. CASE f # e
    BY <1>2, <2>1, ConstantsAssumption, Zenon DEF Quiet, KeyMove
  <2>2. CASE f = e
    BY <1>2, <2>2, ConstantsAssumption, Zenon DEF Quiet, KeyMove, PlaceMove, Executing
  <2>3. QED
    BY <2>1, <2>2, Zenon
<1>3. redis' = redis
  BY Zenon DEF Quiet
<1>4. QED
  BY <1>1, <1>2, <1>3, Zenon DEF Open, Settled

\* Steps that neither deliver nor write a status keep every budget.
LEMMA QuietStep ==
  ASSUME IInv, TypeOK', NEW e \in Event, Quiet(e)
  PROVE  \A t \in Task : Budget(t)'
<1>0. ID[e] \in Task
  BY ConstantsAssumption, Zenon
<1>1. sent' = sent /\ faults' = faults /\ redis' = redis
  BY Zenon DEF Quiet
<1>2. sent'[ID[e]] = sent[ID[e]] /\ faults'[ID[e]] >= faults[ID[e]]
  BY <1>0, <1>1 DEF IInv, TypeOK
<1>3. Budget(ID[e])'
  BY <1>0, <1>2, QuietDebt, QuietOpen, BudgetKept, Zenon DEF IInv
<1>4. QED
  BY <1>1, <1>3, OwnBudget, Zenon DEF Quiet

-----------------------------------------------------------------------------
(* Steps that deliver, write or take a lease away *)

\* A delivery by the owner of the lock closes the task; one by a goroutine whose
\* lease has lapsed uses up the mishap that was counted for it.
LEMMA DeliverStep ==
  ASSUME IInv, TypeOK', NEW e \in Event, Deliver(e)
  PROVE  \A t \in Task : Budget(t)'
<1> DEFINE t == ID[e]
<1>0. t \in Task
  BY ConstantsAssumption, ZenonT(40)
<1>1. PICK response \in Handle(HandlerOf[ID[e]], task[e]) : Deliver(e)!2!(response)
  BY Zenon DEF Deliver
<1>2. response.DeliveryStatus \in
        {RetriableFailedTaskStatus, UnRetriableFailedTaskStatus, SuccessTaskStatus}
  <2>1. task[e] \in TaskRecord /\ HandlerOf[ID[e]] \in HandlerKind
    BY <1>0, ConstantsAssumption, ZenonT(40) DEF IInv, TypeOK
  <2>2. QED
    BY <1>1, <2>1, HandleType, Zenon
<1>3. /\ pc[e] = "deliver" /\ pc'[e] = "upsert" /\ task'[e] = response
      /\ \A f \in Event : f # e => pc'[f] = pc[f] /\ task'[f] = task[f]
      /\ UNCHANGED <<locks, redis, faults>>
      /\ \A u \in Task : u # t => sent'[u] = sent[u]
      /\ sent'[t] = IF response.DeliveryStatus = SuccessTaskStatus THEN sent[t] + 1 ELSE sent[t]
  BY <1>0, <1>1, SMTT(30) DEF Deliver, IInv, TypeOK
<1> SUFFICES Budget(t)'
  BY <1>3, OwnBudget, ZenonT(40)
<1>4. faults'[t] = faults[t] /\ faults'[t] >= faults[t]
  BY <1>0, <1>3, SMTT(30) DEF IInv, TypeOK
<1>5. Debt(t)' \subseteq Debt(t)
  BY <1>3, Zenon DEF Debt, Lapsed, InCritical, MayReopen, Critical
<1>6. Open(t)' => Open(t)
  BY <1>3, Zenon DEF Open, HoldsSuccess, Executing
<1>7. CASE response.DeliveryStatus # SuccessTaskStatus
  <2>1. sent'[t] = sent[t]
    BY <1>3, <1>7, Zenon
  <2>2. QED
    BY <1>0, <1>4, <1>5, <1>6, <2>1, BudgetKept, Zenon DEF IInv
<1>8. CASE response.DeliveryStatus = SuccessTaskStatus /\ locks[t] = e
  <2>1. Open(t) /\ ~Open(t)'
    BY <1>3, <1>8, Zenon DEF Open, HoldsSuccess, Executing
  <2>2. sent'[t] = sent[t] + 1
    BY <1>3, <1>8, Zenon
  <2>3. QED
    BY <1>0, <1>4, <1>5, <2>1, <2>2, BudgetKept, Zenon DEF IInv
<1>9. CASE response.DeliveryStatus = SuccessTaskStatus /\ locks[t] # e
  <2>1. e \in Debt(t) /\ e \notin Debt(t)'
    BY <1>3, <1>9, SMTT(30) DEF Debt, Lapsed, InCritical, MayReopen, Critical, SuccessTaskStatus,
       RetriableFailedTaskStatus
  <2>2. \E d \in Debt(t) : Debt(t)' \subseteq Debt(t) \ {d}
    BY <1>5, <2>1, Zenon
  <2>3. sent'[t] = sent[t] + 1
    BY <1>3, <1>9, Zenon
  <2>4. QED
    BY <1>0, <1>4, <1>6, <2>2, <2>3, BudgetKept, ZenonT(40) DEF IInv
<1>10. QED
  BY <1>7, <1>8, <1>9, Zenon

\* A save by the owner leaves the task closed when it was; a retriable status
\* written by a goroutine whose lease has lapsed uses up its mishap.
LEMMA SaveStep ==
  ASSUME IInv, TypeOK', NEW e \in Event, SaveTaskStatus(e) \/ SaveTaskStatusFails(e)
  PROVE  \A t \in Task : Budget(t)'
<1> DEFINE t == ID[e]
<1>0. t \in Task
  BY ConstantsAssumption, ZenonT(40)
<1>1. /\ pc[e] = "save" /\ pc'[e] = "unlock"
      /\ \A f \in Event : f # e => pc'[f] = pc[f]
      /\ UNCHANGED <<task, locks, sent>>
      /\ \A u \in Task : u # t => redis'[u] = redis[u] /\ faults'[u] = faults[u]
      /\ \/ redis'[t] = ToNumericString(task[e].DeliveryStatus) /\ faults'[t] = faults[t]
         \/ redis'[t] = redis[t] /\ faults'[t] = faults[t] + 1
  BY <1>0, SMTT(30) DEF SaveTaskStatus, SaveTaskStatusFails, Return, history, IInv, TypeOK
<1> SUFFICES Budget(t)'
  BY <1>1, OwnBudget, Zenon
<1>2. Debt(t)' \subseteq Debt(t)
  BY <1>1, Zenon DEF Debt, Lapsed, InCritical, MayReopen, Critical
<1>3. CASE redis'[t] = redis[t] /\ faults'[t] = faults[t] + 1
  BY <1>0, <1>1, <1>2, <1>3, BudgetKept, ZenonT(40) DEF IInv
<1>4. CASE redis'[t] = ToNumericString(task[e].DeliveryStatus) /\ faults'[t] = faults[t]
  <2>1. task[e].DeliveryStatus \in
          {RetriableFailedTaskStatus, UnRetriableFailedTaskStatus, SuccessTaskStatus}
    BY <1>1, Zenon DEF IInv, Answered
  <2>2. CASE task[e].DeliveryStatus = RetriableFailedTaskStatus /\ locks[t] # e
    <3>1. e \in Debt(t) /\ e \notin Debt(t)'
      BY <1>1, <2>2, Zenon DEF Debt, Lapsed, InCritical, MayReopen, Critical
    <3>2. \E d \in Debt(t) : Debt(t)' \subseteq Debt(t) \ {d}
      BY <1>2, <3>1, Zenon
    <3>3. QED
      BY <1>0, <1>1, <1>4, <3>2, BudgetKept, Zenon DEF IInv
  <2>3. CASE task[e].DeliveryStatus = RetriableFailedTaskStatus /\ locks[t] = e
    <3>1. Open(t)
      BY <1>1, <2>3, SMTT(30) DEF Open, HoldsSuccess, Executing, SuccessTaskStatus, RetriableFailedTaskStatus
    <3>2. faults'[t] >= faults[t]
      BY <1>0, <1>4, SMTT(30) DEF IInv, TypeOK
    <3>3. QED
      BY <1>0, <1>1, <1>2, <3>1, <3>2, BudgetKept, ZenonT(40) DEF IInv
  <2>4. CASE task[e].DeliveryStatus # RetriableFailedTaskStatus
    <3>1. Settled(redis'[t])
      BY <1>4, <2>1, <2>4, StoredAnswer, Zenon
    <3>2. Open(t)' => Open(t)
      BY <1>1, <3>1, ZenonT(40) DEF Open, HoldsSuccess, Executing
    <3>3. faults'[t] >= faults[t]
      BY <1>0, <1>4, SMTT(30) DEF IInv, TypeOK
    <3>4. QED
      BY <1>0, <1>1, <1>2, <3>2, <3>3, BudgetKept, Zenon DEF IInv
  <2>5. QED
    BY <2>2, <2>3, <2>4, Zenon
<1>5. QED
  BY <1>1, <1>3, <1>4, Zenon

\* A goroutine that holds a Success reopens nothing.
LEMMA SuccessCloses == \A e \in Event : HoldsSuccess(e) => ~MayReopen(e)
<1>1. SuccessTaskStatus # RetriableFailedTaskStatus
  BY DEF SuccessTaskStatus, RetriableFailedTaskStatus
<1>2. \A p \in {"upsert", "save"} : p \notin {"getStatus", "getTask", "deliver"}
  BY Zenon
<1> QED BY <1>1, <1>2, Zenon DEF HoldsSuccess, MayReopen

\* A lease that lapses under a working goroutine is one mishap: it pays for what
\* that goroutine may still do, or for the Success it has not recorded.
LEMMA LapseStep ==
  ASSUME IInv, TypeOK', NEW e \in Event, LeaseLapse(e)
  PROVE  \A t \in Task : Budget(t)'
<1> DEFINE t == ID[e]
<1>0. t \in Task
  BY ConstantsAssumption, ZenonT(40)
<1>1. /\ locks[t] = e /\ locks'[t] = None
      /\ UNCHANGED <<pc, task, redis, sent>>
      /\ \A u \in Task : u # t => locks'[u] = locks[u] /\ faults'[u] = faults[u]
      /\ faults'[t] = IF InCritical(e) THEN faults[t] + 1 ELSE faults[t]
  BY <1>0, SMTT(30) DEF LeaseLapse, IInv, TypeOK
<1> SUFFICES Budget(t)'
  BY <1>1, OwnBudget, Zenon
<1>2. None \notin Event
  BY ConstantsAssumption, Zenon
<1>3. Debt(t)' \subseteq Debt(t) \cup {e}
  BY <1>1, Zenon DEF Debt, Lapsed, InCritical, MayReopen
<1>4. CASE InCritical(e) /\ HoldsSuccess(e)
  <2>1. e \notin Debt(t)'
    BY <1>1, <1>4, SuccessCloses, Zenon DEF Debt, MayReopen
  <2>2. QED
    BY <1>0, <1>1, <1>3, <1>4, <2>1, BudgetKept, Zenon DEF IInv
<1>5. CASE InCritical(e) /\ ~HoldsSuccess(e)
  <2>1. Open(t)' => Open(t)
    BY <1>1, <1>2, <1>5, Zenon DEF Open, HoldsSuccess
  <2>2. QED
    BY <1>0, <1>1, <1>3, <1>5, <2>1, BudgetKept, Zenon DEF IInv
<1>6. CASE ~InCritical(e)
  <2>1. Debt(t)' \subseteq Debt(t)
    BY <1>1, <1>3, <1>6, Zenon DEF Debt, Lapsed, InCritical
  <2>2. Open(t)' => Open(t)
    BY <1>1, <1>2, <1>6, ZenonT(40) DEF Open, HoldsSuccess, InCritical, Critical
  <2>3. faults'[t] >= faults[t]
    BY <1>0, <1>1, <1>6, SMTT(30) DEF IInv, TypeOK
  <2>4. QED
    BY <1>0, <1>1, <2>1, <2>2, <2>3, BudgetKept, Zenon DEF IInv
<1>7. QED
  BY <1>4, <1>5, <1>6, Zenon

\* A crash is a mishap for the tasks it leaves delivered and unrecorded; the
\* others are no more open than before.
LEMMA CrashStep ==
  ASSUME IInv, TypeOK', NEW p \in Process, Crash(p), NEW t \in Task
  PROVE  Budget(t)'
<1>1. /\ UNCHANGED <<host, task, locks, redis, sent>>
      /\ \A e \in Event : pc'[e] = pc[e] \/ (host[e] = p /\ pc'[e] = "dead")
      /\ faults'[t] = IF Unrecorded(p, t) # {} THEN faults[t] + 1 ELSE faults[t]
  BY Zenon DEF Crash
<1>2. Debt(t)' \subseteq Debt(t)
  BY <1>1, Zenon DEF Debt, Lapsed, InCritical, MayReopen, Critical
<1>3. CASE Unrecorded(p, t) # {}
  BY <1>1, <1>2, <1>3, BudgetKept, Zenon DEF IInv
<1>4. CASE Unrecorded(p, t) = {}
  <2>1. \A e \in Event : locks[t] = e /\ HoldsSuccess(e) => HoldsSuccess(e)'
    BY <1>1, <1>4, Zenon DEF Unrecorded, Of, HoldsSuccess, IInv, LockOwner
  <2>2. Open(t)' => Open(t)
    BY <1>1, <2>1, Zenon DEF Open, Executing
  <2>3. faults'[t] >= faults[t]
    BY <1>1, <1>4 DEF IInv, TypeOK
  <2>4. QED
    BY <1>1, <1>2, <2>2, <2>3, BudgetKept, Zenon DEF IInv
<1>5. QED
  BY <1>3, <1>4, Zenon

\* An expired status key is a mishap for its task.
LEMMA ExpireStep ==
  ASSUME IInv, TypeOK', NEW u \in Task, ExpireStatus(u), NEW t \in Task
  PROVE  Budget(t)'
<1>1. /\ UNCHANGED <<pc, task, locks, sent>>
      /\ t # u => redis'[t] = redis[t] /\ faults'[t] = faults[t]
      /\ t = u => faults'[t] = faults[t] + 1
  BY Zenon DEF ExpireStatus, IInv, TypeOK
<1>2. Debt(t)' \subseteq Debt(t)
  BY <1>1, Zenon DEF Debt, Lapsed, InCritical, MayReopen
<1>3. CASE t = u
  BY <1>1, <1>2, <1>3, BudgetKept, Zenon DEF IInv
<1>4. CASE t # u
  <2>1. Open(t)' => Open(t)
    BY <1>1, <1>4, Zenon DEF Open, HoldsSuccess
  <2>2. faults'[t] >= faults[t]
    BY <1>1, <1>4, SMTT(30) DEF IInv, TypeOK
  <2>3. QED
    BY <1>1, <1>2, <2>1, <2>2, BudgetKept, Zenon DEF IInv
<1>5. QED
  BY <1>3, <1>4, Zenon

\* LockOwner alone is inductive.
LEMMA OwnerStep == TypeOK /\ LockOwner /\ [Next]_vars => LockOwner'
<1> SUFFICES ASSUME TypeOK, LockOwner, [Next]_vars PROVE LockOwner'
  BY Zenon
<1>1. ASSUME NEW e \in Event, Receive(e) \/ HandleTask(e) \/ CtxTimeout(e) \/ LeaseLapse(e)
      PROVE  LockOwner'
  <2> USE ConstantsAssumption DEF TypeOK, LockOwner
  <2>1. CASE InnerStep(e)
    BY <2>1, InnerStepStays, Zenon
  <2>2. CASE LockTaskByID(e)
    BY <2>2, ZenonT(40) DEF LockTaskByID
  <2>3. CASE Unlock(e)
    <3>1. \A t \in Task : locks'[t] = locks[t] \/ locks'[t] \notin Event
      BY <2>3 DEF Unlock
    <3>2. QED
      BY <3>1, SMTT(30)
  <2>4. CASE LeaseLapse(e)
    BY <2>4, Zenon DEF LeaseLapse
  <2>5. CASE Receive(e) \/ LockTaskByIDFails(e) \/ CtxTimeout(e)
    BY <2>5, ZenonT(40) DEF Receive, LockTaskByIDFails, CtxTimeout
  <2>6. QED
    BY <1>1, <2>1, <2>2, <2>3, <2>4, <2>5, ZenonT(40) DEF HandleTask, InnerStep
<1>2. ASSUME NEW p \in Process, Crash(p) PROVE LockOwner'
  BY <1>2, Zenon DEF Crash, LockOwner
<1>3. ASSUME NEW t \in Task, ExpireStatus(t) PROVE LockOwner'
  BY <1>3, Zenon DEF ExpireStatus, LockOwner
<1>4. CASE UNCHANGED vars
  BY <1>4, Zenon DEF vars, LockOwner
<1>5. QED
  BY <1>1, <1>2, <1>3, <1>4, Zenon DEF Next

\* IInv is inductive.
LEMMA BudgetStep == IInv /\ [Next]_vars => IInv'
<1> SUFFICES ASSUME IInv, [Next]_vars PROVE IInv'
  BY Zenon
<1>1. TypeOK' /\ LockOwner' /\ Answered'
  BY TypeStep, OwnerStep, AnsweredStep, Zenon DEF IInv
<1>2. ASSUME NEW e \in Event, Receive(e) \/ HandleTask(e) \/ CtxTimeout(e) \/ LeaseLapse(e)
      PROVE  \A t \in Task : Budget(t)'
  <2>1. TypeOK /\ TypeOK'
    BY <1>1, Zenon DEF IInv
  <2>2. \/ Quiet(e) \/ Deliver(e) \/ LeaseLapse(e)
        \/ SaveTaskStatus(e) \/ SaveTaskStatusFails(e)
    BY <1>2, <2>1, KeySteps, ReadingSteps, Zenon DEF HandleTask
  <2>3. QED
    BY <2>1, <2>2, QuietStep, DeliverStep, SaveStep, LapseStep, Zenon
<1>3. ASSUME UNCHANGED vars, NEW t \in Task PROVE Budget(t)'
  BY <1>3, Zenon DEF vars, IInv, Budget, Debt, Open, Lapsed, InCritical, MayReopen, HoldsSuccess
<1>4. \A t \in Task : Budget(t)'
  BY <1>1, <1>2, <1>3, CrashStep, ExpireStep, ZenonT(40) DEF Next
<1>5. QED
  BY <1>1, <1>4, Zenon DEF IInv

\* Deliveries of a task never outnumber the mishaps by more than one, however the
\* goroutines, leases, crashes and expiries interleave.
THEOREM AtMostOnce == Spec => []AtMostOnceDelivery
<1>1. Init => IInv
  <2> SUFFICES ASSUME Init PROVE IInv
    BY Zenon
  <2>1. TypeOK
    BY ConstantsAssumption, MakeTaskType, SMTT(30) DEF Init, TypeOK, PC, Result
  <2>2. LockOwner /\ Answered
    BY ConstantsAssumption, Zenon DEF Init, LockOwner, Answered
  <2>3. ASSUME NEW t \in Task PROVE Budget(t)
    <3>1. Debt(t) = {}
      BY Zenon DEF Init, Debt, Lapsed, InCritical, Critical
    <3>2. sent[t] = 0 /\ faults[t] = 0
      BY Zenon DEF Init
    <3>3. QED
      BY <3>1, <3>2, FS_EmptySet, SMTT(30) DEF Budget
  <2>4. QED
    BY <2>1, <2>2, <2>3, Zenon DEF IInv
<1>2. IInv => AtMostOnceDelivery
  <2> SUFFICES ASSUME IInv, NEW t \in Task PROVE sent[t] <= 1 + faults[t]
    BY Zenon DEF AtMostOnceDelivery
  <2>1. Cardinality(Debt(t)) \in Nat /\ sent[t] \in Nat /\ faults[t] \in Nat
    BY Sizes, Zenon DEF IInv, Budget, TypeOK
  <2>2. QED
    BY <2>1 DEF IInv, Budget
<1>3. QED
  BY <1>1, <1>2, BudgetStep, PTL DEF Spec
=============================================================================
