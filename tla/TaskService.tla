------------------------------ MODULE TaskService ------------------------------
(***************************************************************************)
(* HandleTask of the destination workers: every event a worker receives is  *)
(* handled by a goroutine of its own, which locks the task in etcd, asks    *)
(* Redis whether the task may still be executed, delivers it, records the   *)
(* outcome in the in-memory repository of its process and then in Redis,    *)
(* and unlocks.                                                             *)
(*                                                                          *)
(* Several worker processes share etcd and Redis; the repository lives in   *)
(* the memory of one process.  The lock is a lease: it is kept alive until  *)
(* the context made in Lock times out or is cancelled, and lapses some time *)
(* afterwards, whether or not the goroutine has finished.                   *)
(*                                                                          *)
(* Source: src/destination/taskservice, src/destination/worker,             *)
(*         src/adapter/etcd, src/destination/taskdelivery                   *)
(***************************************************************************)
EXTENDS TaskEntity

CONSTANTS
  Process,      \* worker processes
  Event,        \* deliveries of processed events to EventsChannel
  Task,         \* task IDs
  ID,           \* ProcessedEvent.ID(): a redelivered event has the same ID
  HandlerOf,    \* the handler registered in Mapper for the task's slug
  None,         \* no event, no task
  MaxCrashes,   \* bound on the crashes of worker processes
  MaxExpiries   \* bound on the expiries of keys in Redis

HandlerKind == {"fake", "webhook", "contract", "unregistered"}

ASSUME ConstantsAssumption ==
  /\ ID \in [Event -> Task]
  /\ HandlerOf \in [Task -> HandlerKind]
  /\ None \notin Event
  /\ None \notin TaskRecord
  /\ MaxCrashes \in Nat
  /\ MaxExpiries \in Nat

VARIABLES
  pc,         \* where the goroutine of each event is in HandleTask
  host,       \* the process that received the event
  task,       \* the local variable task of HandleTask
  result,     \* what HandleTask returned
  locks,      \* etcd: the event whose goroutine owns the key "task:"+ID
  ctxDone,    \* the context made in Lock has timed out or was cancelled
  redis,      \* Redis: the value stored for each task ID
  repo,       \* inmemorytaskrepo: the tasks of each process
  sent,       \* history: Success responses obtained for each task
  counted,    \* history: responses for each task that its handler counted
  refused,    \* history: tasks some handler failed for good
  faults,     \* history: mishaps that reopen a task, see below
  wiped,      \* history: tasks whose repository entry died with its process
  crashes,    \* crashes so far
  expiries    \* expiries so far

vars == <<pc, host, task, result, locks, ctxDone, redis, repo, sent,
          counted, refused, faults, wiped, crashes, expiries>>

history == <<sent, counted, refused, faults, wiped>>

\* The steps of HandleTask between Lock and the deferred unlock.
Critical == {"getStatus", "getTask", "deliver", "upsert", "save", "unlock"}

\* The steps of a goroutine that has decided to execute the task.
Executing == {"getTask", "deliver", "upsert", "save"}

PC == {"queued", "lock", "done", "dead"} \cup Critical

Result == {"none", "ok", "skipped", "error"}

Nil == "nil"   \* redis.Nil: the key does not exist

Of(t) == {e \in Event : ID[e] = t}

InCritical(e) == pc[e] \in Critical

Init ==
  /\ pc = [e \in Event |-> "queued"]
  /\ host \in [Event -> Process]
  /\ task = [e \in Event |-> MakeTaskUsingProcessedEvent]
  /\ result = [e \in Event |-> "none"]
  /\ locks = [t \in Task |-> None]
  /\ ctxDone = [e \in Event |-> FALSE]
  /\ redis = [t \in Task |-> Nil]
  /\ repo = [p \in Process |-> [t \in Task |-> None]]
  /\ sent = [t \in Task |-> 0]
  /\ counted = [t \in Task |-> 0]
  /\ refused = {}
  /\ faults = [t \in Task |-> 0]
  /\ wiped = {}
  /\ crashes = 0
  /\ expiries = 0

-----------------------------------------------------------------------------
(* worker.Run and HandleTask *)

\* Worker.Run takes an event from EventsChannel and starts its goroutine, which
\* calls LockTaskByID: the context's clock starts here.
Receive(e) ==
  /\ pc[e] = "queued"
  /\ pc' = [pc EXCEPT ![e] = "lock"]
  /\ UNCHANGED <<host, task, result, locks, ctxDone, redis, repo, history, crashes, expiries>>

\* Mutant: the lock is granted whoever owns the key.
LockTaskByIDUnguarded(e) ==
  /\ pc[e] = "lock"
  /\ ~ctxDone[e]
  /\ locks' = [locks EXCEPT ![ID[e]] = e]
  /\ pc' = [pc EXCEPT ![e] = "getStatus"]
  /\ UNCHANGED <<host, task, result, ctxDone, redis, repo, history, crashes, expiries>>

\* etcd grants the lock to a waiter whose context is still alive.
LockTaskByID(e) ==
  /\ pc[e] = "lock"
  /\ ~ctxDone[e]
  /\ locks[ID[e]] = None
  /\ locks' = [locks EXCEPT ![ID[e]] = e]
  /\ pc' = [pc EXCEPT ![e] = "getStatus"]
  /\ UNCHANGED <<host, task, result, ctxDone, redis, repo, history, crashes, expiries>>

\* Mutant: Lock waits for the key without watching its context.
LockTaskByIDWaits(e) ==
  /\ pc[e] = "lock"
  /\ ~ctxDone[e]
  /\ pc' = [pc EXCEPT ![e] = "done"]
  /\ result' = [result EXCEPT ![e] = "error"]
  /\ ctxDone' = [ctxDone EXCEPT ![e] = TRUE]
  /\ UNCHANGED <<host, task, locks, redis, repo, history, crashes, expiries>>

\* No session, or the context timed out in the queue for the key: HandleTask
\* returns the error, the worker logs it, and nobody handles the event again.
\* The key may have been granted and left to its lease.
LockTaskByIDFails(e) ==
  /\ pc[e] = "lock"
  /\ pc' = [pc EXCEPT ![e] = "done"]
  /\ result' = [result EXCEPT ![e] = "error"]
  /\ ctxDone' = [ctxDone EXCEPT ![e] = TRUE]
  /\ \/ UNCHANGED locks
     \/ locks[ID[e]] = None /\ locks' = [locks EXCEPT ![ID[e]] = e]
  /\ UNCHANGED <<host, task, redis, repo, history, crashes, expiries>>

\* HandleTask has a return value and runs its deferred unlock next.
Return(e, r) ==
  /\ pc' = [pc EXCEPT ![e] = "unlock"]
  /\ result' = [result EXCEPT ![e] = r]

\* The handler is looked up in Mapper; without one HandleTask gives up.
FindHandler(e) ==
  \/ /\ HandlerOf[ID[e]] # "unregistered"
     /\ pc' = [pc EXCEPT ![e] = "deliver"]
     /\ UNCHANGED result
  \/ /\ HandlerOf[ID[e]] = "unregistered"
     /\ Return(e, "error")

\* redistaskidempotency: a missing key means the task was not executed yet.
StoredStatus(t) ==
  IF redis[t] = Nil THEN NotExecutedTaskStatus
  ELSE NumericStringToIntegrationDeliveryStatus(redis[t])

\* Mutant: HandleTask does not ask CanBeExecuted.
GetTaskStatusByIDUnchecked(e) ==
  /\ pc[e] = "getStatus"
  /\ \/ /\ IsBroadcast(StoredStatus(ID[e]))
        /\ pc' = [pc EXCEPT ![e] = "getTask"]
        /\ UNCHANGED <<task, result>>
     \/ /\ ~IsBroadcast(StoredStatus(ID[e]))
        /\ task' = [task EXCEPT ![e] = MakeTaskUsingProcessedEvent]
        /\ FindHandler(e)
  /\ UNCHANGED <<host, locks, ctxDone, redis, repo, history, crashes, expiries>>

GetTaskStatusByID(e) ==
  /\ pc[e] = "getStatus"
  /\ LET taskStatus == StoredStatus(ID[e]) IN
     \/ /\ ~CanBeExecuted(taskStatus)
        /\ Return(e, "skipped")
        /\ UNCHANGED task
     \/ /\ CanBeExecuted(taskStatus)
        /\ IsBroadcast(taskStatus)
        /\ pc' = [pc EXCEPT ![e] = "getTask"]
        /\ UNCHANGED <<task, result>>
     \/ /\ CanBeExecuted(taskStatus)
        /\ ~IsBroadcast(taskStatus)
        /\ task' = [task EXCEPT ![e] = MakeTaskUsingProcessedEvent]
        /\ FindHandler(e)
  /\ UNCHANGED <<host, locks, ctxDone, redis, repo, history, crashes, expiries>>

\* Redis answers with an error.
GetTaskStatusByIDFails(e) ==
  /\ pc[e] = "getStatus"
  /\ Return(e, "error")
  /\ UNCHANGED <<host, task, locks, ctxDone, redis, repo, history, crashes, expiries>>

\* Mutant: the not-found error of the repository is ignored.
GetTaskByIDUnchecked(e) ==
  /\ pc[e] = "getTask"
  /\ task' = [task EXCEPT ![e] = repo[host[e]][ID[e]]]
  /\ FindHandler(e)
  /\ UNCHANGED <<host, locks, ctxDone, redis, repo, history, crashes, expiries>>

\* Mutant: a retry starts from a new task.
GetTaskByIDAfresh(e) ==
  /\ pc[e] = "getTask"
  /\ task' = [task EXCEPT ![e] = MakeTaskUsingProcessedEvent]
  /\ FindHandler(e)
  /\ UNCHANGED <<host, locks, ctxDone, redis, repo, history, crashes, expiries>>

\* A task that failed before is read from the repository of this process.
GetTaskByIDWithContext(e) ==
  /\ pc[e] = "getTask"
  /\ LET found == repo[host[e]][ID[e]] IN
     \/ /\ found = None
        /\ Return(e, "error")
        /\ UNCHANGED task
     \/ /\ found # None
        /\ task' = [task EXCEPT ![e] = found]
        /\ FindHandler(e)
  /\ UNCHANGED <<host, locks, ctxDone, redis, repo, history, crashes, expiries>>

\* What the registered handler may answer.  "contract" is any handler that
\* keeps to what the comments say: it reports success, which it counts, or one
\* of the failures.  Whether these count is left open, as the comments differ:
\* that of HandleTask has Attempts incremented in case of success, that of the
\* webhook handler in every send request.
Handle(kind, t) ==
  LET next == (t.Attempts + 1) % AttemptsModulus IN
  CASE kind = "fake" -> {[DeliveryStatus |-> SuccessTaskStatus, Attempts |-> 1]}
    [] kind = "webhook" -> {[DeliveryStatus |-> SuccessTaskStatus, Attempts |-> next]}
    [] kind = "contract" ->
         {[DeliveryStatus |-> SuccessTaskStatus, Attempts |-> next]} \cup
         [DeliveryStatus : {RetriableFailedTaskStatus, UnRetriableFailedTaskStatus},
          Attempts : {t.Attempts, next}]
    [] OTHER -> {}

Deliver(e) ==
  /\ pc[e] = "deliver"
  /\ \E response \in Handle(HandlerOf[ID[e]], task[e]) :
       /\ task' = [task EXCEPT ![e] = response]
       /\ counted' = [counted EXCEPT ![ID[e]] =
                        IF response.Attempts = task[e].Attempts THEN @ ELSE @ + 1]
       /\ sent' = [sent EXCEPT ![ID[e]] =
                     IF response.DeliveryStatus = SuccessTaskStatus THEN @ + 1 ELSE @]
       /\ refused' = IF response.DeliveryStatus = UnRetriableFailedTaskStatus
                     THEN refused \cup {ID[e]} ELSE refused
  /\ pc' = [pc EXCEPT ![e] = "upsert"]
  /\ UNCHANGED <<host, result, locks, ctxDone, redis, repo, faults, wiped, crashes, expiries>>

\* A handler may also return an error or panic, which Worker.Run recovers.
DeliverFails(e) ==
  /\ pc[e] = "deliver"
  /\ HandlerOf[ID[e]] = "contract"
  /\ Return(e, "error")
  /\ UNCHANGED <<host, task, locks, ctxDone, redis, repo, history, crashes, expiries>>

\* Mutant: the status is saved without the task.
UpsertForgotten(e) ==
  /\ pc[e] = "upsert"
  /\ pc' = [pc EXCEPT ![e] = "save"]
  /\ UNCHANGED <<host, task, result, locks, ctxDone, redis, repo, history, crashes, expiries>>

\* UpsertTaskAndSaveIdempotency, first half: the in-memory upsert cannot fail.
UpsertTaskWithContext(e) ==
  /\ pc[e] = "upsert"
  /\ repo' = [repo EXCEPT ![host[e]][ID[e]] = task[e]]
  /\ pc' = [pc EXCEPT ![e] = "save"]
  /\ UNCHANGED <<host, task, result, locks, ctxDone, redis, history, crashes, expiries>>

\* Mutant: the task is upserted and its status is not saved.
SaveForgotten(e) ==
  /\ pc[e] = "save"
  /\ Return(e, "ok")
  /\ UNCHANGED <<host, task, locks, ctxDone, redis, repo, history, crashes, expiries>>

\* UpsertTaskAndSaveIdempotency, second half.
SaveTaskStatus(e) ==
  /\ pc[e] = "save"
  /\ redis' = [redis EXCEPT ![ID[e]] = ToNumericString(task[e].DeliveryStatus)]
  /\ Return(e, "ok")
  /\ UNCHANGED <<host, task, locks, ctxDone, repo, history, crashes, expiries>>

\* Redis answers with an error; the write may have taken effect or not.  When
\* it has not, the delivery is unrecorded: the first of the mishaps.
SaveTaskStatusFails(e) ==
  /\ pc[e] = "save"
  /\ Return(e, "error")
  /\ \/ /\ redis' = [redis EXCEPT ![ID[e]] = ToNumericString(task[e].DeliveryStatus)]
        /\ UNCHANGED faults
     \/ /\ faults' = [faults EXCEPT ![ID[e]] = @ + 1]
        /\ UNCHANGED redis
  /\ UNCHANGED <<host, task, locks, ctxDone, repo, sent, counted, refused, wiped, crashes, expiries>>

\* The deferred unlock deletes this goroutine's key and cancels the context.
\* The delete fails when the context has already timed out, and may fail
\* anyway; the error is logged and the key is left to its lease.
Unlock(e) ==
  /\ pc[e] = "unlock"
  /\ pc' = [pc EXCEPT ![e] = "done"]
  /\ ctxDone' = [ctxDone EXCEPT ![e] = TRUE]
  /\ \/ /\ ~ctxDone[e]
        /\ locks' = [locks EXCEPT ![ID[e]] = IF @ = e THEN None ELSE @]
     \/ UNCHANGED locks
  /\ UNCHANGED <<host, task, result, redis, repo, history, crashes, expiries>>

-----------------------------------------------------------------------------
(* The environment: time, leases, processes and keys *)

\* The context made in Lock reaches its timeout, the lock's TTL: the session
\* stops renewing the lease.
CtxTimeout(e) ==
  /\ pc[e] \in {"lock"} \cup Critical
  /\ ~ctxDone[e]
  /\ ctxDone' = [ctxDone EXCEPT ![e] = TRUE]
  /\ UNCHANGED <<pc, host, task, result, locks, redis, repo, history, crashes, expiries>>

\* Mutant: the key of a dead process stays.
LeaseLapseWhileAlive(e) ==
  /\ locks[ID[e]] = e
  /\ ctxDone[e]
  /\ pc[e] # "dead"
  /\ locks' = [locks EXCEPT ![ID[e]] = None]
  /\ faults' = [faults EXCEPT ![ID[e]] = IF InCritical(e) THEN @ + 1 ELSE @]
  /\ UNCHANGED <<pc, host, task, result, ctxDone, redis, repo, sent, counted, refused, wiped, crashes, expiries>>

\* etcd removes the key of a lease nobody renews.  It is a mishap when the
\* goroutine is still working: nothing in HandleTask notices.
LeaseLapse(e) ==
  /\ locks[ID[e]] = e
  /\ ctxDone[e]
  /\ locks' = [locks EXCEPT ![ID[e]] = None]
  /\ faults' = [faults EXCEPT ![ID[e]] = IF InCritical(e) THEN @ + 1 ELSE @]
  /\ UNCHANGED <<pc, host, task, result, ctxDone, redis, repo, sent, counted, refused, wiped, crashes, expiries>>

\* A worker process dies and restarts: its goroutines, their contexts and its
\* repository are gone.  It is a mishap for the tasks that had been delivered
\* and not recorded.
Unrecorded(p, t) ==
  {e \in Of(t) : host[e] = p /\ pc[e] \in {"upsert", "save"}}

Running(e) == pc[e] \in {"lock"} \cup Critical

Crash(p) ==
  /\ crashes < MaxCrashes
  /\ crashes' = crashes + 1
  /\ pc' = [e \in Event |-> IF host[e] = p /\ Running(e) THEN "dead" ELSE pc[e]]
  /\ ctxDone' = [e \in Event |-> ctxDone[e] \/ (host[e] = p /\ Running(e))]
  /\ repo' = [repo EXCEPT ![p] = [t \in Task |-> None]]
  /\ faults' = [t \in Task |-> IF Unrecorded(p, t) # {} THEN faults[t] + 1 ELSE faults[t]]
  /\ wiped' = wiped \cup {t \in Task : repo[p][t] # None}
  /\ UNCHANGED <<host, task, result, locks, redis, sent, counted, refused, expiries>>

\* The status key expires, thirty days after it was written.
ExpireStatus(t) ==
  /\ expiries < MaxExpiries
  /\ redis[t] # Nil
  /\ expiries' = expiries + 1
  /\ redis' = [redis EXCEPT ![t] = Nil]
  /\ faults' = [faults EXCEPT ![t] = @ + 1]
  /\ UNCHANGED <<pc, host, task, result, locks, ctxDone, repo, sent, counted, refused, wiped, crashes>>

HandleTask(e) ==
  \/ LockTaskByID(e)
  \/ LockTaskByIDFails(e)
  \/ GetTaskStatusByID(e)
  \/ GetTaskStatusByIDFails(e)
  \/ GetTaskByIDWithContext(e)
  \/ Deliver(e)
  \/ DeliverFails(e)
  \/ UpsertTaskWithContext(e)
  \/ SaveTaskStatus(e)
  \/ SaveTaskStatusFails(e)
  \/ Unlock(e)

Next ==
  \/ \E e \in Event : Receive(e) \/ HandleTask(e) \/ CtxTimeout(e) \/ LeaseLapse(e)
  \/ \E p \in Process : Crash(p)
  \/ \E t \in Task : ExpireStatus(t)

Spec == Init /\ [][Next]_vars

\* A goroutine blocked in mutex.Lock moves when it gets the key or when its
\* context ends.
Unblocked(e) == pc[e] = "lock" => ctxDone[e] \/ locks[ID[e]] = None

\* Go schedules every goroutine that can move, handlers return, timers fire and
\* etcd expires the leases that are not renewed.  Crashes, expiries and errors
\* are owed to nobody.
Progress(e) ==
  /\ WF_vars(Unblocked(e) /\ HandleTask(e))
  /\ WF_vars(CtxTimeout(e))
  /\ WF_vars(LeaseLapse(e))

Fairness == \A e \in Event : WF_vars(Receive(e)) /\ Progress(e)

FairSpec == Spec /\ Fairness

-----------------------------------------------------------------------------
(* Properties *)

\* Every variable keeps to the values the code can give it.
TypeOK ==
  /\ pc \in [Event -> PC]
  /\ host \in [Event -> Process]
  /\ task \in [Event -> TaskRecord]
  /\ result \in [Event -> Result]
  /\ locks \in [Task -> Event \cup {None}]
  /\ ctxDone \in [Event -> BOOLEAN]
  /\ redis \in [Task -> NumericString \cup {Nil}]
  /\ repo \in [Process -> [Task -> TaskRecord \cup {None}]]
  /\ sent \in [Task -> Nat]
  /\ counted \in [Task -> Nat]
  /\ refused \subseteq Task
  /\ faults \in [Task -> Nat]
  /\ wiped \subseteq Task
  /\ crashes \in 0 .. MaxCrashes
  /\ expiries \in 0 .. MaxExpiries

\* Two goroutines are between Lock and unlock of the same task only when the
\* context of one of them has ended: LockTaskByID excludes the others for as
\* long as the lease is renewed.
MutualExclusion ==
  \A e, f \in Event :
    e # f /\ ID[e] = ID[f] /\ InCritical(e) /\ InCritical(f) => ctxDone[e] \/ ctxDone[f]

\* A task is delivered successfully at most once, and once more for every
\* mishap: a lease that lapsed under a working goroutine, a status that was
\* delivered and not saved, a crash between the two, a status key that expired.
AtMostOnceDelivery == \A t \in Task : sent[t] <= 1 + faults[t]

\* HandleTask drops an event without delivering it only when the task was
\* delivered, or failed for good, through another event.
SkippedWasSettled ==
  \A e \in Event : result[e] = "skipped" => sent[ID[e]] > 0 \/ ID[e] \in refused

\* Without mishaps, a status that Redis holds is also in the repository of some
\* process, except while that status is being replaced or when that process
\* died: the upsert comes before the save, so the task a retry looks for exists.
RedisNotAheadOfRepo ==
  \A t \in Task :
    /\ faults[t] = 0
    /\ t \notin wiped
    /\ redis[t] # Nil
    /\ \A e \in Of(t) : pc[e] # "save"
    => \E p \in Process :
         repo[p][t] # None /\ ToNumericString(repo[p][t].DeliveryStatus) = redis[t]

\* The repository of p has the task, and nothing happened to it that leaves the
\* count of its attempts behind.
CountIsDue(p, t) ==
  faults[t] = 0 /\ repo[p][t] # None /\ \A e \in Of(t) : pc[e] # "upsert"

\* Without mishaps, the attempts in the repository are those that the handlers
\* counted, modulo the width of the counter: a retry goes on from the stored
\* count instead of starting again.
AttemptsCounted ==
  \A t \in Task, p \in Process :
    CountIsDue(p, t) => repo[p][t].Attempts = counted[t] % AttemptsModulus

\* The attempts in the repository are the successes, as the comment in HandleTask
\* has it: "Attempts is incremented in delivery handler in case of success".
AttemptsAreSuccesses ==
  \A t \in Task, p \in Process :
    CountIsDue(p, t) => repo[p][t].Attempts = sent[t] % AttemptsModulus

Settled(s) == s # Nil /\ ~CanBeExecuted(NumericStringToIntegrationDeliveryStatus(s))

\* Redis goes back from a settled status to another one only for a task that
\* met a mishap: SaveTaskStatus writes under the lock what it decided under the
\* lock.
SettledIsFinal ==
  [][\A t \in Task : Settled(redis[t]) /\ redis'[t] # redis[t] => faults'[t] > 0]_vars

\* Every event a worker receives is eventually answered or dies with its
\* process, whoever holds the lock: no goroutine waits for ever.
EventSettles ==
  \A e \in Event : pc[e] = "lock" ~> pc[e] \in {"done", "dead"}

\* No key stays in etcd for good, not even that of a crashed worker or of a
\* failed unlock.
LockIsReleased == \A t \in Task : locks[t] # None ~> locks[t] = None
=============================================================================
