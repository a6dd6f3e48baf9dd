----------------------------- MODULE SimpleChannel -----------------------------
(***************************************************************************)
(* The manager's internal broker: a simple channel between Register, which *)
(* puts the identifier of a new user in inputChannel, and the manager's    *)
(* worker, which creates the default project of that user and then         *)
(* acknowledges.                                                           *)
(*                                                                         *)
(* An instance starts a delivery for each message it takes.  A delivery is *)
(* a series of attempts: each puts a copy of the message in outputChannel  *)
(* and waits for its acknowledgement, or for ten seconds, after which the  *)
(* next attempt starts.  The acknowledgement is a rendezvous: it blocks    *)
(* until the attempt that made the copy receives it.                       *)
(*                                                                         *)
(* Source: src/pkg/channel/adapter/simple, src/manager/workers             *)
(***************************************************************************)
EXTENDS Naturals, FiniteSets, Sequences

CONSTANTS
  Message,      \* users that register
  Instance,     \* the numberInstants goroutines of startConsume
  BufferSize,   \* the capacity of inputChannel and of outputChannel
  MaxAttempts   \* bound on the attempts of a delivery; the code has none

ASSUME SimpleAssumption ==
  /\ IsFiniteSet(Message) /\ Message # {}
  /\ BufferSize \in Nat \ {0}
  /\ MaxAttempts \in Nat \ {0}

VARIABLES
  user,      \* where the registration of each user is
  attempt,   \* the goroutine of each attempt of a delivery
  copy,      \* the copy of the message that the attempt made
  output,    \* the copies sent to outputChannel: those in its buffer, then
             \* those whose senders are blocked, in the order Go serves them
  worker,    \* the loop of the manager's worker
  current,   \* the copy it works on
  projects,  \* the default projects of each user
  instance,  \* the loops of startConsume
  done,      \* the channel done has been closed
  hasErr     \* whether the project repository fails

vars == <<user, attempt, copy, output, worker, current, projects, instance, done,
          hasErr>>

Attempt == Message \X (1 .. MaxAttempts)

Init ==
  /\ user = [m \in Message |-> "new"]
  /\ attempt = [x \in Attempt |-> "none"]
  /\ copy = [x \in Attempt |-> "none"]
  /\ output = << >>
  /\ worker = "idle"
  /\ current = CHOOSE x \in Attempt : TRUE
  /\ projects = [m \in Message |-> 0]
  /\ instance = [i \in Instance |-> "running"]
  /\ done = FALSE
  /\ hasErr \in BOOLEAN

\* Mutant: Register does not wait for room.
RegisterUnbounded(m) ==
  /\ user[m] = "new"
  /\ user' = [user EXCEPT ![m] = "input"]
  /\ UNCHANGED <<attempt, copy, output, worker, current, projects, instance, done, hasErr>>

\* Register has stored the user and sends to inputChannel, which blocks while
\* the channel is full.
Register(m) ==
  /\ user[m] = "new"
  /\ Cardinality({n \in Message : user[n] = "input"}) < BufferSize
  /\ user' = [user EXCEPT ![m] = "input"]
  /\ UNCHANGED <<attempt, copy, output, worker, current, projects, instance, done, hasErr>>

\* An instance takes a message and starts its delivery: startDelivery starts the
\* goroutine of the first attempt and that of its copy.
startConsume(i, m) ==
  /\ instance[i] = "running"
  /\ user[m] = "input"
  /\ user' = [user EXCEPT ![m] = "delivering"]
  /\ attempt' = [attempt EXCEPT ![<<m, 1>>] = "waiting"]
  /\ copy' = [copy EXCEPT ![<<m, 1>>] = "sending"]
  /\ UNCHANGED <<output, worker, current, projects, instance, done, hasErr>>

InstanceStops(i) ==
  /\ done
  /\ instance[i] = "running"
  /\ instance' = [instance EXCEPT ![i] = "stopped"]
  /\ UNCHANGED <<user, attempt, copy, output, worker, current, projects, done, hasErr>>

\* Mutant: the delivery ends when its first attempt times out.
TimeoutGivesUp(m, k) ==
  /\ attempt[<<m, k>>] = "waiting"
  /\ k < MaxAttempts
  /\ attempt' = [attempt EXCEPT ![<<m, k>>] = "timedOut"]
  /\ UNCHANGED <<user, copy, output, worker, current, projects, instance, done, hasErr>>

\* Ten seconds without an acknowledgement: startDelivery is called again.
Timeout(m, k) ==
  /\ attempt[<<m, k>>] = "waiting"
  /\ k < MaxAttempts
  /\ attempt' = [attempt EXCEPT ![<<m, k>>] = "timedOut", ![<<m, k + 1>>] = "waiting"]
  /\ copy' = [copy EXCEPT ![<<m, k + 1>>] = "sending"]
  /\ UNCHANGED <<user, output, worker, current, projects, instance, done, hasErr>>

\* Mutant: the send gives up when outputChannel is full.
publishMessageDrops(x) ==
  /\ copy[x] = "sending"
  /\ \/ /\ Len(output) < BufferSize
        /\ copy' = [copy EXCEPT ![x] = "output"]
        /\ output' = Append(output, x)
     \/ /\ Len(output) >= BufferSize
        /\ copy' = [copy EXCEPT ![x] = "finished"]
        /\ UNCHANGED output
  /\ UNCHANGED <<user, attempt, worker, current, projects, instance, done, hasErr>>

\* The goroutine of publishMessage reaches its send.
publishMessage(x) ==
  /\ copy[x] = "sending"
  /\ copy' = [copy EXCEPT ![x] = "output"]
  /\ output' = Append(output, x)
  /\ UNCHANGED <<user, attempt, worker, current, projects, instance, done, hasErr>>

-----------------------------------------------------------------------------
(* The manager's worker *)

WorkerTakes ==
  /\ worker = "idle"
  /\ output # << >>
  /\ current' = Head(output)
  /\ output' = Tail(output)
  /\ copy' = [copy EXCEPT ![Head(output)] = "taken"]
  /\ worker' = "creating"
  /\ UNCHANGED <<user, attempt, projects, instance, done, hasErr>>

\* Mutant: the worker acknowledges although Create failed or was not called.
CreateSkipped ==
  /\ worker = "creating"
  /\ worker' = "acking"
  /\ UNCHANGED <<user, attempt, copy, output, current, projects, instance, done, hasErr>>

\* Mutant: Create is tried twice.
CreateTwice ==
  /\ worker = "creating"
  /\ worker' = "acking"
  /\ projects' = [projects EXCEPT ![current[1]] = @ + 2]
  /\ UNCHANGED <<user, attempt, copy, output, current, instance, done, hasErr>>

\* The repository appends a project of the user; it does not look whether the
\* user has one.
CreateProject(m) ==
  /\ ~hasErr
  /\ projects' = [projects EXCEPT ![m] = @ + 1]

\* The project service creates a default project.  When it fails the worker
\* drops the copy.
Create ==
  /\ worker = "creating"
  /\ \/ /\ CreateProject(current[1])
        /\ worker' = "acking"
        /\ UNCHANGED copy
     \/ /\ hasErr
        /\ worker' = "idle"
        /\ copy' = [copy EXCEPT ![current] = "finished"]
        /\ UNCHANGED projects
  /\ UNCHANGED <<user, attempt, output, current, instance, done, hasErr>>

\* Mutant: the channel of acknowledgements has room for one, so that Ack returns
\* although nobody receives.
AckBuffered ==
  /\ worker = "acking"
  /\ attempt' = [attempt EXCEPT ![current] = IF @ = "waiting" THEN "acked" ELSE @]
  /\ copy' = [copy EXCEPT ![current] = "finished"]
  /\ worker' = "idle"
  /\ UNCHANGED <<user, output, current, projects, instance, done, hasErr>>

\* The acknowledgement meets the attempt that waits for it.
Ack ==
  /\ worker = "acking"
  /\ attempt[current] = "waiting"
  /\ attempt' = [attempt EXCEPT ![current] = "acked"]
  /\ copy' = [copy EXCEPT ![current] = "finished"]
  /\ worker' = "idle"
  /\ UNCHANGED <<user, output, current, projects, instance, done, hasErr>>

WorkerStops ==
  /\ done
  /\ worker = "idle"
  /\ worker' = "stopped"
  /\ UNCHANGED <<user, attempt, copy, output, current, projects, instance, done, hasErr>>

CloseDone ==
  /\ ~done
  /\ done' = TRUE
  /\ UNCHANGED <<user, attempt, copy, output, worker, current, projects, instance, hasErr>>

-----------------------------------------------------------------------------

Next ==
  \/ \E m \in Message : Register(m)
  \/ \E i \in Instance, m \in Message : startConsume(i, m)
  \/ \E i \in Instance : InstanceStops(i)
  \/ \E m \in Message, k \in 1 .. MaxAttempts : Timeout(m, k)
  \/ \E x \in Attempt : publishMessage(x)
  \/ WorkerTakes \/ Create \/ Ack \/ WorkerStops \/ CloseDone

Spec == Init /\ [][Next]_vars

\* Go schedules every goroutine that can move.  Timers are left out: a worker
\* may be fast enough for none to fire.
Fairness ==
  /\ \A i \in Instance : WF_vars(InstanceStops(i) \/ \E m \in Message : startConsume(i, m))
  /\ \A x \in Attempt : WF_vars(publishMessage(x))
  /\ WF_vars(WorkerTakes \/ Create \/ Ack \/ WorkerStops)

FairSpec == Spec /\ Fairness

-----------------------------------------------------------------------------
(* Properties *)

AttemptState == {"none", "waiting", "timedOut", "acked"}

CopyState == {"none", "sending", "output", "taken", "finished"}

\* Every variable keeps to the values the code can give it, and inputChannel
\* to its capacity.
TypeOK ==
  /\ user \in [Message -> {"new", "input", "delivering"}]
  /\ Cardinality({m \in Message : user[m] = "input"}) <= BufferSize
  /\ attempt \in [Attempt -> AttemptState]
  /\ copy \in [Attempt -> CopyState]
  /\ output \in Seq(Attempt)
  /\ worker \in {"idle", "creating", "acking", "stopped"}
  /\ current \in Attempt
  /\ projects \in [Message -> Nat]
  /\ instance \in [Instance -> {"running", "stopped"}]
  /\ done \in BOOLEAN
  /\ hasErr \in BOOLEAN

\* The worker waits for an attempt that has timed out to receive its
\* acknowledgement, which it will never do.
Stuck == worker = "acking" /\ attempt[current] = "timedOut"

\* A delivery that startConsume has begun is never forgotten: exactly one of its
\* attempts waits for an acknowledgement, or one has received it.
NeverForgotten ==
  \A m \in Message :
    user[m] = "delivering" =>
      \E k \in 1 .. MaxAttempts :
        /\ attempt[<<m, k>>] \in {"waiting", "acked"}
        /\ \A j \in 1 .. MaxAttempts : j # k => attempt[<<m, j>>] \in {"none", "timedOut"}

\* A delivery ends only when the default project of its user exists.
AckedHasProject ==
  \A x \in Attempt : attempt[x] = "acked" => projects[x[1]] > 0

\* A user has no more default projects than copies that the worker has taken:
\* one, and at most one more for each timeout.
ProjectPerCopy ==
  \A m \in Message :
    projects[m] <= Cardinality({k \in 1 .. MaxAttempts : copy[<<m, k>>] \in {"taken", "finished"}})

\* An acknowledgement that comes after its timeout blocks the worker for ever:
\* no later attempt, and not even done, releases it.
StuckForever == [][Stuck => Stuck']_vars

\* Every user who registers gets a default project, unless the manager stops,
\* the project repository fails, or the worker is stuck in an acknowledgement
\* that came too late.
EventuallyProject ==
  \A m \in Message : user[m] = "input" ~> projects[m] > 0 \/ done \/ hasErr \/ Stuck
=============================================================================
