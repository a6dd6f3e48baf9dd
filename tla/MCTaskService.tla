---------------------------- MODULE MCTaskService ----------------------------
(* Instances of TaskService for TLC. *)
EXTENDS TaskService, TLC

CONSTANTS e1, e2, e3, p1, p2, t1, t2

\* Two deliveries of one event, the task that is contended, and one of another
\* task, whose slug has no handler.
TwoTasks == (e1 :> t1) @@ (e2 :> t1) @@ (e3 :> t2)
Registered == (t1 :> "contract") @@ (t2 :> "unregistered")

\* The processes are alike: the first event of each task is received by p1.
MCInit == Init /\ host[e1] = p1 /\ host[e3] = p1

\* The tasks share nothing but the crashes of processes: a behaviour is about
\* the events of one of them, and those of the other stay in EventsChannel.
Apart == pc[e3] = "queued" \/ (pc[e1] = "queued" /\ pc[e2] = "queued")

MCNext == Next /\ Apart'

\* The fairness of TaskService, but for the receipt of events.
MCSpec == MCInit /\ [][MCNext]_vars /\ \A e \in Event : Progress(e)
=============================================================================
