------------------------------ MODULE ProcessLife ------------------------------
(***************************************************************************)
(* The life of the programs that export telemetry: the boot of their main    *)
(* functions, the goroutines that wait for done, and the shutdown.           *)
(*                                                                          *)
(* otela.Configure starts goroutines that shut the exporters down once they   *)
(* receive from done.  On an interrupt two of the programs first send true    *)
(* to done, which needs a receiver, and then close it.                       *)
(*                                                                          *)
(* Source: src/adapter/otela, src/cmd                                        *)
(***************************************************************************)
EXTENDS Naturals, Sequences, FiniteSets

\* A call that main makes while booting (those that cannot fail and start
\* nothing are left out): what becomes of its error ("none":
\* it has none; "logged": main goes on; "fatal": panic or exit), and the
\* goroutines it starts, which select on done among other things.
Call(name, error, starts) == [name |-> name, error |-> error, starts |-> starts]

NewWithContext == Call("NewWithContext", "none", {"watcher"})
NewChannel == Call("NewChannel", "fatal", {"instances"})

\* EnableMetricExpose, the boot, and how done is closed: after an interrupt and
\* a send, after an interrupt, at the end of main, or never.
Main(exposes, boot, closes) == [exposes |-> exposes, boot |-> boot, closes |-> closes]

destination ==
  Main(TRUE, <<Call("Configure", "logged", {}), Call("NewTracer", "none", {}),
               Call("Consume", "none", {"consumer"}), NewWithContext, NewChannel,
               Call("Start", "none", {"coordinator"})>>, "send")

webhook_delivery_worker ==
  Main(FALSE, <<Call("Configure", "logged", {}), Call("NewTracer", "none", {}),
                Call("redis", "fatal", {}), Call("etcd", "fatal", {}),
                NewWithContext, NewChannel, Call("Consume", "none", {"consumer"}),
                Call("Run", "none", {"worker"})>>, "send")

\* The error of Dial is overwritten; the connection is then nil, and its use
\* panics.
faker ==
  Main(FALSE, <<Call("Configure", "fatal", {}), Call("NewTracer", "none", {}),
                Call("Dial", "fatal", {}), Call("Channel", "fatal", {}),
                Call("ExchangeDeclare", "fatal", {}), Call("publishEvent", "fatal", {})>>,
       "end")

faker_bulk == [faker EXCEPT !.closes = "never"]

otel_example ==
  Main(FALSE, <<Call("Configure", "fatal", {}), Call("startService1", "none", {})>>, "end")

rabbitmq_example(loop) ==
  Main(FALSE, <<Call("Configure", "fatal", {}), NewWithContext, NewChannel,
                Call("loop", "none", {loop})>>, "interrupt")

consumer_example == rabbitmq_example("consumer")
publisher_example == rabbitmq_example("publisher")

Program == {destination, webhook_delivery_worker, faker, faker_bulk, otel_example,
            consumer_example, publisher_example}

\* The goroutines of Configure, for each of its calls, and those of the rest.
Telemetry == {"shutdown", "tracer", "meter"} \X {1, 2}
Worker == {"watcher", "instances", "consumer", "coordinator", "worker", "publisher"} \X {0}

VARIABLES
  program,     \* the program
  life,        \* booting, serving, interrupted, closing, waiting, exited or dead
  at,          \* the boot's next call
  isConfigure, \* op.isConfigure
  tracer,      \* op.tracerProvider is set
  server,      \* the metric server: none, running or ended
  goroutine,   \* none, waiting (for done), woken or ended
  service2,    \* the second goroutine of the example: none, ready or ended
  done         \* done is closed

lifeVars == <<program, life, at, isConfigure, tracer, server, goroutine, service2, done>>

LifeInit ==
  /\ program \in Program
  /\ life = "booting"
  /\ at = 1
  /\ isConfigure = FALSE
  /\ tracer = FALSE
  /\ server = "none"
  /\ goroutine = [g \in Telemetry \cup Worker |-> "none"]
  /\ service2 = "none"
  /\ done = FALSE

Alive == life \notin {"exited", "dead"}

Start(started) ==
  goroutine' = [g \in DOMAIN goroutine |-> IF g \in started THEN "waiting" ELSE goroutine[g]]

-----------------------------------------------------------------------------
(* otela *)

\* The goroutines that the k-th call of Configure starts.
serveMetric(k) == {<<"shutdown", k>>}
initTrace(k) == {<<"tracer", k>>}
initMetric(k) == {<<"meter", k>>}

\* serveMetric comes first, and only before the first success; then initConn,
\* initTrace and initMetric, each of which may return an error.
Configure(k, result) ==
  LET serves == program.exposes /\ ~isConfigure IN
  /\ server' = IF serves THEN "running" ELSE server
  /\ isConfigure' = (isConfigure \/ result # "initConn")
  /\ tracer' = CASE result = "initConn" -> tracer
                 [] result = "initTrace" -> FALSE
                 [] OTHER -> TRUE
  /\ Start((IF serves THEN serveMetric(k) ELSE {})
           \cup (IF result \in {"ok", "initMetric"} THEN initTrace(k) ELSE {})
           \cup (IF result = "ok" THEN initMetric(k) ELSE {}))

ConfigureResult == {"initConn", "initTrace", "initMetric", "ok"}

\* Mutant: NewTracer gives out a no-op tracer when there is no provider.
NewTracerAlways == TRUE

\* NewTracer panics without a configuration, and without a provider.
NewTracer == isConfigure /\ tracer

-----------------------------------------------------------------------------
(* The boot *)

Goes(ok) == IF ok THEN at' = at + 1 /\ UNCHANGED life ELSE life' = "dead" /\ UNCHANGED at

Pending == program.boot[at]

Booting(name) == life = "booting" /\ at <= Len(program.boot) /\ Pending.name = name

MainConfigure ==
  /\ Booting("Configure")
  /\ \E result \in ConfigureResult :
       /\ Configure(1, result)
       /\ Goes(result = "ok" \/ Pending.error = "logged")
  /\ UNCHANGED <<program, service2, done>>

MainNewTracer ==
  /\ Booting("NewTracer")
  /\ Goes(NewTracer)
  /\ UNCHANGED <<program, isConfigure, tracer, server, goroutine, service2, done>>

\* The other calls; otel_example's startService1 sends to the second service.
MainCall ==
  /\ life = "booting" /\ at <= Len(program.boot)
  /\ Pending.name \notin {"Configure", "NewTracer"}
  /\ \E ok \in {TRUE, Pending.error = "none"} :
       Goes(ok) /\ Start(IF ok THEN Pending.starts \X {0} ELSE {})
  /\ service2' = IF Pending.name = "startService1" THEN "ready" ELSE service2
  /\ UNCHANGED <<program, isConfigure, tracer, server, done>>

\* signal.Notify is the last call of the boot; faker's bulk loop never ends.
Booted ==
  /\ life = "booting" /\ at > Len(program.boot) /\ program.closes # "never"
  /\ life' = IF program.closes = "end" THEN "closing" ELSE "serving"
  /\ UNCHANGED <<program, at, isConfigure, tracer, server, goroutine, service2, done>>

\* startService2 configures once more; an error panics.
Service2 ==
  /\ Alive /\ service2 = "ready"
  /\ service2' = "ended"
  /\ \E result \in ConfigureResult :
       /\ Configure(2, result)
       /\ life' = IF result = "ok" THEN life ELSE "dead"
  /\ UNCHANGED <<program, at, done>>

-----------------------------------------------------------------------------
(* The shutdown *)

\* SIGINT: before signal.Notify it ends the process.
Interrupt ==
  /\ life = "serving" \/ (life = "booting" /\ program.closes # "end")
  /\ life' = IF life = "booting" THEN "dead"
             ELSE IF program.closes = "send" THEN "interrupted" ELSE "closing"
  /\ UNCHANGED <<program, at, isConfigure, tracer, server, goroutine, service2, done>>

\* done <- true meets one goroutine that is waiting for done.
SendDone(g) ==
  /\ life = "interrupted" /\ goroutine[g] = "waiting"
  /\ goroutine' = [goroutine EXCEPT ![g] = "woken"]
  /\ life' = "closing"
  /\ UNCHANGED <<program, at, isConfigure, tracer, server, service2, done>>

CloseDone ==
  /\ life = "closing"
  /\ done' = TRUE
  /\ life' = "waiting"
  /\ UNCHANGED <<program, at, isConfigure, tracer, server, goroutine, service2>>

Awake(g) == Alive /\ (goroutine[g] = "woken" \/ (goroutine[g] = "waiting" /\ done))

\* A goroutine ends; an error of an exporter's Shutdown is only logged.
End(g) ==
  /\ Awake(g) /\ g \notin {"shutdown"} \X {1, 2}
  /\ goroutine' = [goroutine EXCEPT ![g] = "ended"]
  /\ UNCHANGED <<program, life, at, isConfigure, tracer, server, service2, done>>

\* srv.Shutdown closes the server, or panics when its clients take too long.
Shutdown(g) ==
  /\ Awake(g) /\ g \in {"shutdown"} \X {1, 2}
  /\ \/ /\ goroutine' = [goroutine EXCEPT ![g] = "ended"]
        /\ server' = "ended"
        /\ UNCHANGED life
     \/ /\ life' = "dead"
        /\ UNCHANGED <<goroutine, server>>
  /\ UNCHANGED <<program, at, isConfigure, tracer, service2, done>>

\* log.Fatalf in the goroutine of ListenAndServe.
ListenAndServeFails ==
  /\ Alive /\ server = "running"
  /\ life' = "dead"
  /\ UNCHANGED <<program, at, isConfigure, tracer, server, goroutine, service2, done>>

\* The goroutines of the workers that panic: a consumer that cannot reach its
\* queue or acknowledge, the watcher of a connection that was lost at once.
WorkerPanics ==
  /\ Alive /\ \E g \in {"watcher", "consumer"} : goroutine[<<g, 0>>] = "waiting"
  /\ life' = "dead"
  /\ UNCHANGED <<program, at, isConfigure, tracer, server, goroutine, service2, done>>

\* wg.Wait returns.
Exit ==
  /\ life = "waiting"
  /\ server # "running" /\ service2 # "ready"
  /\ \A g \in DOMAIN goroutine : goroutine[g] \in {"none", "ended"}
  /\ life' = "exited"
  /\ UNCHANGED <<program, at, isConfigure, tracer, server, goroutine, service2, done>>

LifeNext ==
  \/ MainConfigure \/ MainNewTracer \/ MainCall \/ Booted \/ Service2
  \/ Interrupt \/ CloseDone \/ ListenAndServeFails \/ WorkerPanics \/ Exit
  \/ \E g \in DOMAIN goroutine : SendDone(g) \/ End(g) \/ Shutdown(g)

LifeSpec == LifeInit /\ [][LifeNext]_lifeVars

\* Go schedules every goroutine that can move.  The workers are left out: each
\* may be busy with something else than done, as the other modules show.
Fairness ==
  /\ WF_lifeVars(\E g \in Telemetry : SendDone(g))
  /\ WF_lifeVars(CloseDone)
  /\ \A g \in Telemetry : WF_lifeVars(End(g) \/ Shutdown(g))

-----------------------------------------------------------------------------
(* Properties *)

\* The type of every variable of a program's life.
LifeTypeOK ==
  /\ program \in Program
  /\ life \in {"booting", "serving", "interrupted", "closing", "waiting", "exited", "dead"}
  /\ at \in 1 .. Len(program.boot) + 1
  /\ isConfigure \in BOOLEAN /\ tracer \in BOOLEAN
  /\ server \in {"none", "running", "ended"}
  /\ goroutine \in [Telemetry \cup Worker -> {"none", "waiting", "woken", "ended"}]
  /\ service2 \in {"none", "ready", "ended"}
  /\ done \in BOOLEAN

Idle(g) == goroutine[g] \in {"none", "ended"}

\* Once interrupted, a program always gets past its send to done and closes it,
\* whatever its workers are busy with, since a program without the goroutine of
\* the tracer never gets through its boot; and once done is closed the
\* exporters are shut down.  Otherwise the process has died.
InterruptCloses ==
  /\ life = "interrupted" ~> done \/ life = "dead"
  /\ done ~> life = "dead" \/ \A g \in Telemetry : Idle(g)
=============================================================================
