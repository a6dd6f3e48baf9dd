# Verification of ormus

ormus collects events from sources, processes them, and delivers the processed
events to third parties.  This directory holds TLA+ models of the parts of the
repository in which several processes, goroutines or stores have to agree, TLC
configurations that check them on small instances, and TLAPS proofs of what
matters most for every instance.

Paths such as `channel.go:386` are below `src/`; `PROJECT.json` gives the lines
each definition models, the hazards each property is aimed at, and the findings.

## The system

| part | state | operations | what is hard about it |
|---|---|---|---|
| processed event consumer, `destination/processedevent` | AMQP connection, Go channel `events` | set up, receive, unmarshal, send, acknowledge, close | a panic at every call of the setup, a goroutine per message, deferred closes, no reconnection |
| task coordinator, `destination/taskcoordinator` | none but its goroutines | look up the publisher of a destination type, publish | blocks on a full channel at shutdown |
| RabbitMQ channel, `pkg/channel/adapter/rabbitmq` | connection, watcher, instances, two Go channels | reconnect, open, publish with retries, consume, acknowledge | lost connections, stale AMQP channels, redelivery, panics |
| task manager, `destination/taskmanager` | Go channel of events | enqueue, consume | acknowledges an event that is only in memory |
| delivery worker and task service, `destination/worker`, `destination/taskservice` | a goroutine per event, lock in etcd, status in Redis, repository per process | HandleTask | leases that lapse, crashes, partial failures, two stores that disagree |
| simple channel, `pkg/channel/adapter/simple` | instances, attempts, two Go channels | take, deliver, time out, acknowledge | a timeout racing a late acknowledgement |
| manager worker, `manager/workers` | default projects | create a project per registered user | blocked by a late acknowledgement |
| user service, `manager/service/userservice` and its handlers, validator, repository | rows in ScyllaDB | register, log in | check-then-insert; an error that is read from the wrong iterator |
| source service, `manager/service/sourceservice` | a slice of pointers | create, update, delete | ids that are all `""` |
| tokens, `manager/service/authservice` | none | make, parse | a product that overflows an int64 |
| channel declaration, `NewChannel` in `channel.go` | exchange, queue, binding | declare, bind, start | a connection that is read before the wait for an open one; declarations that the broker refuses |
| database start, `scyllarepo`, `adapter/scylladb`, `migrate` | keyspace, tables, migration records | create, migrate, connect | managers that start together; a crash between a migration and its record |
| main functions and `adapter/otela` | the goroutines that wait for `done` | boot, interrupt, shut down | a send that needs a receiver, errors that are only logged |
| plain task manager, broker library, channel converter | queue, deliveries, Go channels | enqueue, consume, convert | acknowledging before the work; nothing in the repository runs them yet |
| command line, `cli` | `./cli/config.json` | the commands, `config set`, `user login` | two runs that write one file |
| source process, configuration, logging | | | stubs and I/O |

An event flows from the core through RabbitMQ to the processed event consumer,
over `events` to the coordinator, over `inputChannel` and RabbitMQ to the output
side of a RabbitMQ channel in a worker process, over `outputChannel` and
`EventsChannel` to the worker, and is handled by the task service.  In the
manager, Register puts the new user in a simple channel whose reader, the
manager's worker, creates the default project.

## Modules

| module | models | state and actions |
|---|---|---|
| TaskEntity | `taskentity/task.go` | the task value, its statuses, their encoding as numeric strings |
| TaskService | HandleTask, Worker.Run, etcd lock, Redis status, repository, handlers | `pc` is the place of each goroutine in HandleTask; one action per call that reads or writes shared state, and one for each way it fails |
| RabbitConnection | `rabbitmq/adapter.go` and the life of an instance in `channel.go` | numbered connections, the watcher, the instances; extended by the next two |
| RabbitPublisher | input side of `channel.go`, Queue.Enqueue | `place` of each message, the AMQP channel its goroutine holds, its tries |
| RabbitConsumer | output side of `channel.go`, Consumer.Consume, Worker.Run | the broker's `ready` and `unacked`, the `acks` on their way to it, the `stage` of each delivery from the moment it is sent ahead, the two Go channels |
| ProcessedEvents | processed event consumer, coordinator, `cmd/destination/main.go` | the `stage` and the acknowledgement of each event, the `loop` of Consume from its dial on, the other loops, the connection |
| SimpleChannel | simple channel, manager worker, the send in Register | each `attempt`, the `copy` it made, `outputChannel` as a queue with its blocked senders |
| RichError | `pkg/richerror`, `httpmsg` | an error is the chain of its nodes; its kind, text and HTTP code are operators |
| Jwt | `authservice/jwt.go` | a token and its lifetime; 64-bit multiplication in digits |
| UserService | register and login from handler to ScyllaDB | `step` is the place of each request; one action per query, per way it fails, and for a crash |
| SourceService | handlers, middleware, validator, service, `sourcemock` | `heap` holds the sources, `slots` the slice of pointers; one action per call, with the HTTP code it answers |
| RabbitTopology | NewChannel | one step per call to the broker, in several processes, with lost connections, names declared before with other attributes, and refusals |
| ScyllaInit | opening the database | one step per statement, `rows` are the records of golang-migrate (external, modelled from its use) |
| ProcessLife | the `main` functions, Configure, NewTracer | each program is the list of its fallible calls; actions boot, fail, interrupt, send, close, shut down |
| Relay | what a relay of messages promises | abstract: published, offered, held, sent, unsettled, returned |
| Messages | | the messages of the three relays: constants only |
| PlainTaskManager, BrokerLibrary, Converter | `rabbitmqtaskmanager`, `pkg/broker/rabbitmq`, `pkg/channel/converter.go` | each instantiates Relay with a refinement mapping |
| CliCommands, Cli | `cli/cmd`, `cli/api` | the tree of commands and what cobra makes of arguments; runs that share the file |
| Manager | | UserService and SourceService beside each other |
| Infrastructure | | the three relays, ProcessLife, RabbitTopology, ScyllaInit and Cli beside each other; its specification is the conjunction of theirs |
| TaskServiceProofs, RabbitPublisherProofs, RabbitConsumerProofs, ProcessedEventsProofs, SimpleChannelProofs | | theorems about the module of that name |
| ManagerProofs | | theorems about UserService and SourceService |
| ProgramProofs | | theorems about Cli, ScyllaInit, ProcessLife and RabbitTopology |
| InfrastructureProofs | | that the relays implement Relay, and the types of all parts of Infrastructure |
| MC... | | instances for TLC |

Definitions marked "Mutant" are plausible bugs of the action that follows them;
no specification uses them.  With one in the place of its original, TLC reports
the property it is meant for.

MCManager and MCInfrastructure check several independent components in one run.  Each
component has its own variables; `focus`, chosen in the initial state and never
changed, says which of them moves.  The behaviours are those of the components, one
at a time, and a property of one is trivially true in the behaviours of the others.

Modelling choices worth knowing:

- An AMQP channel is an instance and the number of a connection.  It is closed
  with the connection, or by its instance when that stops on done.  That the broker
  closes one channel of a connection that stays up (an exchange that was deleted, a
  message left unacknowledged beyond the broker's timeout) is not modelled; the instance
  meets it as it meets a lost connection, but finds the connection still up.
- In RabbitConsumer the broker sends messages ahead of the selects, since no channel
  sets a Qos, and an acknowledgement is a frame on its way: the broker learns of it
  later (BrokerAcks), or never when the connection is lost.  That it arrives is never
  assumed.  A close that the instance asks for itself comes after what it has sent.
- A goroutine that panics ends its process.  RabbitConsumer lets the process be
  started again, with the broker giving back what was not acknowledged;
  RabbitPublisher and ProcessedEvents end there.  TaskService has crashes, after which
  the process is back at once with an empty repository, in place of panics.
- `done <- true` followed by `close(done)` is one step: whoever receives the value
  moves first, which the interleaving covers.
- In TaskService a lease lapses only after the context made in Lock has ended, and
  that may happen at any time.  With the fake handler (two seconds) and a TTL of
  ten seconds it is rare; Handle has no timeout of its own, so nothing excludes it.
- The handler kind `contract` answers whatever the handler interface and HandleTask
  allow; `fake` is the one the worker process registers, and answers success.  Whether
  a `contract` handler counts a failed request is left open, as the two comments on it
  disagree (see Findings); `counted` is the number of those that were.
- `Attempts` wraps at 256 as its Go type does.
- ProcessedEvents begins with the dial of Consume.  Each call of its setup may fail, and
  failOnError panics then; the queue keeps what the core published as long as it exists.
- In ProcessedEvents, closing a lost connection fails, as in the AMQP library the
  repository uses; the finding about shutdown does not depend on it, since a send to
  the closed `events` panics too.
- A query of UserService that fails does so in the way the repository reports it,
  wrong iterator included.  ScyllaDB is one copy; its replication is not modelled.
- In SourceService calls from code come one after the other, as in the tests of the
  packages: the slice has no lock.  The manager's server is not given a source handler,
  so that a call over HTTP is refused in the middleware or in the handler.
- In ScyllaInit a migration is `CREATE TABLE IF NOT EXISTS`, as all files under
  `migrations` are; golang-migrate's lock is a flag in memory, so that it excludes
  nobody in another process.
- In RabbitTopology a declaration is accepted, or refused whatever the name holds: it may
  have other attributes, be reserved by another connection or be forbidden.  A refusal
  closes the AMQP channel; NewChannel opens another and declares passively.
- In ProcessLife the workers are never assumed to listen to `done`, because the
  modules above show them blocked elsewhere.
- In Cli a text is its value and its length: a shorter text written over a longer
  one leaves a tail, which is `Garbage`.
- CliCommands holds the tree of commands and the flags they define.  Most help texts
  document flags that their command does not define, and cobra refuses those.
- The converter's calls come one after the other: it takes no lock, and two calls at
  once for one channel are not modelled.

## Runs

| run | instance | shows |
|---|---|---|
| task_service | 3 events, two of one task and one of a task without a handler, 2 processes, 1 crash, 1 expiry | types; MutualExclusion while leases are renewed; AtMostOnceDelivery: one delivery, and one more for each mishap; SkippedWasSettled; RedisNotAheadOfRepo; AttemptsCounted; SettledIsFinal; EventSettles, LockIsReleased |
| task_attempts | the same | AttemptsAreSuccesses fails (finding) |
| rabbit_publisher | 2 instances, 2 messages, 1 lost connection, 2 retries | NoDuplicates, DroppedOnClosed, OneLatePerChannel; InputDrains |
| rabbit_publisher_shutdown | 2 instances, 1 message, 1 lost connection | ShutdownCompletes fails (finding) |
| rabbit_consumer | 1 instance, 2 messages, one malformed, 1 lost connection | AckedIsAccounted, RedeliveryBound, UnackedIsHeld; EventuallyTaken |
| rabbit_consumer_graceful | 1 instance, 2 messages, no lost connection | StopsGracefully fails (finding) |
| processed_events | 4 events, one malformed, one without publisher | RunningSurvives: only the setup and a shutdown panic; EventuallyPublished: what reaches the queue is taken by a RabbitMQ channel unless the connection is lost or the process stopped first; AckedIsPublished: what was acknowledged is, unless the process is stopped |
| processed_events_graceful | the same | StopsGracefully fails (finding) |
| manager | broker: 3 users, 2 instances, 2 attempts, a repository that works or fails; accounts: 3 registrations and 2 logins of one email, 2 failing queries, 1 crash; sources: 2 owners, 4 sources, 4 calls | NeverForgotten, AckedHasProject, ProjectPerCopy, StuckForever, EventuallyProject; OverwrittenHasCause, LoginIsRight; LostHasCause |
| token_lifetime | the accounts, with the lifetimes of `config.yml` | TokensAreUsable fails (finding) |
| infrastructure | relays: 2 clients, 3 messages, one garbled (two for the library, which decodes nothing); 7 programs; 2 processes that declare, 2 lost connections, refusals; 2 managers, 2 hosts, 2 migrations, 2 failures; 3 runs of the command line | RelaysImplement, InterruptCloses, NewChannelReturns, SchemaIsSound, FileIsWhole, FileHasSetValues |
| cli_login | the same | LoginLogsIn fails (finding) |

Bounds.  Three deliveries of one task are enough for an owner, a goroutine whose
lease lapsed, and one that comes after both.  One lost connection makes a goroutine
outlive its AMQP channel while a new one is in use.  RabbitConsumer has one instance,
since its two messages, a restart and the two connections already meet in every order;
the proofs cover any number of instances.  Go channels have capacity one,
so that a second message finds them full.  Two attempts are enough for a late acknowledgement; the simple channel of
the code retries without limit, and the last attempt of the model just waits.  Three accounts
are enough for a check, an insert by another and an insert of one's own, with a login
between; two failures hit both a check and a lookup.  Two processes that migrate or
declare overlap in every order, and two lost connections make one read connection stale
twice.  Three runs of the command line are needed for a value that is stored, read and
undone.  Runs
without deadlock checking are those of systems that may stop: all events handled, or
the process shut down.

Fairness.  Weak fairness of goroutines that can move is what the Go scheduler gives, and
a select that finds several cases ready chooses at random.  In ProcessedEvents it is that
of all goroutines together: an event takes each of its steps once, so that none can keep
the others waiting for ever.  In RabbitConsumer the broker sends what it has to an
instance that consumes, but no acknowledgement is assumed to arrive.  In RabbitTopology
each call of NewChannel is answered, one way or the other.  The timers of a lock's context and of callMeNextTime fire, and etcd ends a lease
nobody renews; the timers of the simple channel are not assumed to fire, since an
acknowledgement may always come first.  In ProcessLife only the goroutines of the exporters and
`main` are fair, never the workers.  A lost broker can be dialled again sooner or
later, and a worker process that panicked is started again.  Crashes, lost connections,
expired keys and signals are never assumed to happen.

## Findings

- task_attempts: HandleTask stores the count of attempts that the handler returns without
  looking at the status.  Its comment has Attempts "incremented in delivery handler in case
  of success" (`handle_task.go:114`), that of the webhook handler "in every send request"
  (`webhookdeliveryhandler/handler.go:17`).  With a handler of the second kind the count is
  not that of the successes; AttemptsCounted holds for both.
- rabbit_publisher_shutdown: at shutdown an instance of the RabbitMQ channel can wait
  for a connection that nobody restores, because the watcher has returned
  (`pkg/channel/adapter/rabbitmq/adapter.go:182`): `wg.Wait` does not return.
- rabbit_consumer_graceful: at shutdown the worker process can panic, because the error
  reported for a failed acknowledgement is not the one that occurred but a nil one
  (`rabbitmqchanneltaskmanager/task_consumer.go:67`).
- processed_events_graceful: at shutdown the destination process can panic, because
  `events` is closed under its senders, or because closing a connection that is lost
  fails (`rabbitmqconsumer/adapter.go:46`).
- token_lifetime: `config.yml` gives the lifetimes of tokens in seconds and the code
  takes them for days (`manager/service/authservice/jwt.go:29`); the product overflows,
  and an access token has expired when a login hands it out.
- cli_login: `user login` never logs in.  SendRequest sends an empty body
  (`cli/api/client.go:108`), so that the manager sees no email and no password and does not
  answer 200; `doc/cli.md:6` says "Log in as a user" and `login.go:61` prints "Token stored
  successfully".  FileHasSetValues allows for a login that stores its token.

Goroutines that send to full Go channels, and deliveries of the simple channel, do not
look at done either (`channel.go:328`, `queue.go:30`, `simple/channel.go:77`); these are
listed as hazards.  SendsBlockForEver and HaltedEndsNothing prove what becomes of the first
and the last.

What the passing runs state with an exception is as informative: a simple channel's
worker stays blocked for ever in an acknowledgement that came after its timeout
(StuckForever); a processed event consumer that lost its connection receives
nothing more (EventuallyPublished excepts what was not received by then); two registrations of one
email at once both succeed and the second replaces the first (OverwrittenHasCause); an
update of one source without an id can displace another (LostHasCause); a NewChannel
whose connection was lost while it waited fails although a new connection is up
(NewChannelReturns); and a migration that was cut off refuses every later start until its
mark is removed by hand (SchemaIsSound).

## Proofs

TLAPS proves every invariant, action property and refinement that a passing run checks,
for all values of the constants that satisfy the named assumptions.  These say that
bounds and capacities are naturals (`DropsAssumption`, `LossesAssumption`,
`OutSizeAssumption`, `ConverterAssumption`, `SizeIsPositive`), that there are finitely
many messages, instances, events or users where they are counted, and that the given
functions have the right types (`ConstantsAssumption`, `SimpleAssumption`,
`PublisherAssumption`, `ConsumerAssumption`, `PipelineAssumption`, `UserAssumption`,
`SourceAssumption`, `DatabaseAssumption`, `CliAssumption`), and that no message is
`None` (`NoneIsNoMessage`).  TLC evaluates each on a run that extends its module.

**Task service** (TaskServiceProofs)

- TypeCorrect; LockExcludes: MutualExclusion, from LiveLease: a working goroutine whose
  context has not ended owns its key, so that two of them would own the same one.
- AtMostOnce: AtMostOnceDelivery.  The property is not inductive: a goroutine that
  has lost its lease may deliver later.  The invariant is a budget per task: the
  deliveries made, plus the goroutines whose lapse has been counted and that may still
  deliver or reopen the task (Debt), plus one if the owner of the lock may deliver
  (Open), never exceed one plus the mishaps.  Lemmas show the five ways a step keeps it,
  and that the steps that only read, lock or unlock (Quiet) are of the first; then
  delivering, saving, lapsing, crashing and expiring are treated one by one.
- SettledStays: SettledIsFinal, from Guarded (without mishaps a worker owns its key)
  and Decided (without mishaps a task that is being executed is not settled).
- SkipsAreEarned: SkippedWasSettled, from what a stored status and a held answer are
  evidence of.
- RepositoryKeepsUp, RetriesCountOn: RedisNotAheadOfRepo and AttemptsCounted.  Both
  rest on Record, what the stores remember of a task that met no mishap: one process at
  most has it in its repository (OneRepo), no handler has answered before a status is
  stored (NothingYet), and a goroutine that executes it carries its count on, in the
  process that remembers it (Carried).  That a second goroutine cannot disturb this needs Guarded again.
- KeysHaveAWayOut: the safety half of EventSettles and LockIsReleased.  A key in etcd belongs
  to a goroutine of its task that works, or is on a lease nobody renews (KeyRunsOut); a
  goroutine that waits for a key holds none (WaiterHoldsNone), so that no two wait for each
  other.

**RabbitMQ channel** (RabbitPublisherProofs, RabbitConsumerProofs)

- PublisherTypeCorrect, RetriesDoNotDuplicate, GivenUpOnClosed, OneLateMessage: TypeOK,
  NoDuplicates, DroppedOnClosed, OneLatePerChannel.  All rest on ClosedStays: a closed
  AMQP channel is never open again.  A message that arrived although its attempt
  reported an error is then on a closed channel (ArrivedOnce), and an instance is back
  in its select only with another channel (LateIsPast).
- LossNeedsClosed: a message that left the adapter, given up or not, is in the queue exactly
  once unless the AMQP channel of its goroutine was closed.
- AcknowledgedIsAccounted, UnacknowledgedIsHeld, RedeliveriesBounded: AckedIsAccounted,
  UnackedIsHeld, RedeliveryBound, through lost connections, lost acknowledgements, panics
  and restarts.  A message in the queue was sent on no open channel (Fresh), of the
  deliveries of one message at most one is on an open channel (OneOpen), and every handover
  belongs to a delivery of its own (Counted): so all handovers but one are on closed
  channels.  What acknowledgements on their way are about is in EventsChannel or was
  (HandedOver), so that the broker may forget it whenever one arrives.
- ConsumerTypeCorrect: TypeOK, which bounds the numbers of connections.  This needs that
  after the last loss everything is on the last connection and nothing panics before
  shutdown (Steady).
- NoPanicWithoutLoss: with no lost connection the worker process panics at shutdown at
  the earliest.  No run states this; it limits the finding of rabbit_consumer_graceful.
- SendsBlockForEver: after done, a send to a full `outputChannel` whose reader has returned
  stays blocked until the process panics, and so does one to a full `EventsChannel`.  That
  no delivery leaves `outputChannel` otherwise needs that an instance receives at most one
  zero value from each channel (ZeroIsPast).

**Processed events** (ProcessedEventsProofs): PipelineTypeCorrect; PanicsAtSetupOrShutdown:
RunningSurvives, which needs that Consume leaves its loop only after done.  TakenIsKept:
every step takes an event on along its way, and once Consume took it from the queue it is
not lost.  KnownEventsGoThrough, the safety half of EventuallyPublished and AckedIsPublished:
between the setup and done all loops run, only malformed events are rejected, only those
without a publisher are given up, and what was lost has had no acknowledgement.

**Manager** (SimpleChannelProofs, ManagerProofs)

- SimpleTypeCorrect; DeliveryKept, LateAckBlocks, AckAfterCreate: NeverForgotten,
  StuckForever, AckedHasProject.  The first two rest on the order of attempts: those
  before the live one timed out, those after it have not begun.
- HaltedEndsNothing: once the worker stopped, or is stuck in a late acknowledgement, no
  delivery ends and no project is created any more; with DeliveryKept, all that can follow
  is further attempts.
- ProjectsPaidFor: ProjectPerCopy.  The projects of a user and the copy that the worker
  has in hand are together at most the copies taken; that a taken copy is new needs that
  `outputChannel` holds each copy once (Queued).
- OverwritesAreRaces: OverwrittenHasCause.  A registration on its way to the insert saw no
  row of its email, unless its check failed unnoticed (Unseen), and a stored
  registration has left a row of its email (Rows).
- LoginsAreRight: LoginIsRight.  The row that a login read is that of a stored user with
  its email (ReadRow), and a login answered 200 has its password (Owners).
- SourcesAreKept: LostHasCause.  Only the source of NewMockRepository has an id other
  than `""` (OneDefault), so an update by that id displaces nothing.
- AccountsTypeCorrect, ManagerTypeCorrect: UserTypeOK, ManagerTypeOK.

**Programs** (ProgramProofs)

- OneWriterKeepsFile, StoredValuesStay: FileIsWhole and FileHasSetValues.  While no two
  runs stored at once and none was killed over it, one run stores at a time, in an empty
  file (OneStores).  What was stored is in the file, and in the memory of every run that
  read the file afterwards, but for the key that this run sets (Remembered); and every
  value in the file or in memory is initial or was set (SetValues).
- SchemaHolds: SchemaIsSound.  Reached gives for each step of each process the tables
  that exist, whoever created them.
- ChannelsAreDeclared: a started channel has its exchange, its queue and their binding, the
  safety half of NewChannelReturns.  DeclaredSoFar gives for each step of NewChannel what
  the broker has; a declaration that was refused leaves what is there (DeclareIs).
- InterruptFindsReceiver: when `cmd/destination` or the worker process sends to `done`, a
  goroutine of its telemetry waits to receive (SendHasReceiver).  It needs that a program
  that sends has got past NewTracer (Traced).  This is the safety half of
  InterruptCloses; that the send then happens is left to TLC.

**Relays** (InfrastructureProofs)

- AllImplementRelay: PlainTaskManager, BrokerLibrary and Converter implement Relay
  (PlainIsRelay, LibraryRelays, ConverterRelays), that is RelaysImplement.
- For PlainTaskManager the invariant says that the broker has a message in one place
  (OnePlace), so that reading it takes the only delivery and an Ack settles the only
  one, that a consumer has a copy only while it sends it (HeldIsSent), and that there is
  one copy of a message that the broker never put back after it was read (OneCopy).  Enqueue maps
  to Publish, Read to Take, SendEvent to Send, BrokerAcks to Settle, a lost connection,
  done and a crash to Break, the rest to stuttering.
- For BrokerLibrary it says that a message waits for an Ack of at most one client, and
  not in the queue too (UnackedOnce), that it has one copy unless it was given back
  (OneCopyEach), and that with auto-ack nothing is (SettledAtDelivery).  PublishMessage
  maps to Publish, a delivery to Take, SendMessage to Send, a closed channel to Break, the
  rest to stuttering.
- For Converter it says that a message is in one stage of its way (OneStage).  Put maps to
  Publish, ReadMessage to Take, SendConverted to Send.
- PlainGoneForever: from the step simulation, an event without a copy never comes back.
- PlainSendsOnce, LibrarySendsOnce, ConverterSendsOnce: a message that was sent is on its way
  again only if the broker gave it back (SentOnce of Relay).  For the library with auto-ack,
  its default, and for the converter this is at most once whatever happens; for the plain
  task manager, at most once but for connections lost before an Ack was processed.
- InfrastructureTypeCorrect: the types of all seven parts, from the invariants above.

Only model-checked: the liveness properties (EventSettles, LockIsReleased, InputDrains,
EventuallyTaken, EventuallyPublished, AckedIsPublished, EventuallyProject, InterruptCloses,
NewChannelReturns), because the prover does not treat fairness (of EventSettles,
LockIsReleased, EventuallyPublished, AckedIsPublished, InterruptCloses and NewChannelReturns
the safety half is proved, as said above); and the six findings, which are counterexamples.

## Not modelled

`PROJECT.json` lists every part with its status.  Left out, and why:

- The in-memory idempotency store, the in-memory task manager and the project
  validator: no process uses them, and each is a map or a list of checks of one
  request.
- The source process and the event ingestion it is to do: stubs; no event is accepted.
- Configuration and logging: files and the environment are read once, before anything
  else runs, and nothing reads the log.
- Spans and counters of the tracing packages, and the wrappers of the ScyllaDB driver's
  calls: nothing in the repository reads what they write.
- The HTTP server, routing and JSON: libraries; the handlers behind them are modelled.
- The example of the simple channel: a demonstration of what SimpleChannel models.
- Replication in ScyllaDB, Redis, etcd and RabbitMQ: each is one copy that may fail,
  lapse, expire or be cut off from a client.

The plain task manager, the broker library and the converter are modelled although no
process uses them, because they are the alternatives the repository offers for its
queues; what is shown of them holds for whoever will.
