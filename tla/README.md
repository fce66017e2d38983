# TLA+ models of the SDAR MCP Provider Platform

The platform turns MCP `tools/call` requests into durable Tasks, runs them at a
Provider Adapter over gRPC, and manages fleets of such Runtimes from a control
plane (PMS). This directory holds TLA+ modules translated from the code, the
TLC configurations that check them, and proofs for TLAPS. Paths below are
relative to the root of the repository.

## The system

**Runtime (the Task authority).** `apps/runtime` starts the interval loops;
`packages/task-engine` holds the handlers; `packages/persistence-postgres` holds
one transaction per operation on PostgreSQL; `packages/domain` holds the pure
mappings; `packages/adapter-protocol` the gRPC client of the Adapter. Any number
of Runtime processes share one database and know of each other only through it.

| Part | State | Operations | What makes it correct |
|---|---|---|---|
| Admission and idempotency (`engine.ts` `callOperation`, `#executeOperation`; `idempotency.ts`) | `idempotency_record`, `admission_intent` | claim a key, create the intent, reconcile, start, publish, complete or abandon the key; the admission half of the recovery scan | one answer per key, an accepted execution always gets its Task, a published admission stays published, an uncertain one is not started again |
| Scheduler (`scheduler.ts`) | `provider_task` rows in `SCHEDULED` / `STARTING`, their claim | claim due rows, start, accept, retry, mark uncertain, reconcile after the lease, complete a missed window | no second side effect, every start resolves |
| Bound-execution watchdog (`bound-execution-watchdog.ts`) | `WAITING_START_CONFIRMATION`, the same claim columns | claim, confirm, defer, stop | an execution that does not start in its window is stopped; no false start time |
| Commands and dispatcher (`command-dispatcher.ts`, `beginCancel`, `claimExpiredDeadlines`, ...) | `task_command` rows with claim, attempts and reason | create, claim, dispatch, acknowledge, retry, reject, recheck, exhaust, supersede | one active stop per Task, for the row's reason, until proof or `SAFE_STOP_UNCONFIRMED` |
| Reads and recovery (`getTask`, `reconcileTask`, `recovery.ts`, `applySnapshot`) | the row and its Adapter revision | apply a snapshot, fail what is not found | terminal states are final, revisions grow, outcomes are proved by the Adapter |
| Input inbox (`acceptMcpInputResponses`, `promotePendingInputResponses`, ...) | `task_input_request`, `task_input_response_inbox` | accept, promote, deliver, ignore, exhaust, withdraw | the answer a request shows is the one its command delivered; never two different ones |
| Business Events (`business-events.ts`, `source-coordinator`) | source states with leases, inbox of facts, events by generation, continuity records | lease, ingest, map, finalize, rotate | facts of a source in order, nothing durable lost in silence |
| Outbox and retention (`outbox-publisher.ts`, `outbox-cleaner.ts`, `ttl-cleaner.ts`, `withRecoveryLock`) | `outbox_event`, retention columns, `runtime_lease` | publish, clean, renew, expire, purge, recover | told before it is settled, nothing purged untold, no purge under a recovery |
| Provider operations queue (`provider-ops-...`) | `provider_ops_delivery` | capture, claim, export in batch or singly, settle | told before it is settled, every record settles |

**PMS control plane.** `apps/pms-worker` reconciles desired and actual Runtime
deployments: jobs in `job_lease`, claimed under a lease by an execution that
prepares the database, starts the process, verifies its health, publishes its
Catalog and Registry and activates the row, or drains and stops it. Every write
of the row is fenced by its revision. `apps/pms-api`, `packages/configuration-center`,
`packages/runtime-registration` and `packages/pms-persistence-postgres` keep
configuration versions, registrations and credentials; `apps/pms-web` is the console.

**Provider Adapters.** `packages/provider-adapter-kit`, `packages/vehicle-provider-core`
and the `apps/*-provider*` run executions on devices: idempotent by task id,
with revisions that grow, and commands numbered by sequence. An Adapter may run
as several replicas over one store. The most delicate of them is the fire control of
the NPC tank: one physical call that must not be repeated and may be cancelled
until it is made. Its fence is a record in the table of command acks, swapped
by its reason code.

How they interact: a handler reads a row, commits, calls the Adapter *outside*
any transaction, and commits the answer in a second transaction guarded by its
claim, by the row's state, or by the Adapter revision. The hard behaviour is
between those two transactions: leases that run out, snapshots out of order,
stops that land in between, answers that are lost or late, processes that die.
`PROJECT.json` lists the hazards with their lines.

## Modules

| Module | What it is |
|---|---|
| `TaskRow` | pure operators: the snapshot mapping, start evidence, stop mapping, `mergeStopState`, `transitionTask`, `applySnapshot` |
| `TaskLifecycle` | one published Task: its row, its CANCEL command, all workers, the Adapter |
| `TaskLifecycleProofs` | theorems of `TaskLifecycle`: types, history, revisions, starts and outcomes, stops, ended Tasks |
| `Admission` | one `tools/call` from its key to its published Task |
| `CommandLane` | all commands of one bound Task and the answers to its input requests |
| `AtLeastOnce` | abstract: what a queue of facts promises |
| `OpsDelivery` | the telemetry queue; implements `AtLeastOnce` |
| `Retention` | outbox, expiry, purge and recovery lease of one Task; its outbox implements `AtLeastOnce` |
| `BusinessEvents` | the ingestion pipeline of Adapter events of one Provider |
| `PmsReconcile` | the job queue and the reconcile of one Runtime deployment |
| `OneShot` | abstract: a weapon fires or it does not, and what may be told |
| `FireDispatch` | one fire execution of the NPC tank on several replicas; implements `OneShot` |
| `AdmissionProofs`, `CommandLaneProofs`, `OpsDeliveryProofs`, `RetentionProofs`, `BusinessEventsProofs`, `PmsReconcileProofs`, `FireDispatchProofs` | theorems of the module they are named after |
| `TaskDocuments`, `LaneDocuments`, `EventDocuments`, `PmsDocuments`, `FireDocuments` | sentences of the documents that the code does not keep |
| `MC...` | model values, symmetry and small functions for TLC |

How the modules fit together. Each takes over where another leaves the row:
`Admission` ends when the row exists, `TaskLifecycle` starts there, `CommandLane`
looks at a Task that is bound and running, `Retention` at one that ends; that the purge
need not wait for an admission is `ExecutionIsTracked` of `Admission`. They
share transactions of `tasks.ts` but no module instantiates another's
variables: what one has of the others is an action of its own (`ScheduledStart` of
`Admission`, `NewSnapshot` of `CommandLane`). Composition proper is by refinement:
`OpsDelivery` and `Retention` against `AtLeastOnce`, `FireDispatch` against
`OneShot`. `TaskLifecycle` assumes of the Adapter that an execution only grows.
`FireDispatch` is an Adapter's own code, where TLC refutes just that
(`TerminalIsFinal`): a Task's row keeps the first end it saw.

### TaskLifecycle

`row` holds the columns of `provider_task` the control depends on, `cmd` the
CANCEL command with the highest sequence (older ones are finished), `outbox` the
event keys that can recur and then turn a transition into a no-op
(`transitionTask` checks them first), `exec` the Adapter's execution, `job[w]`
what worker `w` is doing with the values it read before its call, `now` the clock.

- Each repository method is one action, because it is one transaction that locks
  the row. A handler with an Adapter call is three steps: the transaction before
  it, the Adapter's step (which decides the answer at its own moment), and the
  transaction after it. `Crash` and `ClaimLost` end a handler anywhere.
- A worker is one handler at a time of one Runtime process, with an owner id of
  its own. Two handlers that share the id of their process are modelled in
  `CommandLane` (`Owner`).
- A lease or a backoff is a timer, `held` or `over`. That a lease runs out under
  a living holder, who renews it with a heartbeat (`lease-heartbeat.ts`), is a
  fault. The clock has a value per anchor: `NotBefore`, `LatestStart`,
  `Deadline`.
- The scheduler's tick takes its time before it runs the watchdog, so
  `ClaimDueScheduled` compares with any earlier time.
- Adapter states are grouped: `PAUSED` and `RESUMING` behave like `RUNNING`,
  `ACCEPTED` and `SCHEDULED` like `QUEUED`, `BUSINESS_FAILED` and
  `PARTIALLY_COMPLETED` like `SUCCEEDED`, in every function used.
- The Adapter is external and is modelled from the code's use of it: one
  execution per task id, answers that describe the execution when the call
  arrives, cancels that may be acknowledged and carried out later. The deadline of
  a call does not withdraw its request: a StartOperation whose caller gave it up
  (`GivenUp`, in `Crash`, `CallFails` and `CallAbandoned`) is lost or arrives at any
  later moment (`LateStart`). `exec.late` remembers that one is under way (`sent`) and
  that the execution there was begun by one, or for a caller that had lost its
  claim (`began`). An execution that exists is found by every later request, so one
  such request is enough.
- Faults (crashes, lost leases, failed calls, foreign identities, retryable
  refusals of a stop) share the budget `MaxFaults`.

### Admission

`key` is the idempotency record, `admission` the state of the intent, `task` the
row as far as admission looks at it, `call` the kind of call (scheduled, or an
immediate one of an operation that always needs a Task or may end inline),
`proc` the callers and the recovery scans,
`late` a StartOperation that is still under way after its caller gave up, and
`answers` everything callers were told. `crowded` says that a page of other open
admissions comes first: `listAdmissionsForRecovery` reads 128 in the order of their
last update, and one that cannot be settled throws (`engine.ts:422`) without being
updated, so it keeps its place. `OthersMove` fills and empties the page at will. A call without a key is a caller whose
key nobody shares and that is not retried. Left out: the audit rows of
`recordReconciliationResult` (no control), `SYNCHRONOUS` operations (no durable
state besides the key), the polling of a duplicate call (it waits until
`ClaimKey` or `AnswerFromKey` is enabled, or gives up). `ScheduledStart` and
`ScheduledBind` stand for the scheduler of `TaskLifecycle`. The Adapter does not
remember a refusal (`packages/provider-adapter-kit/src/vehicle-grpc-server.ts`
turns errors into refusals); `Refuses` says for which kinds of call it may refuse.
Where it may, `RejectedNeverCreatesTask` fails (*Disagreements*), and the
properties about executions speak of the other kinds.

### CommandLane

`commands` is the sequence of `task_command` rows: type, payload, state, claim,
attempts. `request`, `answer` and `inbox` are the rows of an input request and of
the answer a client gave; `snapshots` is every snapshot the Adapter ever
produced, so a reader may apply an old one late. `proc` is what each handler read
before its call. `ClaimDueCommands` has the whole choice of the code: a CANCEL before all
others, one active command of a Task at a time, expired claims, and the
supersession of normal commands by a stop. `Owner` maps handlers to worker ids:
with a shared one, two handlers of a process that outlived a rejected
`Promise.all` hold claims in the same name. A backoff only delays, so a command
in `RETRY_WAIT` may always be due.

### AtLeastOnce, OpsDelivery, Retention

`AtLeastOnce` has items that are queued, told, settled or dropped. In `OpsDelivery`
every `await` of `DurableProviderOpsPublisher.tick` is a step: claim, batch export,
single export, mark, fail; a lease may run out between any two. Items may be queued
from the start: a Task that is published when it is over (`InitEnded`) has its event
in the outbox at once.

In `Retention` a timestamp is a distance from the clock of the database that stops growing where no
comparison can tell it apart, so time is unbounded; `Skew` is what a replica's host
adds. `transitionTask` stamps `observation.occurredAt`, which a tick reads before it
handles other Tasks and calls the Adapter: `Handle(c, d)` is what is left of the TTL by
a clock off by `c` that was read `d` ago, for any `d`. A Task enters in three ways:
scheduled (`initializeTaskRetention`, from `accepted_at` by the clock of a host),
accepted and running, or accepted and already over (`publishAccepted`, both by the clock
of the database). `initializeTaskRetention` has a branch for a terminal Task too; its
only caller, `publishScheduled`, always passes `SCHEDULED`. `Scoped` is the shared storage, where
neither cleaner deletes anything. Both refinements map only the rows and what the receiver accepted
(`exported`, `sink`): the publishers are hidden.

### BusinessEvents

A worker per replica and source with three threads: the connection, the handler
of a rejected fact, the finalizer. Its lease is none, held or over, and what it read under the
lease (`from`, `barrier`, `poison`) stays with it. `log` has the events of each
generation, `records` why each was closed and which sources it names. A fact is its
source sequence; whether its Task is known, known too late or not yet is a field of
its row.

### PmsReconcile

`job` are the rows of `job_lease`, `exec` the executions with what they loaded. The
counters `desired_revision` and `observed_revision` are compared for equality only, so
an execution keeps how far the row has moved since it read it (`lag`, `raced`)
instead of a number. `process` is what PM2 was last told, `published` whether this
stay in DISCOVERING has its publications.

### OneShot, FireDispatch

`row` is the execution, `fence` the reason code of the record `fire_dispatch`:
`none`, `unarmed` (claimed, intent not yet durable), `armed` (the device may be
called, whose outcome is unknown), or decided: `accepted`, `rejected`, `aborted`,
`cancelled`. `proc[r].copy` is the row a handler of replica `r` read. `putExecution`
is unconditional, so the copy overwrites whatever the row is by then;
`completeCommandAck` swaps the fence only from the reason it expects. A statement
may fail before or after its commit, the device may fire although its answer is
lost, a process may die anywhere and starts with `#recover`. `kind` says what each
request asks (accept, decline, cancel); a request may reach both replicas, which are
its retries. Identity checks, what the caller sent, revisions, reason codes and
events are left out. `tracks` is the arbiter of each replica.

The mapping to `OneShot` is `Phase`: *withheld* once the fence says so and nothing
was fired, *fired* once the device has fired; any state in which both are true or
the device has fired twice is `broken`, which `OneShot` does not have.

### Mutants

Operators named for a bug (`MapAdapterSnapshotUnmapped`, `CompleteKeyUnowned`,
...) stand before the definition they distort. No specification uses them; put
in place of the original, each must break the property it is paired with in
`PROJECT.json`, which shows the property can fail.

## Properties

The type invariants are `TypeOK`. Beyond them:

| Module | Property | What it says |
|---|---|---|
| `TaskLifecycle` | `NoSecondSideEffect` | a row that may be started (again) has no execution, unless a start whose caller had given up or lost the claim began it late |
| | `OutcomeIsProven` | every outcome that reports an end is backed by that end, and a window missed without one leaves no execution but such a late one |
| | `StopHasCommand` | a stopping Task has one active command, for its own reason |
| | `CompletionClosesCommand` | a natural end leaves nothing to dispatch |
| | `RowNeverRegresses` | terminal rows are final, a start or binding is not forgotten, the revision does not go back |
| | `RevisionIsReal` | neither the row nor an answer in flight is ahead of the execution |
| | `StartResolves`, `DeadlineStopResolves` | liveness of starts and of mandatory stops |
| `Admission` | `SameAnswer` | one answer per key, and a Task that is answered can be read |
| | `ExecutionIsTracked` | a running execution has its Task or an open admission, and the admission of a published Task is settled |
| | `PublishedIsFinal` | a published admission stays published |
| | `ExecutionGetsTask` | liveness: recovery finishes what callers left behind, once its page has room for good |
| `CommandLane` | `ResponseFollowsCommand` | inbox row, command, request and Adapter agree on every answer |
| | `AnsweredOnce` | never two different answers to one request |
| | `CallsAreSerial` | one call at a time while no lease is lost |
| | `StopIsLast` | after a stop was carried out, and not rejected for naming another execution, no claim holder sends anything else |
| | `StopIsDelivered`, `CommandsResolve` | liveness of stops and of the other commands |
| `OpsDelivery` | `TellsAtLeastOnce` | refinement of `AtLeastOnce` |
| | `RecordsSettle` | liveness of every captured record |
| `Retention` | `EventsReachSink` | refinement of `AtLeastOnce`, nothing dropped |
| | `PurgedIsAnnounced` | nothing is purged before its events were told |
| | `RecoveryIsAlone` | no other holder and no purge within a recovery's lease |
| | `RetentionWithinSkew` | a result is readable for its TTL from the reading of the clock that stamped it, up to the difference of clocks |
| | `EndedIsPurged` | liveness of the purge, on storage that is not shared |
| `BusinessEvents` | `PublishedInOrder` | facts of a source are published once, in order |
| | `NothingLostInSilence` | a durable fact that is skipped is named by a continuity record first |
| `PmsReconcile` | `ActiveWasPublished` | ACTIVE only on publications of this stay in DISCOVERING |
| | `SettledByOwner` | a job is settled by the holder of its lease |
| | `StopEnds` | liveness of a stop |
| `FireDispatch` | `FiresOnceOrNever` | refinement of `OneShot` |
| | `WithheldSettles` | what was withheld ends the execution for good |

## Runs

`tlc -config <run>.cfg <module>`. A run has `CHECK_DEADLOCK FALSE` where the system
may stop: an ended Task, a drained queue, a deployment that is stopped with all
commands spent.

| Run | Module | Question | Bounds |
|---|---|---|---|
| `MCLifecycle` | `MCTaskLifecycle` | all safety properties of a scheduled, immediate or late Task | 2 workers, 2 revisions, 2 stop attempts, 1 user cancel, 1 fault |
| `MCLive` | `MCTaskLifecycle` | liveness of starts and deadline stops | 1 worker, 2 revisions, 1 cancel, 1 fault |
| `MCAdmission` | `MCAdmission` | callers of one key and a scan, with all kinds of call and a refusal; liveness | 2 callers, 1 scan, 2 faults |
| `MCInput` | `MCCommandLane` | answers to two requests and two handlers of one owner id | 2 requests, 2 answers, 2 attempts, 2 revisions, 1 cancel, 1 fault |
| `MCLane` | `MCCommandLane` | pauses, interventions, legacy answers and stops | 2 workers, 1 control, 1 cancel, deadline, 1 fault |
| `MCLaneLive` | `MCCommandLane` | liveness of stops and commands | 1 handler, 1 control, 1 cancel, deadline, 1 fault |
| `MCRetention` | `MCRetention` | outbox, expiry, purge and recovery with clocks that differ | 2 replicas (1 publisher), skew 1, TTL 2, grace 1, 1 fault |
| `MCOpsDelivery` | `MCOpsDelivery` | the queue implements `AtLeastOnce` and settles | 2 publishers, 2 records, 2 attempts, 3 faults |
| `MCBusinessEvents` | `MCBusinessEvents` | order and continuity of a durable source | 2 replicas, 2 facts, 1 fault |
| `MCPms` | `MCPmsReconcile` | overlapping reconciles, start and stop by an operator | 2 executions, 2 jobs, 1 command, 1 fault |
| `MCFire` | `MCFireDispatch` | fires once or never, and a withheld shot ends the execution | 2 replicas, an accept and a decline or cancel, 2 faults |
| `DocDeadlineStopIsMandatory` | `MCTaskLifecycle` | expects a violation (*Disagreements*) | as in its cfg |

Why the bounds are enough: every race of this code is between two parties over
one row (two workers, or a worker and a client, a sweep, or the Adapter), and
the sweeps, the client and the Adapter are not bounded by the number of workers.
Two revisions are a first snapshot and an end, so a snapshot can be older, equal or
newer than the stored one. Two attempts are a first and a last one. The clock has
the instants before, at and after each anchor that the code's comparisons tell
apart. In `Admission` two faults let a crash meet a lost answer or a lost
lease; in `OpsDelivery` three faults let a lost lease meet a failed export and a
failed statement of the other publisher. Two facts are one that is lost and a later
one that must not pass it. `Retention` explores one
publisher because marking needs no claim: a second publisher only tells again
what `AtLeastOnce` allows to be told again. In `FireDispatch` a request
may be at both replicas at once, so one accept is enough for two confirmations that race;
two faults are a lost arming and the failure of its abort, or a crash of each replica.

## Disagreements

`DocDeadlineStopIsMandatory` checks one sentence of a document, and TLC finds
that the code does not keep it; `PROJECT.json` quotes the sentence and the line
of the code. The definitions below were refuted by TLC in the same way and have
no run. They record disagreements for the owners of code and documents to settle;
in some (`FirstStopReasonKept`, `WindowMissedMeansCancelled`) another document
describes what the code does. The rejected stop of `MismatchKeepsStop` is also the
exception in `StopIsLast`: without it TLC refutes the property with two cancels and
two faults. The Adapter carries the stop out, its answer names another execution and
the command is rejected; a later cancel that the Adapter refuses clears the stop of the
row, and commands are sent again to an execution that was stopped. `tasks.ts` is
`packages/persistence-postgres/src/tasks.ts`, `engine.ts` is in `packages/task-engine/src`.

| Definition | The code | The sentence |
|---|---|---|
| **`TaskDocuments`** | | |
| `StartedMeansRan` | `snapshotHasStarted` counts `WAITING_INPUT` (`engine.ts:1659`) | `ADR-005:19` |
| `WindowMissedMeansCancelled` | `stopTransition` publishes `start_window_missed` for every terminal snapshot (`engine.ts:1632`) | `ADR-005:36` "Only a later `CANCELLED` Snapshot" |
| `MismatchKeepsStop` | an answer with another identity rejects the stop for good while the row stays `STOPPING` (`command-dispatcher.ts:146`) | `ADR-007:39` |
| `ScheduledIsNotFailed` | `failRecoveryNotFound` fails a row that went back to `SCHEDULED` while a recovery was asking (`tasks.ts:1782`) | `ADR-005:21` |
| `FoundBinds` | `applySnapshot` never sets `external_execution_id` (`tasks.ts:4724`): a Task cancelled while starting stays unbound and the deadline scan, which asks for a bound row, skips it | `ADR-005:30` |
| `RowShowsItsRevision` | `rejectUserCancel` writes the state of a snapshot that is not newer (`tasks.ts:4555`) | `state-reason-mapping.md:4` |
| `ConfirmationIsRecorded` | a confirmation whose revision a reader stored first is dropped (`tasks.ts:2468`) | `ADR-005:44` |
| `ConfirmationBacksOff` | `deferStartConfirmation` clears the owner, and a row without owner is claimed whatever its `claim_until` (`tasks.ts:2423`) | `ADR-005:46` |
| `DeadlineResultPublished` | a reader computes the result from the stop reason it read before its call (`engine.ts:909`) | `mcp-runtime.md:42` |
| `WindowMissedIsSafe` (of `TaskLifecycle`) | NOT_FOUND at the end of the window completes the Task although the lost StartOperation may still act (`tasks.ts:2195`) | `state-reason-mapping.md:40` |
| `FirstStopReasonKept` | the deadline promotes a user cancel (`tasks.ts:2583`), as ADR-004 describes | `mcp-runtime.md:44` |
| **`Admission`** | | |
| `UncertainNeverRedispatched` | the admission is read before the reconcile call and used after it (`engine.ts:422`) | `tests/integration/smpp-reconciliation-postgres.test.ts:61` |
| `RejectedNeverCreatesTask` | `recordRejection` is unconditional while another caller was accepted (`tasks.ts:772`) | `mcp-runtime.md:15` |
| `EveryAdmissionIsRecovered` | admissions that throw on every scan keep their place in its page, and 128 of them keep all others out (`tasks.ts:1030`, `engine.ts:422`) | `runtime-rc3-hardening-plan.md:51` "Recovery starvation"; `migrations.md:88`, of the scan of Tasks: "persistent failures cannot starve newly recoverable Tasks" |
| **`LaneDocuments`** | | |
| `WaitingHasOpenRequest` | a snapshot that still waits for input is applied after the last answer was acknowledged (`tasks.ts:4823`) | the comment of `acknowledgeUpdateAndCompleteInputAnswers` |
| `UnknownChangeIsFenced` | a new intervention is admitted although an exhausted one may have acted (`tasks.ts:3946`) | `UGV_TASK_BUSINESS_INTERACTIONS.md` |
| **`EventDocuments`** | | |
| `LossIsRotated` | the loss is marked in one transaction and rotated in another, and `acquireSourceLease` refuses the source in between | the Business Events profile, line 28 |
| `GenerationIsContinuous` | a rejected fact rotates at once, while earlier facts still wait for their Tasks | requirements, section 32 |
| `PoisonTerminates` | the row of a rejected fact of a best effort source stays open and blocks later ones | requirements, section 23.1 |
| `BlockIsSticky` | any rotation of the Provider unblocks a blocked source | requirements, sections 23.2 and 23.3 |
| **`PmsDocuments`** | | |
| `StoppedHasNoProcess` | `reconcileStopped` moves `FAILED` and `REQUESTED` to `STOPPED` without stopping the process | the operations guide: "converges desired versus observed state" |
| `OnlyAllowedMoves` | `recordFailure` of the database preparation writes `FAILED` over a revision it did not read | the same, "revision-fenced" |
| `StopConverges` | that `FAILED` lands on `STOPPED` and nobody has a job any more | the same |
| `StartConverges` | the reconciler returns when a start finds the row in `DRAINING` | the same |
| **`Retention`** | | |
| `RetentionIsExact` | one host stamps the end, another expires by its own clock, the reader asks the database (`ttl-cleaner.ts:61`) | `ADR-008` "Runtime host clock skew cannot extend or shorten retention" |
| `EndIsReadable` | the end is stamped with a time read before the Adapter calls, so a short TTL may be over when the result is stored (`tasks.ts:4941`) | `ADR-008:50` "Terminal results remain available for the promised retention window" |
| **`FireDocuments`** | | |
| `TerminalIsFinal` | `putExecution` overwrites an end from an older copy (`postgres-store.ts:127`) | `docs/adapter/quick-start.md:21` "never regress a terminal execution" |
| `CancelledUntilArmed` | a cancel that meets the prepared row is refused although the fence is not armed (`runtime.ts:341`) | the NPC tank interface protocol profile, line 743 |
| `EndedFreesTracks` | the replica that started the execution keeps its tracks when another one ends it (`runtime.ts:1140`) | `npc-tank-provider-adapter.test.ts:644` |

## Fairness

Faults are finitely many in every module (`MaxFaults`), and nothing is assumed of
clients, operators, faults or the progress of an execution.

- `TaskLifecycle`: every loop of `apps/runtime/src/runtime.ts` is its own
  `setInterval`, skipped only while its own tick is running, so none starves
  another. A worker of the model multiplexes the loops, hence strong fairness of
  each claim. Handlers that run end, calls are answered (they have deadlines),
  timers run out, sweeps are repeated: weak fairness. Of the Adapter only
  `AdapterStops` is fair: it carries out a stop it acknowledged.
- `Admission`: only the recovery scan and the answers to it are fair. The scan
  reaches an admission only when its page has room, and nothing in the code
  makes room: `ExecutionGetsTask` has `<>[]~crowded` as its hypothesis.
- `CommandLane`: handlers, sweeps and abandoned leases weakly; the claim of each
  command strongly, because the query ranks by `next_attempt_at`, so a command that
  is due again and again comes before those that are retried.
- `OpsDelivery`: ticks and leases weakly, the claim of each record by somebody
  strongly, because due records are taken oldest first.
- `Retention`: time, leases and the ticks of every replica weakly.
- `BusinessEvents` states the fairness its refuted liveness is checked under: weak for
  leases, deadlines and handlers, strong for acquiring a source and for the finalizer,
  whose retry timer fires between two ends of a connection.
- `PmsReconcile`: executions, abandoned leases and the scheduler weakly; the claim of a
  job strongly, because jobs are taken in the order they became available.
- `FireDispatch`: the steps of a handler weakly; the poll strongly, because the
  interval timer queues it behind the other mutations (`#serializeMutation`).

## Proofs

`tlapm <module>` checks the proofs of each `...Proofs` module, for every number of
processes, Tasks' anchors, keys, records and facts, all bounds and every mode. Each
safety property of a passing run, whether invariant, action property or refinement, is
stated by a theorem: the run shows it on a small instance, the theorem for all
constants.

The argument has the same form everywhere. An inductive invariant `Inv` is a
conjunction of named parts; one lemma per action, or per group of actions that change
the same rows, shows that it is kept; the property is a consequence of `Inv`, or of
`Inv` and one step. The properties are seldom inductive themselves, because
a handler acts on what it read before its call: what is missing is nearly
always that what it holds in its hands is still true.

### TaskLifecycleProofs

- `TypeCorrect`: `Spec => []TypeOK`. `TypeOK` is inductive; there is one lemma per
  group of actions, resting on type lemmas of the row operators.
- `RowIsMonotone`: `Spec => RowNeverRegresses`. Each operator that can change a row
  `Keeps` it (`OperatorsKeep`, `AnswersKeep`, `WindowKeeps`); `Keeps` is transitive,
  which covers the late start that accepts and stops in one step.
- `RevisionsAreReal`: `Spec => []RevisionIsReal`. By itself it is not inductive: an
  answer must also come from a real execution. The strengthening `AnswersAreTrue` says
  that an answer in flight carries a revision and a state the execution has reached,
  and that a terminal state in it is the execution's own; executions only grow
  (`Grows`), so answers stay true.
- `StartsHappenOnce`, `OutcomesAreProven`: `Spec => []NoSecondSideEffect` and
  `Spec => []OutcomeIsProven`. A row goes back to `SCHEDULED` on an answer that was
  decided earlier, so the property alone does not survive the step. `StartIsFirst`
  adds what the holder of the claim knows: as long as its start is unsent, or was
  answered by a retryable refusal or by NOT_FOUND, the row is unbound and there is no
  execution but one begun late, because any other could only come from another
  holder. `Proven(row, exec)` is the part about outcomes that has to survive steps of the
  Adapter: a window missed without an execution has left no claim through which one
  could still start in time. `SameExecution` and `GivenUpType` say what a request that
  is given up leaves alone. That no late execution appears cannot be proved: TLC refutes
  `WindowMissedIsSafe` (see *Disagreements*).
- `StopsAreCommanded`: `Spec => []StopHasCommand`. A transition whose event key is
  already in the outbox is dropped, so a stop could in principle get its command and
  lose its row. `Recorded` says which keys can be there: none of a later sequence, and
  one of the current sequence only when the command already has that key's reason;
  `Carried` ties the command's reason to the row in both directions, also after an
  identity conflict.
- `CompletionsCloseCommands`: `Spec => []CompletionClosesCommand`. `Settled` says that
  a Task with an active command is `STOPPING`, so none of the handlers of a start or of
  a confirmation, which do not look at commands, can end it; the paths that can end it
  close the command in the same transaction.

### AdmissionProofs

`AdmissionTypeCorrect`, `CallersAgree` (`SameAnswer`), `ExecutionsAreTracked`
(`ExecutionIsTracked`) and `PublicationIsFinal` (`PublishedIsFinal`) rest on one
invariant. `Tracked`: nothing runs, or may still come to run, without an admission, a
final admission says the truth, and that of a published Task is final. `Answered`: nobody is told anything before the key
holds it. `Admitted(p)`: what a caller or a scan learned before its last call, that
a kind of call may be refused or that an execution has ended, is still true however long
it waited, and nobody returns without an outcome. Without the last part a scan could
publish or reject on an answer that has become false.

### CommandLaneProofs

`LaneTypeCorrect`, `ResponsesAgree` (`ResponseFollowsCommand`), `OneAnswerIsTaken`
(`AnsweredOnce`), `CallsDoNotOverlap` (`CallsAreSerial`) and `StopsAreLast`
(`StopIsLast`). The parts of the invariant:

- `Handlers`: a handler's command exists and was attempted, the snapshot it holds is one
  the Adapter produced, and a reply in its hands is what the Adapter did.
- `Lane`: one command of the Task is claimed; what the Adapter carried out had been
  claimed; there is one active stop; a stop is exhausted only when the Task has ended; and as
  long as a stop is `Effective` the row has its stop, and once it was claimed no normal
  command is.
- `Given`: a command made from the inbox delivers the answer the inbox keeps, and that
  row is no longer pending.
- `Responses`: inbox row, command, request and answer agree, per key.
- `Serial`: until the first fault one handler is busy and holds its claim, unless the
  Task has ended and every command is finished.

`StopsAreLast` needs the whole of `Lane`: that no normal command is sent after a stop
follows neither from the order of the claims alone (a rejected stop no longer holds the
others back) nor from the row alone (`rejectUserCancel` clears its stop).

### OpsDeliveryProofs, RetentionProofs

- `OpsTypeCorrect`, `QueueTellsAtLeastOnce` (`TellsAtLeastOnce`, the refinement of
  `AtLeastOnce`). `BatchInHand`: a publisher settles only what it has in hand and saw
  accepted, also when its lease was taken over in between. `AttemptsArePaid` states the
  other half: every attempt after the first was paid for by a fault, unless it is still
  under way, so the attempts of a record never outrun the faults.
- `RetentionTypeCorrect`, `PurgeIsAnnounced` (`PurgedIsAnnounced`),
  `RecoveryHoldsAlone` (`RecoveryIsAlone`), `ResultsAreKept` (`RetentionWithinSkew`) and
  `OutboxTellsAtLeastOnce` (`EventsReachSink`). `Announced` relates every stage of the
  Task to the rows of its outbox, `Accepted` every mark to what the sink has, `Alone` a
  scan in its lease period to the row of the lease, and `Stamped` says that the stored
  expiry is the TTL from a moment at which some clock, of a host or of the database, was
  read before the end was stored.

Both refinements are shown step by step: an initial state maps to an initial state of
`AtLeastOnce`, and each action to one of its steps or to a stutter.

### BusinessEventsProofs

`EventsTypeCorrect`, `EventsInOrder` (`PublishedInOrder`) and `NothingIsLostInSilence`
(`NothingLostInSilence`). Order is kept by `Barrier` (of one source, everything
published lies before everything open) and `Logged` (an event in the log has a row that
says so); `Ordered` is the property over all generations. `Kept` says that a durable
fact which arrived is still open, was published, or belongs to a source that a rotation
named, and `Accounted` that this rotation came before any later event of the source.

### PmsReconcileProofs

`PmsTypeCorrect`, `ActiveIsPublished` (`ActiveWasPublished`) and
`LeaseIsSettledByOwner` (`SettledByOwner`). `Placed(e)` says where an execution can be
with the status it loaded, and that one that is about to activate, with nobody having
moved the row since it published, left a publication. It does not
depend on who holds the lease: an execution that lost it is stopped by the revision it
read.

### FireDispatchProofs

`FireTypeCorrect`, `FireCustody` and `FenceImplementsOneShot` (`FiresOnceOrNever`, the
refinement of `OneShot`). `Custody`: one dispatcher at a time is between preparing and
completing, and the step it is in tells how far the fence and the weapon can be.
`FenceMatchesShots`: nothing was fired unless the fence is armed or accepted.
`FenceIsTold`: every certain answer, in a handler, in an ack or with a client, is the
one the fence holds. Each step then maps to a step of `OneShot` or to a stutter, and
`broken` is unreachable.

### Assumptions, and what stays with TLC

The theorems use the named assumptions on the constants only (`ConstantsAssumption`,
`AdmissionAssumption`, `LaneAssumption`, `OpsAssumption`, `RetentionAssumption`,
`EventsAssumption`, `PmsAssumption`, `FireAssumption`), which TLC evaluates in every run
of the module. The bounds on revisions, attempts and faults are arbitrary numbers
in them, not small ones.

The proofs corrected the models. The cases of `Phase` in `FireDispatch` overlapped,
so its value was not determined where two applied; they are disjoint now.
`JobIds # {}` and `Sources # {}` were used and not assumed. `StopIsLast` held in the
small instance only and has its exception since (*Disagreements*).

Only checked by TLC, because liveness under fairness is out of the prover's reach:
`StartResolves`, `DeadlineStopResolves`, `ExecutionGetsTask`, `StopIsDelivered`,
`CommandsResolve`, `RecordsSettle`, `EndedIsPurged`, `StopEnds` and `WithheldSettles`;
and the sentences under *Disagreements*, which TLC refutes.

## Not modelled

`PROJECT.json` lists every component with its status. Left out for good: wire
formats, HTTP, the protocol front end, the operation registry, telemetry emission, the
console, database tooling, device drivers and examples, which keep no state of their own
that other parts depend on. Left out within the components that are modelled:

- `failRecoveryNotFound` leaves commands unfinished in the code and in the model;
  task observations (the event history of a Task) have no control.
- `SYNCHRONOUS` operations and the wait loop of a duplicate call.
- Business Events: new source stream ids, changes of the roster, facts that cannot be
  decoded at all, relations, projections and client subscriptions.
- Retention: tombstones, resource bindings, batch limits, the idempotency records a
  purge removes.
- PMS: the `direct_container` branch, orphans, audit rows, process projection,
  configuration restarts, releases, the checkpoint table, the limit of steps per pass,
  the order and size of the batch that a scheduler tick enqueues (there is one deployment).
- Adapters: navigation, reconnaissance, gimbal and tracking of the NPC tank, the UGV
  Adapter, the mutation journal, snapshots and event watches of the store.
- Lock order: a transaction is one step, so deadlocks of row locks are not seen.

## Plan

1. An abstract Task (admitted, running, stopping, ended with a proved outcome) and
   `TaskLifecycle` shown to implement it.
2. The UGV Adapter: missions and interventions over the mutation journal of the store.
3. `ConfigPublication`: draft, publish, activate with optimistic versions, and
   registration sessions with their generations.
4. `LockOrder`: the order of row locks against `runtime-database-lock-order.md`.
