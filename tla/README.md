# Models and proofs for the NOC backend

This directory holds TLA+ models of the backend: the Postgres work queues of the
polling pipeline, the engines that poll, the events in Neo4j with the locks around
them, the prune of recovered events, and the services that operators and agents use
(sessions, tickets, roles, links, metrics, proposals, backups, the MQTT bridge). TLC
checks the models on small instances, and TLAPS proves the central invariants for every
value of the constants. Source paths below are relative to `backend/` unless
they start with `docs/`, `openspec/` or a file of the repository's root.

To check a model or a proof:

    tlc -config queue.cfg MCPollTaskQueue
    tlapm PollPipeline_proofs.tla

## 1. The system

| Part | State it keeps | Operations | Meets the others through |
|---|---|---|---|
| Poll task queue and leased worker (`polling/pg_queue.py`, `polling/snmp_worker.py`) | rows of `poll_task_queue`: status, lease, next eligible time | enqueue, claim, defer, complete, retry, expire leases, one worker run | publishes to the result queue; shares rows with other workers |
| Polling scheduler and its script (`polling/scheduler.py`, `scripts/polling_enqueue_cycle.py`) | rows of `poll_cycles` and `poll_task_queue` | turn records into the tasks of a cycle | task queue; the executor reads what the columns kept |
| Result queue and writer (`polling/writer_pool.py`) | rows of `poll_result_queue`; samples and receipts in Timescale; events in Neo4j | claim, check receipts, persist, update events, complete, retry | three stores without a common transaction |
| Event writers (`polling/event_writer.py`, `services/snmp_service.py`, `engines/snmp_worker.py`) | `Event` nodes | upsert of a breach (lookup, then create or set), recovery | Neo4j, and one advisory lock per (CI, metric, type) triplet |
| Advisory lock (`services/event_lock.py`) | Postgres transaction-scoped locks on `hashtext(key)` | acquire; released by the end of the transaction | taken in passes by each collector |
| SNMP/ICMP engine (`engines/snmp_worker.py`, `engines/correlation.py`) | debounce counters in memory, samples, latest values, root and child events | one poll cycle: poll, roots, insert, publish, roots again, recover, dependents | event writers, metric repository, topology |
| CLI engine (`engines/cli_worker.py`) | stamps of polls, samples, counts of misses in memory | one cycle over what is due | metric rows in Neo4j and Timescale |
| Event operations (`services/event_service.py`, `routers/events.py`) | `Event` nodes | acknowledge, comment, close, two prunes, the paged stream, the availability report | change and read events without any lock |
| Prune lock (`models/prune_lock.py`, `services/event_service.py`) | one row with an owner and an expiry | acquire (insert, select, update or delete), release | the scheduled job and the streams of operators |
| MQTT bridge (`services/mqtt/`, `services/mqtt_bridge_service.py`, `services/mqtt_mapping_service.py`) | mappings, receipts, samples, events; a status row | dispatch a message, approve and revoke mappings, heartbeat | broker, three stores, the API's readers of the status |
| Physical links, polling bridge, utilization (`services/physical_link_service.py`, `polling/physical_link_bridge.py`) | `PhysicalLink` nodes | create, set status, delete; a pass of the bridge; utilization of a window | samples of Timescale, CIs that are deleted |
| Relations and graph (`services/link_service.py`, `repositories/topology_repo.py`) | relations between CIs | single links, simulation, mass creation, change and deletion, list and graph | CIs that are edited and deleted |
| Metrics and dictionaries (`services/metric_service.py`, `services/dictionary_service.py`, `services/metric_operation_guard.py`) | definitions, `HAS_METRIC` links, dictionaries, a registry of locks in memory | save and delete a metric, reconcile CIs, edit dictionaries | CIs that change; what engines poll |
| Sessions and login limit (`services/auth_service.py`, `middleware/rate_limit.py`) | refresh tokens, activity, failed attempts | login, refresh, logout, request, deactivate | browser tabs and workers that act at once |
| Roles, users and seeding (`routers/roles.py`, `routers/users.py`, `seed_roles.py`, `seed_admin.py`) | roles in Neo4j, users in both stores | the start of the backend, CRUD, migration | only the start copies from roles to users |
| CMDB proposals (`services/cmdb_proposal_service.py`, `scripts/cmdb_proposal_ttl_sweep.py`) | proposals with versions, CIs, audit rows | submit, approve, revoke, sweep | two stores; reviewers and the sweep |
| AI guard rails (`services/ai_guard_service.py`, `routers/ai.py`) | cooldowns in memory, a log of operations | check and record an operation | chat requests that await between the two |
| Tickets, service catalogue, user lock (`services/ticket_folio_service.py`, `services/user_lock.py`) | tickets and services in Neo4j, users in Postgres | create, update, archive; change services and users | two stores, one advisory lock |
| Backups (`services/backup_service.py`, `routers/backup.py`) | configuration, dumps on disk, history | scheduled and manual backup, clean-up, configure | scheduler thread and event loop |
| Backpressure, retry decisions, safety limits, metadata cache (`polling/`) | counters of a run, cached metadata | decide, enter, leave | called by no loop of the program |
| Retention, AI chat, analytics worker, escalation, simulator, ITSM imports, frontend | see section 7 | | |

What is hard in this code, and what makes each part correct:

* **Leases.** A worker or a writer that is late or dead leaves rows leased. No
  row may be in two hands, a dead owner's row must come back, and a settled row
  must not be taken back by a late statement of its former owner (no statement
  that settles a row looks at `lease_owner`).
* **Commits in the middle.** A claim becomes durable with the *first* commit of
  the run, whatever statement makes it; a run has many commits, in up to three
  stores. What was published, stored or updated must agree with the row's
  status wherever the process dies. The same shape comes back in approvals of
  proposals, in the bridge's receipts, in the script that feeds the queue, in the
  CLI engine's stamps and in the start of the backend.
* **Lookup and set.** An event upsert first looks and then sets. The advisory
  lock keeps other collectors away, but not recoveries, operators and the
  pruner, and the collectors disagree on which events they recognise. Most
  Neo4j handlers (links, tickets, metrics, mappings) check in one transaction and
  write in another.
* **Lock order.** A collector takes many locks in one transaction, in several
  passes. No two may wait for each other.
* **A lock made of rows.** The prune lock is a row with an expiry that is read
  and written by separate statements under READ COMMITTED.
* **Paging over a moving set.** The stream prunes pages by a cursor, while its
  own closings and everybody else change what the next page contains.
* **Order of passes.** Which failing CI is a root depends on events of earlier
  cycles, on the other failures of this one and on roots that recover in it.
* **Memory beside a store.** Debounce counters, cooldowns, activity caches and the
  registry of metric locks live in a process that restarts or has siblings.
* **Reports over what changes.** Availability, utilization, the subscriber's status
  and the CI graph are read by several statements, or from rows written long ago.

## 2. Modules

| Module | Models | Used by |
|---|---|---|
| `WorkQueue` | what a leased queue promises, without leases, commits and clocks (abstract) | instantiated by `PollTaskQueue` and `ResultWriter`, which implement it |
| `PollTaskQueue` | task queue and leased workers | `MCPollTaskQueue`; extended by `PollPipeline` |
| `ResultWriter` | result queue and writers, three stores | `MCResultWriter`, `ResultWriter_proofs`; instantiated by `PollPipeline` |
| `PollPipeline` | both queues composed | `MCPollPipeline`, `PollPipeline_proofs` (which also has the proofs about `PollTaskQueue`) |
| `EventBatch` | the rows of one `batch_update_events` call | instantiated by `MCPollCycle` |
| `EventLifecycle` | the events of one triplet and all who change them | `MCEventLifecycle`, `EventLifecycle_proofs` |
| `EventLocks` | the order in which collectors take advisory locks | `MCEventLocks`, `EventLocks_proofs` |
| `PollCycle` | a cycle of the SNMP/ICMP engine over a topology | `MCPollCycle`, `PollCycle_proofs` |
| `PruneLock` | the prune lock row and the runs behind it | `Pruning` |
| `BatchPruner` | the paged stream | instantiated by `Pruning` |
| `Pruning` | the lock and the stream, side by side | `MCPruneLock`, `Pruning_proofs` |
| `Sessions`, `LoginLimit` | refresh tokens; failed logins | instantiated by `Services` |
| `CmdbProposal` | proposals, review, sweep | instantiated by `Services` |
| `AiGuard` | cooldowns and limits of an agent | instantiated by `Services` |
| `MqttBridge`, `MqttStatus` | messages, receipts, mappings; the subscriber's status row | instantiated by `Services` |
| `Services` | the six modules above: each step is a step of one of them | `MCServices`, `Services_proofs` |
| `Backup` | dumps, history, schedule | instantiated by `Operations` |
| `TicketDesk` | tickets, services, users | instantiated by `Operations` |
| `Permissions` | roles, users and the start | instantiated by `Operations` |
| `PhysicalLink` | links, polling bridge, utilization | instantiated by `Operations` |
| `CiGraph` | relations between CIs | instantiated by `Operations` |
| `MetricAssignment` | metrics, reconciliation, dictionaries | instantiated by `Operations` |
| `PollFeed` | the script that feeds the poll queue | instantiated by `Operations` |
| `CliPoll` | the CLI engine | instantiated by `Operations` |
| `Operations` | the eight modules above: each step is a step of one of them | `MCOperations`, `Operations_proofs` |
| `Availability` | the availability report over events | `MCEventLifecycle` |

The `MC` modules give constants their values. Some of them put several modules, or one
module with several values of its constants, side by side in one run: these share no
variable, a variable `part` is fixed by the initial state, and only the actions of that
part are taken. The state space of such a run is the union of those of its parts.
`Services`, `Operations` and `Pruning` are such compositions that are proved about as
well. The first two have no `part`: their specifications interleave everything, and their
properties are those of all their modules at once. `MCServices` and `MCOperations`
restrict them to behaviours of one module, or of one corner of it with smaller bounds,
which loses nothing: the modules share no variable, so what holds of each alone holds of
all (`EachRuns` and `EachPartRuns` are that argument). `MCEventLifecycle` has the
availability report beside the events of a triplet.

A definition whose comment begins with "Faulty variant of" is not part of any
specification: it is what the named definition would be with a plausible bug, and it is
there to show, by putting it in that definition's place, that a property notices the
bug. `PROJECT.json` pairs each property with one, and gives for each definition the
lines of the source it stands for.

### WorkQueue

`queued`, `held`, `served`, `lost`, `finished`: an item is enqueued, claimed by one worker
at a time, served by it, and finished by it when it has been served; whatever else happens
it goes back (`PutBack`). A worker that dies may lose what it held half done (`Lose`): such
an item goes back too, and may then be finished without having been served. The task queue
loses nothing (`lost` is empty in its mapping); the result queue loses what `stranded` says. `TasksAreWork` maps tasks to it: held are the rows of a worker's
batch, served are the tasks with a final result, finished the completed ones.
`RowsAreWork` does the same with the rows of the result queue: served are those with a
receipt and, unless they tell of no event, with their update, lost the `stranded` ones,
finished the written ones.
A claim shows in `held` before it is committed, a commit and the expiry of a dead
worker's lease are steps that the abstraction does not see.

### PollTaskQueue

`status`, `leaseLeft`, `eligibleIn` are the columns `status`, `lease_expires_at`
and `next_eligible_at` of each task's row, the last two as time left; `results`
is what `enqueue_results` inserted. `pc`, `proto`, `batch`, `current` and
`outcome` are the locals of `run_leased_snmp_worker_once`; `open` says whose claim
is not committed (and is therefore row-locked), `claimLeft` when the claim's
lease ends, `age` how long ago the run fixed `observed_at`, from which retry and
defer times are computed.

`ClaimTasks` is `claim_tasks` (any `BatchSize` claimable rows: priorities and the
order of the claim are left out). The first of `EnqueueResult` or `DeferTask` in
a run commits the claim (`CommittedStatus`, `CommittedLease`). `CompleteTask` and
`RetryTask` update by task id alone, as `_transition_task` does. `Crash` is a
dead process or a statement that raises; an uncommitted claim is rolled back and
a committed one stays leased. `ExpireTaskLeases` is the maintenance statement,
which nothing in the repository schedules and which is therefore allowed, never
required. `DeferTask` is the branch of a denied `try_enter`; the scheduled job
gives the worker no limiter and then nothing is denied, but the handler accepts
one. `lease_owner` and `execute_attempts` are not modelled: no statement the
workers execute reads them.

### ResultWriter

`rstatus`, `errorCode`, `lapsed` are columns of the rows of `poll_result_queue`;
`receipts` the rows with a `metric_sample_receipts` entry (and their samples:
one transaction writes both); `updated` the rows whose events Neo4j has.
`fresh`, `pending` and `dups` are the three lists that `run_writer_once` sorts
the batch into, `flagged` the rows it read with code `neo4j_pending`. Each query,
each statement and each commit of the run is an action, and `Crash` may fall
between any two. `SettleRow` is the part that `complete_result` and
`retry_result` share. `stranded` is a history: the rows that a dying
run leaves with a receipt, without their event update and without the code
`neo4j_pending` (`HalfDone`), which is the only way in which an update is lost
(`OnlyDeathsLoseUpdates`). The writer's failures (`PersistFails`,
`UpdateEventsFails`) are bounded by `MaxFailures`; a conflict on the primary key
of the samples is not a bounded failure but follows from the state
(`SamplesConflict`). `UpdateEvents` treats `batch_update_events` as one step that
may stop half way: its inside is `EventLifecycle`.

### PollPipeline

It extends `PollTaskQueue` with an instance `R` of `ResultWriter`, whose rows are pairs of a
task and an outcome. `WorkerStep` and `R!RunStep` interleave; when a worker's
`enqueue_results` runs (`Deliver`), the row of that task and outcome appears in the result
queue with the status `ProducerStatus` gives it. `EnvelopeStatus` is what
`result_to_queue_row` passes; `DefaultStatus` what `enqueue_results` would insert
by itself.

### EventLifecycle

One triplet, correlation type ROOT. `status` and `ack` are properties of each
`Event` node. A breach writer goes `AcquireLock`, `MatchEvent`, one of the four writes,
`ReleaseLock`. Its `kind`
says which upsert it runs:

| kind | recognises | sets |
|---|---|---|
| `batch_collection` | OPEN, ACK | OPEN, unacknowledged |
| `batch_threshold` | OPEN, ACK | status kept |
| `engine_collection` (also availability) | OPEN, ACK, RECOVERED | OPEN, unacknowledged |
| `engine_latency` (also jitter, packet loss) | OPEN, ACK, RECOVERED | status kept |
| `legacy` | OPEN, ACK, RECOVERED | OPEN, acknowledgement kept |

`type` is the event type of the triplet, which stays; `Kinds` is the set of upserts in
use for it. Not every property holds of every type: which upserts it bears is the
condition each property starts with. Everybody else takes no lock and
looks before he writes: a recovery (`MatchRecovery`, `SetRecovered`), the two transactions
of `close_event` (`CheckClose`, `CloseEvent`) and both prunes (`MatchPrune`,
`ClosePruned`); `recovering`, `closing` and `pruning` are the events that such a statement
or request has matched and not written yet. A single Cypher statement is split as well,
since it locks a node when it writes it and not when it matches it. `revived` is a history:
the events that a late recovery has set RECOVERED although they had been closed.
`AckableStatuses`, also of the type, restricts `AckEvent`: the code has no condition on the
status, and what the runs and theorems say holds for operators who acknowledge the events
the list shows them.

### EventLocks

`todo` and `taken` are the triplets of a run whose locks it has still to take and
has; `roots` the engine's ROOT candidates. `Before` is the order in which a run
takes them: passes first, sorted keys within a pass. `Pass` gives the passes of
each collector: collection failures and then the rest in `batch_update_events`,
one pass for each family, roots before dependents, in `poll_snmp`, one triplet in
the legacy service. `BulkInsert` is the commit of `bulk_insert_metrics`, which
falls between the engine's first ROOT pass and the rest and releases the locks
that were taken. `MixedRuns = FALSE` keeps engine cycles and result writers apart.

### PruneLock

`rowOwner` and `rowLeft` are the single row, `pc` and `tries` each caller's place
in the loop of `acquire_prune_lock` and after it. Every statement is an action of
its own. `AbandonStream` is the stream that acquires the row in the endpoint and
whose generator, where the `finally` is, never starts. `StartManual` is
`POST /events/prune`, which takes no lock.

`exposed` is a history: the runs that go on without the protection of the row, because
their row outlived its TTL (`Tick`; nothing extends it), was cleaned up between their
SELECT and their UPDATE (`ExtendRow`; the code does not look at how many rows that UPDATE
changed), or was released by another stream of their user (`FinishPruning`; the row has a
user's name, not a run's). `OnePruner` and `GrantHasRow` say that there is no other way.

### BatchPruner

`eligible` is the set of RECOVERED, unacknowledged events; `lastDate` and `lastId`
the cursor; `chunk`, `full`, `seen`, `total`, `processed`, `failures` the locals of
`event_batch_pruner`. `AfterCursor` is the cursor predicate with Cypher's
comparison with NULL, `Precedes` the ORDER BY, `CloseOne` the check and the SET
of `_close_one`. `Leave` and `Recover` are everybody else. `kept` remembers what
was eligible from the count on, `overlooked` the rows that the cursor has passed over
because no later page reaches them (`Reaches`, at the start and in `MoveCursor`). A stream
starts without a cursor or with `Header`, the text of the Last-Event-ID that the router
hands over, which compares with no `created_at`.

### EventBatch

One CI with an SNMP metric and an ICMP availability metric with its sidecars. `Rows` are
the envelopes of one poll with those derived from it, which keep its idempotency key;
`Start` sorts a claimed batch into rows (`Idempotent`, `LatestState` and the partition into
failures and the rest), and `ShowLatest`, `OpenFailures`, `OpenBreaches`,
`RecoverFailures`, `RecoverBreaches` are the five statements, each a commit of its own.
After `Fail` the batch is applied again. `BreachIsNewest`, `NumberEndsFailure`,
`ShownIsNewest`: however results are ordered in the batch and whatever part of an
earlier attempt was committed, what is left is what the newest observation says.

### PollCycle

`pc` goes through `poll_snmp`: poll, the root events of the first pass (2a), the Timescale
insert, the latest values, the other roots (2b), the recoveries, a rebuilt cache of
candidates, and the dependents (3). `fails` is `_consecutive_failures`, `streak` how often
the CI really failed in a row; `root` the newest ROOT event of a metric with its
`affected_ci_ids`, `children` the degraded PROPAGATED events. Queries for parents, the
insert and whole cycles may fail, the process may restart, operators acknowledge and
close. `DownIsDebounced` (needs consecutive failures through failing inserts and
restarts), `ShowsStored`, `ChildrenFollow`, `OpensQuietly` (no root beside an upstream
one), `AttachesToActive`, `DownIsSeen` (liveness).

### Sessions and LoginLimit

`Sessions` has the rows of `refresh_tokens` of one user with their state (live, rotated,
logout), anchor of activity and recoveries; a refresh is verify, insert, rotate in
separate commits of several workers, `cache` is each worker's throttle of activity
writes. `ExchangesBounded` (a token is exchanged once per worker at most and recovered
`MaxRecoveries` times), `ActivityKept` (two throttles may hide at most two windows),
`DeadIsFinal` (a session that ended does not come back once its last access token is
out, `OutOfReach`; see section 6 for why not before).
`LoginLimit` has the row of one identity, with the transaction boundaries of the check,
the count, the lost race for a missing row, and the reset. `GuessesBounded`, `LockKeepsItsEnd`.

### CmdbProposal

`state` is each proposal's status, version and reviewer, `live` the CIs, `req` the review
a worker has in progress, `sweep` the TTL script. `CommitCI` puts one CI of the manifest
at a time, `Approve` then compares the version. A failure on the way ends the request and
leaves what was committed. The sweep audits the rows of one page of the listing; `missed`
is a history of those it revoked and the page did not show. `ApprovedIsApplied`,
`DecisionStands`, `SweptAreAudited`.

### AiGuard

`Operate` is a route that checks, acts and records without an await; what is `Awaited` is
checked before and recorded after one: a chat (`ChatGuard`, `ChatDone`) and the close of a
CRITICAL event, which notifies a human (`CloseGuard`, `CloseCritical`), with other requests,
failures (`RequestFails`) and restarts in between. Cooldowns (`cool`) are forgotten at a
restart, the log is not. `CooldownKept` is about what is not awaited, `RepeatsBounded` bounds
the repetitions of the rest by the requests under way, `StampedeBounded` the updates of a
window. `ClosesAreDiagnosed` is stated and does not hold (section 6).

### MqttBridge and MqttStatus

`at` is a subscriber's place in `_dispatch` and `process_reading`: parse, raw nodes, and
then for each metric the mapping, the receipt, the sample, the event. Statements fail, the
message is redelivered unless it was acknowledged. A sample has the primary key of the
table, the mapped metric and the time: an insert that meets another reading of that time
counts as written (`Taken`), and a message that carries no time of its own (more than one
of `StampsOf`) gets another one each time it is parsed. Operators draft, update, approve (with
`request` between the reading and the conditional statement) and revoke mappings.
`OneApproved`, `ReceiptsAreTrue` (a sample of the reading's time is stored, of this reading
or of another), `AckedIsRaw`, `RevokedIsFinal`, `CompleteIsFinal`.
`MqttStatus` has the row that the subscriber writes at connection, heartbeat and farewell
(each may be refused) and the reader that calls a stale row disconnected.
`LiveIsReported`, `ReportIsRecent`.

### Backup

`run` is each of the two callers (daily job, request) between its steps: dump, history,
event, clean-up; a failure writes its own row. `UpdateConfig` also moves the job, and
fails after saving when the time is no time. `SomeDumpRemains`, `SuccessIsRestorable`.

### TicketDesk

`req` is a worker's request between its statements: the service's check, the user's
lock and row, the sequence and the node; for updates the reading, the SET and the later
statement of the relation (`relation` beside the property `service`). An update sets what
the request names, also a `closed_reason` alone, on the ticket as it is by then; `overtaken`
is a history of the tickets to which another worker has written between the reading and the
SET of an update. `TypesAgree`,
`LocksAreInUse`, `ClosedIsArchived`, `CreatedOnActive`, `MovesForward`; the second half of
`ClosedIsArchived` (the reason) and `MovesForward` are about tickets not overtaken.

### Permissions

`boot` is the step of the start: admin user, its node, each role, the backfill of users
and of nodes; any step may fail (and is passed over) or be the last before a crash.
Requests are one step each. `RoleIsFloor`, `PermissionsWereGiven`, `SystemRolesGrow`.

### PhysicalLink

`request` is a creation between its checks and its statement, `pass` the bridge's pass
with the outages it read at its beginning and the row in hand; devices count octets and
reset. `LinksJoinCIs`, `StampsAreBacked`, `NeverOverstated` (the utilization against what
really passed), `ReadersAgree` (bridge and endpoint derive the same from the same
samples), `OutagesAreOperators`.

### CiGraph

`req` is a request between its queries: the check of the hub rule before a tunnel is
written, the simulation and the readings of a mass operation, the two queries of the
graph. CIs are edited and deleted in between, and a request remembers whether that
happened (`stale`). `TunnelsHaveHubs`, `SimulationHolds`, `GraphIsWhole`, `MassSteps`.

### MetricAssignment

`entry`, `ref` and `holds` are the guard: the registry of lock objects, the object a
thread has hold of, and whether it locked it. `job` is what an actor is doing; creating and
updating a metric reconcile CIs in batches, deleting one takes its links away in batches and
then the node if no link is left. Handlers of the event loop change CIs and dictionaries in
between. `OneOperationPerMetric`, `RegistryIsClean`, `CriteriaAreMet`, `DictionariesAreWhole`.

### PollFeed, CliPoll, Availability

`PollFeed`: records become tasks, telemetry records a synthetic ping; the row of the cycle
and the tasks are two commits; scripts overlap, die and are repeated; `Execute` reads what
the columns kept. `WantedIsPolled`, `OneVersionPerCycle`, `PolledOnce`. `CliPoll`: one
process, whose stamps are written at once and whose samples at the end of the cycle. A
unit of time is the ten seconds between two cycles. A question takes some units, up to
`MaxTakes`: one to a device that does not answer waits for `cli_timeout` (30 s) by SSH and
then by Telnet, six units. A cycle asks what was due when it began, so that `AskedInTime`
allows an interval and three times what all other pairs take: one that passes a pair over because
less seconds than its interval had passed, the one before, whose duration is not known
when it begins, and the one in which its turn comes last. A cycle that fails passes over
all its pairs and begins the wait again. `AlertsAreEarned`, `StampsAreBacked`.
`Availability`: the events of one CI
by either collector's upsert, and a report made of two statements with changes between
them, compared with the outages as they were: `NeverOverstated`, `ExactWhenQuiet`,
`TimesAreTrue`.

## 3. Runs

A run that passes covers its whole state space.

| Run | What is in it | What it shows |
|---|---|---|
| `queue` | 2 workers, 2 tasks, batches of 2, 1 death; lease 2, delays 1 | `OneWorkerPerTask`, `BatchIsLeased`: while a batch fits in its lease nobody else touches its rows. `TasksAreWork`: to the outside the table is a `WorkQueue`, so that a completed task stays so and was completed by the worker that held it, behind a final result. `EveryTaskIsAttended`: after a death, a failure or a deferral the row gets a worker again |
| `writer` | 2 writers, 3 rows (samples and events, events only, silent), batches of 2, 1 death at any point, 1 store failure | `OneWriterPerRow`, `FreshStaysFresh`, `WrittenHasReceipt`, `OnlyDeathsLoseUpdates` (a row is written without its event update only if a run died with it between the stores), `RowsAreWork` (the same of the result queue, with both stores served or the update lost to a death before a row is written), `EveryRowIsWritten` |
| `writer_lost_update` | 2 rows, 1 death | violates `NoUpdateLost` (section 6) |
| `pipeline` | 1 worker, 1 writer, 1 ICMP task, deaths and failures of both; the status that `enqueue_results` gives by itself, so that the writer has something to do | `CompletedIsQueued`: the two queues agree on what was published, and a completed task has its final row. Whether a row is written afterwards is the question of the next run only |
| `pipeline_status` | the same with the status the code passes | violates `CompletedIsWritten` |
| `events` | 2 writers, 3 events, a triplet of type `threshold` (`batch_threshold`) or `collection` (`engine_collection` and `legacy`, recovered events acknowledged too); beside it `reports` and `history` (Availability over the result writer's events and over the engine's) | threshold: `OneActiveEvent`; collection: `OneLifecycle`; `MeasuresHold` |
| `locks` | 2 result writers, 1 engine, 1 legacy session, 4 triplets, up to 3 in one run | `NoDeadlock`, `EveryRunEnds` |
| `prune` | parts `lock` (the job, 2 streams of one operator, a manual prune, 1 death, TTL 2) and `pages` (5 events with one date twice and one low legacy id, pages of 2, fresh or resumed, 1 page failure, 1 closing that fails, any event may leave, two may recover) | `OnePruner`, `GrantHasRow`; `NothingSkipped`; `PruningGoesOn`: an abandoned row is taken over, a stream ends |
| `cycle` | parts `cycle` (CI b behind CI a over an unconfirmed link, both ICMP, debounce 2, 2 changes, 1 failing statement, 1 restart), `mixed` (a over SNMP, b over ICMP with jitter, 1 change, 1 closing) and `batch` (2 polls of six outcomes, batches of 2, 2 failing statements) | `CountsAreSound`, `ShownIsStored`, `FollowsTopology`, `MCDownIsSeen`, `BatchLeavesNewest` |
| `cycle_recovery` | a over SNMP | violates `MCAnsweringIsRecovered` |
| `services` | parts `race` and `idle` (Sessions), `login`, `cmdb`, `ai` and `ops` (AiGuard), `bridge` and `times` (MqttBridge), `status` | `AccountsHold`, `ProposalsHold`, `GuardsHold`, `MqttHolds`, `SettledIsFinal` |
| `operations` | parts `backup`, `desk`, `desks`, `roles`, `links`, `traffic`, `graph`, `graphs`, `metrics`, `dictionaries`, `feed`, `cli` | `BackupsHold`, `DeskHolds`, `LinksHold`, `AssignmentsHold`, `StepsHold` |

**Bounds of the polling and event runs.** Two workers or writers are what a race over a
row needs; a third only adds another loser of the same race. A batch of two lets one row
be settled while its neighbour is still in hand, which is what tells the first commit from
the others. One death per run of TLC is enough for every orphaned lease, since a
second death finds the same kinds of rows; the writer also has one failure of a
store, at any point. A lease of 2 lets time pass under a live batch and run out
under a dead one. Three events let a writer create a second and a third event of
a triplet. The report over the result writer's events has three ticks, all windows, one act of
an operator and two events, the one over the engine's two ticks and one event.
Three triplets of one run, of four, give passes with one and with two
locks, and the ranks alternate between the families so that the order of the
passes is not the order of the keys. Pages of two over five events, of which any
subset may be eligible at the start, give full, short and empty pages, and a page
boundary between any two neighbours; ids and dates are in different orders, two rows have
one date and a legacy id comes before the dated ones. Two CIs are
the smallest topology with a root and a dependent, and a debounce of 2 tells a count of
failures from a count of cycles. `MaxCrashes`, `MaxFailures` and the like bound
counters that only exist for that, and the theorems hold for any value of them.

**Bounds of `services`** (2.3 million states). `race` has two workers that draw four tokens
in two ticks, with a grace of one tick and one recovery, so that an exchange, a recovery and
a logout meet; `idle` has one worker, three tokens, eight ticks and one death with access
tokens of 3 ticks, idle time 4, refresh time 6 and throttle 2, so that a session expires by
idleness and by age and a request with an access token may come after that. `login` goes
past three failures and a lock of two ticks and the pruning after it. `cmdb` has two workers and two proposals that share
a CI, failing commits, deaths and reviewers with a stale version, and a page of one row, so
that a sweep of both shows one. `ai` has two chats that overlap on one target, a restart and
a failing record; `ops` two closes at once of a critical event beside acknowledgements and
closes of another. `bridge` has one subscriber, a good and a malformed message, two mappings
of one source, two operators, two failures and five changes of mappings; `times` one mapping
and two messages, one of which has the time of the other or a later one. `status` has a stale time of 9 ticks (a heartbeat every 3), dispatches of up to
5, delays of up to 4, two refused writes and two deaths.

**Bounds of `operations`** (0.8 million states). `backup`: three ticks, retentions 1 and 2, a
time that is none, one fault, one change of the configuration. `desk`: one worker, one user,
two services, two tickets, one change from outside and one failure, no null; `desks`: two workers
whose updates, with a reason, an empty one or none, overtake each other on one ticket. `roles`: an installation
from before the seeding with one old user, two system roles and one other, an upgrade that
adds a permission, two requests (which give nothing, one permission or all) and one failing or last step of a start. `links`: one link,
two CIs, operators' writes during a pass; the ends are alike, so the second is sampled only
when the first is. `traffic`: one CI with up to three octets, resets and all windows in three
ticks. `metrics`: two threads, two metrics, one CI of two kinds and three requests; threads
and metrics are alike, so one thread keeps to one metric. `dictionaries`: one thread, one
dictionary, five requests and a failure. `graph`: one request at a time by a user of one of
two locations, over two relations; `graphs`: two requests at once, with a limit of two links.
`feed`: two scripts, three runs, five files (pings that are explicit, synthetic or both, under
both fields for the address, a protocol without ping, an own availability metric). `cli`: one
metric of two CIs with an interval of two units in a day of five, ten units and one
failure, where an answer takes no time and to get none takes two units; from one of the CIs there may
also be none at once, or one that cannot be parsed, and the engine dies with something in hand: two tell a question longer than the
pause between cycles from one that fits in it, and the theorem is for any number.

The instances leave these cases out on purpose, since the code does not hold
there (section 6): batches that outlive their lease, result writers that overlap
with engine cycles, hash collisions, two subscribers of one broker (`CompleteIsFinal`), a
retention of 0 days, two dumps in one second. Deaths between the stores, runs longer than the
TTL, rows that the cursor cannot reach, closes across an await, expired drafts beyond the
sweep's page, readings of one time and overtaken updates are all in the instances: there a
history variable tells the cases in which the code gives up what the property says, and the
property is that there are no others.

**Deadlock.** TLC looks for states without a successor only in `locks`.
In the others the system may rightly stop: every row is settled, every event is closed,
the stream has ended, the bounds on time and requests are reached.

## 4. Fairness

* `PollTaskQueue`: weak fairness of each worker's own steps and of the clock. The
  job is scheduled every 10 s (`engines/snmp_worker.py:2376`) and a poll has a
  timeout. Enqueues, deaths and maintenance are not required.
* `ResultWriter`: weak fairness of each writer's steps and of leases running out.
  The writer pass is run under a supervisor
  (`docs/polling-pipeline-tuning.md:87`). Failures are bounded, so "once the stores
  stop failing" is part of `EveryRowIsWritten`; maintenance is not required, as
  nothing schedules it.
* `EventLocks`: strong fairness of `Take` for each session, because Postgres hands
  a lock to its waiters in the order of arrival; weak fairness of `Finish`. Starts
  and failures are not required.
* `PruneLock`: weak fairness of the clock and of the scheduled job's own steps only.
  Streams need not come, nor end.
* `BatchPruner`: weak fairness of the generator, which the event loop resumes.
* `PollCycle`: weak fairness of a cycle under way, and strong fairness of a poll in which
  every metric is due: the scheduler runs cycle after cycle, and intervals coincide again
  and again. Devices need not change, and failures and restarts are bounded.

The other modules state safety only.

## 5. Proofs

TLAPS proves, for any number of tasks, workers, rows, writers, sessions (over finitely
many triplets), events, runs, CIs, subscribers, messages, mappings, threads and proposals
and for all other constants that meet the modules' ASSUMEs (those of `Services`:
durations, limits and windows are numbers, the throttle is not 0, and workers, targets and
chats are finitely many):

| Theorem | Under | Argument |
|---|---|---|
| `TypeCorrect`, `WriterTypeCorrect`, `EventsTypeCorrect`, `LocksTypeCorrect`, `PruneTypeCorrect` | | type invariant; for the queue with `ControlShape` (a run that publishes or settles has a task and an outcome in hand) |
| `CompletedTasksHaveResults` | | with `SettlesPublished`: an outcome is settled only after it is in the result table. No assumption on leases: it holds under races |
| `OpenClaimsAreDisjoint` | | a claim takes no row that another open claim has |
| `LeaseExclusion`, `BatchesAreLeased` | `LeaseCoversBatch` | with `ClaimBacked`: a batch whose claim is committed has leased rows, each with at least what is left of the claim, and something is left; an open one has claimable rows that nobody else can take |
| `CompletedRowsAreFinal` | `LeaseCoversBatch` | from the same invariant: a row in a batch is not completed |
| `TasksAreAWorkQueue` | `LeaseCoversBatch` | the refinement, action by action: from `LeaseInv` a claim takes what nobody holds, since a claimable row whose lease ran out is in no live batch; from `SettlesPublished` a task is completed after its final result; every other statement is a step back or a stutter |
| `PipelineServesTasks`, `PipelineFeedsWriters` | | the composition implements each of its two queues: a worker's step is a step of the task queue that publishes at most one row into the other, and a worker is one of the producers that `ResultWriter` allows at any time. What is proved of either queue therefore holds of the pipeline |
| `PublishedRowsAreThere` | | `RowsInv` (types of the rows, and no writer has in hand what is not in the table, so that settling creates no row) and `RowsMatch` (the rows of the result queue are exactly the published pairs), with `CompletedTasksHaveResults` |
| `WrittenRowsHaveReceipts` | | `ReceiptInv`: rows that are settled as written are duplicates, or new and persisted, or pending |
| `OneRunPerRow`, `ReceiptCheckHolds`, `WrittenRowsAreFinal` | `LeaseCoversBatch` | `Shape` (where a run's lists lie at each control point), `AllBacked` (a run's rows are leased with a live lease, or locked) and `FreshInv` (a receipt of a row that is in a run's hands came from that run) |
| `UpdatesAreLostByDeathsOnly` | `LeaseCoversBatch` | `UpdateInv`: a row with a receipt that is neither updated nor stranded is in the hands of a run that will update or flag it, or carries `neo4j_pending`; `StrandedInv`: what a death strands is nobody else's and stays without its update |
| `RowsAreAWorkQueue` | `LeaseCoversBatch` | the refinement: with `HeldIsQueued` and the invariants above a run serves only rows that it holds, and writes a row only when receipt and update are there or it is stranded; a death maps to `Lose` |
| `BatchWritersKeepOneActive` | in the property: only batch upserts, only active events acknowledged | `LockInv` (who is between lookup and release has the lock) and `SoleInv(S)`: at most one event has a status in S, and a writer that found none still finds none |
| `ReusingWritersKeepOneLifecycle` | in the property: no batch upsert, no closed event acknowledged, revived events apart | the same lemma with RECOVERED in S; of the events that are not revived none comes back from CLOSED |
| `SeparateRunsNeverDeadlock` | `MixedRuns = FALSE`, no hash collision | a legacy session has no lock while it waits (`SingleInv`), an engine is not beside another run with several triplets (`Exclusive`), the locks of the rest are taken in order (`Sorted`); in a circle of waiting sessions look at the wanted lock that comes last |
| `OneEngineNeverDeadlocks` | one collector of any kind, the others legacy | with `SingleInv` alone; hash collisions allowed |
| `GrantsKeepTheirRow`, `RunsExcludeEachOther` | | the properties are inductive with the types: a step that takes the row from a granted run (its expiry, an UPDATE that finds nothing, a release under its name) exposes it |
| `NoEligibleEventIsSkipped` | | `PagesInv`: what was kept, not closed and not overlooked is in the page under way or behind the cursor (`Cursor`); what was attempted is behind it and what was closed of it is counted (`Attempted`); the total counts all that is kept (`Counted`). `Precedes` is a strict total order, and a page is its first elements after the cursor (`PageIsFirst`, `ShortPageIsAll`) |
| `DownOnlyAfterDebounce` | `Topology` (the constants' types; only active events are acknowledged) | `Debounced`: the counter in memory is never above the real streak, in a cycle that restarts or whose insert fails |
| `ShownOnlyIfStored` | the same | `InsertedFirst`: at the publication the samples of this cycle are in the store |
| `EventsFollowTopology` | the same | `Quiet`: between its choice and its writing a candidate has nothing active and nothing failing upstream; `Followed`: neither an open child nor the rebuilt cache hangs on a recovered root; `Numbers`: an event is told from its successor by its number |
| `AccountsAlwaysHold` | | `SessionInv`: the caches and the UPDATE's condition hide one throttle window each (`Recorded`); a live token has no child, and the children of a token and the workers about to hand one out are together within the bound (`Exchanged`). `LoginInv`: guesses since the last lock are in the row's count or in the hands of a worker past the check |
| `ProposalsAlwaysHold` | | `SweepInv`, over `ReviewInv`: what the sweep has revoked is being audited, was audited, or was not on its page (`Swept`) |
| `GuardsAlwaysHold` | | `GuardInv`: a recorded operation of this life has started its cooldown (`Cools`); once a window holds one that is awaited, only the requests that were let in before add to it (`Windowed`) |
| `MqttAlwaysHolds` | `HeartbeatsFit`: interval and longest dispatch fit in the stale time | `BridgeInv` and `MappingInv` (below); `Beating`: while the last write was accepted the row is no older than the last heartbeat, which neither a wait nor a dispatch puts off for longer than `HeartbeatsFit` allows |
| `SettledStaysFinal` | one subscriber | the action properties, each from the invariant of its service; for sessions: what is dead and out of reach is made usable again neither by a token (states only get worse, `OnlyWorse`) nor by an activity write (`ActivityRevivesNothing`) |
| `BridgeTypeCorrect` | | type invariant |
| `ReceiptsTellTheTruth`, `AcknowledgedIsStored` | | `BridgeInv`: what a subscriber at each control point knows of the stores (at the event its sample is stored, at the mark the receipt is there, at the acknowledgement the raw nodes are), and that other subscribers' steps leave it true, since samples and events are only added |
| `SourcesAreUnambiguous`, `RevocationsStand` | | `MappingInv` with `Approvals`: a request that was granted approves a mapping whose source has no other approved one |
| `CompleteReceiptsAreFinal` | one subscriber | `CompleteInv`: a subscriber that reopens or marks a receipt has seen that it is not complete |
| `BackupsAlwaysHold` | `DumpsApart`: no retention of 0 days, no two runs started in one second | `BackupInv`: a file is named after the start of its dump and written since (`Files`); a run that records, emits or cleans finds its file whole and cleans up before the shortest retention has passed (`FileOf`), so that what a clean-up deletes is never the last dump, nor one that the history still promises |
| `DeskAlwaysHolds` | | `StaleInv`: what an update was accepted for is still so when it is written, unless another one came between, which `overtaken` says (`Accepted`). `DeskInv`: a service that has a type keeps it (`CatalogueKeepsDesk`), an update past its check names a service of its ticket's type (`Fits`), and whose lock a worker has the worker is creating a ticket for (`Holding`). `GrantInv`: between starts the settled users have what their role gives (`Settled`, `Floor`), and the histories have all that roles and users hold (`Histories`) |
| `OperationsExcludeEachOther` | | `RegistryInv`: a thread holds its lock exactly while it works, and the registry's entry is the lock object of all its users; a free lock object always exists, as there are as many as threads (`SomeLockIsFree`) |
| `CriteriaAreMetAtRest` | | `LinkInv`: a link that is not as the criteria ask is awaited by a job that is going to reconcile the CI or has the definition in hand, or the CI is unsure (`CriteriaInv`); what a job that nobody disturbed has read is still so but for its own work (`Fresh`); a thread at work is alone with its metric (`Own`, from `RegistryInv`). `Settles` and `StepSettles` say what one actor's step has to show for that |
| `AssignmentsAlwaysHold` | | `AssignInv` (types; links go with their CI and their definition), the two above, `TasksAreWanted`, `MetricsAreAskedInTime`, and `DictInv` with `LoopJob`: what a dictionary has is what it was given, but for those it is being filled with |
| `LinksAlwaysHold` | | `CablesInv`: a stamped link has a sample in the window of its stamp (`RowKept`), what passed since a sample is at least what the counter says (`CountersInv`), and a pass has in hand only what no operator had taken down when it began, with newest samples that are in the store (`PassInv`). `GraphInv`: what a request has read is still so unless the graph changed since, which `stale` says (`HasRead`, `LinkHolds`) |
| `TasksAreWanted` | | `FeedInv`: a task has its cycle's version, the cycle of a run that writes tasks has its row, a script that returned left all its tasks in the queue, and a polled task was measured exactly if its name and protocol say so (`TaskHolds`) |
| `MetricsAreAskedInTime` | in `AskedInTime`: the interval and a cycle fit in a day | `CliInv`: the counts of misses are those in a row (`CountsAreRuns`), a stamp has its sample in hand or stored (`StampsHaveSamples`), and `TurnsCome`: a pair that is not due has either waited for no cycle since it was tried (`JustTried`), or the last one was too early for it (`TooEarly`), so that at most the time of the others more than the seconds it counts has passed, and these seconds do not start again at a day's end before the next cycle (`Remainder`). One that is due waits for no more pairs than are still due |
| `StepsAlwaysHold` | | the action properties, each from the invariant of its module; for tickets with `StaleInv` |
| `ApprovalsAreApplied`, `DecisionsStand` | | `ReviewInv`: a review's remaining CIs and those already committed are together the manifest, a fresh review has all of it to do, and a proposal is listed exactly when its node exists |

The conditions are not decoration: for nearly all of them TLC finds a
counterexample when they are dropped, and section 6 says which. `LeaseCoversBatch` is the
one the queues rest on: nothing enforces it, and the leases (`polling/snmp_worker.py:58`,
120 s, and `polling/writer_pool.py:359`, 60 s) are meant to be long enough for it.

The theorems about `Services` rest on `EachRuns`: a step of the composition is a step
of one service and leaves the variables of the others alone, so each service runs as its
own `Spec` says. Their invariants are therefore proved service by service, over that
service's `Next` only.

Those about `Operations` rest on `EachPartRuns` in the same way. Its ASSUME
(`SettingsAssumption`) asks that times and limits are numbers, that the seeded roles are
five at most (the repository seeds five) and the legacy of the graph is of the kinds its nodes have, that a day and the
threshold of an alert are not 0, that threads, workers, CIs, the ends of a link and the
metrics asked by CLI are finitely many, and that no name is used for two kinds of things.

Only model-checked:

* everything under fairness (`EveryTaskIsAttended`, `EveryRowIsWritten`,
  `EveryRunEnds`, `PruningGoesOn`, `MCDownIsSeen`): liveness and ENABLED are out of the prover's reach;
* `EventBatch` (`BatchLeavesNewest`): what is left after a batch is what a fold over its
  sequence of rows computes, which calls for induction over data;
* the availability report (`MeasuresHold`), whose times are sums over the events of a
  window: folds again.

No module declares a RECURSIVE operator.

## 6. Where the code and its documents disagree

Three disagreements are runs of their own:

1. `pipeline_status`. `result_to_queue_row` (`polling/snmp_executor.py:251`) puts the
   envelope's polling status in the queue's status column; `claim_results` looks for
   `ready` and `retry_wait`. No result of a leased worker is ever written.
2. `writer_lost_update`. A writer that dies between the Timescale commit
   (`polling/writer_pool.py:419`) and its first queue commit leaves a receipt and no
   `neo4j_pending`; the next run takes the row for a finished duplicate.
3. `cycle_recovery`. The statement that recovers SNMP collection failures
   (`engines/snmp_worker.py:1630`) has comment lines that begin with `#`, which Cypher
   refuses. The error is logged, and the failure of a CI that answers again stays open.

The others follow from the same models by changing a constant or by checking a property
that is stated and left out of the runs. They are listed with what the repository says;
the properties are checked and proved where they hold.

| What the code does | What the repository says |
|---|---|
| `retry_task` with a fixed 60 s after every failure, for ever (`polling/snmp_worker.py:101`) | `docs/polling-pipeline-tuning.md:95`: "Repeated SNMP/CLI/REST failures should enter cooldown or dead-letter with reason." |
| The latency, jitter and packet-loss upserts find a RECOVERED event and leave its status (`engines/snmp_worker.py:1058`, `RefreshEvent`): a breach leaves no active event | `openspec/specs/event-prune-recovery-lifecycle/spec.md:80`: "a subsequent failure reopens the existing ROOT Event rather than creating a new ROOT" |
| Recoveries of `batch_update_events` take no lock (`polling/event_writer.py:586`): an event may be RECOVERED between the lookup and the SET of a breach, whose upsert keeps the status | `polling/event_writer.py:365-368`: locks are acquired "BEFORE each UNWIND query that touches the Event collection" |
| A recovery or a prune that has matched an event sets it whatever became of it: a closed event comes back as RECOVERED (`revived`), a reopened or acknowledged one is closed | the same document of event-prune-recovery-lifecycle, and `event-lifecycle-analysis.md:187`: "manually acknowledged or commented RECOVERED events survive the prune" |
| The legacy service reopens with the old acknowledgement (`services/snmp_service.py:541`, `ReopenKeepingAck`) | `docs/itsm/event-flow.md:22`: "`OPEN`: evento nuevo, sin ownership activo." |
| `ack_event` has no condition on the status (`services/event_service.py:1196`): a RECOVERED or CLOSED event becomes active again, also beside a newer one; `AckableStatuses` keeps the runs to what the list shows | |
| Both prunes look at the status and `ack` alone (`services/event_service.py:1283`); `ack` is reset by a reopening, and comments protect no event | `event-lifecycle-analysis.md:185`: "`comments IS NULL OR size(comments) = 0` (no comments added)", and the statement in its lines 217-221 |
| The lock number is `hashtext(key)` (`services/event_lock.py:216`): with two keys of one number `NoDeadlock` fails between two result writers | `docs/research-hashtext-collisions.md:147`: "Hash collisions from `hashtext()` only cause false contention" |
| `bulk_insert_metrics` commits the cycle's session between the passes (`repositories/metric_repo.py:60`): the locks of the ROOT pass are gone | `engines/correlation.py:147-149`: the shared session is there "so the transaction-scoped ``pg_advisory_xact_lock`` acquired inside each helper survives Pass 2 → Pass 3" |
| `acquire_prune_lock` returns True without looking at what its UPDATE changed (`services/event_service.py:1407`) (`exposed`, in `ExtendRow`) | `services/event_service.py:1366`: "Returns True only if we successfully acquired the lock." |
| The owner is a user name: a second stream of the same operator is granted the lock (`services/event_service.py:1405`), and the first of them to end releases it for both (`exposed`, in `FinishPruning`) | `models/prune_lock.py:10-11`: "ensures only ONE prune operation can run at a time across ALL operators" |
| Nothing extends the 300 s of a stream (`routers/events.py:373`) (`exposed`, in `Tick`) | `routers/events.py:364-365`: "Distributed lock ensures only ONE prune operation can run at a time across ALL operators." |
| `POST /events/prune` takes no lock (`routers/events.py:314`) | `docs/event-prune-runbook.md:82`: "The auto-prune and the manual `/api/events/prune` share the `prune_lock` advisory lock." |
| A resumed stream hands the text of the header to the query (`routers/events.py:338`), where `created_at > $last_cursor` compares a date with a text: no row is selected (`overlooked`, in `Init`) and the stream ends having closed nothing | `routers/events.py:360`: "Last-Event-ID is parsed as the created_at timestamp cursor." |
| Legacy rows with ids below the last dated row's id are skipped by the cursor (`services/event_service.py:1653`; `overlooked`, in `MoveCursor`) | `openspec/specs/event-prune-recovery-lifecycle/spec.md:25`: "no eligible row is skipped or revisited across batches" |
| Of two rows with one date on the two sides of a page boundary the second is skipped (same line) | the same document, line 11: "It MUST process every eligible row exactly once across bounded batches" |
| The loop stops at the total counted at the beginning (`services/event_service.py:1642`): an event that recovers meanwhile uses up the place of an older one. `NothingSkipped` allows for it and says that this is all that can be missed | the same |
| `batch_update_events` does not recognise a RECOVERED event and creates a second one (`polling/event_writer.py:440`); the legacy service reopens the first: `OneActiveEvent` fails without its condition, with both in `Kinds` | `docs/mqtt-monitoring.md:73`: "Event writer calls use the existing advisory-lock path to avoid duplicate active events." |
| The engine takes availability and latency roots before dependent collection failures (`engines/snmp_worker.py:2193`), the result writer collection failures first: `NoDeadlock` fails with `MixedRuns` | `polling/event_writer.py:181-182`: "two overlapping batches contend in the same order and never trigger Postgres deadlock detection" |
| Derived ICMP envelopes keep their poll's idempotency key (`polling/writer_pool.py:419-430`), and rows of one key drop each other (`polling/event_writer.py:348`): `EveryMetricIsTold` of `EventBatch` fails | |
| When an upstream root recovers while two levels below it still fail, both get roots in the same last pass; the rule of `OpensQuietly` for one pass covers 2a and 2b | |
| A degraded child of a root that an operator CLOSED is recovered by no ICMP path; `ChildrenFollow` is about roots that recover | |
| The sweep lists one page of the proposals created last among the revoked ones, and audits what is on it (`scripts/cmdb_proposal_ttl_sweep.py:140`): with enough revocations beside it, a swept proposal gets no audit row (`missed`) | line 106 of the same file: "emit one audit row per swept proposal" |
| Approvals commit CIs before they compare the version (`services/cmdb_proposal_service.py:1003`): `RevokedDraftHasNoCI` of `CmdbProposal` fails | `openspec/specs/cmdb-ai-proposals/spec.md:112`: "NO `:CI` node with the proposed `id` MUST exist" |
| The cooldown of `propose_ci` never blocks | `docs/ai/cmdb-proposals.md:143`: "at most 1 `propose_ci` submission per 120 seconds per agent" |
| The hour of the close guard is `now` without its seconds (`services/ai_guard_service.py:209`), and the count is of one target: `ClosesAreDiagnosed` of `AiGuard` fails | `docs/AI_AGENT_GUIDE.md:104`: ">3 closes in 1 hour on CIs without running diagnostic first" |
| The close of a CRITICAL event and a chat wait between the check and the record (`routers/events.py:241`, `routers/ai.py:421`): all that are under way together pass one check. `RepeatsBounded` states what holds, `CooldownKept` is about the other operations | `docs/AI_AGENT_GUIDE.md:33`: "15 min cooldown" |
| The lock of a login begins with the fourth failure; `GuessesBounded` states what holds | `middleware/rate_limit.py:5-6`: "After 3 consecutive failed attempts, the identity is locked for 15 minutes." |
| The activity UPDATE of a request looks neither at a token's state nor at its idleness (`services/auth_service.py:199`): a session that has expired as idle is alive again after a request whose access token still runs, if that was issued long enough after the refresh token's last recorded activity. With the defaults (`services/session_policy.py:61-67`: access and idle time 15 min each, throttle 60 s) the window is open; `DeadIsFinal` holds once the last access token is out, or where access time and two throttles are within the idle time (`OutOfReach`) | |
| With several workers a valid token may be exchanged once by each (`ExchangesBounded`), and a rotated one is still recovered in its grace window after a logout, which looks at tokens that are not revoked only | `routers/auth.py:263`: "single-use rotation" |
| `update_draft` reads the status and its SET has no condition on it (`repositories/mqtt_mapping_repo.py:588`): a mapping that is approved in between gets a new target | line 580 of the same file: "Only DRAFT mappings can be updated" |
| A failure in `process_reading` is swallowed and the message acknowledged (`services/mqtt_bridge_service.py:429`): no redelivery finishes it | `docs/mqtt-monitoring.md:72`: "Partial failures retry only the missing step" |
| A reading whose insert meets another reading of the same metric and time counts as written, and its value is lost (`services/mqtt_bridge_service.py:458-461`); `ReceiptsAreTrue` says that a sample of that time is stored | the comment there: "Duplicate Timescale sample in the same key range should be treated as idempotent" |
| A message without a time gets a new one each time it is parsed (`generic_json.py:99`, `bliiot_s475e.py:95-96`): redelivered, it is stored and raised twice | |
| Every start gives users the permissions of their role again (`seed_roles.py:214`) | `seed_roles.py:182-184`: "Per-user revocations are NOT overridden (the role is the floor, not the ceiling)" |
| The in-use check of `delete_role` counts `:User` nodes of Neo4j (`routers/roles.py:376`), so that a role of Postgres users is deleted | `routers/roles.py:392`: "Cannot delete role assigned to users" |
| An outage that an operator declares during a pass is overwritten by it (`polling/physical_link_bridge.py:147`); `OutagesAreOperators` is about those declared before | `repositories/physical_link_repo.py:346`: "the bridge never overwrites an operator outage" |
| The bridge derives UP, UNKNOWN and PLANNED only | `services/physical_link_polling_state.py:16-17`: "``DOWN`` when *every* endpoint's most-recent sample is older than ``stale_after_seconds``" |
| The job registered in `main.py:1227-1257` calls `run_once` without its required arguments and fails each time; it is modelled as its tests call it | |
| An edited layer leaves tunnels without a hub; `TunnelsHaveHubs` excepts them (`lost`) | `openspec/specs/vpn-tunnel-relations/spec.md:52`: "at least one endpoint MUST be type `vpn_hub`" |
| The graph never carries the medium (`getattr` of a relationship gives None), and a mass update drops it from the links it rewrites | `repositories/topology_repo.py:910`: "include r.medium in the link payload when set" |
| Two saves of metrics may each drop the other's link of one CI until the next save (`services/metric_service.py:144`); `CriteriaAreMet` excepts the CIs of such a race (`unsure`) | |
| The workbook import of CIs passes nodes without an address, so that ICMP sidecars are removed | `services/metric_service.py:535-538`: "Preserve direct links so CI updates do not drop them" |
| `deactivate_user` takes no user lock: a ticket may go to a user who was just deactivated | `services/user_lock.py:4`: "Cross-store serialization for ticket assignment vs. user deactivation." |
| `{"status": null}` passes the validation of an update and leaves a ticket that cannot be read; with several workers two updates can open a closed ticket again. `MovesForward` excepts it | |
| An update writes what it names whatever became of the ticket since it was read (`services/ticket_folio_service.py:171`, `repositories/ticket_folio_repo.py:229`): it may clear the reason of a ticket closed meanwhile, or open it again. `ClosedIsArchived` and `MovesForward` except tickets that were `overtaken` | `docs/itsm/user-manual.md:127`: "No edits, no status changes, no reopening." |
| `scheduled_time` is not validated: "25:00" removes the job and raises after the configuration was saved, and the next start fails to schedule it | |
| Retention 0 deletes the dump that was just made (`services/backup_service.py:325`), a later failing step puts a FAILURE row beside the SUCCESS row | |
| `.seconds` of a duration leaves its days out (`engines/cli_worker.py`, `engines/snmp_worker.py:1674`): an interval of a day or more is never polled, and a metric that was never stamped waits until its interval has passed since midnight; `AskedInTime` is about those that leave room for a cycle in a day | |
| A device that does not answer is waited for by SSH and then by Telnet, 30 s each (`engines/cli_worker.py:177`), in the one loop that asks all others: their intervals are stretched by that much, which is the `MaxTakes` in `AskedInTime` | |
| Stamps of the CLI engine precede the insert of the cycle: samples of a failed cycle are lost although they are stamped (`engines/cli_worker.py:471`); `StampsAreBacked` excepts those cycles | |
| `metric_kind` is no column of the queue: an availability metric known by its kind alone suppresses the synthetic ping and is then skipped by the executor; `WantedIsPolled` excepts it (`Misnamed`) | `polling/scheduler.py:96-97`: "their presence on a CI means the CI wants ICMP collection" |
| A report skips recovered incidents that began before its window (`services/event_service.py:780`), although it clips them five lines below, and an event that changes between its two statements is in neither or in both; `ExactWhenQuiet` states what holds | |

## 7. What is not modelled

Left out of modelled parts:

* Data: severities, messages, snapshots, metric values beyond ok and breach, the contents
  of payloads, descriptions, geometry and formatting.
* Priorities and partitions of claims. `EveryTaskIsAttended` therefore needs a batch
  at least as large as the number of waiting tasks; with fewer, a task of low
  priority can wait for ever.
* `renew_task_lease`, `dead_letter_task`, `dead_letter_result` and
  `apply_task_decision`: nothing in the worker and writer loops calls them.
* The delay between pages and the expiry of the pruner's cache of attempted events; the
  SLA report, drill-downs and diagnostics of events, which change nothing.
* Password hashing, cookies and the encoding of tokens; password resets.
* Topic patterns and the MQTT client library; sockets, regular expressions, SNMP and ping
  (outcomes of a step).
* Searches, exports and the read queries of lists; the workbook import and the bulk
  validation of dictionaries (its confirmation parses what it printed itself and
  refuses it).

Whole components, for which there is no behaviour to model or none that anything relies on:

* Backpressure, retry decisions, safety limits and the metadata cache
  (`polling/backpressure.py`, `polling/safety_limits.py`, `polling/metadata_cache.py`):
  no loop of the program calls them.
* Metric retention (`services/retention_service.py`): its statement is a plain string,
  which SQLAlchemy refuses; the error is swallowed.
* ITSM imports (`services/itsm_imports/`): neither can write a row.
* The level-of-detail graph, whose detail statements have comment lines that Cypher
  refuses; applied dictionaries, whose MERGE meets the constraint `ci_id_unique`; RTUs,
  whose upsert has ON CREATE SET after SET; tunnel health, which nothing stores.
* AI chat, analytics worker, escalation notifier, simulator: external services, aggregate
  queries and test load. The web frontend keeps no state that the backend relies on.

## 8. Plan

The modules were written in the order of section 2, and proved where an invariant
carries over any number of actors. What is worth doing next:

1. An abstract specification for the events too: an atomic upsert that `EventLifecycle`
   implements when the collectors agree.
2. `PollCycle` over three levels and two parents, and beside the result writer.
3. The components of section 7 that are not called today, once they are.
