# TLA+ models of the Bridge Watch backend

TLA+ modules about the parts of `src/` where the order of concurrent steps
decides whether the program is correct. TLC checks them on small instances;
TLAPS proves the safety properties for every value of the constants. All source
paths below are relative to `src/src/` unless they start with `OUTBOX_` or
`docs/`.

## 1. The system

Bridge Watch is one Node.js process (it may run in several copies) around a
PostgreSQL database (TimescaleDB, through knex) and Redis (BullMQ queues,
caches, locks). HTTP routes and cron-like BullMQ jobs call services; services
keep their state in tables; what has to leave the process goes through queues.

| Component | State | Operations | What is hard | Correct when |
|---|---|---|---|---|
| Outbox producer (`outbox/eventProducer.ts`) | `outbox_events`, `outbox_events_sequence` | publish in a caller's transaction, alone, in a batch; poll query; retry, dead letter | two transactions number one aggregate; deadlocks; retry without a lock | numbers gapless and unique, batch order kept |
| Outbox dispatcher (`outbox/eventDispatcher.ts`) | a BullMQ queue with one job name per event, worker slots | poll by `setInterval`, ten concurrent jobs, one transaction per event around the handler | crashes inside the transaction, jobs that stall while their worker goes on, job ids that outlive jobs | delivered means handled; dead letters are earned; every event is attempted |
| Idempotency ledger (`database/migrations/044`) | `idempotency_ledger` | check and record in the worker's transaction | rollback takes the record along; a name clash inside the function; expiry | a live key keeps the handler from being called |
| Outbox administration (`outbox/adminApi.ts`) | the same rows | retry of a failed event, counts | read and write without a transaction | a delivered event is not taken up again |
| Webhook delivery (`services/webhook.service.ts`, `workers/webhookDelivery.worker.ts`) | `webhook_deliveries`, BullMQ jobs | queue a delivery, POST, record, retry, failure handler | two stores, late answers, a handler that lives in memory | requests bounded, success final, nothing lost unnoticed |
| Notification delivery (`workers/notificationQueue.worker.ts`) | BullMQ jobs | the same with other numbers | two thresholds in two places | dead letters are final |
| Delivery DLQ (`workers/queue.ts`) | `dead_letter_delivery` | move, list, replay, discard | two replays at once, add then discard | replay does not lose a delivery |
| Event replay (`services/eventReplay.service.ts`) | `event_replay_runs` | republish old events | republished events carry the same payload, so the same key | a replayed event is handled |
| Alert evaluation (`services/alert.service.ts`, `duplicateAlertCheck`, `alertSuppression`) | `alert_rules`, `alert_events`, an in-memory window | evaluateAsset from four callers, restarts | cooldown read before the loop, a check that runs before the write | a settled alert holds back what its cooldown and windows forbid |
| Alert routing (`alertRouting.service.ts`) | `alert_routing_audit` | primary and fallback channels, suppression | suppression reads what concurrent alerts write later | an alert is heard, rightly suppressed, or every channel failed |
| Bridge incidents (`alertDeduplication`, `incident`, `incidentIngestion`, `escalation`) | `bridge_incidents` and their history | find or create, ingest with retries, escalate, acknowledge, resolve | find and insert apart, a retry after a broken connection, two engine loops | one incident per window but for overlaps, as severe as its worst alert; stored once; escalated when and only when due |
| Provider circuit breaker (`services/providerCircuitBreaker.service.ts`) | one row per provider | availability, success, failure, override, sweep | read, await, unconditional write | opens at the threshold, finds back |
| Source decommission (`sourceDecommission.service.ts`) | one row per source | start, progress, complete, rollback, sweep | every write rests on an earlier read | fallback only under way, completion earned |
| Admin rotation (`services/adminRotation.service.ts`) | accounts, proposals | add, remove, propose, approve, execute, expire | check then act, a change and its mark in two statements | minimum kept; executed once, and only when approved |
| Horizon stream supervisor | cursor, status, timers | connect, reconnect, gap check, stop | timers that outlive their connection | events follow each other; a lost stream is replaced or noticed |
| Event federation (`services/eventFederation`) | streams, cursors, timers, a window of ids, a replay buffer | stream, poll, deduplicate, forward, reconnect | reconnect timers and streams that leak, overlapping polls | listeners see each event once per window, no feed is forgotten |
| WebSocket alerts channel (`api/websocket`) | subscribers, a cursor per instance | connect, subscribe, fetch, broadcast, relay over Redis | overlapping fetches, messages that come back | broadcast once per instance, polling ends with the last subscriber |
| Ingestion queue, backfill | two tables; chunk lists | enqueue, poll, retry, bury, requeue; run, resume | handlers nobody waits for, two movers of one row; workers share a cursor | nothing vanishes, every job settles; a resolved run is complete |
| Digests (`digestScheduler.service.ts`) | deliveries, items | create, mail, mark, retry | every job mails what any job created | mailed once, settled |
| Reserve verification (`reserveVerification.service.ts` and worker) | `reserve_commitments`, a contract | Merkle tree, commit, poll, save, prove | the outcome of a sent transaction is not known; a shared account | table and contract agree; committed again only if unknown |
| Reconciliation job (`reconciliation.job.ts`, `utils/lock.ts`) | a Redis lock, `reconciliation_runs` | lock, run, finish, release | the lock ends by itself, Redis or the database refuses | one run unless a lock lapsed, no lock or run left over unexplained |
| Exports (`export.service.ts`, worker, `dataStream.ts`) | `export_history`, a file, a queue | request, read pages, write, delete | rows come and go between pages; retries and deletion | a completed export is whole, its record tells the truth |
| Life cycle (`outbox/index.ts`, `bootstrap/gracefulShutdown.ts`) | flags, timers | start, drain, stop | a drain that hangs | the process ends, no job half done |
| The rest: price and liquidity pipelines, sessions, routes, bots, search, reports, retention, caches | tables | CRUD, formatting, I/O | little shared state | — |

How they interact: a service publishes an event in its own transaction; the
dispatcher's poll reads pending rows and adds BullMQ jobs; a worker handles an
event inside a database transaction and, for webhooks, calls `queueDelivery`,
which inserts a row and adds a job to the delivery queue; that queue's worker
makes the request; its failure handler writes dead letters; an operator replays
or discards them. Jobs on timers evaluate alerts, which are routed, merged into
incidents and escalated; price calls go through the provider breaker; the
federation and the alerts channel feed WebSocket clients. These components meet
in tables, not in calls that wait for each other, so they are modelled apart; the
call of `verifySupply`, `routeAlert` or a provider is an outcome where it is
made. `PROJECT.json` lists each component with its status, and
under `hazards` the places where it can go wrong.

## 2. Modules

| Module | Models | Lines of argument |
|---|---|---|
| `Outbox` | producer, dispatcher, ledger, admin retry, and BullMQ and PostgreSQL as they use them | one action per step between two awaits |
| `OutboxPromise` | what the outbox promises per event: owed, kept, abandoned | abstract specification, refined by `Outbox` |
| `OutboxMC` | events and keys for TLC | |
| `OutboxSettingsMC` | the outbox on two servers, one per behaviour | |
| `OutboxSequence` | numbering inside transactions | what `Outbox` takes as the single step `Publish` |
| `OutboxNumbering` | what the producer promises of the numbers: a transaction publishes its list in one step | abstract specification, refined by `OutboxSequence` |
| `OutboxSequenceMC` | four transactions for TLC | |
| `DeliveryQueue` | webhook or notification queue with `DeliveryDLQ` | one model, two sets of constants |
| `DeliveryQueueMC` | one delivery, two replays for TLC | |
| `DeliverySequenceMC` | `OutboxSequence` or `DeliveryQueue`, one per behaviour | |
| `ProviderBreaker`, `StreamSupervisor`, `IngestionQueue`, `IncidentEscalation`, `DigestDelivery` | components that run by timers and loops | have fairness and liveness |
| `LoopsMC` | one of these five per behaviour | |
| `AdminRotation`, `AlertEvaluation`, `AlertRouting`, `AlertIncidents`, `IncidentIngestion`, `SourceDecommission`, `Backfill` | components whose requests read records and write them back | safety under overlapping requests |
| `RecordsMC` | one of these, or the breaker, per behaviour | |
| `EventFederation`, `AlertBroadcast`, `ReserveCommitment`, `Reconciliation`, `ExportJob` | components that feed, send, commit, reconcile and export in the background | safety under faults of their surroundings |
| `BackgroundMC` | one of these five per behaviour | |
| `JsonbColumns` | whether jsonb columns arrive as text | shared by three modules |
| `Outbox_proofs`, `OutboxSequence_proofs`, `DeliveryQueue_proofs`, `Breaker_proofs` | the theorems of one component each | section 4 |
| `Alerts_proofs` | the theorems of four components that share no state, one part each | section 4 |
| `Loops_proofs`, `Records_proofs`, `Background_proofs` | the same for the other components of a run, and the components of `LoopsMC`, `RecordsMC`, `BackgroundMC` put together | section 4 |

`LoopsMC`, `RecordsMC`, `BackgroundMC` and `DeliverySequenceMC` do not compose their
components, which share no state: a variable (`component`, `end`), chosen in the
initial state, says which of them moves, and each of the others stays where it
starts. One run then checks the properties of several components; a behaviour of it
is a behaviour of one. `OutboxSettingsMC` does the same with two settings of the
database server: `Refusing` is `Outbox` with other constants and the same variables.

### Outbox

The database variables hold the COMMITTED rows. What a worker's open
transaction has written is in its program counter `pc`: a worker `dispatching`
or `committing` has written the mark `processing` and its ledger row, and
neither is visible to others, nor survives a crash. The row lock of
`SELECT ... FOR UPDATE` (`RowLocked`) and the wait of an `INSERT` for an
uncommitted row with the same key (`KeyLocked`) are state formulas over the
workers' places, so a rollback releases them by itself. `processDispatchJob` is
cut at every await:

    TakeJob > LockRow > CheckKey > RecordKey > DispatchEvent > CommitDelivered > CompleteJob
                  \          \> CommitSkipped                                     ^
                   \> (not pending)                                               |
    any throw > ReadRetryCount > ScheduleRetry or MoveToDeadLetter ---------------/

Faults: `Crash` (the process dies; BullMQ finds the job stalled later),
`LoseJobLock` (the worker lives and goes on, BullMQ gives the job to another),
`CommitFails` and `MarkForRetryThrows` (a statement is refused), `PollFails`
(Redis refuses). A job fails for good after `MaxStalledCount` stalls. Finished
jobs are retained up to `Keep`, and `PollEnqueue` skips events whose job is
still known, as BullMQ does.

`check_and_record_idempotency` declares a variable `expires_at`, which is also
the column's name. What the statement means depends on the server's setting
`plpgsql.variable_conflict`; `VariableConflict` ranges over its three values:
`"error"`, the default, refuses the statement, so every keyed event fails;
`"use_column"` is what the author meant in the check and makes the update a
no-op; `"use_variable"` compares with NULL and finds no key.

The retry delay is abstracted to `ready`, the ledger's clock to `ExpireKey`,
payloads to keys. `handled`, `failures` and `disputes` are history variables.
The updates of `markForRetry` and `retryEvent` test no status, so a worker that
has lost its job, or a retry request that crosses another, may undo a delivered
mark. `disputes` counts these occasions per event, less the marks undone;
`OutboxPromise` lets a dispute undo one mark and no more.

### OutboxSequence

`seq` is the counter as the lock holder last wrote it, `committed` the value
others see after a rollback. The upsert locks the row until the transaction
ends; PostgreSQL's deadlock check (`AbortDeadlocked`) aborts a transaction that
waits in a circle. `Numbering` maps the module onto `OutboxNumbering`: the
events published are what the committed transactions have drawn
(`CommittedEvents`), the last number of an aggregate is `committed`.

### DeliveryQueue

A job is `<<delivery, n>>`: the first is `queueDelivery`'s, the others are
replays. A job carries BullMQ's `attempts` and `attemptsMade`, its stalls, and
the number of requests made. `processDelivery` is cut at the POST, its answer,
the record of the answer and the end of the job. `handlers` are the running
`failed` listeners; the worker does not wait for them and a crash loses them.
Constants tell the queues apart:

| | webhook | notification |
|---|---|---|
| `Attempts` | 7 (`MAX_RETRY_ATTEMPTS`) | 6 (`maxRetries + 1`) |
| `DeadLetterAt` | 7 (`WEBHOOK_RETRY_POLICY`) | 5 (`NOTIFICATION_RETRY_POLICY`) |
| `ReplayAttempts` | 1 (no option given) | 6 |
| `Tracked` (has a row) | yes | no |

`dropped` records the deliveries that something let go of without a job, a dead
letter or a completion; the property `NothingLost` says these are all.
The listeners of `webhook.service.ts:140-167` are registered on the Queue, which
emits none of these events, and are not modelled.

### Components on timers and loops

All these modules cut an operation at its awaits and keep what it has read, so
that what it writes may be stale.

- `ProviderBreaker`. A caller asks `isAvailable`, calls the provider and records
  the outcome; the sweep half-opens; operators override. `CutOffWhenDue` holds
  unless operations overlapped or a statement was refused; `BreakerHeals` does
  not care.
- `StreamSupervisor`. `strays` counts the connect timers that `clearTimeout` in
  line 139 never reaches when `fetch` rejects; they may abort a later stream.
- `IngestionQueue`. Rows move between `ingestion_jobs` and `dead_letter_jobs` by
  an insert and a delete; primary keys are the only thing between two movers.
- `IncidentEscalation`. Two loops exist after a stop and a start within one
  interval; acknowledgement and timeout decide, the write comes two reads later.
- `DigestDelivery`. Every job mails every pending digest; the mark may be refused
  after the mail is out.

### Components over records

- `AdminRotation`. Removal counts before it writes, approval writes the list it
  has read, execution marks after it acted. `MinimumKept`, `AppliedOnce` hold
  unless requests crossed as their texts say; `ExecutionHasQuorum` always.
- `AlertEvaluation`. An alert is settled when its event is stored, its rule
  marked, and nobody evaluated meanwhile.
- `AlertIncidents`. A call looks, and then inserts, or writes severity and status
  in two statements. Operators report incidents of another type or of none
  (`ReportIncident`), and those of none are found like the alerts' own; they set
  any status. An incident remembers how many there were when the call that created
  it looked (`looked`), the worst alert it has taken (`worst`), whether an operator
  has touched it, and whether two calls were about to raise it (`crossed`).
- `AlertRouting`, `IncidentIngestion`, `SourceDecommission`, `Backfill` as their
  headers say.
- `AdminRotation`, `IncidentEscalation` and `DigestDelivery` parse jsonb columns
  with `JSON.parse` without looking whether they are text
  (`adminRotation.service.ts:659`, `:690`, `:692`, `escalation.service.ts:356`,
  `digestScheduler.service.ts:734`). The driver hands objects over, so these reads
  throw, and with them an approval and a digest; `getEscalationRule` catches the
  error and answers that there is no rule. What `loops` and `records` say of these
  three components (`RaisedOnlyWhenDue`, `MailedOnce`, `EveryDigestSettles`,
  `ExecutionHasQuorum`, `AppliedOnce`) is therefore conditional: those runs take
  `JsonbAsText = TRUE`, readable columns. `escalation_stuck` takes the driver as it
  is. The theorems hold for either value.

### Components in the background

- `EventFederation`. A stream keeps its place; an opening keeps its closers until
  the next one overwrites them. `reconnectTimer` holds one timer, the others are
  `strays`. A poll is cut at `getBlockNumber` and `getBlock`. Horizon's reading
  of a cursor is external; for the ledger cursor, a sequence number where a
  paging token is expected, two readings are allowed. `index.ts` starts and stops
  the federation once.
- `AlertBroadcast`. The times of rows and the cursor are numbers; rows are
  inserted in any order of their times. Redis loses messages but keeps their
  order per instance; an instance receives its own.
- `ReserveCommitment`. Merkle trees are built of sequences that stand for hashes,
  so that two hashes are equal only if their inputs are; the operator account's
  sequence number decides which of two racing transactions is taken.
- `Reconciliation`. The lock's value is the execution; expiry is a step of Redis.
- `ExportJob`. A page is any set that LIMIT and OFFSET admit for an order without
  a tie-breaker. Deletion unlinks only the path it has read. A failed page query
  fails a PDF and kills the process for CSV and JSON, whose `Transform` is
  destroyed with an error nobody listens for.

## 3. Runs

| Run | Bounds | Shows |
|---|---|---|
| `outbox_settings` | 2 events of an aggregate, one with a NULL key; 2 workers; 1 poll; 2 retries; on a server that compares the column 1 fault of any kind and 1 admin request, on one that refuses the look-up 1 crash and 2 admin requests | `DeliveredWasHandled`, `DeadLettersEarned`, `LedgerGuardsHandler`, `KeepsPromise` (refinement of `OutboxPromise`), `EveryEventAttempted` |
| `outbox_wedge` | 2 events, 1 worker, batch 1, 1 retained job, no fault | VIOLATION of `EveryEventAttempted` |
| `outbox_order` | 2 events, 1 worker, no fault | VIOLATION of `StrictOrderWithinAggregate` |
| `outbox_crash` | 2 events, 1 worker, 1 crash | VIOLATION of `NoDuplicateDelivery` |
| `delivery_sequence` | 4 transactions, 3 aggregates, 2 rollbacks; or 1 delivery, 3 jobs, 2 attempts, 2 replays at once, 2 faults | `PublishesAtOnce` (refinement of `OutboxNumbering`), `EveryTransactionEnds`; `RequestsBounded`, `DeadLetterIsFinal`, `NothingLost`, `SuccessIsFinal`, `EveryDeliverySettles` |
| `delivery_replay` | the code's 7 / 7 / 1, no fault | VIOLATION of `ReplayKeepsDelivery` |
| `delivery_notification` | the code's 6 / 5 / 6, no fault | VIOLATION of `DeadLetterIsFinal` |
| `loops` | see below | `BreakerHeals`, `NextEventFollows`, `LostIsReadOrNoticed`, `NothingVanishes`, `EveryJobSettles`, `RaisedOnlyWhenDue`, `MailedOnce`, `EveryDigestSettles` |
| `escalation_stuck` | 1 loop, 1 manual request, 3 levels, `JsonbAsText = FALSE` | VIOLATION of `ClimbsUntilHeard` |
| `records` | see below | `CutOffWhenDue`, `ExecutionHasQuorum`, `MinimumKept`, `AppliedOnce`, `SettledAlertsHold`, `HeardOrExhausted`, `DuplicatesOverlapped`, `SeverityFollowsAlerts`, `StoredOnce`, `FallbackOnlyUnderWay`, `CompletionEarned`, `ResolvedIsComplete` |
| `incidents_split` | 1 call at a time, 2 severities, 2 incidents, no fault | VIOLATION of `RepeatsCollapse` |
| `background` | see below | `FeedsKept`, `BroadcastsBounded`, `CommitmentsAccounted`, `RunsUnderLock`, `RecordTellsTruth` |

`loops`, `records` and `background` also check the conjunction of their
components' type invariants. The type invariants of `Outbox`, `OutboxSequence`
and `DeliveryQueue` are not checked by a run: they are proved, and so are
`Gapless`, `NumbersUnique` and `BatchInOrder` of `OutboxSequence`. Its run
checks `PublishesAtOnce`, which says as much of the committed events.

Distinct states: `outbox_settings` 524,110; `delivery_sequence` 408,698;
`loops` 109,468; `records` 1,521,748; `background` 1,331,331.

Why the bounds are enough. Two workers on one event are what the row lock, the
double check and a lost job lock are about; a third only repeats the second.
`MaxRetries = 2` has one retry and one dead letter, so that both branches of
`markForRetry` follow each other, and a stale count can meet a newer one. One fault
is a lost job lock, after which two workers are on one event, or a crash or refused
statement anywhere. With two requests both can read a failed event before either
resets it, and the second reset undoes a delivered mark. Larger instances pass
beyond the time of a run: two faults of any kind (the three safety properties,
3,039,807 states up to the symmetry of workers), and two events with one key with
two crossing requests and a lost lock on the server that compares the column
(`KeepsPromise`, 623,253 states up to symmetry). The key-less
second event covers rows older than migration 044. For the deliveries, two
attempts have a retried and a last failure, `MaxJobs = 3` lets two replays of
one entry both add a job, and deliveries do not interact, so one is enough.
The sequence batches contain an aggregate twice, a circle of three and a
transaction outside the circle. With all bounds open, section 4 proves
the safety properties.

In `loops`: the breaker has two callers, a threshold of one and an override; the
stream two reconnects, three events and four troubles, enough for a stray timer
to meet a second connection; the ingestion queue two jobs, two attempts, two
polls, two handlers beyond a limit of one, two requeues and three refused
statements (with three handlers and a limit of two it passes too, with 721,000
states); the escalation two loops, one manual request and levels up to three,
acknowledged at one; digests two jobs, one digest of two items and three
attempts, so that the last failure differs from the others.

In `records`: two requests of a kind everywhere, so that any two operations can
cross at every await. Administrators: two accounts, one founder, two approvers and
quorum two, one death. Breaker: threshold two, so that one of two failures can get
lost. Alerts: two evaluations with one fault; rules, snapshots and windows of
`RecordsMC` put repeats inside and outside cooldown and window. One rule needs two
conditions and cools down; the other, less severe, has a metric that bears the
name of the first one's alert type, so both share an entry of the duplicate check.
An entry is taken over only between two other alerts; with three alerts and a
clock up to two `SettledAlertsHold` passes too (1,016,290 states of that
component), which is more than the run's time allows beside the others. Routing:
two alerts over three channels with and without suppression. Incidents: two
severities, two raisers, one fault, and operators' incidents of another or no
source type, so that of the two incidents each may be an alert's or an operator's.
Ingestion: a dated and an undated report, three deliveries, three attempts, three
broken statements. Decommission: six requests, enough for start, progress,
completion and a rollback across. Backfill: a range of five in chunks of two or
three, so that a last chunk is short and a resumed run may cut differently, one
and two workers. The two evaluations are symmetric.

In `background`: the federation has a window and a buffer of two, three events
over three feeds, one reconnect and two stream errors, which is what a stray timer
and a leaked stream take, and two polls that overlap; two instances with two
fetches each, one client and two alerts at two times, equal ones included; two
reserve jobs with two attempts, a mishap, three leaves, and Merkle trees of one to
seven leaves, every proof against every leaf; two reconciliation jobs with two
attempts, one expiry, two refused calls and one death; one export of two rows in
pages of one, as CSV and as PDF, with two attempts and two faults. The
reserve jobs are symmetric. Two variants pass beyond the run's time: two mishaps
(6,888,710 states, five minutes), and two executions of the export at once with
one fault (1,754,128 states for the export alone).

`CHECK_DEADLOCK FALSE` everywhere: a quiet system (all delivered, all
transactions ended, bounds used up) rightly stops. Symmetry is used in `records`
and `background`, which check no liveness.

Fairness. `Outbox`: the interval timer polls, time passes, BullMQ serves each
waiting job and runs its stalled check, and a live worker takes its next step
(weak fairness on each). Nothing obliges an administrator, a fault, or an
expiry of a key. `OutboxSequence`: a transaction that can proceed does; the
deadlock check runs. `DeliveryQueue`: the process finishes adding a job, jobs
become due, are processed and requeued, handlers go on; nobody has to replay or
discard. `ProviderBreaker`: callers and the sweep go on, the recovery timeout
elapses, and a success that is again and again possible is recorded at last
(strong fairness: the client's own rate limit is a window that slides, so no
caller is throttled for ever). `StreamSupervisor`:
responses, lines and set timers come. `IngestionQueue`: polls, handlers and
requeues that have begun go on, delays elapse. `IncidentEscalation`: loops that
run and escalations that have begun go on, levels time out; nobody has to
acknowledge, start or stop. `DigestDelivery`: a job goes on. In `loops` and
`delivery_sequence` the fairness is that of the component that moves. No fault is
ever fair.

`EveryEventAttempted` passes in `outbox_settings` and fails in `outbox_wedge`: with
two events in a batch of two and one retained job, finished jobs push each other
out of the retention, and with a batch of one a single failed event fills the
batch for ever. The shipped numbers (batch 100, 100 completed jobs retained) are
of the second kind as soon as 100 events wait for a retry.

## 4. Proofs

All theorems say `Spec => []P`, or `Spec => P` for an action property or the
refinement, for every value of the constants that the named assumptions of the
modules admit, and are checked by `tlapm` to the last leaf. Where a theorem has
hypotheses of its own they are named here; each is what the property needs, and
the numbers of the code, or a configuration of a run, satisfy it.

`Outbox_proofs`.

- `OutboxTypeCorrect` is inductive by itself.
- `OutboxDeliveredWasHandled` needs an invariant that says who will write
  `delivered`: a worker that is committing has handled its event, a key that is
  in the ledger belongs to an event that was handled, and a worker that skips
  has found such a key. The ledger conjunct is what breaks when the key is
  recorded outside the transaction (the seeded fault `RecordKeyAtOnce`).
- `OutboxDeadLettersEarned` counts: `retry_count` plus the workers about to write
  a failure never exceeds the failures so far (`CountCovered`), and neither
  does a count one of them has read, with the same workers (`SeenCovered`), so a
  stale count, written over a newer one, only ever lowers.
- `OutboxLedgerGuardsHandler`, an action property: a worker looks a key up and
  calls the handler later. It says what each setting of the server leaves of the
  guard: where the function raises no keyed event is handled at all; where the
  column is compared, an event is not handled when a live ledger row of its key
  was there before it, unless ANOTHER event with its key has been handled; where
  the variable is compared, nothing is claimed. `GuardInv` says that of one event
  at most one worker is inside its transaction (`OneTransaction`: the row lock is
  held from before the look-up to after the record), and that whoever is past the
  look-up of a key has found it dead or another event of that key has been handled
  since (`LookUpHolds`). `HandledInv` supplies who made the row live.
- `OutboxKeepsPromise`, the refinement of `OutboxPromise`, with lost job locks,
  shared keys and any number of retry requests: every step of the dispatcher is one
  of the abstract specification or changes no promise. `QueueInv` says of the job
  of an event which worker has it and that finished jobs are in the lists;
  `RowInv` that whoever holds the row lock past the double check finds the row
  pending, and that whoever writes to an event writes to a published one. The
  updates that follow a failure, or a request, test no status. `DisputesCover`
  counts who may still undo a mark: workers that lost the event's job and have not
  ended (`Strays`), requests other than the first to reset a failed event
  (`LateRequests`), and an owner of the job whose write comes after another's
  (`LateOwner`); these are never more than `disputes`. So a delivered
  mark is undone only where a dispute pays for it, and the abstract action `Undo`
  takes one away.

`OutboxSequence_proofs`. The invariant ties the numbers a transaction has drawn
of an aggregate to the interval between `committed` and `seq`, holds only for the
lock holder, and leaves everybody else with none. `SequenceGapless`,
`SequenceUnique` and `SequenceBatchInOrder` follow. `SequencePublishesAtOnce`, the
refinement of `OutboxNumbering`, needs the number of every single event:
`DrawnInOrder`, what an open transaction has drawn is the committed number of the
aggregate plus the event's place among those of the aggregate in the list, and
`CounterInOrder`, the counter of a held lock is the last of these, while who does
not hold the lock has drawn nothing of the aggregate. Drawing and rolling back
then leave the abstract state alone, and the commit is `PublishAtOnce`.

`DeliveryQueue_proofs`.

- `JobInv` counts each request by a failed attempt, a stall or the open attempt:
  `DeliveryRequestsBounded`.
- `ReportInv`, handlers and dead letters are about failed jobs, holds when no job
  has more attempts than `DeadLetterAt`: `DeliveryDeadLetterIsFinal` (the webhook
  numbers satisfy the assumption, the notification numbers do not, and the run
  shows the violation).
- `LossInv` says of each delivery's first job who is responsible for it, and
  `HandsOn` that each step which lets go hands on or drops:
  `DeliveryNothingLost`, when `DeadLetterAt <= Attempts`.
- `DeliverySuccessIsFinal`, an action property. Only the handler of the last
  failure writes "failed". `MarkInv` says that such a write is behind whoever
  makes the delivery again: the entry that is replayed is the handler's later
  write. It needs `Attempts <= DeadLetterAt` and, for a replayed job whose
  failure must not reach the handler, `ReplayAttempts < DeadLetterAt`, both true
  of the webhook queue (7, 7, 1), and that a stalled job is tried again
  (`MaxStalledCount > 0`, BullMQ's default is 1).

`Breaker_proofs`, which both `Loops_proofs` and `Records_proofs` use.
`BreakerCutsOff`: while no two operations have crossed, what the one under way has
read is what the row says, and the count is that of the failures in a row; the
write that closes cannot come from a success that began before.

`Loops_proofs`.

- `IngestionNothingVanishes`. The property is not inductive: of two movers of a
  row each might delete the other's copy. `VanishInv` adds that whoever is about
  to delete has put a copy into the other table (`Copied`) and that a job has at
  most one such mover (`OneMover`): the primary keys refuse the second insert.
- `StreamNextEventFollows`, an action property. `FollowInv`: once an event was
  taken, an open connection stands where the cursor does (`Resumed`), and neither
  is ahead of what has happened (`Behind`).
- `EscalationRaisedWhenDue`, an action property: what the escalation read and
  decided on is still so at its write unless something overlapped.
- `DigestsAreMailedOnce`. The invariant follows a delivery from job to job: it is
  mailed only by the one job that has it, whose next step is the mark.

`Alerts_proofs`.

- `IngestStoredOnce`. `StoredInv`: a dated report is stored at most once because
  of the unique index; for one with an external id, a call past its look-ups that
  is the only one knows that nothing is stored.
- `IntakeMergesAlerts`, two invariants. `CreatorsLookedBefore`: a call that is
  about to create an incident looked before any of those that are untouched, open
  and matching by now was inserted, so what it inserts is no more than the overlap
  explains (`NoneCreatedOver`). For the severity (`Follows`): what a call
  has found it may still raise to the incident's worst alert, and if two calls may,
  the incident is `crossed`. That a repeat opens a second incident after the first
  was raised (`RepeatsCollapse`, section 5) is outside: that incident is not open.
- `RoutedAlertsAreHeard`. A channel is suppressed only for a row of the audit that
  was sent, by an alert whose own delivery had ended; so suppressions do not go
  in a circle.
- `SettledAlertsHoldBack`. Of every settled alert the invariant keeps three
  things: rules that an evaluation still has to report have cooled down since
  (`CooledDown`), the map of the duplicate check remembers the alert or a later,
  at least as severe one until its window has passed (`Remembered`), and what has
  passed the check does not repeat it (`Allows`). Of rules the theorem assumes
  nothing. Two conditions, one with a metric that is the other's alert type, share
  an entry of the map: with rules about (m1, t1), (t1, t2) and (m2, t1) the second
  one's alert overwrites the entry that remembers the first one's severity, and
  the third, of the first one's type and less severe, goes out. The property names
  this case (`TakesOver`); `StillKept` is that the entry is there or was taken over.
  Section 5 says more about the map.

`Records_proofs`.

- `DecommissionTypeCorrect`; `DecommissionFallback`, whose `FallbackInv` adds that
  an update of progress that is about to be written has read a row that was under
  way; `DecommissionCompletion`, whose `NotCrossed` says that what it has read is
  still so as long as no two operations crossed.
- `ResolvedRunsAreComplete`. Pending chunks are handed out in ascending order, so
  those taken are a prefix (`Taken`, over ranks); every taken chunk is in one
  place: with one worker, completed or failed (`EachInOnePlace`); workers end only
  when all are taken (`EndsWhenTaken`). `ChunksCover` shows that the chunks of any
  size cover the range.
- `AdminTypeCorrect`, `AdminExecutionHasQuorum`, `AdminMinimumKept`, `AdminAppliedOnce`.
  `QuorumInv`: an approved proposal has its quorum, so has one a request has taken
  up as approved, and no account is touched without one. `MinimumInv`: at most one
  removal is under way unless two crossed, and it has counted what is still there.
  `OnceInv`: of a proposal that was not raced for at most one request is between
  the change and the mark.

`Background_proofs`.

- `ReconciliationUnderLock`. `StoryInv` ties the lock, each execution and its
  recorded run: an execution past the lock has it, has lost it to the clock, or is
  one the theorem's text names.
- `ExportRecordsTellTruth`. The heart is `PageTakesOwed`, about any table and
  page size: a row of its own time that was not skipped yet is on the next page or
  still behind it. Hence the invariant that each row owed to the file was read, or
  at least as many rows as were skipped are newer than it; arrivals only add to
  those, and retention removes the oldest rows first, so it takes none of them as
  long as the owed row stays. `StatusFollows` says what the record is when an
  execution ends.
- `AlertBroadcastsAreBounded`. The property is not inductive: a copy may still be
  under way. `CopiesCounted` adds to what a connection has received what its
  instance's inbox still holds of the alert; opening a connection, broadcasting
  and receiving a message keep that sum below the bound, losing one lowers it. `CursorKeeps`
  says that what an instance has sent, or one of its fetches is about to send, is
  not past its cursor, and that no two fetches are about to send the same alert;
  so a fetch that filters by the cursor finds nothing that was sent. The sums are
  cardinalities: the lemmas `Copies...` count the occurrences in a sequence.
- `FederationKeepsFeeds`. `HoldsLatest`, used for the deduplicator's ring and for
  the replay buffer, says which event of the whole history each slot of a circular
  buffer holds; `SlotReplaced` carries it over one insertion, for any size. From it
  follow what the window still remembers and what `Snapshot` returns.
  `PaymentsInv` says of the cursor, of every open or leaked payment stream and of
  every payment forwarded that all payments since the start and up to there were
  forwarded; the window drops a payment only when it was forwarded before.
- `CommitmentsAreAccounted`. A transaction is accepted only as the next of the
  account, so an attempt that was left, and may still succeed, is not behind a
  later attempt of its job in the account's order (`SentInOrder`). Hence the
  contract holds the commitments of a job in the order of its attempts
  (`HeldInOrder`), and those of attempts that were left are unlearnt
  (`LeftUnlearnt`).
- `MerkleProofsVerify`, the part of `CommitmentsAccounted` about Merkle trees: for
  any number of leaves, the proof of a leaf leads from that leaf to the root, and
  from no other leaf. Neither the prover's induction theorems nor its treatment of
  recursive functions reach this, so the module derives what it needs.
  `AllNumbers` is induction from a least counterexample (`WFMin`), over a set
  instead of a predicate. A recursive function is by definition a chosen solution
  of its equation; `IndicesEquation`, `LayersEquation` and `ClimbEquation` prove
  that there is one for `Indices`, `Layers` and `Climb`, by building it number by
  number. Then `ParentsOf` gives the nodes of the next layer, `TreeShape` the width
  of each (`w`, then `(w + 1) \div 2`, down to 1), and `AboveSibling` that hashing
  a node with its sibling, in the order of the index, gives the node above;
  so the climb from the leaf passes the nodes above it. That the climb from another
  leaf meets none of them uses that the hash is a pair, that is, collision-free.

Types. `LoopsKeepTypes`, `RecordsKeepTypes` and `BackgroundKeepTypes` are about the
specifications that TLC checks: `LoopsRunTheirComponents` and its like show that a
behaviour of a run is a behaviour of each of its components, and each component has
a theorem or lemma `...TypeCorrect`. Five of the types are bounds on counters that are
not inductive; what makes them so are sums.

- Ingestion queue: `processingCount` is the number of busy handlers, also when the
  process dies; a pending row, and a handler that works on one, has an attempt left.
- Incidents: rows of a report, plus the calls that may still store one, are no more
  than the deliveries and the statements the network broke (`RowsPaidFor`), so
  `stored` never exceeds their bounds' sum, a bound that does not grow with the attempts.
- Backfill: `inFlight` lies between the number of workers that process a chunk and
  that number with the workers an event that threw has ended (`InFlightCounted`).
- Supervisor: a timer left behind belongs to a trouble or to `stop`
  (`TimersCounted`).
- Export and reserve jobs: one that may run again has an attempt and a stall left
  (`JobCounted`, `Bounded`).

The assumptions are those the modules name (`OutboxAssumption` and so on): types
of the constants, that constants standing for "none" are no members of the sets
they complement, and that what is counted is finite: the exported table, the
workers of a backfill, the handlers of the ingestion queue, the deliveries under
way of the incident ingestion. Runs evaluate all of them.

Only model-checked. No safety property of a passing run is left, neither invariant
nor action property. Liveness, for every component, is: it rests on fairness and
`ENABLED`, out of the prover's reach (`EveryEventAttempted`,
`EveryTransactionEnds`, `EveryDeliverySettles`, `BreakerHeals`,
`LostIsReadOrNoticed`, `EveryJobSettles`, `EveryDigestSettles`).

## 5. What the checks found

Seven statements of the documentation, of comments, a log message or a test are
not what the code does; `PROJECT.json` quotes them under `findings`.

1. Retries of an event share the id of its first job, and retained jobs block
   them (`outbox_wedge`).
2. Events of an aggregate are not handled in strict order (`outbox_order`).
3. A crash between send and commit makes a duplicate delivery (`outbox_crash`).
4. A replayed webhook delivery has one attempt and is lost when it fails
   (`delivery_replay`).
5. A notification becomes a dead letter one attempt early
   (`delivery_notification`).
6. No escalation rule can be read from the columns as the driver returns them, and
   no incident is ever escalated (`escalation_stuck`). With readable columns
   `ClimbsUntilHeard` passes.
7. A repeat of greater severity sets the incident to investigating
   (`alertDeduplication.service.ts:103`), and the next look is for open ones only
   (line 71), so a third alert of the window opens a second incident
   (`incidents_split`).

Observations made while modelling, of which no run is a witness; the models
contain the behaviour.

- Idempotency ledger. Two events with one key may both be handled, without a fault:
  the function tests `EXISTS` (`044_outbox_idempotency.ts:32-36`) and inserts later,
  and the insert that had to wait for the other transaction returns TRUE all the
  same. `LedgerGuardsHandler` allows this case by name. It takes a server that
  compares the column; on the default setting the function raises before.
- Duplicate check. A fingerprint joins the values of the matched fields, not their
  names nor the rule (`duplicateAlertCheck.service.ts:256-268`), so the entry of a
  metric is that of the alert type of the same name. The health service reports
  the metric `health_score_drop` (`health.service.ts:100`), and there is a type
  `health_score_drop` (`alert.service.ts:16`): after an alert of that type about
  the metric `health_score`, one about `health_score_drop` is a "cross-source
  duplicate (same asset + metric within 5 min)" (line 54) without any alert of its
  metric before it, is queued for review and not reported.
- WebSocket. Subscribers of the instance that broadcasts an alert get it twice:
  directly, and when its own Redis message comes back
  (`websocket.server.ts:334`, `:104`; line 120 speaks of other instances).
  Two alerts of one time that are committed apart are not both sent.
- Exports. A failed page query of a CSV or JSON export ends the process and
  leaves the record at processing (`export.worker.ts:62` says completed or
  failed); a deletion while an execution runs leaves its file behind; OFFSET
  without a tie-breaker may skip rows of one time; a request whose job the queue
  refuses stays pending. Nothing imports `export.worker.ts`, nor the reserve
  verification worker.
- Reserves. A commitment whose poll gives up is on chain and in no row, and
  `updateCommitmentStatus` has no caller, so no commitment becomes verified.
- Reconciliation. `startRun` stands before the `try`: when it is refused the lock
  stays until its time to live. A run of a dead worker stays running.
- Federation. Each batch holds one event, so `process` sorts nothing
  (`deduplicator.ts:4`). A second error within the backoff sets a second timer;
  both open streams, and the first pair can no longer be closed. After the last
  attempt, and at "now", events are skipped (`stellarConnector.ts:7`). Blocks
  between two polls are never read; overlapping polls may set `lastBlock` back.
- Stream supervisor. A stream that ends normally, or is aborted, is not
  reconnected; the gap check only notices.
- Breaker. In `half_open` every caller passes.
- Digests. `next_retry_at` is written and never read.
- Event replay. A replayed event has the key of the original, so within 24 hours
  the ledger skips it.
- `cache-priming` jobs are scheduled (`workers/index.ts:159`) but no worker has a
  case for them.

## 6. Not modelled

`PROJECT.json` gives the reason for each component marked `not_modelled` or
`partly`. In short: the life cycle of the outbox and the graceful shutdown run
sequential code for a dispatcher that nothing initialises; sessions, rate limits,
caches, CRUD services, routes, bots, search, reports and retention are requests
with little state between them; the price, liquidity and bridge pipelines compute
numbers; alert escalation (`alertEscalation.service.ts`) repeats the shape of
components that are modelled; the on-chain circuit breaker is a contract outside
this repository.

Of the modelled components: payload formats, headers, signatures and delays; the
rate limiter of webhook endpoints; the queries of the administration; the
connection pool (each dispatch holds a connection while its handler asks for
another); start, drain and stop of the dispatcher. In `IncidentIngestion` a broken
insert takes effect at once or never: a commit that lands after the retry's
look-ups is not modelled. An operator's incident that names the alerts' own type
is taken as one that names none, which is matched alike. `markProcessing` and
`markDelivered` of the producer and `cleanup_expired_idempotency_entries` have no
caller. Two components were surveyed only: the optimistic lock of user
preferences, and the configuration store.

## 7. Plan

Done: the outbox with its two refinements, the delivery queues, timers and loops,
records, background components, and a proof of every safety property the passing
runs check. Next, in this order:

1. Composition of `Outbox` and `DeliveryQueue`: from a published event to an
   accepted request, with event replay as a further actor.
2. The connection pool as a resource of `Outbox`'s workers and handlers, and
   whether they can all wait for each other.
3. A commit of `IncidentIngestion` that lands after the retry has looked.
4. Preferences, configuration store and the Horizon client's batches.
