# Webhook Courier in TLA+

Specifications of the webhook delivery service in `src/webhook_courier`:
models of its components for TLC, and theorems about them for TLAPS.

Run a model with `tlc -config DeliveryRace.cfg MCDelivery`, a proof with
`tlapm DeliveryProofs.tla`. `PROJECT.json` lists the runs, the source lines of
every definition, the hazards and the theorems.

## 1. The system

Webhook Courier accepts messages over HTTP, stores them in a database and posts
them to the endpoints of its users until the endpoint answers with a 2xx or the
message's retries are used up.

| Part | Source | State | Operations |
|---|---|---|---|
| Message API | `api/messages.py` | rows of `messages` | ingest, route, cancel, retry (single and batch), delete |
| Dispatcher | `core/dispatcher.py` | poll loop, semaphore, delivery tasks; `messages`, `dead_letters`, `delivery_logs` | recover, fetch, deliver, mark, reschedule, bury, log, stop |
| Circuit breaker | `core/circuit_breaker.py` | a circuit per endpoint, in memory | can_attempt, record_success, record_failure, force_close, load_from_db |
| Health checker | `core/health_checker.py` | `is_active`, `circuit_state`, `failure_count` of an endpoint's row | probe, persist, auto-disable, auto-recovery |
| Endpoint API | `api/endpoints.py` | rows of `endpoints`, limiter rates | create, patch, delete |
| Rate limiter | `core/rate_limiter.py` | token buckets, in memory | configure, acquire, remove, update_global_rate |
| Dead letter queue | `dlq/dead_letter.py` | rows of `dead_letters` | replay, batch replay, purge |
| Alerter | `core/alerter.py`, `api/alerts.py` | `alert_configs`, `alert_logs` | maybe_alert |
| Configuration | `config.py`, `main.py` | settings | reload, which replaces the semaphore and the global rate |
| Metrics | `metrics/collector.py` | counters, gauges, histograms | observe, export |
| Migration | `migrations/migrate_v2.py` | schema | backup, DDL, restore |
| Tenancy, schemas, subscriptions, logs, signing | `auth/`, `api/`, `core/` | rows | CRUD, validation, queries |

How they interact. The API handlers are plain functions in the threads of a pool,
each with a database session of its own. The dispatcher, the health checker and
the alert tasks are coroutines of one event loop: between two `await`s nothing
else on the loop runs, but a handler in a thread may commit at any time. The
dispatcher asks the circuit breaker and the rate limiter before each attempt and
reports its outcome to the circuit breaker; the health checker drives the same
circuits. Handlers and loop meet in the database only, apart from the limiter.

How the database behaves. The sessions have `autoflush=False`. SQLite opens a
transaction at the first write and not at a SELECT: what a handler has read may be
stale when it writes, and from its first write to its commit a thread holds the
only write lock. The ORM writes changed attributes by primary key, whatever else
has become of the row; a changed row that is gone fails the whole commit, a
deleted row that is gone is only a warning, and a query-level UPDATE or DELETE of
missing rows matches nothing.

What is hard, and where it bites (the `hazards` of `PROJECT.json` give the lines):

- a cancel, retry or delete that races with the attempt it is about;
- a fetch in three statements, between which rows change;
- the counts of an outcome, which come from a snapshot;
- stops of the process with posts made and not recorded;
- exceptions that a task does not handle, collected and dropped by `gather`;
- answers of the receiver that are lost or late;
- the boundary of the retry budget when calls of retry do not reset the count;
- the health of an endpoint, kept in memory, in its row, and in the user's mind;
- duplicate keys under concurrent ingests, routes and replays;
- alerts whose deduplication is checked before an `await` and written after it;
- a limiter that is told of a change after its commit, and by several threads;
- a breaker, a checker and pending messages that wait for one another;
- a semaphore that is replaced under the tasks that wait for it;
- a migration whose statements are durable one by one, next to a service that starts;
- requests that are authenticated by two queries and act later.

What makes each part correct:

- *dispatcher and message API*: every accepted message is delivered, dead or
  deleted in the end; a row in flight always has somebody who will move it; a
  message is posted at most `max_retries + 1` times, save for retry calls and stops;
  counts never go back; whatever was counted is logged; an exhausted message
  leaves a dead letter;
- *circuit and health*: the circuit trips on consecutive failures only, an open
  one is tried again, what the checker disabled it enables again; no message loses
  its retries to a single bad probe;
- *rate limiter*: in any stretch of time an endpoint is let through as often as a full
  bucket and its rate allow, the rate is that of the row, and nobody starves;
- *intake*: responses name stored messages, a key has one row, a letter is copied
  once and is marked exactly when it was;
- *alerts*: within a cooldown an alert is repeated only by tasks that overlap, and
  failures that go on are not silenced for good;
- *configuration*: after a reload all components work with the same settings, and
  no batch is left waiting;
- *migration*: a recorded version means a complete schema, and a repeated run completes
  what an interrupted one began;
- *registry*: a schema version means one schema; nothing is registered for an
  application that is gone.

## 2. The modules

| Module | What it is |
|---|---|
| `Delivery` | messages, poll loop, delivery tasks, handlers of cancel, retry and delete, stops |
| `WorkQueue` | the abstract specification of `Delivery` |
| `DeliveryRefinement` | the refinement mapping |
| `EndpointHealth` | circuit, health checker, PATCH of `is_active`, restart |
| `Courier` | `Delivery` and `EndpointHealth` in one process |
| `Intake` | ingest, route, replay, batch replay, purge, delete |
| `Alerting` | concurrent alert tasks |
| `RateLimiter` | the limiter, the endpoint API that tells it, the start that loads it |
| `TokenBuckets` | the abstract specification of `RateLimiter` |
| `HotReload` | reload of the settings, and the semaphore under a batch |
| `Migration` | runs of the migration script next to starts of the service |
| `Registry` | applications, keys, authentication, subscriptions, schemas |
| `MC*` | instances for TLC |
| `*Proofs` | theorems about the module of that name; those about `DeliveryRefinement` are in `DeliveryProofs`, those about `Courier` in `EndpointHealthProofs` |

### Delivery

`status`, `attempts`, `due`, `deadLetters`, `logs` are columns and tables; `poll`,
`candidates`, `task`, `snap`, `unwritten` are the dispatcher's memory; `req` is what
each API thread has read and will write. `sent`, `acked`, `retried`, `crashes` are
history.

- *Fetch*: `Select`, `Claim`, `Load` are the three statements of
  `_fetch_pending_batch`; handlers may commit between them. `EndBatch` is the return
  of `gather`: the loop fetches again only when all tasks of the batch have ended.
- *Task*: everything up to the post is one step (`RefuseCircuit`, `RefuseRate`,
  `EndpointGone`, `Send`), the outcome is one step (`MarkDelivered`, `FailRetry`,
  `FailDead`, `Raise`), with the log entry in a commit of its own
  (`WriteLog`, `LoseLog`) before the loop runs anything else. These are the awaits of
  `_deliver`; the commits before a post are of this task's row only.
- *Receiver*: `ReceiverAccepts` while the post is under way. A failure after an
  acceptance is the lost answer or the timeout.
- *Handlers*: `…Read` loads the rows that the guard admits, `…Commit` writes them by
  primary key. A single call is a batch of one.
- *Stops*: `Crash` is a crash or `stop()`; `Start` is `_recover_in_flight` and the
  start of the loop.

The answers of the circuit, the limiter and the endpoint lookup are free choices,
and a backoff is any delay (`BecomeDue`). `MayRaise` names the messages whose task may
meet an exception that is not an `httpx.RequestError`; properties that such an
exception breaks are stated for the others, and `InFlightReclaimed` shows what
becomes of these.

### WorkQueue and DeliveryRefinement

A queue from which a batch is taken atomically, with a worker per message. A fetch is
one `Take` at `Load`: until then a claimed row still counts as ready, so a cancel
between claim and load takes nothing from a worker. A row that lost its task is ready
from then on, and the recovery is a stutter.

### EndpointHealth

One endpoint: circuits of different endpoints share nothing. The circuit's state
(`state`, `failures`, `trials`, `elapsed`), the row (`active`, `dbState`, `dbFailures`),
and the work under way: posts, one probe, one PATCH. A probe records its result in the
circuit, loads the row and commits it without an await, so `LoopFree` keeps other
coroutines out meanwhile, but not the PATCH. Writes are of changed columns only: this
is why `Persist` uses the loaded `is_active`. `Restart` loads the circuit from the row
for an active endpoint only, as `lifespan` does. Counts are kept up to the threshold.

### Intake

A key is an endpoint with an idempotency key. `writer` is the holder of SQLite's write
lock. A route flushes row by row under the lock and commits at the end; a duplicate
(`RouteLoses`) rolls back everything the session had. A single ingest or a replay
flushes and commits in one go, so it needs the lock for one step only. `Fails` is any
exception the handler does not handle. A replay inserts a copy under a key made of the
letter's id, and marks the letter, in one commit that fails if the copy or the purge of
another came first. A letter stands for the key of its copy.

### Alerting

One endpoint and one error fingerprint, any number of configurations. A task has the
turn until it waits for a webhook. Of the log only the newest entry of a configuration
matters, and of that only its age up to the cooldown: no clock is needed. `sent_at` is
the time of the commit.

### Courier

`Delivery` and `EndpointHealth` over common state: the posts under way of the one are the
tasks that hold the semaphore in the other, and each choice that a module leaves free is
the other's state. A task is refused exactly when the circuit is open, is buried when
the endpoint is inactive, and its outcome goes to the circuit. The order of the questions
is that of `_deliver`: an attempt that the circuit lets through, and that is then out
of tokens or finds the endpoint inactive, has made the circuit half-open all the same
(`TurnedAway`). `LoopIdle` and `LoopFree` keep probes and fetches out of each other's
statements. `faults` counts the failures since the endpoint became active.

### RateLimiter, TokenBuckets

Time goes by in ticks, `Second` of them to a second, and a token is `Second` units: a tick
adds the rate, in whole numbers. The limiter refills a bucket when it looks at it, from
the time since the last look (`idle`, which matters up to a second). A handler commits
(`Create`, `Patch`, `Delete`), loads the row again (`Refresh`) and tells the limiter
(`Configure`, `Remove`): three steps, with other threads in between. `Restart` configures the
active endpoints as `lifespan` does. `TokenBuckets` refills at every tick and knows of no
handlers; the refinement maps its levels to what `acquire` would find. `RateLimiterProofs`
adds an observer who opens a window at any moment and counts.

### HotReload

A reload is a thread that holds the lock of `Settings`: environment, file, then the three
assignments of the callback, each a step. The file is a sequence of entries, of which a bad
one ends the pass with the earlier ones in effect. A semaphore is its number in the
order of creation, with its limit and its value; a task takes the one in force when
`async with` reads the attribute, and releases that one.

### Migration

`schema`, `indexes` and `records` are what the database has. A run looks for an object and
makes it in two steps, since sqlite3 opens no transaction before the INSERT at the end; that
is also why an interrupted or failed run leaves everything it made. `AppBegins` looks for all
tables at once, as `create_all` does, and makes the missing ones; it adds no columns.

### Registry

A request is anonymous (`AUTH_ENABLED` off) or admitted by `FindKey` and `FindApp`, then looks,
then commits. Rows are sequences in the order of insertion. `late` holds the requests whose
application ceased to be active after they had been admitted.

## 3. What the runs check

Passing runs:

- `delivery_race` (`DeliveryRace.cfg`): one message, two threads, one retry call, one
  stop, budget of two attempts. Two threads are what it takes for two handlers
  to meet each other and the dispatcher. It checks the types, `DeliveredMeansAccepted`,
  `InFlightOwned`, `SnapshotFresh`, `RetryBudget`, `ExhaustedAccounted`, `AuditTrail`, and
  on steps `TerminalIsQuiet`.
- `delivery_queue` (`DeliveryQueue.cfg`): two messages in one batch behind a semaphore
  of one, batch calls, a stop, and one message whose task may raise. It checks that
  `Delivery` implements `WorkQueue`, and `InFlightOwned`, which one message cannot show:
  the exception of one task takes nothing from the task of the other.
- `courier` (`Courier.cfg`): one message with two retries, a circuit of threshold two,
  probes and a stop. `AcceptedEnds`: a pending message is delivered, dead or deleted in the
  end, across the stop and although failed probes open the circuit again and again.
  `LostOnlyToOutage`: a message dies of a disabled endpoint only after as many failures
  as the breaker tolerates.
- `health` (`Health.cfg`): two posts under way, threshold, timeout and half-open requests
  of two, one restart. `TypeOK` includes that the row never says half-open, so no
  process starts so. `TripNeedsStreak`: until counts are loaded from the database the
  circuit opens on the threshold of failures in a row only, late answers included.
  `OpenEnds`, `CheckerRecovers`, `SustainedFailureDisables` are liveness.
- `intake` (`IntakeRace.cfg`): two threads, two keys, two letters, each row deleted at
  most once. `AnsweredIsStored`, `RouteReaches`, `MarkedIffCopied`, `CopiedOnce`,
  `PurgedStaysPurged`, and in the types that a lock is held exactly by a thread with
  flushed rows.
- `alerts` (`Alerts.cfg`): two tasks, a webhook and an e-mail configuration, a cooldown of
  one tick, lost entries and restarts. `SendsAreCovered`, `RepeatsOverlap`, and
  `KeepsAlerting`: suppression does not prolong itself.
- `limiter` (`Limiter.cfg`): two endpoints that share the bucket for all, calls about one of
  them by two threads, a restart or a reload. `ImplementsBuckets`: the lazy refill is the
  refill at every tick. `RateAgrees`: the limiter's rate is the row's once all handlers have
  told it, except for an endpoint that two calls changed at the same time or that was
  inactive at the last start. `NotStarved`: the moment in which an endpoint would be let
  through comes again and again.
- `reload` (`Reload.cfg`): a batch of three, two reloads, a file that sets everything, one
  broken off, one that no semaphore takes, one that stops all deliveries. `LimitsOfBatch`: a
  delivery runs behind a semaphore that was in force since its batch began, and each of these
  lets in at most its own limit (together they may let in more than the new limit says).
  `OneConfiguration`, and `BatchEnds`: the waiters of an old semaphore are served.
- `migration` (`Migration.cfg`): a table without an index and one with two, three columns, two
  runs, a start of the service, two interruptions. `RecordedIsComplete`, `IndexLostByStop`,
  `ServesComplete`; `UpgradeCompletes` is liveness. Deadlock is not checked: the service is
  up and nobody runs the script any more.
- `registry` (`Registry.cfg`): an application with a key, two threads, two subscriptions, two
  rows for one schema version. `VersionsFixed`, `OnlyLateOrphans`.

Each property has a mutant in `PROJECT.json`: a variant of a definition, defined next
to it under the name `<definition>_<change>` and used nowhere, with which the run finds
the property violated.

Runs that show where the code departs from what it says (`findings` has the details):

- `cancel_lost`: a message cancelled in flight is pending again when its attempt fails
  or is refused, since outcomes are written without a look at the status.
- `stranded`: a task that meets an exception other than `httpx.RequestError` leaves its
  row in flight as long as the process runs.

### What else the models show

Exceptions that the properties name are behaviours of the code. Those worth knowing:

- A cancel that read its row in flight makes a delivered message dead; retry and delete
  check and commit the same way (`messages.py:264-268`, `286-291`, `309-312`).
- A restart loads a failure count that counts every failed probe since the last
  auto-recovery: from then on the circuit may open on failures with successes in between
  (`main.py:40`). `TripNeedsStreak` holds until then.
- A good probe enables an endpoint that its user disabled (`health_checker.py:124`).
- Two alert tasks that wait for their webhooks at the same time both alert
  (`alerter.py:60`); `RepeatsOverlap` says when.
- A health URL that flaps for ever may keep a message waiting for ever: its bad answers open
  the circuit, its good ones close it, and the message asks at the wrong times
  (the alternative in `AcceptedEnds`).
- When the checker has disabled an endpoint, its pending messages die as soon as the circuit
  lets them through, with retries left (`dispatcher.py:164`).
- An endpoint that is inactive at a start is limited by the default rate of 50 when it is
  enabled later (`main.py:35`); so is, for as long as messages are left, one that was
  deleted.
- Two calls for one endpoint may reach the limiter in the other order than the database
  (`endpoints.py:76-78`).
- A concurrency of 0 makes a semaphore that admits nobody: a task that takes it waits
  for ever, and the batch with it, whatever is reloaded later. A negative one is refused by the
  callback, and the components keep what they had, while `settings` has the new values.
- During a reload the settings have the values of the environment before they get those of
  the file, `AUTH_ENABLED` included (`config.py:26`).
- The indexes of a table whose run was interrupted are never made: later runs and
  `create_all` find the table and pass it by. A failed run prints that the database was
  restored from the backup (`migrate_v2.py:240`); nothing restores it. A second successful
  run adds a second row of `schema_version`.
- A service may serve a database that lacks columns of `messages` and `dead_letters`: its start reads
  those of `endpoints` only.
- Without an application, two overlapping creates store two schemas of one version: the
  UNIQUE constraint holds two NULLs for different.
- Keys, subscriptions and schemas outlive their application.

### Bounds

`MaxRetryCalls`, `MaxCrashes`, `MaxRestarts`, `MaxRemovals`, `MaxCalls`, `MaxStarts`,
`MaxReloads`, `MaxRecords`, `MaxStops`, `MaxKeys`, `MaxSubs` and `MaxSchemas` bound the actions
that could go on for ever; all are guards. `MaxRetries = 1` gives a first attempt, a
retry and the boundary between them; a second retry behaves like the first, save that in
`courier` two failures are needed to open the circuit while a retry is left. One
retry call and one stop meet every state of the dispatcher. Two messages are the least
that share a batch, a semaphore and a batch call; handlers commit sets of rows, and
nothing in the code relates three messages. Two posts under way are the
least that answer out of order; a threshold of two is the least with a streak. Letters
and keys come in twos for batch replays and routes of more than one. Two calls of the
endpoint API are what it takes for one to overtake another, two ticks to a second what it takes
for a refill that is not a whole token. Three tasks and a limit of two make one wait,
and two reloads leave it behind two semaphores. Two runs and two interruptions let each run
fail at each statement. Two schema rows are the least that are twins. Counts in
`EndpointHealth` and ages in `Alerting` saturate where the code stops telling them apart.
The theorems below do not depend on these bounds.

### Fairness

`Delivery!Fairness` is weak: the event loop runs its callbacks, asyncio's semaphore is
first come first served, httpx ends every post by its timeout, time passes, and a
stopped process is started again. Nothing is assumed of clients or receivers.

`Courier` has a second coroutine on the loop, the checker, so that the fetch and the tasks are
enabled again and again instead of all the time: they are strongly fair, as the loop
serves its callbacks in turn. It is also assumed that a message which the circuit
lets through again and again is not each time out of tokens. For the limiter, `NotStarved`
says that tokens come again and again, and the messages of one endpoint draw on them in the
order of `next_attempt_at`. Nothing is assumed of probes but that one which has
its answer is persisted.

In `EndpointHealth` the clock and the probe loop are weakly fair. Probe results,
`Persist` and the admission of attempts are strongly fair: restarts and
probes that end by an exception may interrupt them, not for ever, and messages for the
endpoint keep the dispatcher asking. `CheckerRecovers` and
`SustainedFailureDisables` name as alternatives what the user, the receiver or the
probes may do for ever. In `Alerting` and `RateLimiter` only the clock is fair. In `HotReload`
the tasks of a batch are; reloads may stop half-way or never come. In `Migration`, runs and
starts go on, and somebody repeats them until the database is at v2 and the service serves.

## 4. What is proved

For every value of the constants, from the assumptions named in the modules:

- `DeliveryProofs`: `TypeCorrect`; `InFlightIsOwned`; `SnapshotIsFresh`,
  `RetryBudgetHolds`; `AttemptsGrow`; `DeliveryWasAccepted`, `ExhaustionIsAccounted`;
  `TerminalStaysQuiet`; `AuditTrailHolds`; `DeliveryImplementsQueue`.
- `EndpointHealthProofs`: `TypeCorrect`, `TripsOnStreak`; of `Courier`, `LossNeedsOutage`
  (its `LostOnlyToOutage`) and `ProcessDelivers`.
- `IntakeProofs`: `TypeCorrect`, `AnswersAreStored`, `RoutesReach`, `MarksMeanCopies`,
  `CopiesAreOne`, `PurgeIsFinal`.
- `AlertingProofs`: `TypeCorrect`, `AlertsAreCovered`, `RepeatsNeedOverlap`.
- `RateLimiterProofs`: `TypeCorrect`, `RatesAgree`, `LimiterImplementsBuckets`,
  `ThroughputIsBounded`.
- `HotReloadProofs`: `LimitsHold`, `ComponentsAgree`.
- `MigrationProofs`: `RecordsAreComplete`, `ServedIsComplete`, `IndexesAreMade`.
- `RegistryProofs`: `VersionsStayFixed`, `OrphansAreLate`.

With these, every invariant and every action property of the passing runs is a theorem. The
assumptions are about constants only: bounds are natural numbers, the threshold and the limits are
positive where the code needs them so, the concurrency of the environment is not negative (with a
negative one `asyncio.Semaphore` fails and no process starts), a migration script names each column once
and the start of the service reads some column of it, and a file of settings is a sequence of entries.

The arguments:

- *Budget.* `RetryBudget` is not inductive: it says nothing of how a post that is
  under way will be counted. `WithinBudget` adds that an attempt is to be had only below
  the budget, and that posts and `attempt_count` differ by the stops and by one post
  under way or lost with its row. It depends on the snapshot being the row's count,
  which is `SnapshotFresh`, which in turn depends on a message without a row having no
  task. The three are kept together, message by message (`Kept`): a step of one
  message leaves the ledgers of the others alone (`OtherMessage`), so only the steps
  of the message itself remain (`OwnStep`).
- *Evidence.* A delivered row, a success in the log and a task with an answer all go
  back to `ReceiverAccepts`; every count past the budget goes back to `FailDead`,
  `EndpointGone` or a delivery. `Evidence` also covers the entry still to be written.
- *Ownership.* Rows get in flight by `Claim`, which has them as candidates; `Load` gives a
  task to those still in flight, and a task leaves its row in another status.
- *Refinement.* Each action maps to an action of `WorkQueue` or to a stutter, from the
  type invariant and two facts about tasks and rows.
- *Circuit.* While no count was loaded, `failures` is at most the streak when the circuit
  is closed (`CountsStreak`). The row is never half-open because a probe leaves the circuit
  closed or open, and nothing else of the loop runs before it is persisted
  (`ProbeSettles`).
- *Process.* Each action of `Courier` has an action of `Delivery` as a conjunct or leaves its variables
  alone (`ProcessDelivers`), so that the theorems of `DeliveryProofs` hold of the composition.
  It does not implement `EndpointHealth` in the same way: a stop ends all posts at once, and there
  they end one by one.
- *Outage.* `LostOnlyToOutage` needs that an inactive endpoint has had its failures (`OutageFirst`),
  and that needs the same of a circuit that is not closed. Both counts, in memory and in the row, are at
  most `faults` (`FaultsCover`): the checker enables an endpoint, from when `faults` counts anew,
  only with a closed circuit and nothing counted (`ProbeKnows`). A stop does not get round it, since an
  active endpoint's row never says open (`RowIsClosed`).
- *Intake.* `Counted` relates inserts, deletes and the row of a key. The lock
  is what carries `AnsweredIsStored`: what a route flushed is not in the table, and no
  other thread can put it there, so the flushes after the first do not lose.
- *Alerts.* `SendsAreCovered` is inductive: entries get younger and never older than the
  sends they stand for.
- *Rates.* What a handler is about to tell the limiter is the row's rate as long as no
  other handler is between its commit and its call; the invariant says so for each thread and
  endpoint, and `unsettled` is where it stops.
- *Buckets.* The level that `acquire` would find is the abstract level: `Refilled` by n
  ticks and by one more is `Refilled` by n + 1, because the cap absorbs (products of
  two variables are handled by lemmas, one per product).
- *Throughput.* An observer, added to the limiter and not to the code, may open a window at
  any moment and counts the ticks and what is let through; it stops looking when the rate it
  watches is set, or the limiter starts anew. The tokens let through and the tokens left are at most
  a full bucket and the ticks' refill (`WindowLedger`). The steps of the limiter are taken as steps
  of `TokenBuckets`, so that no handler appears in the argument.
- *Audit trail.* `AuditTrail` is about the numbers of attempts that TLC's bounds allow;
  `Unaudited` is about all of them. Its cardinality is at most the number of stops because at
  most one entry waits to be written (`OneUnwritten`), so that a stop adds one element at most
  (`CrashTakesOne`), and because every other step keeps each covered attempt covered
  (`CoveredKept`). That the entry has the number which is counted is `SnapshotFresh`.
- *Limits of a batch.* For each semaphore ever made, its value and the number of deliveries that
  have entered it make up its limit (`Account`), and a task has taken a semaphore no older than
  its batch (`Taken`). `LimitsOfBatch` alone says nothing of the value that `Enter` tests.
- *One configuration.* The lock has at most one thread inside (`Lock`). What it has pushed so far
  is what `settings` says and the rest is what the last finished callback left (`usable`): the
  invariant says for rate and concurrency separately how far the callback has got (`ConfigInv`).
- *Migration.* Nothing drops a table or a column, and a run that has got to item n has seen or
  made the items before it (`ProgressInv`). For a served database, some run is beyond every
  column that exists while others are missing (`Led`), because a clash of two runs leaves the
  winner ahead: it needs that the columns are distinct and come last. For the indexes, what is missing
  of a table's is still ahead of the run or the start that made the table.
- *Registry.* Rows are never taken out and never change their version, so that what a creator
  saw missing under some number of rows stays missing there; a twin must be of a row that came later.
  A request that was admitted acts for an active application or is `late` (`Entitled`), which
  each step that deactivates or deletes keeps for all requests under way at once.

Only model-checked: liveness (`AcceptedEnds`, `OpenEnds`, `CheckerRecovers`,
`SustainedFailureDisables`, `KeepsAlerting`, `NotStarved`, `BatchEnds`, `UpgradeCompletes`), which
is out of the prover's reach.

## 5. What is not modelled

- Acceptance by the receiver after the task's timeout or the process's stop:
  `acked` may then be too small, which makes no property here easier.
- A second process on the same database: the code supports one (recovery takes all
  rows in flight).
- In `Courier`, the handlers of `Delivery` and the patches of `EndpointHealth`, and the tokens
  of `RateLimiter`; in `EndpointHealth`, the deletion of the endpoint and endpoints without
  `health_check_url`, whose row nobody but the user writes.
- An exception between claim and load is a `Load` followed by a `Raise` of each task.
- Settings that are read where they are used: they have whatever value a reload gave them.
- Which subscriptions match an event (any set, in `Intake`), the validation of payloads by the jsonschema library,
  filters of queries that only read, signing, logging.
- Metrics, delivery-log queries and exports: nothing in the program reads what they hold.
- The length of a backoff (`core/retry.py`): any delay, in `Delivery`.
- Alert configurations as rows: a task works with those it loaded.

## 6. Plan

Done: all modules of section 2, with their runs and proofs.

Worth doing next: lemmas that bring the liveness properties closer, such as the steps that keep
a helpful action enabled, and the relation of `HotReload`'s semaphores to the fixed `Concurrency`
of `Delivery`.
