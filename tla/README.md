# Formal models of api-observatory

TLA+ models of api-observatory: of its parts where several processes, coroutines,
threads or database transactions meet, and of the algorithms whose boundaries are
hard to test. TLC checks them on small instances; TLAPS proves the central
invariants for every value of the constants. `PROJECT.json` maps every definition
to the lines of `src/` it models and lists the runs, the hazards and the theorems.

Contents: [Inventory](#1-inventory) · [Modules](#2-modules-and-code) · [Runs](#3-runs) ·
[Findings](#4-what-the-violated-runs-show) · [Fairness](#5-fairness) ·
[Proofs](#6-proofs) · [Not modelled](#7-not-modelled) · [Plan](#8-plan)

## 1. Inventory

The program is a FastAPI service (`services/ingestor`) with PostgreSQL as its
shared state, Redpanda/Kafka as broker, Redis for caches, limits and locks, a
separate notification worker process, a Streamlit dashboard, an MCP server and
shared libraries (`libs/platform`). Several ingestor processes and workers may run
at once; inside a process everything is one asyncio event loop, so code between two
awaits is atomic. The dashboard runs threads.

| component | state | operations | what is hard | module |
|---|---|---|---|---|
| notification delivery worker | `inbox_consumptions`, `notification_deliveries`, DLQ rows in `outbox_events`, consumer offset | accept a request, claim due rows, send, settle / retry / dead-letter, commit the offset | crash between two commits, rebalance and redelivery, leases that run out during a send, unlocked reads of sibling rows | NotificationDelivery, DeliveryLifecycle |
| transactional outbox | `outbox_events` | insert by idempotency key, claim in leased batches, publish, mark | timeout of a send that was stored, marks written over a newer claim | Outbox |
| processed events | `processed_events` | insert, claim, mark, dead-letter | claims without a lease | ProcessedEvents |
| publish/subscribe, websockets | channel, connections | publish, hand-shake, subscribe, stream, ping, drop | events between handshake and subscription, vanishing receivers | EventStream |
| dependency incidents | `dependency_incidents`, health samples | reconcile after each sample, notify with cooldown, acknowledge, resolve | every read is unlocked; the only guard is the unique `active_key` | Incidents |
| lifespan, scheduler, source registry | jobs, sources, what has been started | start, stop, register, pause, soft-delete | order of shutdown, a job that outlives its source | Service |
| observations | table with a unique (source, timestamp) | create, upsert, change, archive, delete, page | racing upserts, paging under writes | Observations |
| retention job | observations and their archive | select, copy, verify, delete | no locks, overlapping runs | Retention |
| cache and distributed lock | linked LRU list, Redis keys with TTL | look up, invalidate, acquire, release | refill after invalidation, expiry while held | Caching |
| contract drift | baselines, candidates, snapshots, drift events | snapshot, confirm after three sightings, respond, accept, read | waiting on a row that another transaction supersedes; a review of a candidate that has since changed | ContractDrift, ContractSchema |
| incident-triage agent | `agent_runs`, graph checkpoints | create, run, wait for review, resume | double resume, crash while pending | AgentRuns |
| accounts and tokens | users, role rules, stateless tokens | register, log in, renew, rotate, delete, guard | two deletions at once, secret rotation | Accounts |
| rate limiting | Redis and process-local buckets, windows | admit, refuse, refill, expire | rounding and expiry at the edge of a token, fall-back | RateLimits |
| abuse detection, audit trail | `security_events` | detect, resolve, append to the hash chain | read-then-write of signals and of the last hash | SecurityEvents |
| dashboard | session state, listener threads | log in, connect, drain, clear | an old listener beside a new one, shared defaults | Dashboard |
| circuit breakers, probes | `_state`, counters | enter, record success / failure | results of calls admitted in an earlier state | CircuitBreaker |
| bulkhead, retry budget, composition | counters, waiters, timestamps | admit, wait, retry, reject | a slot announced but not reserved, cancellation | Resilience |
| command queue | heap of commands | enqueue, rebalance, execute, drain | priorities that rise while waiting | JobQueue |
| fetching and scrapers | filter of seen URLs | ask, fetch, mark | await between asking and marking | Fetching |
| MCP client | cached token, login lock | use, log in, log in again | racing past an outdated token | McpClient |
| background worker pool | queue, `_statuses`, `_order`, worker tasks, deduplication keys | start, submit, process, trim, stop | history shorter than the queue, cancellation in mid-task, a key that does not identify a batch | BackgroundWorkers |
| subscriptions, scorecards, reporting, analytics, other dashboard panels, inference, schemas, migrations, scripts | read-only or external | queries and I/O | no state of their own | none |

How they interact. The **scheduler** runs the probes of active **sources**. A probe
goes through its source's **breaker**, records a health sample and reconciles
**incidents**. An incident that opens or repeats writes a request into the
**outbox** in the same transaction (broker mode) or sends it directly after the
commit. A publisher loop moves outbox rows to the topic. The **notification worker**
consumes the topic, keeps one row per channel, and writes its dead letters back into
the outbox. A contract snapshot may create a **drift event** and an **agent run**,
which is triggered after the commit and waits for a reviewer. Calls of models and
providers go through bulkhead, retry budget and breaker. Ingestion batches go
through the **worker pool**; a new **observation** is published to the stream that
the **dashboard** listens to, and drops out of the **caches** when it changes.

What makes each component correct:

- delivery: a request whose offset is committed has its deliveries; a row is settled by
  its claim holder only; the inbox tells the truth about its rows and is finished in the
  end; a dead letter always has its DLQ record;
- outbox: nothing is marked published that the broker has not stored; published is
  final; every row is published in the end; consumers own what they process; a client of
  the stream has no gap;
- incidents: one active incident per trigger, each backed by evidence, none that nobody
  is told of, and a sample leaves exactly the incidents its policy asks for;
- service: every active source that a registration pass has seen has its jobs unless
  somebody stopped them; no other jobs fire, but for those of sources that DELETE or
  PATCH abandoned, until the process is restarted; shutdown takes nothing away from what
  still runs;
- observations: concurrent upserts agree on one row and fail only for a key whose row is
  archived or was lost meanwhile; paging by cursor gives each untouched row once;
  retention leaves each row in one table; a copy from before an announced change
  outlives its invalidation only after an overlap or a failed deletion; the lock
  excludes until it expires;
- contract drift: one active baseline; a drift event for exactly the third consecutive
  sighting; acceptance promotes what the reviewer looked at;
- agent: the verdict recorded is what was done; a run stalls only for a known cause;
- accounts and limits: an administrator remains; bursts are bounded and waiting as told
  suffices; the audit trail is a chain in the order of its ids; a resolution is not
  overwritten blindly;
- calls: a breaker opens on enough consecutive failures and closes on enough successes
  since it became half-open, late results included, and recovers with its dependency;
  retries stay within the budget; every call ends; every command that starts is the most
  urgent one and none is lost, however many runners overlap; what is skipped as seen was
  fetched;
- worker pool: workers do not die, statuses are true, accepted tasks finish, equal
  batches are inserted once and different ones are not dropped.

## 2. Modules and code

Paths without a prefix are under `src/services/ingestor/`, those that start with `libs/`
under `src/`. Each action is one database transaction, one external call, or one stretch
of code without an await. Where a transaction reads rows *without a lock* and writes
later, the read and the commit are separate actions: this is where the interesting
interleavings come from. Time is abstracted to what the code compares it with: a lease is
`none`, `live` or `expired`, a retry is `later` or `due`, and an environment action moves
from one to the next at any moment.

**NotificationDelivery** (`notification_delivery_worker.py`,
`notification_delivery_consumer.py`, `repositories/notification_delivery.py`).
State: the topic partition (`log`, `committed`, `assigned`), the inbox rows
(`inbox`, `inboxLease`), the delivery rows (`status`, `attempts`, `owner`,
`lease`, `next`, `arrival`, `dlq`) and each worker's program counter, position,
batch and outcome. `Poll`, `RejectPoison`, `ClaimNotificationRequest`,
`AddChannelDeliveries`, `ClaimDueDeliveries`, `Deliver`, `ScheduleDeliveryRetry`,
`OpenSettlement` / `CommitSettlement`, `ClaimConflict` and `CommitOffset` are the
worker's steps; `Crash`, `Restart`, `Rebalance`, `LeaseExpires` and `Publish` the
environment's. `OpenSettlement` takes the row lock and computes the inbox verdict
from the siblings it can see; `CommitSettlement` writes both. The uuid4 claim
token is represented by the worker that holds the batch: a worker runs one batch
at a time and forgets it when it dies.

**DeliveryLifecycle** is the abstract specification of the delivery rows: what
may happen to one row, with no workers, leases or broker. `RefinesLifecycle`
states that NotificationDelivery implements it.

**Outbox** (`repositories/messaging.py`, `notification_outbox_publisher.py`,
`models/events.py`). `AddOutboxEvent`, `ClaimPendingOutboxEvents`, `Publish`, `MarkRead` /
`MarkCommit`, `Abort`. The marks read a row by its token and write it by primary
key, so the two halves are separate steps; the session writes only the columns
that changed.

**Incidents** (`repositories/incidents.py`, `incident_lifecycle.py`,
`core/incident_notifications.py`, `api/routes/scorecards.py`). A session takes a sample,
flushes it, selects the active incident of each trigger, plans an insert, update or
resolution, and commits all of it; in direct mode it then dispatches and stamps the
notification. Operators read, then commit. A blocked insert waits for the other session's
key and fails if that one commits.

**ContractDrift** (`repositories/contract_drift.py`, `api/routes/contract_drift.py`).
Sessions hold the source row lock from `BeginSnapshot` on; reviewers lock only the active
baseline. Readers take the baseline, the events and the compatibility report in between.
Payloads are abstracted to structures, the diff to a relation `Drifts` (not symmetric: an
empty array says nothing of its elements).

**ContractSchema** has the pure functions behind it as operators: flattening of a
payload to the types at its paths (with the limit on inspected array elements), the
diff with its exception for arrays that were empty, score, event type and severity.
They are recursive and therefore TLC's only. `MCOperators` computes from concrete payloads
with them the values that `Structures`, `Drifts` and `Breaking` of ContractDrift have in
the run, and its `ASSUME DiffIsExact` compares the diff with a definition that does not
go path by path.

**CircuitBreaker** (`libs/platform/circuit_breaker.py`, `jobs/probes.py`,
`libs/platform/resilience.py`). One breaker in one of three styles: `probe` (asked
`is_open` first), `dependency` (counts transient errors only), `decorated`. A call reports
its result in whatever state the breaker is by then; `late` names the calls that were
under way when the circuit opened.

**BackgroundWorkers** (`core/background_workers.py`, `jobs/ingestion.py`,
`IdempotencyKeyTracker` of `libs/platform/retry.py`). `Start`, `SubmitBatchIngest`,
`Take`, `Insert`, `Close`, `Notified`, `Cancelled`, `Stop`, `KeyExpires`. `Take` covers
dequeueing, marking running and the duplicate check, which the event loop runs without
yielding.

**Service** (`main.py`, `core/scheduler.py`, `jobs_registry.py`, `core/handlers.py`,
`repositories/` and `api/routes/source_registry.py`). The stages of the lifespan
start in order and may fail; shutdown stops them in the code's order. Sources are
registered, changed, soft-deleted, stopped and started by hand; the jobs in the
scheduler, what APScheduler runs and what the rows say are three variables. A registration
asks for the active sources in one step and registers the missing jobs in another; PATCH
and DELETE tell the scheduler nothing (`abandoned` names the sources they leave behind).

**Observations** (`repositories/observations_crud.py`, `observations_queries.py`,
`api/routes/observations.py`, `observations_v2.py`, `api_schemas/observations.py`).
Every handler that writes or reads rows. An upsert that loses the unique key, which
archived rows keep, rolls back and selects the active row in a second transaction
(`overtaken` names the upserts whose key lost its row in between); a scan follows cursors
from page to page; both interleave with all writes.

**Retention** (`src/labs/retention/`). The statements of one batch are separate
steps at READ COMMITTED, beside another run and clients that create, change and
remove rows; the lock is Redis's, or granted to everyone without a client.

**Caching** (`cache.py`, `api/routes/observations.py`). The doubly linked LRU list node by
node, the Redis layer behind it, and requests that go from one to the other and to the
database with an await after each: `GetObservationWithLru`, `GetObservation`, `BackFill`,
`ReadRow` and `SetObservation` of a read, `ChangeObservation` and the two halves of the
invalidation of a change, `ChangeUnannounced` for the routes that invalidate nothing.
`SetObservation` writes what `ReadRow` read, whatever has happened since. Also the list
cache with its scan-and-delete, and `redis_lock` with expiry.

**AgentRuns** (`agent/runner.py`, `nodes.py`, `graph.py`, `api/routes/agent.py`,
`notifications.py`). The row, the fire-and-forget task, the graph node by node with
its checkpoints, reviewers that resume, the fan-out of the last node (which does nothing
where `notifications_enabled` is off), crashes.

**Accounts** (`core/auth.py`, `api/routes/auth.py`, `repositories/users.py`,
`core/tenant.py`, `core/bootstrap.py`, `libs/platform/auth.py`). Accounts, role
rules, access, refresh and internal tokens, rotation of secrets, the guards of the
routes. A deletion counts the administrators in one transaction and writes in another.

**RateLimits** (`rate_limiting_token_bucket.py`, `rate_limiting_advanced.py`).
Integer tokens and ticks; the Redis bucket, its process-local substitute and the
sliding window.

**SecurityEvents** (`core/security/`, `repositories/abuse_detection.py`,
`repositories/security_audit.py`, `api/routes/abuse_detection.py`). Rules of the
detectors with their thresholds, signals and their resolution. An audit append is three
steps: `AppendRead` takes the hash of the highest id committed, `AppendInsert` gets an id,
`AppendCommit` makes the row visible, so that ids may be committed in another order.

**EventStream** (`events.py`, `pubsub.py`, `api/routes/ws.py`) and
**ProcessedEvents** (`storage/events.py`): publication to Kafka and to the channel
up to the WebSocket handlers; the table of consumed events with its claims.
`MarkEventProcessing` reads any row, whatever its status and whoever has it, and
`CommitProcessing` writes what was computed from it.

**Resilience** (`libs/platform/bulkhead.py`, `retry.py`, `resilience.py`): one
dependency's bulkhead, retry with a shared budget and breaker, in the code's nesting,
with cancellation while waiting.

**JobQueue** (`jobs/queue.py`). The heap with the priorities computed at enqueueing, and
several runners that overlap in `run_next` and `drain` at the await of a command, which may
return, raise or be cancelled. **Fetching** (`fetch.py`, `scrapers/`): deduplicated fetches,
and the three scrapers; `ScrapePageFails` is the loop of HttpScraper that raises after it
has marked earlier posts.

**McpClient** (`src/services/mcp/`), **Dashboard** (`src/services/dashboard/`,
the live stream): see the head of each module.

`MC*` modules define what a `.cfg` cannot (symmetry sets, relations). Four modules
gather components that share no state that the models keep:

- `MCMessaging`: Outbox, EventStream, ProcessedEvents;
- `MCSources`: Incidents, Service, Observations, Caching, Retention;
- `Operators`: ContractDrift, AgentRuns, Accounts, RateLimits, SecurityEvents, Dashboard;
- `MCCalls`: CircuitBreaker, Resilience, JobQueue, Fetching, McpClient.

Their initial states choose a `part`; a behaviour then follows that component (or one
aspect of it) and leaves the others at their initial state. The state space is the
sum of the components' spaces, not their product, and every property says which parts
it is about. `MCView` leaves out the variables of the other parts, which are constant.
MCSources and MCOperators are symmetric in the sets of interchangeable actors and
check no liveness; MCMessaging and MCCalls check liveness and use neither.

The gathering modules declare the constants of their parts and what the parts assume of
them as named `ASSUME`s (`CachesAssumption`, `LimitsAssumption`, `QueueAssumption`, ...);
the `.cfg` gives the values. `MCOperators` extends `Operators` by the values that need
the recursive definitions of ContractSchema, so that theorems can be stated about
`Operators`, which has none.

Definitions named `X_Something` next to `X` are variants of `X` with a plausible
mistake; they are used by no specification, and each shows which property notices
the mistake.

## 3. Runs

| run | instance | checks |
|---|---|---|
| `delivery_safety` | 2 workers, 2 channels, a valid and an invalid message, 2 records, 1 fault | inbox aggregates, dead letters, claimability, send budget, holders, refinement of DeliveryLifecycle |
| `delivery_liveness` | 2 workers, 1 channel, redelivery, 1 fault | the partition drains, the inbox finishes |
| `messaging` | outbox: 2 publishers, 2 events, batches of 2, 3 faults; stream: 2 clients, 2 events; consumers: 2, with 2 keys, claims of 2, 3 marks, 1 crash | nothing lost, published is final, duplicates are paid for by faults, every event published, no gaps, claims, counters and owners of what is processed |
| `sources` | incidents: 2 sessions, 1 operator, 4 samples, threshold 2, 2 rows, both modes; service: 2 sources, 3 changes, 2 lives; observations: 3 rows, 2 timestamps, up to 4 writes, pages of 1; cache: 2 entries for 3 keys with one request at a time, and 2 requests at once for 2 keys, 1 failure; lock: 3 jobs; retention: 2 runs, 2 rows, 1 change of each | keys, evidence, notification, exact reconciliation when undisturbed; which jobs fire, in both directions; upserts, archive, paging; caches and lock |
| `operators` | contract: 3 structures, 2 sessions, 2 reviewers, 7 snapshots, 2 versions (4 with a crash and readers); agent: 2 reviewers, 1 fault, notifications on and off; accounts: 3 names, 3 changes; limits: capacity 2, rate 2/3, 7 ticks; 2 signals, 4 audit ids, 3 emitters; dashboard: 2 sessions, 2 listeners, 2 messages, logins and logouts before the first of them | one baseline, no missed or doubled drift, reviewed candidate; agent runs; administrators; limits; audit and signals; live stream |
| `calls` | breaker: 3 callers, threshold 3, 2 half-open successes, all styles; 4 calls, concurrency 1, queue 2, 1 retry token per window; 3 commands, 2 runners, 1 that raises or is cancelled; 3 URLs that share bits, 2 fetchers, 2 scrapes of 2 rows, pages of up to 3; 3 MCP calls, 3 logins, 1 lapse | transitions are earned, recovery; budget and slots, calls end; order of starts; seen is fetched; logins are needed |
| `workers` | 2 workers, queue 2, 4 tasks, history 1 or 2, 1 expiry | survival, one insert per key, tasks finish |
| `delivery_lost`, `delivery_inbox_stuck`, `incidents_zombie`, `source_breaker_stuck`, `batch_dropped` | smallest that shows it | violated: section 4 |

Why the bounds are enough to mean something. *Delivery*: two workers and two channels are
what the sibling race needs; two log records give one redelivery, one fault gives a crash
or an overrun lease at any step, and the attempt limit is the code's own 3, so retry,
exhaustion and dead-lettering all happen. The liveness run has one channel because with
two the sibling race makes `InboxSettles` false (`delivery_inbox_stuck`). *Outbox*: three
faults let both publishers overrun a lease and a send time out after being stored.
*Incidents*: four samples with threshold 2 open, repeat and resolve both incidents; two
rows let one trigger reopen. *Service*: two lives give a restart, three changes a stop by
hand between two registrations. *Observations*: two writers of one key plus a third write
that archives or removes the winner's row; two timestamps for three rows force equal
timestamps at the end of a page. *Cache*: three keys overfill two entries; two requests
for one key give a reader beside a change, a read or a change by a route that invalidates
nothing; three jobs are what a holder that overran, its successor and the one let in by a
foreign release need. *Retention*: two runs over the same two rows, each of which may
change once. *Contract*: the confirmation count is the code's 3; seven snapshots hold a
baseline, two full confirmations and one interruption. *Accounts*: two administrators
that delete each other need three changes. *Limits*: 2/3 of a token per tick makes every
rounding case occur. *Audit*: three emitters and four ids allow a fork, two ids committed
in the wrong order, and an append after them. *Consumed events*: three marks let a mark
from any status overlap a claim and another mark. *Commands*: two runners overlap over
three commands, one of which may end badly; one tick lets a boost fall due. *Dashboard*:
a listener that still waits beside its successor. *Breaker*: three callers can straddle
closed, open and half-open. *Calls*: of four calls one holds the slot, two wait and one
is rejected or overtakes. *Fetching*: the bits of any two URLs cover the third, so false
positives occur; pages of up to three rows exceed the limit of two. *Workers*: four tasks
overfill a queue of two with two workers busy; history 1 is the configuration shorter
than the queue. `MaxCalls`, `MaxSends` are ceilings at which history counters saturate.

Deadlock checking is off where the system may rest: all events published, all
samples taken, a bound reached, the pool stopped.

Several properties are exact about a race that the code does not exclude: a history
variable records that the race happened, and the property says that nothing *else*
leads to the outcome. `AdminRemains` (overlapping deletions), `TrailIsChain`
(overlapping appends), `CachesAgree` (a read that overlaps a change or an invalidation, a
route that invalidates nothing), `ProcessingHasOwner` (a mark that overlaps another
consumer), `UpsertsAgree` (a key that loses its row between INSERT and SELECT),
`OnlyTheseFire` (sources abandoned by PATCH or DELETE), `ScrapedOnce` (what each scraper
drops), `ResolvedOnce`, `StalledHasCause` and `RowsHaveOneHome` are of this kind; section 4
lists the races.

Properties worth reading first: `InboxAggregatesDeliveries`, `OnlyHolderSettles`,
`SendsWithinBudget` (a provider is called at most once per recorded attempt plus once per
fault), `PublishedWasSent`, `NoSilentIncident`, `ReconciledWhenUndisturbed`,
`NoMissedDrift`, `AcceptsReviewedCandidate`, `TransitionsAreEarned`, `CallsEnd`,
`ScanIsStable`, `LimitsHold`, `WorkersSurvive`.

## 4. What the violated runs show

- `delivery_lost`: the inbox claim is committed before the delivery rows are
  inserted. A crash in between and a redelivery within the inbox lease is answered
  `claimed = False`; the worker commits the offset and the request is lost, against
  the at-least-once promise of the worker's docstring and ADR 016.
- `delivery_inbox_stuck`: two workers settle the last two channels at once, each
  sees the other's row unsettled, and the inbox stays `processing` for ever.
- `incidents_zombie`: an acknowledgement read before an automatic recovery and
  committed after it revives the resolved row without its `active_key`; the next
  failure opens a second active incident.
- `source_breaker_stuck`: the probes return while `is_open`, and only
  `breaker.call` would move the breaker to half-open, so it never closes again.
- `batch_dropped`: the deduplication key is the day and the batch size, so another
  batch of the same size is skipped and reported as succeeded.

Smaller observations without a run of their own, from writing the models.

Races that the code leaves open, and properties allow for: two administrators that delete
each other leave none; concurrent audit appends fork the hash chain, and their ids may be
committed in another order than they were given; two reviewers of one agent run both
resume it; a reader that overlaps an invalidation puts an outdated row back into the LRU
cache, where nothing expires; a read that awaits between its SELECT and `set_observation`
stores a row that has changed meanwhile, for an hour; a lock holder that overran deletes
its successor's key; `occurrence_count` can lose an increment, and then two notifications
share a message id and the outbox swallows one; a row that changes between the retention
job's SELECT and its DELETE is archived with its old content; the job's command line
never connects Redis, so its lock is always granted; `force_relogin` of the MCP client
has no second look under the lock, so N concurrent refusals log in N times, and it drops
the cached token before it waits for the lock, so that a call which comes in between logs
in too: up to two logins for each refusal, which is the bound of `LoginsAreNeeded`.

Breakers: the docstring's "one probe call" in half-open is not enforced; results count in
whatever state they arrive, so that a late success of a call admitted before the breaker
opened closes a half-open one, and late failures of such calls trip it after it has closed;
the decorator's success handler closes the breaker from open as well.

Processed events and commands: `mark_event_processing` looks at neither the status nor the
owner of a row, although its docstring speaks of pending to processing: it takes an event
from the consumer that has it, begins a completed one again, and a dead letter that is
marked again keeps its `dead_letter_queue`. A command that is cancelled while it runs is
neither put back nor logged, and `run_next` and `drain` of several callers overlap.

Incidents, drift and agent: two overlapping failing samples each see only their own;
a drift that is cleared and confirmed again emits a second event; a snapshot that
races the first one of its source is lost to the unique index; an agent run stays
pending after a crash between commit and trigger.

Observations and caches: the assertion of `upsert_observation` says that a conflict without
an active row "can only occur if the observation was soft-deleted between INSERT and SELECT
(extreme race condition)" (`repositories/observations_crud.py:281-286`). The unique
constraint counts archived rows, so an upsert of a key that was archived at any earlier time
fails in that assertion every time, without any race; `UpsertsAgree` states both causes. The
routes that update and archive a row never invalidate its cached copies
(`api/routes/observations.py:300-318, 356-371`), which the next read then returns.
`ObservationResponse` requires `source`, which the rows have
only as `source_id`, so that rendering a row fails after a write has been committed;
the guard of the session-secured writes lets none through; the list cache is
warmed under source ids, read by names, and neither read nor invalidated by the
application; the functions of ProcessedEvents have no caller.

Service: the jobs of a source that DELETE or PATCH took out of service go on firing until
the process is restarted (their handlers skip the source); `/readyz` answers 200 when
there is no cache client although its documentation says 503; a scheduler job's
`max_retries` is not used; PATCH of a source's interval does not reschedule its job;
`max_tracked_tasks` also drops the statuses of queued and running tasks, and the settings
allow it to be smaller than the queue.

Security: the key detector returns the first rule that applies where its
documentation speaks of the highest severity; the metadata of an audit event enters
its hash but is not stored, so that the hash cannot be computed again; the initial
administrator is only created by `scripts/seed_admin.py`.

Streams: without a Kafka producer nothing is published to the channel either; a
closed WebSocket is noticed at the next send; `BrowserScraper` marks URLs before they
succeed or the limit is reached, and `HttpScraper` marks each post inside a loop that a
later post without `id` ends with a KeyError: what was marked is skipped for ever.

Dashboard: the default list and dictionary are shared by all sessions of the process
until Clear or trimming replaces the list; the login stores no expiry, so that the
refresh is never reached; logging out leaves the listener running with its token;
after a connection error the next run of the page usually starts a new listener
instead of showing that it is disconnected.

## 5. Fairness

Safety runs use `Spec`; `FairSpec` adds:

- *NotificationDelivery*: each worker's step is weakly fair (its loop runs while the
  process lives) and so is its restart (the container restarts it); an unassigned
  partition is assigned again (the group coordinator); retries fall due and leases
  run out because the clock advances. A lease is only forced to run out when no live
  batch handles the row: nothing in the code makes an overrun inevitable.
- *Outbox*: the publisher's step, retry times and leases of unhandled rows, for the
  same reasons.
- *CircuitBreaker*: each caller's step (calls are made periodically) and the
  recovery timeout. No fairness makes the dependency heal.
- *Resilience*: each call's own steps, which the event loop runs when they are ready;
  never its cancellation or the outcome of the request.
- *BackgroundWorkers*: each worker's step (the event loop runs ready tasks). No
  fairness for submission, stopping or expiry.

In MCMessaging and MCCalls the same conditions hold for the part that is followed.
Faults, crashes, operators, samples and reviews are never fair. All other modules
have safety properties only.

## 6. Proofs

TLAPS checks these for all values of the constants. The hypotheses are the named
`ASSUME`s of the modules that declare the constants (finite or disjoint sets, positive
limits), which TLC evaluates on the runs' values. All safety invariants and action
properties of the passing runs are proved, and the refinement.

A theorem about one component is stated for its own specification (`RL!Spec =>
[]RL!LimitsHold`). The theorem whose name ends in `Beside` says the same of the
specification that the run checks, where the component is one part next to others: a
step of another part leaves its variables as they are.

| module | theorem | property of a run | says |
|---|---|---|---|
| NotificationDeliveryProofs | `InboxIsSound`, `DeadLetteringIsAtomic`, `RowsStayClaimable`, `StaleBatchNeverWrites`, `SendsAreBounded`, `ImplementsLifecycle` | every property of `delivery_safety` | section 3 |
| OutboxProofs | `NothingIsLost`, `PublicationIsFinal`, `DuplicatesArePaidFor` | `PublishedWasSent`, `PublishedIsFinal`, `DuplicatesNeedFaults` | published events are stored, published is final, copies need faults |
| MessagingProofs | `EventsHaveOwners`, `EventsHaveOwnersBeside` | `ProcessingHasOwner` | claims, counters and owners of processed events |
| | `StreamIsComplete`, `StreamIsCompleteBeside` | `StreamHasNoGaps` | every event since the subscription, in order; the registry holds the running handlers |
| BackgroundWorkersProofs | `NoWorkerDies`, `InsertsAreDeduplicated`, `NoOrphanedStatus` | `WorkersSurvive`, `OneInsertPerKey` | no worker dies, one insert per key, no status without a worker |
| IncidentsProofs | `IncidentsAreTold`, `IncidentsHaveEvidence`, `UndisturbedReconciles`, `KeysOnActiveRows`, `KeysAreUnique` | `NoSilentIncident`, `IncidentHasEvidence`, `ReconciledWhenUndisturbed` | everything the `sources` run says of incidents, and the unique key |
| SourcesProofs | `JobsAreFollowed`, `JobsAreFollowedBeside` | `JobsFollowSources` | every seen, unstopped active source has its jobs, no others fire but abandoned ones; shutdown takes nothing from what runs |
| | `RowsAreReadOnce`, `OneHome`, `ObservationsAreKept`, `ScansAreStable` | `ObservationsKept`, `ScanIsStable` | one row per upserted key, failures of upserts, one table per row, each untouched row on one page |
| | `CopiesAreFresh`, `CopiesAreFreshBeside` | `CachesAgree` | LRU order, copies that outlive an invalidation have a cause, the lock excludes |
| | `PartsAreWellFormed` | `WellFormed` | types of all parts |
| OperatorsProofs | `OneBaseline`, `DriftIsReported`, `EventsAreConfirmed`, `AcceptsReviewed` | `NoMissedDrift`, `DriftIsConfirmedOnce`, `AcceptsReviewedCandidate` | everything the `operators` run says of drift |
| | `VerdictsHold`, `VerdictsHoldBeside` | `RunsAreAccountedFor` | verdict and deeds agree, a stalled run has a cause |
| | `AdminsRemain`, `AdminsRemainBeside` | `AdminRemains` | an administrator remains |
| | `LimitsAreKept`, `LimitsAreKeptBeside` | `LimitsHold` | bursts, Retry-After, sliding window |
| | `RecordsHold`, `ResolvedByOne`, `RecordsHoldBeside` | `SecurityRecordsHold` | the chain, severities, resolutions |
| | `StreamsAreShown`, `StreamsAreShownBeside` | `ShowsOwnStream` | one listener, own messages without a gap |
| | `PartsAreWellFormed` | `WellFormed` | types of all parts, one active baseline |
| CallsProofs | `TransitionsEarned`, `TransitionsEarnedBeside` | `TransitionsAreEarned` | what opens and closes each style, late results included |
| | `CallsAreBounded`, `LoginsHaveCauses`, `BudgetHoldsBeside` | `BudgetHolds` | slots, retry budget, logins |
| | `UrgentFirst`, `UrgentFirstBeside` | `MostUrgentFirst` | every start is the most urgent command, none is lost or repeated |
| | `FetchesAreSound`, `FetchesAreSoundBeside` | `SeenIsFetched` | what is skipped was fetched; what each scraper marked and lost |

Each module also has its `TypeCorrect` or has the types in its invariant. `KeysAreUnique`,
`KeysOnActiveRows`, `NoOrphanedStatus` and the `TypeCorrect` theorems are about properties
that no run lists by themselves.

### Delivery and messages

**NotificationDeliveryProofs.** The inductive invariant `Inv` adds to the checked
invariants what makes them inductive:

- `RowsTogether`: the rows of a request exist all together or not at all, because
  they are inserted in one transaction; without it a verdict could be computed from
  half of the siblings;
- `Defaults`: a row that was never inserted has its initial columns;
- `BatchRowsExist`: a batch names only inserted rows;
- `LockInv`: while a settlement is open its worker still holds the claim, because
  the row lock keeps every other claim away, and the verdict it read is still sound.
  Soundness survives concurrent settlements since a verdict is final only if all
  siblings were already settled, and settled rows never change.

The refinement theorem shows that every step maps to a lifecycle step or a stutter.

**Paid-for accounting** (`DuplicatesArePaidFor`, `SendsAreBounded`). "At most one copy
more than there were faults" is not inductive: the state before a duplicate looks
harmless. The invariants `SendsArePaidFor` and `CallsArePaidFor` count what may still
happen: to the copies already made they add `Owed`, one for each process that has the
row in its batch and has not sent it (`Pending`), and one if the row can be claimed
again without another fault (`Reopened`). A send moves one unit from owed to made, a
claim turns `Reopened` into a pending process, and only a fault makes room for more.
In the delivery module a new attempt makes room as well, because it is counted. The
sets of publishers and workers have to be finite for the sum to be a number.

**OutboxProofs**, the rest: `TypeOK`, `KeysInOrder`, `BatchInserted`, `SentIsStored`
(a publisher about to mark a row published has seen it stored). No lock is needed:
storing is monotone, so even a stale mark tells the truth.

**Processed events.** `Untouched` (nobody has or has claimed an absent or pending event,
and who reads a pending one reads just that) gives the single claimer, `ReadsAreBehind`
bounds the counter; `Undisturbed` (what a mark has read is still so and its reader alone
with the event, an owner implies `processing`, `processing` implies an owner or a crash)
gives the rest for every event whose marks did not overlap another consumer.

**Stream.** `StreamInv`: what a client got followed by what is queued for it is the
channel from its subscription on, and it has got nothing before. The lemmas
`MoveHead`, `ConcatAppend` and `SinceAppend` keep this equation of sequences under a
delivery, a publication and both.

**BackgroundWorkersProofs.** The core of `PoolInv` is first-in, first-out order: the
queue is the newest part of the submissions and the history the newest
`max_tracked_tasks` of them, so with `max_tracked_tasks >= queue_size` a dequeued task
is still in the history (`HeadIsTracked`). The lemmas `TailIsNewest`, `AppendIsNewest`,
`SubmitIsNewest` carry that through each operation. `DedupInv` counts, for a key, the
batches stored and the workers that await an insert against the times the key was
admitted: the check and the mark are one step, so a second admission needs an expiry.

### Sources

**IncidentsProofs.** Three layers, each on top of the one before:

- `ToldInv`: sessions and operators have rows in hand that exist, every stamped row is
  announced, and in broker mode every row is, because the message is part of the insert;
- `EvidenceInv`: no two samples share a time, a session that has not flushed has decided
  nothing, and one that wants to open has the evidence among what it sees. Samples are
  never taken back, so the evidence is still there at the commit;
- `ReconcileInv`: primary keys and active keys are apart also for inserts that are not
  committed, and a session that nobody disturbed still acts on what it read.

`TroubleIsConsecutive` shows that the code's test (the newest Threshold samples, all
bad, and enough of them) is the declarative `InTrouble`. The statement about undisturbed
sessions needed this: the code counts, the property speaks of sets.

**Service.** The jobs of the registry and what the scheduler's engine fires are two
variables. `EngineOk` relates them at any time (only registered jobs fire, a stopped one
does not), `JobsOk` says whose they are (active or abandoned sources, whom a pass has
seen) together with the answers that will give rise to jobs, `StartingOk` and `ServingOk`
say from which stage of the lifespan on every active source has its job, and `StoppingOk`
that the first k stages of the shutdown have ended. That nothing is taken from what still
runs is then a fact about the two orders (`OrdersAre`).

**Observations.** `KeysOk` says what a racing upsert may rely on: a key it has reported
is still taken, and until somebody overtakes it (`UpsertOk`) the row its INSERT ran into
is there, archived as it was then, so that the SELECT finds it exactly if it was active.
`ScanOk` is the loop invariant of a reader: a row that nobody touched has been seen once
if the cursor is past it and not at all if it is still to come. It is kept by every write
because stable rows keep their place in the order, and by a page because the page is the
next part of that order (`PageIsNext`, from the existence of least elements).

**Retention.** `LockedRows`: a run that has deleted its batch has all of it, still in
the table, and shares no row. It follows from the comparison of counts: the matched rows
are a subset of a finite batch, and of the same size, hence the batch. Neither the lock
in Redis nor the waiting INSERT is used, so `OneHome` holds for runs without a client
of Redis as well. `BatchCopies`: what a run copied is the latest content of every row that
did not change since.

**Caches and lock.** `LruOk`: following the links from either end gives the same sequence
of keys, the order of use, whose members are the keys stored. `Linked` says this as
equations between neighbours, so that unlinking and prepending a node are lemmas
(`RemoveLinks`, `PrependLinks`) about four equations and need no induction along the list.
`FreshOk`: a copy that is outdated is one that the invalidation under way has yet to reach,
in the list before its first half and in Redis before its second, and no reader has an
outdated answer in hand; what readers and the routes without invalidation leave is excused.
`PagesOk`: an outdated page is among those that the running sweep has found. `LockOk`:
until a lock has expired under its job, whoever is inside owns it.

### Operators

**Contract drift.** `Locks` (a session between begin and commit is the only one),
`InHand` (what sessions and reviewers carry), `CandidateIsCurrent` (the candidate is
the last structure observed, its count the streak, its event there exactly when
confirmed) and `DriftIsCandidate`. The latter two make the counter in the row equal to
the history of observations, which is what the three drift properties are about.
`Drifts` is an arbitrary irreflexive relation.

**Agent.** Three statements tie the row, the graph's checkpoint and the reviewers'
requests together: `CallOk` and `RunOk` say where each of them stands, `LoneCall` that the
only request for a run knows what the checkpoint says, `OverlapsRecorded` that two requests
for one run are known as an overlap. `DispatchedOnce` is what makes "one dispatch"
inductive: a dispatch that the checkpoint does not show yet is in the hands of the request
that made it. What a dispatch tries (`Targets`) depends on a setting that never changes.

**Accounts.** The count of administrators and the deletion are two transactions. Unless
deletions overlapped, at most one is under way, and an administrator remains whom it does
not concern (`AccountsInv`): that administrator is the one the count has seen.

**Limits.** `BucketOk`: what the bucket holds and what it admitted since any of its
admissions is at most a full bucket and the refill since then. The bound on the tokens of
any interval follows, and the proof of each step is linear arithmetic once the products
have names (`TimesGrows`, `CeilSuffices`, `RefilledBounds`). `WindowInv`: the deque is the
end of the admissions and everything before it is outdated.

**Audit and signals.** `ReadersOk`: an emitter between its SELECT and its INSERT holds
the newest committed row, unless it was overtaken. `InsertsOk` and `RowsOk` carry that
through the INSERT and the COMMIT: the predecessor is the newest row below the row's own
id, and it stays so because no id that is not yet committed lies below (`Settled`),
whatever the order of the commits. `ResolversOk`: a resolver's signal is still open, or
the overlap is recorded. `RowIsWorst` compares the first rule that matches with the worst
that applies.

**Dashboard.** `ThreadsOk` (threads are numbered, the living one is the one the session
knows), `QueueOk` (the queue is the end of what was handed over), `Shows` (a list has a
session's messages in order, without a gap, up to the last one drained) and `ClearedOk`
(after a Clear the list is the session's own). `Shows` is about any list, because
sessions may share the default one.

### Calls

**Breaker.** `CountIsStreak`: while the circuit is closed, and in the decorated style
always, the counter of failures is the current streak, whosever results it counted.
Half-open is excluded because there the other styles do not reset the counter on a success.
`CountIsPasses` does the same for the successes since half-open began, and
`OpenAdmitsNobody` is inductive: who is calling when the circuit opens becomes `late`.

**Bulkhead and budget.** `SlotInv`: the counters are the sizes of the sets of calls that
hold a slot and that wait, a waiting call is in the queue or has been told, and while the
queue is not empty the calls inside and those told fill the bulkhead. The last conjunct is
what a lost wake-up would break: a release, a cancellation of a told waiter and an
overtaking call all have to keep it. `BudgetInv`: the stamps in memory are the last
retries made and the forgotten ones are older than the window, so that the retries i and
i + MaxRetryTokens are more than a window apart.

**Command queue.** Entries are numbered by a counter and never tie; `Whereabouts` has each
command in exactly one place: an entry, one runner, or one end; the rebalance changes keys,
not entries, and the taking of a command has no await in it, so that overlapping runners
take different ones. `StartsInOrder` is about the past and kept by every later start.

**Fetching.** `CallsMeet` and `FetchedMeanwhile` cover the await between asking the filter
and marking: a URL fetched while another call worked on it is known as such. For the
scrapers, `OnePlace` and `Accounted`: a marked URL is with one call, or was returned
once, or was dropped, which `ByKind` denies for HtmlScraper.

**MCP.** `LoginsCounted`: the logins made, the calls on their way to another one and the
login that an unusable token makes due (`Due`) are together at most one, plus the passed
deadlines, the failed logins and twice the refusals. The sum goes up only where the right
side does.

### Only model-checked, and why

- the liveness properties (`PartitionDrains`, `InboxSettles`, `EventsGetPublished`,
  `Recovers`, `CallsEnd`, `TasksFinish`): fairness and ENABLED are outside the prover;
- ContractSchema and the `ASSUME DiffIsExact`: recursive operators, which the prover's
  backends do not take. The drift theorems hold for any `Drifts`; that the code's diff is
  such a relation is what the run's values show;
- the properties of the violated runs, which are false.

## 7. Not modelled

- **Subscriptions** are views computed from sources and drift events, and a test
  dispatch; **scorecards, reporting and analytics** aggregate tables; **vector
  search and inference** are one upsert and one query: no state of their own.
- The dashboard's other panels, the page of snapshots and the listing of incidents are
  single reads or single requests whose effects are modelled where they arrive.
- Rendering of messages and provider protocols, the HTTP request of a probe and its
  validation against private networks, the registry of HTTP clients, encoding of
  tokens, password hashing and the Casbin matcher: library code or outcomes.
- Schemas, configuration, migrations, scripts and the other labs: declarative code,
  tooling and exercises. The watermark is a single upsert.
- `reset`, `force_open` and `force_close` of the breaker and `register_inbox_message`
  have no caller.

One partition, one source, one tenant's rows, one rate-limit key and one dependency
are modelled at a time: different ones share no columns and no counters. Components
whose state meets only through an event (an incident's outbox row, a drift's agent
run) are checked separately, with the event as an input of the second.

## 8. Plan

Done: every component with state of its own is modelled and checked; all safety
properties of the passing runs are proved.

Next: a composition Incidents → Outbox → NotificationDelivery with an abstract
end-to-end specification of a notification would say more than its parts about
`occurrence_count`; its product of states needs coarser steps than the modules have.
