# PulseRoute: TLA+ models, checks and proofs

PulseRoute accepts webhook events over HTTP, stores them in Postgres with one
delivery row per destination, and delivers each row at least once with signed
HTTP requests, a finite retry budget, dead letters and replays. This directory
models the parts of it that are hard to test: the lease and fencing protocol of
the delivery queue, whole processes from their start over migrations to their shutdown
with the worker pool inside, the Redis token bucket, concurrent ingestion of one event,
deliveries to the demo receiver from end to end, accounts and the seed command that uses
them, concurrent changes of an endpoint, the dashboard's cache, and the loading of lists
in the browser.

Paths such as `internal/delivery/queue.go` are relative to the repository root.
`PROJECT.json` maps every definition to the lines it models, lists the runs, the
faulty variants each property is tested against, the hazards and the theorems.

## 1. The system and its parts

| Part | State | Operations | Hard behaviour |
|---|---|---|---|
| Delivery queue (`internal/delivery/queue.go`, tables `deliveries`, `delivery_attempts`, `dead_letters`) | rows with status, attempt_count, generation, next_attempt_at, lease_until, lease_token | `Claim`, `Defer`, `Finish` | workers of several processes, leases that expire under a live worker, stale results, lost answers, crashes between request and record |
| Worker, one row (`worker.go`, `process`, `deferJob`) | the `Job` read at the claim, status and reason of the request | cancel, throttle, send, record | endpoint policy read at the claim and used later; a deadline that passes between headers and body |
| Worker pool (`worker.go`, `Run`) | channels `slots` and `jobs`, the ticker, the context | reserve, claim, hand over, process, shut down | slots on every error path, blocking channel operations, closing order |
| Retry policy (`retry.go`) | none | `Retryable`, `Backoff` | shift, cap, jitter |
| Ingestion (`internal/api/ingest.go`, tables `events`, `api_keys`) | one transaction per request | authenticate, limit, decode, insert, look up, fan out, commit | the same event twice at once, a COMMIT whose answer is lost, endpoints that change during the fan-out, connections held while waiting |
| Replay (`internal/api/inspection.go`) | one transaction | `replay` | replays against replays and late workers |
| Endpoints (`internal/api/endpoints.go`) | the endpoint row | create, PATCH, DELETE | read-modify-write without a lock |
| Token bucket (`internal/redisx/redis.go`) | one Redis hash per key, with expiry | `Allow` | lazy refill, expiry, rounding |
| Dashboard cache (`redisx`, `dashboard`) | a JSON value for five seconds | `Cached`, `Cache` | old snapshots stored late, by slow requests or after their end |
| Accounts, sessions, projects, keys (`auth.go`, `projects.go`) | the tables `users`, `sessions`, `projects`, `api_keys`; the cookie of a caller | register, login, logout, create, revoke | user stored and session not; a session that ends under a request; two registrations of one address |
| Process (`internal/app/app.go`, `config.go`, `database.go`) | context, pools, server, worker, error channel | start, serve, stop | a signal or a failure at any point, the order of the shutdown, timeouts that must add up |
| Migrations (`migrations/migrate.go`) | `schema_migrations`, the advisory lock | `Apply` | several processes and releases at once, failures half way, a COMMIT without an answer |
| Demo receiver (`internal/receiver/receiver.go`), signatures (`security.go`) | a counter per delivery, its secret | verify, count, fail on purpose, sleep, answer | counts that are forgotten or differ from the sender's, clocks that differ, secrets that change |
| Seed command (`cmd/seed`, `internal/democlient/client.go`) | position, cookie jar, project | `Call`, `Bootstrap` | run again over what a failed run left behind, several at once |
| Frontend (`frontend/src/App.tsx`, `api.ts`) | React state of lists and forms | filter, page, reload, `useLoad`, `api` | answers out of order, aborts, effects that run later than the rendering |
| Load test (`cmd/loadtest`) | statistics | | |

How they interact: ingestion and replay create work by inserting or resetting
delivery rows; workers find it by polling with `Claim`; endpoint changes reach the
workers only through what `Claim` reads. The limiter is called by ingestion and by
`process`. All coordination between processes is in Postgres (row locks, UNIQUE
keys, the lease token) and in the atomic Lua script; inside a process it is the
two channels and the context of `Run`. `app.Run` owns that context and the pools that
handlers and workers use. The seed command and the browser reach the API over HTTP only,
and the worker reaches the receiver the same way.

What makes each part correct:

* queue: only the current owner changes a row; each attempt is recorded once; row,
  history and dead letter agree; success is never invented; settled rows stay
  settled; every row is settled if faults are finite;
* pool: a row is leased only when a worker is free; slots never leak; nothing
  blocks; `Run` returns and leaves nothing behind;
* bucket: no window of time lets through more than capacity plus refill; expiry is
  invisible;
* ingestion: answers are true, an event is stored once with one fan-out, every
  request is answered;
* process: the pools are closed after everybody who uses them is done; nothing is served on
  half of a schema; it exits once it is told to;
* migrations: the record tells what the database holds; no process trips over another;
* accounts: whatever is made or revoked belongs to an account whose password the caller has;
* seed: a run that meets no failure succeeds over any left-overs, and one that succeeds is
  complete;
* receiver: a destination that recovers gets its delivery within the budget, and genuine
  requests are refused for a cause only;
* endpoints: columns have values that were asked for, deletions stand, partial updates merge;
* dashboard: the age of what is shown is bounded;
* frontend: what is shown belongs to the path on the screen.

## 2. Modules

| Module | Models | Based on |
|---|---|---|
| `Retry` | `Success`, `Retryable`, `Backoff` | |
| `DeliveryLifecycle` | abstract ledger: what the queue promises | `Retry` |
| `DeliveryQueue` | tables, API handlers that write them, `Claim`/`Defer`/`Finish`/`process` | `Retry`; instance of `DeliveryLifecycle` |
| `DeliveryProgress` | the queue with a budget of faults and fairness | `DeliveryQueue` |
| `WorkerPool` | `Worker.Run` | |
| `Migrations` | `Apply` in any number of processes | |
| `Process` | `app.Run` in all its modes, with its connections | `WorkerPool`, `Migrations` |
| `Receiver` | the demo receiver, `Verify` | |
| `Exchange` | deliveries to the receiver with retries | `Retry`, `Receiver` |
| `Accounts` | register, login, logout, projects, endpoints, keys, ownership | |
| `Seed` | `Bootstrap` and browsers as callers of the API | `Accounts` |
| `RateLimit` | abstract bucket, refilled at every tick | |
| `TokenBucket` | the Lua script | instance of `RateLimit` |
| `Ingestion` | `ingest` | |
| `Endpoints` | `createEndpoint`, `updateEndpoint`, `deleteEndpoint` | |
| `DashboardCache` | `dashboard`, `Cached`, `Cache` | |
| `RecordsPage` | `Records`, `Pager`, `useLoad`, `api` | |
| `MC*` | constants and symmetry for TLC; `MCRedis` puts the two users of Redis side by side | `TokenBucket` and `DashboardCache` for `MCRedis` |
| `DeliveryQueueProofs` | theorems | `DeliveryQueue` |
| `ProcessProofs` | theorems about the process, its pool and its migrations | `Process` |
| `RedisProofs` | theorems about what is kept in Redis | `TokenBucket`, `DashboardCache` |
| `IngestionProofs`, `EndpointsProofs`, `RecordsPageProofs`, `ExchangeProofs` | theorems | the module of that name |
| `SeedProofs` | theorems about the seed command and the accounts that it uses | `Seed` |

### DeliveryQueue

A claim is identified by its lease token: `pc[t]`, `job[t]` and `result[t]` are the
locals of `process` for the row claimed with token `t`. Tokens are random and never
repeat, so a finite set of tokens bounds the number of claims and any number of them
may be in progress at once, for one row or several. One action is one database
statement or transaction, or one step of `process`:

| Action | Code |
|---|---|
| `Accept` | ingest's transaction (its steps are in `Ingestion`) |
| `UpdateEndpoint`, `DeleteEndpoint` | the final UPDATE of PATCH and DELETE |
| `ReplayBegin`, `ReplayCommit`, `ReplayRollback` | `replay`: SELECT FOR UPDATE and test; writes and commit; error |
| `Claim` | `Queue.Claim`, including the endpoint policy it returns |
| `Cancel`, `Throttle` | `process` with `Queue.Defer` (inactive endpoint; limiter or decryption) |
| `Send`, `Respond`, `NoAnswer` | the HTTP request and its outcomes |
| `Finish`, `FinishRefused` | `Queue.Finish` by the owner; ErrStale or a failed INSERT |
| `Abandon` | crash, shutdown or database error at any point of `process`, a lost answer of `Claim` included |
| `BecomeDue`, `LeaseExpire` | the clock of Postgres |

Time is not measured: a lease may expire at any moment, also under a live worker,
because a paused process or a slow database can outlast every timeout. So the
safety properties do not depend on LEASE_DURATION being long enough.
`ORDER BY` and `SKIP LOCKED` are modelled by letting any candidate win.
`Accept` makes the fan-out and the commit one step: between the two statements
nothing in this module can see the new rows, so a change of an endpoint in between
has the same effect as one right after.
`acknowledged` is a history variable: the destination may accept a request whose
answer never arrives. So is `budget`: the endpoint's `max_attempts` when the row was claimed
last, and when the last recorded attempt was claimed. `Finish` compares with the number in its `Job`,
which is that of its claim; `BudgetRespected` compares the row with the history. A delivery
gets another attempt only if the last one left room in its budget, and a failure worth a
retry kills it only if that budget is used up. `max_attempts` may change at any time: a smaller
one counts from the next claim on, so a row that waits for its retry still gets that attempt.

### DeliveryProgress

Adds `faults`, a budget of things that may go wrong (deferral by the limiter,
abandoned claim, lease that expires under a live worker). Failed requests are not
faults, they use up `max_attempts`. Replays are bounded by `MaxGeneration`.

### WorkerPool

`slots` is the number of elements of the channel, `jobs` the sequence in the channel,
`disp` and `wpc` the positions of the dispatcher and of the goroutines. Each select
case is an action. What `process` does is abstracted to `Complete` (returned
normally) and `Quit` (returned because the context is done). It is checked as a part of
`Process`, which runs it.

### Migrations

`Apply` of each process is one transaction: it takes the advisory lock, looks each of its
files up, executes and records those that are missing, and commits. `schema` is what the
database holds, `ran` and `noted` what an open transaction has done to it. Executing a file
whose tables exist fails; while another transaction holds them uncommitted it waits.
Processes may embed different numbers of files. `Fault` is a failing statement, a death of
the process or the end of its minute; `Unconfirmed` is a COMMIT that takes effect though
Apply returns an error. A migrator that failed may be run again.

### Process

`app.Run` from `config.Load` to its return, with `WorkerPool` as its worker and as one of the
processes of `Migrations`. `phase` is the position of the main goroutine. A signal may come at
any time once `NotifyContext` is called; the listener may fail at any time while it serves;
every step of the start may fail. Time is in units of five seconds, which divide every timeout
of `app.go` and of the middleware: 5 for a header, 15 for a request, 20 for `Shutdown`. A connection is in its
header or in its handler, and `age` says for how long. A handler uses the pools until its
context ends. `Shutdown` waits for the connections but no longer than its 20 seconds, and
then the pools are closed, so the three timeouts must add up: they fit exactly
(`TimeoutAssumption`). The server's read and write timeouts, the idle timeout and the
worker's `/ready`, whose context has two seconds, only end things sooner. A handler that does not return is
possible (nothing forces `Respond`); it is past its context then and does not reach the pools.

### Receiver and Exchange

`Receiver` is `ServeHTTP`: verify the signature and the age of the time stamp, count the
request (and forget all counts if there are too many), answer 500 to the first ones, sleep,
answer. A signature is represented by the secret it was made with. `Exchange` puts it
behind the attempts of a worker: claim, request, answer, record, with answers that are lost
(`Lose`), attempts that are never recorded (`Die`), changes of the secret on both sides, and
clocks that differ. Times are in half seconds, since `Backoff` gives from half to the
whole of a delay and the time stamp is cut to seconds. `delay` is the reference for
`Backoff`: doubling and capping step by step.

### Accounts and Seed

`Accounts` has the handlers of `auth.go` and `projects.go` that change something, and the
creation of endpoints, one database statement to a step, for any number of requests at
once. Passwords stand for their hashes. Tokens and ids are random in the code; here they are named by
the request that made them, which is as good as never repeating. Failures: a statement
fails (`Fails`, with the code that this handler then answers: `login` and `auth` take it for a wrong
password or cookie, `owner` for somebody else's project), a write takes effect but fails
(`Unconfirmed`), a caller gives up while the handler goes on or dies (`GiveUp`), a session
expires. `Seed` adds the callers: runs of the seed command, which follow `Bootstrap`, and
browsers, which send anything, with ids of any account in the path. `used` and
`excuse` are histories: the accounts that a caller has used, and whether this run has met a
failure that may stop it.

### TokenBucket

One key. The level is counted in units of 1/TicksPerSecond of a token, so that all
numbers are integers; the script's doubles are taken as exact. `Stored` is whether Redis still has
the key. `since` is a history: for each tick, how many calls were allowed from then on. The clock of Redis is
assumed not to run backwards (the script guards with `math.max(0, ...)`; a step
backwards would only delay refills).

### Ingestion

The steps of `ingest`, with the row lock that an uncommitted INSERT holds on its
`event_id`, and with the pooled connection that a transaction keeps until the handler
returns. Safety and liveness are checked in one run, so requests and contents are named in
the order in which they come (`Named` in the MC module) where a symmetry set would not be
sound. `Fail` is any failing statement or the end of the request's context (15
seconds, or a client that went away). `Unconfirmed` is a COMMIT that took effect though its
answer was lost. Histories record which endpoints were live during a request and
whether its key was revoked before it arrived.

### Endpoints

One endpoint row and several PATCH requests, each a SELECT, a decode over the row
read, and an UPDATE of all columns by id. Null bodies follow encoding/json: null
leaves a plain column alone and clears the pointer `active`, which is then refused.
`wish` records what the requests that took effect asked for last, `asked` all that they asked for.

### DashboardCache

One key (keys contain user and project, and do not affect each other). Totals are
represented by the instant of the snapshot they were read from. A request looks the key up,
takes a snapshot, waits for the row, begins a SET and answers, each as a step of its own.
Its context ends after `Timeout` and is asked by the query and when the SET is begun; `Miss`,
`QueryFails`, `StoreFails` and `Answer` may happen at any time. A SET that was begun is on its
own (`sets`): `redisx.Open` bounds dial, write and read by two seconds each and does not make the
client look at the context any more, so Redis may execute it after the handler has answered, or after its
context has ended, but no later than `SetDelay` after its begin. That there is such a bound is an
assumption about the network and Redis, not about the code: the socket timeouts end the wait for
a reply, not a command that is already in a buffer.

### RecordsPage

Loads are numbered; `data` and `error` are the number of the load that what is shown came
from. `seen` holds the dependencies the effects saw last, so `RunEffects` is possible
whenever they differ from the state: it aborts the old load, starts one for the path just
rendered and resets `offset` if the filter has changed. An answer has two phases, headers and
body, because an abort does different things in them: in `api`, an abort during the body of an
error is swallowed (`api.ts:16`), so the message of the old load is shown (`AbortSwallowed`).
The filter includes the kind of the list, since React keeps the state of `Records` when
the route changes from one list to another. The limit of 100000 on offsets is left out.

## 3. Runs

| Run | Bounds | Checks |
|---|---|---|
| `delivery_queue` | 1 delivery, 3 claims, budgets 1..2, 1 replay, codes 0/200/400/503 | fencing, history, status, dead letters, budget, real success, no rewind, final states, and that the queue implements `DeliveryLifecycle` |
| `delivery_timeouts` | 1 claim | expected violation, finding 1 |
| `delivery_progress` | 1 delivery, 2 faults, budgets 1..2 | every queued delivery is settled; orphans are reclaimed |
| `process` | modes api and demo (worker does what demo does without migrations), 2 workers, 3 rows, 1 connection, 2 migrators with 2 files and 1 file, 1 fault | pools, schema, migrators, idle workers, clean return; the process exits; due rows are processed |
| `exchange` | 2 deliveries with budgets 10 and 2, window of 6 half seconds, requests of 2, 2 losses, 1 change, 22 set-ups | `Backoff` against its rule, recovery within the budget, causes of refusals |
| `seed` | two seed commands (2 runs and 1) with equal or different passwords; or one with 3 runs and any password; or one beside a browser of 3 requests on the same account or another; 1 fault | ownership, causes of failure, completeness |
| `redis` | bucket: rate 2, capacity 3, half-second ticks, 9 ticks; dashboard: 2 requests, life 2, timeout 3, a SET at most 1 late, 8 ticks | windows, expiry, refinement; age of cached totals |
| `ingestion` | 3 requests, 1 event_id, 2 contents, 1 endpoint, 2 connections | answers, authorisation, fan-out, immutability; every request is answered |
| `endpoints` | 2 PATCHes, 2 columns | values that were asked for, merging, deletion |
| `dashboard_lag` | dashboard of `redis`, with SETs that are never late | expected violation, finding 3 |
| `records_page` | 2 filters, pages of 2, 5 loads | data, message and page on the screen |
| `endpoints_lost_update` | same as `endpoints` | expected violation, finding 2 |

Why the bounds are enough to see the interesting cases. Fencing needs a stale
claim, the claim that took over and a third one that settles the row in between:
three tokens. A budget of two gives a retry and an exhausted budget; one replay
gives two generations. The rate 2 does not divide the capacity 3, so that rounding the
fill time matters, and with slack 0 the key expires as early as it may. Three requests
for one event_id give a winner, a waiter and a latecomer, and two connections let a
waiter hold the last one; endpoints change while the first two are on their way (`Settled`),
the third one adds waiting only. In `process`, `Lean` keeps parts that share no variable from being
busy at the same time: a behaviour in which other processes migrate has no rows, one with a
connection or a failed server at most one. It restricts only steps that nothing requires to
happen (arrivals, connections, failures, migrations elsewhere), so it leaves out combinations
of independent parts and takes no step away from a part by itself; what is proved below needs no such bound.
Two workers and three rows let a row wait for a slot. An older release with one file less
leaves a record that the newer one continues. In `exchange` the base delays lie on both sides of
the cap, the skews on both sides of the window's ends, and the second delivery makes the
receiver forget. In `seed` a second run meets what the first one left, and one fault is enough
for each kind of left-over: a user without a session, a project without endpoints, a request
that nobody awaits. Two dashboard requests are enough for a slow one to store over a
quick one, and for a SET to take effect after its own request and during another. In `redis` the
bucket and the dashboard do not run at the same time: they share no key and no variable, and each
property reads one of them only. Five loads are a page turn, a change of the filter with its two loads, and a
reload. The theorems remove the bounds of all safety runs altogether (section 4). Symmetry is used in safety runs only, on tokens and
secrets, which are model values that no definition tells apart.

Deadlock checking is off where the modelled work is finite (tokens, rows, ticks,
requests run out) and stopping is then the correct end.

### Fairness

* `DeliveryProgress`: claims, requests, records and the clock are weakly fair, because
  `Run` polls for ever and orders candidates by due time, requests end by their timeout,
  and `Finish` has five seconds. Faults are never required to happen.
* `Process`: the main goroutine, the worker's goroutines, the ticker and the clock are weakly
  fair, and so is each migrator's transaction: who holds the lock goes on. No signal,
  failure, connection or answer of a handler is required to happen, so exiting does not
  depend on handlers that return. `Stop` is strongly fair: Go's
  select picks among ready cases at random, so `ctx.Done()` is not passed over for ever.
  A successful `Claim` is strongly fair: a database that is up again and again is found up
  in the end.
* `Ingestion`: each handler's regular steps are weakly fair; `Fail` is not, so that no
  request depends on a failure of its own or of others to get out of a wait.

### Findings

1. `delivery_timeouts`. `process` takes the status code from the headers and ignores
   errors of reading the body; if the deadline has passed by then, only the reason becomes
   "request timeout" (`worker.go:113`, `124-126`), while `Finish` decides by the status code.
   A 400 whose body stalls is recorded as a timeout and is dead after one attempt, where
   `README.md:114` says that timeouts are retried.
2. `endpoints_lost_update`. Overlapping PATCH requests that name different columns
   (`DistinctColumns`) lose one of the updates, because the whole row is written back
   (`endpoints.go:78`, `98`). In TLC's trace a PATCH of `active` sets the URL back that another
   one has just changed; in the same way a PATCH of the URL can resume an endpoint that was just paused. `README.md:155` says "PATCH
   supports partial fields." The passing run `endpoints` shows that this is the only way
   for a column to differ from what was last asked for.

3. `dashboard_lag`. The five seconds of a cached entry count from the moment Redis executes the SET
   (`redis.go:50`), not from the snapshot in it, which is older by the time that the query took: up
   to almost 15 seconds, even if no SET is late. `docs/RESUME_NOTES.md:53` says "dashboard totals can
   lag five seconds"; that the entries "expire after five seconds" (`docs/architecture.md:173`) is
   true of them, not of what they hold. The passing run `redis` shows what bound there is: the life of an entry,
   the timeout of a request and the delay of a SET together (`StalenessBounded`).

Not filed as a finding, since no document speaks of it: `records_page` shows how the message of
a superseded load can be shown over the records of the current one, and that this is the only
way (`StaleErrorWasCut`).

## 4. Proofs

Every safety property that a run checks, invariant or action property, is also a theorem, and
so are the two refinements. The theorems hold for every value of the constants that satisfies
these assumptions, which TLC evaluates in the runs:

| Module | Assumptions |
|---|---|
| `DeliveryQueue` | `StatusCodeAssumption`, `MaxAttemptsAssumption`, `MaxGenerationAssumption`, `NullAssumption` |
| `WorkerPool`, `Migrations`, `Process` | `WorkerAssumption`; `MigratorAssumption`; `TimeoutAssumption`, `SelfAssumption` |
| `TokenBucket`, `DashboardCache` | `BucketAssumption`: rate, capacity and grain are not 0; `CacheAssumption`: life and timeout are not 0. That a SET takes effect within `SetDelay` is a guard of `Store` |
| `Ingestion` | `MaxConnsAssumption`; `NullAssumption`: NULL is no request, row or answer |
| `Endpoints` | `FieldAssumption`, `ValueAssumption`: active is a column with the valid values 0 and 1, true by default |
| `RecordsPage` | `PageAssumption`: pages are not empty |
| `Receiver`, `Exchange` | `ReceiverAssumption`; `ExchangeAssumption`: base delays from a second to an hour and budgets from 1 to 10, which is what `validateEndpoint` and the CHECKs of the table accept |
| `Accounts`, `Seed` | `AccountsAssumption`, `SeedAssumption`: types, and None is no password, token or id |

Each proof has an inductive invariant, which the component's module states in named parts, and
one lemma per action or group of actions. What follows says why the invariant has to say more
than the properties.

**DeliveryQueueProofs.** `QueueInvariant` proves the inductive invariant `QueueInv`. The
properties of the tables are not inductive by themselves: `Finish` writes attempt and
generation from a `Job` of long ago, so they need `OwnerIsCurrent`, which ties the
claim that passes the fence to the row's present generation and next attempt;
`BudgetRespected` needs `BudgetIsClaimed`, that the budget in the owner's `Job` is the one in the
history of its row; `NoPhantomSuccess` needs `AnswerIsReal` for results not yet recorded; the writes of
`replay` need `ReplayHoldsDead`; a fan-out needs `AbsentUntilAccepted`. There is one lemma per group of actions
(`ClaimInv`, `DeferInv`, `FinishInv`, `ReplayCommitInv`, `AcceptInv`), and three frame
lemmas for steps that leave the ledger, the workers or the tables alone. From the invariant
follow, as theorems of their own, `FencingSound`, `FinishNeverConflicts`,
`HistoryExact`, `StatusAgrees`, `DeadLettersAgree`, `BudgetKept`, `SuccessIsReal`,
`ReplayExclusive`, and the action properties `RowsNeverRewind`, `SettledRowsAreFinal`,
`HistoryGrowsInStep`. `QueueImplementsLedger` proves the refinement: `Accept`, `Cancel`
by the owner, `ReplayCommit` and `Finish` are steps of the ledger, everything else stutters.

**ProcessProofs**, the pool. `PoolInvariant` proves `PoolInv`: types, the equation between slots,
channel and busy workers, and the order of a shutdown. `SlotsNeverLeak`,
`LeasesDoNotQueue`, `ChannelsNeverBlock` and `RunReturnsClean` follow from it by counting.

**ProcessProofs**, the migrations. `MigInv` says of whoever is going through its files that it has the lock,
that all files before the one at hand are recorded, by itself or by others, and that it has run what it has
noted; of everybody else that no transaction is open. `SchemaMatchesRecord` is not inductive
without it: that COMMIT keeps the files in order needs to know what the transaction has skipped.
`CommitInv`, `RollbackInv` and `ApplyInv` are the lemmas for the three kinds of step.
`SchemaIsRecorded`, `MigratorsAgree` and `ApplyIsWhole` follow.

**ProcessProofs**, the process. `ProcessMigrates` and `ProcessDelivers` show that the composed process implements
`Migrations` and `WorkerPool`: every step of it is one of theirs or leaves them alone, so their
theorems carry over (`ProcessKeepsParts`). `ProcInv` adds the order of the phases (`InOrder`) and, for each
connection, how far the timer of `Shutdown` can be ahead of it (`InTime`): never ahead of a
header, at most `ReadHeaderTimeout` ahead of a handler. With `TimeoutAssumption`, the handler's
context has then ended when `Shutdown` gives up. `PoolsAreClosedLast` combines it with `PoolInv`,
`DemoServesMigrated` with `ApplyIsWhole`.

**RedisProofs**, the bucket. `ExpiryNeverShows` rests on the arithmetic fact that rounding the fill
time up loses nothing (`FillTimeFills`); `BucketImplementsRateLimit` shows that the
level seen through a key that may have expired is the level of a bucket refilled at every
tick. `NoWindowExceeds` needs `WindowInv`: what a window has let through and what is left in
the bucket together are bounded, for whoever knew only the first could still be given a full
bucket; and `FutureInv`, since a window that starts now has let nothing through.

**RedisProofs**, the dashboard. `CacheStalenessBounded` follows from `CacheInv`: a request that may
still store took its snapshot after it came in, a SET on its way was begun within the timeout after its
snapshot, with or without its request, and an entry expires before its snapshot is as old as
the life of an entry, the timeout and the delay together. `ReturnKeeps` treats the steps that end a request.

**IngestionProofs.** An answer is true when it is given; that it stays true, and that nobody
else stores the same `event_id`, needs `LocksAreHeld`: the transaction that holds the row lock
is the only one between its INSERT and its COMMIT, nothing is stored under that `event_id` yet, and
whoever goes to look a duplicate up finds one. `Passed` carries the tests of a handler to its
COMMIT, `Witnessed` relates the uncommitted fan-out to the histories of the endpoints, and
`StorerIsDone` keeps these histories from moving once the event is stored. From them follow
`AnswersAreTrue`, `NothingUnauthorizedIsStored`, `FanOutFollowsTheEndpoints` and the action
property `StoredEventsNeverChange`.

**EndpointsProofs.** A PATCH carries a row in its hands across other requests. `Prepared` says that
what it is about to write was accepted as a whole and has what its body asks for, `UpToDate`
that a PATCH whose row has not changed since its SELECT keeps every other column as it is.
`NothingIsInvented` and `RowStaysValid` need the first only, so they hold under lost updates too;
that the columns which a body does not name come from earlier requests is part of it, because the row
in a PATCH's hands may be no longer the stored one. `PatchesAreMerged` needs both. `DeletedStaysDead` is an action property of every step.

**RecordsPageProofs.** `OneIsCurrent` orders the loads: those before the current one are aborted, and
only these. An abort does not take a callback back, so `CurrentIsShown` says that the page
stops loading only by the current load, and `ShownIsOver` that data and messages come from
loads that have no callback left. `OffsetWasReset` speaks of the filter that the effects saw,
not of that on the screen, between which the user's next event comes.

**ExchangeProofs.** `BackoffIsExponential`: the ten attempts of the largest budget make a table of
shifts (`NominalTable`), and one more attempt is one more doubling and cap
(`NominalDoubles`); no induction is needed. `RecoveryFitsTheBudget` needs `Explained`: while an able
receiver has not forgotten a delivery, each attempt is matched by a lost answer or by a count
of a failure on purpose, strictly so when an answer that is not a success waits to be recorded.
Requests that were counted and never recorded are on the safe side of this inequality.
`RefusalsAreJustified` needs `SecretsAgree`, that a claim under which the secrets did not differ
was signed with the receiver's.

**SeedProofs.** Two invariants, one over the other. `AccountInv` is about all callers. `Entitled`
says that a cookie, once issued, is its caller's, and that a handler that has found a user
acts for an account whose password the caller has presented; it survives the end of the
session, which is the point of `RowsStay`. `Attended` says that a command awaits one request,
that of its step, though any number of its requests may still be running. `SeedInv` adds for
each command what it has reached (`Placed`), what the answer on its way will tell it and why
(`Heard`), and what is in its project (`Furnished`): one endpoint for each step behind it, perhaps that
of the step at hand, and nothing else. That requests of earlier runs add nothing needs `Aged`: ids grow
along the requests of a caller, so what is older than a project cannot name it. Most of the proof
is the list of handlers against these parts: `WriteSound` and `HandlerMoves` describe once what any
handler may write and how its request moves on, `HandleTells` what each answer means, and the
lemmas named `...Course` treat one action of the callers each. `SeedingFailsWithCause` and
`SeedingIsComplete` follow; that the endpoints are three is `ThreeKinds`.

Only model-checked: the five liveness properties `EventuallySettled`, `OrphansAreReclaimed`,
`ProcessExits`, `DueIsProcessed` and `EveryRequestAnswered`, because fairness is outside what the prover
handles; and the three properties of the findings, which the code does not have.

## 5. Not modelled, and the plan

Not modelled: ciphers and the address checks of `transport.go` (pure functions without state),
read-only queries (single SELECTs), routing, headers, logging and the tests of `Origin` in the
middleware (pure I/O), `cmd/loadtest` (it measures and keeps no state of the system), the
forms of the frontend other than the sign-in, and its rendering. The events that the seed
command sends at its end are requests of `Ingestion`. Doubles in the Lua script and the text
of bodies are abstracted.

What is left, the most useful first:

1. Proofs of what the liveness properties rest on: that `DeliveryProgress` and the composed
   process keep the invariants of their parts, and that a step of a waiting request or
   row brings it nearer to its end.
2. `LeaseTiming`: the queue with a clock, LEASE_DURATION and the timeouts, to find out when a
   live worker can lose its lease, and how long a paused endpoint may still be called.
3. The forms of the frontend, composed with `Accounts` and `Endpoints`.
