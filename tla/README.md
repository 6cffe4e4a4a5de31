# VoiceSpend: a TLA+ model of the backend

VoiceSpend is an offline-first expense logger. Phones log expenses under ids they
generate themselves and exchange them with a FastAPI/PostgreSQL service through two
endpoints; two more endpoints turn text or speech into an expense through paid language
models, behind a rate limit and a monthly quota; a billing webhook decides who pays; a
Celery worker fetches exchange rates and fills in the amounts in the user's base
currency. This directory holds TLA+ modules that model that service, TLC configurations that check
them on small instances, and TLAPS proofs of the results that matter most.

Paths such as `app/api/v1/sync.py` are relative to the repository.

## 1. Inventory

| Component | State | Operations | Talks to | What makes it correct |
|---|---|---|---|---|
| Sync push, `app/api/v1/sync.py:68` | one transaction per request: parsed and rejected records, RETURNING rows | validate, check owners, bulk upsert, count, commit, report | expenses, usage counters, devices | last writer wins on `client_rev`; a replay changes nothing; what is acknowledged stays; one answer per id |
| Expenses table, `app/models/expense.py` and the `server_seq` migration | rows, locks, a sequence | insert, update, the stamping trigger | push, pull, recompute | every version has its own, later number |
| Sync pull, `sync.py:247` | none; the client keeps the cursor | one SELECT | expenses | a client that continues from `next_cursor` ends with every change |
| Usage metering, `app/services/metering/usage.py` | a counter per user and month | increment, read | push, parse | each row is counted once, in the month it landed |
| Recompute, `app/services/fx/recompute.py` | none between runs | sweep rows without `amount_base`; clear a user's amounts | expenses, fx rates | amounts belong to the inputs next to them; every convertible row gets one |
| FX ingest and converter, `app/services/fx/ingest.py`, `app/services/currency/converter.py` | rates per currency and day | normalise, upsert, retry, backfill, convert | recompute, parse | a stored rate is the cross rate of one payload; a conversion never uses a later day |
| RevenueCat webhook, `app/api/v1/webhooks.py` | processed event ids; entitlement with a watermark | record once, compare, apply | resolver | each event once, with its effect; the newest event in force |
| Entitlement resolver, `app/services/entitlements/resolver.py` | none | read | push (signal), parse (gate) | access follows tier, status and period |
| Parse and transcribe, `app/api/v1/parse.py` | none | rate limit, quota gate, paid calls with timeouts, conversion | limiter, signal, providers, fx rates | no paid call past the gate; a provider's failure is an answer; a request that stays unanswered waits for Redis |
| Rate limiter, `app/services/ratelimit/` | two counters per scope in Redis | hit | parse | the limit per window, and a `Retry-After` that is enough |
| User provisioning, `app/api/deps.py` | users | insert on first sight | every handler | one user per identity |
| Worker, schedule and tasks, `app/worker/` | broker queue | beat, retry | ingest, recompute | every task ends; each successful ingest is followed by a sweep |
| Sessions and pool, `app/db/session.py`, `app/worker/db.py` | connections | open, close, time out | all | a session that is left rolls back; a request that gets no connection fails |
| Authentication and providers, `app/core/security.py`, `app/services/extraction/`, `stt/` | none | verify, call | parse | only their outcomes are modelled |
| Storage, metrics, tracing, logging, health, configuration | none that decides anything | | | not modelled, see section 7 |

What is hard to test here: two devices that push the same rows at once; a bulk upsert
that is one statement and still takes its row locks one after the other; numbers that
are handed out in one order and become visible in another; a worker that writes what it
computed from an older version; responses lost after the commit and batches sent again;
the end of a month in the middle of a push or a gate; billing events that come twice,
late and at once; a decision taken before a paid call and a subscription that changes
during it; windows that start with their first hit; rates that arrive between the two
reads of a conversion; first requests that race to create their user. `PROJECT.json` lists these hazards with the
lines where they bite and the properties that watch them.

## 2. Modules

```
Expenses --- ExpenseDb --+-- SyncPush ---+
                         |     |         |
PushBatch ---------------+     |         +-- SyncSystem -- MCSyncSystem
   |                     +-- SyncPull ---+
PushValidation           +-- Recompute --+
   |
MCPushValidation      SyncPush -- MCSyncPush,  INSTANCE LwwStore

Domain --+-- Entitlements --+-- Webhook -- MCWebhook,  INSTANCE BillingLedger
         |                  |
         |                  +-- ParseService -- MCParseService
         +-- RateLimiter ---+
         +-- Accounts ------+      (RateLimiter and FxRates extend ServerClock)
         +-- FxRates -------+
         +-- Extraction ----+

Proofs:  PushValidation -- PushValidationProofs
         SyncPush -- SyncPushProofs -- UpsertProofs --+-- SyncSystemProofs
         SyncSystem ----------------------------------+
         Webhook -- WebhookProofs -- WatermarkProofs
         ParseService, NumberLemmas -- ParseServiceProofs
```

**Expenses** is the data. A row keeps its user, device, `client_rev`, `server_seq`,
creation time and tombstone; amount, currency and date are one opaque value `inputs`,
because the service only asks whether they changed. `base` stands for `amount_base` and
`currency_base` and records *what was converted*, so that an amount that belongs to
other inputs can be seen.

**ExpenseDb** is PostgreSQL as the code uses it, and the migration's trigger: committed
`rows`, the row `lock`s, each session's uncommitted versions `pending`, the sequence
`seq`. Sessions run in READ COMMITTED. A write waits for the row's lock and then works
on the newest committed version. `nextval` is not transactional. A cycle of waiting
sessions can be broken by cancelling one of them.

**PushBatch** says what the validation loop of `push_sync` makes of a batch: which
positions are parsed, which ids rejected. **PushValidation** is the loop itself, one
action per branch; `LoopMeetsDefinition` shows that the two agree, and SyncPush uses the
definitions.

**SyncPush** is `push_sync`. Its actions, in the handler's order:

| Action | Code (`sync.py`) |
|---|---|
| `Begin` | the request, lines 103-129 |
| `SelectOwners` | the two SELECTs and the filter, 130-154 |
| `FireInsertTrigger` | BEFORE INSERT trigger of the next row of the statement; it takes a number even if the row exists |
| `InsertRow`, `UpdateRow`, `KeepRow` | the row is locked, and then inserted, updated (183-201), or left alone because the WHERE fails |
| `StatementFails` | a value the table cannot hold, 206 |
| `CountNew`, `IncrementUsage` | 207-211; the period is read before the counter's row is locked |
| `Commit` | 212 |
| `Respond` | 214-244 |
| `RespondError`, `Abort`, `CancelDeadlocked` | the request fails, is cut off anywhere, or is the victim of a deadlock |

A client that retries is a `Begin` with the same batch; the model does not tell the two
apart, as the service cannot. `landed`, `stored` and `acked` are history variables:
`stored` holds the revisions of committed pushes, which a client replays when it lost the
response, `acked` those a client has heard of.

**LwwStore** is what push promises: a last-writer-wins store with a meter, in which a
push is *two* atomic steps. `Accept` lets records in whose devices are the user's and
whose rows are nobody else's at that moment; `Merge` applies and counts all of them at a
later one. It is not one step, because the code looks for foreign rows in a SELECT
(`sync.py:141`) and not again in the upsert (`sync.py:201`): the abstract store shows this
gap, and `OwnerRace` what comes of it. `ImplementsLwwStore` is the refinement; it says
that the ownership check happened at one moment for the whole batch, that nothing but the
accepted records is merged, and that merging and metering are one step.

**SyncPull** is `pull_sync` and the client that keeps the cursor. The client is not in
the repository; it stores the records of a page and continues from `next_cursor`, and it
may lose a response.

**Recompute** is the worker: `recompute_amount_base` reads its rows without locking
them, then converts and updates them one after the other and commits once;
`null_amount_base_for_user` clears a user's amounts. A sweep starts only when it is in
the broker's queue (`sweeps`): beat schedules the *ingest*, and an ingest that succeeds
enqueues a sweep of all rows (`IngestSucceeds`), the clearing of a user's amounts one of
that user's rows, which may be lost (`CommitRearm`). An exception leaves the loop and
rolls the batch back: `ConversionRaises` (`converter.py:59` divides by a rate that was
rounded to zero, or `quantize` has too few digits) and `UpdateOverflows` (the column is
NUMERIC(18,4)). Tasks can also be cut off, or be the victim of a deadlock (`AbortTask`).

**SyncSystem** puts push, pull and worker on the one table, with deadlocks across them.

**Entitlements** is data again: the table of event types, the merge of an event into a
user's row (`Merged`, the upsert with its optional columns), and what a row grants
(`IsPro`).

**Webhook** is `revenuecat_webhook`, one READ COMMITTED transaction per delivery:

| Action | Code (`webhooks.py`) |
|---|---|
| `Deliver`, `Refuse` | the shared secret, 69-72 and 136 |
| `RecordEvent` | INSERT ... ON CONFLICT DO NOTHING, 139-152; it waits while another open transaction holds the id |
| `FindUser` | 154-165 |
| `CompareWatermark` | the SELECT and the comparison, 167-184 |
| `ApplyTransition` | the upsert, 87-127; it waits for the row and does not compare again |
| `Commit`, `Respond`, `Abort` | the commit, the 200, a crash or lost connection at any point |

RevenueCat is the environment: it delivers, in any order and to several handlers at
once, whatever it has no 200 for. Users register at any time. `applied`, `early` and
`raced` are history variables.

**BillingLedger** is what the webhook promises: recording an event and its effect are one
step, and an event has no effect only for a reason that holds when it is recorded.
`ImplementsBillingLedger` is the refinement.

**ServerClock** is the time all processes and Redis agree on, with UTC days and months.
**RateLimiter** holds the two counters of a scope: `Hit` is the Lua script, `Tick` their
expiry. **Accounts** is the users table with its two unique columns. **FxRates** is the
rates table with the daily ingest (`StartDaily`, `Retry`), the backfill, the
normalisation to the dollar (`Normalized`, with `Quantize` rounding half to even) and the
converter's choice of day (`RateDay`). **Extraction** is what the service makes of a
model's answer.

**ParseService** puts these together: two handlers, one action for each stretch between
two awaits.

| Action | Code |
|---|---|
| `Arrive` | `get_current_user`, `core/security.py`: 401, or 500 where fetching the signing keys fails with an error that is not the JWT library's |
| `SelectUser`, `Provision`, `Reread`, `PoolTimeout` | `api/deps.py` 25-45; a commit and a rollback give the connection back, and the next statement takes one again |
| `HitMinute`, `HitDay`, `RedisFails` | `ratelimit/dependency.py` 64-99 |
| `ResolveEntitlement`, `ReadUsage` | `build_entitlement_signal` and the gate, `parse.py` 269-276 and 323-335 |
| `Transcribe`, `Extract` | the paid calls and `_to_response`, `parse.py` 117-248 and 337-388; a response cannot carry an infinite amount (`ReplyOf`) |
| `ReadFromRate`, `ReadToRate` | `convert` |
| `DatabaseFails` | any statement, or the connection for it, fails; a COMMIT may have taken effect all the same |
| `Respond`, `Abort` | the end of the request, or of its client or process |

Around the handlers run the clock, billing events (`Merged` again), pushes that are
metered, and the FX tasks. What may happen in a behaviour is its *scenario*: a record of
initial rows, possible requests and answers, and how many events of each kind may occur.

Some operators are *variants with a bug* of the operator that follows them. They take no
part in any specification; replacing the operator by its variant makes TLC report the
property that guards it, which shows that the property has teeth.

## 3. Runs

| Run | Checks | Shows |
|---|---|---|
| PushValidation | `LoopMeetsDefinition`, `OneResultPerId`, `ParsedIdsDistinct` | every batch of up to four records over two ids gets one answer per id, and no id reaches the upsert twice |
| PushContention | `MeteringExact`, `AckedDurable`, `RowsOnOwnDevice`, `ReportedSeqReached`, `SeqsUnique`, `UpsertSerializable`, `LastWriterWins`, `ReplayIsNoOp`, `ImplementsLwwStore`, `EveryPushEnds` | concurrent pushes are metered exactly, durable once acknowledged, and a store with two steps per push; a replay is a no-op, response or not; no order of rows in concurrent batches blocks a push for good |
| OwnerRace | `ForeignRowsUntouched` violated | a row that another user inserts between the owner SELECT and the upsert is overwritten |
| WritersTogether | `UpsertSerializable`, `ImplementsLwwStore`, `EveryWriteRestamps`, `EventuallyEnriched` | the worker's writes, the change of a base currency included, do not disturb push; every version gets a later number, and an edit clears the amount it makes stale; a sweep that raised or was cut off holds nothing back |
| EnrichAndPull | `MissedOnlyByOverlap`, `ReplicaFollows`, `EverySessionEnds`, `ChangesArrive`, `EventuallyEnriched` | clients end up with every change, those of the sweep included, but the ones that committed behind their cursor; every convertible row is converted, whatever rows without a rate stand before it |
| PushPoison | `BadRecordIsolated` violated | one record beyond NUMERIC(18,4) or BIGINT takes the whole batch down |
| PullMiss | `PulledByEveryDevice` violated | a version numbered before another and committed after it is never pulled by a client that asked in between |
| SweepRace | `BaseIsCurrent` violated | the sweep stores the amount of inputs that an edit has replaced |
| SweepStarves | `EventuallyEnriched` violated | old rows without a rate fill the sweep's limit and the rows behind them are never converted |
| Webhook | `NewestInForceUnlessRaced`, `AcknowledgedIsSettled`, `ImplementsBillingLedger`, `EveryEventSettled` | every event is recorded once with its effect, a 200 is final, and the newest event is in force unless two transitions of the user overlapped |
| WebhookRace | `WatermarkNeverRetreats` violated | two events handled at once: the older one is written last and its state stays in force |
| ParsePipeline | `OneUserPerIdentity`, `AtMostTwiceTheLimit`, `RetryAfterLifts`, `GateIsHonest`, `LoserFindsWinner`, `NormalizedIsCrossRate`, `ConversionUsesKnownDay`, `OnlyRedisHangs`, `EveryTaskEnds` | the pipeline's promises, in twelve scenarios |

The six violations are divergences between the code and its own documentation; the
findings in `PROJECT.json` quote the lines. `MissedOnlyByOverlap` bounds `PullMiss`:
nothing *else* is ever missed. In the same way `NewestInForceUnlessRaced` bounds
`WebhookRace`: without an overlap the newest event is in force.

`EventuallyEnriched` says that a row whose rates are stored, and whose inputs convert, gets
its amount. It has two premises. `IngestsGoOn`: ingests go on succeeding, since only they
enqueue sweeps of all rows. And no row is `Poisoned` for good: the conversion or UPDATE of
such a row raises, which rolls back the batch, and since the sweep takes the oldest rows
first, the next one meets it again. Without this premise the property is false as soon as
two rows share a sweep, although the README promises that NULLs "get filled" (README.md:47);
TLC shows it for `Ids = {i1, i2}`, `Failing = {cash}` and a limit of two. What the premises
leave is whether the rows without an amount fit in one sweep: it holds when they do
(WritersTogether, EnrichAndPull) and fails when they do not (SweepStarves).

Some properties say less than one would wish, because the code does:

- `AtMostTwiceTheLimit`: a window starts with its first hit, so an interval as long as
  the window may see almost two limits (`.env.example` calls it a rolling minute). The
  bound is strict and holds while Redis answers; requests let through because Redis
  failed are not in it. `admitted` is the history it goes by: how many of a scope's
  admitted requests had their first hit before each moment.
- `GateIsHonest`: entitlement and usage are read at two moments. A request may be judged
  by a mixture of them; what is excluded is a paid call for someone who was over the
  quota without a subscription all along, and a refusal of someone who was subscribed,
  or below the quota, all along.
- `ImplementsLwwStore` has the ownership check and the merge as two steps, and so permits
  what `ForeignRowsUntouched` forbids. `UpsertSerializable` is about the one statement of
  the upsert.
- `OnlyRedisHangs`: the Redis client has no socket timeout (`app/cache/redis.py:16`), so a
  request may wait for Redis for ever, and keeps its database connection meanwhile. What
  is checked is that nothing else does, the requests that find the pool empty included.
- Server errors have many causes, a database error under any statement among them, and no
  property claims a list of them. `LoserFindsWinner` is about the one place where the code
  recovers from one: after a lost race for a user's row, `scalar_one` finds the winner's,
  unless the email belongs to another identity.

### Bounds

- `PushContention`: two handlers and three requests, two users, four devices (one of
  them registered to nobody), two ids, four batches that cross, repeat, delete, mix
  good with malformed, duplicate, foreign and unstorable records; two months. Two
  handlers are enough for every pair of conflicting transactions; the third request is
  a replay or a later writer. `MaxPushes` and `Periods` bound requests and clock.
- `OwnerRace`: a push of each of two users, on one shared id.
- `WritersTogether`: one handler with two requests, a sweep and a clearing task on *one*
  row, two currencies and one change of base currency (`MaxChanges`), one session that is
  lost or cancelled (`MaxCutOffs`), and inputs `cash` that fail to convert (`Failing`), so
  that every step of one writer meets every step of the others.
- `EnrichAndPull`: pages of one row and sweeps of two, so that the page limit is met and
  the sweep's is not; two rows, which push and sweep may lock in opposite orders; no crashes.
- `SweepStarves` has a limit of one; the daily limit is 500 rows.
- `Failing` makes failing a matter of the inputs alone. In the code it is one of the inputs,
  the rates of a day and the base currency; a later rate may cure it, or not.
- `Webhook`: two handlers, one user, four events (`SubscriberEvents`): a purchase, a
  billing issue without product and with an unknown store, an expiration at the same
  millisecond, and a type that changes nothing. One crash or lost connection
  (`MaxCutOffs`). `WebhookRace` leaves the expiration out.
- `ParsePipeline`: two handlers, two FX workers, two identities, one device; a minute of
  two ticks, a day of four, a month of two days, a clock that ends at `Horizon` = 8;
  limits of two per minute and four per day, a quota of two. Numbers are small but keep
  their roundings: quotations in halves, rates in quarters up to 30, amounts up to 150.
  A scenario names what may happen and how often: four requests around the end of a
  minute; a scope near its daily limit; one Redis failure, open or closed; three first
  requests with a shared email; a pool of one; two billing events and a push under two
  requests; the end of a month; rates arriving between the reads; all kinds of answers,
  an infinite amount among them; a database that fails once, under a first request or
  under the conversion; an FX task with `MaxRetries` = 2 whose database or process fails;
  two FX tasks at once, on the same day or not.
- The sequence needs no bound: requests, cut-offs and amounts to fill in are bounded, so
  writes are. (A sweep that writes one row and then fails on another would draw numbers
  for ever; hence one row where `Failing` is not empty.)

`Served` and `Quiet` let a run in which nothing is left to do stutter, so TLC's deadlock
check stays on and would report a push or task that is stuck.

### Fairness

`Fairness` (SyncPush) is weak fairness of each handler's own steps and of the deadlock
detector: the event loop runs every coroutine, PostgreSQL grants free locks and cancels
a member of every cycle after `deadlock_timeout`. Requests and crashes are not fair.
`SystemFairness` adds the worker: a task that has started goes on, and a worker that is
idle again and again does not pass over the sweep in its queue for ever (strong fairness,
since it may be busy in between). That a sweep is ever *enqueued* is not assumed: the
daily ingest may fail every day, and then no sweep runs (`app/worker/tasks/fx.py:46-54`).
That ingests succeed again and again is the premise `IngestsGoOn` of `EventuallyEnriched`.
A client asks again while it is installed, and not every response is lost.

The webhook's `Fairness` is that of its handlers, and of RevenueCat's redelivery, on
which the handler's docstring relies. `EveryEventSettled` needs the secret to be
configured, which nothing makes happen.

ParseService assumes that handlers and tasks go on. A paid call ends because
`asyncio.wait_for` cuts it off, a fetch because the HTTP client times out, the wait for a
connection because the pool gives up. A call to Redis is *not* fair. Neither are the events
of the environment.

All of this takes for granted that a database statement ends: PostgreSQL answers, or the
connection is lost. No statement timeout is configured, so the code itself does not force
this.

## 4. Proofs

Every safety invariant, action property and refinement that a passing run checks is also
a theorem, proved for every value of the constants that their assumptions allow: any
number of handlers, workers, clients, users, devices, ids, events and months, batches of
any length and content, any rates, payloads, limits and window lengths. The bounds on
counters (`MaxPushes`, `MaxCutOffs`, `MaxChanges`, `Horizon`, the events a scenario
allows) may be any natural number. `PROJECT.json` lists the theorems.

| Module | About | Theorems |
|---|---|---|
| PushValidationProofs | the validation loop | `TypeCorrect`, `LoopIsItsDefinition`, `EveryIdAnswered`, `NoIdTwice` |
| SyncPushProofs | push | `TypeCorrect`, `WritesStand`, `RowsMoveForward`, `MeterIsExact` |
| UpsertProofs, extends SyncPushProofs | push | `UpsertsSerialize`, `DevicesStayWithOwners`, `AcknowledgedIsDurable`, `ReplaysAreNoOps`, `ImplementsStore`, `NumbersAreUnique`, `ReportsAreReached` |
| SyncSystemProofs, extends UpsertProofs | push, pull and worker together | `SystemTypeCorrect`, `OnlyOverlapsAreMissed`, `ReplicasFollow`, `WritesRestamp`, `SystemUpsertsSerialize`, `SystemMeterIsExact`, `SystemImplementsStore` |
| WebhookProofs | webhook | `TypeCorrect`, `AcknowledgedStands`, `ImplementsLedger` |
| WatermarkProofs, extends WebhookProofs | webhook | `NewestInForce` |
| NumberLemmas | division, products, largest elements | (lemmas only) |
| ParseServiceProofs | parse, transcribe and what they use | `ParseTypeCorrect`, `OneRowPerIdentity`, `RetryAfterIsEnough`, `LimitHolds`, `GateHoldsToAMoment`, `LosersFindWinners`, `RatesAreCrossRates`, `ConversionsUseKnownDays` |

### The validation loop

`LoopMeetsDefinition` and its companions speak of finished batches. `PrefixInv` says the
same of the prefix that has been read: what is parsed are its `Fresh` positions, what is
rejected its `Refused` ones, and the order of answers names each known id once. One
lemma per branch of the loop (`RepeatedKeeps`, `NewIdKeeps`) extends the prefix by one
record. This is what makes it legitimate for SyncPush to use `PushBatch`'s definitions
in one step.

### Push

The base is `SafeInv`: `TypeOK`, `SeqBounds` (no number in use is ahead of the sequence)
and `PendingReplaces`. `SeqBounds` is needed because an update's new number must exceed
that of the version it replaces. `PendingReplaces` is the two-phase locking argument: a
version is written when its row is free, no other session can write or commit that row
until the writer ends (`NextRecordKeeps`, `RollbackKeeps`, `EndTransactionFrame`), and a
session outside its open phases has no uncommitted versions. `RowsMoveForward` and
`MeterIsExact` follow because only a commit changes rows (`OnlyCommitWrites`) and what it
writes stands. Metering also needs `PeriodChosen`: a handler at its commit has a period
exactly when it inserted something.

UpsertProofs adds these invariants:

- `Progress(h)`: every record the upsert has passed is `Decided` as it would be decided
  now, it has written nothing else, and every valid record's device is the caller's. A
  step of another handler leaves it alone, because it neither takes nor commits a row
  that h holds (`Untouched`, `OthersUntouched`). At the commit this is
  `UpsertSerializable`, and it is the heart of `ImplementsStore`: the SELECTs of a push
  that keep a record are the store's `Accept`, its commit is the `Merge`, an end without a
  commit the `Drop`, and all else stutters. The accepted records are those of `valid`,
  which nothing changes until the request ends.
- `StoredReached`, for replays: whatever was part of a committed push is in the table at that
  revision or a later one, whether or not a response told its client.
- `DevicesOwned`, for committed and uncommitted versions alike, since a row is proposed
  long after its owner was looked up.
- `AckInv`: what a handler is about to report, and what was ever acknowledged, is in the
  table at that revision or a later one; revisions only grow, so it stays there.
- `SeqsApart`: `SeqsUnique` is not inductive by itself, since a trigger draws its number
  before the row is locked. The drawn numbers that are not used yet have to differ from
  all versions and from each other.
- `ReturnedReached`: the number in a RETURNING row is that of a committed version or has
  been overtaken in its row. That the high water mark reaches it needs a largest number
  among the user's rows (`Largest`, from the well-foundedness of the naturals).

### Push, pull and worker

A step of SyncSystem is a step of push, of a client, or of a task (`StepKinds`). A
client's step leaves the tables alone. A task's step leaves the handlers alone and does
to the tables one of four things, `TaskEffect`: nothing, lock a row, write one row with
only its stamp and amounts changed, or end its transaction. Every invariant of push
survives these (`TaskKeepsSafe`, `TaskKeepsProgress`, `TaskKeepsStore`, ...), so the
theorems about push hold beside the worker too, including the refinement.
`TasksTyped` says what a task's list of rows is; an edit clears the amount it makes
stale, and versions of tasks change nothing but stamp and amounts (`OnlyRestamps`).

For the clients, `NumbersFlow` follows a `server_seq` from the sequence through an open
transaction to a committed row. `PullInv` says of each client that what is at or below
its cursor is on the client or in `overlap`, and that numbers of open transactions at or
below it are in `overlap` (`CursorInv`); a page under way promises the same of its
`next_cursor` (`PageInv`). The second part is what a checker finds missing at once: a
version that is still uncommitted is not missed *yet*.

### Webhook

The invariant is again called `SafeInv`. `Exclusive` is the unique index as a lock: from
its INSERT to its COMMIT a handler's event is in no other handler's hands and not
recorded. `Proposals` is the row lock: an uncommitted row is the merge of its event into
the *committed* row, because nobody else commits that row meanwhile. `Explained` says
that what a handler decided still holds when it commits, long after it looked: users are
not deleted, ids not forgotten, and an event that was overtaken stays overtaken. That
last point needs `Watermark`: the time a row shows is that of an event that was applied.
It does not say of the newest one, which is exactly what `WebhookRace` refutes.
`Accounted` and `AckedRecorded` carry the reasons over to recorded and acknowledged
events. `UncommittingStep` handles every step that commits nothing at once; `CommitSafe`
is the one that changes the tables. In the refinement the commit is the step that
records, the SELECT that finds nobody is `LookInVain`, and all else stutters
(`LedgerCommit`, `LedgerStep`); `SameMerge` says that both sides merge alike.

WatermarkProofs adds `ForceInv`: for a user whose transitions never overlapped, the row
shows the newest applied event, column by column (an optional column keeps an older
value if the newer event carries none), and a transition that is underway is still not
stale. The second part is the comparison that the code does not repeat at the write; it
fails precisely for the users in `raced`.

### Parse and transcribe

`ParseInv` is the conjunction of:

- `WorldInv`: types of everything the handlers share, with what their tables add.
  `AccountsInv` has the unique columns; `FxInv` the cross rates, that a rate fits its
  column and that the dollar's is one.
- `HandlersInv`: every handler is `Fine`. `Control` says which local variables its place
  in the code has set. `Sound` says what they mean now, although the world has gone on:
  `Identified` (the row is in the table and its identity is the request's; after a lost
  insert there still is a row it clashed with), `Timed` (a window that was seen is still
  there with the same expiry, or is over), `Converted` (the days that were read are
  bounded by the day of the expense and by what was known).
- `Pooled`: the connections of the pool; `HistoriesTyped`.

What the world may do is `Onward`: rows and rates stay, the clock does not go back, and
a counter keeps its start and expiry until it is gone. `SoundStays` shows that this
suffices for everything a handler remembers, so each action of a handler needs one lemma
about that handler alone (`Arriving` to `Ending`), and each action of the world one about
the world (`WorldTicks`, `WorldBills`, `WorldIngests`).

Two theorems need more. `GateInv` relates a handler to its history `seen`: the history
contains what is so now until the decision, and the entitlement that was read, so the
usage that is read next adds up to a moment for each half of the verdict. `LimitInv` is
about requests that are *between* their two hits: they have taken a place in the minute
and may still be admitted or refused. It counts them with the admitted ones (`Taken`)
and says, per scope (`Spaced`): the running window has taken at most the limit, and less
than that since the moment after it started; the interval as long as a window that ends
where the running window starts, or now if there is none, holds less than the limit.
Hence less than twice the limit in any such interval. A hit (`HitIsSpaced`), a tick with
or without an expiry (`TickIsSpaced`), and a request that stops waiting
(`LeavingTakesLess`, `FewerAreSpaced`) keep it.

`RatesAreCrossRates` is arithmetic: `Rounding` bounds the error of rounding half to even
by half a unit, `NormalizedFacts` applies it to one payload, and `StoreKeepsRates`
carries it through an upsert that replaces some rows and keeps others.

### Assumptions

Each constant's assumption stands where it is declared, and TLC evaluates it in every run
of a module that extends that one.

- NULL is no member of the sets it is added to: no row, version, session, event, code,
  counter, context and so on. In the code it is None.
- Sessions: handlers, sweepers and rearmers are different sessions. Devices belong to at
  most one user. Batches are sequences of records; months are numbers.
- Ids, users, and (in ParseService) handlers are finitely many, since numbers of rows and
  connections are taken. Users are numbered in the order of their inserts.
- Events are well-typed and differ in their ids.
- Limits, windows, ticks, pages and sweeps are positive numbers, as the defaults are; the
  settings are not validated, and a limit of zero would refuse everything.
- `FxAssumption`: the dollar is a currency, and one dollar fits the rate column. Payloads
  are maps from codes to numbers, of any sign, or to something that is not a number.
- A scenario is `Consistent`: the rows it starts with are such as the service leaves
  them. A counter expires its window's length after it started and is not over; accounts
  keep the unique columns; rates fit their column; billing events are of handled types
  and name a user. The scenarios of `MCParseService` satisfy it, so it is not vacuous.

### Only model-checked

- Liveness: `EveryPushEnds`, `EverySessionEnds`, `EventuallyEnriched`, `ChangesArrive`,
  `EveryEventSettled`, `OnlyRedisHangs`, `EveryTaskEnds`. The prover handles neither ENABLED nor
  fairness.
- The six violations, which are counterexamples and need no proof.
- That every action happens at all: a theorem holds of a specification that cannot move;
  the runs fire every action.

## 5. Plan

Done: Expenses, ExpenseDb, PushBatch, PushValidation, SyncPush with LwwStore, SyncPull,
Recompute, SyncSystem; Entitlements, Webhook with BillingLedger; ServerClock,
RateLimiter, Accounts, FxRates, Extraction, ParseService; the eight modules of proofs.

Next:

1. A property that bounds each violation: `BadRecordIsolated` for batches whose records
   can all be stored, `ForeignRowsUntouched` for ids that only one user sends, and
   `BaseIsCurrent` for rows no edit of which overlapped a sweep, as invariants with
   proofs, in the way `MissedOnlyByOverlap` bounds `PullMiss`.
2. The safety part of the liveness arguments: that waiting sessions always contain one
   that can go on, or a cycle the deadlock detector breaks.

## 6. Running

    tlc -config PushContention.cfg MCSyncPush.tla
    for m in PushValidationProofs SyncPushProofs UpsertProofs SyncSystemProofs \
             WebhookProofs WatermarkProofs NumberLemmas ParseServiceProofs
    do tlapm $m.tla; done

The `.cfg` files name their specification; `PROJECT.json` maps runs to modules. The
longest runs take about three and a half minutes on two cores, each module of proofs a few.

## 7. Not modelled

- Columns without influence on a decision, the wording of results, and UUID syntax.
- The broker, but for the sweeps in its queue; raw payloads and the RevenueCat id that the webhook stores; event
  timestamps beyond BIGINT or datetime.
- The inside of the LLM, speech and FX clients (prompts, prices, SDK calls), signatures
  and claims of tokens; `get_optional_user`, which no route uses. Only their outcomes
  are inputs of the model.
- Text, category, merchant and payment method of an extraction.
- Object storage (no handler calls it), health, metrics, logging, tracing and request
  middleware: stateless, or observers.
- How long a step takes: that signing keys are fetched by a blocking call, for example.
- Migrations other than the trigger and the unique columns of users, and configuration,
  except as constants.
- Creation of devices, and deletion of users or devices: no code of the repository does
  either.
