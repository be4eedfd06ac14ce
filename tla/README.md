# A TLA+ model of quant-api-gateway

The gateway is one asyncio process between strategy services, a dashboard and
several engines. It ingests daily reports into Postgres (`db_gateway`), writes a
portfolio snapshot once every active strategy has reported, answers reads from
Redis or from Postgres, and proxies the engines. This directory models the parts
where order, failure and sharing matter, checks them with TLC on small instances
and proves every safety property the runs check, and the refinement, for every
instance with TLAPS.

Paths below are relative to the repository root.

## 1. Inventory

| Component (code) | State it keeps | Operations | What is hard | What makes it correct |
|---|---|---|---|---|
| Ingestion (`src/api/v1/ingest.py`, `src/services/ingestion.py`) | `daily_performance`, `strategy_report_snapshot` | accept, one transaction over both tables, acknowledge | concurrent posts of the same key, failure at every statement, a lost COMMIT confirmation, process death | both rows from one payload; an acknowledged report is stored |
| Snapshot writer (`src/services/snapshot_writer.py`) | `portfolio_snapshot` | SELECT the round, test completeness, UPSERT, drop caches | SELECT and UPSERT on separate connections, midnight, backdated reports, errors after the commit | only complete rounds of the right date; every complete round is closed; corrections win |
| Cache and invalidation (`src/services/cache.py`, `cache_invalidator.py`) | Redis keys with a TTL | GET, SETEX, DELETE, SCAN+DELETE, flush | slow readers storing old answers, partial deletes, key families that differ in prefix | staleness is bounded and explained |
| Read endpoints (`src/api/v1`, `src/api/v2/engines/portfolio.py`, `backtest.py`, and their services) | none of their own | lookup, query (metrics: two), store | interleaving with ingest, pool exhaustion, cache down | answers fresh after invalidation, what is cached of a row names a stored row (no 404 is cached), every read ends |
| Admin (`src/api/v1/admin.py`) | — | flush | partial failure; keys outside the pattern | what survives still expires |
| Connection pools and lifecycle (`src/db/*.py`, `src/main.py`) | asyncpg pools, Redis client, registry | startup, shutdown | pool finite and without an acquire timeout | no handler waits for ever |
| Strategy registry (`src/schemas/registry.py`, `src/services/strategy_registry.py`) | `strategies.json`, in memory | `active_strategies`, `by_id` | repeated ids, edits across restarts | |
| Engine proxies (`src/api/v2/engines/execution.py`, `orderbook.py`, `market_data.py`, `crypto.py`) | one httpx client each | JSON call, event stream | timeout of a command that is applied later, refusals against faults, streams that outlive their client | what the caller is told is true and stays true |
| Aggregation arithmetic (`src/services/aggregator.py`) | none (pure) | weighted return, curve merge, drawdown | late starters, unsorted and repeated dates, non-positive values, two bases of one daily return | agrees with its definition |
| Catalogue, signals, strategy listing, schemas, settings, logging, auth, Mongo | constants | | | |

The components meet in three places: the `db_gateway` tables (written by ingest
and snapshot writer, read by the readers), the Redis keys (stored by readers,
deleted by ingest, snapshot writer and operator, expired by Redis) and the
`db_gateway` pool (shared by all handlers). The proxies share nothing with the
rest. `PROJECT.json` lists every component with its status, and under `hazards`
what in this code is hard to test, at its line.

## 2. Modules

| Module | Models | Builds on |
|---|---|---|
| `Store` | registry, tables and their queries, Redis key families | — |
| `Ingest` | the ingest handler with its transaction, invalidation and snapshot writer, any number at once | `Store` |
| `ReportBook` | what ingest promises, whatever it is made of: a report is entered in one step, acknowledged after, a day closed with rows read in one step | `Store` |
| `Gateway` | the cached read endpoints, expiry, flush and the other database, around `Ingest` | `Ingest` |
| `EngineProxy` | the reverse proxies: pool, timeouts, verdicts, streams | — |
| `Aggregator` | `services/aggregator.py` and the daily returns of the rows it works on | — |
| `MCIngest`, `MCGateway`, `MCEngineProxy`, `MCAggregator` | instances for TLC | the above |
| `Ingest_proofs` | theorems about `Ingest` | `Ingest` |
| `Refinement_proofs` | `Ingest` implements `ReportBook` | `Ingest_proofs` |
| `Gateway_proofs` | theorems about `Gateway` for any number of handlers | `Gateway`, `Ingest_proofs` |
| `Serial_proofs` | theorems about a `Gateway` that handles one request at a time | `Gateway_proofs` |
| `EngineProxy_proofs` | theorems about `EngineProxy` | `EngineProxy` |
| `AggregatorSums_proofs` | induction, sums and sorted sequences for `Aggregator` | `Aggregator` |
| `Aggregator_proofs` | theorems about `Aggregator` | `AggregatorSums_proofs` |

### State and code

* **Tables** are functions from the unique key `(strategy, time)` to a
  *revision*, or `NoRow`; an upsert replaces one value. A revision stands for a
  payload's content; those in `Reporting` have a `parsed_report`. Instants are
  integers and `DayOf` is `time::date` (the database session runs in UTC).
* A **snapshot** is not the numbers but the rows they were computed from: the
  arithmetic of `_compute_aggregates` is a function of them, so two snapshots
  agree when their rows do; the arithmetic itself is `Aggregator`. `NoRound` is the
  absent row.
* Some revisions are `Misdated`: their equity curve repeats a date, which the
  payload schema allows. Two curves of other dates, one of them misdated, cannot be
  joined (`Aggregator!JoinRaises`); `Store!MayNotAlign` leaves open whether the dates
  differ, and `AggregationRaises` (ingest) and `QueryRaises` (overall performance)
  are what the handlers then do: neither caller of the aggregator expects a
  `ValueError`, so both answer 500, the first after its commit.
* **Redis** is a partial function from keys to `[value, expires]`. The key
  families are those of `cache_invalidator.py` and the endpoints. A cached value
  is the answer as computed, so it can be compared with what the tables give now
  (`Compute`).
* **Handlers** have a program counter whose labels are the awaits another task can
  notice: `acquire`, `upsert_daily`, `persist_report`, `commit`, three pattern
  deletes, the round's SELECT and UPSERT, the overall delete, one delete per active
  entry. What the transaction wrote becomes visible at `Commit`; until then
  `RowLocked` keeps other writers of the key waiting, as PostgreSQL does. A
  connection is held from `Acquire` to the end of the transaction; the snapshot
  writer's and the readers' statements take and return one within their step.
* The clock is read as `DropBenchmarks` returns, because nothing another task could
  observe lies between that await and `datetime.now(UTC)`.
* **Failures** are switched on per instance by `Disruptions`: `postgres` (a
  `PostgresError`), `connection` (anything else asyncpg or the socket raises, and
  the case where the server did the work before the connection went), `redis`,
  `crash`, `midnight`. The split of the first two follows the `except` clauses:
  `persist_daily_report` turns both into a 500, the snapshot writer only the first
  into the `ServiceError` its caller swallows. `Invalidate` lets a failing SCAN or
  DELETE leave any subset of its keys behind.
* **Readers** go through `lookup`, `query`, for metrics `previous`, for trades
  `page` (count and page are two statements without a transaction), and `store`.
  `NoAnswer` is the `None` behind a 404, or the `ServiceError` of a strategy without
  rows. An overall answer over no rows, an empty page of trades and an empty benchmark
  curve are answers, not absences: the code stores them and so does the model.
  v1 and v2 variants of an endpoint share a key and a model. `late` is a history
  variable: the keys whose current entry was already out of date when stored.
* **Proxy calls** have a handler each; `wire` counts copies of a request the engine
  has not looked at, so a command the gateway stopped waiting for can still be
  applied. `conns` is explicit, so that a leak can be seen. `JsonVerdict` and
  `StreamVerdict` are the two mappings of engine answers. A client may give a call
  up and go on to the next while the handler still runs.

* **Aggregation** goes through `filter`, `join` and `scan`, one point of the merged
  curve per step. `InOrder` is what pandas sorts with, as a definition and not as an
  algorithm, so that it can be reasoned about. Decimals are integers of the last place kept (`Base` is 100 in
  that unit), quotients are exact fractions until `Rounded` to the four decimals
  `merge_equity_curves` formats; binary floating point is abstracted. pandas is
  modelled from its use: labels sorted with equal ones in listed order (true of the
  short curves numpy sorts by insertion; for longer ones with a repeated date it is
  an assumption), series of
  equal indexes joined as they are, others only if their labels are unique.
  `SnapshotReturn` and `OverallReturn` are the two daily returns a client can read
  of the same rows: the stored one divides by the value before, the other by
  today's.

### The promise and its implementation

`ReportBook` has no pool, transaction, clock, cache or program counter: requests
are submitted, entered, acknowledged or given up, days are drafted and closed.
`Ingest` instantiates it as `Book` under a mapping that reads a request's `order`
off its label and reply, pairs the two tables into one book, and takes what a
handler selected as its draft; `ImplementsBook` says that every behaviour of
`Spec`, failures and crashes included, is one of `BookSpec`. It is stronger than
the invariants beside it: it also forbids a row that appears without a request, a
day closed with rows nobody read together, and an entry that is made twice. What it
does not promise is as telling: a day may be closed again with an older draft,
which is the race that `snapshot_race` shows.

Definitions preceded by a comment "Slip:" are plausible bugs; nothing uses them.
Each property has one that breaks it (`mutants` in `PROJECT.json`).

## 3. What the runs check

Passing:

| Run (config) | Shows |
|---|---|
| `ingest` (`MCIngest.cfg`) | `TypeOK`, `ReportMatchesDaily`, `AckedIsStored`, `SnapshotSound` and the refinement `ImplementsBook` with two concurrent handlers under every failure but Redis, and rounds that cannot be aggregated |
| `rounds` (`MCRounds.cfg`) | `RoundIsClosed`: two strategies committing together cannot both take the other for missing; `EveryRequestEnds` |
| `reports` (`MCGatewayReports.cfg`) | `ReportStalenessExplained`, and `CachedHasRow` for reports, with two ingests racing a reader of the latest and a dated report |
| `serial` (`MCGatewaySerial.cfg`) | one handler at a time: `ReportsFreshAtRest`, `PerformanceFreshOnceComplete`, `SnapshotCurrentAtRest`, with a report whose curve may not be joined; `CachedHasRow` for performance, reports, snapshots and metrics, latest and dated, over rounds of two strategies on two dates |
| `gateway` (`MCGateway.cfg`) | `GatewayTypeOK`, `Converges` (a torn page of trades included), `EveryReadEnds`, and `CachedHasRow` for performance and metrics, with every kind of read overlapping an ingest, one pool connection, all failures but midnight |
| `proxy` (`MCEngineProxy.cfg`) | `ProxyTypeOK`, `LastVerdictHolds`, `PathsAgree`, `CallsEnd`, `StreamsAreClosed` |
| `aggregator` (`MCAggregator.cfg`) | `MergedIsLastKnownMean`, `DrawdownIsWorst`, `PeakAtLeastBase`, `NoLossNoDrawdown`, `OverallIsPessimistic`, `AggTypeOK` over every pair of rows of the instance |

Finding a disagreement (each checks one property the repository states):

| Run (config) | Statement | What the code does |
|---|---|---|
| `snapshot_failure` (`MCSnapshotFailure.cfg`) | "never let snapshot failure block ingest acknowledgement" (`ingest.py:78`) | a lost connection in the writer, or a round that cannot be joined, is no `ServiceError`: 500 after the commit |
| `snapshot_race` (`MCSnapshotRace.cfg`) | the second write is idempotent (`phase_3_strategy_ingestion.md:538`) | SELECT, SELECT, UPSERT, UPSERT in crossed order leaves the older aggregate |
| `stale_snapshot` (`MCStale.cfg`) | "the Dashboard never sees stale data…" (`ROADMAP.md:562`) | snapshot and metrics keys are never invalidated |
| `redis_down` (`MCRedisDown.cfg`) | "never 500" (`feature-strategies-report-metrics/PLAN.md:383`) | the lookup's `CacheError` is caught nowhere |
| `paths_drift` (`MCPathsDrift.cfg`) | "mirroring `_proxy`" (`orderbook.py:123`) | a typed 503 is 502 on one path and itself on the other |

`Flush` deletes what its pattern `gateway:*` matches, which is three of the seven
key families: `admin.py:27` says every gateway-owned cache key, the other four wait
for their TTL. That is in the model and visible in one action, so no run is spent
on it.

Three facts of the aggregation, found while stating its properties. A strategy that
starts late pulls the mean towards 100 on its first day, so `NoLossNoDrawdown` needs
its premise that all start together: without it TLC shows a drawdown where no
strategy ever lost. The two daily returns may differ in sign across strategies,
each being a mean over another basis; `OverallIsPessimistic` says in which
direction they differ when there are no deposits. And a round that cannot be joined
leaves the overall and performance answers of the round before in the cache, for no
longer than their TTL: the premise `~MayNotAlign(...)` of
`PerformanceFreshOnceComplete` and `SnapshotCurrentAtRest`.

Two properties of the aggregation were first stated wrongly, and it was their proofs
that failed before any run did. `DrawdownIsWorst` spoke of the worst decline as a
share of any earlier point and forgot values below zero: from a lower point such a
value is the larger decline, and the code divides by the running peak only. 1, 3, -3
is a counterexample. And
`Earliest`, by which `MergedIsLastKnownMean` says who has started, took any point of
the first date; when a curve repeats that date with a positive and a non-positive
value, the code's answer turns on the one listed first. Both curves are now in the
instance (`MCOdd`).

`SnapshotCurrentAtRest` appears twice on purpose: it holds when handlers do not
overlap and fails when they do.

### Bounds

* Two ingest handlers. Every hazard of the ingest side is between two of them:
  the row lock, the missing-row race, the crossed SELECT/UPSERT. The theorems
  remove the bound.
* Two active strategies and a retired one between them in the file, an unknown id,
  two instants of one date and one of the next: a round that needs both, a
  correction at the same instant, a later report of the same day, a backdated or
  postdated one. Two revisions with a report and one without (one and one where
  the two are not told apart).
* A handler may be used again after it answers, so sequences of requests are
  unbounded; `MaxInFlight` bounds how many handlers overlap.
* `PoolSize` is 2 where connections should not matter and 1 where they should.
* `ReadKeys` picks the keys one run reads: each key family is read in some run
  except `benchmark`, which differs from `trades` only in its name.
* Proxy: one upstream connection, two commands of one client and a stream of
  another. Two commands are what it takes for a late one to undo an acknowledged
  one; with one connection a stream really does starve a command. The price is that
  the two handlers of one client seldom wait on connections of their own; the engine
  still takes their commands in either order, because the copy of a command whose
  handler has returned stays on the wire. `VerdictsHold` is for every size.
* Aggregator: two strategies, up to three points on three dates, values -3 to 4,
  weights 0 to 2. Two curves suffice for a late starter, an early end, a gap and
  unequal indexes; three points for a peak that is not the first and a decline that
  is not the last. `Base` is 60 instead of 1000000 so that the quotients of these
  values are mostly exact and TLC's integers do not overflow; rounding still
  happens.
* Symmetry is used for handlers only, and only in runs without temporal
  properties.

### Fairness

`FairSpec` and `GatewayFairSpec` take strong fairness of every handler's steps: the
event loop runs each task that is ready, asyncpg hands connections to waiters
first come first served and PostgreSQL queues for row locks, so a handler whose
turn comes again and again is not passed over for ever. Weak fairness of `Expire`:
Redis does drop what was stored with a TTL. Nothing makes clients post or read,
and no failure or recovery is fair. `ProxyFairSpec` takes weak fairness of the
gateway's own steps (a handler whose timeout has come returns) and none of the
engine. What waits without a timeout is not fair either: a stream request whose
headers do not come, and the body of a refusal (`RefuseStream`), for which
`read=None` holds as well; nor is a write that times out. `MCEngineProxy` and `MCAggregator` switch deadlock checking off: when each
client has made its calls, or the aggregation is done, the model stops.

## 4. What is proved

Every invariant of a passing run and the refinement `ImplementsBook` are theorems.
They hold for every registry, set of payloads, pool size, number of handlers,
readers, clients, strategies and curves; where a theorem has a premise on the
failures it is listed here with the reason. "One at a time" is `MaxInFlight = 1`.

| Theorem | States | Premises | Strengthening |
|---|---|---|---|
| `TypeCorrect` | `TypeOK` | — | — |
| `ReportsMatch` | `ReportMatchesDaily` | — | with `TypeOK` |
| `AckedStored` | `AckedIsStored` | — | `CommittedIsStored` |
| `SnapshotsSound` | `SnapshotSound` | — | `SnapshotInv` |
| `RoundsAreClosed` | `RoundIsClosed` | `QuietDay`, `NoRepeatedId` | `ClosingInv` |
| `IngestImplementsBook` | `ImplementsBook` | — | `SnapshotInv`, `DateRead` |
| `GatewayTypeCorrect` | `GatewayTypeOK` | — | `GatewayTypeInv` |
| `CachedRowsExist` | `CachedHasRow` | — | `AnswerInv` |
| `ReportStaleness` | `ReportStalenessExplained` | `ReportsAreDropped` | itself |
| `ReportsFresh` | `ReportsFreshAtRest` | one at a time, `ReportsAreDropped` | `SerialInv` |
| `PerformanceStaleness` | `PerformanceInv` | `GoodDay` | itself |
| `PerformanceFresh` | `PerformanceFreshOnceComplete` | one at a time, `GoodDay` | `SerialInv`, `PerformanceInv` |
| `SnapshotCurrent` | `SnapshotCurrentAtRest` | one at a time, `SnapshotsAreWritten` | `CurrentInv` |
| `ProxyTypeCorrect` | `ProxyTypeOK` | — | `TypeInv` |
| `VerdictsHold` | `LastVerdictHolds` | — | `VerdictInv` |
| `PathsAgreed` | `PathsAgree` | `Engine = "execution"` | `Judged` |
| `AggTypeCorrect` | `AggTypeOK` | — | `AggInv` |
| `MergedCorrect` | `MergedIsLastKnownMean` | — | `AggInv` |
| `WorstFound` | `DrawdownIsWorst` | — | `AggInv`, `ScanInv` |
| `PeakAboveBase` | `PeakAtLeastBase` | — | `AggInv` |
| `NoLoss` | `NoLossNoDrawdown` | — | `AggInv`, `ScanInv` |
| `Pessimistic` | `OverallIsPessimistic` | — | `InputsOK` |

### Ingest and its refinement

* `ReportsMatch` is inductive with `TypeOK`, because both tables change in one step.
* `AckedStored` is not inductive: the answer 201 is given many steps after the
  commit. `CommittedIsStored` says that every handler past its commit has its rows
  in the tables; rows are replaced but never removed.
* `SnapshotInv` says of the round a handler holds between its SELECT and its UPSERT,
  for the date the handler read from the clock, what `SnapshotSound` says of the
  stored ones.
* `RoundsAreClosed`: `QuietDay` lets nothing but Redis fail, no midnight and no
  round that cannot be joined; `NoRepeatedId` is no active id twice in the registry.
  `ClosingInv` keeps, for every handler past its clock read, that the date is today
  and that the round it holds is complete. The core of the argument: the last
  commit that completes the day is itself followed by a SELECT that sees every row,
  since rows stay; a SELECT that finds the round incomplete contradicts
  `AllReported`. Both premises are necessary: a crash between commit and UPSERT, or
  a `ValueError` there, loses the round until the next post, and with a repeated id
  `len(rows)` never reaches `len(active_ids)`.
* `IngestImplementsBook` takes each step of `Ingest` to one step of the book or to
  none, failures and crashes included. `DateRead` and `SnapshotInv` say that a
  handler's draft is of a date and complete, which a closing demands.

### Cache

* `CachedHasRow` speaks of the four families whose answers are made of rows:
  performance, report, snapshot, metrics. The other three (overall, trades,
  benchmark) do cache empty answers, and nothing is claimed of them. `AnswerInv` says
  the same of the answer a reader carries from its query to its SETEX, and that only
  metrics have a second snapshot to ask for, which is an earlier one (`FirstAnswerIs`,
  `SecondAnswerIs`); the rest is that no table ever loses a row (`BackedStays`). No
  failure is excluded. It says that the rows named are stored, not that their
  contents are still those served: that is freshness, below.
* `ReportsAreDropped` is that nothing but Postgres and midnight disturbs the
  invalidation. A failing Redis leaves report keys behind for their TTL, a lost
  connection at the COMMIT may leave rows without an invalidation, and so does a
  crash.
* `PerformanceInv` names the causes of an out-of-date performance answer that
  hold at any concurrency: a handler that has yet to delete it (`WillDrop`), a slow
  reader (`late`), or a day that is not complete, in which case the code deletes
  nothing by design. `GoodDay` excludes all failures, because each of them ends a
  handler between its commit and its deletes.
* `SerialInv`: at most one handler or reader is at work, so a reader stores what a
  fresh query would give and `late` holds no key of the tables. With `MaxInFlight`
  greater than 1 a reader that is overtaken by an ingest stores an old answer, and
  the "at rest" properties fail.
* `CurrentInv`: until somebody closes it a day has no snapshot, so a handler that
  carries yesterday's date over midnight does no harm, and no row changes under a
  round that is about to be written. The last point is what `MaxInFlight = 1` is
  for, and `snapshot_race` shows it fail without. `SnapshotsAreWritten` excludes
  Postgres failures and crashes between the commit and the UPSERT; Redis may fail
  and midnight may fall anywhere.

### Proxies

`VerdictInv` has four parts. `CallInv`: an answered request is off the wire, and the
verdict a client hears of a command is the engine's. `InTurn`: a client starts a
call when it has its answer to the earlier ones or has given them up. `Reflects`:
what the engine's order shows is a command it may have applied by its own account,
or one whose owner will never hear. `Kept`: an acknowledged command is undone only
by a later one, or by one whose owner will never hear. Timeouts, lost answers,
retries and the gateway's death are all in it. `PathsAgreed` needs its premise: on
the order book, `paths_drift` refutes the property.

### Aggregation

Nothing bounds the number of strategies, the length or the values of the curves, or
the weights. Induction goes through least elements: the predicate to prove is given
as the *set* where it holds, and a finite set not in it has a minimal subset not in
it (`SubsetsByInduction`). From this come `Total` and `WeightIs` (a sum over a set
with one more element), monotonicity of sums, and `InOrderLists` (a finite, totally
ordered set can be listed in order, so the `CHOOSE` in `InOrder` chooses
something). `AggInv` says that each series is a curve sorted and its owner
contributes, and that the merged curve, once there is one, is what `Join` made of
them. `ScanInv` says that `peak` is the greatest value of the prefix
scanned and `worst` the worst decline within it. `PeakAtLeastBase` needs that the
quotients of the first row add up to `Base` exactly, before any rounding.

### Assumptions and limits

The assumptions on the constants (`RegistryAssumption`, `TimesAssumption`,
`RevisionsAssumption`, `KeysAssumption`, `IngestAssumption`, `GatewayAssumption`,
`EngineProxyAssumption`, `AggregatorAssumption`) are types, finiteness of the sets
of readers, of strategies aggregated and of row timestamps (as: every non-empty set
of them has a latest one), that a day, a payload, a row, a strategy and a number are
not their own "none", and that only the execution engine takes commands. TLC evaluates them in the runs.

Only model-checked are the liveness properties `Converges`, `EveryReadEnds`,
`EveryRequestEnds`, `CallsEnd` and `StreamsAreClosed`: they rest on fairness, which
this version of TLAPS cannot reason about (it has no `ENABLED`).

## 5. What the models assume of the outside

PostgreSQL: read committed, statements atomic, sessions in UTC. Redis: single
commands atomic; a SCAN loop that succeeds has deleted the keys that were there
(a key stored while it runs may or may not go: both orders of the two steps are
behaviours). A cached value that fails to parse counts as a miss and is left out.
`db_csm_set` changes whenever it likes. The engine applies what it acknowledges,
does not apply what it refuses and may do either when it fails. `uvicorn` and
`starlette` cancel a running stream when its client leaves and leave other
handlers alone.

## 6. Not modelled

* `cumulative_return`, the allocation and the total value of a snapshot: one
  division or sum each. Values wider than a float's 15 digits or than the 18 digits
  of an `EquityPoint`.
* That a snapshot stores NULL, and not 0, as the drawdown of a round without any
  curve (`snapshot_writer.py:180-182`): no property tells the two apart.
* Uncached reads (date ranges, equity curves, strategy lists): no state.
* What an event stream carries: the proxy hands chunks and `Last-Event-ID` on
  unread, so that a resumed stream has no gap is a promise of the engine's.
* A registry that changes across a restart: `Registry` is a constant. Answers
  cached for the old one are served for their TTL.
* Rows written by something other than the gateway, and so the fallback
  `build_equity_curve_from_rows`: the payload schema demands a non-empty curve.
* Startup, shutdown, registry loading, settings, auth, logging, request ids,
  response formatting, the catalogue, the signals stub, the Mongo client.

## 7. Plan

The modules, runs and theorems planned so far are written. What would say more:

1. Wider premises. `RoundsAreClosed` and `SnapshotCurrent` with failures of Postgres
   allowed *before* the commit, which roll back and disturb nothing; and
   `PerformanceStaleness` with the crashed handler as one more named cause.
2. Freshness at any concurrency: `SnapshotCurrentAtRest` for handlers of which no two
   are between SELECT and UPSERT at once, instead of one handler at all.
3. A registry that changes across a restart, if the proofs of `Ingest` can be kept
   with the registry as a variable. It would cover the hazards of
   `strategy_registry.py` that have no property yet.
