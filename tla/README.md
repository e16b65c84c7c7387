# Verification of the clickstream pipeline

TLA+ models of the clickstream pipeline, checked with TLC on small instances,
and proofs about them for every value of their constants, checked with TLAPS.
Line references are to the repository's files as they are next to this
directory.

## 1. The system

```
kafka-init -> topics
simulator -> producer -> clicks.raw -> Spark driver -+-> Postgres curated.*  -> read API -> CLI
                          (Kafka)      5 queries     +-> ClickHouse olap.*      (Redis)  -> Prometheus
                                                     +-> clicks.dlq                gauges
                                                          Airflow: freshness check, daily rollup
                                                          quality report; recovery drill
```

| Component | State it keeps | Operations | Interacts through |
|---|---|---|---|
| Topic initialisation (`init/kafka`) | none | create, verify until a deadline | Kafka, exit code |
| Simulator (`producer/simulator.py`) | seeded generator, clock | next event | the loop of the producer |
| Producer (`producer/`) | counters, the local queue of librdkafka | produce, poll, flush, close | topic `clicks.raw` |
| Streaming job (`spark_jobs/streaming_job.py`) | per query: offset log, commit log, state store, watermark in `CHECKPOINT_LOCATION` | start sinks, plan, write, commit, fail, restart | topic, both databases, DLQ |
| Sinks (`postgres_sink.py`, `clickhouse_sink.py`) | curated tables, staging tables, `ReplacingMergeTree` tables | `ensure_schema`, `upsert_batch`, `insert_clicks`, `insert_page_views` | foreachBatch callbacks |
| Parsing (`parsing.py`) | none | `parse_message`: event or error | UDF of two queries |
| Read API (`api/main.py`, `cache.py`, `db.py`) | Redis keys `v1:...` with a TTL | `_cached`, `_query` | Redis, Postgres, ClickHouse |
| Rate limiter (`api/cache.py`, `ratelimit.py`) | Redis key per address | `INCR`, `EXPIRE`, compare | Redis |
| Metrics (`api/metrics.py`) | Prometheus gauges | lag collector loop | Kafka, Postgres |
| Airflow DAGs (`etl/dags`) | `curated.daily_summary` | freshness check, daily rollup | Postgres |
| CLI (`go_ops/`) | none | health, topics, freshness, status | read API |
| Quality checks (`quality/run_quality.py`) | two report files | check, report, exit code | both databases |
| Recovery drill (`scripts/chaos`) | shell variables | delete, poll, verdict | kubectl |
| Delta demo, AI assistant, dbt, deployment files | see section 8 | | |

What is hard in it: five queries advance on their own and crash together;
checkpoint, state store and sink are committed one after the other, never
together; a write whose answer is lost is repeated, possibly next to the
session that was left behind; the container keeps the checkpoint across a
restart but not across a recreation; retention removes what a replay needs;
Redis commands of parallel requests interleave and fail one by one; delivery
reports arrive long after the event was counted; a restarted producer repeats
its ids; scripts look at a cluster that moves while they look. `PROJECT.json`
lists the hazards, each with its line and the properties for it.

## 2. Modules

| Module | Models |
|---|---|
| `StreamJob` | the driver, its queries, checkpoints, state stores, sinks and the topic |
| `ExactlyOnceSink` | what one sink promises, without batches, crashes or checkpoints |
| `StreamRefinement` | the mapping under which `StreamJob` implements `ExactlyOnceSink` |
| `CuratedStore` | `upsert_batch` statement by statement, with sessions that outlive their client |
| `AtomicWrites` | what `upsert_batch` promises to the query that calls it |
| `DailyRollup` | `CuratedStore` composed with the rollup DAG that reads its table |
| `RateLimiter` | the fixed-window limiter of one client address |
| `ReadApi` | the cached summary: parallel requests, Redis, Postgres |
| `Freshness` | `ReadApi` composed with its observers: DAG, command line, gauge |
| `OrderedDelivery` | what the producer's client promises to `run()` |
| `ProducerClient` | the loop of the producer, librdkafka, one partition of the broker |
| `TopicInit` | the container that creates the topics |
| `LagGauges` | the Kafka half of the collector loop |
| `RecoveryDrill` | `measure_recovery.sh` against a StatefulSet |
| `EventSource` | the simulator under the pacing of the producer, over restarts |
| `QualityReport` | the quality checks and their reports |
| `Deployments` | the last six composed in the settings in which they run |
| `MCStreamJob` | values of the constants for TLC |
| `StreamJobProofs`, `StreamRefinementProofs`, `CuratedStoreProofs`, `ProducerClientProofs`, `DeploymentsProofs`, `RateLimiterProofs`, `FreshnessProofs` | theorems and their proofs (section 6) |

A definition whose name a comment introduces with *Mutant* is a plausible bug
in the definition that follows it. The specifications do not use mutants; they
show that each property notices the bug.

### StreamJob

A table counts records: `table[q][p]` says how often the record at offset `p`
contributes to the sink of query `q`. A window row of a curated table is the
part of `table[q]` that lies in the window; pages, devices and campaigns of a
window are rows of the same kind and are not told apart. `views`, `clicks` and
the other sums are determined by the set of events; `users` is an
approximation of Spark's and is left out. The topic is one partition.

* `StartSession`, `StartPostgresSinks`, `StartClickhouseSinks`, `StartDlqSink`
  are the statements of `run()` in `SINK_MODE=all` order. A mode that uses
  one database has only its queries in `Queries`. `BootFails` is an
  `ensure_schema` that raises: the queries that are running already die with
  the driver. `DriverExits` is `awaitAnyTermination`, `DriverKilled` any other
  death; the restart policy is `StartSession`.
* `Redeploy` recreates the container: the checkpoint directory
  (`/tmp/clickstream-checkpoints`, `docker-compose.yml:101`) is not on a volume,
  so all queries begin with `startingOffsets=earliest` over full tables.
* `PlanBatch`, `PlanNoDataBatch`, `ReplayBatch`, `CommitBatch` and
  `OffsetsLost` are Spark's micro-batch execution as the options of the job set
  it up: the offset log is written before the batch, the commit log (with state
  and watermark) after it, and an open batch is run again as it was planned.
* `WriteBatch` is the callback: Postgres takes a batch in one transaction,
  ClickHouse in one insert. `Upserted` replaces every row the batch touched by
  its cumulative state; `Inserted` replaces events by `event_id`. ClickHouse is
  read with `FINAL`. `TransientFailure` fails with or without the effect.
* `Expired` is the watermark. A batch filters late rows by the watermark of the
  previous batch (`late`) and evicts by its own, as Spark does.
* `Poisoned`: a timestamp such as `2026-9-1T0:0:0Z`, which `strptime` accepts
  and `to_timestamp` refuses with an exception (kind `odd`).

### CuratedStore, AtomicWrites and DailyRollup

What `StreamJob` takes for one step, the write to Postgres, is here a session
with its five statements and its commit. `stage` is the last statement a
session has completed, `LockFree` the lock that `TRUNCATE` takes on the staging
table. When the driver dies or its connection breaks (`ClientLost`) the session
stays with its locks, perhaps with a statement on its way (`pending`), which
may be the COMMIT. The batch is repeated in a new session. `table[r]` is the
batch whose values row `r` holds. `AtomicWrites` has the same three variables
of the query and its table, and one step for a write.

`DailyRollup` adds `run_daily_rollup`: `Select` fixes the snapshot of the
INSERT, `Aggregate` locks and writes the rows of the summary, `CommitDaily`
makes them visible. A retry starts when no worker runs; what the attempt before
it left behind in Postgres may still be executed.

### RateLimiter

The key with its expiry, and for each request thread whether it is in front of
`INCR`, in front of `EXPIRE`, or answered. `within[n]` and `emptied[n]` are
history: the requests that `INCR` counted and found within the limit, and the
restarts of Redis, in the last `n` ticks. A request that fails open is admitted
without a count and is in no history; while Redis is away their number is
unlimited, which the repository documents (`README.md:239-240`). Redis may be
away, restart empty, lose a reply, or fail `EXPIRE` only.
`FailOpen` is the exception handler.

### ReadApi and Freshness

A request looks up the key, on a miss reads the two tables of `query_summary`
and stores the answer for `Ttl` ticks; every exception of Redis is swallowed,
every exception of Postgres is a 503. The client of Redis sets a timeout for
connecting and none for answers (`cache.py:34-40`), so Redis has three states:
it answers, refuses, or accepts commands and does not answer (`hanging`), where
GET and SET wait. A Postgres that hangs counts as one that is away.
Of the summary only `latest_window` is
kept; `asOf`, the time of the read, is a history value. The tables are seen
from outside: their latest window only moves forward. `Freshness` adds the
three definitions of staleness and the loop that sets the gauge.

### ProducerClient and OrderedDelivery

`msg` follows each event from `produce` to its delivery report. `Check`,
`Produce`, `ProduceRaises`, `Poll`, `FlushServes`, `FlushReturns` and
`FlushTimesOut` are `run()` and `close()`. librdkafka sends in order, retries
what a broken connection left in flight, and reports later; the broker accepts
a sequence number once and in order, which is what `enable.idempotence` buys.
A message fails by `message.timeout.ms` only while the broker is away, and
flush runs into its 10 seconds only then: a reachable broker is fast enough,
and the five retries (`kafka_client.py:17`) do not run out on it.

`config` holds the two limits of a run as the command line passes them, and is
chosen in `Init`: `max_events` with 0 for none, and `duration` for whether there
is a deadline (`cli.py:78-88`). Without either the loop has no end
(`Unlimited`). A deadline may come at any check of the loop and has come when
`MaxEvents` have been produced; without limits the loop rests at that bound.
`Restart` is the restart policy: the next process begins with an empty client
and the partition of its own appends begins anew, while `earlier` counts what
the ones before it left in the topic. A producer that is killed in its loop is
not modelled here; `EventSource` stops it anywhere.

`OrderedDelivery` is what `run()` sees of all that: events handed over, an
ordered partition, reports that are counted once each, and an end. The mapping
takes `made` from the events begun, `told` from the reports served, and both
ways to end (`done`, `crashed`) to `over`. It promises nothing about events
that were never reported: they may be in the partition or not.

### Deployments

The parts around the streaming job, in the settings the repository has for
them. The settings do not interact; the variables of a part that is not in
a setting stay as they were.

* *compose*: `TopicInit` asks for all topics, swallows the errors of single
  topics, and looks until they all exist. Another client may name a topic
  first, and the broker then creates it with one partition. When the script has
  exited with 0, `StartServices` lets the producer (`ProducerClient`) and the
  streaming job go; of the latter only the dead letters are seen. The producer
  has no limits (`docker-compose.yml:240-241`) and is started again whenever it
  ends (`ProducerRestarts`). `LagGauges` reads the end offsets topic by topic; an exception ends the round, not the
  loop.
* *host*: the producer on its own, with every combination of limits that a
  command line can give it.
* *kind*: `RecoveryDrill` deletes the broker's pod, reads the UID of the victim
  only then, and polls UID and readiness in two calls of kubectl, each of which
  may fail and yield an empty string. `LagGauges` runs here as well.
* *seeded*: one process of the producer after the other with the same seed
  (`EventSource`), and the two stores its events reach through the streaming
  job: `olap.clicks` by their id, the windows of Postgres by counting. Python's
  generator is a stream of words that the seed fixes. `state` is the next word
  of the process; a draw takes as many words as they say themselves (weighted
  choices and conditional draws take different numbers), and the header of a
  session (`OpenSession`) or an event (`Emit`) is what is drawn from there.
  `words` and `lengths` are the part of the stream that was read so far, chosen
  when it is first read and kept for all processes: that every process begins
  at the first word and that nothing else reads the generator is modelled, not
  assumed. Ids and sessions are named by the word they were drawn from: two
  draws of 128 bits are taken to differ. The clock begins at the wall clock
  truncated to a second and advances with each event (`Ts`), and the loop sleeps
  while it is ahead (`Paced`).
* *checked*: one such process, and `QualityReport`, which checks both stores and
  writes its JSON and its HTML report one after the other.

## 3. Runs

| Run | Question | Result |
|---|---|---|
| `stream_replay` | Does an aggregation stay complete, exact and monotone under kills, outages, ambiguous writes, retention and a lost checkpoint, and does it implement the abstract sink? | holds |
| `stream_live` | Does each message reach exactly one of `olap.clicks` and `clicks.dlq`, does every record get committed by every query, does a failed query run again? | holds |
| `stream_aligned` | Do Postgres and ClickHouse agree (`docs/design-decisions.md:8-9`)? | violated |
| `stream_stale_replay` | Is replacing a row always safe (`postgres_sink.py:4-6`)? | violated |
| `stream_poison` | Does a bad record leave the main path alone (`data-path.md:9`)? | violated |
| `curated_sessions` | Is a write of several statements atomic and in order for readers, next to sessions that were left behind? Does the daily summary never go back, and does the sink never block for good? | holds |
| `limiter_faults` | How many requests pass in one window, and is the limit temporary? | holds |
| `limiter_lockout` | Does an outage of Redis leave the API working (`README.md:239-240`)? | violated |
| `producer_faults` | Do the parts around the streaming job keep what they promise: topics, producer, gauges, drill, seed, quality report? | holds |
| `producer_drop` | Is every event delivered or reported (`SKILL.md:48`)? | violated |
| `freshness_views` | How old can an answer be; can the cache hide staleness; is Redis optional, short of hanging for good? | holds |
| `freshness_empty` | Does stale data raise (`docs/runbooks.md:35-36`, `SKILL.md:66`)? | violated |

### What the properties say

Streaming job (`stream_replay`, `stream_live`):

* `MissingOnlyIfLate` - a committed event is in the sink unless an earlier
  record had already moved the watermark past its window.
* `PunctualEventsCounted` - an event at most two minutes older than every event
  before it is counted, wherever in its window it lies and however the batches
  were cut.
* `CountedOnce` - no sink counts a record twice or counts a rejected one.
* `StateIsOpenWindows` - the state store is exactly the committed events of
  open windows; a row a batch emits is complete because of it.
* `RowsNeverShrink` - no step takes an event the topic still has out of a row,
  not even the first batch after the checkpoint was lost. It holds because that
  batch reaches beyond everything that was ever written.
* `ImplementsExactlyOnceSink` - a batch takes effect at once and in offset
  order; replays are stuttering steps.
* `ParseSplit` - what both queries have committed is in exactly one output.
* `EventuallyCommitted`, `FailedQueryRestarts` - progress.

Sink and rollup (`curated_sessions`):

* `TableIsWhole` - the curated table holds all acknowledged batches, and
  possibly the one being written, with the last batch of each row on top.
* `ImplementsAtomicWrites` - the five statements implement one atomic write. An
  orphan that commits is a write of the batch that is being repeated.
* `DailyNeverGoesBack` - "re-runs are safe" (`batch_rollup.py:4`), although a
  retry runs next to what is left of the attempt before it.
* `BatchesGetAcked` - a session that was left behind does not block its
  repetition for ever.

Limiter, cache and observers (`limiter_faults`, `freshness_views`):

* `BurstBound` - the counts admit two windows' worth of requests in any period
  of one window, one more for each restart of Redis in that period (a fixed
  window cannot promise less). It is about requests admitted by their count:
  the ones an exception admits (`cache.py:90-91`) are not limited by anything.
  `BurstInv` is the account behind it: what the key has admitted since its last
  `EXPIRE`, and what the keys before it did.
* `ExpiryIsComing` - as long as nothing failed, a counter without an expiry has
  a request in front of `EXPIRE`.
* `WindowNotProlonged`, `LimitIsTemporary` - stated for runs in which nothing
  failed, because `limiter_lockout` shows what one failure does.
* `AnswersAreRecent` - an answer is younger than a lifetime of the key and two
  requests, even when a slow request overwrites a newer summary.
* `CliNeverHidesStaleness` - the cached view may raise a false alarm, but never
  passes data the DAG rejects at that moment.
* `GaugeIsOneRoundBehind` - stated for runs without outages and for rounds that
  take no longer than their interval.
* `ServedWithoutRedis` - a request that Postgres can serve is answered although
  Redis goes away, restarts, or hangs for a while. It excepts the Redis that
  accepts commands and never answers again: `cache.py:34-40` sets no
  `socket_timeout`, and nothing else ends the wait.

Around the streaming job (`producer_faults`):

* `TopicInOrder`, `Accounted`, `HealthyRunDeliversAll` - the producer.
  `Accounted` includes the run that dies of a full local queue.
* `LimitedRunEnds` - a producer with a limit ends, and closing does not wait for
  a broker that is away. It says nothing about the producer of compose, which
  has no limits and is meant to run for ever.
* `ImplementsOrderedDelivery` - the client, its thread and the broker implement
  the abstract log of `OrderedDelivery`, next to all other services.
* `StartedMeansReady` - the services start against topics that exist, with the
  declared partitions unless another client was there first.
* `RoundsAreComplete`, `DeadLettersShow` - a round that went through is not
  behind its beginning; dead letters show in the end, whatever rounds failed.
* `RecoveredMeansReplaced` - a recovery is reported for another pod than the
  deleted one, although the UIDs are read while the pod is being replaced.
* `SeedRepeatsIds` - the n-th event is the same event in every process, with the
  same id and session, however many words of the generator its predecessors
  took and wherever the processes were stopped; and no process repeats an id.
  It fails as soon as something that depends on the clock reads the generator
  (`JitterToo`).
* `RestartOverwrites` - so the stores disagree after a restart: what Postgres
  counted is the rows of `olap.clicks` plus the events that came twice, and each
  row carries the latest timestamp of its event.
* `TimestampsAreHonest` - no timestamp is ahead of the wall clock or goes back.
* `PassMeansRows` - a report that says PASS was written when both stores held
  rows, and an exit code agrees with both reports.

Three limits are worth knowing. The drill takes a fast recreation for the old
pod and reports an error for a pod that has recovered; and a failed read of the
old UID lets the old pod pass for a new one (`measure_recovery.sh:19`), which
is why `RecoveredMeansReplaced` assumes that kubectl answers. The docstring of
the simulator counts timestamps among what a seed determines
(`simulator.py:57-58`); the producer passes no `start_time`, so the clock starts at the wall time
and they are not (`simulator.py:74`). And `StartedMeansReady` needs its second disjunct: the
partitions of a topic that somebody else created are never compared.

### What the violations show

* `stream_aligned`: an old event behind a young one. One query reads both in
  one batch and counts the old event; the other reads the young one first, its
  watermark moves and the old event is dropped. The stores differ for good.
* `stream_stale_replay`: a window is complete, the container is recreated,
  retention has removed the first event of the window, and the replay replaces
  the row by one without it.
* `stream_poison`: the batch with the odd timestamp fails, the driver is
  restarted, replays the same batch and fails again; nothing behind it is ever
  processed and the record does not reach the DLQ.
* `limiter_lockout`: `INCR` creates the key, `EXPIRE` fails; from then on the
  count is never 1 again, so no request sets an expiry. TLC's trace loses the
  reply of the first `INCR`, which skips `EXPIRE` in the same way.
* `producer_drop`: the broker is away when `close()` flushes; the flush ends
  after 10 s, before the messages time out after 30 s, and its result is
  ignored. (`produce` also raises `BufferError` out of `run()` when the local
  queue is full: `ProduceRaises`.)
* `freshness_empty`: the DAG takes an empty table for infinitely stale, the
  gauge for current. With `MaxFaults = 1` the same property also fails when
  Postgres is away: the gauge keeps its last value.

## 4. Bounds

One tick of `StreamJob` is a minute: `WindowLen = 1`, `Delay = 2` are the
values of the code. Timestamps 0, 2 and 3 are enough for an event to be in
order, older than the one before it within the tolerance (2 behind 3, 0 behind
2), and late (0 behind 3); a batch boundary can fall before, between and behind
the records.

* `stream_replay` has 3 records out of those timestamps: every order of a late
  event, a tolerated one and the one that moves the watermark;
  two faults, so that a failed write can be followed by a kill
  during its replay; one recreation and one record lost to retention. A third
  fault only repeats what two can do to a single open batch.
* `stream_live` has three queries, so that a failure of each kind of sink can
  bring down the others. Two records and one fault keep the liveness graph
  small. `MaxCopies` is where the count of dead letters saturates.
* `curated_sessions`: two rows, two batches (a batch can touch a row again or
  leave it), two sessions and one fault: an orphan and the session that repeats
  its batch. Two attempts of the rollup: a retry next to an orphan of its own;
  `WorkerLost` is bounded by them.
* `limiter_faults`: three threads against a limit of two, windows of two ticks,
  two faults. `MaxCount` lies beyond the limit, where the count only means
  "exceeded".
* `producer_faults`: three events against a queue of two, two in flight, two
  faults (an outage, a lost reply, or a restart of the process); any number of
  reruns of the topic script, one dead letter; two polls of the drill and one
  failed read; draws of one or two words, sessions of two events and three
  events, so that a run ends inside a session; two runs, a second of two events and a clock of
  four, so that a run can begin within a second; one run of the quality checks
  (the second one finds what the first one left only in its exit code, and the
  proof covers any number). Three partitions are the value of `TOPICS`.
* `freshness_views`: two requests, a key that lives for a tick, a clock of four
  ticks, one fault. `MaxWork` is an assumption about the duration of a request:
  time does not pass while one is held up for longer, so `AnswersAreRecent`
  says nothing about requests that a hanging Redis holds.

`CHECK_DEADLOCK FALSE` is set where the modelled system may come to rest: the
log is full and committed, the producer has ended, the clock has stopped.

## 5. Fairness

* `StreamJob`: weak fairness of the boot sequence (`restart: unless-stopped`),
  of every query (a thread each) and of the end of an outage. Faults are
  bounded. Nothing is assumed about producers, kills or recreations.
* `DailyRollup`: the thread of the query and the statements it waits for go on,
  and Postgres ends the session of a client that is gone. Nothing is assumed
  about Airflow.
* `RateLimiter`: requests that have begun go on, Redis comes back, time passes.
* `Deployments`: the main thread of the producer and librdkafka's thread run,
  the loop of the gauges goes round, a reachable broker answers. A broker that
  is down need not come back: `LimitedRunEnds` does not depend on it, and
  `DeadLettersShow` excepts it. Nothing is assumed about the topic script, the
  drill or the quality checks.
* `Freshness`: the thread of a request goes on, except where it waits for a Redis
  that hangs. Outages may last for ever, hanging included; `ServedWithoutRedis`
  then promises nothing for the latter.

## 6. Proofs

The proofs hold for every value of the constants under the assumptions stated
in the modules (bounds are natural numbers, lifetimes and windows positive):
any number of queries, records, sessions, requests, events, faults and runs.
The type invariants of `StreamJob` and `Deployments` are checked by a run as
well; those of the sink, the limiter and the observers are proved only.

| Module | Theorem | States |
|---|---|---|
| `StreamJobProofs` | `TypeCorrect` | `Spec => []TypeOK` |
| | `SinkInvariant` | `Spec => []SinkInv` |
| | `SinksComplete` | `Spec => []MissingOnlyIfLate` |
| | `PunctualEventsArrive` | `Spec => []PunctualEventsCounted` |
| | `PunctualStoresAgree` | `Spec => [](AllPunctual /\ start = 0 => SinksAligned)` |
| | `SinksExact` | `Spec => []CountedOnce` |
| | `StateTracksOpenWindows` | `Spec => []StateIsOpenWindows` |
| | `RowsOnlyGrow` | `Spec => RowsNeverShrink` |
| `StreamRefinementProofs` | `SinkRefinement` | `Spec => ImplementsExactlyOnceSink` |
| | `MessagesSplit` | `Spec => []ParseSplit` |
| `CuratedStoreProofs` | `StoreInvariant` | `Spec => [](TypeOK /\ StoreInv)` |
| | `RollupTypeCorrect` | `Spec => []TypeOK` |
| | `WholeBatches` | `Spec => []TableIsWhole` |
| | `DailyMonotone` | `Spec => DailyNeverGoesBack` |
| | `Refinement` | `Spec => ImplementsAtomicWrites` |
| `ProducerClientProofs` | `ProducerInvariant` | `Spec => []ProducerInv` |
| | `ProducerTypeCorrect` | `Spec => []TypeOK` |
| | `TopicOrdered` | `Spec => []TopicInOrder` |
| | `EventsAccounted` | `Spec => []Accounted` |
| | `ProducerDeliversInOrder` | `Spec => ImplementsOrderedDelivery` |
| | `HealthyRunComplete` | `Spec => []HealthyRunDeliversAll` |
| `DeploymentsProofs` | `DeploymentInvariant` | `DeploymentSpec => []DeploymentInv` |
| | `DeployedProducer` | the three producer invariants, in every setting and over restarts |
| | `DeployedDelivery` | `DeploymentSpec => ImplementsOrderedDelivery` |
| | `ServicesStartReady` | `DeploymentSpec => []StartedMeansReady` |
| | `RecoveryIsReal` | `DeploymentSpec => []RecoveredMeansReplaced` |
| | `HonestTimestamps` | `DeploymentSpec => []TimestampsAreHonest` |
| | `SeedDeterminesEvents` | `DeploymentSpec => []SeedRepeatsIds` |
| | `RestartsOverwriteRows` | `DeploymentSpec => []RestartOverwrites` |
| | `ReportsAreTrue` | `DeploymentSpec => []PassMeansRows` |
| | `RoundsComplete` | `DeploymentSpec => RoundsAreComplete` |
| | `DeploymentTypes` | `DeploymentSpec => []DeploymentTypeOK` |
| `RateLimiterProofs` | `LimiterTypeCorrect` | `Spec => []TypeOK` |
| | `BurstInvariant` | `Spec => []BurstInv` |
| | `BurstIsBounded` | `Spec => []BurstBound` |
| | `NoOrphanedCounter` | `Spec => []ExpiryIsComing` |
| | `NoProlongedWindow` | `Spec => WindowNotProlonged` |
| `FreshnessProofs` | `FreshnessTypeCorrect` | `Spec => []TypeOK` |
| | `AnswersRecent` | `Spec => []AnswersAreRecent` |
| | `CliHonest` | `Spec => []CliNeverHidesStaleness` |
| | `GaugeOneRoundBehind` | `Spec => []GaugeIsOneRoundBehind` |

### Streaming job

`MissingOnlyIfLate` is not inductive: that a replayed batch rewrites a complete
row depends on the state store holding all events of the open windows
(`StateIsOpenWindows`), on the table holding what the state store holds
(`StateIsBacked`), on the batch being in the table between its write and its
commit (`BatchIsWritten`), on the order of the offsets (`OffsetsInOrder`), and,
after a lost checkpoint, on the first batch reaching beyond every row that was
ever written (`RowsWithinPlan`). `SinkInv` is their conjunction; TLC checks it
in `stream_replay`. The proof has one lemma per kind of step: a step that
leaves checkpoints and tables alone (`QuietStep`), a new record, a recreation,
planning, writing, committing. `EffectFacts` says what a write does to a table,
`ExpiredMonotone` and `SameWindow` are the facts about windows and watermarks
they rest on. `RowsOnlyGrow` is an action property and follows from the same
invariant.

`PunctualEventsArrive` compares two measures of lateness: the code promises a
tolerance in minutes (`streaming_job.py:3`), Spark drops by the end of a
window. An event within the tolerance has a window that ends later than the
watermark of anything before it (`PunctualIsOpen`), for every window length and
delay. `PunctualStoresAgree` is the other side of the run `stream_aligned`:
while every event is punctual and the topic is complete, the stores agree on
what both have committed, so late events are all that can make them differ.
The producer of the repository makes no late events in one partition: its
timestamps never go back, over restarts either (`TimestampsAreHonest`), and the
partition keeps their order (`TopicInOrder`). Late events come from several
producers, or from partitions that are read at different paces.

The refinement (`StreamRefinementProofs`) needs one fact more: between a write
and its commit nothing is left to be written (`WrittenHasLanded`). Then every
step of a query is a step of its abstract sink or a stutter (`SinkStep`):
planning changes nothing (`PlanDelivers`), a write delivers the planned batch
(`WriteDelivers`), a commit moves on (`CommitDelivers`), and a record that
arrives later changes nothing that is on its way (`EffectKept`). `ParseSplit`
follows from `SplitInv`: no batch with a record of kind `odd` is ever written,
so no committed offset lies behind one, and the dead-letter topic holds the
rejected messages of the committed batches and no other kind.

### Sink and rollup

`StoreInv` says that one session holds the staging lock (`OneLockHolder`), that
whatever may still be committed is the batch to be acknowledged
(`CommitsAreCurrent`), that the summary and every snapshot are behind the table
(`BehindTable`), and that no attempt that may still commit has read less than
the summary holds (`SnapshotsInOrder`). An orphan can only be dangerous when
its COMMIT is on its way; the lock keeps the repetition from being acknowledged
before that orphan is gone. TLC checks `StoreInv` in `curated_sessions`.

### Producer and deployments

`ProducerInv` strengthens `TopicInOrder` by `NoGapToFill`: nothing older than an
event in the topic is waiting to be sent, so a retry can only be refused. The
counters stay within `MaxEvents` because of `Accounted`, which is why the type
invariant is a consequence and not the beginning. `DeploymentInv` has one part
for each component; `WhoChanges` says that each variable belongs to one of
them, and each part is then shown to survive its own steps. The part of the
producer is `ProducerInv` in compose and on the host, and an untouched client in
the other settings; a restart begins it anew over a longer topic.

For the seed the part (`SeedPart`) says that there is one trail through the
stream (`Trail`): the words at which draws begin, with the session, the events
left in it and the number of events made at each. Each process stands on the
trail with its state, and each event of any process was made on it (`OnTrail`,
`MadeOnTrail`). A draw either follows the trail or, at its end, makes it longer
(`TrailGrows`), and a new process goes back to its beginning (`SeedStays`). The
number of events made grows strictly along the trail, so the n-th event lies at
one word only: that is `SeedRepeatsIds`. `RestartOverwrites` follows by counting:
an arrival makes a new row when no event of the same number arrived before it,
and is one of the `Repetitions` otherwise.

`ProducerDeliversInOrder` maps every step of the producer to a step of
`OrderedDelivery` or to a stutter (`DeliveryStep`): `HandsOver` needs
`Numbered`, `Appends` needs `NoGapToFill` (what the broker accepts is younger
than all it has), `Reports` needs both `Numbered` and `TopicInOrder`, and
`RunEnds` that what is thrown away was never reported. A restart of the process
(`RestartStep`) is a new run of the abstract log. `DeployedDelivery` carries the
result into the settings by `WhoChanges`.

### Limiter and freshness

`BurstBound` needs the account that `BurstInv` keeps. The key lives for one
window after its last `EXPIRE`, so what the counts admitted in the `Window - ttl`
ticks since then was counted by it (`Spent`). Before that lie one key that
ended by itself and the keys that restarts removed, each worth at most
`MaxRequests`. A tick moves the account by one (`Older`), an `INCR` within the
limit spends one request more (`SpentByIncr`), a restart opens a new budget
(`BudgetGrows`). Late or lost `EXPIRE`s only make the key live longer.
`NoOrphanedCounter` rests on `ExpiryStep`: the `INCR` that creates the key
sends its own request to `EXPIRE`, and only `EXPIRE` takes it from there.

`WindowOpens`: as long as nothing failed, a request in front of `EXPIRE` has a
counter without expiry before it and is the only one. `FreshInv`: the summary a
request has read is as old as its work, the one in the cache older by what has
passed of its lifetime (`SummariesAreRecent`); none shows a window the table
does not have (`SummariesAreOlder`); and without outages the gauge was exact
when the loop last went round (`GaugeWasExact`).

## 7. Model-checked only

* Liveness under fairness (`EventuallyCommitted`, `FailedQueryRestarts`,
  `BatchesGetAcked`, `LimitIsTemporary`, `ServedWithoutRedis`, `LimitedRunEnds`,
  `DeadLettersShow`) is out of the prover's reach. Every invariant and every
  other property of the passing runs is proved.
* The runs that expect a violation, by their nature.

## 8. Not modelled

* `delta_lakehouse.py`: a deterministic script of one process over a fixed
  fixture. It overwrites its tables first and merges one of them with the
  aggregate it was just made from; no input varies and no order is open.
* `ai_assistant/`: stateless handlers, real arithmetic, string matching.
* `dbt/`: declarative SQL over the curated tables.
* The choice of users, pages, devices and amounts in `simulator.py`, the field
  checks of `schema.py` and `parsing.py`: nothing downstream tells the values
  apart; that a record is good, bad or odd is its kind.
* The other queries of `db.py` (one statement each, with or without the cache),
  the HTTP counters, the command lines.
* Sink modes `console`, `memory`, `none`: they write no table.
* `measure_recovery.sh deployment`: one call of `kubectl rollout status`.
* Helm, Terraform, Ansible, Grafana, alert rules: configuration. Of the compose
  file the models use the restart policies, `depends_on`, and which data are on
  a volume.
* `flink_jobs/` is empty.

Known limits of the models: the tables of `Freshness` are seen from outside and
not composed with `StreamJob`; overlapping runs of the rollup that a person
triggers are left out; `stream_live` has no recreation of the container, since
what it changes (a full replay) is a question of safety, which `stream_replay`
answers; no lag is ever set, because `fetch_lag` asks for a group that commits
nothing (the alert `KafkaConsumerLagHigh` has no series to look at); the check
`max_ts_not_null` of the quality report is left out, because `max(ts)` of an
empty ClickHouse table is 1970 and the check cannot fail; calls of Kafka and
Postgres that block the event loop of the API are steps without duration; the
limit of a minute and of 180 seconds in `go_ops/main.go:82,84` and the values
`FRESHNESS_*` that the DAG reads share one constant, as they do in compose
(`CliFails`); the round of the gauges raises only while the broker is down,
although `metrics.py:106-110` catches any exception (`RoundRaises`); with one run
of the quality checks TLC meets no report of an earlier run, which only the
proof of `PassMeansRows` covers; dead letters may be appended twice, and nothing
limits it (`ParseSplit` is about presence); retries inside the client of Redis
are part of the one command that answers or fails.

## 9. Order of work

The modules were built, and are best read, in this order: `StreamJob` with its
proofs and refinement; `RateLimiter`, `ReadApi` and `Freshness`;
`CuratedStore` and `DailyRollup`, which open the atomic write of `StreamJob`;
`ProducerClient`; the parts of `Deployments`; the proofs of each. What would
come next: the composition of `CuratedStore` with `StreamJob` in one instance
(its state space is out of reach of a small run, and the two refinements
already meet at the batch), and a reading of new code against the properties
here.
