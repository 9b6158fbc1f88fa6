# Verification of the streaming platform

TLA+ specifications of the platform's streaming core, the TLC configurations
that check them on small instances, and proofs that hold for every instance.
The reference is the code under `src/src/` and the documents under `src/docs/`;
`PROJECT.json` maps every definition to the lines it stands for.

## 1. The system

Debezium writes the changes of a PostgreSQL database to a Kafka topic. A Spark
job reads the topic, enriches the changes and writes them to a hot (Redis), a
warm (OpenSearch) and a cold (S3 Iceberg) store. Other jobs aggregate clicks
into ClickHouse and push alerts to WebSocket clients.

| Component | Source | State | Operations | Interacts with |
|---|---|---|---|---|
| Kafka source | `sources/kafka.py` | none of its own; options of Spark's source | `read_stream` (start at latest, cap per trigger, fail on data loss) | topic, query |
| Streaming query | `jobs/*.py` (`_start_sink`), `sinks/base.py` | the checkpoint: start, offset log, commit log; the driver's current batch | start, plan, callback, commit, crash, restart | source, one sink |
| Base sink | `sinks/base.py` | none | `make_foreach_batch_fn` (tolerance, raise), `failure_rate`, `extract_idempotency_token` | query, sinks |
| Debezium parser | `sources/debezium.py` | none | `parse_debezium_stream` (filter, `event_id`) | topic, job |
| S3 Iceberg sink | `sinks/s3_iceberg_sink.py` | the table | `write_batch`: count, append | catalog |
| OpenSearch sink | `sinks/opensearch_sink.py` | the index | `write_batch`: bulk, counted per item | cluster, client retries |
| Redis sink | `sinks/redis_sink.py` | hashes and their time to live | `write_batch`: pipeline of HSET, EXPIRE | server, client retry |
| Orders job | `jobs/orders_cdc_enrichment.py` | catalog loaded at start, three queries | `run`, `_start_sink`, `awaitAnyTermination` | all of the above |
| WebSocket sink | `sinks/websocket_sink.py` | the producer's buffer | `write_batch`: produce, flush | topic `ws-broadcast` |
| WebSocket lambdas | `lambdas/ws_*.py` | DynamoDB registry of connections | connect, disconnect, broadcast | API Gateway |
| Clickstream job, windows | `jobs/clickstream_aggregation.py`, `transforms/windowing.py` | Spark's state store, watermark | sliding windows (update mode), sessions (append mode) | ClickHouse sink |
| ClickHouse sink | `sinks/clickhouse_sink.py` | the table | `write_batch`: one insert | ClickHouse |
| Databricks track | `notebooks/01_orders_cdc_comparison.py`, `notebooks/02_dlt_orders_pipeline.py` | an Iceberg table; bronze, silver and gold, each with a checkpoint | four native streaming queries | topic, each other |
| Alerting job | `jobs/realtime_alerting.py` | Spark's state store | window statistics joined to transactions | WebSocket sink |
| Flink dedup | `flink/dedup_stream.py` | keyed `seen` flag, timers | `process_element`, `on_timer` | topic |
| Secrets, EMR, topics | `utils/secrets.py`, `orchestration/emr_submit.py`, `lambdas/topic_creator.py` | an in-process cache | one AWS or Kafka call each | AWS |
| Helpers, CLI, SQL, scripts, infrastructure | `utils/`, `state/`, `lineage/`, `cli.py`, `flink/*.sql`, `scripts/`, `infra/` | none | configuration | |

The hard behaviours are those of delivery. A driver dies between any two
steps. A batch is planned, written and committed in three places that no
transaction spans. A store accepts part of a batch, or all of it and then loses
the answer. Clients repeat requests that are still under way. Retention deletes
records nobody has read. Three queries live and die with one driver. Clicks come
out of order, and a watermark decides which still count. `PROJECT.json`
lists the hazards at their lines, with the property that would notice each one.

What makes each component correct:

- query: a restart repeats exactly the batch in doubt; batches are bounded;
  lost records halt it; it drains a backlog;
- every sink: what is behind the committed offsets is in the store
  (at-least-once), and a repetition does no harm the docs rule out: the
  archive has whole batches and as many copies as there were drivers, documents
  never change, a settled hash has the newest values and expires;
- orders job: each query alone behaves as if it had a driver of its own, one
  failure stops all, slowness stops nobody else;
- WebSocket path: an alert behind the committed offsets reaches the topic; a
  record reaches the clients it is for that were connected, and no others,
  while clients come and go, reads are stale and invocations are repeated; no
  record blocks the topic;
- windows and sessions: the OLAP table counts every click that was not later than
  the watermark's delay and none twice, a window that is closed stays as it is,
  sessions do not overlap and are reported without waiting for another click;
- dedup: no event disappears, a transaction passes again only after its window, a
  restart changes neither, and every piece of keyed state has a timer that clears it;
- Databricks track: a record is one row at most in either track, nothing committed
  is missing, both tracks show the orders the job on EMR keeps, gold catches up with
  the topic while its queries are up.

## 2. The modules

| Module | Models | Extends |
|---|---|---|
| `StreamingQuery` | a topic with retention, one query, its checkpoint and callback; a sink may report any result | |
| `AtLeastOnceDelivery` | abstract: what a sink promises (open, store, acknowledge) | |
| `OrdersStream` | the rows of a batch: filters, event ids, tokens | `StreamingQuery` |
| `S3IcebergSink` | the cold sink | `OrdersStream` |
| `OpenSearchSink` | the warm sink | `OrdersStream` |
| `RedisSink` | the hot sink | `OrdersStream` |
| `OrdersJob` | the fan-out: several queries, one driver, one catalog | `StreamingQuery`, by refinement |
| `WebSocketSink` | the alerting job's sink and its Kafka producer | `StreamingQuery` |
| `WsBroadcast` | the three lambdas, the registry, the clients | |
| `ClickHouseSink` | the OLAP sink | `StreamingQuery` |
| `ClickstreamQuery` | the two stateful queries of the clickstream job | `ClickHouseSink` |
| `DedupWithTimer` | the keyed process function of the Flink job | |
| `OrdersLakeTables` | the Databricks notebook and the bronze, silver, gold chain | |
| `StreamingQueryProofs`, `S3IcebergSinkProofs`, `OrdersJobProofs`, `DedupWithTimerProofs`, `OrdersLakeTablesProofs` | proofs | the module of that name |
| `ServingSinksProofs` | proofs about the warm and the hot sink | `OpenSearchSink`, `RedisSink`, `StreamingQueryProofs` |
| `WebSocketProofs` | proofs about the sink and the lambdas | `WebSocketSink`, `WsBroadcast`, `StreamingQueryProofs` |
| `ClickstreamQueryProofs` | proofs about windows and sessions | `ClickstreamQuery`, `StreamingQueryProofs` |
| `MC*` | values of the constants for TLC; `MCWebSocketPath` puts the two WebSocket modules into one run | |

### State and actions

`StreamingQuery`. Spark runs the query; the code chooses how (`kafka.py` the
options, `base.py` the callback, `_start_sink` the checkpoint and the trigger).
A position is the number of records before it, so a batch `<<from, until>>` has
the records `from + 1 .. until`. `startPos`, `offsetLog` and `commitLog` are the
checkpoint directory: an entry is added to `offsetLog` before the callback runs
(docs/EXACTLY_ONCE.md, lines 21 to 29) and `commitLog` counts the batches whose
callback returned. `phase` goes from `idle` to `planned` (`PlanBatch`) to
`writing` (`ReadBatch`, the `collect()` or `count()` of the sinks) to `returned`
or `down` (`RunBatch`, all of `fn`: write, compare the failure rate, raise; its
last part, `EndCallback`, is what the sinks reuse) and
back to `idle` (`CommitBatch`). `Start` reads the checkpoint: a planned batch
that is not committed runs again with the offsets in the log. `Crash` can happen
anywhere. `Expire` is retention; `FailRead` is `failOnDataLoss`. Spark itself is
not in the repository: its steps are modelled as far as the code relies on them
and marked external.

The topic has one partition. The order of records of different partitions is
used nowhere by this code: Debezium keys an order's changes by its primary key,
so they share a partition, and offset ranges are kept per partition.

`OrdersStream` adds what a batch contains. The content of events is given by the
constants `Op` and `Lsn`. `BatchRows` are the events of the batch that pass the
filters of parser and job. `EventId` is the LSN, or the record's place in Kafka
if there is none. The rows of the job have an `event_id` and no `lsn`, so the
token always is the `event_id`.

`S3IcebergSink`. `table` counts the copies of each record. `WriteFailed` and
`IcebergCrash` may leave the batch in the table or not: an exception and a crash
both can come after the catalog accepted the commit.

`OpenSearchSink`. `docs` maps a document (index and id) to the event it holds.
`BulkAnswered` lets the cluster accept any subset of the items; items of earlier,
timed-out attempts of the same request may have been indexed too. `abandoned`
holds items of requests nobody waits for any more: `IndexLate` may carry them out
at any later time, after crashes and commits too. A record whose date cannot be
split is left out of the request and of the count, as in the code.

`RedisSink` runs the pipeline command by command. `Pipeline` is the set of the
batch's commands and `Queued` their order, record by record, HSET before EXPIRE;
`pipe.sent` are those the server has answered. `SendCommand` is the next one
executed or refused; `RepeatPipeline` is `retry_on_timeout`, once; `late` holds
commands of a connection that was left behind; `Evict` is the time to live.
A field of a hash is known by the event that wrote it last. `lateRan` and `landed`
are history variables.

`OrdersJob` has the catalog (`catalog` in the lake, `dim` in the driver), starts
the queries one after the other (`launched`), and ends when one has failed
(`AwaitAnyTermination`). `rows` is the catalog version a sink's row was written
with. It leaves out retention, filters and partial writes, which the other
modules have. Property `ImplementsQueries` maps each sink's part to
`StreamingQuery` and checks that every step of the job is a step of that query.

`WebSocketSink`. `Alerts` are the records the job makes an alert of (the window
statistics that decide it are abstracted). `ProduceRow` is one turn of the loop
in `write_batch`, for the next alert of the batch: the message is `Queued`, or the
buffer is full and the row counts as failed (`Refused`). `Flush` may return with messages left in `queue`, since the code asks
for ten seconds at most and ignores the answer; then the callback reports
`written` as counted. `Deliver` and `GiveUp` are the producer's own thread, which
goes on between and after batches. A new driver has a new producer (`SinkStart`).
`lost` is a history variable.

`WsBroadcast` begins where that module ends, with the records of `ws-broadcast`.
`socket` is API Gateway's state of each connection; `$connect` runs, and stores
the item, before it is `open`. `call` is the running invocation: for each record
it goes to `find`, then to `push` with `todo`, the connections still to post to.
The handler is one action per call it makes: `Find` or `FindFailed`, then one
`PostToConnection` per connection with its three outcomes (posted, gone, another
error) and the fourth, a `delete_item` that raises, done or not, and ends the record's loop.
`Answer` is the return with status 200, after which the event source mapping
commits the offsets; `LambdaDies` is an invocation that does not get there.
Scans, and queries of an index, are eventually consistent and no bound is known:
`lagging` holds the items whose last write has not reached every copy yet, stored or
deleted, whatever the state of the connection; a read may show such an item or not
(`Readable`), until `Replicate`. So a client that has just opened may be missed, and a
client that is gone may be found. An answer of DynamoDB is one page (`FirstPages`):
the code asks for no second one. `owed`, `missed`, `evicted` and `cut` are history
variables: what was sent while a client was `Connected` (open, and known to every
copy), the posts given up, the connections removed as gone, and the records whose
last lookup had more items than a page holds. Ids are not used twice, one invocation
runs at a time (one partition), and `subscribed_topics` is left out: nothing reads it.

`ClickHouseSink`. One insert per batch. `InsertBroken` lets any subset of the rows
be stored although the insert raised or the driver died in it; `abandoned` holds the
others, which the server may still store (`InsertLate`). The target table is a set
of rows, since equal rows are merged.

`ClickstreamQuery` is one query of the job, and `query`, chosen in the initial state,
says which: the two share the driver and nothing else, and each has a checkpoint
and a table. Time is counted in slides. `UpdatedWindows` and `SessionsOf` are the
two aggregates over the batch and `state`, the state store in the version of the
last committed batch: `CommitClicks` replaces it together with the commit log,
since a batch that is replayed starts from the version before it. `Watermark(n)`
is what batch n runs with; it follows from the offsets of the batches before it.
`Merged` is what Spark makes of a user's new clicks and open sessions: every click
opens a session of length `Gap`, a session begins where no earlier one reaches
(`Begins`) and has all that starts before the next one begins (`Within`). `Total`
adds up the counts of rows.
Spark 3.5 drops a row by the watermark of the batch before (`NotLate`) and evicts
state by the batch's own (`Ended`), so the rows between the two are counted and
closed at once. Sessions that meet at exactly `Gap` are one. A watermark that
moved is a reason for a batch without data, but only for a driver that has executed a
batch (`executed`): after a crash between a commit and that batch, a session the
watermark has passed waits for the next click. Counts stand for all aggregates
(the average of load times goes with the count). `tumbling_window` is
`sliding_window` with a slide of its length, and no job calls it. Rows have no
version column, so nothing in the table says which of two rows of a window is the
newer one (`clickhouse_sink.py:6-8`, docs/EXACTLY_ONCE.md:91 speak of
ReplacingMergeTree); the properties read the fullest.

`DedupWithTimer`. In the source the access to the state and the job around the
function are comments ("Uncomment when running on KDA"); the model is of what runs
there. `ProcessElement` is one element with its three outcomes, `AdvanceWatermark`
a new watermark with the timers it fires (`OnTimers`), `Checkpoint` and `Restart`
are Flink's: position, flags and timers come back, the watermark does not. `main`
and `late` are the two outputs of the attempt that survives. `Watermarks` is what the
source's strategy can emit. The strategy written in the file is `no_watermarks()`,
the empty set: then nothing is ever late, no timer fires and the state grows. The
module covers it and the theorems hold for it; the run takes a strategy that emits.

`OrdersLakeTables` has four stages, each a native streaming query: `databricks` (the
notebook's Iceberg table), `bronze`, `silver`, `gold`. A table is the sequence of its
commits, a commit the input positions `from + 1 .. until`; silver and gold read the
commits of the table before them, from the first one. `AppendBatch` is one commit,
left out if the table's last one carries the batch's number already, which is what
Iceberg's and Delta's streaming writers do and `foreachBatch` sinks cannot.
Queries start down, and nothing obliges `StartStage`. `JobSelects` (the EMR job),
`IcebergSelects` (the notebook) and `SilverSelects` (the pipeline) are the three
filters of one workload. The rules of silver name `env.op` and
`env.after.order_id`, which the function's own `select` has renamed or dropped;
`SilverSelects` is what they select where they are applied to the row's envelope.
Where they cannot be resolved silver does not start, which the model has too: a
`StartStage` never taken. `product_dim` has one row for each `product_id`: with two,
both joins would double the order in both tracks.

### Abstract specification

`AtLeastOnceDelivery` has three variables: where the reader opened the topic, the
prefix it has acknowledged and the positions it has stored. A prefix may be
acknowledged only when all it owes is stored, and what is stored stays. The three
sink modules instantiate it as `Delivery`: acknowledged is `CommittedEnd`; stored
is what the table contains, the events found under their own document id, and
the events whose HSET the server has executed.

## 3. The runs

| Run | Checks | Instance | States |
|---|---|---|---|
| `streaming_query` | one query, safety and liveness | 4 records, 3 starts, cap 2 | 18 thousand |
| `s3_iceberg` | the archive, and that it implements `AtLeastOnceDelivery` | 5 records, one of them filtered, 3 starts, cap 2 | 83 thousand |
| `opensearch` | the index, and the refinement | 4 records: without LSN, without date, with a bad date | 50 thousand |
| `opensearch_snapshot` | violation: two snapshot rows share an id | 3 records, 2 of one snapshot | |
| `redis` | the hashes, and the refinement | 3 records, two of one order, 2 starts | 512 thousand |
| `orders_job` | two sinks, a hanging callback, two catalogs | 2 records, 2 starts, cap 1 | 119 thousand |
| `websocket_path` | where alerts may be lost; who gets a record, and that all are worked off | sink: 3 records, 2 of them alerts, a buffer of 1, 2 starts; lambdas: 2 clients of two users, 2 records, 2 failed invocations | 862 thousand |
| `websocket_flush` | violation: a committed alert never reaches the topic | the sink as above | |
| `ws_eviction` | violation: a client evicted in its handshake is passed over | the lambdas as above, no failed invocation | |
| `dedup` | what passes, what is dropped, what state is kept | 2 transactions, 3 elements at 3 times, 4 watermarks, 1 restart | 514 thousand |
| `clickstream` | both queries: counts, sessions, finality, reporting | 3 clicks at 4 times, 2 starts, cap 2 | 263 thousand |
| `lake_tables` | the notebook and the chain, safety and liveness | 2 records, 2 crashes of any query | 462 thousand |

Bounds. `MaxEvents`, `MaxStarts` and `MaxCatalog` only bound actions of the
environment (records produced, drivers started, catalogs loaded). Four records
and a cap of two give a first, empty batch, full batches, a last batch smaller
than the cap and a backlog of several batches. Three starts let a batch be
replayed twice, or two batches be replayed once each. Retention needs no bound:
it never passes the end of the topic. With three records and two starts the
Redis run has a batch with two writes of one key, broken at each of its
commands, repeated, replayed and overtaken by late commands. A buffer of one message
(`QueueMax`) is full when the second alert of a batch comes. `websocket_path` follows
the sink or the lambdas and lets the other half stand, as they share nothing but
the topic, to which `WsBroadcast` lets a record be added at any time. For the lambdas
one record is for one user and one for everybody, so a client is left out, evicted
or reached in the same invocation as another; `MaxDeaths` bounds failed
invocations only, two of them let both records be repeated, or one twice; a page
holds both clients (`PageSize`); the theorem is about every size. In `dedup` the
window is 1 and times go from 0 to 2, so an element can be ahead of the watermark,
behind it, exactly a window behind it and late; the restart can fall between any two
of them. In `clickstream` duration, gap and delay are 2 slides and the times 0, 1,
3, 4: a click at 1 is on time after one at 3 and joins one at 0, one at 4 closes that
window and session, and a click at 0 or 1 is then late; three clicks in batches of at
most two give the first batch, a batch with state, a replay of either and a no-data
batch. One user is enough: rows of different keys never meet, and what another
key's click does to the watermark a later click of the same user does too. In `lake_tables` the
two kinds are the one most easily forgotten in a list of operations (`r`), which all
filters keep, and the one they disagree on; all five kinds are in the theorems. Two
crashes can hit one query twice or two stages of the chain. Runs do not check deadlock:
clients that have left stay away, and a driver that is down when no start is left stays
down.

### Properties worth a note

- `DataLossHalts`: the loss is judged while the query is down, since a driver
  that has read its rows before they expired may of course commit them.
- `HotStateIsLatest`, `NoImmortalKeys` speak of settled states (no batch planned
  and not committed) in which no command of an abandoned connection was
  executed. During a replay the hash does go back to older values.
- `ReplayInvisible` holds for unique event ids. The run `opensearch_snapshot`
  shows what happens without.
- `CopiesBoundedByStarts` is what is left of "exactly once" in the archive.
- `AlertsAccountedFor` is what the sink does guarantee: full buffers, half
  produced batches and replays lose no alert; only what the producer gives up
  does. `AlertsBroadcastAtLeastOnce`, without that exception, is violated.
- `EveryActiveConnectionServed` is docs/ARCHITECTURE.md:76 read with patience: only
  clients that every copy of the registry knew when the record was sent, and that
  stayed, count as active, and a failed post is excused (`missed`: the code logs those
  and promises nothing more). It is violated in two ways all the same (the shortest
  trace is of the first; with `PageSize = 1` it is of the second).
  `ConnectedClientsServed` says that these two, the removal as gone and the full page,
  are the only ones. Of a client a stale read may miss when the record is sent nothing
  is asked; no read of this code could find it.
- `TracksAgree` compares what each track shows of a record it is past with the filter
  of the job, in both directions: an order too few and an order too many both violate
  it. It states the one difference there is, records without `order_id`.
- `GoldCatchesUp` is about runs in which the queries of the pipeline are eventually up for
  good; it follows a record from its publication, through crashes and any state of the
  three checkpoints.
- `WindowCountsWithinPromise` and `SessionsCountOnce` bound the count from both
  sides: every click that was on time by `watermark_delay` counts, late ones may,
  none counts twice. A late click may still be counted, as the filter is one batch
  behind.
- `SessionsApart` is about users whose clicks were all on time: a late click can
  open a session inside one that is closed.
- `CopiesOnlyAtBoundary`: lateness is tested with `<` and the timer fires at event
  time + window, so at that one watermark a copy passes. After a restart, which forgets
  the watermark, it may pass later; `RepeatsOnlyAfterWindow` holds all the same.
- `OneRowPerRecord` is more than README.md:29 promises and rests on the native
  sinks; the `foreachBatch` archive of the EMR track has `CopiesBoundedByStarts` only.

### Fairness

`StreamingQuery` and `OrdersJob` assume weak fairness of the driver's own steps:
a trigger that can fire fires (Spark's trigger thread), and a callback ends, well
or badly, since every client has a timeout or a bounded number of retries. No
fairness is assumed for producers, retention, crashes or restarts: a driver that
is down may stay down, so `Drains` and `SlowSinkDoesNotBlock` are about runs in
which the query is eventually up for good. In `OrdersJob` the callbacks of
`Stalled` sinks have no fairness: that is the hanging sink. `WsBroadcast` assumes
weak fairness of the lambda (`BroadcastFairness`): the event source mapping invokes it as
long as there are records, and its calls end or time out. Invocations may fail
`MaxDeaths` times; that they do not fail for ever is what `BroadcastDrains`
takes for granted, and that no error of a record makes them fail is what it
checks. `ClickstreamQuery` assumes of its driver what `StreamingQuery` does
(`ClickFairness`), and `ClosedSessionsReported` is about a driver that is up for good
and has executed a batch. `OrdersLakeTables` assumes weak fairness of what a query does
while it is up (`RunStage`), and none of its start: the Databricks job is paused and
retried once (`infra/terraform/modules/databricks/main.tf`), and the pipeline is in no
configuration, so a query that died may stay down.
`DedupWithTimer` has no liveness property, since nothing obliges a watermark to come.

## 4. Findings

1. Rows of an initial snapshot share their LSN, hence their `event_id` and their
   document (`debezium.py:76`, `core/types.py:48`): all but one of those that have
   the same day are lost to the index. Run `opensearch_snapshot`.
2. An alert can be committed and never sent (`websocket_sink.py:93`): the number
   of messages `flush` leaves behind is ignored, against README.md:29. Run
   `websocket_flush`.

3. A broadcast that hits a connection in its handshake deletes its item
   (`ws_broadcast.py:61`); the connection opens, and no later record finds it, against
   docs/ARCHITECTURE.md:76. Run `ws_eviction`.

Seen while modelling, without a run of their own:

- `error_tolerance_pct` is compared with a fraction (`base.py:71`), while
  docs/BACKPRESSURE.md:40 reads it as a percentage. A value of 1 switches the check off.
- `scan` and `query` are asked for one page (`ws_broadcast.py:84, 93`), so with enough
  connections some never get a record, against the same line of ARCHITECTURE.md. Run
  `ws_eviction` shows it too with `PageSize = 1` and one record for everybody.
- The archive is called exactly-once (`s3_iceberg_sink.py:3-4`, docs/EXACTLY_ONCE.md:41-48);
  the append does not know its batch, and a replay stores it again: with two drivers
  TLC reaches two copies, as `CopiesBoundedByStarts` allows.
- The workload of the three tracks is not identical (docs/RUNTIME_COMPARISON.md:19,
  `02_dlt_orders_pipeline.py:5`): the pipeline alone drops records without `order_id`
  (line 88). As `order_id` is the primary key of the table
  (`compose/postgres-init.sql:12`), it takes an envelope of another shape to see it.
- Silver's expectations name columns its `select` has dropped
  (`02_dlt_orders_pipeline.py:87-90`); what Delta Live Tables makes of that cannot be told
  from the repository.
- A record whose date cannot be split is dropped by the OpenSearch sink
  (`opensearch_sink.py:95`), and one that cannot be encoded counted as failed by the Redis
  sink (`redis_sink.py:86`). The rows of this job do neither: `order_ts` is a timestamp,
  which `toJSON` always writes with a date, and all columns are encoded.
- The notebook says it writes to the same Iceberg table as the EMR track (line 6) and
  writes to `orders_events_databricks` (line 130), so the two can be compared
  and do not mix.
- Spark's and Flink SQL's versions of the page view windows name their columns
  differently, so they cannot share a ClickHouse table.

## 5. The proofs

All theorems hold for every value of the constants that meets the named
assumptions: bounds are natural numbers, the cap is positive, the tolerance is a
quotient of natural numbers, events have an operation and an LSN, times and the
window are natural numbers. Where a theorem needs more, its ASSUME says so:

| Assumption | Theorems | Why |
|---|---|---|
| `ToleranceNum < ToleranceDen` | the archive's at-least-once and refinement; the three about Redis; the four about clicks | a failed append, pipeline or insert has the rate 1 |
| `ToleranceNum = 0` (the default, `core/types.py:129`) | `IndexIsAtLeastOnce`, `IndexImplementsDelivery`, `AlertsAreAccountedFor` | a batch may fail in part; what is tolerated is lost |
| `UniqueIds` | the four about the index | finding 1 is what happens without |
| `Distinct` | `JobImplementsQueries` | a sink listed twice would have two queries on one checkpoint |

`StreamingQueryProofs`. The inductive invariant `CheckpointInv` is the conjunction
of the types (`LogTypes`), `LogsAgree`, `DriverFollowsCheckpoint` and a bound on every
logged batch. None is inductive alone: that a restart finds the right offsets needs the
logs to agree, that they agree after a commit needs the driver to be at the batch
the log ends with, and that a replayed batch is bounded needs the bound of the log
entry it is read from. It is inductive under `CheckpointNext`, whose steps leave open up to where a
batch is planned and what a callback reports, so that it also serves a query with
no-data batches or a sink that counts windows. Each action has a step of its own. From it follow `TypeCorrect`, `LogsAlwaysAgree`, `DriverFollows`,
`BoundedBatches` and the action property `NeverRevised`. `LossHalts` nests one
always in another; the inner one is kept by `LossStands`: a batch read after the loss
is empty, since `FailRead` takes the others, so its commit moves nothing. That batches
follow one another (`EndsOrdered`) would follow from `LogsAgree` by induction over the
log; that being out of the prover's reach, `EndsOrderedStep` keeps it as an invariant,
which the modules of the sinks use.

`S3IcebergSinkProofs`. The query's invariant is strengthened to `ArchiveInv`: a
batch whose callback has returned is in the table, and so is everything behind
the committed offsets. That is where the tolerance enters: `WriteFailed` reports
the whole batch as failed, and a rate of 1 exceeds the tolerance only if
`ToleranceNum < ToleranceDen`, which is the assumption of `ArchiveIsAtLeastOnce`
(and what a tolerance meant as a percentage breaks). `ArchiveImplementsDelivery` proves the refinement:
an append is `Store`, the first trigger `Open`, a commit `Ack`, every other step a
stutter. Copies are counted in `CopiesInv`, which needs no tolerance: a batch is planned
behind all others, so its rows have no copy yet, and a driver that has not
appended its batch leaves every row with fewer copies than there were drivers.
`ArchivedWhole` and `ArchivedOncePerStart` follow.

`ServingSinksProofs`, the index. Whatever the cluster does, a step changes no document but
those of `Attempted` items: of the request under way, or abandoned (`DocsStep`). Each of
them is in the offset log and stays there (`LoggedStays`), and with ids of their own
it can only be given the event it is for. So `DocsInv` is inductive, and
`OnlyPlannedFound` and `ReplaysInvisible` follow. `ReturnedIsFound` makes what is committed
findable; a late item that is behind the committed offsets is found already, which
is why `IndexLate` is a `Store` of the abstract specification or a stutter.

`ServingSinksProofs`, the hash. A pipeline is a set with an order, so no induction over
sequences is needed: `PipeInv` says that what was sent is closed downwards. `LandedInv` is
the invariant of the refinement: every command is of an event in the log, late ones too,
and the HSETs this attempt has `Done` were executed. A callback that returns has done all
of them, since one that reports the batch as failed raises; that is the use of the
tolerance. `HotInv` is about every key and field as long as no late command has run. A field
holds nothing, the newest committed value or one of the uncommitted batch, and is never
older than what this attempt has done (`FieldInv`): a repetition or a replay starts with
nothing done, which is why older values may come back until it is through. A key without
a time to live belongs to an uncommitted event whose EXPIRE this attempt has yet to send
(`KeyInv`). `LookupsFindTheLatest` and `CommittedKeysExpire` are what `HotInv` says when
nothing is uncommitted.

`OrdersJobProofs` goes sink by sink. `SinkOffsets` and `SinkRows` hold for each, an
action of one query leaves the others `Untouched`, and what the driver does moves no
offsets. `EverySinkAtLeastOnce` and `CommittedRowsStay` follow. For
`JobImplementsQueries` the driver's loop matters: only launched queries run
(`LaunchInv`), so that no query is started twice by one driver. With it every theorem
of `StreamingQueryProofs` holds for each of the job's queries.

`WebSocketProofs`, the sink. `AlertInv` says of every alert handed over in this batch, or behind
the committed offsets, that it is `Accounted` for: in the topic, in the buffer, or lost by a
producer. The position in the loop (`HandedOver`), its reset between batches
(`LoopReset`) and the absence of a failed row when the callback returns
(`ReturnedIsHandedOver`) carry it from the loop to the commit.

`WebSocketProofs`, the lambdas. `ConnectedClientsServed` speaks of records done with, while
an invocation works on several at a time and may start again. The invariant
`BroadcastInv` extends it to every pair of client and record that is `Settled`:
done with, behind the running invocation, or at hand with the client no longer in
`todo`. It needs to know that the invocation is ahead of the offset (`Underway`),
since `Find` forgets the failures of an earlier attempt at its record; that a client
which has not left and was not evicted is registered (`Listed`); and that whoever is
owed a record has opened and is known to every copy until it leaves (`OwedKnown`),
because only a `$connect` or a `delete_item` makes an item lag. From these
`FindMissesNobody`: a lookup that fits into its pages shows everybody who is owed the
record, whatever stale items it shows besides. Lemma `ReachedStays` shows that no step of
clients, registry or lambda takes a record back; `SettledStep` that who becomes
settled in a step is reached in it.

`DedupWithTimerProofs`. `DedupInv` says the same, `Sound`, of the current state and of
the checkpoint, since a restart makes the one the other. The four properties are not
inductive. That a transaction is not repeated too early needs `Timed` (the
timer of a yielded element waits still, or the highest watermark has reached it) with
`SeenHasTimer`: if the flag is clear there is no timer, so the watermark has been there.
That nothing is dropped needs `Held`: a flagged key has been yielded. `CopiesOnlyAtBoundary`
needs that the watermark has not gone back, which is where `restarts = 0` enters.
`SoundStays` carries the checkpoint over to a longer topic. No assumption on
`Watermarks` but that they are natural numbers, so the empty set is covered.

`OrdersLakeTablesProofs`. The invariant is about one stage, `StageOK`, and is stated
on plain values, so that one lemma per step (`OpenKeeps`, `PlanKeeps`, `AppendKeeps`, ...)
serves all four. Checkpoint, table and offset log are each at most one batch ahead
of the one before (`LogsInStep`); the i-th commit of a table is the i-th batch
(`CommitsAreBatches`), so the number of the last one tells a replay from a new batch.
From rising ends (`EndsIncrease`) follows that commits do not overlap (`HeldOnce`),
and `NoDuplicates` applies it three times along the chain. That no input is missing
(`NoGap`) would follow from the ends by induction over the table; it is kept in the
invariant instead, where each append extends it by one commit. `NothingLost` follows.
For `TracksAgreed` one also needs that a stage never planned has an empty table
(`TablesOpened`): then a record that went `ThroughGold` is held by a commit of
bronze, that by one of silver, and that by one of gold (`ThroughGoldIsHeld`).

`ClickstreamQueryProofs`. A replayed batch does what its first attempt did, since its
clicks, its watermark and the state it starts from follow from the checkpoint
(`LogStands`, `CountedStands`, `FreshStands`); and the watermark never goes back
(`WatermarkGrows`), which needs that a finite set of times has a largest one (`FiniteMax`).

*Windows.* `Counted(n, u, s)` are the clicks of window `(u, s)` that the first n batches have
counted, and `WindowRow(n, u, s)` is the row with that many. `WindowsInv` says that the state
store has the row of every open window after the last committed batch, the table the row of
every window, and that every row in the table or on its way to it is a `WindowRow` of some
planned batch, whichever of its attempts sent it. Rows only grow with n, so the fullest row
of a window is the last committed one as soon as no planned batch adds to it:
then `CountsWithinPromise` follows, and `ClosedStays`, as a batch behind the watermark adds
nothing (`ClosedIsCounted`).

*Sessions.* A session is merged from others, so its row does not say which clicks it
counts, and a sum of counts proves little about clicks. `SessionsInv` therefore asks for a
function that gives each session reported or open a set of clicks, as many as it counts
and within its bounds, no click to two sessions, and every click that some batch took in to one
(`Shares`). It exists in every state: `SharesOn` makes that of the next batch
by giving a merged session its new clicks and those of the open sessions it is made of, and
`TotalIsShared` adds up. What a batch makes of the state is a function of the
checkpoint (`NextSessions`), so rows that a failed insert left behind are those the
replay reports. The algorithm of the merge is proved once (`BeginsAre`, `EndsAre`,
`MergedAre`): every part is in exactly one session and sessions end before the next begins.
For `SessionsStayApart` the invariant adds that a user none of whose clicks is behind
the watermark of its batch (`Timely`) has all reported sessions before all open ones.

All safety invariants and action properties of the passing runs are proved. Only
model-checked is liveness (`Drains`, `AnyFailureStopsAll`, `SlowSinkDoesNotBlock`,
`BroadcastDrains`, `ClosedSessionsReported`, `GoldCatchesUp`): it rests on fairness, and
the prover knows neither fairness nor ENABLED. The violations are of
single instances and need no proof.

## 6. Plan

1. Done: the query, the three sinks of the orders job, their fan-out, the
   WebSocket path, the first proofs.
2. Done: `ClickHouseSink` and `ClickstreamQuery`, `DedupWithTimer`, `OrdersLakeTables`,
   the proofs of the last two, of the OpenSearch and WebSocket sinks and of the fan-out.
3. Done: the proofs about `RedisSink` and about the windows and sessions of
   `ClickstreamQuery`.
4. The secret cache across a rotation and the topic creator, if a property of theirs
   is worth it; a query over several partitions.

## 7. Not modelled

The Kinesis source, `stream_stream_join`, `refresh_dim_df` and `tumbling_window` are
used by no job. The alerting job's join is a left join of two streams on `user_id`
without a time bound, which Spark does not take in append mode; its windows are
abstracted to the records they make an alert of. A BUFFER table of ClickHouse, which
loses rows with its server, is outside, and so are the benchmarks of notebook 03. CLI,
scripts, Flink SQL, connector configurations, lineage, logging, metrics and the
infrastructure have no state of the program's own; metrics swallow their
exceptions and so cannot fail a batch. The topic creator, the EMR submission and the
secret cache are wrappers of one call each; the command line's `create_topics` imports
a package the repository does not have (`streaming.lambdas`). Message contents,
formats, times in milliseconds and the sizes of requests are abstracted throughout.
