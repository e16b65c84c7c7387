----------------------------- MODULE StreamJob -----------------------------
(***************************************************************************)
(* The Spark driver of spark_jobs/streaming_job.py: independent streaming  *)
(* queries over the topic clicks.raw, each with a checkpoint of its own,   *)
(* writing to Postgres, ClickHouse and the dead-letter topic through the   *)
(* foreachBatch callbacks of postgres_sink.py and clickhouse_sink.py.      *)
(*                                                                         *)
(* A table is represented by what it counts: table[q][p] is the number of  *)
(* times the record at position p of the topic contributes to the sink of  *)
(* query q.  A window row of a curated table is the part of table[q] that  *)
(* lies in one window; the pages, devices and campaigns of a window are    *)
(* independent rows of the same kind and are not told apart.               *)
(***************************************************************************)
EXTENDS Naturals, Sequences

CONSTANTS
  Queries,       \* the streaming queries this driver starts (SINK_MODE)
  Records,       \* the records that may be produced: [kind, ts]
  WindowLen,     \* WINDOW_MINUTES, in ticks
  Delay,         \* WATERMARK_SECONDS, in ticks
  MaxLog,        \* bound: records produced
  MaxFaults,     \* bound: outages, transient failures and kills
  MaxRedeploys,  \* bound: recreations of the driver's container
  MaxTrims,      \* bound: records Kafka's retention removes
  MaxCopies      \* bound: copies of a record the DLQ is told to hold saturate here

PgQueries  == {"page_views_1m_pg", "campaign_stats_1m_pg"}
ChQueries  == {"clicks_ch", "page_views_1m_ch"}
DlqQueries == {"clicks_dlq"}

\* The queries with a windowed aggregation, hence with a state store.
Stateful == {"page_views_1m_pg", "campaign_stats_1m_pg", "page_views_1m_ch"}

ASSUME QueriesAssumption == Queries \subseteq PgQueries \cup ChQueries \cup DlqQueries
\* "event": parse_message accepts it; "bad": it does not; "odd": it does, but
\* the stricter to_timestamp of parse_events raises on its unpadded ts.
ASSUME RecordsAssumption == Records \subseteq [kind : {"event", "bad", "odd"}, ts : Nat]
ASSUME TimeAssumption    == WindowLen \in Nat \ {0} /\ Delay \in Nat
ASSUME BoundsAssumption  == /\ MaxLog \in Nat /\ MaxFaults \in Nat
                            /\ MaxRedeploys \in Nat /\ MaxTrims \in Nat
                            /\ MaxCopies \in Nat \ {0, 1}

Positions == 1 .. MaxLog
Sinks     == {"postgres", "clickhouse"}

VARIABLES
  log,        \* clicks.raw: every record ever appended, in offset order
  start,      \* the records up to this position are gone from the topic
  \* Per query, in its checkpoint directory:
  base,       \* initial offset (startingOffsets = earliest), once known
  fresh,      \* TRUE while the query has no checkpoint
  done,       \* commit log: the batches up to this position are committed
  planned,    \* offset log: end of the last planned batch
  open,       \* TRUE when the offset log is one batch ahead of the commit log
  late,       \* offset whose watermark drops late rows in the next batch
  agg,        \* state store: the positions the open windows count
  \* The sinks:
  table,      \* table[q][p]: how often position p is counted in the sink of q
  sinkUp,     \* which databases answer
  \* The driver process:
  boot,       \* how far run() got: the statement that was last completed
  run,        \* the execution state of each query
  sent,       \* records the DLQ batch has written in its current attempt
  faults, redeploys   \* how much of the bounds is spent

ckptVars   == <<base, fresh, done, planned, open, late, agg>>
topicVars  == <<log, start>>
sinkVars   == <<table, sinkUp>>
driverVars == <<boot, run, sent>>
boundVars  == <<faults, redeploys>>
vars == <<topicVars, ckptVars, sinkVars, driverVars, boundVars>>

TypeOK ==
  /\ log \in Seq(Records) /\ Len(log) <= MaxLog
  /\ start \in 0 .. MaxTrims
  /\ base \in [Queries -> Nat]
  /\ fresh \in [Queries -> BOOLEAN]
  /\ done \in [Queries -> Nat]
  /\ planned \in [Queries -> Nat]
  /\ open \in [Queries -> BOOLEAN]
  /\ late \in [Queries -> Nat]
  /\ agg \in [Queries -> SUBSET Positions]
  /\ table \in [Queries -> [Positions -> Nat]]
  /\ sinkUp \in [Sinks -> BOOLEAN]
  /\ boot \in {"down", "session", "postgres", "clickhouse", "up"}
  /\ run \in [Queries -> {"off", "idle", "batch", "written", "failed"}]
  /\ sent \in SUBSET Positions
  /\ faults \in 0 .. MaxFaults
  /\ redeploys \in 0 .. MaxRedeploys

-----------------------------------------------------------------------------
(* Records, windows and the watermark                                        *)

IsEvent(p) == p \in DOMAIN log /\ log[p].kind = "event"
IsBad(p)   == p \in DOMAIN log /\ log[p].kind = "bad"

\* F.window: tumbling windows of WindowLen ticks.
Window(t)    == t \div WindowLen
WindowEnd(t) == (Window(t) + 1) * WindowLen

\* Mutant: an event is late by its own time, not by the end of its window.
ExpiredByEventTime(q, p, n) ==
  \E i \in base[q] + 1 .. n : IsEvent(i) /\ log[p].ts + Delay <= log[i].ts

\* The watermark a query derives from the records up to position n has passed
\* the window of position p: window.end <= max(ts) - Delay.
Expired(q, p, n) ==
  \E i \in base[q] + 1 .. n :
     IsEvent(i) /\ WindowEnd(log[p].ts) + Delay <= log[i].ts

\* The watermark of the records up to n is past the one of those up to m.
WatermarkMoved(q, m, n) ==
  \E i \in base[q] + 1 .. n :
     /\ IsEvent(i)
     /\ \A j \in base[q] + 1 .. m : IsEvent(j) => log[j].ts < log[i].ts

-----------------------------------------------------------------------------
(* What one micro-batch computes                                             *)

Batch(q) == done[q] + 1 .. planned[q]

\* Mutant: late rows are judged by the watermark the batch itself produces.
AcceptedByOwnWatermark(q) ==
  {p \in Batch(q) : IsEvent(p) /\ (q \in Stateful => ~ Expired(q, p, planned[q]))}

\* parse_events and the late-row filter in front of the state store.
Accepted(q) ==
  {p \in Batch(q) : IsEvent(p) /\ (q \in Stateful => ~ Expired(q, p, late[q]))}

\* parse_failures.
Failures(q) == {p \in Batch(q) : IsBad(p)}

\* The to_timestamp call raises somewhere in the batch.
Poisoned(q) == \E p \in Batch(q) : p \in DOMAIN log /\ log[p].kind = "odd"

\* Update mode emits the rows the batch changed, with their whole state.
Touched(q) == {Window(log[p].ts) : p \in Accepted(q)}

\* Mutant: the state keeps the keys of the groups in place of their members.
NewAggOfKeys(q) == agg[q] \cup Touched(q)

NewAgg(q) == agg[q] \cup Accepted(q)

\* Mutant: the state of closed windows is never dropped.
RetainedForever(q) == NewAgg(q)

\* The watermark of the batch closes windows after their rows were emitted.
Retained(q) == {p \in NewAgg(q) : ~ Expired(q, p, done[q])}

\* Mutant: the next batch drops late rows by the watermark it should evict by.
NextLateTooFar(q) == planned[q]

\* The next batch drops late rows by the watermark this one evicted with.
NextLate(q) == done[q]

\* Mutant: DO UPDATE SET views = t.views + EXCLUDED.views.
UpsertedAdding(q) ==
  [p \in Positions |-> table[q][p] + (IF p \in Accepted(q) THEN 1 ELSE 0)]

\* Mutant: the rows carry what the batch added, not the state of the window.
UpsertedDelta(q) ==
  [p \in Positions |->
     IF p \in DOMAIN log /\ Window(log[p].ts) \in Touched(q)
     THEN IF p \in Accepted(q) THEN 1 ELSE 0
     ELSE table[q][p]]

\* upsert_sql and ReplacingMergeTree: an emitted row replaces the stored one.
Upserted(q) ==
  [p \in Positions |->
     IF p \in DOMAIN log /\ Window(log[p].ts) \in Touched(q)
     THEN IF p \in NewAgg(q) THEN 1 ELSE 0
     ELSE table[q][p]]

\* Mutant: an engine that keeps every inserted row.
InsertedAgain(q) ==
  [p \in Positions |-> table[q][p] + (IF p \in Accepted(q) THEN 1 ELSE 0)]

\* Insert into olap.clicks, ORDER BY event_id: inserting again replaces.
Inserted(q) ==
  [p \in Positions |-> IF p \in Accepted(q) THEN 1 ELSE table[q][p]]

-----------------------------------------------------------------------------
(* The environment: producers, retention, outages                            *)

\* A producer appends a record to clicks.raw.
Produce ==
  /\ Len(log) < MaxLog
  /\ \E r \in Records : log' = Append(log, r)
  /\ UNCHANGED <<start, ckptVars, sinkVars, driverVars, boundVars>>

\* Kafka's retention removes the oldest record of the topic.
TrimLog ==
  /\ start < MaxTrims /\ start < Len(log)
  /\ start' = start + 1
  /\ UNCHANGED <<log, ckptVars, sinkVars, driverVars, boundVars>>

SinkDown(s) ==
  /\ sinkUp[s] /\ faults < MaxFaults
  /\ sinkUp' = [sinkUp EXCEPT ![s] = FALSE]
  /\ faults' = faults + 1
  /\ UNCHANGED <<topicVars, ckptVars, table, driverVars, redeploys>>

SinkBack(s) ==
  /\ ~ sinkUp[s]
  /\ sinkUp' = [sinkUp EXCEPT ![s] = TRUE]
  /\ UNCHANGED <<topicVars, ckptVars, table, driverVars, boundVars>>

-----------------------------------------------------------------------------
(* run(): the driver starts its queries one after the other                  *)

Uses(qs) == Queries \cap qs # {}

Start(qs) == run' = [q \in Queries |-> IF q \in qs THEN "idle" ELSE run[q]]

AllOff == [q \in Queries |-> "off"]

\* Mutant: a driver that has died once is not started again.
StartSessionOnce ==
  /\ boot = "down" /\ faults = 0
  /\ boot' = "session"
  /\ UNCHANGED <<topicVars, ckptVars, sinkVars, run, sent, boundVars>>

\* The container (re)starts the driver: restart: unless-stopped.
StartSession ==
  /\ boot = "down"
  /\ boot' = "session"
  /\ UNCHANGED <<topicVars, ckptVars, sinkVars, run, sent, boundVars>>

\* ensure_schema succeeds, the two Postgres queries start.
StartPostgresSinks ==
  /\ boot = "session"
  /\ Uses(PgQueries) => sinkUp["postgres"]
  /\ Start(PgQueries)
  /\ boot' = "postgres"
  /\ UNCHANGED <<topicVars, ckptVars, sinkVars, sent, boundVars>>

\* ensure_schema succeeds, the two ClickHouse queries start.
StartClickhouseSinks ==
  /\ boot = "postgres"
  /\ Uses(ChQueries) => sinkUp["clickhouse"]
  /\ Start(ChQueries)
  /\ boot' = "clickhouse"
  /\ UNCHANGED <<topicVars, ckptVars, sinkVars, sent, boundVars>>

\* start_dlq_sink, then awaitAnyTermination.
StartDlqSink ==
  /\ boot = "clickhouse"
  /\ Start(DlqQueries)
  /\ boot' = "up"
  /\ UNCHANGED <<topicVars, ckptVars, sinkVars, sent, boundVars>>

Exit ==
  /\ boot' = "down"
  /\ run' = AllOff
  /\ sent' = {}

\* ensure_schema raises out of run(), after earlier queries were started.
BootFails ==
  /\ \/ boot = "session" /\ Uses(PgQueries) /\ ~ sinkUp["postgres"]
     \/ boot = "postgres" /\ Uses(ChQueries) /\ ~ sinkUp["clickhouse"]
  /\ Exit
  /\ UNCHANGED <<topicVars, ckptVars, sinkVars, boundVars>>

\* Mutant: queries[0].awaitTermination().
FirstQueryTerminated == \E q \in Queries \cap PgQueries : run[q] = "failed"

AnyQueryTerminated == \E q \in Queries : run[q] = "failed"

\* awaitAnyTermination raises the exception of the first query that failed.
DriverExits ==
  /\ boot = "up"
  /\ AnyQueryTerminated
  /\ Exit
  /\ UNCHANGED <<topicVars, ckptVars, sinkVars, boundVars>>

\* The process dies, whatever it was doing.
DriverKilled ==
  /\ boot # "down" /\ faults < MaxFaults
  /\ Exit
  /\ faults' = faults + 1
  /\ UNCHANGED <<topicVars, ckptVars, sinkVars, redeploys>>

\* The container is recreated: its checkpoint directory is not on a volume.
Redeploy ==
  /\ redeploys < MaxRedeploys
  /\ Exit
  /\ redeploys' = redeploys + 1
  /\ base' = [q \in Queries |-> 0]
  /\ fresh' = [q \in Queries |-> TRUE]
  /\ done' = [q \in Queries |-> 0]
  /\ planned' = [q \in Queries |-> 0]
  /\ open' = [q \in Queries |-> FALSE]
  /\ late' = [q \in Queries |-> 0]
  /\ agg' = [q \in Queries |-> {}]
  /\ UNCHANGED <<topicVars, sinkVars, faults>>

-----------------------------------------------------------------------------
(* One query: plan, write, commit                                            *)

Set(f, q, v) == [f EXCEPT ![q] = v]

\* The offset log records a batch up to the end of the topic; the first one
\* of a new checkpoint begins at the earliest offset the topic still has.
PlanBatch(q) ==
  LET from == IF fresh[q] THEN start ELSE done[q] IN
  /\ run[q] = "idle" /\ ~ open[q]
  /\ start <= from /\ from < Len(log)
  /\ base' = Set(base, q, IF fresh[q] THEN start ELSE base[q])
  /\ late' = Set(late, q, IF fresh[q] THEN start ELSE late[q])
  /\ fresh' = Set(fresh, q, FALSE)
  /\ done' = Set(done, q, from)
  /\ planned' = Set(planned, q, Len(log))
  /\ open' = Set(open, q, TRUE)
  /\ run' = Set(run, q, "batch")
  /\ UNCHANGED <<topicVars, agg, sinkVars, boot, sent, boundVars>>

\* A batch without data, run because the watermark moved: it expires state.
PlanNoDataBatch(q) ==
  /\ run[q] = "idle" /\ ~ open[q] /\ ~ fresh[q] /\ q \in Stateful
  /\ done[q] = Len(log)
  /\ WatermarkMoved(q, late[q], done[q])
  /\ open' = Set(open, q, TRUE)
  /\ run' = Set(run, q, "batch")
  /\ UNCHANGED <<topicVars, base, fresh, done, planned, late, agg, sinkVars,
                 boot, sent, boundVars>>

\* After a restart the batch the offset log is ahead by is run again as it was.
ReplayBatch(q) ==
  /\ run[q] = "idle" /\ open[q]
  /\ planned[q] > done[q] => start <= done[q]
  /\ run' = Set(run, q, "batch")
  /\ UNCHANGED <<topicVars, ckptVars, sinkVars, boot, sent, boundVars>>

\* failOnDataLoss: the checkpoint asks for records that retention removed.
OffsetsLost(q) ==
  /\ run[q] = "idle" /\ ~ fresh[q] /\ done[q] < start
  /\ IF open[q] THEN planned[q] > done[q] ELSE Len(log) > done[q]
  /\ run' = Set(run, q, "failed")
  /\ UNCHANGED <<topicVars, ckptVars, sinkVars, boot, sent, boundVars>>

\* Does the callback of q have to reach a database that is down?
\* upsert_batch always connects; the ClickHouse callbacks return early
\* when the batch has no rows.
Unreachable(q) ==
  \/ q \in PgQueries /\ ~ sinkUp["postgres"]
  \/ q \in ChQueries /\ ~ sinkUp["clickhouse"] /\ Accepted(q) # {}

Effect(q) == IF q \in Stateful THEN Upserted(q) ELSE Inserted(q)

\* upsert_batch (one transaction), insert_page_views, insert_clicks.
WriteBatch(q) ==
  /\ run[q] = "batch" /\ q \notin DlqQueries
  /\ ~ Poisoned(q) /\ ~ Unreachable(q)
  /\ table' = Set(table, q, Effect(q))
  /\ run' = Set(run, q, "written")
  /\ UNCHANGED <<topicVars, ckptVars, sinkUp, boot, sent, boundVars>>

\* The Kafka sink appends the failures one by one; an append cannot be undone.
SendDlq(q, p) ==
  /\ run[q] = "batch" /\ q \in DlqQueries
  /\ p \in Failures(q) \ sent
  /\ table' = [table EXCEPT ![q][p] = IF @ < MaxCopies THEN @ + 1 ELSE @]
  /\ sent' = sent \cup {p}
  /\ UNCHANGED <<topicVars, ckptVars, sinkUp, boot, run, boundVars>>

\* Mutant: the sink does not wait for the appends.
FlushedAtOnce(q) == TRUE

Flushed(q) == Failures(q) \subseteq sent

FlushDlq(q) ==
  /\ run[q] = "batch" /\ q \in DlqQueries
  /\ Flushed(q)
  /\ sent' = {}
  /\ run' = Set(run, q, "written")
  /\ UNCHANGED <<topicVars, ckptVars, sinkVars, boot, boundVars>>

\* The callback or the UDF pipeline raises: the query terminates.
BatchFails(q) ==
  /\ run[q] = "batch" /\ q \notin DlqQueries
  /\ Poisoned(q) \/ Unreachable(q)
  /\ run' = Set(run, q, "failed")
  /\ UNCHANGED <<topicVars, ckptVars, sinkVars, boot, sent, boundVars>>

\* A transient error of the write, whose effect the sink may have kept (an
\* answer that was lost on its way back).
TransientFailure(q) ==
  /\ run[q] = "batch" /\ faults < MaxFaults
  /\ \/ UNCHANGED table
     \/ /\ q \notin DlqQueries /\ ~ Poisoned(q) /\ ~ Unreachable(q)
        /\ table' = Set(table, q, Effect(q))
  /\ run' = Set(run, q, "failed")
  /\ sent' = IF q \in DlqQueries THEN {} ELSE sent
  /\ faults' = faults + 1
  /\ UNCHANGED <<topicVars, ckptVars, sinkUp, boot, redeploys>>

\* The commit log records the batch together with its state and watermark;
\* windows the watermark of this batch had passed leave the state.
CommitBatch(q) ==
  /\ run[q] = "written"
  /\ done' = Set(done, q, planned[q])
  /\ open' = Set(open, q, FALSE)
  /\ late' = Set(late, q, NextLate(q))
  /\ agg' = IF q \in Stateful THEN Set(agg, q, Retained(q)) ELSE agg
  /\ run' = Set(run, q, "idle")
  /\ UNCHANGED <<topicVars, base, fresh, planned, sinkVars, boot, sent, boundVars>>

-----------------------------------------------------------------------------

Init ==
  /\ log = <<>> /\ start = 0
  /\ base = [q \in Queries |-> 0]
  /\ fresh = [q \in Queries |-> TRUE]
  /\ done = [q \in Queries |-> 0]
  /\ planned = [q \in Queries |-> 0]
  /\ open = [q \in Queries |-> FALSE]
  /\ late = [q \in Queries |-> 0]
  /\ agg = [q \in Queries |-> {}]
  /\ table = [q \in Queries |-> [p \in Positions |-> 0]]
  /\ sinkUp = [s \in Sinks |-> TRUE]
  /\ boot = "down" /\ run = AllOff /\ sent = {}
  /\ faults = 0 /\ redeploys = 0

Environment ==
  \/ Produce
  \/ TrimLog
  \/ DriverKilled
  \/ Redeploy
  \/ \E s \in Sinks : SinkDown(s) \/ SinkBack(s)

Boot ==
  \/ StartSession
  \/ StartPostgresSinks
  \/ StartClickhouseSinks
  \/ StartDlqSink
  \/ BootFails
  \/ DriverExits

Query(q) ==
  \/ PlanBatch(q)
  \/ PlanNoDataBatch(q)
  \/ ReplayBatch(q)
  \/ OffsetsLost(q)
  \/ WriteBatch(q)
  \/ \E p \in Positions : SendDlq(q, p)
  \/ FlushDlq(q)
  \/ BatchFails(q)
  \/ CommitBatch(q)

Next ==
  \/ Environment
  \/ Boot
  \/ \E q \in Queries : Query(q) \/ TransientFailure(q)

Spec == Init /\ [][Next]_vars

\* The container runtime restarts the driver, the threads of the queries are
\* scheduled, and an outage of a database ends.
Fairness ==
  /\ WF_vars(Boot)
  /\ \A q \in Queries : WF_vars(Query(q))
  /\ \A s \in Sinks : WF_vars(SinkBack(s))

FairSpec == Spec /\ Fairness

-----------------------------------------------------------------------------
(* Properties                                                                *)

\* Every event of the committed prefix is in the sink, except one that arrived
\* after an earlier record had moved the watermark past its window
\* (withWatermark, streaming_job.py:105); raw clicks have no exception.  It has
\* to survive every replay, ambiguous write, restart and redeployment.
MissingOnlyIfLate ==
  \A q \in Queries \ DlqQueries : \A p \in base[q] + 1 .. done[q] :
     IsEvent(p) /\ table[q][p] = 0 => q \in Stateful /\ Expired(q, p, p - 1)

\* p is at most Delay older than any event before it.
Punctual(p) == \A i \in 1 .. p - 1 : IsEvent(i) => log[i].ts <= log[p].ts + Delay

\* The tolerance the code states, a "2-minute watermark" (streaming_job.py:3, 37):
\* an event that comes no more than that after its time is in every sink once
\* its batch is committed, however the events before it were batched and
\* wherever in its window it lies.
PunctualEventsCounted ==
  \A q \in Queries \ DlqQueries : \A p \in base[q] + 1 .. done[q] :
     IsEvent(p) /\ Punctual(p) => table[q][p] = 1

\* No sink counts a record twice, and none counts a record parse_message
\* rejected: "idempotent (safe to replay)", postgres_sink.py:6.
CountedOnce ==
  \A q \in Queries \ DlqQueries : \A p \in Positions :
     table[q][p] # 0 => table[q][p] = 1 /\ IsEvent(p)

\* The state store a batch starts from holds exactly the events of the
\* committed prefix whose window the last watermark left open: the row a batch
\* emits for a window is complete because of it.
StateIsOpenWindows ==
  \A q \in Queries \cap Stateful :
     agg[q] = {p \in base[q] + 1 .. done[q] : IsEvent(p) /\ ~ Expired(q, p, late[q])}

\* A message both queries have committed is in olap.clicks or in clicks.dlq,
\* never in both and never in neither (parse_events and parse_failures filter
\* the same UDF in two queries with two checkpoints).
ParseSplit ==
  \A c \in Queries \cap {"clicks_ch"} : \A d \in Queries \cap DlqQueries :
     \A p \in Positions :
        /\ base[c] < p /\ p <= done[c]
        /\ base[d] < p /\ p <= done[d]
        => (table[c][p] # 0) # (table[d][p] # 0)

\* No step removes an event the topic still has from a curated row or from
\* olap.clicks: a batch replaces a row by one that is as complete, even when it
\* is the first batch of a new checkpoint (upsert_sql, postgres_sink.py:90-108).
RowsNeverShrink ==
  [][\A q \in Queries : \A p \in Positions :
        p > start /\ table[q][p] # 0 => table'[q][p] # 0]_vars

\* Every record is eventually behind the committed offset of every query,
\* whatever outages, failures and kills happened on the way.
EventuallyCommitted ==
  \A q \in Queries : \A p \in Positions : Len(log) >= p ~> done[q] >= p

\* A query that terminated with an exception runs again: awaitAnyTermination
\* ends the whole driver and its restart starts every query.
FailedQueryRestarts ==
  \A q \in Queries : run[q] = "failed" ~> run[q] \in {"idle", "batch", "written"}

-----------------------------------------------------------------------------
(* The inductive invariant behind the safety properties                      *)

OffsetsInOrder ==
  /\ start <= Len(log)
  /\ \A q \in Queries :
       /\ base[q] <= start
       /\ base[q] <= late[q] /\ late[q] <= done[q]
       /\ done[q] <= planned[q] /\ planned[q] <= Len(log)
       /\ ~ open[q] => planned[q] = done[q]
       /\ run[q] \in {"batch", "written"} => open[q]
       /\ fresh[q] => ~ open[q] /\ planned[q] = 0

\* What the state store holds is in the table already.
StateIsBacked ==
  \A q \in Queries \cap Stateful : \A p \in agg[q] : table[q][p] = 1

\* Between the write of a batch and its commit the table holds the batch.
BatchIsWritten ==
  \A q \in Queries \ DlqQueries :
     run[q] = "written" => \A p \in Accepted(q) : table[q][p] = 1

\* Whatever was written before the checkpoint was lost, the first batch of the
\* new one reaches beyond it.
RowsWithinPlan ==
  \A q \in Queries \ DlqQueries : \A p \in Positions :
     ~ fresh[q] /\ table[q][p] # 0 => p <= planned[q]

\* The conjunction that every step preserves: offsets, state store, batch and
\* table stay consistent with each other through replays and restarts.
SinkInv ==
  /\ OffsetsInOrder
  /\ StateIsOpenWindows
  /\ StateIsBacked
  /\ BatchIsWritten
  /\ RowsWithinPlan
  /\ CountedOnce
  /\ MissingOnlyIfLate

-----------------------------------------------------------------------------
(* What the documents claim and the code does not do                         *)

\* "demo keeps them aligned by writing from the same Spark micro-batch"
\* (docs/design-decisions.md:8-9): once both page-view queries have committed
\* the whole topic, the two stores hold the same rows.  The code runs two
\* queries with a watermark each, so a late event may reach only one of them.
SinksAligned ==
  \A q, r \in Queries \cap {"page_views_1m_pg", "page_views_1m_ch"} :
     done[q] = Len(log) /\ done[r] = Len(log) => table[q] = table[r]

\* "Spark windowed aggregations emit the cumulative state of each window, so
\* replacing the existing row per batch is correct and idempotent (safe to
\* replay)" (postgres_sink.py:4-6): a replay leaves every row at least as
\* complete as it was.  A new checkpoint whose earliest offset lies inside a
\* window the table already holds breaks it.
ReplacingIsSafe ==
  [][\A q \in Queries : \A p \in Positions : table[q][p] <= table'[q][p]]_vars

\* The stream processor must not "Block the main path on a bad record"
\* (skills/streaming-pipeline-standard/references/data-path.md:9): the records
\* behind one that cannot be processed are processed all the same.
BadRecordDoesNotBlock ==
  \A q \in Queries \ DlqQueries : Len(log) = MaxLog ~> done[q] = MaxLog

=============================================================================
