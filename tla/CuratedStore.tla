---------------------------- MODULE CuratedStore ----------------------------
(***************************************************************************)
(* upsert_batch of spark_jobs/postgres_sink.py, statement by statement,    *)
(* for one curated table and its staging table.  A callback that fails or  *)
(* dies is repeated with the same batch in a new session, while Postgres   *)
(* may still hold the old one: an orphan whose last statement was on its   *)
(* way, and whose transaction and locks last until the server notices.     *)
(* TRUNCATE takes an ACCESS EXCLUSIVE lock on the staging table that the   *)
(* session keeps until its transaction ends.                               *)
(***************************************************************************)
EXTENDS Naturals, Sequences

CONSTANTS
  Rows,        \* the rows of the curated table
  Sessions,    \* the sessions Postgres may have at the same time
  NoSession,
  MaxBatches,  \* bound: batches of the query
  MaxFaults    \* bound: failing statements, lost connections, kills

ASSUME SessionsAssumption == NoSession \notin Sessions
ASSUME StoreBoundsAssumption == MaxBatches \in Nat /\ MaxFaults \in Nat

VARIABLES
  plan,      \* plan[n]: the rows batch n emits
  acked,     \* the batches up to this one returned from the callback
  callback,  \* what the thread of the query is doing
  mine,      \* the session it is using
  stage,     \* the last statement each session has completed
  batch,     \* the batch each session writes, 0 for a session that is free
  lost,      \* sessions whose client is gone
  pending,   \* those of them with a statement on its way
  table,     \* table[r]: the batch whose values row r holds, 0 without a row
  faults     \* faults spent

clientVars == <<plan, acked, callback, mine>>
serverVars == <<stage, batch, lost, pending, table>>
storeVars  == <<clientVars, serverVars, faults>>

Batches == 1 .. MaxBatches

\* The stages in which a session holds the lock on the staging table.
LockStages == {"truncated", "loaded", "merged", "cleared"}

StoreTypeOK ==
  /\ plan \in Seq(SUBSET Rows) /\ Len(plan) <= MaxBatches
  /\ acked \in 0 .. Len(plan)
  /\ callback \in {"idle", "writing", "written"}
  /\ mine \in Sessions \cup {NoSession}
  /\ stage \in [Sessions -> {"free", "begun"} \cup LockStages]
  /\ batch \in [Sessions -> 0 .. MaxBatches]
  /\ lost \subseteq Sessions /\ pending \subseteq lost
  /\ table \in [Rows -> 0 .. MaxBatches]
  /\ faults \in 0 .. MaxFaults

StoreInit ==
  /\ plan = <<>> /\ acked = 0
  /\ callback = "idle" /\ mine = NoSession
  /\ stage = [s \in Sessions |-> "free"]
  /\ batch = [s \in Sessions |-> 0]
  /\ lost = {} /\ pending = {}
  /\ table = [r \in Rows |-> 0]
  /\ faults = 0

-----------------------------------------------------------------------------
(* The query and its callback                                                *)

\* The aggregation emits the next batch.
Emit ==
  /\ Len(plan) < MaxBatches /\ acked = Len(plan)
  /\ \E rows \in SUBSET Rows : plan' = Append(plan, rows)
  /\ UNCHANGED <<acked, callback, mine, serverVars, faults>>

\* psycopg.connect: the batch that is not acknowledged, for the first time or
\* again.
Connect(s) ==
  /\ callback = "idle" /\ acked < Len(plan)
  /\ stage[s] = "free"
  /\ callback' = "writing" /\ mine' = s
  /\ stage' = [stage EXCEPT ![s] = "begun"]
  /\ batch' = [batch EXCEPT ![s] = acked + 1]
  /\ UNCHANGED <<plan, acked, lost, pending, table, faults>>

\* The callback has returned; the query commits its batch.
Acknowledge ==
  /\ callback = "written"
  /\ acked' = acked + 1
  /\ callback' = "idle"
  /\ UNCHANGED <<plan, mine, serverVars, faults>>

-----------------------------------------------------------------------------
(* The statements, executed by Postgres                                      *)

\* The client waits for the statement, or had sent it before it was gone.
Executes(s) == s = mine \/ s \in pending

Complete(s, from, to) ==
  /\ Executes(s) /\ stage[s] = from
  /\ stage' = [stage EXCEPT ![s] = to]
  /\ pending' = pending \ {s}

\* Mutant: DELETE FROM the staging table, which locks rows and not the table.
LockFreeForRows(s) == TRUE

LockFree(s) == \A t \in Sessions : t # s => stage[t] \notin LockStages

\* TRUNCATE of the staging table waits for its lock.
Truncate(s) ==
  /\ LockFree(s)
  /\ Complete(s, "begun", "truncated")
  /\ UNCHANGED <<clientVars, batch, lost, table, faults>>

\* executemany; nothing is sent for a batch without rows.
Load(s) ==
  /\ Complete(s, "truncated", "loaded")
  /\ UNCHANGED <<clientVars, batch, lost, table, faults>>

\* INSERT ... SELECT from the staging table.  The rows it changes are locked
\* as well, by a session that has the lock on the staging table.
Merge(s) ==
  /\ Complete(s, "loaded", "merged")
  /\ UNCHANGED <<clientVars, batch, lost, table, faults>>

Clear(s) ==
  /\ Complete(s, "merged", "cleared")
  /\ UNCHANGED <<clientVars, batch, lost, table, faults>>

\* Mutant: ON CONFLICT DO NOTHING.
UpsertedOnce(n) == [r \in Rows |-> IF r \in plan[n] /\ table[r] = 0 THEN n ELSE table[r]]

\* ON CONFLICT DO UPDATE: what is emitted replaces what is stored.
Upserted(n) == [r \in Rows |-> IF r \in plan[n] THEN n ELSE table[r]]

\* COMMIT makes the upsert visible and ends the transaction with its locks.
Commit(s) ==
  /\ Complete(s, "cleared", "free")
  /\ table' = Upserted(batch[s])
  /\ lost' = lost \ {s}
  /\ IF s = mine
     THEN callback' = "written" /\ mine' = NoSession
     ELSE UNCHANGED <<callback, mine>>
  /\ batch' = [batch EXCEPT ![s] = 0]
  /\ UNCHANGED <<plan, acked, faults>>

-----------------------------------------------------------------------------
(* Failures                                                                  *)

\* Mutant: the connection is not a context manager; it stays as it is.
StageAfterLeak(s) == stage[s]

\* The context manager rolls back and closes.
StageAfterException(s) == "free"

\* Mutant: the callback logs the exception and returns.
CallbackAfterLogging == "written"

\* The exception leaves the callback and ends the query, which is restarted.
CallbackAfterException == "idle"

\* A statement or the collect() between two of them raises.
StatementFails(s) ==
  /\ s = mine /\ faults < MaxFaults
  /\ stage' = [stage EXCEPT ![s] = StageAfterException(s)]
  /\ batch' = [batch EXCEPT ![s] = 0]
  /\ callback' = CallbackAfterException /\ mine' = NoSession
  /\ faults' = faults + 1
  /\ UNCHANGED <<plan, acked, lost, pending, table>>

\* The driver dies, or the connection to Postgres breaks, with or without a
\* statement on its way.
ClientLost ==
  /\ callback # "idle" /\ faults < MaxFaults
  /\ callback' = "idle" /\ mine' = NoSession
  /\ lost' = lost \cup ({mine} \ {NoSession})
  /\ pending' \in {pending, pending \cup ({mine} \ {NoSession})}
  /\ faults' = faults + 1
  /\ UNCHANGED <<plan, acked, stage, batch, table>>

\* Mutant: no TCP keepalives, the server never learns that a client is gone.
ServerNeverNotices(s) == FALSE

ServerNotices(s) == s \in lost /\ s \notin pending

\* Postgres rolls back the transaction of a client that is gone.
ServerEnds(s) ==
  /\ ServerNotices(s)
  /\ stage' = [stage EXCEPT ![s] = "free"]
  /\ batch' = [batch EXCEPT ![s] = 0]
  /\ lost' = lost \ {s}
  /\ UNCHANGED <<clientVars, pending, table, faults>>

Statement(s) == Truncate(s) \/ Load(s) \/ Merge(s) \/ Clear(s) \/ Commit(s)

Callback == Acknowledge \/ \E s \in Sessions : Connect(s)

StoreStep ==
  \/ Emit
  \/ Callback
  \/ \E s \in Sessions : Statement(s) \/ StatementFails(s) \/ ServerEnds(s)
  \/ ClientLost

-----------------------------------------------------------------------------
(* Properties                                                                *)

\* t is what the first n batches leave: each row has the values of the last
\* of them that emitted it.
LastWriteWins(t, n) ==
  \A r \in Rows :
     /\ t[r] \in 0 .. n
     /\ t[r] # 0 => r \in plan[t[r]]
     /\ \A k \in t[r] + 1 .. n : r \notin plan[k]

\* Readers of the curated table never see a part of a batch, nor an old batch
\* over a newer one, whatever an orphaned session still executes: the table
\* holds all acknowledged batches and possibly the one being written
\* (postgres_sink.py:125-135, "Upsert one micro-batch").
TableIsWhole ==
  \/ LastWriteWins(table, acked)
  \/ acked < Len(plan) /\ LastWriteWins(table, acked + 1)

\* upsert_batch implements the atomic write of a batch (AtomicWrites).
Abstract == INSTANCE AtomicWrites
ImplementsAtomicWrites == Abstract!Spec

\* Every batch is written and acknowledged in the end: a session that was left
\* behind does not block its repetition for ever, because the context manager
\* (postgres_sink.py:127) and the server end the transactions nobody works on.
BatchesGetAcked == \A n \in Batches : Len(plan) >= n ~> acked >= n

=============================================================================
