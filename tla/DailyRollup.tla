---------------------------- MODULE DailyRollup ----------------------------
(***************************************************************************)
(* The Airflow DAG of etl/dags/batch_rollup.py next to the sink that       *)
(* writes the table it reads: run_daily_rollup aggregates                  *)
(* curated.page_views_1m into curated.daily_summary with one INSERT ...    *)
(* SELECT ... ON CONFLICT DO UPDATE in a transaction of its own.  Airflow  *)
(* starts it again when it failed; an attempt whose connection broke may   *)
(* leave a statement behind that Postgres goes on executing.               *)
(***************************************************************************)
EXTENDS CuratedStore

CONSTANTS
  Attempts,     \* the attempts Postgres may know at the same time
  MaxAttempts   \* bound: runs of the DAG and retries

ASSUME AttemptsAssumption == MaxAttempts \in Nat

VARIABLES
  phase,     \* how far each attempt got
  snap,      \* snap[a]: the curated table as the INSERT of a sees it
  worker,    \* attempts whose worker still runs
  sent,      \* attempts without a worker that have a statement on its way
  daily,     \* daily[r]: the batch whose values of row r the summary contains
  attempts   \* attempts spent

rollupVars == <<phase, snap, worker, sent, daily, attempts>>
vars == <<storeVars, rollupVars>>

TypeOK ==
  /\ StoreTypeOK
  /\ phase \in [Attempts -> {"free", "begun", "selected", "wrote"}]
  /\ snap \in [Attempts -> [Rows -> 0 .. MaxBatches]]
  /\ worker \subseteq Attempts
  /\ sent \subseteq Attempts \ worker
  /\ daily \in [Rows -> 0 .. MaxBatches]
  /\ attempts \in 0 .. MaxAttempts

NoRows == [r \in Rows |-> 0]

Init ==
  /\ StoreInit
  /\ phase = [a \in Attempts |-> "free"]
  /\ snap = [a \in Attempts |-> NoRows]
  /\ worker = {} /\ sent = {}
  /\ daily = NoRows
  /\ attempts = 0

-----------------------------------------------------------------------------
(* run_daily_rollup                                                          *)

Enter(a, place) == phase' = [phase EXCEPT ![a] = place]

\* Airflow starts the task, or its retry, when no other attempt is running.
StartAttempt(a) ==
  /\ worker = {} /\ phase[a] = "free" /\ attempts < MaxAttempts
  /\ Enter(a, "begun")
  /\ worker' = {a}
  /\ attempts' = attempts + 1
  /\ UNCHANGED <<storeVars, snap, sent, daily>>

Running(a) == a \in worker \/ a \in sent

\* The INSERT begins: READ COMMITTED, its snapshot is the table as it is now.
Select(a) ==
  /\ Running(a) /\ phase[a] = "begun"
  /\ Enter(a, "selected")
  /\ snap' = [snap EXCEPT ![a] = table]
  /\ UNCHANGED <<storeVars, worker, sent, daily, attempts>>

\* DO UPDATE SET views = EXCLUDED.views, for the rows the SELECT returned.
Aggregated(a) == [r \in Rows |-> IF snap[a][r] # 0 THEN snap[a][r] ELSE daily[r]]

\* Mutant: the connection is in autocommit mode.
VisibleAtOnce(a) == Aggregated(a)

VisibleBeforeCommit(a) == daily

\* ... and ends when it has locked and written the rows of the summary, which
\* it keeps locked until its transaction ends.
Aggregate(a) ==
  /\ Running(a) /\ phase[a] = "selected"
  /\ \A b \in Attempts : phase[b] # "wrote"
  /\ Enter(a, "wrote")
  /\ sent' = sent \ {a}
  /\ daily' = VisibleBeforeCommit(a)
  /\ UNCHANGED <<storeVars, snap, worker, attempts>>

CommitDaily(a) ==
  /\ Running(a) /\ phase[a] = "wrote"
  /\ daily' = Aggregated(a)
  /\ Enter(a, "free")
  /\ worker' = worker \ {a}
  /\ sent' = sent \ {a}
  /\ snap' = [snap EXCEPT ![a] = NoRows]
  /\ UNCHANGED <<storeVars, attempts>>

\* The worker dies or its connection breaks.
WorkerLost(a) ==
  /\ a \in worker
  /\ worker' = worker \ {a}
  /\ sent' \in {sent, sent \cup {a}}
  /\ UNCHANGED <<storeVars, phase, snap, daily, attempts>>

\* Postgres rolls back the transaction of a worker that is gone.
ServerEndsAttempt(a) ==
  /\ ~ Running(a) /\ phase[a] # "free"
  /\ Enter(a, "free")
  /\ snap' = [snap EXCEPT ![a] = NoRows]
  /\ UNCHANGED <<storeVars, worker, sent, daily, attempts>>

RollupStep ==
  \E a \in Attempts :
     \/ StartAttempt(a) \/ Select(a) \/ Aggregate(a) \/ CommitDaily(a)
     \/ WorkerLost(a) \/ ServerEndsAttempt(a)

-----------------------------------------------------------------------------

Next ==
  \/ StoreStep /\ UNCHANGED rollupVars
  \/ RollupStep

Spec == Init /\ [][Next]_vars

\* The driver's thread and the statements it waits for go on, and the server
\* notices that a client is gone (TCP keepalives, or the end of its host).
Fairness ==
  /\ WF_vars(Callback /\ UNCHANGED rollupVars)
  /\ \A s \in Sessions : /\ WF_vars(Statement(s) /\ UNCHANGED rollupVars)
                         /\ WF_vars(ServerEnds(s) /\ UNCHANGED rollupVars)

FairSpec == Spec /\ Fairness

-----------------------------------------------------------------------------
(* Properties                                                                *)

\* The daily summary never goes back to older windows, although a retry runs
\* next to what is left of the attempt before it: "re-runs are safe"
\* (batch_rollup.py:4).
DailyNeverGoesBack == [][\A r \in Rows : daily[r] <= daily'[r]]_vars

-----------------------------------------------------------------------------
(* The inductive invariant behind the safety properties                      *)

\* One session at a time holds the lock on the staging table.
OneLockHolder ==
  \A s, t \in Sessions :
     stage[s] \in LockStages /\ stage[t] \in LockStages => s = t

\* Could the transaction of s still be committed?
MayCommit(s) == s = mine \/ (s \in pending /\ stage[s] = "cleared")

\* Whatever may still be committed is the batch that is to be acknowledged.
CommitsAreCurrent ==
  /\ (callback = "writing") = (mine # NoSession)
  /\ callback # "idle" => acked < Len(plan)
  /\ mine # NoSession => stage[mine] # "free" /\ mine \notin lost
  /\ \A s \in lost : stage[s] # "free"
  /\ callback = "written" => LastWriteWins(table, acked + 1)
  /\ \A s \in Sessions : MayCommit(s) => batch[s] = acked + 1 /\ acked < Len(plan)
  /\ callback = "written" => \A s \in Sessions : ~ MayCommit(s)

\* The summary and every snapshot are behind the table.
BehindTable ==
  \A r \in Rows :
     /\ daily[r] <= table[r]
     /\ \A a \in Attempts : phase[a] \in {"selected", "wrote"} => snap[a][r] <= table[r]

\* What may be committed to the summary is not behind it, and what the running
\* attempt has read is not behind that.
SnapshotsInOrder ==
  /\ \A a \in worker \cup sent : phase[a] # "free"
  /\ \A a, b \in Attempts : a \in worker /\ b \in worker => a = b
  /\ \A a, b \in Attempts : phase[a] = "wrote" /\ phase[b] = "wrote" => a = b
  /\ \A a \in Attempts : phase[a] = "wrote" /\ Running(a) =>
       \A r \in Rows : daily[r] <= snap[a][r]
  /\ \A a \in worker : phase[a] = "selected" =>
       \A r \in Rows :
         /\ daily[r] <= snap[a][r]
         /\ \A b \in Attempts : phase[b] = "wrote" /\ Running(b) => snap[b][r] <= snap[a][r]

\* The conjunction that every step preserves.
StoreInv ==
  /\ OneLockHolder
  /\ CommitsAreCurrent
  /\ TableIsWhole
  /\ BehindTable
  /\ SnapshotsInOrder

=============================================================================
