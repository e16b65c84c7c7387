------------------------- MODULE CuratedStoreProofs -------------------------
(***************************************************************************)
(* Proofs about DailyRollup and the CuratedStore below it, for every set   *)
(* of rows, sessions and attempts and every bound: the sink writes whole   *)
(* batches in order and implements AtomicWrites, and the daily summary     *)
(* never goes back.                                                        *)
(***************************************************************************)
EXTENDS DailyRollup, TLAPS

LEMMA TypeInit == Init => TypeOK
  BY SessionsAssumption, StoreBoundsAssumption, AttemptsAssumption
     DEF Init, StoreInit, TypeOK, StoreTypeOK, NoRows, LockStages

\* Each step of the sink keeps the types of its variables.
LEMMA StoreTypeStep ==
  ASSUME StoreTypeOK, CommitsAreCurrent, StoreStep
  PROVE  StoreTypeOK'
<1> USE SessionsAssumption, StoreBoundsAssumption
<1>1. CASE Emit
  <2>1. PICK rows \in SUBSET Rows : plan' = Append(plan, rows)
    BY <1>1 DEF Emit
  <2>2. plan' \in Seq(SUBSET Rows) /\ Len(plan') = Len(plan) + 1
    BY <2>1 DEF StoreTypeOK
  <2> QED BY <1>1, <2>2 DEF Emit, StoreTypeOK, serverVars, LockStages
<1>2. CASE Acknowledge
  BY <1>2 DEF Acknowledge, StoreTypeOK, CommitsAreCurrent, serverVars, LockStages
<1>3. ASSUME NEW s \in Sessions, Connect(s) PROVE StoreTypeOK'
  <2>1. acked + 1 \in 0 .. MaxBatches
    BY <1>3 DEF Connect, StoreTypeOK
  <2> QED BY <1>3, <2>1 DEF Connect, StoreTypeOK, LockStages
<1>4. ASSUME NEW s \in Sessions, Truncate(s) \/ Load(s) \/ Merge(s) \/ Clear(s)
      PROVE  StoreTypeOK'
  BY <1>4 DEF Truncate, Load, Merge, Clear, Complete, StoreTypeOK, clientVars, LockStages
<1>5. ASSUME NEW s \in Sessions, Commit(s) PROVE StoreTypeOK'
  <2>1. table' \in [Rows -> 0 .. MaxBatches]
    BY <1>5 DEF Commit, Upserted, StoreTypeOK
  <2> QED BY <1>5, <2>1 DEF Commit, Complete, StoreTypeOK, LockStages
<1>6. ASSUME NEW s \in Sessions, StatementFails(s) PROVE StoreTypeOK'
  BY <1>6 DEF StatementFails, StageAfterException, CallbackAfterException, StoreTypeOK, LockStages
<1>7. ASSUME NEW s \in Sessions, ServerEnds(s) PROVE StoreTypeOK'
  BY <1>7 DEF ServerEnds, ServerNotices, StoreTypeOK, clientVars, LockStages
<1>8. CASE ClientLost
  BY <1>8 DEF ClientLost, StoreTypeOK, LockStages
<1> QED BY <1>1, <1>2, <1>3, <1>4, <1>5, <1>6, <1>7, <1>8 DEF StoreStep, Callback, Statement

-----------------------------------------------------------------------------
(* The sink                                                                  *)

\* Writing batch n + 1 over what the first n batches, or that batch already,
\* have left.
LEMMA WriteWins ==
  ASSUME StoreTypeOK, acked < Len(plan), TableIsWhole
  PROVE  LastWriteWins(Upserted(acked + 1), acked + 1)
<1>1. \A r \in Rows : table[r] \in Nat
  BY StoreBoundsAssumption DEF StoreTypeOK
<1>2. acked \in Nat
  BY DEF StoreTypeOK
<1> SUFFICES ASSUME NEW r \in Rows
             PROVE  /\ Upserted(acked + 1)[r] \in 0 .. acked + 1
                    /\ Upserted(acked + 1)[r] # 0 => r \in plan[Upserted(acked + 1)[r]]
                    /\ \A k \in Upserted(acked + 1)[r] + 1 .. acked + 1 : r \notin plan[k]
  BY DEF LastWriteWins
<1>3. CASE r \in plan[acked + 1]
  BY <1>2, <1>3 DEF Upserted
<1>4. CASE r \notin plan[acked + 1]
  <2>1. Upserted(acked + 1)[r] = table[r]
    BY <1>4 DEF Upserted
  <2>2. /\ table[r] \in 0 .. acked + 1
        /\ table[r] # 0 => r \in plan[table[r]]
        /\ \A k \in table[r] + 1 .. acked : r \notin plan[k]
    BY <1>1, <1>2 DEF TableIsWhole, LastWriteWins
  <2> QED BY <1>1, <1>2, <1>4, <2>1, <2>2
<1> QED BY <1>3, <1>4

\* The lock on the staging table has one holder.
LEMMA LockStep ==
  ASSUME StoreTypeOK, OneLockHolder, StoreStep
  PROVE  OneLockHolder'
<1>1. ASSUME NEW s \in Sessions, Truncate(s)
      PROVE  OneLockHolder'
  BY <1>1 DEF Truncate, LockFree, Complete, StoreTypeOK, OneLockHolder, LockStages
<1>2. ASSUME NEW s \in Sessions, Load(s) \/ Merge(s) \/ Clear(s) \/ Commit(s)
      PROVE  OneLockHolder'
  BY <1>2 DEF Load, Merge, Clear, Commit, Complete, StoreTypeOK, OneLockHolder, LockStages
<1>3. ASSUME NEW s \in Sessions, Connect(s) \/ StatementFails(s) \/ ServerEnds(s)
      PROVE  OneLockHolder'
  BY <1>3 DEF Connect, StatementFails, StageAfterException, ServerEnds, StoreTypeOK,
              OneLockHolder, LockStages
<1>4. ASSUME Emit \/ Acknowledge \/ ClientLost PROVE OneLockHolder'
  BY <1>4 DEF Emit, Acknowledge, ClientLost, serverVars, OneLockHolder
<1> QED BY <1>1, <1>2, <1>3, <1>4 DEF StoreStep, Callback, Statement

\* Only a transaction that may be committed changes the table, and it writes
\* the batch that is to be acknowledged.
LEMMA CommitWrites ==
  ASSUME StoreTypeOK, CommitsAreCurrent, NEW s \in Sessions, Commit(s)
  PROVE  table' = Upserted(acked + 1) /\ acked < Len(plan)
<1>1. MayCommit(s)
  BY DEF Commit, Complete, Executes, MayCommit
<1> QED BY <1>1 DEF Commit, CommitsAreCurrent

LEMMA WholeStep ==
  ASSUME StoreTypeOK, CommitsAreCurrent, TableIsWhole, StoreStep
  PROVE  TableIsWhole'
<1>1. CASE Emit
  <2>1. PICK rows \in SUBSET Rows : plan' = Append(plan, rows)
    BY <1>1 DEF Emit
  <2>2. acked = Len(plan) /\ table' = table /\ acked' = acked
    BY <1>1 DEF Emit, serverVars
  <2>3. \A k \in 1 .. acked : plan'[k] = plan[k]
    BY <2>1, <2>2 DEF StoreTypeOK
  <2>4. LastWriteWins(table, acked)
    BY <2>2 DEF TableIsWhole, StoreTypeOK
  <2>5. LastWriteWins(table, acked)'
    <3> SUFFICES ASSUME NEW r \in Rows
                 PROVE  /\ table'[r] \in 0 .. acked'
                        /\ table'[r] # 0 => r \in plan'[table'[r]]
                        /\ \A k \in table'[r] + 1 .. acked' : r \notin plan'[k]
      BY DEF LastWriteWins
    <3>1. /\ table[r] \in 0 .. acked
          /\ table[r] # 0 => r \in plan[table[r]]
          /\ \A k \in table[r] + 1 .. acked : r \notin plan[k]
      BY <2>4 DEF LastWriteWins
    <3> QED BY <3>1, <2>2, <2>3 DEF StoreTypeOK
  <2> QED BY <2>5 DEF TableIsWhole
<1>2. CASE Acknowledge
  <2>1. LastWriteWins(table, acked + 1) /\ acked' = acked + 1 /\ table' = table /\ plan' = plan
    BY <1>2 DEF Acknowledge, CommitsAreCurrent, serverVars
  <2> QED BY <2>1 DEF TableIsWhole, LastWriteWins
<1>3. ASSUME NEW s \in Sessions, Commit(s) PROVE TableIsWhole'
  <2>1. table' = Upserted(acked + 1) /\ acked < Len(plan)
    BY <1>3, CommitWrites
  <2>2. LastWriteWins(Upserted(acked + 1), acked + 1)
    BY <2>1, WriteWins
  <2>3. plan' = plan /\ acked' = acked
    BY <1>3 DEF Commit
  <2> QED BY <2>1, <2>2, <2>3 DEF TableIsWhole, LastWriteWins
<1>4. ASSUME \/ \E s \in Sessions : \/ Connect(s) \/ Truncate(s) \/ Load(s) \/ Merge(s)
                                   \/ Clear(s) \/ StatementFails(s) \/ ServerEnds(s)
             \/ ClientLost
      PROVE  TableIsWhole'
  <2>1. UNCHANGED <<plan, acked, table>>
    BY <1>4 DEF Connect, Truncate, Load, Merge, Clear, StatementFails, ServerEnds,
                ClientLost, clientVars
  <2> QED BY <2>1 DEF TableIsWhole, LastWriteWins
<1> QED BY <1>1, <1>2, <1>3, <1>4 DEF StoreStep, Callback, Statement

\* What may be committed stays the batch that is to be acknowledged.
LEMMA CurrentStep ==
  ASSUME StoreTypeOK, OneLockHolder, CommitsAreCurrent, TableIsWhole, StoreStep
  PROVE  CommitsAreCurrent'
<1> USE SessionsAssumption DEF MayCommit
<1>1. CASE Emit
  <2>1. Len(plan') = Len(plan) + 1
    BY <1>1 DEF Emit, StoreTypeOK
  <2>2. callback # "written"
    BY <1>1 DEF Emit, CommitsAreCurrent, StoreTypeOK
  <2> QED BY <1>1, <2>1, <2>2 DEF Emit, CommitsAreCurrent, StoreTypeOK, serverVars
<1>2. CASE Acknowledge
  BY <1>2 DEF Acknowledge, CommitsAreCurrent, StoreTypeOK, serverVars
<1>3. ASSUME NEW s \in Sessions, Connect(s) PROVE CommitsAreCurrent'
  BY <1>3 DEF Connect, CommitsAreCurrent, StoreTypeOK
<1>4. ASSUME NEW s \in Sessions, Truncate(s) \/ Load(s) \/ Merge(s) \/ Clear(s)
      PROVE  CommitsAreCurrent'
  <2>1. UNCHANGED <<plan, acked, table, callback, mine, lost, batch>>
    BY <1>4 DEF Truncate, Load, Merge, Clear, clientVars
  <2>2. /\ \A t \in Sessions : stage'[t] = "cleared" /\ t \in pending' =>
                               stage[t] = "cleared" /\ t \in pending
        /\ \A t \in Sessions : stage'[t] = "free" => stage[t] = "free"
    BY <1>4 DEF Truncate, Load, Merge, Clear, Complete, StoreTypeOK
  <2>3. callback = "written" => LastWriteWins(table, acked + 1)'
    BY <2>1 DEF CommitsAreCurrent, LastWriteWins
  <2> QED BY <2>1, <2>2, <2>3 DEF CommitsAreCurrent, StoreTypeOK
<1>5. ASSUME NEW s \in Sessions, Commit(s) PROVE CommitsAreCurrent'
  <2>1. table' = Upserted(acked + 1) /\ acked < Len(plan)
    BY <1>5, CommitWrites
  <2>2. LastWriteWins(Upserted(acked + 1), acked + 1)
    BY <2>1, WriteWins
  <2>3. UNCHANGED <<plan, acked>>
    BY <1>5 DEF Commit
  <2>4. LastWriteWins(table, acked + 1)'
    BY <2>1, <2>2, <2>3 DEF LastWriteWins
  <2>5. \A t \in Sessions : t # s => stage[t] \notin LockStages
    BY <1>5 DEF Commit, Complete, OneLockHolder, LockStages
  <2>6. \A t \in Sessions : t # s => stage'[t] # "cleared"
    BY <1>5, <2>5 DEF Commit, Complete, LockStages, StoreTypeOK
  <2>7. stage'[s] = "free" /\ s \notin pending'
    BY <1>5 DEF Commit, Complete, StoreTypeOK
  <2>10. \A t \in lost' : stage'[t] # "free"
    BY <1>5 DEF Commit, Complete, CommitsAreCurrent, StoreTypeOK
  <2>8. CASE s = mine
    BY <1>5, <2>1, <2>3, <2>4, <2>6, <2>7, <2>8, <2>10 DEF Commit, CommitsAreCurrent, StoreTypeOK
  <2>9. CASE s # mine
    <3>1. UNCHANGED <<callback, mine>>
      BY <1>5, <2>9 DEF Commit
    <3>2. s \in pending /\ stage[s] = "cleared"
      BY <1>5, <2>9 DEF Commit, Complete, Executes
    <3>3. callback # "written"
      BY <3>2 DEF CommitsAreCurrent
    <3>4. mine # NoSession => mine # s /\ stage'[mine] = stage[mine] /\ batch'[mine] = batch[mine]
      BY <1>5, <2>9 DEF Commit, Complete, StoreTypeOK
    <3>5. mine \notin lost => mine \notin lost'
      BY <1>5 DEF Commit
    <3> QED BY <3>1, <3>3, <3>4, <3>5, <2>3, <2>6, <2>7, <2>10 DEF CommitsAreCurrent, StoreTypeOK
  <2> QED BY <2>8, <2>9
<1>6. ASSUME NEW s \in Sessions, StatementFails(s) PROVE CommitsAreCurrent'
  BY <1>6 DEF StatementFails, StageAfterException, CallbackAfterException,
              CommitsAreCurrent, StoreTypeOK
<1>7. ASSUME NEW s \in Sessions, ServerEnds(s) PROVE CommitsAreCurrent'
  <2>1. UNCHANGED <<plan, acked, table, callback, mine, pending>>
    BY <1>7 DEF ServerEnds, clientVars
  <2>2. s \notin pending /\ s # mine
    BY <1>7 DEF ServerEnds, ServerNotices, CommitsAreCurrent
  <2>3. callback = "written" => LastWriteWins(table, acked + 1)'
    BY <2>1 DEF CommitsAreCurrent, LastWriteWins
  <2> QED BY <1>7, <2>1, <2>2, <2>3 DEF ServerEnds, CommitsAreCurrent, StoreTypeOK
<1>8. CASE ClientLost
  BY <1>8 DEF ClientLost, CommitsAreCurrent, StoreTypeOK
<1> QED BY <1>1, <1>2, <1>3, <1>4, <1>5, <1>6, <1>7, <1>8 DEF StoreStep, Callback, Statement

\* A row only moves on to later batches.
LEMMA TableGrows ==
  ASSUME StoreTypeOK, CommitsAreCurrent, TableIsWhole, StoreStep
  PROVE  \A r \in Rows : table[r] <= table'[r]
<1>1. ASSUME NEW s \in Sessions, Commit(s), NEW r \in Rows PROVE table[r] <= table'[r]
  <2>1. table' = Upserted(acked + 1)
    BY <1>1, CommitWrites
  <2>2. table[r] \in 0 .. acked + 1
    BY DEF TableIsWhole, LastWriteWins, StoreTypeOK
  <2> QED BY <2>1, <2>2 DEF Upserted, StoreTypeOK
<1>2. ASSUME ~ \E s \in Sessions : Commit(s) PROVE table' = table
  BY <1>2 DEF StoreStep, Callback, Statement, Emit, Acknowledge, Connect, Truncate, Load,
              Merge, Clear, StatementFails, ServerEnds, ClientLost, serverVars
<1> QED BY <1>1, <1>2, StoreBoundsAssumption DEF StoreTypeOK

-----------------------------------------------------------------------------
(* The rollup                                                                *)

LEMMA RollupTypeStep ==
  ASSUME TypeOK, SnapshotsInOrder, RollupStep
  PROVE  TypeOK'
<1> USE AttemptsAssumption, StoreBoundsAssumption
<1>1. StoreTypeOK'
  BY DEF TypeOK, StoreTypeOK, RollupStep, StartAttempt, Select, Aggregate, CommitDaily,
         WorkerLost, ServerEndsAttempt, storeVars, clientVars, serverVars
<1>2. table \in [Rows -> 0 .. MaxBatches] /\ NoRows \in [Rows -> 0 .. MaxBatches]
  BY DEF TypeOK, StoreTypeOK, NoRows
<1>3. \A a \in Attempts : Aggregated(a) \in [Rows -> 0 .. MaxBatches]
  BY DEF TypeOK, Aggregated
<1>4. ASSUME NEW a \in Attempts, StartAttempt(a) PROVE TypeOK'
  BY <1>1, <1>4 DEF StartAttempt, Enter, TypeOK, SnapshotsInOrder
<1>5. ASSUME NEW a \in Attempts, Select(a) PROVE TypeOK'
  BY <1>1, <1>2, <1>5 DEF Select, Enter, TypeOK
<1>6. ASSUME NEW a \in Attempts, Aggregate(a) PROVE TypeOK'
  BY <1>1, <1>6 DEF Aggregate, Enter, VisibleBeforeCommit, TypeOK
<1>7. ASSUME NEW a \in Attempts, CommitDaily(a) PROVE TypeOK'
  BY <1>1, <1>2, <1>3, <1>7 DEF CommitDaily, Enter, TypeOK
<1>8. ASSUME NEW a \in Attempts, WorkerLost(a) PROVE TypeOK'
  BY <1>1, <1>8 DEF WorkerLost, TypeOK
<1>9. ASSUME NEW a \in Attempts, ServerEndsAttempt(a) PROVE TypeOK'
  BY <1>1, <1>2, <1>9 DEF ServerEndsAttempt, Enter, TypeOK
<1> QED BY <1>4, <1>5, <1>6, <1>7, <1>8, <1>9 DEF RollupStep

\* The summary and the snapshots stay behind the table.
LEMMA BehindStep ==
  ASSUME TypeOK, BehindTable, RollupStep
  PROVE  BehindTable'
<1>1. table' = table
  BY DEF RollupStep, StartAttempt, Select, Aggregate, CommitDaily, WorkerLost,
         ServerEndsAttempt, storeVars, serverVars
<1>2. \A r \in Rows : /\ table[r] \in Nat /\ daily[r] \in Nat
                      /\ \A a \in Attempts : snap[a][r] \in Nat
  BY StoreBoundsAssumption DEF TypeOK, StoreTypeOK
<1>3. ASSUME NEW a \in Attempts, StartAttempt(a) PROVE BehindTable'
  BY <1>1, <1>3 DEF StartAttempt, Enter, TypeOK, BehindTable
<1>4. ASSUME NEW a \in Attempts, Select(a) PROVE BehindTable'
  BY <1>1, <1>2, <1>4 DEF Select, Enter, TypeOK, BehindTable
<1>5. ASSUME NEW a \in Attempts, Aggregate(a) PROVE BehindTable'
  BY <1>1, <1>5 DEF Aggregate, Enter, VisibleBeforeCommit, TypeOK, BehindTable
<1>6. ASSUME NEW a \in Attempts, CommitDaily(a) PROVE BehindTable'
  BY <1>1, <1>2, <1>6 DEF CommitDaily, Enter, Aggregated, TypeOK, BehindTable
<1>7. ASSUME NEW a \in Attempts, WorkerLost(a) \/ ServerEndsAttempt(a) PROVE BehindTable'
  BY <1>1, <1>7 DEF WorkerLost, ServerEndsAttempt, Enter, TypeOK, BehindTable
<1> QED BY <1>3, <1>4, <1>5, <1>6, <1>7 DEF RollupStep

\* The order between the summary, what may be committed to it and what the
\* running attempt has read.
LEMMA OrderStep ==
  ASSUME TypeOK, BehindTable, SnapshotsInOrder, RollupStep
  PROVE  SnapshotsInOrder'
<1> USE DEF Running
<1>1. \A r \in Rows : /\ table[r] \in Nat /\ daily[r] \in Nat
                      /\ \A a \in Attempts : snap[a][r] \in Nat
  BY StoreBoundsAssumption DEF TypeOK, StoreTypeOK
<1>2. ASSUME NEW a \in Attempts, StartAttempt(a) PROVE SnapshotsInOrder'
  BY <1>2 DEF StartAttempt, Enter, TypeOK, SnapshotsInOrder
<1>3. ASSUME NEW a \in Attempts, Select(a) PROVE SnapshotsInOrder'
  BY <1>1, <1>3 DEF Select, Enter, TypeOK, BehindTable, SnapshotsInOrder
<1>4. ASSUME NEW a \in Attempts, Aggregate(a) PROVE SnapshotsInOrder'
  BY <1>4 DEF Aggregate, Enter, VisibleBeforeCommit, TypeOK, SnapshotsInOrder
<1>5. ASSUME NEW a \in Attempts, CommitDaily(a) PROVE SnapshotsInOrder'
  BY <1>1, <1>5 DEF CommitDaily, Enter, Aggregated, TypeOK, SnapshotsInOrder
<1>6. ASSUME NEW a \in Attempts, WorkerLost(a) PROVE SnapshotsInOrder'
  BY <1>6 DEF WorkerLost, TypeOK, SnapshotsInOrder
<1>7. ASSUME NEW a \in Attempts, ServerEndsAttempt(a) PROVE SnapshotsInOrder'
  BY <1>7 DEF ServerEndsAttempt, Enter, TypeOK, SnapshotsInOrder
<1> QED BY <1>2, <1>3, <1>4, <1>5, <1>6, <1>7 DEF RollupStep

\* Every step of the sink or of the rollup preserves the invariant.
LEMMA InvStep ==
  ASSUME TypeOK, StoreInv, [Next]_vars
  PROVE  TypeOK' /\ StoreInv'
<1> USE DEF StoreInv
<1>1. CASE StoreStep /\ UNCHANGED rollupVars
  <2>1. StoreTypeOK' /\ OneLockHolder' /\ CommitsAreCurrent' /\ TableIsWhole'
    BY <1>1, StoreTypeStep, LockStep, CurrentStep, WholeStep DEF TypeOK
  <2>2. UNCHANGED <<phase, snap, worker, sent, daily, attempts>>
    BY <1>1 DEF rollupVars
  <2>3. TypeOK'
    BY <2>1, <2>2 DEF TypeOK
  <2>4. \A r \in Rows : table[r] <= table'[r]
    BY <1>1, TableGrows DEF TypeOK
  <2>5. \A r \in Rows : /\ table[r] \in Nat /\ table'[r] \in Nat /\ daily[r] \in Nat
                        /\ \A a \in Attempts : snap[a][r] \in Nat
    BY <2>1, StoreBoundsAssumption DEF TypeOK, StoreTypeOK
  <2>6. BehindTable'
    BY <2>2, <2>4, <2>5 DEF BehindTable
  <2>7. SnapshotsInOrder'
    BY <2>2 DEF SnapshotsInOrder, Running
  <2> QED BY <2>1, <2>3, <2>6, <2>7
<1>2. CASE RollupStep
  <2>1. TypeOK' /\ BehindTable' /\ SnapshotsInOrder'
    BY <1>2, RollupTypeStep, BehindStep, OrderStep
  <2>2. UNCHANGED storeVars
    BY <1>2 DEF RollupStep, StartAttempt, Select, Aggregate, CommitDaily, WorkerLost,
                ServerEndsAttempt
  <2>3. OneLockHolder' /\ CommitsAreCurrent' /\ TableIsWhole'
    BY <2>2 DEF storeVars, clientVars, serverVars, OneLockHolder, CommitsAreCurrent,
                MayCommit, TableIsWhole, LastWriteWins
  <2> QED BY <2>1, <2>3
<1>3. CASE UNCHANGED vars
  BY <1>3 DEF vars, storeVars, rollupVars, clientVars, serverVars, TypeOK, StoreTypeOK,
              OneLockHolder, CommitsAreCurrent, MayCommit, TableIsWhole, LastWriteWins,
              BehindTable, SnapshotsInOrder, Running
<1> QED BY <1>1, <1>2, <1>3 DEF Next

LEMMA InvInit == Init => StoreInv
  BY SessionsAssumption
     DEF Init, StoreInit, NoRows, StoreInv, OneLockHolder, LockStages, CommitsAreCurrent,
         MayCommit, TableIsWhole, LastWriteWins, BehindTable, SnapshotsInOrder

-----------------------------------------------------------------------------
(* The theorems                                                              *)

\* Types and the inductive invariant of the two transactions.
THEOREM StoreInvariant == Spec => [](TypeOK /\ StoreInv)
<1>1. Init => TypeOK /\ StoreInv
  BY TypeInit, InvInit
<1>2. TypeOK /\ StoreInv /\ [Next]_vars => (TypeOK /\ StoreInv)'
  BY InvStep
<1> QED BY <1>1, <1>2, PTL DEF Spec

\* Every variable keeps its type.
THEOREM RollupTypeCorrect == Spec => []TypeOK
  BY StoreInvariant, PTL

\* Readers see whole batches in order (upsert_batch, postgres_sink.py:119-135).
THEOREM WholeBatches == Spec => []TableIsWhole
<1>1. TypeOK /\ StoreInv => TableIsWhole
  BY DEF StoreInv
<1> QED BY <1>1, StoreInvariant, PTL

\* The daily summary never goes back (run_daily_rollup, batch_rollup.py:53-58).
THEOREM DailyMonotone == Spec => DailyNeverGoesBack
<1>1. TypeOK /\ StoreInv /\ [Next]_vars => [\A r \in Rows : daily[r] <= daily'[r]]_vars
  <2> SUFFICES ASSUME TypeOK, StoreInv, [Next]_vars, NEW r \in Rows
               PROVE  daily[r] <= daily'[r] \/ UNCHANGED vars
    OBVIOUS
  <2>1. daily[r] \in Nat
    BY StoreBoundsAssumption DEF TypeOK
  <2>2. ASSUME NEW a \in Attempts, CommitDaily(a) PROVE daily[r] <= daily'[r]
    BY <2>1, <2>2 DEF CommitDaily, Aggregated, StoreInv, SnapshotsInOrder
  <2>3. ASSUME ~ \E a \in Attempts : CommitDaily(a) PROVE daily' = daily \/ UNCHANGED vars
    BY <2>3 DEF Next, RollupStep, StartAttempt, Select, Aggregate, VisibleBeforeCommit,
                WorkerLost, ServerEndsAttempt, rollupVars
  <2> QED BY <2>1, <2>2, <2>3
<1> QED BY <1>1, StoreInvariant, PTL DEF Spec, DailyNeverGoesBack

\* Each step of the sessions is a step of AtomicWrites or leaves its variables.
LEMMA AbstractStep ==
  ASSUME TypeOK, StoreInv, [Next]_vars
  PROVE  [Abstract!Next]_(Abstract!vars)
<1> USE DEF Abstract!vars
<1>1. CASE Emit
  BY <1>1 DEF Emit, serverVars, Abstract!Next, Abstract!Emit
<1>2. CASE Acknowledge
  <2>1. acked < Len(plan) /\ LastWriteWins(table, acked + 1)
    BY <1>2 DEF Acknowledge, StoreInv, CommitsAreCurrent
  <2>2. \A r \in plan[acked + 1] : table[r] = acked + 1
    <3>1. acked + 1 \in 1 .. Len(plan) /\ plan[acked + 1] \subseteq Rows
      BY <2>1 DEF TypeOK, StoreTypeOK
    <3> QED BY <3>1, <2>1 DEF LastWriteWins, TypeOK, StoreTypeOK
  <2> QED BY <1>2, <2>1, <2>2 DEF Acknowledge, serverVars, Abstract!Next, Abstract!Acknowledge
<1>3. ASSUME NEW s \in Sessions, Commit(s) PROVE Abstract!Write
  <2>1. table' = Upserted(acked + 1) /\ acked < Len(plan)
    BY <1>3, CommitWrites DEF TypeOK, StoreInv
  <2> QED BY <1>3, <2>1 DEF Commit, Upserted, Abstract!Write
<1>4. ASSUME \/ \E s \in Sessions : \/ Connect(s) \/ Truncate(s) \/ Load(s) \/ Merge(s)
                                   \/ Clear(s) \/ StatementFails(s) \/ ServerEnds(s)
             \/ ClientLost \/ RollupStep \/ UNCHANGED vars
      PROVE  UNCHANGED <<plan, acked, table>>
  BY <1>4 DEF Connect, Truncate, Load, Merge, Clear, StatementFails, ServerEnds, ClientLost,
              RollupStep, StartAttempt, Select, Aggregate, CommitDaily, WorkerLost,
              ServerEndsAttempt, vars, storeVars, clientVars, serverVars
<1> QED BY <1>1, <1>2, <1>3, <1>4 DEF Next, StoreStep, Callback, Statement, Abstract!Next

\* upsert_batch implements the atomic write of a batch, whatever happens to its
\* sessions.
THEOREM Refinement == Spec => ImplementsAtomicWrites
<1>1. Init => Abstract!Init
  BY DEF Init, StoreInit, Abstract!Init
<1>2. TypeOK /\ StoreInv /\ [Next]_vars => [Abstract!Next]_(Abstract!vars)
  BY AbstractStep
<1> QED BY <1>1, <1>2, StoreInvariant, PTL DEF Spec, ImplementsAtomicWrites, Abstract!Spec

=============================================================================
