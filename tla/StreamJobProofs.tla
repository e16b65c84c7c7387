-------------------------- MODULE StreamJobProofs --------------------------
(***************************************************************************)
(* Safety of the streaming job for every set of queries and records and    *)
(* every bound: type correctness, the completeness and exactness of the    *)
(* sinks, and, while the topic keeps its records, that rows never shrink.  *)
(***************************************************************************)
EXTENDS StreamJob, TLAPS

USE QueriesAssumption, RecordsAssumption, TimeAssumption, BoundsAssumption

\* The type invariant holds in every reachable state.
THEOREM TypeCorrect == Spec => []TypeOK
<1>1. Init => TypeOK
  BY DEF Init, TypeOK, AllOff, Sinks
<1>2. TypeOK /\ [Next]_vars => TypeOK'
  <2> SUFFICES ASSUME TypeOK, [Next]_vars
               PROVE  TypeOK'
    OBVIOUS
  <2> USE DEF TypeOK, Positions, ckptVars, topicVars, sinkVars, driverVars, boundVars, Set
  <2>1. CASE Produce
    BY <2>1, SMTT(30) DEF Produce
  <2>2. CASE TrimLog
    BY <2>2, SMTT(30) DEF TrimLog
  <2>3. CASE DriverKilled
    BY <2>3 DEF DriverKilled, Exit, AllOff
  <2>4. CASE Redeploy
    BY <2>4 DEF Redeploy, Exit, AllOff
  <2>5. ASSUME NEW s \in Sinks, SinkDown(s) \/ SinkBack(s)
        PROVE  TypeOK'
    <3>1. sinkUp' \in [Sinks -> BOOLEAN]
      BY <2>5, Zenon DEF SinkDown, SinkBack
    <3>2. faults' \in 0 .. MaxFaults
      BY <2>5 DEF SinkDown, SinkBack
    <3>3. QED
      BY <2>5, <3>1, <3>2, Zenon DEF SinkDown, SinkBack
  <2>6. CASE Boot
    BY <2>6 DEF Boot, StartSession, StartPostgresSinks, StartClickhouseSinks,
                StartDlqSink, BootFails, DriverExits, Exit, AllOff, Start
  <2>7. ASSUME NEW q \in Queries, Query(q) \/ TransientFailure(q)
        PROVE  TypeOK'
    <3>1. Accepted(q) \subseteq Positions
      BY DEF Accepted, Batch, IsEvent
    <3>2. Effect(q) \in [Positions -> Nat]
      BY DEF Effect, Upserted, Inserted
    <3>3. CASE PlanBatch(q)
      <4>1. base' \in [Queries -> Nat] /\ late' \in [Queries -> Nat]
        BY <3>3 DEF PlanBatch
      <4>2. done' \in [Queries -> Nat] /\ planned' \in [Queries -> Nat]
        BY <3>3 DEF PlanBatch
      <4>3. fresh' \in [Queries -> BOOLEAN] /\ open' \in [Queries -> BOOLEAN]
        BY <3>3 DEF PlanBatch
      <4>4. run' \in [Queries -> {"off", "idle", "batch", "written", "failed"}]
        BY <3>3 DEF PlanBatch
      <4>5. UNCHANGED <<log, start, agg, table, sinkUp, boot, sent, faults, redeploys>>
        BY <3>3 DEF PlanBatch
      <4>6. QED
        BY <4>1, <4>2, <4>3, <4>4, <4>5
    <3>4. CASE PlanNoDataBatch(q)
      BY <3>4 DEF PlanNoDataBatch
    <3>4a. CASE ReplayBatch(q) \/ OffsetsLost(q)
      BY <3>4a DEF ReplayBatch, OffsetsLost
    <3>5. CASE WriteBatch(q)
      BY <3>2, <3>5 DEF WriteBatch
    <3>6. ASSUME NEW p \in Positions, SendDlq(q, p)
          PROVE  TypeOK'
      <4>1. table' \in [Queries -> [Positions -> Nat]]
        <5>1. (IF table[q][p] < MaxCopies THEN table[q][p] + 1 ELSE table[q][p]) \in Nat
          OBVIOUS
        <5>2. QED
          BY <3>6, <5>1 DEF SendDlq
      <4>2. QED
        BY <3>6, <4>1 DEF SendDlq
    <3>7. CASE FlushDlq(q) \/ BatchFails(q)
      BY <3>7 DEF FlushDlq, BatchFails
    <3>8. CASE CommitBatch(q)
      BY <3>1, <3>8 DEF CommitBatch, Retained, NewAgg, NextLate
    <3>9. CASE TransientFailure(q)
      <4>1. table' \in [Queries -> [Positions -> Nat]]
        BY <3>2, <3>9 DEF TransientFailure
      <4>2. run' \in [Queries -> {"off", "idle", "batch", "written", "failed"}]
        BY <3>9 DEF TransientFailure
      <4>3. sent' \in SUBSET Positions /\ faults' \in 0 .. MaxFaults
        BY <3>9 DEF TransientFailure
      <4>4. UNCHANGED <<log, start, base, fresh, done, planned, open, late, agg,
                        sinkUp, boot, redeploys>>
        BY <3>9 DEF TransientFailure
      <4>5. QED
        BY <4>1, <4>2, <4>3, <4>4
    <3>10. QED
      BY <2>7, <3>3, <3>4, <3>4a, <3>5, <3>6, <3>7, <3>8, <3>9 DEF Query
  <2>8. CASE UNCHANGED vars
    BY <2>8 DEF vars
  <2>9. QED
    BY <2>1, <2>2, <2>3, <2>4, <2>5, <2>6, <2>7, <2>8 DEF Next, Environment
<1>3. QED
  BY <1>1, <1>2, PTL DEF Spec

-----------------------------------------------------------------------------
(* Facts about the watermark and about what one batch writes                 *)

\* A longer prefix of the topic expires at least as many windows.
LEMMA ExpiredMonotone ==
  ASSUME NEW q \in Queries, NEW p, NEW m \in Nat, NEW n \in Nat,
         base \in [Queries -> Nat], m <= n, Expired(q, p, m)
  PROVE  Expired(q, p, n)
BY DEF Expired

\* Events of the same window expire together.
LEMMA SameWindow ==
  ASSUME NEW q \in Queries, NEW p, NEW r, NEW n,
         Window(log[p].ts) = Window(log[r].ts), Expired(q, p, n)
  PROVE  Expired(q, r, n)
BY DEF Expired, WindowEnd

\* What a batch leaves in its table: its own events and those of the state
\* store, nothing twice, nothing beyond it, and no event less than before.
LEMMA EffectFacts ==
  ASSUME TypeOK, SinkInv, NEW q \in Queries \ DlqQueries, open[q]
  PROVE  /\ \A p \in Accepted(q) : Effect(q)[p] = 1
         /\ \A p \in Positions : Effect(q)[p] # 0 =>
              Effect(q)[p] = 1 /\ IsEvent(p) /\ p <= planned[q]
         /\ q \in Stateful => \A p \in agg[q] : Effect(q)[p] = 1
         /\ \A p \in Positions : base[q] < p /\ table[q][p] # 0 => Effect(q)[p] # 0
<1> USE DEF TypeOK, Positions
<1>1. ~ fresh[q] /\ done[q] <= planned[q] /\ planned[q] <= Len(log)
      /\ base[q] <= late[q] /\ late[q] <= done[q]
  BY DEF SinkInv, OffsetsInOrder
<1>2. \A p \in Accepted(q) : p \in Positions /\ p \in DOMAIN log /\ IsEvent(p) /\ p <= planned[q]
  BY <1>1 DEF Accepted, Batch, IsEvent
<1>3. \A p \in Positions : table[q][p] # 0 => table[q][p] = 1 /\ IsEvent(p) /\ p <= planned[q]
  BY <1>1 DEF SinkInv, CountedOnce, RowsWithinPlan
<1>4. CASE q \notin Stateful
  <2>1. Effect(q) = Inserted(q)
    BY <1>4 DEF Effect
  <2>2. QED
    BY <1>2, <1>3, <1>4, <2>1 DEF Inserted
<1>5. CASE q \in Stateful
  <2>1. Effect(q) = Upserted(q)
    BY <1>5 DEF Effect
  <2>2. \A p \in agg[q] : p \in DOMAIN log /\ IsEvent(p) /\ p <= planned[q] /\ table[q][p] = 1
    BY <1>1, <1>5 DEF SinkInv, StateIsOpenWindows, StateIsBacked, IsEvent
  <2>3. \A p \in Accepted(q) : Effect(q)[p] = 1
    BY <1>2, <2>1 DEF Upserted, Touched, NewAgg
  <2>4. \A p \in Positions : Effect(q)[p] # 0 =>
          Effect(q)[p] = 1 /\ IsEvent(p) /\ p <= planned[q]
    BY <1>2, <1>3, <2>1, <2>2 DEF Upserted, NewAgg
  <2>5. \A p \in agg[q] : Effect(q)[p] = 1
    BY <2>1, <2>2 DEF Upserted, NewAgg
  <2>6. ASSUME NEW p \in Positions, base[q] < p, table[q][p] # 0
        PROVE  Effect(q)[p] # 0
    <3>1. CASE Window(log[p].ts) \notin Touched(q)
      BY <2>1, <2>6, <3>1 DEF Upserted
    <3>2. CASE Window(log[p].ts) \in Touched(q)
      <4>1. PICK r \in Accepted(q) : Window(log[p].ts) = Window(log[r].ts)
        BY <3>2 DEF Touched
      <4>2. ~ Expired(q, p, late[q])
        BY <4>1, <1>5, SameWindow DEF Accepted
      <4>3. p \in NewAgg(q)
        <5>1. CASE p <= done[q]
          <6>1. agg[q] = {x \in base[q] + 1 .. done[q] :
                            IsEvent(x) /\ ~ Expired(q, x, late[q])}
            BY <1>5 DEF SinkInv, StateIsOpenWindows
          <6>2. p \in base[q] + 1 .. done[q] /\ IsEvent(p)
            BY <1>3, <2>6, <5>1
          <6>3. QED
            BY <4>2, <6>1, <6>2 DEF NewAgg
        <5>2. CASE done[q] < p
          BY <1>3, <2>6, <4>2, <5>2 DEF NewAgg, Accepted, Batch
        <5>3. QED
          BY <5>1, <5>2
      <4>4. QED
        BY <2>1, <2>6, <3>2, <4>3, <1>3 DEF Upserted, IsEvent
    <3>3. QED
      BY <3>1, <3>2
  <2>7. QED
    BY <2>3, <2>4, <2>5, <2>6
<1>6. QED
  BY <1>4, <1>5

-----------------------------------------------------------------------------
(* Every step preserves SinkInv                                              *)

\* Steps that leave the topic, the checkpoints and the database tables alone.
LEMMA QuietStep ==
  ASSUME TypeOK, TypeOK', SinkInv,
         UNCHANGED <<log, base, fresh, done, planned, open, late, agg>>,
         start <= start', start' <= Len(log),
         \A q \in Queries \ DlqQueries : table'[q] = table[q],
         \A q \in Queries : run'[q] \in {"batch", "written"} => open[q],
         \A q \in Queries \ DlqQueries : run'[q] = "written" => run[q] = "written"
  PROVE  SinkInv'
<1>1. \A q, p, n : Expired(q, p, n)' <=> Expired(q, p, n)
  BY DEF Expired, IsEvent
<1>2. \A p : IsEvent(p)' <=> IsEvent(p)
  BY DEF IsEvent
<1>3. \A q : Accepted(q)' = Accepted(q)
  BY <1>1, <1>2 DEF Accepted, Batch
<1>4. OffsetsInOrder'
  BY DEF SinkInv, OffsetsInOrder, TypeOK
<1>5. StateIsOpenWindows'
  BY <1>1, <1>2 DEF SinkInv, StateIsOpenWindows
<1>6. StateIsBacked'
  BY DEF SinkInv, StateIsBacked, Stateful, DlqQueries
<1>7. BatchIsWritten'
  BY <1>3 DEF SinkInv, BatchIsWritten
<1>8. RowsWithinPlan' /\ CountedOnce'
  BY <1>2 DEF SinkInv, RowsWithinPlan, CountedOnce
<1>9. MissingOnlyIfLate'
  BY <1>1, <1>2 DEF SinkInv, MissingOnlyIfLate
<1>10. QED
  BY <1>4, <1>5, <1>6, <1>7, <1>8, <1>9 DEF SinkInv

\* A record is appended: nothing that speaks of the old prefix changes.
LEMMA ProduceStep ==
  ASSUME TypeOK, TypeOK', SinkInv, Produce
  PROVE  SinkInv'
<1> USE DEF topicVars, ckptVars, sinkVars, driverVars, boundVars
<1>1. PICK r \in Records : log' = Append(log, r)
  BY DEF Produce
<1>2. /\ Len(log') = Len(log) + 1
      /\ \A p \in 1 .. Len(log) : log'[p] = log[p]
      /\ Len(log) \in Nat /\ DOMAIN log = 1 .. Len(log)
      /\ DOMAIN log' = 1 .. Len(log')
  BY <1>1 DEF TypeOK
<1>3. UNCHANGED <<start, base, fresh, done, planned, open, late, agg, table, run>>
  BY DEF Produce
<1>4. \A p \in 1 .. Len(log) : IsEvent(p)' <=> IsEvent(p)
  BY <1>2 DEF IsEvent
<1>5. \A p : IsEvent(p) => p \in 1 .. Len(log) /\ IsEvent(p)'
  BY <1>2, <1>4 DEF IsEvent
<1>6. \A q \in Queries : \A p \in 1 .. Len(log) : \A n \in 0 .. Len(log) :
        Expired(q, p, n)' <=> Expired(q, p, n)
  <2> SUFFICES ASSUME NEW q \in Queries, NEW p \in 1 .. Len(log), NEW n \in 0 .. Len(log)
               PROVE  Expired(q, p, n)' <=> Expired(q, p, n)
    OBVIOUS
  <2>1. log'[p] = log[p] /\ base' = base /\ base[q] \in Nat
    BY <1>2, <1>3 DEF TypeOK
  <2>2. \A i \in base[q] + 1 .. n : i \in 1 .. Len(log)
    BY <1>2, <2>1
  <2>3. \A i \in base[q] + 1 .. n : log'[i] = log[i] /\ (IsEvent(i)' <=> IsEvent(i))
    BY <1>2, <1>4, <2>2
  <2>4. QED
    BY <2>1, <2>3 DEF Expired
<1>7. \A q \in Queries :
        /\ base[q] \in Nat /\ late[q] \in 0 .. Len(log) /\ done[q] \in 0 .. Len(log)
        /\ planned[q] \in 0 .. Len(log)
        /\ base[q] + 1 .. done[q] \subseteq 1 .. Len(log)
        /\ Batch(q) \subseteq 1 .. Len(log)
  <2> SUFFICES ASSUME NEW q \in Queries
               PROVE  /\ base[q] \in Nat /\ late[q] \in 0 .. Len(log)
                      /\ done[q] \in 0 .. Len(log) /\ planned[q] \in 0 .. Len(log)
                      /\ base[q] + 1 .. done[q] \subseteq 1 .. Len(log)
                      /\ Batch(q) \subseteq 1 .. Len(log)
    OBVIOUS
  <2>1. /\ base[q] \in Nat /\ late[q] \in Nat /\ done[q] \in Nat /\ planned[q] \in Nat
        /\ late[q] <= done[q] /\ done[q] <= planned[q] /\ planned[q] <= Len(log)
    BY DEF SinkInv, OffsetsInOrder, TypeOK
  <2>2. QED
    BY <1>2, <2>1 DEF Batch
<1>8. OffsetsInOrder'
  BY <1>2, <1>3 DEF SinkInv, OffsetsInOrder, TypeOK
<1>9. StateIsOpenWindows'
  BY <1>3, <1>4, <1>6, <1>7 DEF SinkInv, StateIsOpenWindows
<1>10. StateIsBacked'
  BY <1>3 DEF SinkInv, StateIsBacked
<1>11. \A q \in Queries : Accepted(q)' = Accepted(q)
  BY <1>3, <1>4, <1>6, <1>7 DEF Accepted, Batch
<1>12. BatchIsWritten'
  BY <1>3, <1>11 DEF SinkInv, BatchIsWritten
<1>13. RowsWithinPlan' /\ CountedOnce'
  BY <1>3, <1>5 DEF SinkInv, RowsWithinPlan, CountedOnce
<1>14. MissingOnlyIfLate'
  <2> SUFFICES ASSUME NEW q \in Queries \ DlqQueries, NEW p \in base[q] + 1 .. done[q],
                      IsEvent(p)', table[q][p] = 0
               PROVE  q \in Stateful /\ Expired(q, p, p - 1)'
    BY <1>3 DEF MissingOnlyIfLate
  <2>1. p \in 1 .. Len(log) /\ p - 1 \in 0 .. Len(log) /\ IsEvent(p)
    BY <1>4, <1>7
  <2>2. QED
    BY <1>6, <2>1 DEF SinkInv, MissingOnlyIfLate
<1>15. QED
  BY <1>8, <1>9, <1>10, <1>12, <1>13, <1>14 DEF SinkInv

\* The checkpoints are lost; the tables stay as they are.
LEMMA RedeployStep ==
  ASSUME TypeOK, TypeOK', SinkInv, Redeploy
  PROVE  SinkInv'
<1> USE DEF topicVars, ckptVars, sinkVars, driverVars, boundVars
<1>1. UNCHANGED <<log, start, table>>
  BY DEF Redeploy
<1>2. \A p : IsEvent(p)' <=> IsEvent(p)
  BY <1>1 DEF IsEvent
<1>3. \A q \in Queries :
        /\ base'[q] = 0 /\ done'[q] = 0 /\ planned'[q] = 0 /\ late'[q] = 0
        /\ fresh'[q] /\ ~ open'[q] /\ agg'[q] = {} /\ run'[q] = "off"
  BY DEF Redeploy, Exit, AllOff
<1>4. OffsetsInOrder'
  BY <1>1, <1>3 DEF OffsetsInOrder, SinkInv, TypeOK
<1>5. StateIsOpenWindows' /\ StateIsBacked'
  BY <1>3 DEF StateIsOpenWindows, StateIsBacked
<1>6. BatchIsWritten' /\ RowsWithinPlan' /\ MissingOnlyIfLate'
  BY <1>3 DEF BatchIsWritten, RowsWithinPlan, MissingOnlyIfLate
<1>7. CountedOnce'
  BY <1>1, <1>2 DEF SinkInv, CountedOnce
<1>8. QED
  BY <1>4, <1>5, <1>6, <1>7 DEF SinkInv

\* A batch is planned, with data or without.
LEMMA PlanStep ==
  ASSUME TypeOK, TypeOK', SinkInv, NEW q \in Queries,
         PlanBatch(q) \/ PlanNoDataBatch(q)
  PROVE  SinkInv'
<1> USE DEF topicVars, sinkVars, boundVars, Set
<1>1. UNCHANGED <<log, start, table, agg>>
  BY DEF PlanBatch, PlanNoDataBatch
<1>2. \A p : IsEvent(p)' <=> IsEvent(p)
  BY <1>1 DEF IsEvent
<1>3. \A r \in Queries \ {q} :
        /\ base'[r] = base[r] /\ fresh'[r] = fresh[r] /\ done'[r] = done[r]
        /\ planned'[r] = planned[r] /\ open'[r] = open[r] /\ late'[r] = late[r]
        /\ run'[r] = run[r]
  <2> SUFFICES ASSUME NEW r \in Queries \ {q}
               PROVE  /\ base'[r] = base[r] /\ fresh'[r] = fresh[r] /\ done'[r] = done[r]
                      /\ planned'[r] = planned[r] /\ open'[r] = open[r] /\ late'[r] = late[r]
                      /\ run'[r] = run[r]
    OBVIOUS
  <2>1. CASE PlanBatch(q)
    BY <2>1 DEF PlanBatch, TypeOK
  <2>2. CASE PlanNoDataBatch(q)
    BY <2>2 DEF PlanNoDataBatch, TypeOK
  <2>3. QED
    BY <2>1, <2>2
<1>4. run'[q] = "batch" /\ open'[q] /\ ~ fresh'[q] /\ ~ open[q]
  BY DEF PlanBatch, PlanNoDataBatch, TypeOK
<1>5. ~ fresh[q] => base'[q] = base[q] /\ done'[q] = done[q] /\ late'[q] = late[q]
  BY DEF PlanBatch, PlanNoDataBatch, TypeOK
<1>6. fresh[q] => /\ base'[q] = start /\ done'[q] = start /\ late'[q] = start
                  /\ planned'[q] = Len(log) /\ start < Len(log)
  BY DEF PlanBatch, PlanNoDataBatch, TypeOK
<1>7. planned'[q] = Len(log) \/ (~ fresh[q] /\ planned'[q] = planned[q])
  BY DEF PlanBatch, PlanNoDataBatch, TypeOK
<1>8. \A r \in Queries : base'[r] = base[r] =>
        \A p, n : Expired(r, p, n)' <=> Expired(r, p, n)
  BY <1>1, <1>2 DEF Expired
<1>9. Len(log) \in Nat /\ DOMAIN log = 1 .. Len(log)
  BY DEF TypeOK
<1>10. OffsetsInOrder'
  <2>1. OffsetsInOrder
    BY DEF SinkInv
  <2>2. /\ start \in Nat /\ base[q] \in Nat /\ late[q] \in Nat /\ done[q] \in Nat
        /\ planned[q] \in Nat
    BY DEF TypeOK
  <2>3. /\ base'[q] <= start /\ base'[q] <= late'[q] /\ late'[q] <= done'[q]
        /\ done'[q] <= planned'[q] /\ planned'[q] <= Len(log)
    BY <1>5, <1>6, <1>7, <1>9, <2>1, <2>2 DEF OffsetsInOrder
  <2>4. QED
    BY <1>1, <1>3, <1>4, <2>1, <2>3 DEF OffsetsInOrder
<1>11. StateIsOpenWindows'
  <2> SUFFICES ASSUME NEW r \in Queries \cap Stateful
               PROVE  (agg[r] = {p \in base[r] + 1 .. done[r] :
                                   IsEvent(p) /\ ~ Expired(r, p, late[r])})'
    BY DEF StateIsOpenWindows
  <2>1. CASE r # q \/ ~ fresh[q]
    <3>1. /\ base'[r] = base[r] /\ done'[r] = done[r] /\ late'[r] = late[r]
          /\ agg'[r] = agg[r]
      BY <1>1, <1>3, <1>5, <2>1
    <3>2. \A p : Expired(r, p, late[r])' <=> Expired(r, p, late[r])
      BY <1>1, <1>2, <3>1 DEF Expired
    <3>3. QED
      BY <1>2, <3>1, <3>2 DEF SinkInv, StateIsOpenWindows
  <2>2. CASE r = q /\ fresh[q]
    <3>1. done[q] = 0 /\ base[q] = 0
      BY <2>2 DEF SinkInv, OffsetsInOrder, TypeOK
    <3>2. agg[q] = {}
      BY <2>2, <3>1 DEF SinkInv, StateIsOpenWindows
    <3>3. base'[q] + 1 .. done'[q] = {}
      BY <1>6, <2>2 DEF TypeOK
    <3>4. QED
      BY <1>1, <2>2, <3>2, <3>3
  <2>3. QED
    BY <2>1, <2>2
<1>12. StateIsBacked'
  BY <1>1 DEF SinkInv, StateIsBacked
<1>13. BatchIsWritten'
  <2>1. \A r \in Queries \ {q} : Accepted(r)' = Accepted(r)
    BY <1>2, <1>3, <1>8 DEF Accepted, Batch
  <2>2. QED
    BY <1>1, <1>3, <1>4, <2>1 DEF SinkInv, BatchIsWritten
<1>14. CountedOnce'
  BY <1>1, <1>2 DEF SinkInv, CountedOnce
<1>15. RowsWithinPlan'
  <2>1. \A r \in Queries \ DlqQueries : \A p \in Positions :
          table[r][p] # 0 => p <= Len(log)
    BY <1>9 DEF SinkInv, CountedOnce, IsEvent
  <2>2. QED
    BY <1>1, <1>3, <1>7, <2>1 DEF SinkInv, RowsWithinPlan
<1>16. MissingOnlyIfLate'
  <2> SUFFICES ASSUME NEW r \in Queries \ DlqQueries, NEW p \in base'[r] + 1 .. done'[r],
                      IsEvent(p)', table[r][p] = 0
               PROVE  r \in Stateful /\ Expired(r, p, p - 1)'
    BY <1>1 DEF MissingOnlyIfLate
  <2>1. r # q \/ ~ fresh[q]
    BY <1>6 DEF TypeOK
  <2>2. QED
    BY <1>2, <1>3, <1>5, <1>8, <2>1 DEF SinkInv, MissingOnlyIfLate
<1>17. QED
  BY <1>10, <1>11, <1>12, <1>13, <1>14, <1>15, <1>16 DEF SinkInv

\* A batch takes effect in its table; the query may still fail right after.
LEMMA WriteStep ==
  ASSUME TypeOK, TypeOK', SinkInv, NEW q \in Queries \ DlqQueries, run[q] = "batch",
         UNCHANGED <<log, start, base, fresh, done, planned, open, late, agg>>,
         table' = [table EXCEPT ![q] = Effect(q)],
         NEW v \in {"written", "failed"}, run' = [run EXCEPT ![q] = v]
  PROVE  SinkInv'
<1>1. \A r, p, n : Expired(r, p, n)' <=> Expired(r, p, n)
  BY DEF Expired, IsEvent
<1>2. \A p : IsEvent(p)' <=> IsEvent(p)
  BY DEF IsEvent
<1>3. \A r : Accepted(r)' = Accepted(r)
  BY <1>1, <1>2 DEF Accepted, Batch
<1>4. open[q]
  BY DEF SinkInv, OffsetsInOrder
<1>5. /\ \A p \in Accepted(q) : Effect(q)[p] = 1
      /\ \A p \in Positions : Effect(q)[p] # 0 =>
           Effect(q)[p] = 1 /\ IsEvent(p) /\ p <= planned[q]
      /\ q \in Stateful => \A p \in agg[q] : Effect(q)[p] = 1
      /\ \A p \in Positions : base[q] < p /\ table[q][p] # 0 => Effect(q)[p] # 0
  BY <1>4, EffectFacts
<1>6. table'[q] = Effect(q) /\ run'[q] = v
  BY DEF TypeOK
<1>7. \A r \in Queries \ {q} : table'[r] = table[r] /\ run'[r] = run[r]
  BY DEF TypeOK
<1>8. OffsetsInOrder'
  BY <1>4, <1>6, <1>7 DEF SinkInv, OffsetsInOrder
<1>9. StateIsOpenWindows'
  BY <1>1, <1>2 DEF SinkInv, StateIsOpenWindows
<1>10. StateIsBacked'
  BY <1>5, <1>6, <1>7 DEF SinkInv, StateIsBacked
<1>11. BatchIsWritten'
  BY <1>3, <1>5, <1>6, <1>7 DEF SinkInv, BatchIsWritten
<1>12. RowsWithinPlan' /\ CountedOnce'
  BY <1>2, <1>5, <1>6, <1>7 DEF SinkInv, RowsWithinPlan, CountedOnce
<1>13. MissingOnlyIfLate'
  <2> SUFFICES ASSUME NEW r \in Queries \ DlqQueries, NEW p \in base[r] + 1 .. done[r],
                      IsEvent(p), table'[r][p] = 0
               PROVE  r \in Stateful /\ Expired(r, p, p - 1)
    BY <1>1, <1>2 DEF MissingOnlyIfLate
  <2>1. p \in Positions /\ base[r] < p
    BY DEF SinkInv, OffsetsInOrder, TypeOK, Positions
  <2>2. table[r][p] = 0
    BY <1>5, <1>6, <1>7, <2>1
  <2>3. QED
    BY <2>2 DEF SinkInv, MissingOnlyIfLate
<1>14. QED
  BY <1>8, <1>9, <1>10, <1>11, <1>12, <1>13 DEF SinkInv

\* A batch is committed: its events join the state store, closed windows leave.
LEMMA CommitStep ==
  ASSUME TypeOK, TypeOK', SinkInv, NEW q \in Queries, CommitBatch(q)
  PROVE  SinkInv'
<1> USE DEF topicVars, sinkVars, boundVars, Set
<1>1. /\ UNCHANGED <<log, start, base, fresh, planned, table>>
      /\ run[q] = "written"
  BY DEF CommitBatch
<1>2. \A r, p, n : Expired(r, p, n)' <=> Expired(r, p, n)
  BY <1>1 DEF Expired, IsEvent
<1>3. \A p : IsEvent(p)' <=> IsEvent(p)
  BY <1>1 DEF IsEvent
<1>4. \A r \in Queries \ {q} :
        /\ done'[r] = done[r] /\ open'[r] = open[r] /\ late'[r] = late[r]
        /\ agg'[r] = agg[r] /\ run'[r] = run[r]
  BY DEF CommitBatch, TypeOK
<1>5. /\ done'[q] = planned[q] /\ ~ open'[q] /\ late'[q] = done[q] /\ run'[q] = "idle"
      /\ q \in Stateful => agg'[q] = {p \in NewAgg(q) : ~ Expired(q, p, done[q])}
  BY DEF CommitBatch, NextLate, Retained, TypeOK
<1>6. /\ base[q] \in Nat /\ late[q] \in Nat /\ done[q] \in Nat /\ planned[q] \in Nat
      /\ base[q] <= late[q] /\ late[q] <= done[q] /\ done[q] <= planned[q]
      /\ planned[q] <= Len(log) /\ open[q] /\ ~ fresh[q]
  BY <1>1 DEF SinkInv, OffsetsInOrder, TypeOK
<1>7. OffsetsInOrder'
  BY <1>1, <1>4, <1>5, <1>6, SMTT(30) DEF SinkInv, OffsetsInOrder, TypeOK
<1>8. \A p : Expired(q, p, late[q]) => Expired(q, p, done[q])
  BY <1>6, ExpiredMonotone DEF TypeOK
<1>9. StateIsOpenWindows'
  <2> SUFFICES ASSUME NEW r \in Queries \cap Stateful
               PROVE  agg'[r] = {p \in base[r] + 1 .. done'[r] :
                                   IsEvent(p) /\ ~ Expired(r, p, late'[r])}
    BY <1>1, <1>2, <1>3 DEF StateIsOpenWindows
  <2>1. CASE r # q
    BY <1>4, <2>1 DEF SinkInv, StateIsOpenWindows
  <2>2. CASE r = q
    <3>1. agg[q] = {p \in base[q] + 1 .. done[q] : IsEvent(p) /\ ~ Expired(q, p, late[q])}
      BY <2>2 DEF SinkInv, StateIsOpenWindows
    <3>2. NewAgg(q) = {p \in base[q] + 1 .. planned[q] :
                         IsEvent(p) /\ ~ Expired(q, p, late[q])}
      BY <1>6, <2>2, <3>1 DEF NewAgg, Accepted, Batch
    <3>3. agg'[q] = {p \in base[q] + 1 .. planned[q] :
                       IsEvent(p) /\ ~ Expired(q, p, done[q])}
      BY <1>5, <1>8, <2>2, <3>2
    <3>4. QED
      BY <1>5, <2>2, <3>3
  <2>3. QED
    BY <2>1, <2>2
<1>10. StateIsBacked'
  <2>1. q \in Stateful => \A p \in agg'[q] : table[q][p] = 1
    BY <1>1, <1>5 DEF SinkInv, StateIsBacked, BatchIsWritten, NewAgg, Stateful, DlqQueries
  <2>2. QED
    BY <1>1, <1>4, <2>1 DEF SinkInv, StateIsBacked
<1>11. BatchIsWritten'
  <2>1. \A r \in Queries \ {q} : Accepted(r)' = Accepted(r)
    BY <1>1, <1>2, <1>3, <1>4 DEF Accepted, Batch
  <2>2. QED
    BY <1>1, <1>4, <1>5, <2>1 DEF SinkInv, BatchIsWritten
<1>12. RowsWithinPlan' /\ CountedOnce'
  BY <1>1, <1>3 DEF SinkInv, RowsWithinPlan, CountedOnce
<1>13. MissingOnlyIfLate'
  <2> SUFFICES ASSUME NEW r \in Queries \ DlqQueries, NEW p \in base[r] + 1 .. done'[r],
                      IsEvent(p), table[r][p] = 0
               PROVE  r \in Stateful /\ Expired(r, p, p - 1)
    BY <1>1, <1>2, <1>3 DEF MissingOnlyIfLate
  <2>1. CASE r # q \/ p <= done[q]
    <3>1. p \in base[r] + 1 .. done[r]
      BY <1>4, <1>5, <1>6, <2>1
    <3>2. QED
      BY <3>1 DEF SinkInv, MissingOnlyIfLate
  <2>2. CASE r = q /\ done[q] < p
    <3>1. p \in Batch(q) /\ p \notin Accepted(q)
      BY <1>1, <1>5, <1>6, <2>2 DEF SinkInv, BatchIsWritten, Batch
    <3>2. q \in Stateful /\ Expired(q, p, late[q])
      BY <3>1 DEF Accepted
    <3>3. Expired(q, p, p - 1)
      <4>1. p - 1 \in Nat /\ late[q] <= p - 1
        BY <1>1, <1>5, <1>6, <2>2
      <4>2. QED
        BY <1>6, <3>2, <4>1, ExpiredMonotone DEF TypeOK
    <3>4. QED
      BY <2>2, <3>2, <3>3
  <2>3. QED
    BY <1>6, <2>1, <2>2
<1>14. QED
  BY <1>7, <1>9, <1>10, <1>11, <1>12, <1>13 DEF SinkInv

-----------------------------------------------------------------------------
(* The theorems                                                              *)

\* SinkInv is an invariant: the checkpoints, the state stores and the tables
\* agree in every reachable state.
THEOREM SinkInvariant == Spec => []SinkInv
<1>1. Init => SinkInv
  <2> SUFFICES ASSUME Init PROVE SinkInv
    OBVIOUS
  <2>1. Len(log) = 0 /\ start = 0
    BY DEF Init
  <2>2. \A q \in Queries :
          /\ base[q] = 0 /\ done[q] = 0 /\ planned[q] = 0 /\ late[q] = 0
          /\ fresh[q] /\ ~ open[q] /\ agg[q] = {} /\ run[q] = "off"
          /\ \A p \in Positions : table[q][p] = 0
    BY DEF Init, AllOff
  <2>3. OffsetsInOrder
    BY <2>1, <2>2 DEF OffsetsInOrder
  <2>4. StateIsOpenWindows /\ StateIsBacked /\ MissingOnlyIfLate
    BY <2>2 DEF StateIsOpenWindows, StateIsBacked, MissingOnlyIfLate
  <2>5. BatchIsWritten /\ RowsWithinPlan /\ CountedOnce
    BY <2>2 DEF BatchIsWritten, RowsWithinPlan, CountedOnce
  <2>6. QED
    BY <2>3, <2>4, <2>5 DEF SinkInv
<1>2. TypeOK /\ TypeOK' /\ SinkInv /\ [Next]_vars => SinkInv'
  <2> SUFFICES ASSUME TypeOK, TypeOK', SinkInv, [Next]_vars
               PROVE  SinkInv'
    OBVIOUS
  <2> USE DEF ckptVars, topicVars, sinkVars, driverVars, boundVars, Set
  <2>0. Len(log) \in Nat /\ start \in Nat /\ start <= Len(log)
        /\ \A q \in Queries : run[q] \in {"batch", "written"} => open[q]
    BY DEF TypeOK, SinkInv, OffsetsInOrder
  <2>1. CASE Produce
    BY <2>1, ProduceStep
  <2>2. CASE TrimLog
    <3>1. start <= start' /\ start' <= Len(log)
      BY <2>0, <2>2 DEF TrimLog
    <3>2. QED
      BY <2>0, <2>2, <3>1, QuietStep DEF TrimLog
  <2>3. CASE Redeploy
    BY <2>3, RedeployStep
  <2>4. CASE DriverKilled \/ \E s \in Sinks : SinkDown(s) \/ SinkBack(s)
    BY <2>0, <2>4, QuietStep DEF DriverKilled, Exit, AllOff, SinkDown, SinkBack
  <2>5. CASE Boot
    <3>1. \A q \in Queries : run'[q] \in {run[q], "idle", "off"}
      BY <2>5 DEF Boot, StartSession, StartPostgresSinks, StartClickhouseSinks,
                  StartDlqSink, BootFails, DriverExits, Exit, AllOff, Start
    <3>2. UNCHANGED <<log, start, base, fresh, done, planned, open, late, agg, table>>
      BY <2>5 DEF Boot, StartSession, StartPostgresSinks, StartClickhouseSinks,
                  StartDlqSink, BootFails, DriverExits
    <3>3. QED
      BY <2>0, <3>1, <3>2, QuietStep
  <2>6. ASSUME NEW q \in Queries, Query(q) \/ TransientFailure(q)
        PROVE  SinkInv'
    <3>1. CASE PlanBatch(q) \/ PlanNoDataBatch(q)
      BY <3>1, PlanStep
    <3>2. CASE ReplayBatch(q) \/ OffsetsLost(q) \/ BatchFails(q)
      <4>1. UNCHANGED <<log, start, base, fresh, done, planned, open, late, agg, table>>
        BY <3>2 DEF ReplayBatch, OffsetsLost, BatchFails
      <4>2. /\ \A r \in Queries : run'[r] \in {"batch", "written"} => open[r]
            /\ \A r \in Queries : run'[r] = "written" => run[r] = "written"
        <5>1. /\ \A r \in Queries \ {q} : run'[r] = run[r]
              /\ run'[q] # "written" /\ (run'[q] = "batch" => open[q])
          <6>1. CASE ReplayBatch(q)
            BY <2>0, <6>1 DEF ReplayBatch, TypeOK
          <6>2. CASE OffsetsLost(q) \/ BatchFails(q)
            BY <2>0, <6>2 DEF OffsetsLost, BatchFails, TypeOK
          <6>3. QED
            BY <3>2, <6>1, <6>2
        <5>2. QED
          BY <2>0, <5>1
      <4>3. QED
        BY <2>0, <4>1, <4>2, QuietStep
    <3>3. CASE WriteBatch(q)
      <4>1. q \in Queries \ DlqQueries /\ run[q] = "batch"
        BY <3>3 DEF WriteBatch
      <4>2. QED
        BY <3>3, <4>1, WriteStep DEF WriteBatch
    <3>4. ASSUME NEW p \in Positions, SendDlq(q, p)
          PROVE  SinkInv'
      <4>1. \A r \in Queries \ DlqQueries : table'[r] = table[r]
        BY <3>4 DEF SendDlq, TypeOK
      <4>2. QED
        BY <2>0, <3>4, <4>1, QuietStep DEF SendDlq
    <3>5. CASE FlushDlq(q)
      <4>1. \A r \in Queries : run'[r] \in {"batch", "written"} => open[r]
        BY <2>0, <3>5 DEF FlushDlq, TypeOK
      <4>2. \A r \in Queries \ DlqQueries : run'[r] = "written" => run[r] = "written"
        BY <3>5 DEF FlushDlq, TypeOK
      <4>3. QED
        BY <2>0, <3>5, <4>1, <4>2, QuietStep DEF FlushDlq
    <3>6. CASE CommitBatch(q)
      BY <3>6, CommitStep
    <3>7. CASE TransientFailure(q)
      <4>1. CASE UNCHANGED table
        <5>1. /\ \A r \in Queries : run'[r] \in {"batch", "written"} => open[r]
              /\ \A r \in Queries : run'[r] = "written" => run[r] = "written"
          BY <2>0, <3>7 DEF TransientFailure, TypeOK
        <5>2. QED
          BY <2>0, <3>7, <4>1, <5>1, QuietStep DEF TransientFailure
      <4>2. CASE q \notin DlqQueries /\ table' = [table EXCEPT ![q] = Effect(q)]
        BY <3>7, <4>2, WriteStep DEF TransientFailure
      <4>3. QED
        BY <3>7, <4>1, <4>2 DEF TransientFailure
    <3>8. QED
      BY <2>6, <3>1, <3>2, <3>3, <3>4, <3>5, <3>6, <3>7 DEF Query
  <2>7. CASE UNCHANGED vars
    BY <2>0, <2>7, QuietStep DEF vars
  <2>8. QED
    BY <2>1, <2>2, <2>3, <2>4, <2>5, <2>6, <2>7 DEF Next, Environment
<1>3. QED
  BY <1>1, <1>2, TypeCorrect, PTL DEF Spec

\* No event is missing from a sink unless it was late when it was produced.
THEOREM SinksComplete == Spec => []MissingOnlyIfLate
<1>1. SinkInv => MissingOnlyIfLate
  BY DEF SinkInv
<1>2. QED
  BY <1>1, SinkInvariant, PTL

\* No sink counts an event twice, whatever is replayed.
THEOREM SinksExact == Spec => []CountedOnce
<1>1. SinkInv => CountedOnce
  BY DEF SinkInv
<1>2. QED
  BY <1>1, SinkInvariant, PTL

\* A window ends after each of its events.
LEMMA WindowsEndLater ==
  ASSUME NEW t \in Nat
  PROVE  t < WindowEnd(t) /\ WindowEnd(t) \in Nat
<1>1. WindowLen \in Nat /\ WindowLen > 0
  BY TimeAssumption
<1>2. /\ t = WindowLen * (t \div WindowLen) + (t % WindowLen)
      /\ t % WindowLen \in 0 .. WindowLen - 1 /\ t \div WindowLen \in Nat
  BY <1>1
<1>3. WindowEnd(t) = WindowLen * (t \div WindowLen) + WindowLen
  BY <1>1, <1>2 DEF WindowEnd, Window
<1>4. WindowLen * (t \div WindowLen) \in Nat
  BY <1>1, <1>2
<1>5. QED
  BY <1>1, <1>2, <1>3, <1>4

\* No watermark passes the window of a punctual event before it arrives.
LEMMA PunctualIsOpen ==
  ASSUME TypeOK, NEW q \in Queries, NEW p \in Nat, IsEvent(p), Punctual(p)
  PROVE  ~ Expired(q, p, p - 1)
<1>1. SUFFICES ASSUME NEW i \in base[q] + 1 .. p - 1, IsEvent(i),
                      WindowEnd(log[p].ts) + Delay <= log[i].ts
               PROVE  FALSE
  BY DEF Expired
<1>2. base[q] \in Nat /\ Delay \in Nat
  BY TimeAssumption DEF TypeOK
<1>3. i \in 1 .. p - 1
  BY <1>2
<1>4. log[i].ts \in Nat /\ log[p].ts \in Nat
  BY <1>1, RecordsAssumption DEF TypeOK, IsEvent
<1>5. log[i].ts <= log[p].ts + Delay
  BY <1>1, <1>3 DEF Punctual
<1>6. log[p].ts < WindowEnd(log[p].ts) /\ WindowEnd(log[p].ts) \in Nat
  BY <1>4, WindowsEndLater
<1>7. QED
  BY <1>1, <1>2, <1>4, <1>5, <1>6

\* An event no more than Delay behind the events before it is counted, once,
\* in every sink that has committed it, for every window length and batching.
THEOREM PunctualEventsArrive == Spec => []PunctualEventsCounted
<1>1. TypeOK /\ SinkInv => PunctualEventsCounted
  <2> SUFFICES ASSUME TypeOK, SinkInv, NEW q \in Queries \ DlqQueries,
                      NEW p \in base[q] + 1 .. done[q], IsEvent(p), Punctual(p)
               PROVE  table[q][p] = 1
    BY DEF PunctualEventsCounted
  <2>1. p \in Nat /\ p \in Positions
    BY DEF TypeOK, IsEvent, Positions
  <2>2. ~ Expired(q, p, p - 1)
    BY <2>1, PunctualIsOpen
  <2>3. table[q][p] # 0
    BY <2>2 DEF SinkInv, MissingOnlyIfLate
  <2>4. QED
    BY <2>1, <2>3 DEF SinkInv, CountedOnce
<1>2. QED
  BY <1>1, TypeCorrect, SinkInvariant, PTL

\* Every event of the topic is punctual.
AllPunctual == \A p \in DOMAIN log : IsEvent(p) => Punctual(p)

\* What the documents say of the two stores is true of a topic whose events
\* are all punctual, as those of one producer are, and of which retention has
\* removed nothing: queries that have committed all of it hold the same rows.
THEOREM PunctualStoresAgree == Spec => [](AllPunctual /\ start = 0 => SinksAligned)
<1>1. TypeOK /\ SinkInv /\ PunctualEventsCounted => (AllPunctual /\ start = 0 => SinksAligned)
  <2> SUFFICES ASSUME TypeOK, SinkInv, PunctualEventsCounted, AllPunctual, start = 0,
                      NEW q \in Queries \cap {"page_views_1m_pg", "page_views_1m_ch"},
                      NEW r \in Queries \cap {"page_views_1m_pg", "page_views_1m_ch"},
                      done[q] = Len(log), done[r] = Len(log)
               PROVE  table[q] = table[r]
    BY DEF SinksAligned
  <2>1. q \in Queries \ DlqQueries /\ r \in Queries \ DlqQueries
    BY DEF DlqQueries
  <2>2. ASSUME NEW s \in Queries \ DlqQueries, done[s] = Len(log), NEW p \in Positions
        PROVE  table[s][p] = IF IsEvent(p) THEN 1 ELSE 0
    <3>1. base[s] = 0 /\ table[s][p] \in Nat
      BY DEF TypeOK, SinkInv, OffsetsInOrder
    <3>2. CASE IsEvent(p)
      <4>1. p \in base[s] + 1 .. done[s] /\ Punctual(p)
        BY <2>2, <3>1, <3>2 DEF AllPunctual, IsEvent, TypeOK
      <4>2. QED
        BY <3>2, <4>1 DEF PunctualEventsCounted
    <3>3. CASE ~ IsEvent(p)
      BY <3>1, <3>3 DEF SinkInv, CountedOnce
    <3>4. QED
      BY <3>2, <3>3
  <2>3. \A p \in Positions : table[q][p] = table[r][p]
    BY <2>1, <2>2
  <2>4. table[q] \in [Positions -> Nat] /\ table[r] \in [Positions -> Nat]
    BY DEF TypeOK
  <2>5. QED
    BY <2>3, <2>4
<1>2. QED
  BY <1>1, TypeCorrect, SinkInvariant, PunctualEventsArrive, PTL

\* The state store always holds exactly the open part of the committed prefix.
THEOREM StateTracksOpenWindows == Spec => []StateIsOpenWindows
<1>1. SinkInv => StateIsOpenWindows
  BY DEF SinkInv
<1>2. QED
  BY <1>1, SinkInvariant, PTL

\* No step takes an event the topic still has out of a row: not a replay, and
\* not the first batches of a new checkpoint either.
THEOREM RowsOnlyGrow == Spec => RowsNeverShrink
<1> DEFINE Kept == \A q \in Queries : \A p \in Positions :
                     p > start /\ table[q][p] # 0 => table'[q][p] # 0
<1>1. TypeOK /\ SinkInv /\ [Next]_vars => Kept
  <2> SUFFICES ASSUME TypeOK, SinkInv, [Next]_vars
               PROVE  Kept
    OBVIOUS
  <2> USE DEF ckptVars, topicVars, sinkVars, driverVars, boundVars, Set
  <2>1. /\ start \in Nat
        /\ \A q \in Queries : base[q] \in Nat /\ base[q] <= start
        /\ \A q \in Queries : run[q] = "batch" => open[q]
    BY DEF TypeOK, SinkInv, OffsetsInOrder
  <2>2. CASE UNCHANGED table
    BY <2>2
  <2>3. ASSUME NEW q \in Queries \ DlqQueries, run[q] = "batch",
               table' = [table EXCEPT ![q] = Effect(q)]
        PROVE  Kept
    <3>1. \A p \in Positions : p > start /\ table[q][p] # 0 => Effect(q)[p] # 0
      BY <2>1, <2>3, EffectFacts DEF Positions
    <3>2. table'[q] = Effect(q) /\ \A r \in Queries \ {q} : table'[r] = table[r]
      BY <2>3 DEF TypeOK
    <3>3. QED
      BY <3>1, <3>2
  <2>4. ASSUME NEW q \in Queries, NEW p \in Positions, SendDlq(q, p)
        PROVE  Kept
    <3>1. \A r \in Queries : \A x \in Positions : table'[r][x] \in {table[r][x], table[r][x] + 1}
      BY <2>4 DEF SendDlq, TypeOK
    <3>2. \A r \in Queries : \A x \in Positions : table[r][x] \in Nat
      BY DEF TypeOK
    <3>3. QED
      BY <3>1, <3>2
  <2>5. \/ UNCHANGED table
        \/ \E q \in Queries \ DlqQueries :
             run[q] = "batch" /\ table' = [table EXCEPT ![q] = Effect(q)]
        \/ \E q \in Queries, p \in Positions : SendDlq(q, p)
    BY DEF Next, vars, Environment, Produce, TrimLog, DriverKilled, Redeploy,
           SinkDown, SinkBack, Boot, StartSession, StartPostgresSinks,
           StartClickhouseSinks, StartDlqSink, BootFails, DriverExits, Query,
           PlanBatch, PlanNoDataBatch, ReplayBatch, OffsetsLost, WriteBatch,
           FlushDlq, BatchFails, CommitBatch, TransientFailure
  <2>6. QED
    BY <2>2, <2>3, <2>4, <2>5
<1>2. QED
  BY <1>1, TypeCorrect, SinkInvariant, PTL DEF Spec, RowsNeverShrink

=============================================================================
