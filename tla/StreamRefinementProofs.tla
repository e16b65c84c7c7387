----------------------- MODULE StreamRefinementProofs -----------------------
(***************************************************************************)
(* Two results on what the queries of the driver do together, for every    *)
(* set of queries and records and every bound: the sinks implement         *)
(* ExactlyOnceSink, and every message both queries have committed is in    *)
(* olap.clicks or in clicks.dlq, never in both.                            *)
(***************************************************************************)
EXTENDS StreamRefinement, StreamJobProofs

-----------------------------------------------------------------------------
(* The refinement                                                            *)

\* Writing the batch of a query computes the same rows as long as its
\* checkpoint, its table and the records up to its planned offset are kept.
SameQuery(q) ==
  /\ base'[q] = base[q] /\ done'[q] = done[q] /\ planned'[q] = planned[q]
  /\ open'[q] = open[q] /\ late'[q] = late[q] /\ agg'[q] = agg[q]
  /\ table'[q] = table[q]

\* Between the write of a batch and its commit nothing is left to be written.
WrittenHasLanded == \A q \in SinkQueries : run[q] = "written" => Landed(q)

\* Records that arrive later do not change what the open batch writes.
LEMMA EffectKept ==
  ASSUME TypeOK, TypeOK', SinkInv, NEW q \in SinkQueries, SameQuery(q),
         Len(log') >= Len(log), \A p \in DOMAIN log : log'[p] = log[p]
  PROVE  /\ Landed(q)' <=> Landed(q)
         /\ Sunk'[q] = Sunk[q]
<1> USE DEF TypeOK, SameQuery, SinkQueries, Positions
<1>1. /\ base[q] <= late[q] /\ late[q] <= done[q] /\ done[q] <= planned[q]
      /\ planned[q] <= Len(log)
  BY DEF SinkInv, OffsetsInOrder
<1>2. ASSUME NEW p \in 1 .. planned[q]
      PROVE  p \in DOMAIN log /\ p \in DOMAIN log' /\ log'[p] = log[p]
  <2>1. Len(log) \in Nat /\ Len(log') \in Nat /\ planned[q] <= Len(log')
    BY <1>1
  <2>2. p \in 1 .. Len(log) /\ p \in 1 .. Len(log')
    BY <1>1, <1>2, <2>1
  <2>3. QED
    BY <2>2, SMTT(30)
<1>3. Batch(q)' = Batch(q) /\ \A p \in Batch(q) : p \in 1 .. planned[q]
  BY <1>1 DEF Batch
<1>4. \A p \in 1 .. planned[q] : IsEvent(p)' <=> IsEvent(p)
  BY <1>2 DEF IsEvent
<1>5. ASSUME NEW p \in 1 .. planned[q]
      PROVE  Expired(q, p, late[q])' <=> Expired(q, p, late[q])
  <2>1. \A i \in base[q] + 1 .. late[q] : i \in 1 .. planned[q]
    BY <1>1, SMTT(30)
  <2>2. \A i \in base[q] + 1 .. late[q] :
          IsEvent(i)' /\ WindowEnd(log'[p].ts) + Delay <= log'[i].ts
          <=> IsEvent(i) /\ WindowEnd(log[p].ts) + Delay <= log[i].ts
    BY <1>2, <1>4, <1>5, <2>1
  <2>3. QED
    BY <2>2 DEF Expired, WindowEnd, Window
<1>6. Accepted(q)' = Accepted(q)
  BY <1>3, <1>4, <1>5 DEF Accepted
<1>7. \A p \in Accepted(q) : p \in 1 .. planned[q]
  BY <1>3 DEF Accepted
<1>8. Touched(q)' = Touched(q)
  BY <1>2, <1>6, <1>7, SMTT(30) DEF Touched, Window
<1>9. NewAgg(q)' = NewAgg(q)
  BY <1>6 DEF NewAgg
<1>10. ASSUME open[q] PROVE Effect(q)' = Effect(q)
  <2>1. CASE q \notin Stateful
    BY <1>6, <2>1 DEF Effect, Inserted
  <2>2. CASE q \in Stateful
    <3>1. \A p \in Positions : p \notin DOMAIN log => table[q][p] = 0
      BY DEF SinkInv, CountedOnce, IsEvent
    <3>2. \A p \in NewAgg(q) : p \in 1 .. planned[q]
      BY <1>1, <1>7, <2>2 DEF NewAgg, SinkInv, StateIsOpenWindows
    <3>3. ASSUME NEW p \in Positions PROVE (Upserted(q)')[p] = Upserted(q)[p]
      <4>1. CASE p \in DOMAIN log
        <5>1. log'[p] = log[p] /\ p \in DOMAIN log'
          BY <4>1, SMTT(30)
        <5>2. QED
          BY <1>8, <1>9, <4>1, <5>1 DEF Upserted, Window
      <4>2. CASE p \notin DOMAIN log
        <5>1. p \notin NewAgg(q) /\ table[q][p] = 0
          BY <1>1, <3>1, <3>2, <4>2, SMTT(30)
        <5>2. QED
          BY <1>9, <4>2, <5>1 DEF Upserted
      <4>3. QED
        BY <4>1, <4>2
    <3>4. Upserted(q)' = Upserted(q)
      BY <3>3 DEF Upserted
    <3>5. QED
      BY <2>2, <3>4 DEF Effect
  <2>3. QED
    BY <2>1, <2>2
<1>11. Landed(q)' <=> Landed(q)
  BY <1>10 DEF Landed
<1>12. QED
  BY <1>11 DEF Sunk

\* An event the watermark of earlier records expired is late for the sink.
LEMMA ExpiredIsLate ==
  ASSUME TypeOK, SinkInv, NEW q \in Queries, NEW p \in Nat, NEW m \in Nat,
         m < p, m <= Len(log), Expired(q, p, m)
  PROVE  Abstract!Late(p)
<1>1. PICK i \in base[q] + 1 .. m :
        IsEvent(i) /\ WindowEnd(log[p].ts) + Delay <= log[i].ts
  BY DEF Expired
<1>2. i \in 1 .. p - 1
  BY DEF TypeOK
<1>3. QED
  BY <1>1, <1>2 DEF Abstract!Late, Abstract!IsEvent, IsEvent, WindowEnd, Window

\* What a write of the open batch does to each position of the table: the events
\* of the batch enter, late ones excepted, and the others are kept, except what
\* the topic has lost.
LEMMA EffectDelivers ==
  ASSUME TypeOK, SinkInv, NEW q \in SinkQueries, open[q], NEW p \in Positions
  PROVE  /\ done[q] < p /\ p <= planned[q] /\ Abstract!IsEvent(p)
            => \/ Effect(q)[p] = 1
               \/ Effect(q)[p] = 0 /\ table[q][p] = 0 /\ q \in Stateful /\ Abstract!Late(p)
         /\ ~ (done[q] < p /\ p <= planned[q] /\ Abstract!IsEvent(p))
            => \/ Effect(q)[p] = table[q][p]
               \/ Effect(q)[p] = 0 /\ q \in Stateful /\ p <= start
<1> USE DEF TypeOK, SinkQueries, Positions
<1>1. /\ base[q] <= late[q] /\ late[q] <= done[q] /\ done[q] <= planned[q]
      /\ planned[q] <= Len(log) /\ base[q] <= start /\ ~ fresh[q]
  BY DEF SinkInv, OffsetsInOrder
<1>2. /\ \A r \in Accepted(q) : Effect(q)[r] = 1
      /\ Effect(q)[p] # 0 => Effect(q)[p] = 1 /\ IsEvent(p) /\ p <= planned[q]
      /\ base[q] < p /\ table[q][p] # 0 => Effect(q)[p] # 0
  BY EffectFacts
<1>3. table[q][p] # 0 => table[q][p] = 1 /\ IsEvent(p) /\ p <= planned[q]
  BY <1>1 DEF SinkInv, CountedOnce, RowsWithinPlan
<1>4. ASSUME done[q] < p, p <= planned[q], Abstract!IsEvent(p)
      PROVE  \/ Effect(q)[p] = 1
             \/ Effect(q)[p] = 0 /\ table[q][p] = 0 /\ q \in Stateful /\ Abstract!Late(p)
  <2>1. IsEvent(p) /\ p \in Batch(q)
    BY <1>1, <1>4 DEF IsEvent, Abstract!IsEvent, Batch
  <2>2. CASE p \in Accepted(q)
    BY <1>2, <2>2
  <2>3. CASE p \notin Accepted(q)
    <3>1. q \in Stateful /\ Expired(q, p, late[q])
      BY <2>1, <2>3 DEF Accepted
    <3>2. Abstract!Late(p)
      <4>1. late[q] \in Nat /\ p \in Nat /\ Len(log) \in Nat /\ q \in Queries
        BY DEF TypeOK
      <4>2. late[q] < p /\ late[q] <= Len(log)
        BY <1>1, <1>4, <4>1
      <4>3. QED
        BY <3>1, <4>1, <4>2, ExpiredIsLate
    <3>3. Effect(q)[p] # 0 \/ table[q][p] = 0
      BY <1>1, <1>2, <1>4
    <3>4. QED
      BY <1>2, <3>1, <3>2, <3>3
  <2>4. QED
    BY <2>2, <2>3
<1>5. ASSUME ~ (done[q] < p /\ p <= planned[q] /\ Abstract!IsEvent(p))
      PROVE  \/ Effect(q)[p] = table[q][p]
             \/ Effect(q)[p] = 0 /\ q \in Stateful /\ p <= start
  <2>1. CASE done[q] < p
    <3>1. ~ IsEvent(p) \/ planned[q] < p
      BY <1>1, <1>5, <2>1 DEF IsEvent, Abstract!IsEvent
    <3>2. QED
      BY <1>1, <1>2, <1>3, <3>1
  <2>2. CASE p <= done[q]
    <3>1. p \notin Accepted(q)
      BY <1>1, <2>2 DEF Accepted, Batch
    <3>2. CASE q \notin Stateful
      BY <3>1, <3>2 DEF Effect, Inserted
    <3>3. CASE q \in Stateful
      <4>1. p \in NewAgg(q) => table[q][p] = 1
        BY <3>1, <3>3 DEF NewAgg, SinkInv, StateIsBacked
      <4>2. Effect(q)[p] = table[q][p] \/ (Effect(q)[p] = 0 /\ p \notin NewAgg(q))
        BY <3>3, <4>1 DEF Effect, Upserted
      <4>3. QED
        BY <1>1, <1>2, <3>3, <4>2
    <3>4. QED
      BY <3>2, <3>3
  <2>3. QED
    BY <1>1, <2>1, <2>2
<1>6. QED
  BY <1>4, <1>5

\* Writing the same batch once more changes nothing, and an empty batch has
\* nothing to write.
LEMMA EffectOfWritten ==
  ASSUME TypeOK, SinkInv, NEW q \in SinkQueries, open[q],
         table' = [table EXCEPT ![q] = Effect(q)],
         UNCHANGED <<log, base, done, planned, open, late, agg>>
  PROVE  /\ Landed(q)'
         /\ done[q] = planned[q] => Landed(q)
<1> USE DEF TypeOK, SinkQueries, Positions
<1>1. table'[q] = Effect(q)
  OBVIOUS
<1>2. Accepted(q)' = Accepted(q) /\ NewAgg(q)' = NewAgg(q) /\ Touched(q)' = Touched(q)
  BY DEF Accepted, NewAgg, Touched, Batch, IsEvent, Expired, WindowEnd, Window
<1>3. Effect(q)' = Effect(q)
  <2>1. CASE q \notin Stateful
    BY <1>1, <1>2, <2>1 DEF Effect, Inserted
  <2>2. CASE q \in Stateful
    BY <1>1, <1>2, <2>2 DEF Effect, Upserted, Window
  <2>3. QED
    BY <2>1, <2>2
<1>4. ASSUME done[q] = planned[q]
      PROVE  Landed(q)
  <2>1. Accepted(q) = {}
    BY <1>4 DEF Accepted, Batch
  <2>2. Touched(q) = {}
    BY <2>1 DEF Touched
  <2>3. table[q] = [p \in Positions |-> table[q][p]]
    OBVIOUS
  <2>4. Effect(q) = [p \in Positions |-> table[q][p]]
    BY <2>1, <2>2 DEF Effect, Inserted, Upserted
  <2>5. QED
    BY <2>3, <2>4 DEF Landed
<1>5. QED
  BY <1>1, <1>3, <1>4 DEF Landed

\* Queries that keep their checkpoints and rows are not seen by the sink.
LEMMA SunkKept ==
  ASSUME TypeOK, TypeOK', SinkInv, WrittenHasLanded,
         \A r \in SinkQueries : SameQuery(r),
         \A r \in SinkQueries : run'[r] = "written" => run[r] = "written",
         Len(log') >= Len(log), \A p \in DOMAIN log : log'[p] = log[p]
  PROVE  Sunk' = Sunk /\ SinkTable' = SinkTable /\ WrittenHasLanded'
<1>1. \A r \in SinkQueries : (Landed(r)' <=> Landed(r)) /\ Sunk'[r] = Sunk[r]
  BY EffectKept
<1>2. Sunk' = Sunk
  BY <1>1 DEF Sunk
<1>3. SinkTable' = SinkTable
  BY DEF SinkTable, SameQuery
<1>4. WrittenHasLanded'
  BY <1>1 DEF WrittenHasLanded
<1>5. QED
  BY <1>2, <1>3, <1>4

\* The same for all queries but one, which takes a step of its own.
LEMMA OthersKept ==
  ASSUME TypeOK, TypeOK', SinkInv, NEW q \in SinkQueries, log' = log,
         \A r \in SinkQueries \ {q} : SameQuery(r)
  PROVE  \A r \in SinkQueries \ {q} : (Landed(r)' <=> Landed(r)) /\ Sunk'[r] = Sunk[r]
<1>1. Len(log') >= Len(log) /\ \A p \in DOMAIN log : log'[p] = log[p]
  BY DEF TypeOK
<1>2. QED
  BY <1>1, EffectKept

\* The write of a batch is what the sink calls its delivery; writing it again
\* is no step of the sink at all.
LEMMA WriteDelivers ==
  ASSUME TypeOK, TypeOK', SinkInv, WrittenHasLanded, NEW q \in SinkQueries, open[q],
         table' = [table EXCEPT ![q] = Effect(q)],
         \A r \in SinkQueries \ {q} : run'[r] = "written" => run[r] = "written",
         UNCHANGED <<log, start, base, fresh, done, planned, open, late, agg>>
  PROVE  [Abstract!Next]_(Abstract!vars) /\ WrittenHasLanded'
<1> USE DEF TypeOK, SinkQueries
<1>1. Landed(q)' /\ (done[q] = planned[q] => Landed(q))
  BY EffectOfWritten
<1>2. \A r \in SinkQueries \ {q} : SameQuery(r)
  BY DEF SameQuery
<1>3. \A r \in SinkQueries \ {q} : (Landed(r)' <=> Landed(r)) /\ Sunk'[r] = Sunk[r]
  BY <1>2, OthersKept
<1>4. WrittenHasLanded'
  BY <1>1, <1>3 DEF WrittenHasLanded
<1>5. CASE Landed(q)
  <2>1. table' = table
    BY <1>5 DEF Landed
  <2>2. Sunk' = Sunk
    BY <1>1, <1>3, <1>5 DEF Sunk
  <2>3. QED
    BY <1>4, <2>1, <2>2 DEF Abstract!vars, SinkTable
<1>6. CASE ~ Landed(q)
  <2>1. done[q] < planned[q] /\ planned[q] \in 1 .. Len(log)
    BY <1>1, <1>6 DEF SinkInv, OffsetsInOrder
  <2>2. Sunk[q] = done[q] /\ Sunk'[q] = planned[q]
    BY <1>1, <1>6 DEF Sunk
  <2>3. Sunk' = [Sunk EXCEPT ![q] = planned[q]]
    <3>1. /\ Sunk = [r \in SinkQueries |-> Sunk[r]]
          /\ Sunk' = [r \in SinkQueries |-> Sunk'[r]]
      BY DEF Sunk
    <3>2. \A r \in SinkQueries : Sunk'[r] = IF r = q THEN planned[q] ELSE Sunk[r]
      BY <1>3, <2>2
    <3>3. QED
      BY <3>1, <3>2
  <2>4. table'[q] = Effect(q) /\ \A r \in SinkQueries \ {q} : table'[r] = table[r]
    OBVIOUS
  <2>5. ASSUME NEW p \in Positions
        PROVE  IF Sunk[q] < p /\ p <= planned[q] /\ Abstract!IsEvent(p)
               THEN Abstract!Entered(q, p) ELSE Abstract!Kept(q, p)
    BY <2>2, <2>4, EffectDelivers, SMTT(30) DEF Abstract!Entered, Abstract!Kept, SinkTable
  <2>6. Abstract!Deliver(q, planned[q])
    BY <2>1, <2>2, <2>3, <2>4, <2>5 DEF Abstract!Deliver, Abstract!Positions, Positions, SinkTable
  <2>7. QED
    BY <1>4, <2>1, <2>6 DEF Abstract!Next
<1>7. QED
  BY <1>5, <1>6

\* Planning the first batch of a checkpoint starts the reading of the sink;
\* events that are in the table already count as delivered at once.
LEMMA PlanDelivers ==
  ASSUME TypeOK, TypeOK', SinkInv, SinkInv', WrittenHasLanded, NEW q \in SinkQueries,
         PlanBatch(q)
  PROVE  [Abstract!Next]_(Abstract!vars) /\ WrittenHasLanded'
<1> USE DEF TypeOK, SinkQueries, Set, topicVars, sinkVars, boundVars
<1> DEFINE from == IF fresh[q] THEN start ELSE done[q]
<1>1. /\ start <= from /\ from < Len(log) /\ ~ open[q] /\ Len(log) \in Nat
      /\ done'[q] = from /\ planned'[q] = Len(log) /\ open'[q] /\ late[q] <= done[q]
      /\ late'[q] = IF fresh[q] THEN start ELSE late[q]
      /\ run'[q] = "batch" /\ UNCHANGED <<log, start, table>>
  BY DEF PlanBatch, SinkInv, OffsetsInOrder
<1>2. fresh[q] => done[q] = 0
  BY DEF SinkInv, OffsetsInOrder
<1>3. \A r \in SinkQueries \ {q} : SameQuery(r) /\ run'[r] = run[r]
  BY DEF SameQuery, PlanBatch
<1>4. \A r \in SinkQueries \ {q} : (Landed(r)' <=> Landed(r)) /\ Sunk'[r] = Sunk[r]
  BY <1>1, <1>3, OthersKept
<1>5. WrittenHasLanded'
  BY <1>1, <1>3, <1>4 DEF WrittenHasLanded
<1>6. Sunk[q] = done[q] /\ Sunk'[q] = IF Landed(q)' THEN Len(log) ELSE from
  BY <1>1 DEF Sunk, Landed
<1>7. CASE ~ Landed(q)'
  <2>1. Sunk' = [Sunk EXCEPT ![q] = from]
    BY <1>4, <1>6, <1>7 DEF Sunk
  <2>2. CASE fresh[q]
    <3>1. Abstract!StartReading(q)
      BY <1>1, <1>2, <1>6, <2>1, <2>2 DEF Abstract!StartReading, SinkTable
    <3>2. QED
      BY <1>5, <3>1 DEF Abstract!Next
  <2>3. CASE ~ fresh[q]
    <3>1. Sunk' = Sunk
      BY <1>6, <2>1, <2>3 DEF Sunk
    <3>2. QED
      BY <1>1, <1>5, <3>1 DEF Abstract!vars, SinkTable
  <2>4. QED
    BY <2>2, <2>3
<1>8. CASE Landed(q)'
  <2>1. Sunk' = [Sunk EXCEPT ![q] = Len(log)]
    BY <1>4, <1>6, <1>8 DEF Sunk
  <2>2. Effect(q)' = table[q]
    BY <1>1, <1>8 DEF Landed
  <2>3. ASSUME NEW p \in Positions
        PROVE  IF Sunk[q] < p /\ p <= Len(log) /\ Abstract!IsEvent(p)
               THEN Abstract!Entered(q, p) ELSE Abstract!Kept(q, p)
    <3>1. table[q][p] = 0 \/ table[q][p] = 1
      BY DEF SinkInv, CountedOnce
    <3>2. table'[q][p] = table[q][p]
      BY <1>1
    <3>3. ASSUME Sunk[q] < p, p <= Len(log), Abstract!IsEvent(p), table[q][p] = 0
          PROVE  p <= start \/ (q \in Stateful /\ Abstract!Late(p))
      <4>1. CASE p <= from
        <5>1. CASE fresh[q]
          BY <4>1, <5>1
        <5>2. CASE ~ fresh[q]
          <6>1. Sunk[q] = from /\ from \in Nat
            BY <1>6, <5>2
          <6>2. QED
            BY <3>3, <4>1, <6>1 DEF Positions
        <5>3. QED
          BY <5>1, <5>2
      <4>2. CASE from < p
        <5>1. p \in Batch(q)' /\ IsEvent(p)'
          BY <1>1, <3>3, <4>2 DEF Batch, IsEvent, Abstract!IsEvent, Positions
        <5>2. p \in Accepted(q)' => Effect(q)'[p] = 1
          BY DEF Accepted, Effect, Inserted, Upserted, Touched, NewAgg, IsEvent
        <5>3. q \in Stateful /\ Expired(q, p, late[q])'
          BY <2>2, <3>3, <5>1, <5>2 DEF Accepted
        <5>4. late'[q] < p
          <6>1. late'[q] <= from
            BY <1>1
          <6>2. late'[q] \in Nat /\ from \in Nat
            BY <1>1
          <6>3. QED
            BY <4>2, <6>1, <6>2, SMTT(30) DEF Positions
        <5>5. PICK i \in base'[q] + 1 .. late'[q] :
                IsEvent(i)' /\ WindowEnd(log'[p].ts) + Delay <= log'[i].ts
          BY <5>3 DEF Expired
        <5>6. i \in 1 .. p - 1
          BY <5>4, SMTT(30) DEF Positions
        <5>7. Abstract!Late(p)
          BY <1>1, <5>5, <5>6 DEF Abstract!Late, Abstract!IsEvent, IsEvent, WindowEnd, Window
        <5>8. QED
          BY <5>3, <5>7
      <4>3. QED
        BY <1>1, <4>1, <4>2 DEF Positions
    <3>4. QED
      BY <3>1, <3>2, <3>3 DEF Abstract!Entered, Abstract!Kept, SinkTable
  <2>4. Sunk[q] < Len(log)
    BY <1>1, <1>2, <1>6
  <2>5. Abstract!Deliver(q, Len(log))
    BY <1>1, <2>1, <2>3, <2>4 DEF Abstract!Deliver, Abstract!Positions, Positions, SinkTable
  <2>6. QED
    BY <1>1, <1>5, <2>5 DEF Abstract!Next
<1>9. QED
  BY <1>7, <1>8

\* The commit of a batch is no step of the sink: its rows are in the table.
LEMMA CommitDelivers ==
  ASSUME TypeOK, TypeOK', SinkInv, WrittenHasLanded, NEW q \in Queries, CommitBatch(q)
  PROVE  [Abstract!Next]_(Abstract!vars) /\ WrittenHasLanded'
<1>1. \A r \in SinkQueries \ {q} : SameQuery(r) /\ run'[r] = run[r]
  BY DEF TypeOK, SinkQueries, SameQuery, CommitBatch, Set, sinkVars
<1>2. UNCHANGED <<log, start, table>>
  BY DEF CommitBatch, topicVars, sinkVars
<1>3. CASE q \in SinkQueries
  <2>1. \A r \in SinkQueries \ {q} : (Landed(r)' <=> Landed(r)) /\ Sunk'[r] = Sunk[r]
    BY <1>1, <1>2, <1>3, OthersKept
  <2>2. Sunk[q] = planned[q]
    BY <1>3 DEF CommitBatch, WrittenHasLanded, Sunk
  <2>3. Sunk'[q] = planned[q] /\ run'[q] = "idle"
    BY <1>3 DEF TypeOK, SinkQueries, CommitBatch, Set, Sunk, Landed
  <2>4. Sunk' = Sunk
    BY <2>1, <2>2, <2>3 DEF Sunk
  <2>5. WrittenHasLanded'
    BY <1>1, <2>1, <2>3 DEF WrittenHasLanded
  <2>6. QED
    BY <1>2, <2>4, <2>5 DEF Abstract!vars, SinkTable
<1>4. CASE q \notin SinkQueries
  <2>1. \A r \in SinkQueries : SameQuery(r) /\ run'[r] = run[r]
    BY <1>1, <1>4
  <2>2. Len(log') >= Len(log) /\ \A p \in DOMAIN log : log'[p] = log[p]
    BY <1>2 DEF TypeOK
  <2>3. Sunk' = Sunk /\ SinkTable' = SinkTable /\ WrittenHasLanded'
    BY <2>1, <2>2, SunkKept
  <2>4. QED
    BY <1>2, <2>3 DEF Abstract!vars
<1>5. QED
  BY <1>3, <1>4

\* Every step of the driver is a step of the abstract sink, or none at all.
LEMMA SinkStep ==
  ASSUME TypeOK, TypeOK', SinkInv, SinkInv', WrittenHasLanded, [Next]_vars
  PROVE  [Abstract!Next]_(Abstract!vars) /\ WrittenHasLanded'
<1> USE DEF ckptVars, topicVars, sinkVars, driverVars, boundVars
<1>1. ASSUME UNCHANGED <<log, base, done, planned, open, late, agg, table>>,
             \A r \in SinkQueries : run'[r] = "written" => run[r] = "written"
      PROVE  Sunk' = Sunk /\ SinkTable' = SinkTable /\ WrittenHasLanded'
  <2>1. \A r \in SinkQueries : SameQuery(r)
    BY <1>1 DEF SameQuery
  <2>2. Len(log') >= Len(log) /\ \A p \in DOMAIN log : log'[p] = log[p]
    BY <1>1 DEF TypeOK
  <2>3. QED
    BY <1>1, <2>1, <2>2, SunkKept
<1>2. CASE Produce
  <2>1. PICK r \in Records : log' = Append(log, r)
    BY <1>2 DEF Produce
  <2>2. Len(log') >= Len(log) /\ \A p \in DOMAIN log : log'[p] = log[p]
    BY <2>1 DEF TypeOK
  <2>3. \A q \in SinkQueries : SameQuery(q) /\ run'[q] = run[q]
    BY <1>2 DEF Produce, SameQuery
  <2>4. Sunk' = Sunk /\ SinkTable' = SinkTable /\ WrittenHasLanded'
    BY <2>2, <2>3, SunkKept
  <2>5. Abstract!Arrive
    BY <1>2, <2>1, <2>4 DEF Produce, Abstract!Arrive
  <2>6. QED
    BY <2>4, <2>5 DEF Abstract!Next
<1>3. CASE TrimLog
  <2>1. Sunk' = Sunk /\ SinkTable' = SinkTable /\ WrittenHasLanded'
    BY <1>1, <1>3 DEF TrimLog
  <2>2. Abstract!Trim
    BY <1>3, <2>1 DEF TrimLog, Abstract!Trim
  <2>3. QED
    BY <2>1, <2>2 DEF Abstract!Next
<1>4. CASE Redeploy
  <2>1. \A q \in SinkQueries : ~ open'[q] /\ done'[q] = 0 /\ run'[q] = "off"
    BY <1>4 DEF Redeploy, Exit, AllOff, SinkQueries
  <2>2. Sunk' = [q \in SinkQueries |-> 0]
    BY <2>1 DEF Sunk, Landed
  <2>3. Abstract!Forget
    BY <1>4, <2>2 DEF Redeploy, Abstract!Forget, SinkTable
  <2>4. WrittenHasLanded'
    BY <2>1 DEF WrittenHasLanded
  <2>5. QED
    BY <2>3, <2>4 DEF Abstract!Next
<1>5. CASE DriverKilled \/ (\E s \in Sinks : SinkDown(s) \/ SinkBack(s)) \/ Boot \/ UNCHANGED vars
  <2>1. UNCHANGED <<log, start, base, done, planned, open, late, agg, table>>
    BY <1>5 DEF DriverKilled, SinkDown, SinkBack, Boot, StartSession, StartPostgresSinks,
       StartClickhouseSinks, StartDlqSink, BootFails, DriverExits, vars
  <2>2. \A r \in SinkQueries : run'[r] = "written" => run[r] = "written"
    BY <1>5 DEF DriverKilled, Exit, AllOff, SinkDown, SinkBack, Boot, StartSession,
       StartPostgresSinks, StartClickhouseSinks, StartDlqSink, BootFails, DriverExits,
       Start, vars, SinkQueries
  <2>3. QED
    BY <1>1, <2>1, <2>2 DEF Abstract!vars
<1>6. ASSUME NEW q \in Queries,
             \/ ReplayBatch(q) \/ OffsetsLost(q) \/ BatchFails(q) \/ FlushDlq(q)
             \/ TransientFailure(q) /\ UNCHANGED table
      PROVE  [Abstract!Next]_(Abstract!vars) /\ WrittenHasLanded'
  <2>1. UNCHANGED <<log, start, base, done, planned, open, late, agg, table>>
    BY <1>6 DEF ReplayBatch, OffsetsLost, BatchFails, FlushDlq, TransientFailure
  <2>2. \A r \in SinkQueries : run'[r] = "written" => run[r] = "written"
    <3>1. CASE ReplayBatch(q) \/ OffsetsLost(q) \/ BatchFails(q)
      BY <3>1 DEF ReplayBatch, OffsetsLost, BatchFails, Set, SinkQueries, TypeOK
    <3>2. CASE FlushDlq(q)
      BY <3>2 DEF FlushDlq, Set, SinkQueries, TypeOK
    <3>3. CASE TransientFailure(q)
      BY <3>3 DEF TransientFailure, Set, SinkQueries, TypeOK
    <3>4. QED
      BY <1>6, <3>1, <3>2, <3>3
  <2>3. QED
    BY <1>1, <2>1, <2>2 DEF Abstract!vars
<1>7. ASSUME NEW q \in Queries, NEW p \in Positions, SendDlq(q, p)
      PROVE  [Abstract!Next]_(Abstract!vars) /\ WrittenHasLanded'
  <2>1. \A r \in SinkQueries : SameQuery(r) /\ run'[r] = run[r]
    BY <1>7 DEF SendDlq, SameQuery, SinkQueries, TypeOK
  <2>2. Len(log') >= Len(log) /\ \A i \in DOMAIN log : log'[i] = log[i]
    BY <1>7 DEF SendDlq, TypeOK
  <2>3. Sunk' = Sunk /\ SinkTable' = SinkTable /\ WrittenHasLanded'
    BY <2>1, <2>2, SunkKept
  <2>4. QED
    BY <1>7, <2>3 DEF SendDlq, Abstract!vars
<1>8. ASSUME NEW q \in Queries,
             \/ WriteBatch(q)
             \/ TransientFailure(q) /\ q \notin DlqQueries /\ table' = Set(table, q, Effect(q))
      PROVE  [Abstract!Next]_(Abstract!vars) /\ WrittenHasLanded'
  <2>1. q \in SinkQueries /\ run[q] = "batch" /\ table' = [table EXCEPT ![q] = Effect(q)]
    BY <1>8 DEF WriteBatch, TransientFailure, SinkQueries, Set
  <2>2. open[q]
    BY <2>1 DEF SinkInv, OffsetsInOrder, SinkQueries
  <2>3. UNCHANGED <<log, start, base, fresh, done, planned, open, late, agg>>
    BY <1>8 DEF WriteBatch, TransientFailure
  <2>4. \A r \in SinkQueries \ {q} : run'[r] = "written" => run[r] = "written"
    BY <1>8 DEF WriteBatch, TransientFailure, Set, SinkQueries, TypeOK
  <2>5. QED
    BY <2>1, <2>2, <2>3, <2>4, WriteDelivers
<1>9. ASSUME NEW q \in Queries, PlanBatch(q)
      PROVE  [Abstract!Next]_(Abstract!vars) /\ WrittenHasLanded'
  <2>1. CASE q \in SinkQueries
    BY <1>9, <2>1, PlanDelivers
  <2>2. CASE q \notin SinkQueries
    <3>1. \A r \in SinkQueries : SameQuery(r) /\ run'[r] = run[r]
      <4>1. \A r \in SinkQueries : r # q /\ r \in Queries
        BY <2>2 DEF SinkQueries
      <4>2. UNCHANGED <<agg, table>>
        BY <1>9 DEF PlanBatch
      <4>3. QED
        BY <1>9, <4>1, <4>2 DEF PlanBatch, SameQuery, Set, TypeOK
    <3>2. Len(log') >= Len(log) /\ \A i \in DOMAIN log : log'[i] = log[i]
      BY <1>9 DEF PlanBatch, TypeOK
    <3>3. Sunk' = Sunk /\ SinkTable' = SinkTable /\ WrittenHasLanded'
      BY <3>1, <3>2, SunkKept
    <3>4. QED
      BY <1>9, <3>3 DEF PlanBatch, Abstract!vars
  <2>3. QED
    BY <2>1, <2>2
<1>10. ASSUME NEW q \in Queries, PlanNoDataBatch(q)
       PROVE  [Abstract!Next]_(Abstract!vars) /\ WrittenHasLanded'
  <2>1. /\ done[q] = planned[q] /\ ~ open[q] /\ q \in Stateful
        /\ UNCHANGED <<log, start, base, fresh, done, planned, late, agg, table>>
    BY <1>10 DEF PlanNoDataBatch, SinkInv, OffsetsInOrder
  <2>2. \A r \in SinkQueries \ {q} : SameQuery(r) /\ run'[r] = run[r]
    BY <1>10 DEF PlanNoDataBatch, SameQuery, SinkQueries, Set, TypeOK
  <2>3. q \in SinkQueries /\ run'[q] = "batch"
    BY <1>10, <2>1 DEF PlanNoDataBatch, Stateful, DlqQueries, SinkQueries, Set, TypeOK
  <2>4. \A r \in SinkQueries \ {q} : (Landed(r)' <=> Landed(r)) /\ Sunk'[r] = Sunk[r]
    BY <2>1, <2>2, <2>3, OthersKept
  <2>5. Sunk'[q] = Sunk[q]
    BY <2>1, <2>3 DEF Sunk
  <2>6. Sunk' = Sunk
    BY <2>4, <2>5 DEF Sunk
  <2>7. WrittenHasLanded'
    BY <2>2, <2>3, <2>4 DEF WrittenHasLanded
  <2>8. QED
    BY <2>1, <2>6, <2>7 DEF Abstract!vars, SinkTable
<1>11. ASSUME NEW q \in Queries, Query(q) \/ TransientFailure(q)
       PROVE  [Abstract!Next]_(Abstract!vars) /\ WrittenHasLanded'
  <2>1. CASE TransientFailure(q)
    BY <1>6, <1>8, <2>1 DEF TransientFailure
  <2>2. CASE Query(q)
    BY <1>6, <1>7, <1>8, <1>9, <1>10, <2>2, CommitDelivers DEF Query
  <2>3. QED
    BY <1>11, <2>1, <2>2
<1>12. QED
  BY <1>2, <1>3, <1>4, <1>5, <1>11 DEF Next, Environment

\* The streaming job is an exactly-once sink, whatever is killed, replayed,
\* written twice, redeployed or retained.
THEOREM SinkRefinement == Spec => ImplementsExactlyOnceSink
<1>1. Init => Abstract!Init /\ WrittenHasLanded
  BY DEF Init, AllOff, Abstract!Init, Sunk, Landed, SinkTable, SinkQueries, WrittenHasLanded,
     Positions, Abstract!Positions
<1>2. TypeOK /\ TypeOK' /\ SinkInv /\ SinkInv' /\ WrittenHasLanded /\ [Next]_vars
      => [Abstract!Next]_(Abstract!vars) /\ WrittenHasLanded'
  BY SinkStep
<1>3. QED
  BY <1>1, <1>2, TypeCorrect, SinkInvariant, PTL
     DEF Spec, ImplementsExactlyOnceSink, Abstract!Spec

-----------------------------------------------------------------------------
(* One message, two queries                                                  *)

\* A batch with a record that to_timestamp rejects is never written, so no
\* offset behind one is ever committed; the dead-letter topic holds rejected
\* messages only, and all of those the committed batches contain.
SplitInv ==
  /\ \A q \in SinkQueries :
       /\ \A p \in base[q] + 1 .. done[q] : log[p].kind # "odd"
       /\ run[q] = "written" => ~ Poisoned(q)
  /\ \A d \in Queries \cap DlqQueries :
       /\ \A p \in Positions : table[d][p] # 0 => IsBad(p)
       /\ \A p \in base[d] + 1 .. done[d] : IsBad(p) => table[d][p] # 0
       /\ \A p \in sent : table[d][p] # 0
       /\ run[d] = "written" => \A p \in Failures(d) : table[d][p] # 0

\* Steps that keep checkpoints, only append to the topic, and leave the
\* dead-letter topic as it is.
LEMMA SplitKept ==
  ASSUME TypeOK, TypeOK', SinkInv, SplitInv,
         UNCHANGED <<base, done, planned>>,
         Len(log') >= Len(log), \A p \in DOMAIN log : log'[p] = log[p],
         sent' \subseteq sent, \A d \in Queries \cap DlqQueries : table'[d] = table[d],
         \A q \in Queries : run'[q] = "written" => run[q] = "written"
  PROVE  SplitInv'
<1> USE DEF TypeOK, SinkQueries
<1>1. \A q \in Queries :
        /\ base[q] \in Nat /\ done[q] \in Nat /\ planned[q] \in Nat
        /\ done[q] <= planned[q] /\ planned[q] <= Len(log)
  BY DEF SinkInv, OffsetsInOrder
<1>2. \A p \in DOMAIN log : p \in DOMAIN log' /\ log'[p] = log[p]
  OBVIOUS
<1>3. \A q \in Queries : \A p \in 1 .. planned[q] : p \in DOMAIN log
  BY <1>1
<1>4. \A q \in Queries : Batch(q)' = Batch(q) /\ \A p \in Batch(q) : p \in 1 .. planned[q]
  BY <1>1, SMTT(30) DEF Batch
<1>5. \A q \in Queries : \A p \in base[q] + 1 .. done[q] : p \in 1 .. planned[q]
  BY <1>1, SMTT(30)
<1>6. ASSUME NEW q \in SinkQueries
      PROVE  /\ \A p \in base'[q] + 1 .. done'[q] : log'[p].kind # "odd"
             /\ run'[q] = "written" => ~ Poisoned(q)'
  <2>1. \A p \in base'[q] + 1 .. done'[q] : log'[p].kind # "odd"
    BY <1>2, <1>3, <1>5, SMTT(30) DEF SplitInv
  <2>2. Poisoned(q)' => Poisoned(q)
    BY <1>2, <1>3, <1>4 DEF Poisoned
  <2>3. QED
    BY <2>1, <2>2 DEF SplitInv
<1>7. ASSUME NEW d \in Queries \cap DlqQueries
      PROVE  /\ \A p \in Positions : table'[d][p] # 0 => IsBad(p)'
             /\ \A p \in base'[d] + 1 .. done'[d] : IsBad(p)' => table'[d][p] # 0
             /\ \A p \in sent' : table'[d][p] # 0
             /\ run'[d] = "written" => \A p \in Failures(d)' : table'[d][p] # 0
  <2>1. \A p \in 1 .. planned[d] : IsBad(p)' <=> IsBad(p)
    BY <1>2, <1>3 DEF IsBad
  <2>2. \A p \in Positions : IsBad(p) => IsBad(p)'
    BY <1>2 DEF IsBad
  <2>3. Failures(d)' = Failures(d)
    BY <1>4, <2>1 DEF Failures
  <2>4. \A p \in base'[d] + 1 .. done'[d] : IsBad(p)' => table'[d][p] # 0
    BY <1>5, <2>1, SMTT(30) DEF SplitInv
  <2>5. QED
    BY <2>2, <2>3, <2>4, SMTT(30) DEF SplitInv
<1>8. QED
  BY <1>6, <1>7 DEF SplitInv

\* A step of one query q that moves its offsets or writes.
LEMMA SplitStep ==
  ASSUME TypeOK, TypeOK', SinkInv, SinkInv', SplitInv, [Next]_vars
  PROVE  SplitInv'
<1> USE DEF ckptVars, topicVars, sinkVars, driverVars, boundVars
<1>1. ASSUME UNCHANGED <<log, base, done, planned>>,
             sent' \subseteq sent, \A d \in Queries \cap DlqQueries : table'[d] = table[d],
             \A q \in Queries : run'[q] = "written" => run[q] = "written"
      PROVE  SplitInv'
  <2>1. Len(log') >= Len(log) /\ \A p \in DOMAIN log : log'[p] = log[p]
    BY <1>1 DEF TypeOK
  <2>2. QED
    BY <1>1, <2>1, SplitKept
<1>2. CASE Produce
  <2>1. Len(log') >= Len(log) /\ \A p \in DOMAIN log : log'[p] = log[p]
    BY <1>2 DEF Produce, TypeOK
  <2>2. QED
    BY <1>2, <2>1, SplitKept DEF Produce
<1>3. CASE Redeploy
  <2>1. /\ UNCHANGED <<log, table>> /\ sent' = {}
        /\ \A q \in Queries : base'[q] = 0 /\ done'[q] = 0 /\ run'[q] = "off"
    BY <1>3 DEF Redeploy, Exit, AllOff
  <2>2. \A p : IsBad(p)' <=> IsBad(p)
    BY <2>1 DEF IsBad
  <2>3. QED
    BY <2>1, <2>2 DEF SplitInv, SinkQueries
<1>4. CASE TrimLog \/ DriverKilled \/ (\E s \in Sinks : SinkDown(s) \/ SinkBack(s)) \/ Boot
           \/ UNCHANGED vars
  <2>1. UNCHANGED <<log, base, done, planned, table>>
    BY <1>4 DEF TrimLog, DriverKilled, SinkDown, SinkBack, Boot, StartSession,
       StartPostgresSinks, StartClickhouseSinks, StartDlqSink, BootFails, DriverExits, vars
  <2>2. /\ sent' \subseteq sent
        /\ \A q \in Queries : run'[q] = "written" => run[q] = "written"
    BY <1>4 DEF TrimLog, DriverKilled, Exit, AllOff, SinkDown, SinkBack, Boot, StartSession,
       StartPostgresSinks, StartClickhouseSinks, StartDlqSink, BootFails, DriverExits, Start, vars
  <2>3. QED
    BY <1>1, <2>1, <2>2
<1>5. ASSUME NEW q \in Queries,
             \/ ReplayBatch(q) \/ OffsetsLost(q) \/ BatchFails(q)
             \/ PlanNoDataBatch(q) \/ TransientFailure(q)
      PROVE  SplitInv'
  <2>1. UNCHANGED <<log, base, done, planned>> /\ sent' \subseteq sent
    BY <1>5 DEF ReplayBatch, OffsetsLost, BatchFails, PlanNoDataBatch, TransientFailure
  <2>2. \A d \in Queries \cap DlqQueries : table'[d] = table[d]
    BY <1>5 DEF ReplayBatch, OffsetsLost, BatchFails, PlanNoDataBatch, TransientFailure, Set, TypeOK
  <2>3. \A r \in Queries : run'[r] = "written" => run[r] = "written"
    <3>1. CASE ReplayBatch(q) \/ OffsetsLost(q) \/ BatchFails(q)
      BY <3>1 DEF ReplayBatch, OffsetsLost, BatchFails, Set, TypeOK
    <3>2. CASE PlanNoDataBatch(q) \/ TransientFailure(q)
      BY <3>2 DEF PlanNoDataBatch, TransientFailure, Set, TypeOK
    <3>3. QED
      BY <1>5, <3>1, <3>2
  <2>4. QED
    BY <1>1, <2>1, <2>2, <2>3
<1>6. ASSUME NEW q \in Queries, WriteBatch(q)
      PROVE  SplitInv'
  <2>1. /\ UNCHANGED <<log, base, done, planned, sent>> /\ q \notin DlqQueries /\ ~ Poisoned(q)
        /\ \A r \in Queries \ {q} : run'[r] = run[r] /\ table'[r] = table[r]
    BY <1>6 DEF WriteBatch, Set, TypeOK
  <2>2. \A r \in Queries : Poisoned(r)' <=> Poisoned(r)
    BY <2>1 DEF Poisoned, Batch
  <2>3. \A d \in Queries \cap DlqQueries : Failures(d)' = Failures(d) /\ d # q
    BY <2>1 DEF Failures, Batch, IsBad
  <2>4. \A p : IsBad(p)' <=> IsBad(p)
    BY <2>1 DEF IsBad
  <2>5. QED
    BY <2>1, <2>2, <2>3, <2>4 DEF SplitInv, SinkQueries
<1>7. ASSUME NEW q \in Queries, NEW x \in Positions, SendDlq(q, x)
      PROVE  SplitInv'
  <2>1. /\ UNCHANGED <<log, base, done, planned, run>> /\ q \in DlqQueries /\ IsBad(x)
        /\ sent' = sent \cup {x}
    BY <1>7 DEF SendDlq, Failures
  <2>2. /\ table'[q][x] # 0
        /\ \A r \in Queries : \A p \in Positions : p # x \/ r # q => table'[r][p] = table[r][p]
    <3>1. table' = [table EXCEPT ![q][x] = IF @ < MaxCopies THEN @ + 1 ELSE @]
      BY <1>7 DEF SendDlq
    <3>2. table[q][x] \in Nat /\ table \in [Queries -> [Positions -> Nat]]
      BY DEF TypeOK
    <3>3. table' = [table EXCEPT ![q] = [table[q] EXCEPT ![x] = IF table[q][x] < MaxCopies
                                                                THEN table[q][x] + 1 ELSE table[q][x]]]
      BY <3>1
    <3>4. table'[q] = [table[q] EXCEPT ![x] = IF table[q][x] < MaxCopies
                                              THEN table[q][x] + 1 ELSE table[q][x]]
      BY <3>2, <3>3
    <3>5. table'[q][x] # 0 /\ \A p \in Positions : p # x => table'[q][p] = table[q][p]
      BY <3>2, <3>4, BoundsAssumption
    <3>6. \A r \in Queries : r # q => table'[r] = table[r]
      BY <3>2, <3>3
    <3>7. QED
      BY <3>5, <3>6
  <2>3. \A d \in Queries \cap DlqQueries : d = q
    BY <2>1 DEF DlqQueries
  <2>4. \A r \in Queries : Poisoned(r)' <=> Poisoned(r)
    BY <2>1 DEF Poisoned, Batch
  <2>5. Failures(q)' = Failures(q)
    BY <2>1 DEF Failures, Batch, IsBad
  <2>6. \A p : IsBad(p)' <=> IsBad(p)
    BY <2>1 DEF IsBad
  <2>7. /\ \A p \in base[q] + 1 .. done[q] : p \in Positions
        /\ \A p \in Failures(q) : p \in Positions
        /\ \A p \in sent : p \in Positions
    <3>1. \A p \in sent : p \in Positions
      BY DEF TypeOK
    <3>2. /\ base[q] \in Nat /\ done[q] \in Nat /\ planned[q] \in Nat /\ Len(log) \in Nat
          /\ done[q] <= planned[q] /\ planned[q] <= Len(log) /\ Len(log) <= MaxLog
      BY DEF TypeOK, SinkInv, OffsetsInOrder
    <3>3. QED
      BY <3>1, <3>2, BoundsAssumption DEF Positions, Failures, Batch
  <2>8. QED
    BY <2>1, <2>2, <2>3, <2>4, <2>5, <2>6, <2>7 DEF SplitInv, SinkQueries
<1>8. ASSUME NEW q \in Queries, FlushDlq(q)
      PROVE  SplitInv'
  <2>1. /\ UNCHANGED <<log, base, done, planned, table>> /\ q \in DlqQueries /\ sent' = {}
        /\ Failures(q) \subseteq sent
        /\ \A r \in Queries \ {q} : run'[r] = run[r]
    BY <1>8 DEF FlushDlq, Flushed, Set, TypeOK
  <2>2. \A d \in Queries \cap DlqQueries : d = q
    BY <2>1 DEF DlqQueries
  <2>3. \A r \in Queries : (Poisoned(r)' <=> Poisoned(r)) /\ Failures(r)' = Failures(r)
    BY <2>1 DEF Poisoned, Failures, Batch, IsBad
  <2>4. \A p : IsBad(p)' <=> IsBad(p)
    BY <2>1 DEF IsBad
  <2>5. QED
    BY <2>1, <2>2, <2>3, <2>4 DEF SplitInv, SinkQueries
<1>9. ASSUME NEW q \in Queries, PlanBatch(q)
      PROVE  SplitInv'
  <2>1. /\ UNCHANGED <<log, table, sent>> /\ run'[q] = "batch"
        /\ (base'[q] = base[q] /\ done'[q] = done[q]) \/ (base'[q] = start /\ done'[q] = start)
        /\ \A r \in Queries \ {q} : run'[r] = run[r] /\ base'[r] = base[r] /\ done'[r] = done[r]
                                    /\ planned'[r] = planned[r]
    BY <1>9 DEF PlanBatch, Set, TypeOK
  <2>2. \A p : IsBad(p)' <=> IsBad(p)
    BY <2>1 DEF IsBad
  <2>3. \A r \in Queries \ {q} : (Poisoned(r)' <=> Poisoned(r)) /\ Failures(r)' = Failures(r)
    BY <2>1, <2>2 DEF Poisoned, Failures, Batch
  <2>4. ASSUME NEW r \in Queries, NEW p \in base'[r] + 1 .. done'[r]
        PROVE  p \in base[r] + 1 .. done[r]
    <3>1. start \in Nat /\ start + 1 .. start = {}
      BY DEF TypeOK
    <3>2. base'[r] = base[r] /\ done'[r] = done[r]
      BY <2>1, <2>4, <3>1
    <3>3. QED
      BY <2>4, <3>2
  <2>5. \A r \in SinkQueries : run'[r] = "written" => ~ Poisoned(r)'
    BY <2>1, <2>3 DEF SplitInv, SinkQueries
  <2>6. \A d \in Queries \cap DlqQueries :
          run'[d] = "written" => \A p \in Failures(d)' : table'[d][p] # 0
    BY <2>1, <2>3 DEF SplitInv
  <2>7. QED
    BY <2>1, <2>2, <2>4, <2>5, <2>6 DEF SplitInv, SinkQueries
<1>10. ASSUME NEW q \in Queries, CommitBatch(q)
       PROVE  SplitInv'
  <2>1. /\ UNCHANGED <<log, base, planned, table, sent>>
        /\ run[q] = "written" /\ run'[q] = "idle" /\ done'[q] = planned[q]
        /\ \A r \in Queries \ {q} : run'[r] = run[r] /\ done'[r] = done[r]
    BY <1>10 DEF CommitBatch, Set, TypeOK
  <2>2. \A p : IsBad(p)' <=> IsBad(p)
    BY <2>1 DEF IsBad
  <2>3. \A r \in Queries \ {q} : (Poisoned(r)' <=> Poisoned(r)) /\ Failures(r)' = Failures(r)
    BY <2>1, <2>2 DEF Poisoned, Failures, Batch
  <2>4. \A p \in base[q] + 1 .. planned[q] :
          p \in DOMAIN log /\ (p \in base[q] + 1 .. done[q] \/ p \in Batch(q))
    BY SMTT(30) DEF TypeOK, SinkInv, OffsetsInOrder, Batch
  <2>5. q \in SinkQueries => \A p \in base'[q] + 1 .. done'[q] : log'[p].kind # "odd"
    BY <2>1, <2>4 DEF SplitInv, Poisoned
  <2>6. q \in DlqQueries => \A p \in base'[q] + 1 .. done'[q] : IsBad(p)' => table'[q][p] # 0
    BY <2>1, <2>2, <2>4 DEF SplitInv, Failures
  <2>7. QED
    BY <2>1, <2>2, <2>3, <2>5, <2>6 DEF SplitInv, SinkQueries
<1>11. QED
  BY <1>2, <1>3, <1>4, <1>5, <1>6, <1>7, <1>8, <1>9, <1>10 DEF Next, Environment, Query

\* Every message both queries have committed is in olap.clicks or in
\* clicks.dlq, and in one of them only.
THEOREM MessagesSplit == Spec => []ParseSplit
<1>1. Init => SplitInv
  BY DEF Init, AllOff, SplitInv, SinkQueries
<1>2. TypeOK /\ TypeOK' /\ SinkInv /\ SinkInv' /\ SplitInv /\ [Next]_vars => SplitInv'
  BY SplitStep
<1>3. TypeOK /\ SinkInv /\ SplitInv => ParseSplit
  <2> SUFFICES ASSUME TypeOK, SinkInv, SplitInv,
                      NEW c \in Queries \cap {"clicks_ch"}, NEW d \in Queries \cap DlqQueries,
                      NEW p \in Positions,
                      base[c] < p, p <= done[c], base[d] < p, p <= done[d]
               PROVE  (table[c][p] # 0) # (table[d][p] # 0)
    BY DEF ParseSplit
  <2>1. /\ c \in SinkQueries /\ c \notin Stateful /\ p \in DOMAIN log
        /\ p \in base[c] + 1 .. done[c] /\ p \in base[d] + 1 .. done[d]
    BY DEF SinkQueries, DlqQueries, Stateful, TypeOK, SinkInv, OffsetsInOrder, Positions
  <2>2. log[p].kind \in {"event", "bad"}
    <3>1. log[p].kind # "odd"
      BY <2>1 DEF SplitInv
    <3>2. log[p] \in Records
      BY <2>1 DEF TypeOK
    <3>3. QED
      BY <3>1, <3>2, RecordsAssumption
  <2>3. table[c][p] # 0 <=> IsEvent(p)
    BY <2>1 DEF SinkInv, CountedOnce, MissingOnlyIfLate, SinkQueries
  <2>4. table[d][p] # 0 <=> IsBad(p)
    BY <2>1 DEF SplitInv
  <2>5. IsEvent(p) <=> ~ IsBad(p)
    BY <2>1, <2>2 DEF IsEvent, IsBad
  <2>6. QED
    BY <2>3, <2>4, <2>5
<1>4. QED
  BY <1>1, <1>2, <1>3, TypeCorrect, SinkInvariant, PTL DEF Spec

=============================================================================
