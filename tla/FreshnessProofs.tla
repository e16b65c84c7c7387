-------------------------- MODULE FreshnessProofs --------------------------
(***************************************************************************)
(* The observers of freshness for every number of requests, lifetime of    *)
(* the cache, window length, budget and pace of the loop: how old an       *)
(* answer can be, that the command line hides nothing the DAG would        *)
(* reject, and how far the gauge can be behind.                            *)
(***************************************************************************)
EXTENDS Freshness, TLAPS

USE ReadApiAssumption, FreshnessAssumption

\* A summary a request has read itself is as old as its work at most, one in
\* the cache is older by what has passed of its lifetime, and none shows a
\* window the table does not have.
SummariesAreRecent ==
  /\ left > 0 => now - cached.asOf <= (Ttl - left) + MaxWork
  /\ \A r \in Requests :
       /\ pc[r] \in {"second", "store"} => now - got[r].asOf <= worked[r]
       /\ pc[r] = "answered" => now - got[r].asOf <= (Ttl - 1) + MaxWork + worked[r]

SummariesAreOlder ==
  cached.window <= latest /\ \A r \in Requests : got[r].window <= latest

\* Without faults the gauge was exact when the loop last went round.
GaugeWasExact ==
  /\ refreshed <= now /\ now - refreshed <= RefreshEvery
  /\ faults = 0 => pgUp /\ (gauge > 0 => refreshed - latest - WindowLen <= gauge)

FreshInv == SummariesAreRecent /\ SummariesAreOlder /\ GaugeWasExact

\* What Work, Arrive and Reply of a request may do, as one formula.
RequestStep(r) == Arrive(r) \/ Work(r) \/ Reply(r)

\* Every step of a request, a backend, the clock or the loop keeps the types.
THEOREM FreshnessTypeCorrect == Spec => []TypeOK
<1> USE DEF TypeOK, ApiTypeOK, Summaries, Windows, Times, NoWindow
<1>1. Init => TypeOK
  BY DEF Init, ApiInit, Nothing
<1>2. TypeOK /\ [Next]_vars => TypeOK'
  <2> SUFFICES ASSUME TypeOK, [Next]_vars PROVE TypeOK'
    OBVIOUS
  <2> USE DEF backends, cache, requests, apiVars, gaugeVars, Goto, Hold
  <2>1. ASSUME NEW r \in Requests, RequestStep(r), UNCHANGED gaugeVars
        PROVE  TypeOK'
    <3>1. CASE Arrive(r) \/ Hit(r) \/ Miss(r)
      BY <2>1, <3>1 DEF Arrive, Hit, Miss
    <3>2. CASE ReadPageViews(r) \/ ReadCampaigns(r) \/ QueryFails(r)
      <4>1. UNCHANGED <<now, latest, pgUp, redis, cached, left, worked, faults, gauge, refreshed>>
        BY <2>1, <3>2 DEF ReadPageViews, ReadCampaigns, QueryFails
      <4>2. pc' \in [Requests -> {"idle", "lookup", "first", "second", "store", "answered", "failed"}]
        BY <3>2 DEF ReadPageViews, ReadCampaigns, QueryFails
      <4>3. got' \in [Requests -> Summaries]
        BY <3>2 DEF ReadPageViews, ReadCampaigns, QueryFails, Nothing
      <4>4. QED
        BY <4>1, <4>2, <4>3
    <3>3. CASE Store(r) \/ StoreFails(r)
      BY <2>1, <3>3 DEF Store, StoreFails, Lifetime, AfterFailedStore
    <3>4. CASE Reply(r)
      BY <2>1, <3>4 DEF Reply, Nothing
    <3>5. QED
      BY <2>1, <3>1, <3>2, <3>3, <3>4 DEF RequestStep, Work
  <2>2. CASE SinkWrites /\ UNCHANGED gaugeVars
    BY <2>2 DEF SinkWrites, NewLatest
  <2>3. CASE (Outage \/ PostgresBack \/ RedisBack \/ RedisRestart) /\ UNCHANGED gaugeVars
    <3>1. pgUp' \in BOOLEAN /\ redis' \in {"up", "down", "hanging"}
      BY <2>3 DEF Outage, PostgresBack, RedisBack, RedisRestart
    <3>2. faults' \in 0 .. MaxFaults
      BY <2>3 DEF Outage, PostgresBack, RedisBack, RedisRestart
    <3>3. cached' \in Summaries /\ left' \in 0 .. Ttl /\ UNCHANGED <<now, latest, requests, gaugeVars>>
      BY <2>3 DEF Outage, PostgresBack, RedisBack, RedisRestart, Nothing
    <3>4. QED
      BY <3>1, <3>2, <3>3
  <2>4. CASE RefreshGauge
    <3>1. GaugeValue(latest, now) \in Times
      BY DEF GaugeValue, AtLeastZero
    <3>2. gauge' \in Times /\ refreshed' \in Times /\ UNCHANGED apiVars
      BY <2>4, <3>1 DEF RefreshGauge
    <3>3. QED
      BY <3>2
  <2>5. CASE Tick
    <3>1. worked' \in [Requests -> 0 .. MaxWork]
      BY <2>5 DEF Tick, TickApi, Busy
    <3>2. now' \in Times /\ left' \in 0 .. Ttl /\ UNCHANGED <<latest, pgUp, redis, pc, got, faults>>
      BY <2>5 DEF Tick, TickApi
    <3>3. cached' \in Summaries
      BY <2>5 DEF Tick, TickApi, Nothing
    <3>4. QED
      BY <2>5, <3>1, <3>2, <3>3 DEF Tick
  <2>6. CASE UNCHANGED vars
    BY <2>6 DEF vars
  <2>7. QED
    BY <2>1, <2>2, <2>3, <2>4, <2>5, <2>6 DEF Next, ApiStep, RequestStep
<1>3. QED
  BY <1>1, <1>2, PTL DEF Spec

\* A request keeps what it and the cache hold recent and no newer than the
\* table.
LEMMA RequestKeepsSummaries ==
  ASSUME TypeOK, SummariesAreRecent, SummariesAreOlder, NEW r \in Requests, RequestStep(r)
  PROVE  SummariesAreRecent' /\ SummariesAreOlder'
<1> USE DEF TypeOK, ApiTypeOK, Summaries, Windows, Times, NoWindow, backends, cache, Goto, Hold,
        SummariesAreRecent, SummariesAreOlder
<1>1. CASE Arrive(r) \/ Miss(r)
  BY <1>1 DEF Arrive, Miss
<1>2. CASE Hit(r)
  <2>1. now - cached.asOf <= (Ttl - 1) + MaxWork /\ 0 <= worked[r]
    BY <1>2 DEF Hit
  <2>2. QED
    BY <1>2, <2>1 DEF Hit
<1>3. CASE ReadPageViews(r) \/ ReadCampaigns(r)
  BY <1>3, SMTT(30) DEF ReadPageViews, ReadCampaigns
<1>4. CASE QueryFails(r)
  BY <1>4 DEF QueryFails, Nothing
<1>5. CASE Store(r)
  BY <1>5 DEF Store, Lifetime
<1>6. CASE StoreFails(r)
  BY <1>6 DEF StoreFails, AfterFailedStore
<1>7. CASE Reply(r)
  BY <1>7 DEF Reply, Nothing
<1>8. QED
  BY <1>1, <1>2, <1>3, <1>4, <1>5, <1>6, <1>7 DEF RequestStep, Work

\* A tick makes every summary older by one, and takes one from the lifetime of
\* the key or adds one to the work of the request.
LEMMA TickKeepsSummaries ==
  ASSUME TypeOK, SummariesAreRecent, SummariesAreOlder, TickApi
  PROVE  SummariesAreRecent' /\ SummariesAreOlder'
<1> USE DEF TypeOK, ApiTypeOK, Summaries, Windows, Times, NoWindow, backends
<1>1. now' = now + 1 /\ UNCHANGED <<latest, pc, got>>
  BY DEF TickApi
<1>2. \A r \in Requests : pc[r] # "idle" => worked'[r] = worked[r] + 1
  BY DEF TickApi, Busy
<1>3. left' > 0 => left' = left - 1 /\ cached' = cached /\ left > 0
  BY DEF TickApi
<1>4. cached'.window <= latest
  BY DEF TickApi, Nothing, SummariesAreOlder
<1>5. ASSUME NEW r \in Requests
      PROVE  /\ pc'[r] \in {"second", "store"} => now' - got'[r].asOf <= worked'[r]
             /\ pc'[r] = "answered" => now' - got'[r].asOf <= (Ttl - 1) + MaxWork + worked'[r]
  <2>1. got[r].asOf \in Nat /\ worked[r] \in Nat /\ now \in Nat
    OBVIOUS
  <2>2. QED
    BY <1>1, <1>2, <2>1 DEF SummariesAreRecent
<1>6. left' > 0 => now' - cached'.asOf <= (Ttl - left') + MaxWork
  BY <1>1, <1>3 DEF SummariesAreRecent
<1>7. QED
  BY <1>1, <1>4, <1>5, <1>6 DEF SummariesAreRecent, SummariesAreOlder

\* A later window is less behind.
LEMMA NewerIsLessBehind ==
  ASSUME NEW t \in Int, NEW w \in Int, NEW x \in Int, NEW n \in Int, NEW bound \in Int, w < x,
         t - w - n <= bound
  PROVE  t - x - n <= bound
OBVIOUS

\* FreshInv is an invariant.
THEOREM FreshnessInvariant == Spec => []FreshInv
<1>1. Init => FreshInv
  BY DEF Init, ApiInit, Nothing, NoWindow, FreshInv, SummariesAreRecent, SummariesAreOlder,
     GaugeWasExact
<1>2. TypeOK /\ FreshInv /\ [Next]_vars => FreshInv'
  <2> SUFFICES ASSUME TypeOK, FreshInv, [Next]_vars PROVE FreshInv'
    OBVIOUS
  <2> USE DEF FreshInv, TypeOK, ApiTypeOK, Summaries, Windows, Times, NoWindow
  <2>1. ASSUME NEW r \in Requests, RequestStep(r), UNCHANGED gaugeVars
        PROVE  FreshInv'
    <3>1. UNCHANGED <<now, latest, pgUp, faults, gauge, refreshed>>
      BY <2>1 DEF RequestStep, Arrive, Work, Hit, Miss, ReadPageViews, ReadCampaigns, QueryFails,
         Store, StoreFails, Reply, backends, gaugeVars
    <3>2. GaugeWasExact'
      <4>1. GaugeWasExact
        BY DEF FreshInv
      <4>2. QED
        BY ONLY <3>1, <4>1, Zenon DEF GaugeWasExact
    <3>3. QED
      BY <2>1, <3>2, RequestKeepsSummaries
  <2>2. CASE SinkWrites /\ UNCHANGED gaugeVars
    <3>1. /\ latest' \in Nat /\ latest < latest' /\ latest \in Int
          /\ UNCHANGED <<now, pgUp, cached, left, pc, got, worked, faults, gauge, refreshed>>
      BY <2>2 DEF SinkWrites, NewLatest, cache, requests, gaugeVars
    <3>2. SummariesAreRecent'
      BY <3>1 DEF SummariesAreRecent
    <3>3. SummariesAreOlder'
      BY <3>1 DEF SummariesAreOlder
    <3>4. GaugeWasExact'
      <4>1. pgUp'
        BY <2>2 DEF SinkWrites
      <4>2. faults = 0 /\ gauge > 0 => refreshed - latest' - WindowLen <= gauge
        <5>1. faults = 0 /\ gauge > 0 => refreshed - latest - WindowLen <= gauge
          BY DEF GaugeWasExact
        <5>2. /\ refreshed \in Int /\ latest \in Int /\ latest' \in Int /\ gauge \in Int
              /\ WindowLen \in Int /\ latest < latest'
          BY <3>1
        <5>3. QED
          BY <5>1, <5>2, NewerIsLessBehind
      <4>3. refreshed <= now /\ now - refreshed <= RefreshEvery
        BY DEF GaugeWasExact
      <4>4. QED
        BY <3>1, <4>1, <4>2, <4>3 DEF GaugeWasExact
    <3>5. QED
      BY <3>2, <3>3, <3>4
  <2>3. CASE (Outage \/ PostgresBack \/ RedisBack \/ RedisRestart) /\ UNCHANGED gaugeVars
    <3>1. UNCHANGED <<now, latest, pc, got, worked, gauge, refreshed>>
      BY <2>3 DEF Outage, PostgresBack, RedisBack, RedisRestart, requests, gaugeVars, backends
    <3>2. UNCHANGED <<cached, left>> \/ (left' = 0 /\ cached' = Nothing)
      BY <2>3 DEF Outage, PostgresBack, RedisBack, RedisRestart, cache
    <3>3. faults' = 0 => faults = 0 /\ pgUp'
      BY <2>3 DEF Outage, PostgresBack, RedisBack, RedisRestart, GaugeWasExact, backends
    <3>4. SummariesAreRecent' /\ SummariesAreOlder'
      BY <3>1, <3>2 DEF SummariesAreRecent, SummariesAreOlder, Nothing
    <3>5. GaugeWasExact'
      BY <3>1, <3>3 DEF GaugeWasExact
    <3>6. QED
      BY <3>4, <3>5
  <2>4. CASE RefreshGauge
    <3>1. UNCHANGED <<now, latest, pgUp, cached, left, pc, got, worked, faults>>
      BY <2>4 DEF RefreshGauge, apiVars, backends, cache, requests
    <3>2. SummariesAreRecent' /\ SummariesAreOlder'
      BY <3>1 DEF SummariesAreRecent, SummariesAreOlder
    <3>3. refreshed' = now /\ (pgUp => gauge' = GaugeValue(latest, now))
      BY <2>4 DEF RefreshGauge
    <3>4. GaugeValue(latest, now) > 0 => now - latest - WindowLen <= GaugeValue(latest, now)
      BY DEF GaugeValue, AtLeastZero
    <3>5. GaugeWasExact'
      BY <3>1, <3>3, <3>4 DEF GaugeWasExact
    <3>6. QED
      BY <3>2, <3>5
  <2>5. CASE Tick
    <3>1. /\ UNCHANGED <<latest, pgUp, faults, gauge, refreshed>>
          /\ now' = now + 1 /\ now - refreshed < RefreshEvery
      BY <2>5 DEF Tick, TickApi, gaugeVars, backends
    <3>2. GaugeWasExact'
      BY <3>1 DEF GaugeWasExact
    <3>3. SummariesAreRecent' /\ SummariesAreOlder'
      BY <2>5, TickKeepsSummaries DEF Tick
    <3>4. QED
      BY <3>2, <3>3
  <2>6. CASE UNCHANGED vars
    BY <2>6 DEF vars, gaugeVars, apiVars, backends, cache, requests, SummariesAreRecent,
       SummariesAreOlder, GaugeWasExact
  <2>7. QED
    BY <2>1, <2>2, <2>3, <2>4, <2>5, <2>6 DEF Next, ApiStep, RequestStep
<1>3. QED
  BY <1>1, <1>2, FreshnessTypeCorrect, PTL DEF Spec

\* No answer is older than a lifetime of the key and two requests, even when a
\* slow request stores its old summary over a newer one.
THEOREM AnswersRecent == Spec => []AnswersAreRecent
<1>1. TypeOK /\ FreshInv => AnswersAreRecent
  BY DEF TypeOK, ApiTypeOK, Summaries, Times, FreshInv, SummariesAreRecent, AnswersAreRecent
<1>2. QED
  BY <1>1, FreshnessTypeCorrect, FreshnessInvariant, PTL

\* The command line never passes data the DAG would reject at that moment.
THEOREM CliHonest == Spec => []CliNeverHidesStaleness
<1>1. TypeOK /\ FreshInv => CliNeverHidesStaleness
  BY DEF TypeOK, ApiTypeOK, Summaries, Windows, Times, NoWindow, FreshInv, SummariesAreOlder,
     CliNeverHidesStaleness, CliFails, DagRaises, StaleSeconds, AtLeastZero
<1>2. QED
  BY <1>1, FreshnessTypeCorrect, FreshnessInvariant, PTL

\* Without outages a gauge above zero is one round behind at most.
THEOREM GaugeOneRoundBehind == Spec => []GaugeIsOneRoundBehind
<1>1. TypeOK /\ FreshInv => GaugeIsOneRoundBehind
  BY DEF TypeOK, ApiTypeOK, Windows, Times, NoWindow, FreshInv, GaugeWasExact,
     GaugeIsOneRoundBehind
<1>2. QED
  BY <1>1, FreshnessTypeCorrect, FreshnessInvariant, PTL

=============================================================================
