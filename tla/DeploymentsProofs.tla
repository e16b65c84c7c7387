------------------------- MODULE DeploymentsProofs -------------------------
(***************************************************************************)
(* Safety of the parts around the streaming job in all five settings, for  *)
(* every value of the constants: what ProducerClientProofs shows of the    *)
(* producer alone holds of it inside compose, and the topic script, the    *)
(* gauges, the drill, the simulator and the quality report keep what       *)
(* Deployments states.                                                     *)
(***************************************************************************)
EXTENDS Deployments, ProducerClientProofs

USE ProducerAssumption, DeploymentAssumption

-----------------------------------------------------------------------------
(* Who changes what                                                          *)

\* Every variable belongs to one part, and only that part's steps change it.
LEMMA WhoChanges ==
  ASSUME [DeploymentNext]_allVars
  PROVE  /\ stack' = stack
         /\ \/ UNCHANGED initVars
            \/ stack = "compose" /\ T!InitStep /\ UNCHANGED <<started, dead>>
         /\ \/ UNCHANGED started
            \/ stack = "compose" /\ script = "ok" /\ started' = TRUE /\ UNCHANGED <<initVars, dead>>
         /\ \/ UNCHANGED dead
            \/ /\ stack = "compose" /\ started /\ dead < MaxDead /\ dead' = dead + 1
               /\ UNCHANGED <<topic, earlier, initVars, gaugeVars>>
         /\ \/ UNCHANGED gaugeVars
            \/ G!CollectorStep(Ends) /\ UNCHANGED <<topic, earlier, dead, initVars>>
         /\ UNCHANGED drillVars \/ (stack = "kind" /\ (D!ScriptStep \/ D!PodStep))
         /\ UNCHANGED sourceVars \/ (S!SourceStep /\ UNCHANGED qualityVars)
         /\ UNCHANGED qualityVars \/ (Q!QualityStep(counted > 0, S!HasRows) /\ UNCHANGED sourceVars)
         /\ \/ stack \in {"compose", "host"} /\ [Next]_vars /\ UNCHANGED earlier
            \/ /\ stack = "compose" /\ Restart /\ UNCHANGED config
               /\ earlier' = earlier + Len(topic)
            \/ stack \notin {"compose", "host"} /\ UNCHANGED <<producerVars, earlier>>
<1> USE DEF storeVars, composeVars
<1>1. CASE InitContainer
  BY <1>1 DEF InitContainer, vars, producerVars
<1>2. CASE StartServices
  BY <1>2 DEF StartServices, vars, producerVars
<1>3. CASE ProducerMain \/ ClientThread \/ MessageExpires \/ BrokerFaults
  <2>1. InProducer
    BY <1>3 DEF ProducerMain, ClientThread, MessageExpires, BrokerFaults
  <2>2. Next
    BY <1>3, <2>1 DEF ProducerMain, ClientThread, MessageExpires, BrokerFaults, InProducer, Next
  <2>3. QED
    BY <2>1, <2>2 DEF InProducer
<1>4. CASE ProducerRestarts
  BY <1>4 DEF ProducerRestarts
<1>5. CASE DeadLetter
  BY <1>5 DEF DeadLetter, vars, producerVars
<1>6. CASE Collector
  BY <1>6 DEF Collector, vars, producerVars
<1>7. CASE Drill \/ Pod
  <2>1. /\ stack = "kind" /\ (D!ScriptStep \/ D!PodStep)
        /\ UNCHANGED <<stack, composeVars, gaugeVars, storeVars>>
    BY <1>7 DEF Drill, Pod, InKind
  <2>2. /\ UNCHANGED <<stack, gaugeVars, sourceVars, qualityVars>>
        /\ UNCHANGED <<producerVars, earlier, initVars, started, dead>>
    BY <2>1
  <2>3. QED
    BY <2>1, <2>2
<1>8. CASE Source
  BY <1>8 DEF Source, vars, producerVars
<1>9. CASE Quality
  BY <1>9 DEF Quality, vars, producerVars
<1>10. CASE UNCHANGED allVars
  BY <1>10 DEF allVars, vars, producerVars
<1>11. QED
  BY <1>1, <1>2, <1>3, <1>4, <1>5, <1>6, <1>7, <1>8, <1>9, <1>10 DEF DeploymentNext

-----------------------------------------------------------------------------
(* The producer                                                              *)

\* In the other settings this producer does not run.
Untouched == config \in Configs /\ Fresh /\ faults = 0

ProducerPart ==
  /\ stack \in {"compose", "host"} => ProducerInv
  /\ stack \notin {"compose", "host"} => Untouched
  /\ earlier \in Nat

\* What ProducerInv implies holds of a producer that never ran as well.
LEMMA ProducerPartFacts ==
  ASSUME ProducerPart
  PROVE  TopicInOrder /\ Accounted /\ HealthyRunDeliversAll /\ Len(topic) \in Nat
<1>1. CASE stack \in {"compose", "host"}
  BY <1>1, HealthyTopic DEF ProducerPart, ProducerInv, Typed
<1>2. CASE stack \notin {"compose", "host"}
  <2>1. Untouched
    BY <1>2 DEF ProducerPart
  <2> USE DEF Untouched, Fresh
  <2>2. Outstanding = {} /\ With("purged") = {}
    BY <2>1 DEF Outstanding, With
  <2>3. Cardinality(Outstanding) = 0 /\ Cardinality(With("purged")) = 0
    BY <2>2, FS_EmptySet
  <2>4. Accounted
    BY <2>1, <2>3 DEF Accounted, Began
  <2>5. TopicInOrder
    BY <2>1 DEF TopicInOrder, With, InTopic
  <2>6. HealthyRunDeliversAll
    BY <2>1 DEF HealthyRunDeliversAll
  <2>7. QED
    BY <2>1, <2>4, <2>5, <2>6
<1>3. QED
  BY <1>1, <1>2

\* The producer keeps its invariant, is started again, or does nothing.
LEMMA ProducerPartStep ==
  ASSUME ProducerPart, [DeploymentNext]_allVars
  PROVE  ProducerPart'
<1>1. /\ stack' = stack
      /\ \/ stack \in {"compose", "host"} /\ [Next]_vars /\ UNCHANGED earlier
         \/ /\ stack = "compose" /\ Restart /\ UNCHANGED config
            /\ earlier' = earlier + Len(topic)
         \/ stack \notin {"compose", "host"} /\ UNCHANGED <<producerVars, earlier>>
  BY WhoChanges
<1>2. CASE stack \in {"compose", "host"} /\ [Next]_vars /\ UNCHANGED earlier
  BY <1>1, <1>2, ProducerStep DEF ProducerPart
<1>3. CASE stack = "compose" /\ Restart /\ UNCHANGED config /\ earlier' = earlier + Len(topic)
  <2>1. ProducerInv'
    BY <1>3, RestartStep DEF ProducerPart
  <2>2. earlier' \in Nat
    BY <1>3, ProducerPartFacts DEF ProducerPart
  <2>3. QED
    BY <1>1, <1>3, <2>1, <2>2 DEF ProducerPart
<1>4. CASE stack \notin {"compose", "host"} /\ UNCHANGED <<producerVars, earlier>>
  BY <1>1, <1>4 DEF ProducerPart, Untouched, Fresh, producerVars
<1>5. QED
  BY <1>1, <1>2, <1>3, <1>4

\* The end of the topic only grows, over a restart, too.
LEMMA TopicGrows ==
  ASSUME ProducerPart, [DeploymentNext]_allVars
  PROVE  /\ Len(topic) \in Nat /\ earlier \in Nat
         /\ Len(topic') \in Nat /\ earlier' \in Nat
         /\ earlier + Len(topic) <= earlier' + Len(topic')
<1>1. Len(topic) \in Nat /\ earlier \in Nat
  BY ProducerPartFacts DEF ProducerPart
<1>2. CASE UNCHANGED <<topic, earlier>>
  BY <1>1, <1>2
<1>3. CASE stack \in {"compose", "host"} /\ Next /\ UNCHANGED earlier
  <2>1. topic \in Seq(Events)
    BY <1>3 DEF ProducerPart, ProducerInv, Typed
  <2>2. topic' = topic \/ \E i \in Events : topic' = Append(topic, i)
    BY <1>3 DEF Next, Main, Check, Produce, ProduceRaises, Poll,
       FlushServes, FlushReturns, FlushTimesOut, Client, Transmit, BrokerAppends,
       Acknowledge, MessageTimesOut, ConnectionLost, BrokerDown, BrokerBack
  <2>3. Len(topic') \in Nat /\ Len(topic) <= Len(topic')
    BY <2>1, <2>2
  <2>4. QED
    BY <1>1, <1>3, <2>3
<1>4. CASE Restart /\ earlier' = earlier + Len(topic)
  <2>1. Len(topic') = 0
    BY <1>4 DEF Restart
  <2>2. QED
    BY <1>1, <1>4, <2>1
<1>5. QED
  BY <1>2, <1>3, <1>4, WhoChanges DEF producerVars, vars

-----------------------------------------------------------------------------
(* The topics                                                                *)

\* A topic with another number of partitions than declared was there before;
\* the script ends well only when there are all topics, and everything else
\* waits for it.
TopicsPart ==
  /\ stack \in Stacks
  /\ T!InitTypeOK
  /\ started \in BOOLEAN /\ dead \in 0 .. MaxDead
  /\ \A t \in Topics : parts[t] = 1 => t \in foreign
  /\ script = "ok" => \A t \in Topics : parts[t] # 0
  /\ script # "ok" => ~ started /\ dead = 0

\* The script, the services that wait for it and other clients keep it.
LEMMA TopicsPartStep ==
  ASSUME TopicsPart, [DeploymentNext]_allVars
  PROVE  TopicsPart'
<1>0. /\ stack' = stack
      /\ UNCHANGED initVars \/ (T!InitStep /\ UNCHANGED <<started, dead>>)
      /\ started' = started \/ (script = "ok" /\ started' = TRUE)
      /\ dead' = dead \/ (started /\ dead < MaxDead /\ dead' = dead + 1)
  BY WhoChanges
<1>1. CASE T!InitStep /\ UNCHANGED <<started, dead>> /\ stack' = stack
  <2> USE DEF TopicsPart, T!InitTypeOK
  <2>1. CASE T!RequestTopics \/ T!CreateReturns \/ T!VerifyReady \/ T!VerifyFails \/ T!Rerun
    BY <1>1, <2>1 DEF T!RequestTopics, T!CreateReturns, T!VerifyReady, T!VerifyFails,
       T!Rerun, T!ReadyAll
  <2>2. ASSUME NEW t \in Topics, T!BrokerCreates(t)
        PROVE  TopicsPart'
    BY <1>1, <2>2 DEF T!BrokerCreates
  <2>3. ASSUME NEW t \in Topics, T!AnotherClientCreates(t)
        PROVE  TopicsPart'
    BY <1>1, <2>3 DEF T!AnotherClientCreates
  <2>4. QED
    BY <1>1, <2>1, <2>2, <2>3 DEF T!InitStep
<1>2. ASSUME UNCHANGED <<parts, foreign, asked, script>>, stack' = stack,
             \/ started' = started
             \/ script = "ok" /\ started' = TRUE,
             \/ dead' = dead
             \/ started /\ dead < MaxDead /\ dead' = dead + 1
      PROVE  TopicsPart'
  <2>1. script # "ok" => ~ started' /\ dead' = dead
    BY <1>2, Zenon DEF TopicsPart
  <2>2. script # "ok" => ~ started' /\ dead' = 0
    BY <2>1, Zenon DEF TopicsPart
  <2>3. started' \in BOOLEAN
    BY <1>2, Zenon DEF TopicsPart
  <2>4. dead' \in 0 .. MaxDead
    BY <1>2 DEF TopicsPart
  <2>5. QED
    BY <1>2, <2>2, <2>3, <2>4 DEF TopicsPart, T!InitTypeOK
<1>3. QED
  BY <1>0, <1>1, <1>2 DEF initVars

-----------------------------------------------------------------------------
(* The gauges                                                                *)

\* A gauge never runs ahead of its topic.
GaugesPart ==
  /\ G!GaugeTypeOK
  /\ \A t \in Topics : gauge[t] <= Ends[t]
  /\ roundEnd <= dead

\* The gauges are those of the two topics, clicks.dlq the last.
LEMMA PolledTopics ==
  G!Names = Topics /\ Len(Polled) = 2 /\ DOMAIN Polled = {1, 2}
  /\ Polled[1] = Clicks /\ Polled[2] = Dlq /\ Clicks # Dlq
BY DEF G!Names, Topics, Polled, Clicks, Dlq

\* A round reads ends that only grow.
LEMMA GaugesPartStep ==
  ASSUME ProducerPart, TopicsPart, GaugesPart, [DeploymentNext]_allVars
  PROVE  GaugesPart'
<1> USE PolledTopics DEF GaugesPart, G!GaugeTypeOK, gaugeVars
<1>1. /\ Len(topic) \in Nat /\ earlier \in Nat /\ Len(topic') \in Nat /\ earlier' \in Nat
      /\ earlier + Len(topic) <= earlier' + Len(topic')
  BY TopicGrows
<1>2. dead \in 0 .. MaxDead /\ dead' \in Nat /\ dead <= dead'
  <2>1. dead' = dead \/ dead' = dead + 1
    BY WhoChanges
  <2>2. QED
    BY <2>1 DEF TopicsPart
<1>3. \A t \in Topics : /\ Ends[t] \in Nat /\ Ends'[t] \in Nat /\ Ends[t] <= Ends'[t]
  BY <1>1, <1>2 DEF Ends
<1>4. Ends[Dlq] = dead
  BY DEF Ends, Topics
<1>5. \A t \in Topics : gauge[t] \in Nat /\ gauge[t] <= Ends'[t]
  BY <1>3
<1>6. CASE UNCHANGED gaugeVars
  BY <1>2, <1>5, <1>6
<1>7. CASE G!OpenConsumer(Ends) /\ dead' = dead
  BY <1>2, <1>4, <1>5, <1>7 DEF G!OpenConsumer
<1>8. CASE (G!OpenRaises \/ G!RoundRaises) /\ dead' = dead
  BY <1>2, <1>5, <1>8 DEF G!OpenRaises, G!RoundRaises, G!Asleep, G!AfterException
<1>9. CASE G!PollTopic(Ends) /\ dead' = dead
  <2>1. Polled[position] \in Topics
    BY DEF Topics
  <2>2. /\ gauge' = gauge \/ gauge' = [gauge EXCEPT ![Polled[position]] = Ends[Polled[position]]]
        /\ \/ collector' = "asleep" /\ position' = 1 /\ roundEnd' = 0
           \/ position = 1 /\ position' = 2 /\ UNCHANGED <<collector, roundEnd>>
    BY <1>9 DEF G!PollTopic, G!IsLastTopic, G!Asleep
  <2>3. gauge' \in [Topics -> Nat] /\ \A t \in Topics : gauge'[t] <= Ends'[t]
    BY <1>3, <1>5, <2>1, <2>2
  <2>4. QED
    BY <1>2, <1>9, <2>2, <2>3
<1>10. QED
  BY <1>6, <1>7, <1>8, <1>9, WhoChanges DEF G!CollectorStep

-----------------------------------------------------------------------------
(* The drill                                                                 *)

\* There is first the victim, then no pod, then another one; the drill reads
\* the UID of the victim late, but whatever it read then, a different UID that
\* is not empty belongs to a later pod.
DrillPart ==
  /\ D!DrillTypeOK
  /\ drill = "delete" => pod = D!Victim /\ ~ terminating
  /\ terminating => pod = D!Victim
  /\ drill \in {"delete", "old"} => uid = 0
  /\ drill \in {"delete", "old", "uid", "ready"} => polls < MaxPolls
  /\ drill = "recovered" => uid # 0 /\ uid # oldUid
  /\ misses = 0 /\ drill \notin {"delete", "old"} =>
       /\ oldUid # D!Victim => pod # D!Victim
       /\ uid # 0 /\ uid # oldUid => uid # D!Victim /\ pod # D!Victim

\* The broker is up or it is not, whoever stops it.
LEMMA BrokerStep ==
  ASSUME ProducerPart, brokerUp \in BOOLEAN, [DeploymentNext]_allVars
  PROVE  brokerUp' \in BOOLEAN
<1>1. CASE stack \in {"compose", "host"}
  BY <1>1, ProducerPartStep, WhoChanges DEF ProducerPart, ProducerInv, Typed
<1>2. CASE stack \notin {"compose", "host"}
  <2>1. brokerUp' = brokerUp \/ D!PodStep \/ D!ScriptStep
    BY <1>2 DEF DeploymentNext, allVars, InitContainer, StartServices, ProducerRestarts,
       ProducerMain, ClientThread, MessageExpires, BrokerFaults, InProducer, DeadLetter,
       Collector, Drill, Pod, Source, Quality
  <2>2. QED
    BY <2>1 DEF D!PodStep, D!PodStops, D!PodCreated, D!PodReady, D!ScriptStep, D!Delete,
       D!ReadOldUid, D!ReadUid, D!ReadReady, D!Verdict
<1>3. QED
  BY <1>1, <1>2

\* The script and the pod keep it.
LEMMA DrillPartStep ==
  ASSUME DrillPart, brokerUp \in BOOLEAN, [DeploymentNext]_allVars
  PROVE  DrillPart'
<1>0. UNCHANGED drillVars \/ D!ScriptStep \/ D!PodStep
  BY WhoChanges
<1> USE DEF DrillPart, D!DrillTypeOK, D!Victim, D!Uids, D!podVars, D!scriptVars, D!Read
<1>1. CASE UNCHANGED drillVars
  BY <1>1 DEF drillVars
<1>2. CASE D!PodStep
  <2>1. UNCHANGED <<drill, oldUid, uid, ready, polls, misses>>
    BY <1>2 DEF D!PodStep, D!PodStops, D!PodCreated, D!PodReady
  <2>0. terminating' = FALSE \/ terminating' = terminating
    BY <1>2 DEF D!PodStep, D!PodStops, D!PodCreated, D!PodReady
  <2>2. /\ terminating' \in BOOLEAN
        /\ drill = "delete" => ~ terminating'
        /\ terminating' => pod = D!Victim
    <3>1. CASE terminating' = FALSE
      BY <3>1
    <3>2. CASE terminating' = terminating
      BY <3>2
    <3>3. QED
      BY <2>0, <3>1, <3>2
  <2>3. /\ pod' \in D!Uids
        /\ pod # D!Victim => pod' # D!Victim
        /\ pod' = pod \/ drill # "delete"
        /\ terminating' => pod' = pod
    BY <1>2 DEF D!PodStep, D!PodStops, D!PodCreated, D!PodReady
  <2>4. QED
    BY <2>1, <2>2, <2>3
<1>3. CASE D!Delete
  BY <1>3 DEF D!Delete
<1>4. CASE D!ReadOldUid
  BY <1>4 DEF D!ReadOldUid
<1>5. CASE D!ReadUid
  BY <1>5 DEF D!ReadUid
<1>6. CASE D!ReadReady \/ D!Verdict
  <2> DEFINE Looked == uid # 0 /\ uid # oldUid
  <2>1. /\ UNCHANGED <<pod, terminating, oldUid, uid>>
        /\ misses' = misses \/ (misses' = misses + 1 /\ misses < MaxMisses)
    BY <1>6 DEF D!ReadReady, D!Verdict
  <2>2. \/ drill = "ready" /\ drill' \in {"lastUid", "uid"} /\ polls' = polls + 1
           /\ (drill' = "uid" => polls' # MaxPolls)
        \/ drill = "lastReady" /\ drill' = "error" /\ polls' = polls
        \/ drill = "lastReady" /\ drill' = "recovered" /\ Looked /\ polls' = polls
    BY <1>6 DEF D!ReadReady, D!Verdict, D!Recovered
  <2>3. ready' \in BOOLEAN
    <3>1. ready' = brokerUp \/ ready' = FALSE
      BY <1>6, Zenon DEF D!ReadReady, D!Verdict, D!Read
    <3>2. QED
      BY <1>6, <3>1
  <2>4. QED
    BY <2>1, <2>2, <2>3
<1>7. QED
  BY <1>0, <1>1, <1>2, <1>3, <1>4, <1>5, <1>6 DEF D!ScriptStep

-----------------------------------------------------------------------------
(* The quality report                                                        *)

\* What the rows in hand say of the two stores was true when it was read.
QualityPart ==
  /\ Q!QualityTypeOK
  /\ quality = "clickhouse" /\ Q!FailedChecks = {} => counted > 0
  /\ quality \in {"json", "html"} /\ Q!FailedChecks = {} => counted > 0 /\ S!HasRows
  /\ quality = "html" => json = Q!Badge
  /\ quality # "idle" => exit = "none"
  /\ PassMeansRows

\* The checks look at stores whose rows stay.
LEMMA QualityPartStep ==
  ASSUME QualityPart, [DeploymentNext]_allVars,
         counted > 0 => counted' > 0, S!HasRows => S!HasRows'
  PROVE  QualityPart'
<1>0. \/ UNCHANGED qualityVars
      \/ Q!QualityStep(counted > 0, S!HasRows) /\ UNCHANGED sourceVars
  BY WhoChanges
<1> USE DEF QualityPart, PassMeansRows, Q!QualityTypeOK, Q!Badges, Q!FailedChecks, Q!Badge
<1>1. CASE UNCHANGED qualityVars
  BY <1>1 DEF qualityVars
<1>2. CASE Q!StartChecks
  BY <1>2 DEF Q!StartChecks
<1>3. CASE Q!CheckPostgres(counted > 0)
  BY <1>3 DEF Q!CheckPostgres, Q!Status
<1>4. CASE Q!CheckClickhouse(S!HasRows)
  BY <1>4 DEF Q!CheckClickhouse, Q!Status
<1>5. CASE Q!CheckRaises \/ Q!Interrupted
  BY <1>5 DEF Q!CheckRaises, Q!Interrupted
<1>6. CASE Q!WriteJson
  BY <1>6 DEF Q!WriteJson
<1>7. CASE Q!WriteHtml
  BY <1>7 DEF Q!WriteHtml
<1>8. QED
  BY <1>0, <1>1, <1>2, <1>3, <1>4, <1>5, <1>6, <1>7 DEF Q!QualityStep

-----------------------------------------------------------------------------
(* The seed                                                                  *)

\* What a seed (w, l) determines: the words at which a process can be between
\* two draws are dd, and at each of them it is in session ss, has ll events of
\* it left and has made mm events.  Only the last word of dd may be unread, and
\* a later word is a later event.
Trail(w, l, dd, ss, ll, mm) ==
  /\ dd \subseteq Nat /\ 0 \in dd
  /\ ss \in [dd -> Nat] /\ ll \in [dd -> Nat] /\ mm \in [dd -> Nat]
  /\ ss[0] = 0 /\ ll[0] = 0 /\ mm[0] = 0
  /\ DOMAIN w \subseteq dd /\ \A p \in DOMAIN w : w[p] \in Takes
  /\ DOMAIN l \subseteq DOMAIN w /\ \A p \in DOMAIN l : l[p] \in SessionLengths
  /\ \A p \in dd : p \notin DOMAIN w => \A q \in dd : q <= p
  /\ \A p \in DOMAIN w :
       /\ p + w[p] \in dd
       /\ ll[p] = 0 => /\ p \in DOMAIN l
                       /\ ss[p + w[p]] = p /\ ll[p + w[p]] = l[p]
                       /\ mm[p + w[p]] = mm[p]
       /\ ll[p] # 0 => /\ ss[p + w[p]] = ss[p] /\ ll[p + w[p]] = ll[p] - 1
                       /\ mm[p + w[p]] = mm[p] + 1
  /\ \A p, q \in dd : p < q => mm[p] <= mm[q] /\ (ll[p] # 0 => mm[p] < mm[q])

\* The process is on the trail ...
OnTrail(dd, ss, ll, mm) ==
  state \in dd /\ session = ss[state] /\ left = ll[state] /\ made = mm[state]

\* ... and so was every process when it made an event.
MadeOnTrail(dd, ss, ll, mm) ==
  \A i \in DOMAIN emitted :
    /\ emitted[i].id \in dd /\ ll[emitted[i].id] # 0
    /\ emitted[i].nth = mm[emitted[i].id] + 1
    /\ emitted[i].session = ss[emitted[i].id]

\* One trail explains all processes.
SeedPart ==
  \E dd, ss, ll, mm :
    /\ Trail(words, lengths, dd, ss, ll, mm)
    /\ OnTrail(dd, ss, ll, mm) /\ MadeOnTrail(dd, ss, ll, mm)

\* A draw at the word s reads (w2, l2) of the seed: a header the length of its
\* session, too.
Draw(w, l, ll, s, w2, l2) ==
  /\ w2 \in S!Read(w, s, Takes)
  /\ ll[s] = 0 => l2 \in S!Read(l, s, SessionLengths)
  /\ ll[s] # 0 => l2 = l

\* What was read then determines a trail with the same beginning, and the draw
\* has led to another word of it.
LongerTrail(dd, ss, ll, mm, s, w2, l2) ==
  \E dd2, ss2, ll2, mm2 :
    /\ Trail(w2, l2, dd2, ss2, ll2, mm2)
    /\ dd \subseteq dd2
    /\ \A p \in dd : ss2[p] = ss[p] /\ ll2[p] = ll[p] /\ mm2[p] = mm[p]
    /\ s + w2[s] \in dd2
    /\ ll[s] = 0 => /\ ss2[s + w2[s]] = s /\ ll2[s + w2[s]] = l2[s]
                    /\ mm2[s + w2[s]] = mm[s]
    /\ ll[s] # 0 => /\ ss2[s + w2[s]] = ss[s] /\ ll2[s + w2[s]] = ll[s] - 1
                    /\ mm2[s + w2[s]] = mm[s] + 1

\* It is a word that an earlier process has reached, or the trail gets longer.
LEMMA TrailGrows ==
  ASSUME NEW w, NEW l, NEW dd, NEW ss, NEW ll, NEW mm, Trail(w, l, dd, ss, ll, mm),
         NEW s \in dd, NEW w2, NEW l2, Draw(w, l, ll, s, w2, l2)
  PROVE  LongerTrail(dd, ss, ll, mm, s, w2, l2)
<1>0. /\ w2 \in S!Read(w, s, Takes)
      /\ ll[s] = 0 => l2 \in S!Read(l, s, SessionLengths)
      /\ ll[s] # 0 => l2 = l
  BY DEF Draw
<1>1. CASE s \in DOMAIN w
  <2>1. w2 = w
    BY <1>0, <1>1 DEF S!Read
  <2>2. l2 = l
    BY <1>0, <1>1 DEF S!Read, Trail
  <2>3. s + w[s] \in dd
    BY <1>1 DEF Trail
  <2>4. /\ ll[s] = 0 => /\ ss[s + w[s]] = s /\ ll[s + w[s]] = l[s] /\ mm[s + w[s]] = mm[s]
        /\ ll[s] # 0 => /\ ss[s + w[s]] = ss[s] /\ ll[s + w[s]] = ll[s] - 1
                        /\ mm[s + w[s]] = mm[s] + 1
    BY <1>1 DEF Trail
  <2>5. QED
    BY <2>1, <2>2, <2>3, <2>4, Zenon DEF LongerTrail
<1>2. CASE s \notin DOMAIN w
  <2>1. PICK v \in Takes : w2 = [x \in DOMAIN w \cup {s} |-> IF x = s THEN v ELSE w[x]]
    BY <1>0, <1>2 DEF S!Read
  <2>2. /\ DOMAIN w2 = DOMAIN w \cup {s} /\ w2[s] = v /\ v \in Nat /\ v > 0
        /\ \A p \in DOMAIN w : w2[p] = w[p] /\ p # s
    BY <1>2, <2>1
  <2>3. /\ DOMAIN l2 \subseteq DOMAIN w \cup {s}
        /\ \A p \in DOMAIN l2 : l2[p] \in SessionLengths
        /\ \A p \in DOMAIN l : p \in DOMAIN l2 /\ l2[p] = l[p]
        /\ ll[s] = 0 => s \in DOMAIN l2
    <3>1. CASE ll[s] # 0
      BY <1>0, <3>1 DEF Trail
    <3>2. CASE ll[s] = 0
      <4>1. s \notin DOMAIN l
        BY <1>2 DEF Trail
      <4>2. PICK u \in SessionLengths :
              l2 = [x \in DOMAIN l \cup {s} |-> IF x = s THEN u ELSE l[x]]
        BY <1>0, <3>2, <4>1 DEF S!Read
      <4>3. DOMAIN l \subseteq DOMAIN w /\ \A p \in DOMAIN l : l[p] \in SessionLengths
        BY DEF Trail
      <4>4. QED
        BY <4>1, <4>2, <4>3
    <3>3. QED
      BY <3>1, <3>2
  <2> DEFINE n == s + v
             sn == IF ll[s] = 0 THEN s ELSE ss[s]
             ln == IF ll[s] = 0 THEN l2[s] ELSE ll[s] - 1
             mn == IF ll[s] = 0 THEN mm[s] ELSE mm[s] + 1
  <2>4. /\ s \in Nat /\ n \in Nat /\ n > s /\ n \notin dd
        /\ \A q \in dd : q \in Nat /\ q <= s /\ q < n /\ q # n
    <3>1. s \in Nat /\ \A q \in dd : q \in Nat /\ q <= s
      BY <1>2 DEF Trail
    <3>2. QED
      BY <2>2, <3>1
  <2>5. sn \in Nat /\ ln \in Nat /\ mn \in Nat
    <3>1. ss[s] \in Nat /\ ll[s] \in Nat /\ mm[s] \in Nat
      BY DEF Trail
    <3>2. ll[s] = 0 => l2[s] \in Nat
      BY <2>3
    <3>3. QED
      BY <2>4, <3>1, <3>2
  <2>6. PICK dd2, ss2, ll2, mm2 :
          /\ dd2 = dd \cup {n}
          /\ ss2 \in [dd2 -> Nat] /\ ll2 \in [dd2 -> Nat] /\ mm2 \in [dd2 -> Nat]
          /\ \A p \in dd : ss2[p] = ss[p] /\ ll2[p] = ll[p] /\ mm2[p] = mm[p]
          /\ ss2[n] = sn /\ ll2[n] = ln /\ mm2[n] = mn
    <3> DEFINE xs == [p \in dd \cup {n} |-> IF p = n THEN sn ELSE ss[p]]
               xl == [p \in dd \cup {n} |-> IF p = n THEN ln ELSE ll[p]]
               xm == [p \in dd \cup {n} |-> IF p = n THEN mn ELSE mm[p]]
    <3> HIDE DEF n, sn, ln, mn
    <3>1. ss \in [dd -> Nat] /\ ll \in [dd -> Nat] /\ mm \in [dd -> Nat]
      BY DEF Trail
    <3>2. /\ xs \in [dd \cup {n} -> Nat] /\ xl \in [dd \cup {n} -> Nat]
          /\ xm \in [dd \cup {n} -> Nat]
          /\ \A p \in dd : xs[p] = ss[p] /\ xl[p] = ll[p] /\ xm[p] = mm[p]
          /\ xs[n] = sn /\ xl[n] = ln /\ xm[n] = mn
      BY <2>4, <2>5, <3>1
    <3> HIDE DEF xs, xl, xm
    <3>3. QED
      BY <3>2
  <2> HIDE DEF n, sn, ln, mn
  <2>7. /\ dd2 \subseteq Nat /\ 0 \in dd2 /\ dd \subseteq dd2
        /\ ss2[0] = 0 /\ ll2[0] = 0 /\ mm2[0] = 0
        /\ DOMAIN w2 \subseteq dd2 /\ \A p \in DOMAIN w2 : w2[p] \in Takes
        /\ DOMAIN l2 \subseteq DOMAIN w2
    BY <2>2, <2>3, <2>4, <2>6 DEF Trail
  <2>8. \A p \in dd2 : p \notin DOMAIN w2 => \A q \in dd2 : q <= p
    <3> SUFFICES ASSUME NEW p \in dd2, p \notin DOMAIN w2, NEW q \in dd2
                 PROVE  q <= p
      OBVIOUS
    <3>1. CASE p = n
      BY <2>4, <2>6, <3>1
    <3>2. CASE p \in dd
      <4>1. p \notin DOMAIN w /\ p # s
        BY <2>2
      <4>2. s <= p /\ p <= s
        BY <2>4, <3>2, <4>1 DEF Trail
      <4>3. QED
        BY <2>4, <3>2, <4>1, <4>2
    <3>3. QED
      BY <2>6, <3>1, <3>2
  <2>9. ASSUME NEW p \in DOMAIN w2
        PROVE  /\ p + w2[p] \in dd2
               /\ ll2[p] = 0 => /\ p \in DOMAIN l2
                                /\ ss2[p + w2[p]] = p /\ ll2[p + w2[p]] = l2[p]
                                /\ mm2[p + w2[p]] = mm2[p]
               /\ ll2[p] # 0 => /\ ss2[p + w2[p]] = ss2[p] /\ ll2[p + w2[p]] = ll2[p] - 1
                                /\ mm2[p + w2[p]] = mm2[p] + 1
    <3>1. CASE p = s
      <4>1. p + w2[p] = n
        BY <2>2, <3>1 DEF n
      <4>2. ll2[p] = ll[s] /\ mm2[p] = mm[s] /\ ss2[p] = ss[s]
        BY <2>6, <3>1
      <4>3. QED
        BY <2>3, <2>6, <3>1, <4>1, <4>2 DEF sn, ln, mn
    <3>2. CASE p \in DOMAIN w
      <4>1. w2[p] = w[p] /\ p \in dd
        BY <2>2, <3>2 DEF Trail
      <4>2. p + w[p] \in dd
        BY <3>2 DEF Trail
      <4>3. /\ ll[p] = 0 => /\ p \in DOMAIN l
                            /\ ss[p + w[p]] = p /\ ll[p + w[p]] = l[p]
                            /\ mm[p + w[p]] = mm[p]
            /\ ll[p] # 0 => /\ ss[p + w[p]] = ss[p] /\ ll[p + w[p]] = ll[p] - 1
                            /\ mm[p + w[p]] = mm[p] + 1
        BY <3>2 DEF Trail
      <4>4. /\ ll2[p] = ll[p] /\ mm2[p] = mm[p] /\ ss2[p] = ss[p]
            /\ ll2[p + w[p]] = ll[p + w[p]] /\ mm2[p + w[p]] = mm[p + w[p]]
            /\ ss2[p + w[p]] = ss[p + w[p]]
        BY <2>6, <4>1, <4>2
      <4>5. p \in DOMAIN l => p \in DOMAIN l2 /\ l2[p] = l[p]
        BY <2>3
      <4>6. p + w[p] \in dd2
        BY <2>7, <4>2
      <4>7. QED
        BY <4>1, <4>3, <4>4, <4>5, <4>6
    <3>3. QED
      BY <2>2, <3>1, <3>2
  <2>10. ASSUME NEW p \in dd2, NEW q \in dd2, p < q
         PROVE  mm2[p] <= mm2[q] /\ (ll2[p] # 0 => mm2[p] < mm2[q])
    <3>0. /\ \A x, y \in dd : x < y => mm[x] <= mm[y] /\ (ll[x] # 0 => mm[x] < mm[y])
          /\ \A x \in dd : mm[x] \in Nat /\ ll[x] \in Nat
      BY DEF Trail
    <3>1. p \in dd
      BY <2>4, <2>6, <2>10
    <3>2. CASE q \in dd
      BY <2>6, <2>10, <3>0, <3>1, <3>2
    <3>3. CASE q = n
      <4>1. mm[p] <= mm[s] /\ (p # s /\ ll[p] # 0 => mm[p] < mm[s])
        BY <2>4, <3>0, <3>1
      <4>2. mm[s] <= mn /\ (ll[s] # 0 => mm[s] < mn)
        BY <3>0 DEF mn
      <4>3. mm2[p] = mm[p] /\ ll2[p] = ll[p] /\ mm2[q] = mn
        BY <2>6, <3>1, <3>3
      <4>4. QED
        BY <2>5, <3>0, <3>1, <4>1, <4>2, <4>3
    <3>4. QED
      BY <2>6, <3>2, <3>3
  <2>11. Trail(w2, l2, dd2, ss2, ll2, mm2)
    BY <2>3, <2>6, <2>7, <2>8, <2>9, <2>10 DEF Trail
  <2>12. s + w2[s] = n
    BY <2>2 DEF n
  <2>13. QED
    BY <2>6, <2>7, <2>11, <2>12 DEF sn, ln, mn, LongerTrail
<1>3. QED
  BY <1>1, <1>2

\* A header or an event is drawn.
LEMMA SeedStep ==
  ASSUME SeedPart, emitted \in Seq(S!Events), S!OpenSession \/ S!Emit
  PROVE  SeedPart'
<1>1. PICK dd, ss, ll, mm :
        /\ Trail(words, lengths, dd, ss, ll, mm)
        /\ OnTrail(dd, ss, ll, mm) /\ MadeOnTrail(dd, ss, ll, mm)
  BY DEF SeedPart
<1>2. /\ state \in dd /\ words' \in S!Read(words, state, Takes)
      /\ state' = state + words'[state]
      /\ ll[state] = 0 => /\ lengths' \in S!Read(lengths, state, SessionLengths)
                          /\ session' = state /\ left' = lengths'[state] /\ made' = made
                          /\ emitted' = emitted
      /\ ll[state] # 0 => /\ lengths' = lengths
                          /\ session' = session /\ left' = left - 1 /\ made' = made + 1
                          /\ emitted' = Append(emitted, S!Event)
  BY <1>1 DEF OnTrail, S!OpenSession, S!Emit, S!Drawn
<1>3. PICK dd2, ss2, ll2, mm2 :
        /\ Trail(words', lengths', dd2, ss2, ll2, mm2)
        /\ dd \subseteq dd2
        /\ \A p \in dd : ss2[p] = ss[p] /\ ll2[p] = ll[p] /\ mm2[p] = mm[p]
        /\ state + words'[state] \in dd2
        /\ ll[state] = 0 => /\ ss2[state + words'[state]] = state
                            /\ ll2[state + words'[state]] = lengths'[state]
                            /\ mm2[state + words'[state]] = mm[state]
        /\ ll[state] # 0 => /\ ss2[state + words'[state]] = ss[state]
                            /\ ll2[state + words'[state]] = ll[state] - 1
                            /\ mm2[state + words'[state]] = mm[state] + 1
  <2>1. Draw(words, lengths, ll, state, words', lengths')
    BY <1>2 DEF Draw
  <2>2. LongerTrail(dd, ss, ll, mm, state, words', lengths')
    BY <1>1, <1>2, <2>1, TrailGrows
  <2>3. QED
    BY <2>2 DEF LongerTrail
<1>4. OnTrail(dd2, ss2, ll2, mm2)'
  BY <1>1, <1>2, <1>3 DEF OnTrail
<1>5. \A i \in DOMAIN emitted :
        /\ emitted[i].id \in dd2 /\ ll2[emitted[i].id] # 0
        /\ emitted[i].nth = mm2[emitted[i].id] + 1
        /\ emitted[i].session = ss2[emitted[i].id]
  BY <1>1, <1>3 DEF MadeOnTrail
<1>6. MadeOnTrail(dd2, ss2, ll2, mm2)'
  <2>1. CASE ll[state] = 0
    BY <1>2, <1>5, <2>1 DEF MadeOnTrail
  <2>2. CASE ll[state] # 0
    <3> DEFINE L == Len(emitted)
    <3>1. /\ L \in Nat /\ DOMAIN emitted = 1 .. L /\ DOMAIN emitted' = 1 .. L + 1
          /\ emitted'[L + 1] = S!Event /\ \A i \in 1 .. L : emitted'[i] = emitted[i]
      BY <1>2, <2>2
    <3> HIDE DEF L
    <3>2. S!Event.id = state /\ S!Event.nth = made + 1 /\ S!Event.session = session
      BY DEF S!Event, S!DrawnId
    <3>3. /\ state \in dd2 /\ ll2[state] # 0 /\ made + 1 = mm2[state] + 1
          /\ session = ss2[state]
      BY <1>1, <1>2, <1>3, <2>2 DEF OnTrail
    <3>4. QED
      BY <1>5, <3>1, <3>2, <3>3 DEF MadeOnTrail
  <2>3. QED
    BY <2>1, <2>2
<1>7. QED
  BY <1>3, <1>4, <1>6 DEF SeedPart

\* A new process begins at the beginning of the trail, the others stay where
\* they are.
LEMMA SeedStays ==
  ASSUME SeedPart, UNCHANGED <<words, lengths, emitted>>,
         \/ UNCHANGED <<state, session, left, made>>
         \/ state' = 0 /\ session' = 0 /\ left' = 0 /\ made' = 0
  PROVE  SeedPart'
<1>1. PICK dd, ss, ll, mm :
        /\ Trail(words, lengths, dd, ss, ll, mm)
        /\ OnTrail(dd, ss, ll, mm) /\ MadeOnTrail(dd, ss, ll, mm)
  BY DEF SeedPart
<1>2. 0 \in dd /\ ss[0] = 0 /\ ll[0] = 0 /\ mm[0] = 0
  BY <1>1 DEF Trail
<1>3. OnTrail(dd, ss, ll, mm)' /\ MadeOnTrail(dd, ss, ll, mm)'
  BY <1>1, <1>2 DEF OnTrail, MadeOnTrail
<1>4. Trail(words', lengths', dd, ss, ll, mm)
  BY <1>1
<1>5. QED
  BY <1>3, <1>4 DEF SeedPart

\* The seed has the types that SourceTypeOK says, and the events of all
\* processes repeat: the same word is the same event.
SeedTypes ==
  /\ DOMAIN words \subseteq Nat /\ \A s \in DOMAIN words : words[s] \in Takes
  /\ DOMAIN lengths \subseteq Nat /\ \A s \in DOMAIN lengths : lengths[s] \in SessionLengths
  /\ state \in Nat /\ session \in Nat /\ left \in Nat

\* The trail implies both.
LEMMA SeedFacts == SeedPart => SeedTypes /\ SeedRepeatsIds
<1> SUFFICES ASSUME SeedPart PROVE SeedTypes /\ SeedRepeatsIds
  OBVIOUS
<1>1. PICK dd, ss, ll, mm :
        /\ Trail(words, lengths, dd, ss, ll, mm)
        /\ OnTrail(dd, ss, ll, mm) /\ MadeOnTrail(dd, ss, ll, mm)
  BY DEF SeedPart
<1>2. /\ DOMAIN words \subseteq Nat /\ \A s \in DOMAIN words : words[s] \in Takes
      /\ DOMAIN lengths \subseteq Nat /\ \A s \in DOMAIN lengths : lengths[s] \in SessionLengths
  BY <1>1 DEF Trail
<1>3. state \in Nat /\ session \in Nat /\ left \in Nat
  BY <1>1 DEF Trail, OnTrail
<1>4. ASSUME NEW i \in DOMAIN emitted, NEW j \in DOMAIN emitted
      PROVE  /\ emitted[i].nth = emitted[j].nth <=> emitted[i].id = emitted[j].id
             /\ emitted[i].nth = emitted[j].nth => emitted[i].session = emitted[j].session
  <2> DEFINE p == emitted[i].id
             q == emitted[j].id
  <2>1. /\ p \in dd /\ ll[p] # 0 /\ emitted[i].nth = mm[p] + 1 /\ emitted[i].session = ss[p]
        /\ q \in dd /\ ll[q] # 0 /\ emitted[j].nth = mm[q] + 1 /\ emitted[j].session = ss[q]
    BY <1>1 DEF MadeOnTrail
  <2> HIDE DEF p, q
  <2>2. /\ p \in Nat /\ q \in Nat /\ mm[p] \in Nat /\ mm[q] \in Nat
        /\ p < q => mm[p] < mm[q]
        /\ q < p => mm[q] < mm[p]
    BY <1>1, <2>1 DEF Trail
  <2>3. mm[p] = mm[q] <=> p = q
    BY <2>2
  <2>4. QED
    BY <2>1, <2>2, <2>3 DEF p, q
<1>5. QED
  BY <1>2, <1>3, <1>4 DEF SeedTypes, SeedRepeatsIds

\* And so after every step.
LEMMA SeedFactsNext == SeedPart' => SeedTypes'
BY SeedFacts, PTL

-----------------------------------------------------------------------------
(* The clock and the stores                                                  *)

\* The clocks: an event has the second in which it was due, which began no
\* later than the event was made, and what is made next is not older.
ClockPart ==
  /\ running => Second <= begun /\ begun <= wall
  /\ \A i \in DOMAIN emitted :
       /\ emitted[i].ts <= emitted[i].at /\ emitted[i].at <= wall
       /\ S!Truncated(emitted[i].ts) = emitted[i].ts
       /\ running => emitted[i].ts <= S!Ts

\* An arrival in ClickHouse is a new row or a repetition, and a row has the
\* latest of its timestamps.
StoresPart ==
  /\ DOMAIN clicks = {emitted[i].id : i \in 1 .. stored}
  /\ IsFiniteSet(DOMAIN clicks)
  /\ stored = Cardinality(DOMAIN clicks) + Cardinality(Repetitions)
  /\ \A i \in 1 .. stored : emitted[i].ts <= clicks[emitted[i].id]

SourcePart ==
  /\ S!SourceTypeOK
  /\ emitted \in Seq(S!Events)
  /\ SeedPart
  /\ ClockPart /\ TimestampsAreHonest
  /\ StoresPart

\* What truncating to a second does.
LEMMA Truncation ==
  ASSUME NEW t \in Nat
  PROVE  /\ S!Truncated(t) \in Nat /\ S!Truncated(t) <= t
         /\ S!Truncated(S!Truncated(t)) = S!Truncated(t)
         /\ t >= Second => S!Truncated(t) >= Second
         /\ \A u \in Nat : t <= u => S!Truncated(t) <= S!Truncated(u)
<1>1. S!Truncated(t) \in Nat /\ S!Truncated(t) <= t
  BY DEF S!Truncated
<1>2. S!Truncated(S!Truncated(t)) = S!Truncated(t)
  BY DEF S!Truncated
<1>3. t >= Second => S!Truncated(t) >= Second
  BY DEF S!Truncated
<1>4. \A u \in Nat : t <= u => S!Truncated(t) <= S!Truncated(u)
  BY DEF S!Truncated
<1>5. QED
  BY <1>1, <1>2, <1>3, <1>4

\* The time of the next event.
LEMMA NextTime ==
  ASSUME begun \in Nat, made \in Nat, begun >= Second
  PROVE  /\ S!Ts \in Nat /\ S!Ts <= begun + made
         /\ S!Truncated(S!Ts) = S!Ts
         /\ S!Ts <= S!Truncated(S!Truncated(begun) + (made + 1))
<1> DEFINE b == S!Truncated(begun)
<1>1. b \in Nat /\ b <= begun
  BY Truncation
<1> HIDE DEF b
<1>2. b + made \in Nat /\ b + (made + 1) \in Nat /\ b + made <= b + (made + 1)
  BY <1>1
<1>3. /\ S!Truncated(b + made) \in Nat /\ S!Truncated(b + made) <= b + made
      /\ S!Truncated(S!Truncated(b + made)) = S!Truncated(b + made)
      /\ S!Truncated(b + made) <= S!Truncated(b + (made + 1))
  BY <1>2, Truncation
<1>4. S!Ts = S!Truncated(b + made)
  BY DEF S!Ts, b
<1>5. QED
  BY <1>1, <1>3, <1>4 DEF b

\* The sequence of events, as far as the proofs look at it.
LEMMA EmittedEvents ==
  ASSUME emitted \in Seq(S!Events)
  PROVE  /\ Len(emitted) \in Nat /\ DOMAIN emitted = 1 .. Len(emitted)
         /\ \A i \in 1 .. Len(emitted) :
              /\ emitted[i] \in S!Events
              /\ emitted[i].nth \in 1 .. MaxDraws /\ emitted[i].id \in Nat
              /\ emitted[i].session \in Nat
              /\ emitted[i].ts \in S!Times /\ emitted[i].ts \in Nat
              /\ emitted[i].at \in Nat
<1>1. Len(emitted) \in Nat /\ DOMAIN emitted = 1 .. Len(emitted)
      /\ \A i \in 1 .. Len(emitted) : emitted[i] \in S!Events
  OBVIOUS
<1>2. \A e \in S!Events : /\ e.nth \in 1 .. MaxDraws /\ e.id \in Nat /\ e.session \in Nat
                          /\ e.ts \in S!Times /\ e.ts \in Nat /\ e.at \in Nat
  BY DEF S!Events, S!Times
<1>3. QED
  BY <1>1, <1>2

\* Both stores are as they were when the events they have are.
LEMMA StoresStay ==
  ASSUME StoresPart, stored \in Nat, UNCHANGED <<stored, clicks>>,
         \A i \in 1 .. stored : emitted'[i] = emitted[i]
  PROVE  StoresPart'
<1>1. Repetitions' = Repetitions
  BY DEF Repetitions
<1>2. {emitted'[i].id : i \in 1 .. stored} = {emitted[i].id : i \in 1 .. stored}
  OBVIOUS
<1>3. QED
  BY <1>1, <1>2 DEF StoresPart

\* An event is made.
LEMMA EmitStep ==
  ASSUME SourcePart, S!Emit
  PROVE  SourcePart'
<1> DEFINE L == Len(emitted)
           e == S!Event
<1>0. /\ S!SourceTypeOK /\ emitted \in Seq(S!Events) /\ SeedPart
      /\ ClockPart /\ TimestampsAreHonest /\ StoresPart
  BY DEF SourcePart
<1>1. /\ running /\ wall >= begun + made /\ made < MaxDraws
      /\ made' = made + 1 /\ emitted' = Append(emitted, e)
      /\ UNCHANGED <<wall, run, running, begun, stored, clicks, counted>>
  BY DEF S!Emit, S!Paced
<1>2. /\ wall \in Second .. MaxWall /\ begun \in 0 .. MaxWall /\ made \in 0 .. MaxDraws
      /\ run \in 0 .. MaxRuns /\ running \in BOOLEAN
      /\ state \in Nat /\ session \in Nat
      /\ stored \in 0 .. L /\ counted \in 0 .. L
      /\ Second <= begun /\ begun <= wall
  BY <1>0, <1>1 DEF S!SourceTypeOK, ClockPart
<1>3. /\ S!Ts \in Nat /\ S!Ts <= wall
      /\ S!Truncated(S!Ts) = S!Ts
      /\ S!Ts <= S!Truncated(S!Truncated(begun) + (made + 1))
  BY <1>1, <1>2, NextTime
<1>4. e \in S!Events /\ e.ts = S!Ts /\ e.at = wall
  <2>1. made + 1 \in 1 .. MaxDraws /\ S!Ts \in S!Times /\ wall \in S!Times
    BY <1>1, <1>2, <1>3 DEF S!Times
  <2>2. QED
    BY <1>2, <2>1 DEF S!Event, S!DrawnId, S!Events
<1>5. /\ L \in Nat /\ DOMAIN emitted = 1 .. L
      /\ emitted' \in Seq(S!Events) /\ Len(emitted') = L + 1 /\ DOMAIN emitted' = 1 .. L + 1
      /\ emitted'[L + 1] = e /\ \A i \in 1 .. L : emitted'[i] = emitted[i]
  BY <1>0, <1>1, <1>4
<1>6. \A i \in 1 .. L : /\ emitted[i] \in S!Events /\ emitted[i].ts \in Nat
                        /\ emitted[i].ts <= S!Ts
                        /\ emitted[i].at <= wall /\ emitted[i].ts <= emitted[i].at
                        /\ S!Truncated(emitted[i].ts) = emitted[i].ts
  BY <1>0, <1>1, <1>5, EmittedEvents DEF ClockPart
<1> HIDE DEF e, L
<1>7. SeedPart'
  BY <1>0, SeedStep
<1>8. S!SourceTypeOK'
  <2>1. \A i \in DOMAIN emitted' : emitted'[i] \in S!Events
    BY <1>4, <1>5, <1>6
  <2>2. stored' \in 0 .. Len(emitted') /\ counted' \in 0 .. Len(emitted')
    BY <1>1, <1>2, <1>5
  <2>3. made' \in 0 .. MaxDraws
    BY <1>1, <1>2
  <2>4. SeedTypes'
    BY <1>7, SeedFactsNext
  <2>5. DOMAIN clicks' \subseteq Nat /\ \A d \in DOMAIN clicks' : clicks'[d] \in S!Times
    BY <1>0, <1>1 DEF S!SourceTypeOK
  <2>6. /\ wall' \in Second .. MaxWall /\ run' \in 0 .. MaxRuns /\ running' \in BOOLEAN
        /\ begun' \in 0 .. MaxWall
    BY <1>1, <1>2
  <2>7. QED
    BY <2>1, <2>2, <2>3, <2>4, <2>5, <2>6, Zenon DEF S!SourceTypeOK, SeedTypes
<1>9. ClockPart'
  <2>1. \A t : S!Truncated(t)' = S!Truncated(t)
    BY DEF S!Truncated
  <2>2. S!Ts' = S!Truncated(S!Truncated(begun) + (made + 1))
    BY <1>1 DEF S!Ts, S!Truncated
  <2>3. S!Truncated(S!Truncated(begun) + (made + 1)) \in Nat
    <3>1. S!Truncated(begun) \in Nat
      BY <1>2, Truncation
    <3>2. S!Truncated(begun) + (made + 1) \in Nat
      BY <1>2, <3>1
    <3>3. QED
      BY <3>2, Truncation
  <2>4. ASSUME NEW i \in 1 .. L + 1
        PROVE  /\ emitted'[i].ts <= emitted'[i].at /\ emitted'[i].at <= wall
               /\ S!Truncated(emitted'[i].ts) = emitted'[i].ts
               /\ emitted'[i].ts <= S!Ts'
    <3>1. CASE i = L + 1
      <4>1. emitted'[i].ts = S!Ts /\ emitted'[i].at = wall
        BY <1>4, <1>5, <3>1
      <4>2. QED
        BY <1>2, <1>3, <2>2, <4>1
    <3>2. CASE i \in 1 .. L
      <4>1. emitted'[i] = emitted[i]
        BY <1>5, <3>2
      <4>2. emitted[i].ts <= S!Ts /\ emitted[i].ts \in Nat
        BY <1>6, <3>2
      <4>3. emitted[i].ts <= S!Ts'
        BY <1>3, <2>2, <2>3, <4>2
      <4>4. QED
        BY <1>6, <3>2, <4>1, <4>3
    <3>3. QED
      BY <1>5, <3>1, <3>2
  <2>5. QED
    BY <1>1, <1>2, <1>5, <2>1, <2>4 DEF ClockPart
<1>10. TimestampsAreHonest'
  <2> SUFFICES ASSUME NEW i \in 1 .. L + 1
               PROVE  /\ emitted'[i].ts <= emitted'[i].at
                      /\ \A j \in 1 .. L + 1 : i < j => emitted'[i].ts <= emitted'[j].ts
    BY <1>5 DEF TimestampsAreHonest
  <2>1. CASE i = L + 1
    BY <1>3, <1>4, <1>5, <2>1
  <2>2. CASE i \in 1 .. L
    <3>1. emitted[i].ts <= emitted[i].at
          /\ \A j \in 1 .. L : i < j => emitted[i].ts <= emitted[j].ts
      BY <1>0, <1>5, <2>2 DEF TimestampsAreHonest
    <3>2. QED
      BY <1>4, <1>5, <1>6, <2>2, <3>1
  <2>3. QED
    BY <1>5, <2>1, <2>2
<1>11. StoresPart'
  <2>1. \A i \in 1 .. stored : emitted'[i] = emitted[i]
    BY <1>2, <1>5
  <2>2. stored \in Nat /\ UNCHANGED <<stored, clicks>>
    BY <1>1, <1>2
  <2>3. QED
    BY <1>0, <2>1, <2>2, StoresStay
<1>12. QED
  BY <1>5, <1>7, <1>8, <1>9, <1>10, <1>11 DEF SourcePart

\* Steps that make no event and leave both stores alone: a header is drawn, a
\* process starts or ends, or time passes.
LEMMA ProcessStep ==
  ASSUME SourcePart,
         S!OpenSession \/ S!StartRun \/ S!RunStops \/ S!WallTicks \/ UNCHANGED sourceVars
  PROVE  SourcePart'
<1>0. /\ S!SourceTypeOK /\ emitted \in Seq(S!Events) /\ SeedPart
      /\ ClockPart /\ TimestampsAreHonest /\ StoresPart
  BY DEF SourcePart
<1>1. UNCHANGED <<emitted, stored, clicks, counted>>
  BY DEF S!OpenSession, S!StartRun, S!RunStops, S!WallTicks, sourceVars, S!seed
<1>2. SeedPart'
  <2>1. CASE S!OpenSession
    BY <1>0, <2>1, SeedStep
  <2>2. CASE S!StartRun \/ S!RunStops \/ S!WallTicks \/ UNCHANGED sourceVars
    <3>1. /\ UNCHANGED <<words, lengths, emitted>>
          /\ \/ UNCHANGED <<state, session, left, made>>
             \/ state' = 0 /\ session' = 0 /\ left' = 0 /\ made' = 0
      BY <2>2 DEF S!StartRun, S!RunStops, S!WallTicks, sourceVars, S!seed
    <3>2. QED
      BY <1>0, <3>1, SeedStays
  <2>3. QED
    BY <2>1, <2>2
<1>3. /\ \/ wall' = wall
         \/ wall < MaxWall /\ wall' = wall + 1
      /\ \/ running' = FALSE /\ UNCHANGED <<begun, made, run>>
         \/ running' = TRUE /\ begun' = wall /\ made' = 0 /\ run' = run + 1 /\ wall' = wall
              /\ run < MaxRuns
         \/ UNCHANGED <<running, begun, made, run>>
  BY DEF S!OpenSession, S!StartRun, S!RunStops, S!WallTicks, sourceVars
<1>4. /\ wall \in Second .. MaxWall /\ begun \in 0 .. MaxWall /\ made \in 0 .. MaxDraws
      /\ run \in 0 .. MaxRuns /\ running \in BOOLEAN
      /\ stored \in 0 .. Len(emitted) /\ counted \in 0 .. Len(emitted)
      /\ Len(emitted) \in Nat
  BY <1>0, EmittedEvents DEF S!SourceTypeOK
<1>5. S!SourceTypeOK'
  <2>1. SeedTypes'
    BY <1>2, SeedFactsNext
  <2>2. running' \in BOOLEAN
    BY <1>3, <1>4
  <2>2a. /\ \/ UNCHANGED <<begun, made, run>>
            \/ begun' = wall /\ made' = 0 /\ run' = run + 1 /\ run < MaxRuns
         /\ wall' = wall \/ (wall < MaxWall /\ wall' = wall + 1)
    BY <1>3
  <2>2b. /\ wall' \in Second .. MaxWall /\ run' \in 0 .. MaxRuns
         /\ begun' \in 0 .. MaxWall /\ made' \in 0 .. MaxDraws
    BY <1>4, <2>2a
  <2>3. /\ \A i \in DOMAIN emitted' : emitted'[i] \in S!Events
        /\ DOMAIN clicks' \subseteq Nat /\ \A d \in DOMAIN clicks' : clicks'[d] \in S!Times
        /\ stored' \in 0 .. Len(emitted') /\ counted' \in 0 .. Len(emitted')
    BY <1>0, <1>1 DEF S!SourceTypeOK
  <2>4. QED
    BY <2>1, <2>2, <2>2b, <2>3, Zenon DEF S!SourceTypeOK, SeedTypes
<1>6. TimestampsAreHonest'
  BY <1>0, <1>1 DEF TimestampsAreHonest
<1>7. StoresPart'
  BY <1>0, <1>1, <1>4, StoresStay
<1>8. ClockPart'
  <2>1. \A t : S!Truncated(t)' = S!Truncated(t)
    BY DEF S!Truncated
  <2>2. running' => Second <= begun' /\ begun' <= wall'
    <3>1. running => Second <= begun /\ begun <= wall
      BY <1>0 DEF ClockPart
    <3>2. begun <= wall => begun <= wall'
      BY <1>3, <1>4
    <3>3. wall >= Second /\ wall <= wall
      BY <1>4
    <3>4. QED
      BY <1>3, <3>1, <3>2, <3>3
  <2>3. ASSUME NEW i \in DOMAIN emitted
        PROVE  /\ emitted[i].ts <= emitted[i].at /\ emitted[i].at <= wall'
               /\ S!Truncated(emitted[i].ts) = emitted[i].ts
               /\ running' => emitted[i].ts <= S!Ts'
    <3>1. /\ emitted[i].ts <= emitted[i].at /\ emitted[i].at <= wall
          /\ S!Truncated(emitted[i].ts) = emitted[i].ts
          /\ running => emitted[i].ts <= S!Ts
          /\ emitted[i].ts \in Nat /\ emitted[i].at \in Nat
      BY <1>0, EmittedEvents DEF ClockPart
    <3>2. emitted[i].at <= wall'
      BY <1>3, <1>4, <3>1
    <3>3. CASE running' = TRUE /\ begun' = wall /\ made' = 0
      <4>1. emitted[i].ts <= wall
        BY <1>4, <3>1
      <4>2. emitted[i].ts <= S!Truncated(wall)
        <5> DEFINE t == emitted[i].ts
        <5>1. t \in Nat /\ wall \in Nat /\ t <= wall /\ S!Truncated(t) = t
          BY <1>4, <3>1, <4>1
        <5> HIDE DEF t
        <5>2. \A u \in Nat : t <= u => S!Truncated(t) <= S!Truncated(u)
          BY <5>1, Truncation
        <5>3. S!Truncated(t) <= S!Truncated(wall)
          BY <5>1, <5>2
        <5>4. t <= S!Truncated(wall)
          BY <5>1, <5>3
        <5>5. QED
          BY <5>4 DEF t
      <4>3. S!Truncated(wall) \in Nat /\ S!Truncated(S!Truncated(wall)) = S!Truncated(wall)
        BY <1>4, Truncation
      <4>4. S!Ts' = S!Truncated(S!Truncated(wall) + 0)
        BY <2>1, <3>3 DEF S!Ts, S!Truncated
      <4>5. QED
        BY <3>1, <3>2, <4>2, <4>3, <4>4
    <3>4. CASE running' = running /\ begun' = begun /\ made' = made
      <4>1. S!Ts' = S!Ts
        BY <3>4 DEF S!Ts, S!Truncated
      <4>2. QED
        BY <3>1, <3>2, <3>4, <4>1
    <3>5. QED
      BY <1>3, <3>1, <3>2, <3>3, <3>4
  <2>4. QED
    BY <1>1, <2>1, <2>2, <2>3 DEF ClockPart
<1>9. emitted' \in Seq(S!Events)
  BY <1>0, <1>1
<1>10. QED
  BY <1>2, <1>5, <1>6, <1>7, <1>8, <1>9 DEF SourcePart

\* An event arrives in ClickHouse: a row is added, or it was there and gets the
\* later timestamp.
LEMMA ArrivalStep ==
  ASSUME SourcePart, S!ToClickhouse
  PROVE  StoresPart' /\ DOMAIN clicks \subseteq DOMAIN clicks'
         /\ DOMAIN clicks' \subseteq Nat /\ \A d \in DOMAIN clicks' : clicks'[d] \in S!Times
<1> DEFINE n == stored + 1
           e == emitted[n]
           Old == DOMAIN clicks
<1>0. /\ S!SourceTypeOK /\ emitted \in Seq(S!Events) /\ SeedRepeatsIds
      /\ TimestampsAreHonest /\ StoresPart
  BY SeedFacts DEF SourcePart
<1>1. /\ stored < Len(emitted) /\ stored' = n /\ emitted' = emitted
      /\ clicks' = [d \in Old \cup {e.id} |-> IF d = e.id THEN e.ts ELSE clicks[d]]
  BY DEF S!ToClickhouse, S!RowReplaced
<1>2. /\ stored \in Nat /\ n \in DOMAIN emitted /\ 1 .. n = 1 .. stored \cup {n}
      /\ \A i \in 1 .. n : /\ i \in DOMAIN emitted /\ emitted[i].ts \in Nat
                           /\ emitted[i].id \in Nat
      /\ e.ts \in S!Times /\ n \notin 1 .. stored
  <2>1. Len(emitted) \in Nat /\ stored \in 0 .. Len(emitted) /\ DOMAIN emitted = 1 .. Len(emitted)
    BY <1>0, EmittedEvents DEF S!SourceTypeOK
  <2>2. /\ stored \in Nat /\ n \in DOMAIN emitted /\ 1 .. n = 1 .. stored \cup {n}
        /\ n \notin 1 .. stored /\ \A i \in 1 .. n : i \in 1 .. Len(emitted)
    BY <1>1, <2>1
  <2>3. QED
    BY <1>0, <2>1, <2>2, EmittedEvents
<1>3. /\ Old = {emitted[i].id : i \in 1 .. stored} /\ IsFiniteSet(Old)
      /\ stored = Cardinality(Old) + Cardinality(Repetitions)
      /\ \A i \in 1 .. stored : emitted[i].ts <= clicks[emitted[i].id]
  BY <1>0 DEF StoresPart
<1>4. /\ DOMAIN clicks' = Old \cup {e.id}
      /\ DOMAIN clicks' = {emitted[i].id : i \in 1 .. n}
      /\ IsFiniteSet(DOMAIN clicks')
  <2>1. DOMAIN clicks' = Old \cup {e.id}
    BY <1>1
  <2>2. Old \cup {e.id} = {emitted[i].id : i \in 1 .. n}
    BY <1>2, <1>3
  <2>3. IsFiniteSet(Old \cup {e.id})
    BY <1>3, FS_AddElement
  <2>4. QED
    BY <2>1, <2>2, <2>3
<1>5. e.id \in Old <=> \E i \in 1 .. stored : emitted[i].nth = e.nth
  <2>1. e.id \in Old <=> \E i \in 1 .. stored : emitted[i].id = e.id
    BY <1>3
  <2>2. \A i \in 1 .. stored : emitted[i].nth = e.nth <=> emitted[i].id = e.id
    BY <1>0, <1>2 DEF SeedRepeatsIds
  <2>3. QED
    BY <2>1, <2>2
<1>6. /\ IsFiniteSet(Repetitions) /\ n \notin Repetitions
      /\ Cardinality(Repetitions) \in Nat /\ Cardinality(Old) \in Nat
  <2>1. Repetitions \subseteq 1 .. stored
    BY DEF Repetitions
  <2>2. IsFiniteSet(1 .. stored)
    BY <1>2, FS_Interval
  <2>3. IsFiniteSet(Repetitions)
    BY <2>1, <2>2, FS_Subset
  <2>4. QED
    BY <1>2, <1>3, <2>1, <2>3, FS_CardinalityType
<1>7. Repetitions' = IF e.id \in Old THEN Repetitions \cup {n} ELSE Repetitions
  <2>1. Repetitions' = {j \in 1 .. n : \E i \in 1 .. j - 1 : emitted[i].nth = emitted[j].nth}
    BY <1>1 DEF Repetitions
  <2>2. n - 1 = stored
    BY <1>2
  <2>3. QED
    BY <1>2, <1>5, <2>1, <2>2 DEF Repetitions
<1>8. n = Cardinality(DOMAIN clicks') + Cardinality(Repetitions')
  <2>1. CASE e.id \in Old
    <3>1. DOMAIN clicks' = Old /\ Repetitions' = Repetitions \cup {n}
      BY <1>4, <1>7, <2>1
    <3>2. Cardinality(Repetitions \cup {n}) = Cardinality(Repetitions) + 1
      BY <1>6, FS_AddElement
    <3>3. /\ Cardinality(DOMAIN clicks') = Cardinality(Old)
          /\ Cardinality(Repetitions') = Cardinality(Repetitions) + 1
      BY <3>1, <3>2, Zenon
    <3>4. stored = Cardinality(Old) + Cardinality(Repetitions)
      BY <1>3
    <3>5. QED
      BY <1>6, <3>3, <3>4
  <2>2. CASE e.id \notin Old
    <3>1. DOMAIN clicks' = Old \cup {e.id} /\ Repetitions' = Repetitions
      BY <1>4, <1>7, <2>2
    <3>2. Cardinality(Old \cup {e.id}) = Cardinality(Old) + 1
      BY <1>3, <2>2, FS_AddElement
    <3>3. /\ Cardinality(DOMAIN clicks') = Cardinality(Old) + 1
          /\ Cardinality(Repetitions') = Cardinality(Repetitions)
      BY <3>1, <3>2, Zenon
    <3>4. stored = Cardinality(Old) + Cardinality(Repetitions)
      BY <1>3
    <3>5. QED
      BY <1>6, <3>3, <3>4
  <2>3. QED
    BY <2>1, <2>2
<1>9. \A i \in 1 .. n : emitted[i].ts <= clicks'[emitted[i].id]
  <2> SUFFICES ASSUME NEW i \in 1 .. n PROVE emitted[i].ts <= clicks'[emitted[i].id]
    OBVIOUS
  <2>1. emitted[i].ts <= e.ts
    BY <1>0, <1>2 DEF TimestampsAreHonest
  <2>2. i # n => emitted[i].id \in Old /\ emitted[i].ts <= clicks[emitted[i].id]
    BY <1>2, <1>3
  <2>3. QED
    BY <1>1, <1>2, <2>1, <2>2
<1>10. DOMAIN clicks' \subseteq Nat /\ \A d \in DOMAIN clicks' : clicks'[d] \in S!Times
  BY <1>0, <1>1, <1>2, <1>4 DEF S!SourceTypeOK
<1>11. StoresPart'
  <2>1. DOMAIN clicks' = {emitted'[i].id : i \in 1 .. stored'}
    BY <1>1, <1>4
  <2>2. stored' = Cardinality(DOMAIN clicks') + Cardinality(Repetitions')
    BY <1>1, <1>8
  <2>3. \A i \in 1 .. stored' : emitted'[i].ts <= clicks'[emitted'[i].id]
    BY <1>1, <1>9
  <2>4. QED
    BY <1>4, <2>1, <2>2, <2>3, Zenon DEF StoresPart
<1>12. QED
  BY <1>4, <1>10, <1>11

\* An event reaches one of the stores.
LEMMA StoreStep ==
  ASSUME SourcePart, S!ToClickhouse \/ S!ToPostgres
  PROVE  SourcePart' /\ DOMAIN clicks \subseteq DOMAIN clicks'
<1>0. /\ S!SourceTypeOK /\ emitted \in Seq(S!Events) /\ SeedPart
      /\ ClockPart /\ TimestampsAreHonest /\ StoresPart
  BY DEF SourcePart
<1>1. /\ UNCHANGED <<words, lengths, wall, run, running, begun, made, state, session, left,
                     emitted>>
      /\ \/ counted' = counted + 1 /\ counted < Len(emitted) /\ UNCHANGED <<stored, clicks>>
         \/ S!ToClickhouse /\ stored < Len(emitted) /\ stored' = stored + 1
              /\ counted' = counted
  BY DEF S!ToClickhouse, S!ToPostgres, S!seed
<1>2. /\ stored \in 0 .. Len(emitted) /\ counted \in 0 .. Len(emitted) /\ Len(emitted) \in Nat
  BY <1>0, EmittedEvents DEF S!SourceTypeOK
<1>3. stored' \in 0 .. Len(emitted) /\ counted' \in 0 .. Len(emitted)
  BY <1>1, <1>2
<1>4. /\ StoresPart' /\ DOMAIN clicks \subseteq DOMAIN clicks'
      /\ DOMAIN clicks' \subseteq Nat /\ \A d \in DOMAIN clicks' : clicks'[d] \in S!Times
  <2>1. CASE S!ToClickhouse
    BY <2>1, ArrivalStep
  <2>2. CASE UNCHANGED <<stored, clicks>>
    <3>1. StoresPart'
      BY <1>0, <1>1, <1>2, <2>2, StoresStay
    <3>2. QED
      BY <1>0, <2>2, <3>1 DEF S!SourceTypeOK
  <2>3. QED
    BY <1>1, <2>1, <2>2
<1>5. SeedPart'
  BY <1>0, <1>1, SeedStays
<1>6. S!SourceTypeOK'
  BY <1>0, <1>1, <1>3, <1>4, Zenon DEF S!SourceTypeOK
<1>7. ClockPart' /\ TimestampsAreHonest' /\ emitted' \in Seq(S!Events)
  BY <1>0, <1>1 DEF ClockPart, TimestampsAreHonest, S!Ts, S!Truncated
<1>8. QED
  BY <1>4, <1>5, <1>6, <1>7 DEF SourcePart

\* The simulator and the stores keep it, and what is in a store stays.
LEMMA SourcePartStep ==
  ASSUME SourcePart, [DeploymentNext]_allVars
  PROVE  SourcePart' /\ (counted > 0 => counted' > 0) /\ (S!HasRows => S!HasRows')
<1>1. UNCHANGED sourceVars \/ S!SourceStep
  BY WhoChanges
<1>2. SourcePart'
  BY <1>1, EmitStep, ProcessStep, StoreStep DEF S!SourceStep
<1>3. counted' = counted \/ counted' = counted + 1
  BY <1>1 DEF S!SourceStep, S!StartRun, S!OpenSession, S!Emit, S!ToClickhouse, S!ToPostgres,
     S!RunStops, S!WallTicks, sourceVars
<1>4. counted \in Nat
  BY EmittedEvents DEF SourcePart, S!SourceTypeOK
<1>5. clicks' = clicks \/ S!ToClickhouse
  BY <1>1 DEF S!SourceStep, S!StartRun, S!OpenSession, S!Emit, S!ToPostgres, S!RunStops,
     S!WallTicks, sourceVars
<1>6. S!HasRows => S!HasRows'
  <2>1. CASE S!ToClickhouse
    BY <2>1, StoreStep DEF S!HasRows
  <2>2. CASE clicks' = clicks
    BY <2>2 DEF S!HasRows
  <2>3. QED
    BY <1>5, <2>1, <2>2
<1>7. QED
  BY <1>2, <1>3, <1>4, <1>6

-----------------------------------------------------------------------------
(* The theorems                                                              *)

DeploymentInv ==
  /\ ProducerPart /\ brokerUp \in BOOLEAN
  /\ TopicsPart /\ GaugesPart /\ DrillPart
  /\ SourcePart /\ QualityPart

\* All settings begin in the invariant.
LEMMA DeploymentStarts == DeploymentInit => DeploymentInv
<1> SUFFICES ASSUME DeploymentInit PROVE DeploymentInv
  OBVIOUS
<1>1. ProducerPart /\ brokerUp \in BOOLEAN
  BY InitialState DEF DeploymentInit, ProducerPart, Untouched, Init
<1>2. TopicsPart
  <2>1. /\ stack \in Stacks /\ started = FALSE
        /\ dead \in 0 .. MaxDead /\ (stack # "kind" => dead = 0)
    BY DEF DeploymentInit
  <2>2. CASE stack = "compose"
    <3>1. T!Begin
      BY <2>2 DEF DeploymentInit
    <3>2. T!InitTypeOK /\ \A t \in Topics : parts[t] # 1
      BY <3>1 DEF T!InitTypeOK, T!Begin
    <3>3. QED
      BY <2>1, <2>2, <3>1, <3>2 DEF TopicsPart, T!Begin
  <2>3. CASE stack # "compose"
    <3>1. T!BeginReady
      BY <2>3 DEF DeploymentInit
    <3>2. T!InitTypeOK /\ \A t \in Topics : parts[t] # 1 /\ parts[t] # 0
      BY <3>1 DEF T!InitTypeOK, T!BeginReady
    <3>3. QED
      BY <2>1, <3>1, <3>2 DEF TopicsPart, T!BeginReady
  <2>4. QED
    BY <2>2, <2>3
<1>3. GaugesPart
  <2>1. topic = <<>> /\ earlier = 0 /\ dead \in 0 .. MaxDead
    BY DEF DeploymentInit, Init, Fresh
  <2>2. \A t \in Topics : Ends[t] \in Nat
    BY <2>1 DEF Ends
  <2>3. QED
    BY <2>1, <2>2, PolledTopics
    DEF DeploymentInit, GaugesPart, G!GaugeTypeOK, G!GaugeInit
<1>4. DrillPart
  <2>1. D!DrillInit
    BY DEF DeploymentInit
  <2>2. D!DrillTypeOK
    <3>1. /\ pod = 1 /\ terminating = FALSE /\ drill = "delete" /\ oldUid = 0 /\ uid = 0
          /\ ready = FALSE /\ polls = 0 /\ misses = 0
      BY <2>1 DEF D!DrillInit, D!Victim
    <3>2. polls \in 0 .. MaxPolls /\ misses \in 0 .. MaxMisses
      BY <3>1
    <3>3. pod \in D!Uids /\ oldUid \in D!Uids /\ uid \in D!Uids
      BY <3>1 DEF D!Uids
    <3>4. QED
      BY <3>1, <3>2, <3>3, Zenon DEF D!DrillTypeOK
  <2>3. 0 < MaxPolls
    OBVIOUS
  <2>4. QED
    BY <2>1, <2>2, <2>3 DEF DrillPart, D!DrillInit
<1>5. SourcePart
  <2>1. /\ emitted = <<>> /\ running = FALSE /\ run = 0 /\ made = 0
        /\ state = 0 /\ session = 0 /\ left = 0
        /\ wall = Second /\ begun = 0 /\ stored = 0 /\ counted = 0
        /\ DOMAIN words = {} /\ DOMAIN lengths = {} /\ DOMAIN clicks = {}
    BY DEF DeploymentInit, S!SourceInit, S!Empty
  <2>2. S!SourceTypeOK
    <3>1. wall \in Second .. MaxWall /\ begun \in 0 .. MaxWall /\ run \in 0 .. MaxRuns
          /\ made \in 0 .. MaxDraws
      BY <2>1
    <3>2. DOMAIN emitted = {} /\ stored \in 0 .. Len(emitted) /\ counted \in 0 .. Len(emitted)
      BY <2>1
    <3>3. QED
      BY <2>1, <3>1, <3>2 DEF S!SourceTypeOK
  <2>3. emitted \in Seq(S!Events) /\ ClockPart /\ TimestampsAreHonest
    BY <2>1 DEF ClockPart, TimestampsAreHonest
  <2>4. StoresPart
    <3>1. 1 .. stored = {}
      BY <2>1
    <3>2. Repetitions = {} /\ DOMAIN clicks = {}
      BY <2>1, <3>1 DEF Repetitions
    <3>3. Cardinality(Repetitions) = 0 /\ Cardinality(DOMAIN clicks) = 0
          /\ IsFiniteSet(DOMAIN clicks)
      BY <3>2, FS_EmptySet
    <3>4. QED
      BY <2>1, <3>1, <3>2, <3>3 DEF StoresPart
  <2>5. SeedPart
    <3> DEFINE z == [p \in {0} |-> 0]
    <3>1. z \in [{0} -> Nat] /\ z[0] = 0
      OBVIOUS
    <3> HIDE DEF z
    <3>2. Trail(words, lengths, {0}, z, z, z)
      BY <2>1, <3>1 DEF Trail
    <3>3. OnTrail({0}, z, z, z) /\ MadeOnTrail({0}, z, z, z)
      BY <2>1, <3>1 DEF OnTrail, MadeOnTrail
    <3>4. QED
      BY <3>2, <3>3 DEF SeedPart
  <2>6. QED
    BY <2>2, <2>3, <2>4, <2>5 DEF SourcePart
<1>6. QualityPart
  BY DEF DeploymentInit, QualityPart, PassMeansRows, Q!QualityInit, Q!QualityTypeOK, Q!Badges
<1>7. QED
  BY <1>1, <1>2, <1>3, <1>4, <1>5, <1>6 DEF DeploymentInv

\* Every step keeps all parts of it.
LEMMA DeploymentStep == DeploymentInv /\ [DeploymentNext]_allVars => DeploymentInv'
<1> SUFFICES ASSUME DeploymentInv, [DeploymentNext]_allVars PROVE DeploymentInv'
  OBVIOUS
<1>1. ProducerPart' /\ brokerUp' \in BOOLEAN
  BY ProducerPartStep, BrokerStep DEF DeploymentInv
<1>2. TopicsPart' /\ GaugesPart' /\ DrillPart'
  BY TopicsPartStep, GaugesPartStep, DrillPartStep DEF DeploymentInv
<1>3. SourcePart' /\ QualityPart'
  BY SourcePartStep, QualityPartStep DEF DeploymentInv
<1>4. QED
  BY <1>1, <1>2, <1>3 DEF DeploymentInv

\* The parts keep their invariants, each beside the steps of the others.
THEOREM DeploymentInvariant == DeploymentSpec => []DeploymentInv
BY DeploymentStarts, DeploymentStep, PTL DEF DeploymentSpec

\* What the producer promises alone it promises on a host and inside compose,
\* where its container is started again: the order of the topic, the sum of the
\* counts, and a complete run without faults.
THEOREM DeployedProducer ==
  DeploymentSpec => [](TopicInOrder /\ Accounted /\ HealthyRunDeliversAll)
<1>1. DeploymentInv => TopicInOrder /\ Accounted /\ HealthyRunDeliversAll
  BY ProducerPartFacts DEF DeploymentInv
<1>2. QED
  BY <1>1, DeploymentInvariant, PTL

\* Nor do the services around it disturb what run() sees of the client: beside
\* the topic script, the collector and all the others, and over its restarts,
\* the producer is still an ordered delivery of one process after the other.
THEOREM DeployedDelivery == DeploymentSpec => ImplementsOrderedDelivery
<1>1. DeploymentInv /\ [DeploymentNext]_allVars => [Delivery!Next]_(Delivery!vars)
  <2> SUFFICES ASSUME DeploymentInv, [DeploymentNext]_allVars
               PROVE  [Delivery!Next]_(Delivery!vars)
    OBVIOUS
  <2>1. \/ stack \in {"compose", "host"} /\ [Next]_vars
        \/ Restart
        \/ UNCHANGED producerVars
    BY WhoChanges
  <2>2. CASE stack \in {"compose", "host"} /\ [Next]_vars
    BY <2>2, DeliveryStep DEF DeploymentInv, ProducerPart
  <2>3. CASE Restart
    BY <2>3, DeliveryRestart DEF Delivery!Next
  <2>4. CASE UNCHANGED producerVars
    BY <2>4, Unseen DEF producerVars, Began, Told
  <2>5. QED
    BY <2>1, <2>2, <2>3, <2>4
<1>2. DeploymentInit => Delivery!Init
  BY DeliveryStart DEF DeploymentInit, Init, Delivery!Init
<1>3. QED
  BY <1>1, <1>2, DeploymentInvariant, PTL
  DEF DeploymentSpec, ImplementsOrderedDelivery, Delivery!Spec

\* The services start against all topics, and a topic with other partitions
\* than declared was created by someone else.
THEOREM ServicesStartReady == DeploymentSpec => []StartedMeansReady
<1>1. DeploymentInv => StartedMeansReady
  <2> SUFFICES ASSUME DeploymentInv, started, NEW t \in Topics
               PROVE  parts[t] = Declared \/ (parts[t] # 0 /\ t \in foreign)
    BY DEF StartedMeansReady
  <2>1. TopicsPart
    BY DEF DeploymentInv
  <2>2. script = "ok"
    BY <2>1, Zenon DEF TopicsPart
  <2>3. parts[t] \in {0, 1, Declared} /\ parts[t] # 0 /\ (parts[t] = 1 => t \in foreign)
    BY <2>1, <2>2 DEF TopicsPart, T!InitTypeOK
  <2>4. QED
    BY <2>3
<1>2. QED
  BY <1>1, DeploymentInvariant, PTL

\* The drill, as long as its calls succeed, takes no pod for its successor.
THEOREM RecoveryIsReal == DeploymentSpec => []RecoveredMeansReplaced
<1>1. DeploymentInv => RecoveredMeansReplaced
  BY DEF DeploymentInv, DrillPart, RecoveredMeansReplaced
<1>2. QED
  BY <1>1, DeploymentInvariant, PTL

\* The clock of the simulator is honest for every pace and every restart.
THEOREM HonestTimestamps == DeploymentSpec => []TimestampsAreHonest
<1>1. DeploymentInv => TimestampsAreHonest
  BY DEF DeploymentInv, SourcePart
<1>2. QED
  BY <1>1, DeploymentInvariant, PTL

\* The seed alone determines ids and sessions: whatever number of words its
\* draws take, however long its sessions are, and wherever a process stopped,
\* the next one meets the same events at the same words.
THEOREM SeedDeterminesEvents == DeploymentSpec => []SeedRepeatsIds
<1>1. DeploymentInv => SeedRepeatsIds
  BY SeedFacts DEF DeploymentInv, SourcePart
<1>2. QED
  BY <1>1, DeploymentInvariant, PTL

\* So the rows of ClickHouse are fewer than what Postgres counted, by exactly
\* the events that a restarted producer has repeated, and each has the latest
\* of its timestamps.
THEOREM RestartsOverwriteRows == DeploymentSpec => []RestartOverwrites
<1>1. DeploymentInv => RestartOverwrites
  <2> SUFFICES ASSUME DeploymentInv PROVE RestartOverwrites
    OBVIOUS
  <2>1. StoresPart
    BY DEF DeploymentInv, SourcePart
  <2>2. stored = Cardinality(DOMAIN clicks) + Cardinality(Repetitions)
        /\ \A i \in 1 .. stored : emitted[i].ts <= clicks[emitted[i].id]
    BY <2>1 DEF StoresPart
  <2>3. QED
    BY <2>2, Zenon DEF RestartOverwrites
<1>2. QED
  BY <1>1, DeploymentInvariant, PTL

\* A report that says PASS was true of both stores.
THEOREM ReportsAreTrue == DeploymentSpec => []PassMeansRows
<1>1. DeploymentInv => PassMeansRows
  BY DEF DeploymentInv, QualityPart
<1>2. QED
  BY <1>1, DeploymentInvariant, PTL

\* A round of the loop that went through has looked at every topic.
THEOREM RoundsComplete == DeploymentSpec => RoundsAreComplete
<1> DEFINE Round == collector = "polling" /\ collector' = "asleep" /\ brokerUp
                      => roundEnd <= gauge'[Dlq] /\ \A t \in Topics : gauge'[t] <= Ends[t]
<1>1. DeploymentInv /\ [DeploymentNext]_allVars => Round
  <2> SUFFICES ASSUME DeploymentInv, [DeploymentNext]_allVars,
                      collector = "polling", collector' = "asleep", brokerUp
               PROVE  roundEnd <= gauge'[Dlq] /\ \A t \in Topics : gauge'[t] <= Ends[t]
    OBVIOUS
  <2>1. TopicsPart /\ GaugesPart /\ Len(topic) \in Nat
    BY TopicGrows DEF DeploymentInv
  <2>2. G!CollectorStep(Ends)
    <3>1. UNCHANGED gaugeVars \/ G!CollectorStep(Ends)
      BY WhoChanges
    <3>2. QED
      BY <3>1 DEF gaugeVars
  <2>3. G!PollTopic(Ends) /\ position = 2
    BY <2>2, PolledTopics DEF G!CollectorStep, G!OpenConsumer, G!OpenRaises, G!RoundRaises,
       G!PollTopic, G!IsLastTopic
  <2>4. gauge' = IF parts[Dlq] = 0 THEN gauge ELSE [gauge EXCEPT ![Dlq] = Ends[Dlq]]
    BY <2>3, PolledTopics DEF G!PollTopic
  <2>5. /\ gauge \in [Topics -> Nat] /\ Dlq \in Topics
        /\ roundEnd \in Nat /\ roundEnd <= dead /\ Ends[Dlq] = dead
        /\ \A t \in Topics : gauge[t] <= Ends[t]
    BY <2>1, PolledTopics DEF GaugesPart, G!GaugeTypeOK, Ends, Topics
  <2>6. dead \in Nat /\ (parts[Dlq] = 0 => dead = 0)
    BY <2>1, <2>5 DEF TopicsPart
  <2>7. QED
    BY <2>4, <2>5, <2>6
<1>2. QED
  BY <1>1, DeploymentInvariant, PTL DEF DeploymentSpec, RoundsAreComplete

\* The types of all parts.
THEOREM DeploymentTypes == DeploymentSpec => []DeploymentTypeOK
<1>1. DeploymentInv => DeploymentTypeOK
  <2> SUFFICES ASSUME DeploymentInv PROVE DeploymentTypeOK
    OBVIOUS
  <2>1. TypeOK
    <3>1. CASE stack \in {"compose", "host"}
      BY <3>1, ProducerTypes DEF DeploymentInv, ProducerPart
    <3>2. CASE stack \notin {"compose", "host"}
      BY <3>2 DEF DeploymentInv, ProducerPart, Untouched, Fresh, Configs, TypeOK
    <3>3. QED
      BY <3>1, <3>2
  <2>2. /\ stack \in Stacks /\ T!InitTypeOK
        /\ started \in BOOLEAN /\ dead \in 0 .. MaxDead /\ earlier \in Nat
    BY DEF DeploymentInv, TopicsPart, ProducerPart
  <2>3. G!GaugeTypeOK /\ D!DrillTypeOK /\ S!SourceTypeOK /\ Q!QualityTypeOK
    BY DEF DeploymentInv, GaugesPart, DrillPart, SourcePart, QualityPart
  <2>4. QED
    BY <2>1, <2>2, <2>3 DEF DeploymentTypeOK
<1>2. QED
  BY <1>1, DeploymentInvariant, PTL

=============================================================================
