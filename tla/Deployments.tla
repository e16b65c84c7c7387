----------------------------- MODULE Deployments -----------------------------
(***************************************************************************)
(* The parts around the streaming job, in the settings in which the        *)
(* repository runs them:                                                   *)
(*   compose - topic initialisation, then the producer without limits and  *)
(*             under its restart policy, with the dead letters of Spark    *)
(*             and the Kafka gauges of the API;                            *)
(*   host    - the producer on its own, with the limits of a command line; *)
(*   kind    - the recovery drill deletes the broker's pod, with the       *)
(*             gauges of the API (the chart deploys no producer);          *)
(*   seeded  - processes of the seeded producer, one after the other, and  *)
(*             the stores that the streaming job fills with their events;  *)
(*   checked - one such process, and the quality checks on the stores.     *)
(***************************************************************************)
EXTENDS ProducerClient

CONSTANTS
  Declared,     \* partitions of a topic in TOPICS
  MaxDead,      \* bound: dead letters
  MaxPolls,     \* rounds of measure_recovery.sh
  MaxMisses,    \* bound: calls of kubectl that fail
  Second,       \* a second, in intervals between two events
  Takes, SessionLengths,         \* what the seed may yield
  MaxDraws, MaxRuns, MaxWall,    \* bounds of EventSource
  MaxQuality    \* bound: runs of the quality checks

ASSUME DeploymentAssumption ==
  /\ Declared \in Nat \ {0, 1} /\ MaxDead \in Nat
  /\ MaxPolls \in Nat \ {0} /\ MaxMisses \in Nat
  /\ Second \in Nat \ {0} /\ MaxDraws \in Nat /\ MaxRuns \in Nat
  /\ Takes \subseteq Nat \ {0} /\ SessionLengths \subseteq Nat \ {0}
  /\ MaxWall \in Nat /\ MaxWall >= Second
  /\ MaxQuality \in Nat

Clicks == "clicks.raw"
Dlq    == "clicks.dlq"
Topics == {Clicks, Dlq}
Named  == {Clicks}
Polled == <<Clicks, Dlq>>

VARIABLES
  stack,     \* the setting
  started,   \* compose has started the producer and the streaming job
  earlier,   \* the events that the processes before appended to clicks.raw
  dead,      \* messages in clicks.dlq
  parts, foreign, asked, script,                \* TopicInit
  collector, position, gauge, roundEnd,                 \* LagGauges
  pod, terminating, drill, oldUid, uid, ready, polls, misses,   \* RecoveryDrill
  words, lengths, wall, run, running, begun, made, state, session, left,
  emitted, stored, clicks, counted,                     \* EventSource
  quality, results, json, html, exit, qualityRuns       \* QualityReport

T == INSTANCE TopicInit
G == INSTANCE LagGauges
D == INSTANCE RecoveryDrill
S == INSTANCE EventSource
Q == INSTANCE QualityReport

producerVars == <<config, pc, produced, delivered, failed, msg, topic, faults>>
initVars     == <<parts, foreign, asked, script>>
gaugeVars    == <<collector, position, gauge, roundEnd>>
drillVars    == <<pod, terminating, drill, oldUid, uid, ready, polls, misses>>
sourceVars   == <<words, lengths, wall, run, running, begun, made, state, session, left,
                  emitted, stored, clicks, counted>>
qualityVars  == <<quality, results, json, html, exit, qualityRuns>>
composeVars  == <<producerVars, earlier, initVars, started, dead>>
storeVars     == <<sourceVars, qualityVars>>
allVars      == <<stack, brokerUp, composeVars, gaugeVars, drillVars, storeVars>>

\* The end offset of each topic, added up over its partitions.
Ends == [t \in Topics |-> IF t = Clicks THEN earlier + Len(topic) ELSE dead]

Stacks == {"compose", "host", "kind", "seeded", "checked"}

\* PRODUCER_DURATION and PRODUCER_MAX_EVENTS of compose are 0.
Unlimited == [max_events |-> 0, duration |-> FALSE]

DeploymentTypeOK ==
  /\ TypeOK
  /\ stack \in Stacks
  /\ started \in BOOLEAN /\ dead \in 0 .. MaxDead
  /\ earlier \in Nat
  /\ T!InitTypeOK
  /\ G!GaugeTypeOK
  /\ D!DrillTypeOK
  /\ S!SourceTypeOK
  /\ Q!QualityTypeOK

\* kind begins when its release is ready, with a message in each topic.
DeploymentInit ==
  /\ Init
  /\ stack \in Stacks
  /\ stack # "host" => config = Unlimited
  /\ started = FALSE /\ earlier = 0
  /\ IF stack = "compose" THEN T!Begin ELSE T!BeginReady
  /\ dead = IF stack = "kind" THEN MaxDead ELSE 0
  /\ G!GaugeInit
  /\ D!DrillInit
  /\ S!SourceInit
  /\ Q!QualityInit

-----------------------------------------------------------------------------
(* compose                                                                   *)

InitContainer ==
  /\ stack = "compose"
  /\ T!InitStep
  /\ UNCHANGED <<stack, brokerUp, producerVars, earlier, started, dead, gaugeVars,
                 drillVars, storeVars>>

\* depends_on: kafka-init: service_completed_successfully
StartServices ==
  /\ stack = "compose" /\ ~ started
  /\ script = "ok"
  /\ started' = TRUE
  /\ UNCHANGED <<stack, brokerUp, producerVars, earlier, initVars, dead, gaugeVars,
                 drillVars, storeVars>>

\* restart: unless-stopped.  The next process begins with an empty client; what
\* was appended stays in the topic.
ProducerRestarts ==
  /\ stack = "compose" /\ started
  /\ Restart
  /\ earlier' = earlier + Len(topic)
  /\ UNCHANGED <<stack, config, initVars, started, dead, gaugeVars,
                 drillVars, storeVars>>

\* The streaming job appends a rejected message.
DeadLetter ==
  /\ stack = "compose" /\ started /\ brokerUp
  /\ dead < MaxDead
  /\ dead' = dead + 1
  /\ UNCHANGED <<stack, brokerUp, producerVars, earlier, initVars, started,
                 gaugeVars, drillVars, storeVars>>

-----------------------------------------------------------------------------
(* compose and host                                                          *)

ProducerRuns == stack = "host" \/ (stack = "compose" /\ started)

InProducer ==
  /\ stack \in {"compose", "host"}
  /\ UNCHANGED <<stack, config, earlier, initVars, started, dead, gaugeVars,
                 drillVars, storeVars>>

ProducerMain   == InProducer /\ ProducerRuns /\ Main
ClientThread   == InProducer /\ ProducerRuns /\ \E i \in Events : Client(i)
MessageExpires == InProducer /\ \E i \in Events : MessageTimesOut(i)
BrokerFaults   == InProducer /\ (ConnectionLost \/ BrokerDown \/ BrokerBack)

-----------------------------------------------------------------------------
(* compose and kind                                                          *)

Collector ==
  /\ stack \in {"compose", "kind"}
  /\ G!CollectorStep(Ends)
  /\ UNCHANGED <<stack, brokerUp, composeVars, drillVars, storeVars>>

(* kind                                                                      *)

InKind ==
  /\ stack = "kind"
  /\ UNCHANGED <<stack, composeVars, gaugeVars, storeVars>>

Drill == InKind /\ D!ScriptStep
Pod   == InKind /\ D!PodStep

(* seeded and checked                                                        *)

Source ==
  /\ stack \in {"seeded", "checked"}
  /\ S!SourceStep
  /\ stack = "checked" => run' <= 1
  /\ UNCHANGED <<stack, brokerUp, composeVars, gaugeVars, drillVars, qualityVars>>

Quality ==
  /\ stack = "checked"
  /\ Q!QualityStep(counted > 0, S!HasRows)
  /\ UNCHANGED <<stack, brokerUp, composeVars, gaugeVars, drillVars, sourceVars>>

DeploymentNext ==
  \/ InitContainer \/ StartServices \/ ProducerRestarts
  \/ ProducerMain \/ ClientThread
  \/ MessageExpires \/ BrokerFaults \/ DeadLetter
  \/ Collector
  \/ Drill \/ Pod
  \/ Source \/ Quality

\* The threads of the producer and the loop of the gauges go on, and a broker
\* that is reachable answers; one that is away may stay away for ever.
DeploymentSpec ==
  /\ DeploymentInit /\ [][DeploymentNext]_allVars
  /\ WF_allVars(ProducerMain)
  /\ WF_allVars(ClientThread)
  /\ WF_allVars(Collector)

-----------------------------------------------------------------------------
(* Properties                                                                *)

\* The producer and the streaming job start against topics that exist, with
\* the partitions TOPICS declares unless another client had named the topic
\* before and the broker created it on the fly (init_topics.py:39 swallows
\* the error, verify_topics looks at names only; docker-compose.yml:245-247).
StartedMeansReady ==
  started => \A t \in Topics :
               \/ parts[t] = Declared
               \/ parts[t] # 0 /\ t \in foreign

\* A round that went through leaves the gauge of the last topic between the
\* end it had when the round began and the end it has now, whatever became of
\* the topics before it (metrics.py:75-82).
RoundsAreComplete ==
  [][collector = "polling" /\ collector' = "asleep" /\ brokerUp
       => roundEnd <= gauge'[Dlq] /\ \A t \in Topics : gauge'[t] <= Ends[t]]_allVars

\* Dead letters show in the gauge that is "used for DLQ depth"
\* (metrics.py:88) unless the broker goes away for good: a round that failed
\* does not end the loop (metrics.py:106-109).
DeadLettersShow ==
  \A n \in 1 .. MaxDead : dead >= n ~> gauge[Dlq] >= n \/ ~ brokerUp

\* The drill reports a recovery only for another pod than the one it deleted
\* ("the new pod (different UID)", docs/chaos-drills.md:36-38), as long as its
\* calls of kubectl succeed, and although it reads the UID of the victim after
\* it has asked for the deletion (measure_recovery.sh:12, 19).
RecoveredMeansReplaced ==
  drill = "recovered" /\ misses = 0 => uid # D!Victim /\ pod # D!Victim

\* A producer with a limit, of events or of time, ends its run even while the
\* broker is away: flush waits for 10 seconds only (cli.py:85-100,
\* kafka_client.py:77).  The one of compose has no limit (docker-compose.yml:240)
\* and ends by an exception or not at all.
LimitedRunEnds == ProducerRuns /\ Limited ~> pc \in {"done", "crashed"}

\* The same seed yields the same events, ids and sessions, in every process
\* ("The same `seed` always yields the same event sequence", simulator.py:57),
\* however many words its draws take, and one process never repeats an id:
\* nothing but the simulator reads the generator, and what it reads does not
\* depend on the clock.
SeedRepeatsIds ==
  \A i, j \in DOMAIN emitted :
    /\ emitted[i].nth = emitted[j].nth <=> emitted[i].id = emitted[j].id
    /\ emitted[i].nth = emitted[j].nth => emitted[i].session = emitted[j].session

\* Arrivals of an event that another process had produced, and that had arrived,
\* before.
Repetitions ==
  {j \in 1 .. stored : \E i \in 1 .. j - 1 : emitted[i].nth = emitted[j].nth}

\* So the two stores disagree about a producer that was restarted: ClickHouse
\* has one row for each event_id, with the latest of its timestamps, while
\* Postgres counts every repetition again (clickhouse_sink.py:36-51,
\* postgres_sink.py:138-155).
RestartOverwrites ==
  /\ counted = stored => counted = Cardinality(DOMAIN clicks) + Cardinality(Repetitions)
  /\ \A i \in 1 .. stored : emitted[i].ts <= clicks[emitted[i].id]

\* The clock of the simulator is never ahead of the wall clock, and the
\* timestamps never go back, not over a restart either ("event timestamps
\* stay close to wall-clock time", simulator.py:116-117, cli.py:91-95): one producer alone
\* makes no late events.
TimestampsAreHonest ==
  \A i \in DOMAIN emitted :
    /\ emitted[i].ts <= emitted[i].at
    /\ \A j \in DOMAIN emitted : i < j => emitted[i].ts <= emitted[j].ts

\* A report that says PASS was written when both stores held rows, and the exit
\* code agrees with both reports; a run that raised says nothing about them
\* (run_quality.py:8, 91, 119-124).
PassMeansRows ==
  /\ json = "pass" \/ html = "pass" => counted > 0 /\ S!HasRows
  /\ exit = "0" => json = "pass" /\ html = "pass"
  /\ exit = "1" => json = "fail" /\ html = "fail"

=============================================================================
