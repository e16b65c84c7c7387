----------------------------- MODULE LagGauges -----------------------------
(***************************************************************************)
(* The Kafka half of lag_collector_loop in api/metrics.py: a round opens a *)
(* consumer, goes through the topics one by one, and sets the gauge        *)
(* kafka_topic_end_offset of each; an exception ends the round and leaves  *)
(* the topics behind it at their old values.  fetch_lag sets no lag: the   *)
(* group of KAFKA_CONSUMER_GROUP never commits an offset, since Spark      *)
(* keeps its offsets in the checkpoint.                                    *)
(***************************************************************************)
EXTENDS Naturals, Sequences

CONSTANT Polled     \* KAFKA_LAG_TOPICS, in their order

VARIABLES
  brokerUp,
  parts,       \* the partitions of each topic; 0 while it does not exist
  collector,   \* what the loop is doing
  position,    \* the topic of the round it is at
  gauge,       \* kafka_topic_end_offset of each topic
  roundEnd     \* history: the last topic's end offset when the round began

Names == {Polled[i] : i \in DOMAIN Polled}

GaugeTypeOK ==
  /\ collector \in {"asleep", "polling", "stopped"}
  /\ position \in DOMAIN Polled
  /\ gauge \in [Names -> Nat]
  /\ roundEnd \in Nat

GaugeInit ==
  /\ collector = "asleep" /\ position = 1
  /\ gauge = [t \in Names |-> 0]
  /\ roundEnd = 0

-----------------------------------------------------------------------------

\* Mutant: the exception leaves the loop.
AfterUncaughtException == "stopped"

\* except Exception: logged, the loop sleeps and goes on.
AfterException == "asleep"

\* The round is over.
Asleep(next) ==
  /\ collector' = next
  /\ position' = 1
  /\ roundEnd' = 0

\* The interval is over: KafkaConsumer(...) connects to the broker.
OpenConsumer(ends) ==
  /\ collector = "asleep" /\ brokerUp
  /\ collector' = "polling" /\ position' = 1
  /\ roundEnd' = ends[Polled[Len(Polled)]]
  /\ UNCHANGED gauge

\* KafkaConsumer(...) finds no broker.
OpenRaises ==
  /\ collector = "asleep" /\ ~ brokerUp
  /\ Asleep(AfterException)
  /\ UNCHANGED gauge

\* Mutant: the first topic with partitions ends the loop over the topics.
IsLastTopicTooSoon == parts[Polled[position]] # 0

IsLastTopic == position = Len(Polled)

\* One topic: _set_topic_end_offsets, which skips a topic that does not exist,
\* and fetch_lag, which asks the broker again, finds no committed offset and
\* sets nothing.
PollTopic(ends) ==
  LET t == Polled[position] IN
  /\ collector = "polling" /\ brokerUp
  /\ gauge' = IF parts[t] = 0 THEN gauge ELSE [gauge EXCEPT ![t] = ends[t]]
  /\ IF IsLastTopic
     THEN Asleep("asleep")
     ELSE position' = position + 1 /\ UNCHANGED <<collector, roundEnd>>

\* A call of the consumer raises: it is closed, the exception is logged, and
\* the topics that were not reached keep their values.
RoundRaises ==
  /\ collector = "polling" /\ ~ brokerUp
  /\ Asleep(AfterException)
  /\ UNCHANGED gauge

CollectorStep(ends) ==
  OpenConsumer(ends) \/ OpenRaises \/ PollTopic(ends) \/ RoundRaises

=============================================================================
