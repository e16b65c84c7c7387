--------------------------- MODULE ProducerClient ---------------------------
(***************************************************************************)
(* The event producer: the loop of producer/cli.py (run) around the        *)
(* wrapper of producer/kafka_client.py, with librdkafka and one partition  *)
(* of the broker as far as the wrapper's options configure them: a bounded *)
(* local queue, retries, the idempotent producer, message timeouts and     *)
(* delivery reports that wait until poll or flush serves them.             *)
(***************************************************************************)
EXTENDS Naturals, Sequences, FiniteSets

CONSTANTS
  MaxEvents,    \* bound: the events of a process, also of one without a limit
  MaxQueue,     \* queue.buffering.max.messages of librdkafka
  MaxInFlight,  \* max.in.flight of an idempotent producer
  MaxFaults     \* bound: broker outages, lost replies and restarts

ASSUME ProducerAssumption ==
  /\ MaxEvents \in Nat \ {0} /\ MaxQueue \in Nat \ {0}
  /\ MaxInFlight \in Nat \ {0} /\ MaxFaults \in Nat

Events == 1 .. MaxEvents

VARIABLES
  config,     \* the limits of run(): max_events, 0 for none, and whether there
              \* is a duration
  pc,         \* where run() is
  produced,   \* events counted by run()
  delivered,  \* DeliveryTracker.delivered
  failed,     \* DeliveryTracker.failed
  msg,        \* what became of each event
  topic,      \* the partition: the events of this process appended, in order
  brokerUp,
  faults      \* faults spent

vars == <<config, pc, produced, delivered, failed, msg, topic, brokerUp, faults>>

With(status) == {i \in Events : msg[i] = status}

\* What librdkafka holds, unserved delivery reports included.
Outstanding == With("queued") \cup With("inflight") \cup With("acked") \cup With("expired")

InTopic(i) == \E k \in DOMAIN topic : topic[k] = i

\* ProducerConfig: zero means unlimited (config.py:45-52, cli.py:27, 32).
Configs == [max_events : 0 .. MaxEvents, duration : BOOLEAN]

Limited == config.max_events # 0 \/ config.duration

TypeOK ==
  /\ config \in Configs
  /\ pc \in {"check", "produce", "poll", "flush", "done", "crashed"}
  /\ produced \in 0 .. MaxEvents
  /\ config.max_events # 0 => produced <= config.max_events
  /\ delivered \in 0 .. MaxEvents /\ failed \in 0 .. MaxEvents
  /\ msg \in [Events -> {"new", "queued", "inflight", "acked", "expired",
                         "delivered", "failed", "purged"}]
  /\ topic \in Seq(Events)
  /\ brokerUp \in BOOLEAN
  /\ faults \in 0 .. MaxFaults

\* What the first process begins with ...
Fresh ==
  /\ pc = "check"
  /\ produced = 0 /\ delivered = 0 /\ failed = 0
  /\ msg = [i \in Events |-> "new"]
  /\ topic = <<>>

Init ==
  /\ config \in Configs
  /\ Fresh
  /\ brokerUp = TRUE /\ faults = 0

\* ... and the next one: what librdkafka held went with the process before.
Restart ==
  /\ pc \in {"done", "crashed"}
  /\ pc' = "check"
  /\ produced' = 0 /\ delivered' = 0 /\ failed' = 0
  /\ msg' = [i \in Events |-> "new"]
  /\ topic' = <<>>
  /\ faults < MaxFaults /\ faults' = faults + 1
  /\ UNCHANGED brokerUp

-----------------------------------------------------------------------------
(* run()                                                                     *)

\* Mutant: produced > config.max_events.
LimitReachedLate == config.max_events # 0 /\ produced > config.max_events

LimitReached == config.max_events # 0 /\ produced >= config.max_events

\* The tests at the top of the loop: max_events, then the deadline, which comes
\* at any time.  Without either the loop goes on for ever; its events beyond
\* MaxEvents are not looked at.
Check ==
  /\ pc = "check"
  /\ \/ (LimitReached \/ config.duration) /\ pc' = "flush"
     \/ ~ LimitReached /\ produced < MaxEvents /\ pc' = "produce"
  /\ UNCHANGED <<produced, delivered, failed, msg, topic, brokerUp, faults>>

QueueFull == Cardinality(Outstanding) >= MaxQueue

\* produce() enqueues the event ...
Produce ==
  /\ pc = "produce" /\ ~ QueueFull
  /\ msg' = [msg EXCEPT ![produced + 1] = "queued"]
  /\ pc' = "poll"
  /\ UNCHANGED <<produced, delivered, failed, topic, brokerUp, faults>>

\* The process ends; what librdkafka still holds goes with it.
Purged == [i \in Events |-> IF i \in Outstanding THEN "purged" ELSE msg[i]]

\* ... or raises BufferError, which nobody catches.
ProduceRaises ==
  /\ pc = "produce" /\ QueueFull
  /\ msg' = Purged
  /\ pc' = "crashed"
  /\ UNCHANGED <<produced, delivered, failed, topic, brokerUp, faults>>

\* Mutant: on_delivery counts an error as a delivery as well.
DeliveredReportsAll == With("acked") \cup With("expired")

DeliveredReports == With("acked")

\* The delivery callbacks that are due run on the caller's thread.
ServeReports ==
  /\ delivered' = delivered + Cardinality(DeliveredReports)
  /\ failed' = failed + Cardinality(With("expired"))
  /\ msg' = [i \in Events |-> CASE msg[i] = "acked" -> "delivered"
                                [] msg[i] = "expired" -> "failed"
                                [] OTHER -> msg[i]]

\* poll(0) and the count of the event.
Poll ==
  /\ pc = "poll"
  /\ ServeReports
  /\ produced' = produced + 1
  /\ pc' = "check"
  /\ UNCHANGED <<topic, brokerUp, faults>>

\* close(): flush serves reports while it waits ...
FlushServes ==
  /\ pc = "flush" /\ With("acked") \cup With("expired") # {}
  /\ ServeReports
  /\ UNCHANGED <<pc, produced, topic, brokerUp, faults>>

\* Mutant: close() does not flush.
FlushedAnyway == TRUE

FlushComplete == Outstanding = {}

\* ... until nothing is outstanding ...
FlushReturns ==
  /\ pc = "flush" /\ FlushComplete
  /\ msg' = Purged
  /\ pc' = "done"
  /\ UNCHANGED <<produced, delivered, failed, topic, brokerUp, faults>>

\* Mutant: flush() without a timeout, which would wait for the broker.
FlushNeverGivesUp == FALSE

\* The 10 seconds of flush are over before message.timeout.ms is.
FlushGivesUp == ~ brokerUp /\ With("queued") \cup With("inflight") # {}

\* ... or until it gives up; the number of messages that are left is returned
\* and ignored.
FlushTimesOut ==
  /\ pc = "flush" /\ FlushGivesUp
  /\ msg' = Purged
  /\ pc' = "done"
  /\ UNCHANGED <<produced, delivered, failed, topic, brokerUp, faults>>

-----------------------------------------------------------------------------
(* librdkafka and the broker                                                 *)

Transmit(i) ==
  /\ brokerUp /\ msg[i] = "queued"
  /\ \A j \in With("queued") : i <= j
  /\ Cardinality(With("inflight")) < MaxInFlight
  /\ msg' = [msg EXCEPT ![i] = "inflight"]
  /\ UNCHANGED <<pc, produced, delivered, failed, topic, brokerUp, faults>>

\* Mutant: enable.idempotence is off, the broker appends whatever arrives.
AcceptedAlways(i) == Len(topic) <= MaxEvents

\* The broker takes a sequence number once and in order.
AcceptedInSequence(i) ==
  /\ ~ InTopic(i)
  /\ \A j \in With("queued") \cup With("inflight") : j < i => InTopic(j)

BrokerAppends(i) ==
  /\ brokerUp /\ msg[i] = "inflight"
  /\ AcceptedInSequence(i)
  /\ topic' = Append(topic, i)
  /\ UNCHANGED <<pc, produced, delivered, failed, msg, brokerUp, faults>>

\* acks=all: the reply arrives.
Acknowledge(i) ==
  /\ brokerUp /\ msg[i] = "inflight" /\ InTopic(i)
  /\ msg' = [msg EXCEPT ![i] = "acked"]
  /\ UNCHANGED <<pc, produced, delivered, failed, topic, brokerUp, faults>>

\* Mutant: events that were given up are sent again.
RequeuedFailed ==
  [i \in Events |-> IF msg[i] \in {"inflight", "failed"} THEN "queued" ELSE msg[i]]

Requeued == [i \in Events |-> IF msg[i] = "inflight" THEN "queued" ELSE msg[i]]

\* A connection breaks: everything in flight will be sent again.
ConnectionLost ==
  /\ brokerUp /\ With("inflight") # {} /\ faults < MaxFaults
  /\ msg' = Requeued
  /\ faults' = faults + 1
  /\ UNCHANGED <<pc, produced, delivered, failed, topic, brokerUp>>

BrokerDown ==
  /\ brokerUp /\ faults < MaxFaults
  /\ brokerUp' = FALSE
  /\ msg' = Requeued
  /\ faults' = faults + 1
  /\ UNCHANGED <<pc, produced, delivered, failed, topic>>

BrokerBack ==
  /\ ~ brokerUp
  /\ brokerUp' = TRUE
  /\ UNCHANGED <<pc, produced, delivered, failed, msg, topic, faults>>

\* message.timeout.ms: the message fails, whether the broker has it or not.
MessageTimesOut(i) ==
  /\ ~ brokerUp /\ msg[i] = "queued"
  /\ \A j \in With("queued") : i <= j
  /\ msg' = [msg EXCEPT ![i] = "expired"]
  /\ UNCHANGED <<pc, produced, delivered, failed, topic, brokerUp, faults>>

Main == Check \/ Produce \/ ProduceRaises \/ Poll \/ FlushServes \/ FlushReturns \/ FlushTimesOut

Client(i) == Transmit(i) \/ BrokerAppends(i) \/ Acknowledge(i)

Next ==
  /\ \/ Main
     \/ \E i \in Events : Client(i) \/ MessageTimesOut(i)
     \/ ConnectionLost \/ BrokerDown \/ BrokerBack
  /\ UNCHANGED config

Spec == Init /\ [][Next]_vars

-----------------------------------------------------------------------------
(* Properties                                                                *)

\* Events handed to the client, the one in hand included.
Began == produced + (IF pc = "poll" THEN 1 ELSE 0)

\* The partition holds each event at most once and in the order in which it
\* was produced, whatever was retried, and every event reported as delivered
\* is in it (acks=all with enable.idempotence, kafka_client.py:13-20).
TopicInOrder ==
  /\ \A k, l \in DOMAIN topic : k < l => topic[k] < topic[l]
  /\ \A i \in With("acked") \cup With("delivered") : InTopic(i)

\* The counts that run() logs add up: every event produced is delivered,
\* failed, still held by the client, or was thrown away when the process
\* ended (cli.py:102-109); the event in hand is not counted yet.
Accounted ==
  Began = delivered + failed + Cardinality(Outstanding) + Cardinality(With("purged"))

\* A producer whose broker stays reachable has every event it produced in the
\* topic when it is done.
HealthyRunDeliversAll ==
  pc = "done" /\ faults = 0 => delivered = produced /\ Len(topic) = produced

\* What the delivery callback has said of each event.
Told == [i \in Events |-> IF msg[i] \in {"delivered", "failed"} THEN msg[i] ELSE "nothing"]

Delivery == INSTANCE OrderedDelivery
  WITH made <- Began, told <- Told, over <- pc \in {"done", "crashed"}

\* Queue, requests, retries, timeouts and the two ways out of flush are
\* invisible to run(): what it sees is an ordered log of the events it handed
\* over, each reported and counted at most once (kafka_client.py:30-81,
\* cli.py:88-109).
ImplementsOrderedDelivery == Delivery!Spec

\* A producer that "can silently drop is not" acceptable
\* (skills/streaming-pipeline-standard/SKILL.md:48): when the run is done each
\* event it produced was reported as delivered or as failed.
NothingSilentlyDropped == pc = "done" => produced = delivered + failed

=============================================================================
