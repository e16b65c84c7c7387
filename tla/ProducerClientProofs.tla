------------------------ MODULE ProducerClientProofs ------------------------
(***************************************************************************)
(* The producer for every number of events, every size of the local queue  *)
(* and every number of faults: type correctness, the order of the topic,   *)
(* the sum of the counts, and that a run without faults delivers all.      *)
(***************************************************************************)
EXTENDS ProducerClient, FiniteSetTheorems, FunctionTheorems, TLAPS

USE ProducerAssumption

Statuses == {"new", "queued", "inflight", "acked", "expired",
             "delivered", "failed", "purged"}

\* The types, with delivered and failed unbounded: that they never exceed
\* MaxEvents needs Accounted.
Typed ==
  /\ config \in Configs
  /\ pc \in {"check", "produce", "poll", "flush", "done", "crashed"}
  /\ produced \in 0 .. MaxEvents
  /\ config.max_events # 0 => produced <= config.max_events
  /\ pc \in {"produce", "poll"} =>
       produced < MaxEvents /\ (config.max_events # 0 => produced < config.max_events)
  /\ delivered \in Nat /\ failed \in Nat
  /\ msg \in [Events -> Statuses]
  /\ topic \in Seq(Events)
  /\ brokerUp \in BOOLEAN
  /\ faults \in 0 .. MaxFaults

\* Events are produced in the order of their numbers.
Numbered == \A i \in Events : msg[i] = "new" <=> i > Began

\* What is in the topic was produced, and nothing older that can still be sent
\* is missing before it.
NoGapToFill ==
  \A k \in Events : InTopic(k) =>
    /\ msg[k] # "new"
    /\ \A j \in Events : j < k /\ msg[j] \in {"queued", "inflight"} => InTopic(j)

\* Without a fault nothing fails, and nothing is thrown away but by a crash.
NoFaultNoLoss ==
  faults = 0 =>
    /\ brokerUp
    /\ \A i \in Events : msg[i] \notin {"expired", "failed"}
    /\ failed = 0
    /\ pc # "crashed" => \A i \in Events : msg[i] # "purged"

DoneHoldsNothing == pc = "done" => Outstanding = {}

ProducerInv ==
  /\ Typed /\ Numbered /\ NoGapToFill /\ TopicInOrder
  /\ Accounted /\ NoFaultNoLoss /\ DoneHoldsNothing

-----------------------------------------------------------------------------
(* Counting events                                                           *)

\* Every set of events is finite.
LEMMA EventSets ==
  ASSUME NEW S \in SUBSET Events
  PROVE  IsFiniteSet(S) /\ Cardinality(S) \in Nat
<1>1. IsFiniteSet(Events)
  BY FS_Interval DEF Events
<1>2. IsFiniteSet(S)
  BY <1>1, FS_Subset
<1>3. QED
  BY <1>2, FS_CardinalityType

\* Disjoint sets of events count separately.
LEMMA DisjointCount ==
  ASSUME NEW S \in SUBSET Events, NEW T \in SUBSET Events, S \cap T = {}
  PROVE  Cardinality(S \cup T) = Cardinality(S) + Cardinality(T)
<1>1. IsFiniteSet(S) /\ IsFiniteSet(T) /\ Cardinality(S) \in Nat /\ Cardinality(T) \in Nat
  BY EventSets
<1>2. Cardinality(S \cup T) = Cardinality(S) + Cardinality(T) - Cardinality(S \cap T)
  BY <1>1, FS_Union
<1>3. Cardinality(S \cap T) = 0
  BY FS_EmptySet
<1>4. QED
  BY <1>1, <1>2, <1>3

\* One more event.
LEMMA OneMore ==
  ASSUME NEW S \in SUBSET Events, NEW i \in Events, i \notin S
  PROVE  Cardinality(S \cup {i}) = Cardinality(S) + 1
BY EventSets, FS_AddElement

\* What librdkafka holds are events whose status says so.
LEMMA Held ==
  /\ Outstanding = {i \in Events : msg[i] \in {"queued", "inflight", "acked", "expired"}}
  /\ Outstanding' = {i \in Events : msg'[i] \in {"queued", "inflight", "acked", "expired"}}
BY DEF Outstanding, With

-----------------------------------------------------------------------------
(* Accounted, step by step                                                   *)

\* A step that counts nothing and moves an event between the queue, the wire
\* and the due reports keeps the sums.
LEMMA MovingKeepsCount ==
  ASSUME Accounted, UNCHANGED <<produced, delivered, failed>>,
         pc' = "poll" <=> pc = "poll",
         Outstanding' = Outstanding, With("purged")' = With("purged")
  PROVE  Accounted'
BY DEF Accounted, Began

\* When the process ends, what was held is thrown away.
LEMMA PurgingKeepsCount ==
  ASSUME Typed, Accounted, UNCHANGED <<produced, delivered, failed>>,
         pc # "poll", pc' # "poll", msg' = Purged
  PROVE  Accounted'
<1>1. Outstanding \in SUBSET Events /\ With("purged") \in SUBSET Events
  BY DEF Outstanding, With
<1>2. Outstanding \cap With("purged") = {}
  BY DEF Outstanding, With
<1>3. Outstanding' = {}
  BY Held DEF Purged, Typed
<1>4. With("purged")' = Outstanding \cup With("purged")
  BY DEF Purged, With, Outstanding
<1>5. Cardinality(With("purged")') = Cardinality(Outstanding) + Cardinality(With("purged"))
  BY <1>1, <1>2, <1>4, DisjointCount
<1>6. Cardinality(Outstanding') = 0
  BY <1>3, FS_EmptySet
<1>7. Cardinality(Outstanding) \in Nat /\ Cardinality(With("purged")) \in Nat
  BY <1>1, EventSets
<1>8. QED
  BY <1>5, <1>6, <1>7 DEF Accounted, Began, Typed

\* Reports that are served move from what is held to the two counters.
LEMMA ServingKeepsCount ==
  ASSUME Typed, Accounted, ServeReports,
         produced' + (IF pc' = "poll" THEN 1 ELSE 0) = Began
  PROVE  Accounted' /\ delivered' \in Nat /\ failed' \in Nat
<1> DEFINE A == With("acked")
           E == With("expired")
           R == With("queued") \cup With("inflight")
<1>1. A \in SUBSET Events /\ E \in SUBSET Events /\ R \in SUBSET Events /\ (A \cup E) \in SUBSET Events
  BY DEF With
<1>2. A \cap E = {} /\ R \cap (A \cup E) = {}
  BY DEF With
<1>3. Outstanding = R \cup (A \cup E)
  BY DEF Outstanding
<1>4. msg' = [i \in Events |-> CASE msg[i] = "acked" -> "delivered"
                                [] msg[i] = "expired" -> "failed"
                                [] OTHER -> msg[i]]
  BY DEF ServeReports
<1>5. Outstanding' = R
  BY <1>4, Held DEF With, Typed
<1>6. With("purged")' = With("purged")
  BY <1>4 DEF With
<1>7. Cardinality(A \cup E) = Cardinality(A) + Cardinality(E)
  BY <1>1, <1>2, DisjointCount
<1>8. Cardinality(Outstanding) = Cardinality(R) + Cardinality(A \cup E)
  BY <1>1, <1>2, <1>3, DisjointCount
<1>9. /\ Cardinality(A) \in Nat /\ Cardinality(E) \in Nat /\ Cardinality(R) \in Nat
      /\ Cardinality(With("purged")) \in Nat
  BY <1>1, EventSets DEF With
<1>10. delivered' = delivered + Cardinality(A) /\ failed' = failed + Cardinality(E)
  BY DEF ServeReports, DeliveredReports
<1>11. delivered \in Nat /\ failed \in Nat /\ produced \in Nat
  BY DEF Typed
<1>12. Began = delivered + failed + Cardinality(Outstanding) + Cardinality(With("purged"))
  BY DEF Accounted, Began
<1>13. Cardinality(Outstanding') = Cardinality(R)
  BY <1>5
<1>14. Began = delivered' + failed' + Cardinality(Outstanding') + Cardinality(With("purged")')
  <2> HIDE DEF A, E, R
  <2>1. QED
    BY <1>6, <1>7, <1>8, <1>9, <1>10, <1>11, <1>12, <1>13
<1>15. QED
  BY <1>9, <1>10, <1>11, <1>14 DEF Accounted, Began

-----------------------------------------------------------------------------
(* Every step preserves ProducerInv                                          *)

\* run() on its own thread.
LEMMA MainStep ==
  ASSUME ProducerInv, Main, config' = config
  PROVE  ProducerInv'
<1> USE DEF ProducerInv, Typed, Statuses, Configs
<1>1. CASE Check
  <2>1. UNCHANGED <<produced, delivered, failed, msg, topic, brokerUp, faults>>
    BY <1>1 DEF Check
  <2>2. pc = "check" /\ (pc' = "flush" \/ pc' = "produce")
    BY <1>1 DEF Check
  <2>7. pc' = "produce" => produced < MaxEvents /\ (config.max_events # 0 => produced < config.max_events)
    <3>1. pc' = "produce" => produced < MaxEvents /\ ~ LimitReached
      BY <1>1 DEF Check
    <3>2. QED
      BY <3>1 DEF LimitReached
  <2>8. Typed'
    BY <2>1, <2>2, <2>7
  <2>3. Began' = Began /\ Outstanding' = Outstanding /\ With("purged")' = With("purged")
    BY ONLY <2>1, <2>2 DEF Began, Outstanding, With
  <2>4. Accounted'
    BY <2>1, <2>2, <2>3, MovingKeepsCount
  <2>5. TopicInOrder' /\ NoGapToFill'
    BY <2>1 DEF TopicInOrder, NoGapToFill, InTopic, With
  <2>6. QED
    BY <2>1, <2>2, <2>3, <2>4, <2>5, <2>8 DEF Numbered, NoFaultNoLoss, DoneHoldsNothing
<1>2. CASE Produce
  <2>1. /\ pc = "produce" /\ pc' = "poll" /\ produced + 1 \in Events /\ produced \in Nat
        /\ msg' = [msg EXCEPT ![produced + 1] = "queued"]
        /\ UNCHANGED <<produced, delivered, failed, topic, brokerUp, faults>>
    BY <1>2 DEF Produce, Events
  <2>2. Began = produced /\ Began' = produced + 1 /\ msg[produced + 1] = "new"
    BY <2>1 DEF Began, Numbered
  <2>3. Typed'
    BY <2>1
  <2>4. Numbered'
    BY <2>1, <2>2 DEF Numbered, Events
  <2>5. NoGapToFill'
    <3> SUFFICES ASSUME NEW k \in Events, InTopic(k)
                 PROVE  /\ msg'[k] # "new"
                        /\ \A j \in Events : j < k /\ msg'[j] \in {"queued", "inflight"} => InTopic(j)
      BY <2>1 DEF NoGapToFill, InTopic
    <3>1. msg[k] # "new" /\ k <= produced
      BY <2>2 DEF NoGapToFill, Numbered, Events
    <3>2. QED
      BY <2>1, <3>1 DEF NoGapToFill, Events
  <2>6. TopicInOrder'
    BY <2>1, <2>2 DEF TopicInOrder, With, InTopic
  <2>7. Accounted'
    <3>1. Outstanding' = Outstanding \cup {produced + 1} /\ produced + 1 \notin Outstanding
      BY <2>1, <2>2, Held
    <3>2. With("purged")' = With("purged")
      BY <2>1, <2>2 DEF With
    <3>3. Outstanding \in SUBSET Events
      BY Held
    <3>4. Cardinality(Outstanding') = Cardinality(Outstanding) + 1
      BY <2>1, <3>1, <3>3, OneMore
    <3>5. Cardinality(Outstanding) \in Nat /\ Cardinality(With("purged")) \in Nat
      BY <3>3, EventSets DEF With
    <3>6. QED
      BY <2>1, <3>2, <3>4, <3>5 DEF Accounted, Began
  <2>8. NoFaultNoLoss' /\ DoneHoldsNothing'
    BY <2>1 DEF NoFaultNoLoss, DoneHoldsNothing
  <2>9. QED
    BY <2>3, <2>4, <2>5, <2>6, <2>7, <2>8
<1>3. ASSUME msg' = Purged, pc \in {"produce", "flush"}, pc' \in {"done", "crashed"},
             UNCHANGED <<produced, delivered, failed, topic, brokerUp, faults>>,
             faults = 0 /\ pc' # "crashed" => Outstanding = {}
      PROVE  ProducerInv'
  <2>1. Accounted'
    BY <1>3, PurgingKeepsCount
  <2>2. \A i \in Events : msg'[i] = IF i \in Outstanding THEN "purged" ELSE msg[i]
    BY <1>3 DEF Purged
  <2>3. \A i \in Events : msg[i] = "new" => i \notin Outstanding
    BY Held
  <2>4. Typed'
    BY <1>3 DEF Purged
  <2>5. Numbered'
    BY <1>3, <2>2, <2>3 DEF Numbered, Began
  <2>6. NoGapToFill' /\ TopicInOrder'
    BY <1>3, <2>2, <2>3 DEF NoGapToFill, TopicInOrder, InTopic, With
  <2>7. NoFaultNoLoss'
    BY <1>3, <2>2 DEF NoFaultNoLoss
  <2>8. DoneHoldsNothing'
    BY <2>2, Held DEF DoneHoldsNothing
  <2>9. QED
    BY <2>1, <2>4, <2>5, <2>6, <2>7, <2>8
<1>4. CASE ProduceRaises
  BY <1>3, <1>4 DEF ProduceRaises
<1>5. CASE FlushReturns
  BY <1>3, <1>5 DEF FlushReturns, FlushComplete
<1>6. CASE FlushTimesOut
  BY <1>3, <1>6 DEF FlushTimesOut, FlushGivesUp, NoFaultNoLoss
<1>7. CASE Poll \/ FlushServes
  <2>1. /\ ServeReports /\ UNCHANGED <<topic, brokerUp, faults>>
        /\ pc' \in {"check", "flush"} /\ pc \in {"poll", "flush"}
        /\ produced' \in 0 .. MaxEvents /\ Began' = Began
        /\ produced' + (IF pc' = "poll" THEN 1 ELSE 0) = Began
    BY <1>7 DEF Poll, FlushServes, Began
  <2>2. Accounted' /\ delivered' \in Nat /\ failed' \in Nat
    BY <2>1, ServingKeepsCount
  <2>3. \A i \in Events : msg'[i] = IF msg[i] = "acked" THEN "delivered"
                                    ELSE IF msg[i] = "expired" THEN "failed" ELSE msg[i]
    BY <2>1 DEF ServeReports
  <2>4. msg' \in [Events -> Statuses]
    <3>1. msg' = [i \in Events |-> msg'[i]]
      BY <2>1 DEF ServeReports
    <3>2. \A i \in Events : msg'[i] \in Statuses
      BY <2>3
    <3>3. QED
      BY <3>1, <3>2
  <2>10. config.max_events # 0 => produced' <= config.max_events
    <3>1. config.max_events \in Nat /\ produced \in Nat
      OBVIOUS
    <3>2. produced' = produced \/ (pc = "poll" /\ produced' = produced + 1)
      BY <1>7 DEF Poll, FlushServes
    <3>3. QED
      BY <3>1, <3>2
  <2>5. Typed'
    BY <2>1, <2>2, <2>4, <2>10
  <2>6. Numbered' /\ NoGapToFill' /\ TopicInOrder'
    BY <2>1, <2>3 DEF Numbered, NoGapToFill, TopicInOrder, InTopic, With
  <2>7. NoFaultNoLoss'
    <3> SUFFICES ASSUME faults = 0 PROVE NoFaultNoLoss'
      BY <2>1 DEF NoFaultNoLoss
    <3>1. With("expired") = {}
      BY DEF With, NoFaultNoLoss
    <3>2. failed' = 0
      <4>1. Cardinality(With("expired")) = 0
        BY <3>1, FS_EmptySet
      <4>2. failed = 0 /\ failed' = failed + Cardinality(With("expired"))
        BY <2>1 DEF ServeReports, NoFaultNoLoss
      <4>3. QED
        BY <4>1, <4>2
    <3>3. QED
      BY <2>1, <2>3, <3>2 DEF NoFaultNoLoss
  <2>8. DoneHoldsNothing'
    BY <2>1 DEF DoneHoldsNothing
  <2>9. QED
    BY <2>2, <2>5, <2>6, <2>7, <2>8
<1>8. QED
  BY <1>1, <1>2, <1>4, <1>5, <1>6, <1>7 DEF Main

\* Steps that only change where an event is held.
LEMMA HoldingStep ==
  ASSUME ProducerInv, UNCHANGED <<config, pc, produced, delivered, failed, topic>>,
         msg' \in [Events -> Statuses], brokerUp' \in BOOLEAN, faults' \in 0 .. MaxFaults,
         \A i \in Events : \/ msg'[i] = msg[i]
                           \/ /\ msg[i] \in {"queued", "inflight"}
                              /\ \/ msg'[i] \in {"queued", "inflight"}
                                 \/ msg'[i] = "acked" /\ InTopic(i)
                                 \/ msg'[i] = "expired" /\ faults' # 0,
         faults' = 0 => faults = 0 /\ brokerUp'
  PROVE  ProducerInv'
<1> USE DEF ProducerInv
<1>1. Outstanding' = Outstanding
  BY Held DEF Typed
<1>2. With("purged")' = With("purged")
  BY DEF With
<1>3. Accounted'
  BY <1>1, <1>2, MovingKeepsCount
<1>4. Typed'
  BY DEF Typed
<1>5. Numbered' /\ NoGapToFill' /\ TopicInOrder'
  BY DEF Numbered, NoGapToFill, TopicInOrder, InTopic, With, Began
<1>6. NoFaultNoLoss' /\ DoneHoldsNothing'
  BY <1>1 DEF NoFaultNoLoss, DoneHoldsNothing
<1>7. QED
  BY <1>3, <1>4, <1>5, <1>6

\* The broker appends an event: it is the next one in order.
LEMMA AppendStep ==
  ASSUME ProducerInv, NEW i \in Events, BrokerAppends(i), config' = config
  PROVE  ProducerInv'
<1> USE DEF ProducerInv
<1>1. /\ UNCHANGED <<pc, produced, delivered, failed, msg, brokerUp, faults>>
      /\ topic' = Append(topic, i) /\ msg[i] = "inflight" /\ ~ InTopic(i)
      /\ \A j \in Events : msg[j] \in {"queued", "inflight"} /\ j < i => InTopic(j)
  BY DEF BrokerAppends, AcceptedInSequence, With
<1>2. /\ topic \in Seq(Events) /\ Len(topic) \in Nat /\ DOMAIN topic = 1 .. Len(topic)
      /\ topic' \in Seq(Events) /\ DOMAIN topic' = 1 .. Len(topic) + 1
      /\ topic'[Len(topic) + 1] = i /\ \A k \in 1 .. Len(topic) : topic'[k] = topic[k]
  BY <1>1 DEF Typed
<1>3. \A k \in Events : InTopic(k)' <=> InTopic(k) \/ k = i
  BY <1>2 DEF InTopic
<1>4. \A k \in 1 .. Len(topic) : topic[k] < i
  <2> SUFFICES ASSUME NEW k \in 1 .. Len(topic) PROVE topic[k] < i
    OBVIOUS
  <2>1. topic[k] \in Events /\ InTopic(topic[k])
    BY <1>2 DEF InTopic
  <2>2. ~ (i < topic[k]) /\ topic[k] # i
    BY <1>1, <2>1 DEF NoGapToFill
  <2>3. QED
    BY <2>1, <2>2 DEF Events
<1>5. TopicInOrder'
  <2>1. \A k, l \in DOMAIN topic' : k < l => topic'[k] < topic'[l]
    BY <1>2, <1>4 DEF TopicInOrder
  <2>2. \A j \in With("acked")' \cup With("delivered")' : InTopic(j)'
    BY <1>1, <1>3 DEF TopicInOrder, With
  <2>3. QED
    BY <2>1, <2>2 DEF TopicInOrder
<1>6. NoGapToFill'
  BY <1>1, <1>3 DEF NoGapToFill
<1>7. Typed' /\ Numbered' /\ NoFaultNoLoss'
  BY <1>1, <1>2 DEF Typed, Numbered, NoFaultNoLoss, Began
<1>8. Outstanding' = Outstanding /\ With("purged")' = With("purged")
  BY <1>1 DEF Outstanding, With
<1>9. Accounted' /\ DoneHoldsNothing'
  BY <1>1, <1>8, MovingKeepsCount DEF DoneHoldsNothing
<1>10. QED
  BY <1>5, <1>6, <1>7, <1>9

\* A process begins in a state of the invariant, after faults as well.
ProcessBegins ==
  /\ config \in Configs /\ Fresh
  /\ brokerUp \in BOOLEAN /\ faults \in 0 .. MaxFaults
  /\ faults = 0 => brokerUp

\* Such a state satisfies the invariant.
LEMMA BeginningKeepsInv == ProcessBegins => ProducerInv
<1> SUFFICES ASSUME ProcessBegins PROVE ProducerInv
  OBVIOUS
<1> USE DEF ProcessBegins, Fresh
<1>1. \A i \in Events : msg[i] = "new"
  OBVIOUS
<1>2. Typed /\ Numbered /\ NoFaultNoLoss /\ DoneHoldsNothing
  BY <1>1 DEF Typed, Configs, Numbered, Began, NoFaultNoLoss, DoneHoldsNothing, Statuses, Events
<1>3. NoGapToFill /\ TopicInOrder
  BY <1>1 DEF NoGapToFill, TopicInOrder, InTopic, With
<1>4. Outstanding = {} /\ With("purged") = {}
  BY <1>1 DEF Outstanding, With
<1>5. Cardinality(Outstanding) = 0 /\ Cardinality(With("purged")) = 0
  BY <1>4, FS_EmptySet
<1>6. Accounted
  BY <1>5 DEF Accounted, Began
<1>7. QED
  BY <1>2, <1>3, <1>6 DEF ProducerInv

\* So does the first one.
LEMMA InitialState == Init => ProducerInv
BY BeginningKeepsInv DEF Init, ProcessBegins

\* And so does the next one.
LEMMA RestartStep ==
  ASSUME ProducerInv, Restart, config' = config
  PROVE  ProducerInv'
<1>1. /\ config \in Configs /\ brokerUp \in BOOLEAN /\ faults \in 0 .. MaxFaults
      /\ faults < MaxFaults
  BY DEF ProducerInv, Typed, Restart
<1>2. config' \in Configs
  BY <1>1 DEF Configs
<1>3. Fresh'
  BY DEF Restart, Fresh
<1>4. brokerUp' \in BOOLEAN /\ faults' \in 0 .. MaxFaults /\ faults' # 0
  BY <1>1 DEF Restart
<1>5. ProcessBegins'
  BY <1>2, <1>3, <1>4 DEF ProcessBegins
<1>6. ProcessBegins' => ProducerInv'
  BY BeginningKeepsInv, PTL
<1>7. QED
  BY <1>5, <1>6

\* Every step of the producer, of librdkafka and of the broker keeps it.
LEMMA ProducerStep == ProducerInv /\ [Next]_vars => ProducerInv'
<1> SUFFICES ASSUME ProducerInv, [Next]_vars PROVE ProducerInv'
  OBVIOUS
<1> USE DEF Statuses
<1>0. /\ msg \in [Events -> Statuses] /\ faults \in 0 .. MaxFaults /\ brokerUp \in BOOLEAN
      /\ faults = 0 => brokerUp
  BY DEF ProducerInv, Typed, NoFaultNoLoss
<1>9. config' = config
  BY DEF Next, vars
<1>1. CASE Main
  BY <1>1, <1>9, MainStep
<1>2. ASSUME NEW i \in Events, Transmit(i) \/ Acknowledge(i) \/ MessageTimesOut(i)
      PROVE  ProducerInv'
  <2>1. UNCHANGED <<pc, produced, delivered, failed, topic, brokerUp, faults>>
    BY <1>2 DEF Transmit, Acknowledge, MessageTimesOut
  <2>2. \/ msg[i] = "queued" /\ msg' = [msg EXCEPT ![i] = "inflight"]
        \/ msg[i] = "inflight" /\ InTopic(i) /\ msg' = [msg EXCEPT ![i] = "acked"]
        \/ msg[i] = "queued" /\ ~ brokerUp /\ msg' = [msg EXCEPT ![i] = "expired"]
    BY <1>2 DEF Transmit, Acknowledge, MessageTimesOut
  <2>3. msg' \in [Events -> Statuses]
    BY <1>0, <2>2
  <2>4. QED
    BY <1>0, <1>9, <2>1, <2>2, <2>3, HoldingStep
<1>3. ASSUME NEW i \in Events, BrokerAppends(i)
      PROVE  ProducerInv'
  BY <1>3, <1>9, AppendStep
<1>4. CASE ConnectionLost \/ BrokerDown
  <2>1. /\ UNCHANGED <<config, pc, produced, delivered, failed, topic>>
        /\ msg' = Requeued /\ faults' = faults + 1 /\ faults < MaxFaults /\ brokerUp' \in BOOLEAN
    BY <1>0, <1>4, <1>9 DEF ConnectionLost, BrokerDown
  <2>2. msg' \in [Events -> Statuses]
    BY <1>0, <2>1 DEF Requeued
  <2>3. faults' \in 0 .. MaxFaults /\ faults' # 0
    BY <1>0, <2>1
  <2>4. QED
    BY <1>0, <2>1, <2>2, <2>3, HoldingStep DEF Requeued
<1>5. CASE BrokerBack
  BY <1>0, <1>5, <1>9, HoldingStep DEF BrokerBack
<1>6. CASE UNCHANGED vars
  BY <1>0, <1>6, HoldingStep DEF vars
<1>7. QED
  BY <1>1, <1>2, <1>3, <1>4, <1>5, <1>6 DEF Next, Client

\* The events that are delivered in a run without faults are the topic.
LEMMA HealthyTopic == ProducerInv => HealthyRunDeliversAll
<1> SUFFICES ASSUME ProducerInv, pc = "done", faults = 0
             PROVE  delivered = produced /\ Len(topic) = produced
  BY DEF HealthyRunDeliversAll
<1> USE DEF ProducerInv, Typed
<1>1. Outstanding = {} /\ With("purged") = {} /\ failed = 0
  BY DEF DoneHoldsNothing, NoFaultNoLoss, With
<1>2. delivered = produced
  <2>1. Cardinality(Outstanding) = 0 /\ Cardinality(With("purged")) = 0
    BY <1>1, FS_EmptySet
  <2>2. QED
    BY <1>1, <2>1 DEF Accounted, Began
<1>3. Began = produced /\ produced \in Nat /\ produced <= MaxEvents
  BY DEF Began
<1>4. \A i \in 1 .. produced : i \in Events /\ InTopic(i)
  <2> SUFFICES ASSUME NEW i \in 1 .. produced PROVE i \in Events /\ InTopic(i)
    OBVIOUS
  <2>1. i \in Events /\ msg[i] # "new" /\ msg[i] \in Statuses
    BY <1>3 DEF Numbered, Events
  <2>2. msg[i] \notin {"queued", "inflight", "acked", "expired", "failed", "purged"}
    BY <1>1, <2>1, Held DEF With, NoFaultNoLoss
  <2>3. i \in With("delivered")
    BY <2>1, <2>2 DEF With, Statuses
  <2>4. QED
    BY <2>1, <2>3 DEF TopicInOrder
<1>5. /\ Len(topic) \in Nat /\ DOMAIN topic = 1 .. Len(topic)
      /\ \A k \in 1 .. Len(topic) : topic[k] \in Events
  OBVIOUS
<1>6. \A k \in 1 .. Len(topic) : topic[k] \in 1 .. produced
  <2> SUFFICES ASSUME NEW k \in 1 .. Len(topic) PROVE topic[k] \in 1 .. produced
    OBVIOUS
  <2>1. topic[k] \in Events /\ InTopic(topic[k])
    BY <1>5 DEF InTopic
  <2>2. QED
    BY <1>3, <2>1 DEF NoGapToFill, Numbered, Events
<1>7. topic \in Bijection(1 .. Len(topic), 1 .. produced)
  <2>1. topic \in [1 .. Len(topic) -> 1 .. produced]
    BY <1>5, <1>6
  <2>2. \A k, l \in 1 .. Len(topic) : topic[k] = topic[l] => k = l
    <3> SUFFICES ASSUME NEW k \in 1 .. Len(topic), NEW l \in 1 .. Len(topic), k < l
                 PROVE  topic[k] # topic[l]
      BY <1>5
    <3>1. topic[k] < topic[l] /\ topic[k] \in Nat /\ topic[l] \in Nat
      <4>1. \A x, y \in DOMAIN topic : x < y => topic[x] < topic[y]
        BY DEF TopicInOrder
      <4>2. topic[k] < topic[l]
        BY <1>5, <4>1
      <4>3. QED
        BY <1>3, <1>6, <4>2
    <3>2. QED
      BY <3>1
  <2>3. \A i \in 1 .. produced : \E k \in 1 .. Len(topic) : topic[k] = i
    BY <1>4, <1>5 DEF InTopic
  <2>4. QED
    BY <2>1, <2>2, <2>3 DEF Bijection, Injection, Surjection, IsInjective
<1>8. Cardinality(1 .. Len(topic)) = Cardinality(1 .. produced)
  <2>1. ExistsBijection(1 .. Len(topic), 1 .. produced)
    BY <1>7 DEF ExistsBijection
  <2>2. IsFiniteSet(1 .. Len(topic))
    BY <1>5, FS_Interval
  <2>3. QED
    BY <2>1, <2>2, FS_Bijection
<1>9. Cardinality(1 .. Len(topic)) = Len(topic) /\ Cardinality(1 .. produced) = produced
  <2>1. \A n \in Nat : Cardinality(1 .. n) = n
    <3> SUFFICES ASSUME NEW n \in Nat PROVE Cardinality(1 .. n) = n
      OBVIOUS
    <3>1. Cardinality(1 .. n) = IF 1 > n THEN 0 ELSE n - 1 + 1
      BY FS_Interval
    <3>2. QED
      BY <3>1
  <2>2. QED
    BY <1>3, <1>5, <2>1
<1>10. QED
  BY <1>2, <1>8, <1>9

\* That the counters stay within the events of the run follows from the sum of
\* the counts.
LEMMA ProducerTypes == ProducerInv => TypeOK
<1> SUFFICES ASSUME ProducerInv PROVE TypeOK
  OBVIOUS
<1>1. Cardinality(Outstanding) \in Nat /\ Cardinality(With("purged")) \in Nat
  BY EventSets DEF Outstanding, With
<1>2. delivered <= MaxEvents /\ failed <= MaxEvents
  BY <1>1 DEF ProducerInv, Accounted, Began, Typed
<1>3. QED
  BY <1>2 DEF ProducerInv, Typed, TypeOK, Statuses

-----------------------------------------------------------------------------
(* The producer implements ordered delivery                                  *)

\* A step that neither hands over, appends nor reports anything is invisible.
LEMMA Unseen ==
  ASSUME UNCHANGED <<Began, topic, Told, delivered, failed>>,
         pc' \in {"done", "crashed"} <=> pc \in {"done", "crashed"}
  PROVE  UNCHANGED Delivery!vars
BY DEF Delivery!vars

\* produce() hands over the next event.
LEMMA HandsOver ==
  ASSUME ProducerInv, Produce
  PROVE  Delivery!HandOver
<1>1. /\ pc = "produce" /\ pc' = "poll" /\ produced \in Nat /\ produced < MaxEvents
      /\ produced + 1 \in Events /\ msg \in [Events -> Statuses]
      /\ msg' = [msg EXCEPT ![produced + 1] = "queued"]
      /\ UNCHANGED <<produced, delivered, failed, topic>>
  BY DEF Produce, ProducerInv, Typed, Events
<1>2. Began = produced /\ Began' = Began + 1
  BY <1>1 DEF Began
<1>3. msg[produced + 1] = "new"
  BY <1>1, <1>2 DEF ProducerInv, Numbered
<1>4. Told' = Told
  BY <1>1, <1>3 DEF Told
<1>5. QED
  BY <1>1, <1>2, <1>4 DEF Delivery!HandOver

\* The event that the broker takes was handed over and is younger than all it
\* has.
LEMMA Appends ==
  ASSUME ProducerInv, NEW i \in Events, BrokerAppends(i)
  PROVE  Delivery!AppendNext
<1>1. /\ UNCHANGED <<pc, produced, delivered, failed, msg>>
      /\ topic' = Append(topic, i) /\ msg[i] = "inflight" /\ ~ InTopic(i)
  BY DEF BrokerAppends, AcceptedInSequence
<1>2. i \in 1 .. Began
  <2>1. ~ (i > Began) /\ Began \in Nat
    BY <1>1 DEF ProducerInv, Numbered, Typed, Began
  <2>2. QED
    BY <2>1 DEF Events
<1>3. \A j \in Delivery!Appended : j < i
  <2> SUFFICES ASSUME NEW k \in DOMAIN topic PROVE topic[k] < i
    BY DEF Delivery!Appended
  <2>1. topic[k] \in Events /\ InTopic(topic[k])
    BY DEF ProducerInv, Typed, InTopic
  <2>2. ~ (i < topic[k]) /\ topic[k] # i
    BY <1>1, <2>1 DEF ProducerInv, NoGapToFill
  <2>3. QED
    BY <2>1, <2>2 DEF Events
<1>4. Began' = Began /\ Told' = Told
  BY <1>1 DEF Began, Told
<1>5. QED
  BY <1>1, <1>2, <1>3, <1>4 DEF Delivery!AppendNext

\* The callbacks that poll and flush run report what was acknowledged as
\* delivered, and it is in the partition, and what timed out as failed; each
\* of these events was handed over and not reported before.
LEMMA Reports ==
  ASSUME ProducerInv, Poll \/ FlushServes
  PROVE  Delivery!Report
<1> DEFINE good == With("acked")
           bad == With("expired")
           open == {i \in 1 .. Began : Told[i] = "nothing"}
<1>1. /\ ServeReports /\ UNCHANGED topic
      /\ pc \in {"poll", "flush"} /\ pc' \in {"check", "flush"} /\ Began' = Began
      /\ produced \in Nat
  BY DEF Poll, FlushServes, Began, ProducerInv, Typed
<1>2. good \in SUBSET open /\ bad \in SUBSET open
  <2> SUFFICES ASSUME NEW i \in Events, msg[i] \in {"acked", "expired"}
               PROVE  i \in 1 .. Began /\ Told[i] = "nothing"
    BY DEF With
  <2>1. ~ (i > Began) /\ Began \in Nat
    BY <1>1 DEF ProducerInv, Numbered, Began
  <2>2. QED
    BY <2>1 DEF Events, Told
<1>3. good \cap bad = {}
  BY DEF With
<1>4. good \subseteq Delivery!Appended
  BY DEF ProducerInv, TopicInOrder, InTopic, Delivery!Appended
<1>5. Told' = [i \in Events |-> IF i \in good THEN "delivered"
                                ELSE IF i \in bad THEN "failed" ELSE Told[i]]
  <2>1. \A i \in Events : msg'[i] = IF msg[i] = "acked" THEN "delivered"
                                    ELSE IF msg[i] = "expired" THEN "failed" ELSE msg[i]
    BY <1>1 DEF ServeReports
  <2>2. QED
    BY <2>1 DEF Told, With
<1>6. delivered' = delivered + Cardinality(good) /\ failed' = failed + Cardinality(bad)
  BY <1>1 DEF ServeReports, DeliveredReports
\* The abstract module counts with its own copy of Cardinality.
<1>7. \A S : Delivery!Cardinality(S) = Cardinality(S)
  BY DEF Delivery!Cardinality, Cardinality, Delivery!IsFiniteSet, IsFiniteSet
<1>8. QED
  <2> HIDE DEF good, bad
  <2>1. QED
    BY <1>1, <1>2, <1>3, <1>4, <1>5, <1>6, <1>7 DEF Delivery!Report, Delivery!Events, Events

\* However the process ends, nothing is reported with it.
LEMMA RunEnds ==
  ASSUME ProducerInv, ProduceRaises \/ FlushReturns \/ FlushTimesOut
  PROVE  Delivery!End
<1>1. /\ pc \in {"produce", "flush"} /\ pc' \in {"done", "crashed"} /\ msg' = Purged
      /\ UNCHANGED <<produced, delivered, failed, topic>>
  BY DEF ProduceRaises, FlushReturns, FlushTimesOut
<1>2. Told' = Told
  <2>1. \A i \in Events : msg'[i] = IF i \in Outstanding THEN "purged" ELSE msg[i]
    BY <1>1 DEF Purged
  <2>2. \A i \in Outstanding : msg[i] \notin {"delivered", "failed"}
    BY DEF Outstanding, With
  <2>3. QED
    BY <2>1, <2>2 DEF Told
<1>3. Began' = Began
  BY <1>1 DEF Began
<1>4. QED
  BY <1>1, <1>2, <1>3 DEF Delivery!End

\* Every step of the producer is a step of ordered delivery or invisible.
LEMMA DeliveryStep ==
  ASSUME ProducerInv, [Next]_vars
  PROVE  [Delivery!Next]_(Delivery!vars)
<1>1. CASE Produce
  BY <1>1, HandsOver DEF Delivery!Next
<1>2. CASE Poll \/ FlushServes
  BY <1>2, Reports DEF Delivery!Next
<1>3. CASE ProduceRaises \/ FlushReturns \/ FlushTimesOut
  BY <1>3, RunEnds DEF Delivery!Next
<1>4. ASSUME NEW i \in Events, BrokerAppends(i)
      PROVE  [Delivery!Next]_(Delivery!vars)
  BY <1>4, Appends DEF Delivery!Next
<1>5. CASE Check
  BY <1>5, Unseen DEF Check, Began, Told
<1>6. ASSUME UNCHANGED <<pc, produced, delivered, failed, topic>>,
             \A i \in Events : \/ msg'[i] = msg[i]
                               \/ /\ msg[i] \notin {"delivered", "failed"}
                                  /\ msg'[i] \notin {"delivered", "failed"}
      PROVE  [Delivery!Next]_(Delivery!vars)
  BY <1>6, Unseen DEF Began, Told
<1>7. ASSUME NEW i \in Events, Transmit(i) \/ Acknowledge(i) \/ MessageTimesOut(i)
      PROVE  [Delivery!Next]_(Delivery!vars)
  <2>1. msg \in [Events -> Statuses]
    BY DEF ProducerInv, Typed
  <2>2. QED
    BY <1>6, <1>7, <2>1 DEF Transmit, Acknowledge, MessageTimesOut
<1>8. CASE ConnectionLost \/ BrokerDown
  BY <1>6, <1>8 DEF ConnectionLost, BrokerDown, Requeued
<1>9. CASE BrokerBack \/ UNCHANGED vars
  BY <1>6, <1>9 DEF BrokerBack, vars
<1>10. QED
  BY <1>1, <1>2, <1>3, <1>4, <1>5, <1>7, <1>8, <1>9 DEF Next, Main, Client

\* Nothing is handed over, reported or over when a process begins.
LEMMA DeliveryStart == Fresh => Delivery!Begin
BY DEF Fresh, Delivery!Begin, Delivery!Events, Events, Began, Told

\* The next process is the next one to deliver.
LEMMA DeliveryRestart == Restart => Delivery!NextProcess
<1> SUFFICES ASSUME Restart PROVE Delivery!NextProcess
  OBVIOUS
<1>1. Fresh'
  BY DEF Restart, Fresh
<1>2. Fresh' => Delivery!Begin'
  BY DeliveryStart, PTL
<1>3. QED
  BY <1>1, <1>2 DEF Restart, Delivery!NextProcess

-----------------------------------------------------------------------------
(* The theorems                                                              *)

\* ProducerInv is an invariant of the producer.
THEOREM ProducerInvariant == Spec => []ProducerInv
BY InitialState, ProducerStep, PTL DEF Spec

\* The type invariant holds in every reachable state.
THEOREM ProducerTypeCorrect == Spec => []TypeOK
BY ProducerTypes, ProducerInvariant, PTL

\* The partition holds each event at most once, in the order of production.
THEOREM TopicOrdered == Spec => []TopicInOrder
<1>1. ProducerInv => TopicInOrder
  BY DEF ProducerInv
<1>2. QED
  BY <1>1, ProducerInvariant, PTL

\* The counts that run() logs add up.
THEOREM EventsAccounted == Spec => []Accounted
<1>1. ProducerInv => Accounted
  BY DEF ProducerInv
<1>2. QED
  BY <1>1, ProducerInvariant, PTL

\* A run whose broker stays reachable has delivered every event, and the topic
\* holds exactly the events produced.
THEOREM HealthyRunComplete == Spec => []HealthyRunDeliversAll
BY HealthyTopic, ProducerInvariant, PTL

\* The producer, its client and the broker together are an ordered delivery of
\* the events that run() hands over.
THEOREM ProducerDeliversInOrder == Spec => ImplementsOrderedDelivery
<1>0. Init => Delivery!Init
  BY DeliveryStart DEF Init, Delivery!Init
<1>1. ProducerInv /\ [Next]_vars => [Delivery!Next]_(Delivery!vars)
  BY DeliveryStep
<1>2. QED
  BY <1>1, <1>0, ProducerInvariant, PTL
  DEF Spec, ImplementsOrderedDelivery, Delivery!Spec

=============================================================================
