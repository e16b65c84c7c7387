--------------------------- MODULE OrderedDelivery ---------------------------
(***************************************************************************)
(* What the producer's client promises to run(), without queues, requests, *)
(* retries, timeouts or outages: events are handed over one by one, enter  *)
(* the partition in that order and never twice, and are reported at most   *)
(* once each, as delivered only when they are there.  Every report counts  *)
(* once.  An event may miss the partition, and one that was reported as    *)
(* failed, or never reported at all, may be in it.                         *)
(***************************************************************************)
EXTENDS Naturals, Sequences, FiniteSets

CONSTANT MaxEvents

Events == 1 .. MaxEvents

VARIABLES
  made,      \* the events 1 .. made were handed over
  topic,     \* what the process has in the partition
  told,      \* what was reported of each event
  delivered, failed,   \* the reports counted so far
  over       \* the process has ended

vars == <<made, topic, told, delivered, failed, over>>

Appended == {topic[k] : k \in DOMAIN topic}

\* A process begins with its first event, behind what others appended.
Begin ==
  /\ made = 0
  /\ topic = <<>>
  /\ told = [i \in Events |-> "nothing"]
  /\ delivered = 0 /\ failed = 0
  /\ over = FALSE

Init == Begin

HandOver ==
  /\ ~ over /\ made < MaxEvents
  /\ made' = made + 1
  /\ UNCHANGED <<topic, told, delivered, failed, over>>

\* An event younger than all that are there.
AppendNext ==
  /\ \E i \in 1 .. made :
       /\ \A j \in Appended : j < i
       /\ topic' = Append(topic, i)
  /\ UNCHANGED <<made, told, delivered, failed, over>>

\* The reports that are due at this moment, each on an event not reported yet.
Report ==
  /\ ~ over
  /\ \E good, bad \in SUBSET {i \in 1 .. made : told[i] = "nothing"} :
       /\ good \cap bad = {} /\ good \subseteq Appended
       /\ told' = [i \in Events |-> IF i \in good THEN "delivered"
                                    ELSE IF i \in bad THEN "failed" ELSE told[i]]
       /\ delivered' = delivered + Cardinality(good)
       /\ failed' = failed + Cardinality(bad)
  /\ UNCHANGED <<made, topic, over>>

\* No report comes after the end.
End ==
  /\ ~ over /\ over' = TRUE
  /\ UNCHANGED <<made, topic, told, delivered, failed>>

\* The next process, only when this one is over.
NextProcess == over /\ Begin'

Next == HandOver \/ AppendNext \/ Report \/ End \/ NextProcess

Spec == Init /\ [][Next]_vars

=============================================================================
