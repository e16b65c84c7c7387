-------------------------- MODULE ExactlyOnceSink --------------------------
(***************************************************************************)
(* What a sink of the streaming job promises, without batches, crashes,    *)
(* checkpoints or replays: the events of the topic enter it in offset      *)
(* order, each once, and only an event that is late may be left out.  The  *)
(* reading position may be forgotten (the checkpoint directory is lost);   *)
(* then nothing is counted again, and nothing is lost but the events that  *)
(* retention has removed from the topic.                                   *)
(***************************************************************************)
EXTENDS Naturals, Sequences

CONSTANTS Queries, Stateful, Records, WindowLen, Delay, MaxLog

Positions == 1 .. MaxLog

VARIABLES
  log,     \* every record ever appended to the topic
  start,   \* the records up to this position are gone
  sunk,    \* sunk[q]: the records up to this position have reached the sink
  table    \* table[q][p]: how often position p is counted

vars == <<log, start, sunk, table>>

IsEvent(p) == log[p].kind = "event"

\* An earlier record is so much younger that the window of p is closed.
Late(p) ==
  \E i \in 1 .. p - 1 :
     /\ IsEvent(i)
     /\ (log[p].ts \div WindowLen + 1) * WindowLen + Delay <= log[i].ts

Init ==
  /\ log = <<>> /\ start = 0
  /\ sunk = [q \in Queries |-> 0]
  /\ table = [q \in Queries |-> [p \in Positions |-> 0]]

Arrive ==
  /\ \E r \in Records : log' = Append(log, r)
  /\ UNCHANGED <<start, sunk, table>>

Trim ==
  /\ start < Len(log)
  /\ start' = start + 1
  /\ UNCHANGED <<log, sunk, table>>

\* An event that takes effect now: it is counted, unless it was late or was
\* removed from the topic before it was read.
Entered(q, p) ==
  \/ table'[q][p] = 1
  \/ table'[q][p] = 0 /\ table[q][p] = 0 /\ (p <= start \/ (q \in Stateful /\ Late(p)))

\* Any other position stays as it is; a row that is written again may lose
\* what the topic has lost.
Kept(q, p) ==
  \/ table'[q][p] = table[q][p]
  \/ table'[q][p] = 0 /\ q \in Stateful /\ p <= start

\* The records after sunk[q], up to n, take effect in the sink of q, at once.
Deliver(q, n) ==
  /\ sunk[q] < n
  /\ sunk' = [sunk EXCEPT ![q] = n]
  /\ \A p \in Positions :
       IF sunk[q] < p /\ p <= n /\ IsEvent(p) THEN Entered(q, p) ELSE Kept(q, p)
  /\ \A r \in Queries \ {q} : table'[r] = table[r]
  /\ UNCHANGED <<log, start>>

\* A sink without a reading position starts with the oldest record there is.
StartReading(q) ==
  /\ sunk[q] = 0 /\ sunk' = [sunk EXCEPT ![q] = start]
  /\ UNCHANGED <<log, start, table>>

Forget ==
  /\ sunk' = [q \in Queries |-> 0]
  /\ UNCHANGED <<log, start, table>>

Next ==
  \/ Arrive
  \/ Trim
  \/ Forget
  \/ \E q \in Queries : StartReading(q) \/ \E n \in 1 .. Len(log) : Deliver(q, n)

Spec == Init /\ [][Next]_vars

=============================================================================
