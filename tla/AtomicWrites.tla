---------------------------- MODULE AtomicWrites ----------------------------
(***************************************************************************)
(* What upsert_batch promises to the query that calls it, without          *)
(* sessions, staging tables or locks: each batch takes effect on its       *)
(* curated table at once, in the order of the batches, and before it is    *)
(* acknowledged.  A batch that was written may be written again until it   *)
(* is acknowledged, which changes nothing.                                 *)
(***************************************************************************)
EXTENDS Naturals, Sequences

CONSTANT Rows

VARIABLES
  plan,    \* plan[n]: the rows of the curated table batch n emits
  acked,   \* the batches up to this one were acknowledged
  table    \* table[r]: the batch whose values row r holds, 0 without a row

vars == <<plan, acked, table>>

Init ==
  /\ plan = <<>>
  /\ acked = 0
  /\ table = [r \in Rows |-> 0]

Emit ==
  /\ \E rows \in SUBSET Rows : plan' = Append(plan, rows)
  /\ UNCHANGED <<acked, table>>

Write ==
  /\ acked < Len(plan)
  /\ table' = [r \in Rows |-> IF r \in plan[acked + 1] THEN acked + 1 ELSE table[r]]
  /\ UNCHANGED <<plan, acked>>

\* Only a batch that is in the table.
Acknowledge ==
  /\ acked < Len(plan)
  /\ \A r \in plan[acked + 1] : table[r] = acked + 1
  /\ acked' = acked + 1
  /\ UNCHANGED <<plan, table>>

Next == Emit \/ Write \/ Acknowledge

Spec == Init /\ [][Next]_vars

=============================================================================
