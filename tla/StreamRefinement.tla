-------------------------- MODULE StreamRefinement --------------------------
(***************************************************************************)
(* The streaming job implements ExactlyOnceSink.  A batch takes effect in  *)
(* the abstract sink when its rows are in the table; committing it,        *)
(* replaying it after a crash and writing it again are stuttering steps.   *)
(***************************************************************************)
EXTENDS StreamJob

SinkQueries == Queries \ DlqQueries

\* Writing the open batch of q (again) would change nothing.
Landed(q) == open[q] /\ table[q] = Effect(q)

Sunk == [q \in SinkQueries |-> IF Landed(q) THEN planned[q] ELSE done[q]]

SinkTable == [q \in SinkQueries |-> table[q]]

Abstract == INSTANCE ExactlyOnceSink
  WITH Queries <- SinkQueries, sunk <- Sunk, table <- SinkTable

\* Every behaviour of the streaming job is one of the abstract sink
\* (streaming_job.py:157-237 over postgres_sink.py and clickhouse_sink.py).
ImplementsExactlyOnceSink == Abstract!Spec

=============================================================================
