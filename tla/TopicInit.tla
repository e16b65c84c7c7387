----------------------------- MODULE TopicInit -----------------------------
(***************************************************************************)
(* init/kafka/init_topics.py, the one-shot container that creates the      *)
(* topics: one request for all of them, errors of single topics swallowed, *)
(* then verification until a deadline.  The producer and the streaming job *)
(* start after it has exited with 0 (docker-compose.yml).                  *)
(***************************************************************************)
EXTENDS Naturals

CONSTANTS
  Topics,      \* TOPICS
  Named,       \* topics that clients outside of compose write to
  Declared     \* the partitions TOPICS asks for

VARIABLES
  brokerUp,
  parts,       \* the partitions of each topic; 0 while it does not exist
  foreign,     \* topics that another client has created
  asked,       \* topics whose creation is on its way to the broker
  script       \* where main() is

InitTypeOK ==
  /\ parts \in [Topics -> {0, 1, Declared}]
  /\ foreign \subseteq Topics /\ asked \subseteq Topics
  /\ script \in {"start", "create", "verify", "ok", "failed"}

Begin ==
  /\ parts = [t \in Topics |-> 0]
  /\ foreign = {} /\ asked = {}
  /\ script = "start"

\* What compose has left behind when everything went well before.
BeginReady ==
  /\ parts = [t \in Topics |-> Declared]
  /\ foreign = {} /\ asked = {}
  /\ script = "ok"

-----------------------------------------------------------------------------

\* admin.create_topics sends one request for all topics; those that exist are
\* refused.
RequestTopics ==
  /\ script = "start"
  /\ asked' = {t \in Topics : parts[t] = 0}
  /\ script' = "create"
  /\ UNCHANGED <<parts, foreign>>

\* The script may be past its wait by then.
BrokerCreates(t) ==
  /\ brokerUp /\ t \in asked
  /\ parts' = [parts EXCEPT ![t] = Declared]
  /\ asked' = asked \ {t}
  /\ UNCHANGED <<foreign, script>>

\* Another client names a topic that does not exist: auto.create.topics.enable
\* creates it with one partition, and the broker will refuse to create it
\* again.
AnotherClientCreates(t) ==
  /\ brokerUp /\ t \in Named /\ parts[t] = 0
  /\ parts' = [parts EXCEPT ![t] = 1]
  /\ foreign' = foreign \cup {t}
  /\ asked' = asked \ {t}
  /\ UNCHANGED <<script>>

\* Each future has returned, raised or run into its timeout; the exception is
\* swallowed.
CreateReturns ==
  /\ script = "create"
  /\ script' = "verify"
  /\ UNCHANGED <<parts, foreign, asked>>

\* Mutant: existing is compared with what was created.
ReadySome == \E t \in Topics : parts[t] # 0

\* len(existing) == len(TOPICS)
ReadyAll == \A t \in Topics : parts[t] # 0

VerifyReady ==
  /\ script = "verify" /\ brokerUp
  /\ ReadyAll
  /\ script' = "ok"
  /\ UNCHANGED <<parts, foreign, asked>>

\* The deadline passes with a topic missing, or list_topics raises out of
\* main().
VerifyFails ==
  /\ script = "verify"
  /\ ~ brokerUp \/ ~ ReadyAll
  /\ script' = "failed"
  /\ UNCHANGED <<parts, foreign, asked>>

\* restart: "no": only bringing the stack up again runs a failed script again;
\* what it had asked for may still be on its way.
Rerun ==
  /\ script = "failed"
  /\ script' = "start"
  /\ UNCHANGED <<parts, foreign, asked>>

InitStep ==
  \/ RequestTopics \/ CreateReturns \/ VerifyReady \/ VerifyFails \/ Rerun
  \/ \E t \in Topics : BrokerCreates(t) \/ AnotherClientCreates(t)

=============================================================================
