--------------------------- MODULE RecoveryDrill ---------------------------
(***************************************************************************)
(* scripts/chaos/measure_recovery.sh in its mode for pods, against the     *)
(* StatefulSet that recreates the pod under the same name: the script      *)
(* deletes the pod, reads its UID, and polls UID and readiness in two      *)
(* separate calls of kubectl, each of which may fail and yield nothing.    *)
(***************************************************************************)
EXTENDS Naturals

CONSTANTS
  MaxPolls,    \* rounds of the polling loop
  MaxMisses    \* bound: calls of kubectl that fail

VARIABLES
  brokerUp,     \* the container is ready
  pod,          \* UID of the pod, 0 while there is none
  terminating,
  drill,        \* where the script is
  oldUid, uid, ready,   \* its variables; 0 for an empty string
  polls,
  misses        \* failures of kubectl spent

podVars    == <<pod, terminating>>
scriptVars == <<drill, oldUid, uid, ready, polls, misses>>

Victim == 1   \* the pod the drill deletes
Uids   == 0 .. 2

DrillTypeOK ==
  /\ pod \in Uids /\ terminating \in BOOLEAN
  /\ drill \in {"delete", "old", "uid", "ready", "lastUid", "lastReady",
                "recovered", "error"}
  /\ oldUid \in Uids /\ uid \in Uids /\ ready \in BOOLEAN
  /\ polls \in 0 .. MaxPolls
  /\ misses \in 0 .. MaxMisses

DrillInit ==
  /\ pod = Victim /\ terminating = FALSE
  /\ drill = "delete"
  /\ oldUid = 0 /\ uid = 0 /\ ready = FALSE
  /\ polls = 0 /\ misses = 0

-----------------------------------------------------------------------------
(* The cluster                                                               *)

\* The old pod goes on, ready, until its containers have stopped.
PodStops ==
  /\ terminating
  /\ pod' = 0 /\ terminating' = FALSE
  /\ brokerUp' = FALSE
  /\ UNCHANGED scriptVars

\* The StatefulSet creates the pod again.
PodCreated ==
  /\ pod = 0
  /\ pod' = Victim + 1
  /\ UNCHANGED <<brokerUp, terminating, scriptVars>>

PodReady ==
  /\ pod = Victim + 1 /\ ~ brokerUp
  /\ brokerUp' = TRUE
  /\ UNCHANGED <<podVars, scriptVars>>

-----------------------------------------------------------------------------
(* The script                                                                *)

Delete ==
  /\ drill = "delete"
  /\ terminating' = TRUE
  /\ drill' = "old"
  /\ UNCHANGED <<brokerUp, pod, oldUid, uid, ready, polls, misses>>

\* kubectl get ... || true: what there is, or nothing when the call failed.
Read(value, there, nothing) ==
  \/ value = there /\ UNCHANGED misses
  \/ value = nothing /\ misses < MaxMisses /\ misses' = misses + 1

ReadOldUid ==
  /\ drill = "old"
  /\ Read(oldUid', pod, 0)
  /\ drill' = "uid"
  /\ UNCHANGED <<brokerUp, podVars, uid, ready, polls>>

ReadUid ==
  /\ drill \in {"uid", "lastUid"}
  /\ Read(uid', pod, 0)
  /\ drill' = IF drill = "uid" THEN "ready" ELSE "lastReady"
  /\ UNCHANGED <<brokerUp, podVars, oldUid, ready, polls>>

\* Mutant: any pod that is ready will do.
AnyPodRecovered(isReady) == uid # 0 /\ isReady

\* uid is not empty, differs from old_uid, and ready is "true".
Recovered(isReady) == uid # 0 /\ uid # oldUid /\ isReady

\* The end of a round: break, the next one, or the last look.
ReadReady ==
  /\ drill = "ready"
  /\ Read(ready', brokerUp, FALSE)
  /\ polls' = polls + 1
  /\ drill' = IF Recovered(ready') \/ polls' = MaxPolls THEN "lastUid" ELSE "uid"
  /\ UNCHANGED <<brokerUp, podVars, oldUid, uid>>

Verdict ==
  /\ drill = "lastReady"
  /\ Read(ready', brokerUp, FALSE)
  /\ drill' = IF Recovered(ready') THEN "recovered" ELSE "error"
  /\ UNCHANGED <<brokerUp, podVars, oldUid, uid, polls>>

ScriptStep == Delete \/ ReadOldUid \/ ReadUid \/ ReadReady \/ Verdict
PodStep    == PodStops \/ PodCreated \/ PodReady

=============================================================================
