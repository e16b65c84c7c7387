----------------------------- MODULE Freshness -----------------------------
(***************************************************************************)
(* Three observers of one number, how far the curated windows are behind:  *)
(* the Airflow DAG reads Postgres itself (etl/dags/clickstream_lib.py),    *)
(* the Go command line asks the cached summary of the API (go_ops), and    *)
(* the gauge of the API (api/metrics.py) is refreshed by a loop and keeps  *)
(* its value in between.                                                   *)
(***************************************************************************)
EXTENDS ReadApi

CONSTANTS
  WindowLen,      \* FRESHNESS_WINDOW_SECONDS, one minute, in ticks
  MaxStale,       \* FRESHNESS_MAX_STALE_SECONDS, in ticks
  RefreshEvery    \* kafka_lag_refresh_seconds, in ticks

ASSUME FreshnessAssumption ==
  WindowLen \in Nat /\ MaxStale \in Nat /\ RefreshEvery \in Nat \ {0}

VARIABLES
  gauge,       \* pipeline_freshness_seconds
  refreshed    \* when the loop last went round

gaugeVars == <<gauge, refreshed>>
vars == <<apiVars, gaugeVars>>

TypeOK == ApiTypeOK /\ gauge \in Times /\ refreshed \in Times

Init == ApiInit /\ gauge = 0 /\ refreshed = 0

-----------------------------------------------------------------------------
(* The three definitions                                                     *)

AtLeastZero(n) == IF n < 0 THEN 0 ELSE n

\* stale_seconds is infinite for an empty table; check_curated_freshness
\* raises beyond the budget.
DagRaises(window, t) ==
  \/ window = NoWindow
  \/ AtLeastZero(t - window - WindowLen) > MaxStale

\* Mutant: latest_window is taken for the end of a window.
StaleSecondsOfEnd(window, t) == AtLeastZero(t - window - 2 * WindowLen)

StaleSeconds(window, t) == AtLeastZero(t - window - WindowLen)

\* ParseLatestWindow cannot parse the summary of an empty table.
CliFails(window, t) ==
  \/ window = NoWindow
  \/ StaleSeconds(window, t) > MaxStale

\* Mutant: the minute for the end of the window is added twice.
GaugeValueOfNext(window, t) ==
  IF window = NoWindow THEN 0 ELSE AtLeastZero(t - window - 2 * WindowLen)

\* refresh_freshness_gauge sets 0 for an empty table.
GaugeValue(window, t) ==
  IF window = NoWindow THEN 0 ELSE AtLeastZero(t - window - WindowLen)

-----------------------------------------------------------------------------
(* lag_collector_loop                                                        *)

\* One round; when Postgres does not answer the exception is logged and the
\* gauge keeps its value.
RefreshGauge ==
  /\ refreshed < now
  /\ refreshed' = now
  /\ gauge' = IF pgUp THEN GaugeValue(latest, now) ELSE gauge
  /\ UNCHANGED apiVars

Tick ==
  /\ now - refreshed < RefreshEvery
  /\ TickApi
  /\ UNCHANGED gaugeVars

Next ==
  \/ ApiStep /\ UNCHANGED gaugeVars
  \/ RefreshGauge
  \/ Tick

Spec == Init /\ [][Next]_vars

\* Threads that serve a request go on, unless Redis keeps them waiting.
Fairness == \A r \in Requests : WF_vars(Work(r) /\ UNCHANGED gaugeVars)

FairSpec == Spec /\ Fairness

-----------------------------------------------------------------------------
(* Properties                                                                *)

\* The command line, which sees the summary through the cache, may fail on
\* data that is fresh by now but never passes data the DAG would reject at the
\* same moment (main.go:73-88, freshness_check.py:33-50).
CliNeverHidesStaleness ==
  \A r \in Requests :
     pc[r] = "answered" /\ ~ CliFails(got[r].window, now) => ~ DagRaises(latest, now)

\* Without outages a gauge that shows any staleness is behind the truth by at
\* most one round of the loop (metrics.py:100-129).
GaugeIsOneRoundBehind ==
  faults = 0 /\ gauge > 0 => now - latest - WindowLen <= gauge + RefreshEvery

-----------------------------------------------------------------------------
(* What the documents claim and the code does not do                         *)

\* "Stale data must raise, not pass silently"
\* (skills/streaming-pipeline-standard/SKILL.md:66), and the alert for stale
\* data is that "pipeline_freshness_seconds grows" (docs/runbooks.md:36): what
\* the DAG has rejected for a round of the loop is beyond the budget on the
\* gauge as well.  An empty table reads 0, "current".
StaleDataRaises ==
  /\ now > WindowLen + MaxStale + RefreshEvery
  /\ DagRaises(latest, now - RefreshEvery)
  => gauge > MaxStale

=============================================================================
