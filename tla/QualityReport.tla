---------------------------- MODULE QualityReport ----------------------------
(***************************************************************************)
(* quality/run_quality.py: the checks on Postgres through Soda, those on   *)
(* ClickHouse through its client, then the JSON and the HTML report, and    *)
(* the exit code.  The reports stay where they are for the next reader.    *)
(***************************************************************************)
EXTENDS Naturals

CONSTANT MaxQuality    \* bound: runs of the script

VARIABLES
  quality,     \* where main() is
  results,     \* the statuses of the rows so far
  json, html,  \* the badge of each report
  exit,        \* how the last run ended
  qualityRuns  \* runs spent

Badges == {"none", "pass", "fail"}

QualityTypeOK ==
  /\ quality \in {"idle", "postgres", "clickhouse", "json", "html"}
  /\ results \subseteq {"pass", "fail", "error"}
  /\ json \in Badges /\ html \in Badges
  /\ exit \in {"none", "0", "1", "raised"}
  /\ qualityRuns \in 0 .. MaxQuality

QualityInit ==
  /\ quality = "idle" /\ results = {}
  /\ json = "none" /\ html = "none"
  /\ exit = "none" /\ qualityRuns = 0

-----------------------------------------------------------------------------

StartChecks ==
  /\ quality = "idle" /\ qualityRuns < MaxQuality
  /\ quality' = "postgres" /\ results' = {}
  /\ exit' = "none"
  /\ qualityRuns' = qualityRuns + 1
  /\ UNCHANGED <<json, html>>

Status(ok) == IF ok THEN "pass" ELSE "fail"

\* run_soda_postgres: row_count > 0, or "error" for a check without outcome
\* when the scan could not reach the table.
CheckPostgres(hasRows) ==
  /\ quality = "postgres"
  /\ \/ results' = {Status(hasRows)}
     \/ results' = {"error"}
  /\ quality' = "clickhouse"
  /\ UNCHANGED <<json, html, exit, qualityRuns>>

\* run_clickhouse_checks: the counts and max(ts) of the tables.
CheckClickhouse(hasRows) ==
  /\ quality = "clickhouse"
  /\ results' = results \cup {Status(hasRows)}
  /\ quality' = "json"
  /\ UNCHANGED <<json, html, exit, qualityRuns>>

\* Soda produced no checks, or ClickHouse does not answer: main() raises
\* before anything is written.
CheckRaises ==
  /\ quality \in {"postgres", "clickhouse"}
  /\ quality' = "idle" /\ results' = {} /\ exit' = "raised"
  /\ UNCHANGED <<json, html, qualityRuns>>

\* Mutant: only "fail" counts as failed.
FailedChecksOnly == results \cap {"fail"}

\* failed: every row whose status is not "pass".
FailedChecks == results \ {"pass"}

Badge == IF FailedChecks = {} THEN "pass" ELSE "fail"

WriteJson ==
  /\ quality = "json"
  /\ json' = Badge
  /\ quality' = "html"
  /\ UNCHANGED <<results, html, exit, qualityRuns>>

WriteHtml ==
  /\ quality = "html"
  /\ html' = Badge
  /\ quality' = "idle" /\ results' = {}
  /\ exit' = IF FailedChecks = {} THEN "0" ELSE "1"
  /\ UNCHANGED <<json, qualityRuns>>

\* The script is interrupted; what it has written stays.
Interrupted ==
  /\ quality # "idle"
  /\ quality' = "idle" /\ results' = {} /\ exit' = "raised"
  /\ UNCHANGED <<json, html, qualityRuns>>

QualityStep(inPostgres, inClickhouse) ==
  \/ StartChecks \/ CheckPostgres(inPostgres) \/ CheckClickhouse(inClickhouse)
  \/ CheckRaises \/ WriteJson \/ WriteHtml \/ Interrupted

=============================================================================
