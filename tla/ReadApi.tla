------------------------------ MODULE ReadApi ------------------------------
(***************************************************************************)
(* The cached query /api/v1/summary of the read API: _cached and _query in *)
(* api/main.py over get_json and set_json in api/cache.py and the two      *)
(* statements of query_summary in api/db.py.  Requests run in parallel     *)
(* threads; of a summary only its latest_window is kept.  The curated      *)
(* tables are seen from outside: the latest window only moves forward,     *)
(* which StreamJob guarantees (RowsNeverShrink).                           *)
(***************************************************************************)
EXTENDS Integers

CONSTANTS
  Requests,   \* the request threads
  Ttl,        \* CACHE_TTL_SECONDS, in ticks
  MaxWork,    \* the ticks a request takes at most from its lookup to its reply
  MaxTime,    \* bound: the clock stops here
  MaxFaults   \* bound: outages of Redis and Postgres, lost commands

ASSUME ReadApiAssumption ==
  /\ Ttl \in Nat \ {0} /\ MaxWork \in Nat
  /\ MaxTime \in Nat /\ MaxFaults \in Nat

NoWindow == -1   \* MAX(window_start) of an empty table

Times   == 0 .. MaxTime
Windows == Times \cup {NoWindow}

VARIABLES
  now,
  latest,    \* MAX(window_start) of curated.page_views_1m
  pgUp,
  redis,     \* it answers, refuses, or accepts commands and does not answer
  cached,    \* the value of the key v1:summary
  left,      \* ticks until the key expires; 0 when there is none
  pc,        \* where each request is
  got,       \* the summary each request holds
  worked,    \* ticks since its lookup
  faults     \* faults spent

backends == <<latest, pgUp, redis>>
cache    == <<cached, left>>
requests == <<pc, got, worked>>
apiVars  == <<now, backends, cache, requests, faults>>

\* asOf is the time the database was read; the code does not keep it.
Summaries == [window : Windows, asOf : Times]
Nothing   == [window |-> NoWindow, asOf |-> 0]

ApiTypeOK ==
  /\ now \in Times /\ latest \in Windows
  /\ pgUp \in BOOLEAN /\ redis \in {"up", "down", "hanging"}
  /\ cached \in Summaries /\ left \in 0 .. Ttl
  /\ pc \in [Requests -> {"idle", "lookup", "first", "second", "store", "answered", "failed"}]
  /\ got \in [Requests -> Summaries]
  /\ worked \in [Requests -> 0 .. MaxWork]
  /\ faults \in 0 .. MaxFaults

ApiInit ==
  /\ now = 0 /\ latest = NoWindow
  /\ pgUp = TRUE /\ redis = "up"
  /\ cached = Nothing /\ left = 0
  /\ pc = [r \in Requests |-> "idle"]
  /\ got = [r \in Requests |-> Nothing]
  /\ worked = [r \in Requests |-> 0]
  /\ faults = 0

-----------------------------------------------------------------------------
(* A request                                                                 *)

Goto(r, place) == pc' = [pc EXCEPT ![r] = place]

Hold(r, summary) == got' = [got EXCEPT ![r] = summary]

Arrive(r) ==
  /\ pc[r] = "idle"
  /\ Goto(r, "lookup")
  /\ UNCHANGED <<now, backends, cache, got, worked, faults>>

\* get_json finds the key.  The client has a timeout for connecting and none for
\* answers (cache.py:34-40): while Redis hangs, GET and SET wait.
Hit(r) ==
  /\ pc[r] = "lookup" /\ redis = "up" /\ left > 0
  /\ Hold(r, cached)
  /\ Goto(r, "answered")
  /\ UNCHANGED <<now, backends, cache, worked, faults>>

\* get_json returns None: there is no key, or the connection is refused or
\* breaks.
Miss(r) ==
  /\ pc[r] = "lookup"
  /\ redis = "down" \/ (redis = "up" /\ left = 0)
  /\ Goto(r, "first")
  /\ UNCHANGED <<now, backends, cache, got, worked, faults>>

\* query_summary reads page_views_1m ...
ReadPageViews(r) ==
  /\ pc[r] = "first" /\ pgUp
  /\ Hold(r, [window |-> latest, asOf |-> now])
  /\ Goto(r, "second")
  /\ UNCHANGED <<now, backends, cache, worked, faults>>

\* ... and in a second statement campaign_stats_1m.
ReadCampaigns(r) ==
  /\ pc[r] = "second" /\ pgUp
  /\ Goto(r, "store")
  /\ UNCHANGED <<now, backends, cache, got, worked, faults>>

\* _query turns every exception of the database into a 503.
QueryFails(r) ==
  /\ pc[r] \in {"first", "second"} /\ ~ pgUp
  /\ Hold(r, Nothing)
  /\ Goto(r, "failed")
  /\ UNCHANGED <<now, backends, cache, worked, faults>>

\* Mutant: SET without ex.
LifetimeForever == MaxTime + 1

Lifetime == Ttl

\* set_json overwrites whatever another request has stored by now.
Store(r) ==
  /\ pc[r] = "store" /\ redis = "up"
  /\ cached' = got[r] /\ left' = Lifetime
  /\ Goto(r, "answered")
  /\ UNCHANGED <<now, backends, got, worked, faults>>

\* Mutant: set_json lets the exception out.
AfterFailedStoreRaised == "failed"

AfterFailedStore == "answered"

\* set_json catches every exception and returns False.
StoreFails(r) ==
  /\ pc[r] = "store" /\ redis = "down"
  /\ Goto(r, AfterFailedStore)
  /\ UNCHANGED <<now, backends, cache, got, worked, faults>>

Reply(r) ==
  /\ pc[r] \in {"answered", "failed"}
  /\ Goto(r, "idle")
  /\ Hold(r, Nothing)
  /\ worked' = [worked EXCEPT ![r] = 0]
  /\ UNCHANGED <<now, backends, cache, faults>>

-----------------------------------------------------------------------------
(* The backends and time                                                     *)

\* The streaming job writes a window that has begun.
NewLatest == {w \in Times : latest < w /\ w <= now}

SinkWrites ==
  /\ pgUp /\ latest' \in NewLatest
  /\ UNCHANGED <<now, pgUp, redis, cache, requests, faults>>

Outage ==
  /\ faults < MaxFaults
  /\ \/ pgUp /\ pgUp' = FALSE /\ UNCHANGED redis
     \/ redis = "up" /\ redis' \in {"down", "hanging"} /\ UNCHANGED pgUp
  /\ faults' = faults + 1
  /\ UNCHANGED <<now, latest, cache, requests>>

PostgresBack ==
  /\ ~ pgUp /\ pgUp' = TRUE
  /\ UNCHANGED <<now, latest, redis, cache, requests, faults>>

\* Redis answers again; one that hangs may also be stopped before it does.
RedisBack ==
  /\ \/ redis # "up" /\ redis' = "up"
     \/ redis = "hanging" /\ redis' = "down"
  /\ UNCHANGED <<now, latest, pgUp, cache, requests, faults>>

\* Redis has no volume.
RedisRestart ==
  /\ faults < MaxFaults /\ left > 0
  /\ left' = 0 /\ cached' = Nothing
  /\ faults' = faults + 1
  /\ UNCHANGED <<now, backends, requests>>

Busy(r) == pc[r] # "idle"

\* A tick, while no request is held up for longer than MaxWork.
TickApi ==
  /\ now < MaxTime /\ now' = now + 1
  /\ \A r \in Requests : Busy(r) => worked[r] < MaxWork
  /\ worked' = [r \in Requests |-> IF Busy(r) THEN worked[r] + 1 ELSE 0]
  /\ left' = IF left > 0 THEN left - 1 ELSE 0
  /\ cached' = IF left > 1 THEN cached ELSE Nothing
  /\ UNCHANGED <<backends, pc, got, faults>>

Work(r) ==
  \/ Hit(r) \/ Miss(r) \/ ReadPageViews(r) \/ ReadCampaigns(r) \/ QueryFails(r)
  \/ Store(r) \/ StoreFails(r)

ApiStep ==
  \/ \E r \in Requests : Arrive(r) \/ Work(r) \/ Reply(r)
  \/ SinkWrites \/ Outage \/ PostgresBack \/ RedisBack \/ RedisRestart

-----------------------------------------------------------------------------
(* Properties                                                                *)

\* An answer, from the cache or not, shows the database as it was less than a
\* lifetime of the key and two requests ago, even when a slow request stores
\* its old summary over a newer one (main.py:135-140).
AnswersAreRecent ==
  \A r \in Requests :
     pc[r] = "answered" => now - got[r].asOf < Ttl + 2 * MaxWork

\* "Redis is optional" (cache.py:3): a request that Postgres can serve is
\* answered although Redis goes away, comes back or restarts in the meantime,
\* and also after Redis has hung.  Only a Redis that accepts commands and never
\* answers again holds it up for good (cache.py:34-40 has no socket_timeout).
ServedWithoutRedis ==
  []<>(redis # "hanging")
    => \A r \in Requests : pc[r] = "lookup" ~> pc[r] = "answered" \/ ~ pgUp

=============================================================================
