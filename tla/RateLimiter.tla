---------------------------- MODULE RateLimiter ----------------------------
(***************************************************************************)
(* The fixed-window rate limiter of the read API: rate_limit_exceeded in   *)
(* api/cache.py behind the dependency of api/ratelimit.py.  One client     *)
(* address, hence one Redis key; its requests run in parallel threads and  *)
(* every one issues INCR and, for the first of a window, EXPIRE, as two    *)
(* commands that may be interleaved with others and may fail on their own. *)
(***************************************************************************)
EXTENDS Integers, FiniteSets

CONSTANTS
  Requests,      \* the request threads of one client
  MaxRequests,   \* RATE_LIMIT_MAX_REQUESTS
  Window,        \* RATE_LIMIT_WINDOW_SECONDS, in ticks
  MaxCount,      \* bound: the counter saturates here, beyond MaxRequests
  MaxFaults      \* bound: connection failures and restarts of Redis

ASSUME LimitAssumption ==
  /\ MaxRequests \in Nat \ {0} /\ Window \in Nat \ {0} /\ MaxFaults \in Nat
  /\ MaxCount \in Nat /\ MaxCount > MaxRequests
ASSUME RequestsAssumption == IsFiniteSet(Requests)

NoTtl == -1

VARIABLES
  redisUp,   \* does Redis answer?
  counter,   \* value of the key; 0 while it does not exist
  ttl,       \* ticks left before the key expires; NoTtl without an expiry
  pc,        \* where each request is
  seen,      \* the count INCR returned to each request
  within,    \* within[n]: requests whose count INCR returned and found within the limit,
             \* in the last n ticks; the ones that fail open are in no count
  emptied,   \* emptied[n]: restarts of Redis in the last n ticks
  faults     \* faults spent

vars == <<redisUp, counter, ttl, pc, seen, within, emptied, faults>>

Spans == 0 .. Window

TypeOK ==
  /\ redisUp \in BOOLEAN
  /\ counter \in 0 .. MaxCount
  /\ ttl \in 1 .. Window \cup {NoTtl}
  /\ pc \in [Requests -> {"idle", "expire", "admitted", "rejected"}]
  /\ seen \in [Requests -> 0 .. MaxCount]
  /\ within \in [Spans -> Nat] /\ emptied \in [Spans -> Nat]
  /\ faults \in 0 .. MaxFaults

Init ==
  /\ redisUp = TRUE
  /\ counter = 0 /\ ttl = NoTtl
  /\ pc = [r \in Requests |-> "idle"]
  /\ seen = [r \in Requests |-> 0]
  /\ within = [n \in Spans |-> 0] /\ emptied = [n \in Spans |-> 0]
  /\ faults = 0

\* Counts over the last n ticks: one more in this tick, and a tick later.
OneMore(f) == [n \in Spans |-> IF n = 0 THEN 0 ELSE f[n] + 1]
Older(f)   == [n \in Spans |-> IF n = 0 THEN 0 ELSE f[n - 1]]

-----------------------------------------------------------------------------
(* A request                                                                 *)

\* Mutant: INCR is taken to return the value before the increment.
IsFirstFromZero(n) == n = 0

\* Mutant: every request renews the expiry.
IsFirstAlways(n) == TRUE

\* count == 1
IsFirst(n) == n = 1

\* Mutant: one request too many.
ExceededLate(n) == n > MaxRequests + 1

\* count > max_requests
Exceeded(n) == n > MaxRequests

Answer(r, verdict) == pc' = [pc EXCEPT ![r] = verdict]

Verdict(n) == IF Exceeded(n) THEN "rejected" ELSE "admitted"

Incremented == IF counter < MaxCount THEN counter + 1 ELSE MaxCount

\* INCR creates the key without an expiry; the first of a window goes on to
\* EXPIRE, every other one compares its count.
Incr(r) ==
  /\ pc[r] = "idle" /\ redisUp
  /\ counter' = Incremented
  /\ seen' = [seen EXCEPT ![r] = Incremented]
  /\ within' = IF Exceeded(Incremented) THEN within ELSE OneMore(within)
  /\ Answer(r, IF IsFirst(Incremented) THEN "expire" ELSE Verdict(Incremented))
  /\ UNCHANGED <<redisUp, ttl, emptied, faults>>

\* Mutant: a lifetime one tick shorter than the window.
AfterExpireShort == IF counter = 0 THEN ttl ELSE Window - 1

AfterExpire == IF counter = 0 THEN ttl ELSE Window

\* EXPIRE: the key may be gone by now, then nothing happens.
Expire(r) ==
  /\ pc[r] = "expire" /\ redisUp
  /\ ttl' = AfterExpire
  /\ Answer(r, Verdict(seen[r]))
  /\ UNCHANGED <<redisUp, counter, seen, within, emptied, faults>>

\* The client cannot be reached: the exception handler returns False, and the
\* request is admitted without a count.
FailOpen(r) ==
  /\ ~ redisUp /\ pc[r] \in {"idle", "expire"}
  /\ Answer(r, "admitted")
  /\ UNCHANGED <<redisUp, counter, ttl, seen, within, emptied, faults>>

\* Redis executes INCR but the reply is lost: the same handler.
IncrReplyLost(r) ==
  /\ pc[r] = "idle" /\ redisUp /\ faults < MaxFaults
  /\ counter' = Incremented
  /\ Answer(r, "admitted")
  /\ faults' = faults + 1
  /\ UNCHANGED <<redisUp, ttl, seen, within, emptied>>

\* EXPIRE does not reach Redis, or the worker is killed before it.
ExpireFails(r) ==
  /\ pc[r] = "expire" /\ faults < MaxFaults
  /\ Answer(r, "admitted")
  /\ faults' = faults + 1
  /\ UNCHANGED <<redisUp, counter, ttl, seen, within, emptied>>

\* The response is sent; the thread serves another request of the client.
Respond(r) ==
  /\ pc[r] \in {"admitted", "rejected"}
  /\ Answer(r, "idle")
  /\ seen' = [seen EXCEPT ![r] = 0]
  /\ UNCHANGED <<redisUp, counter, ttl, within, emptied, faults>>

-----------------------------------------------------------------------------
(* Redis and time                                                            *)

RedisDown ==
  /\ redisUp /\ faults < MaxFaults
  /\ redisUp' = FALSE
  /\ faults' = faults + 1
  /\ UNCHANGED <<counter, ttl, pc, seen, within, emptied>>

\* Redis has no volume: a restart empties it.
RedisRestart ==
  /\ faults < MaxFaults
  /\ counter' = 0 /\ ttl' = NoTtl
  /\ emptied' = OneMore(emptied)
  /\ faults' = faults + 1
  /\ UNCHANGED <<redisUp, pc, seen, within>>

RedisBack ==
  /\ ~ redisUp
  /\ redisUp' = TRUE
  /\ UNCHANGED <<counter, ttl, pc, seen, within, emptied, faults>>

TtlAfterTick == IF ttl > 1 THEN ttl - 1 ELSE NoTtl

\* One tick: Redis drops the key whose time is over.
Tick ==
  /\ within' = Older(within) /\ emptied' = Older(emptied)
  /\ ttl' = TtlAfterTick
  /\ counter' = IF ttl = 1 THEN 0 ELSE counter
  /\ UNCHANGED <<redisUp, pc, seen, faults>>

Request(r) == Incr(r) \/ Expire(r) \/ FailOpen(r)

Next ==
  \/ \E r \in Requests : Request(r) \/ IncrReplyLost(r) \/ ExpireFails(r) \/ Respond(r)
  \/ RedisDown \/ RedisBack \/ RedisRestart \/ Tick

Spec == Init /\ [][Next]_vars

\* Threads that are running go on, Redis comes back, time passes.
Fairness ==
  /\ \A r \in Requests : WF_vars(Expire(r) \/ FailOpen(r)) /\ WF_vars(Respond(r))
  /\ WF_vars(RedisBack)
  /\ WF_vars(Tick)

FairSpec == Spec /\ Fairness

-----------------------------------------------------------------------------
(* Properties                                                                *)

\* Of the requests that were counted, at most two windows' worth are admitted
\* by their count in any period of one window (ratelimit.py:13,
\* cache.py:86-89), however the INCRs and EXPIREs of parallel requests
\* interleave, also next to commands that fail, and however late the EXPIRE of
\* a window comes; each restart of Redis in that period adds one window more.
\* It says nothing about the requests that an exception admits
\* (cache.py:90-91): while Redis is away their number has no limit.
BurstBound == within[Window] <= (2 + emptied[Window]) * MaxRequests

\* What the counter of the window in progress may have admitted so far.
Spent == IF counter < MaxRequests THEN counter ELSE MaxRequests

\* The inductive invariant behind BurstBound.  The key lives for one window
\* after its last EXPIRE, so the requests of the Window - ttl ticks since then
\* were admitted by its counter; of the keys before it, one that ended by
\* itself and those that restarts removed reach into the period.
BurstInv ==
  /\ within[0] = 0
  /\ \A m, n \in Spans : m <= n => within[m] <= within[n]
  /\ ttl # NoTtl => within[Window - ttl] <= Spent
  /\ \A n \in Spans : within[n] <= (1 + emptied[n]) * MaxRequests + Spent

\* As long as nothing failed a window is never prolonged: while the key exists
\* its expiry only comes nearer (cache.py:87 sets it for the first request
\* alone), however many requests run at the same time.
WindowNotProlonged ==
  [][faults' = 0 /\ counter # 0 /\ ttl # NoTtl /\ counter' # 0
     => ttl' # NoTtl /\ ttl' <= ttl]_vars

\* As long as nothing failed, a counter without an expiry has the one request
\* that saw it at 1 still on its way to EXPIRE (cache.py:85-87): no order of
\* parallel requests, and no delay between its two commands, leaves a key that
\* nobody will ever expire.
ExpiryIsComing ==
  faults = 0 /\ counter # 0 /\ ttl = NoTtl => \E r \in Requests : pc[r] = "expire"

\* A client over the limit is let in again once its window is over, unless
\* something failed: breaches "return 429 with a Retry-After header" of one
\* window (README.md:238).
LimitIsTemporary == counter > MaxRequests ~> counter = 0 \/ faults > 0

\* "Redis is optional at runtime: if it is unreachable [...] the limiter fails
\* open, so the read-only API keeps working" (README.md:239-240): an outage of
\* Redis does not leave a client rejected for good.  A failed EXPIRE leaves a
\* counter without an expiry that keeps growing.
OutageLeavesNoLockout == counter > MaxRequests ~> counter = 0

=============================================================================
