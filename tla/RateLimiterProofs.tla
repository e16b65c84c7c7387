------------------------- MODULE RateLimiterProofs -------------------------
(***************************************************************************)
(* The rate limiter for every set of requests, every limit and window, and *)
(* every number of faults: type correctness, the bound on a burst, and     *)
(* that a window is never prolonged as long as nothing failed.             *)
(***************************************************************************)
EXTENDS RateLimiter, TLAPS

USE LimitAssumption, RequestsAssumption

\* Without faults the key and its expiry belong together, except between the
\* first INCR of a window and its EXPIRE: then one request, and no other, is on
\* its way to set the expiry.
WindowOpens ==
  faults = 0 =>
    /\ redisUp
    /\ counter = 0 => ttl = NoTtl
    /\ \A r \in Requests : pc[r] = "expire" => counter # 0 /\ ttl = NoTtl
    /\ \A r, q \in Requests : pc[r] = "expire" /\ pc[q] = "expire" => r = q

\* The counts over the last ticks stay counts.
LEMMA CountTypes ==
  ASSUME NEW f \in [Spans -> Nat]
  PROVE  OneMore(f) \in [Spans -> Nat] /\ Older(f) \in [Spans -> Nat]
<1>1. \A n \in Spans : n # 0 => n - 1 \in Spans
  BY DEF Spans
<1>2. OneMore(f) \in [Spans -> Nat]
  BY DEF OneMore
<1>3. Older(f) \in [Spans -> Nat]
  BY <1>1 DEF Older
<1>4. QED
  BY <1>2, <1>3

\* Every step of a request keeps the types; so do Redis and time.
THEOREM LimiterTypeCorrect == Spec => []TypeOK
<1>1. Init => TypeOK
  BY DEF Init, TypeOK, NoTtl
<1>2. TypeOK /\ [Next]_vars => TypeOK'
  <2> SUFFICES ASSUME TypeOK, [Next]_vars PROVE TypeOK'
    OBVIOUS
  <2> USE DEF TypeOK, Answer, NoTtl
  <2>1. Incremented \in 0 .. MaxCount
    BY DEF Incremented
  <2>2. \A n : Verdict(n) \in {"admitted", "rejected"}
    BY DEF Verdict
  <2>3. \A f \in [Spans -> Nat] : OneMore(f) \in [Spans -> Nat] /\ Older(f) \in [Spans -> Nat]
    BY CountTypes
  <2>4. ASSUME NEW r \in Requests, Incr(r)
        PROVE  TypeOK'
    <3>1. within' \in [Spans -> Nat]
      BY <2>3, <2>4 DEF Incr
    <3>2. pc' \in [Requests -> {"idle", "expire", "admitted", "rejected"}]
      BY <2>2, <2>4 DEF Incr
    <3>3. counter' \in 0 .. MaxCount /\ seen' \in [Requests -> 0 .. MaxCount]
      BY <2>1, <2>4 DEF Incr
    <3>4. UNCHANGED <<redisUp, ttl, emptied, faults>>
      BY <2>4 DEF Incr
    <3>5. QED
      BY <3>1, <3>2, <3>3, <3>4
  <2>5. ASSUME NEW r \in Requests, Expire(r)
        PROVE  TypeOK'
    <3>1. pc' \in [Requests -> {"idle", "expire", "admitted", "rejected"}]
      BY <2>2, <2>5 DEF Expire, AfterExpire
    <3>2. ttl' \in 1 .. Window \cup {-1}
      BY <2>5 DEF Expire, AfterExpire
    <3>3. QED
      BY <2>5, <3>1, <3>2 DEF Expire, AfterExpire
  <2>6. ASSUME NEW r \in Requests, FailOpen(r) \/ Respond(r)
        PROVE  TypeOK'
    BY <2>6 DEF FailOpen, Respond
  <2>7. ASSUME NEW r \in Requests, IncrReplyLost(r) \/ ExpireFails(r)
        PROVE  TypeOK'
    BY <2>1, <2>7 DEF IncrReplyLost, ExpireFails
  <2>8. CASE RedisDown \/ RedisBack \/ RedisRestart
    <3>1. CASE RedisDown
      <4>1. redisUp' \in BOOLEAN /\ UNCHANGED <<counter, ttl, pc, seen, within, emptied>>
        BY <3>1 DEF RedisDown
      <4>2. faults' \in 0 .. MaxFaults
        BY <3>1 DEF RedisDown, LimitAssumption
      <4>3. QED
        BY <4>1, <4>2
    <3>2. CASE RedisBack
      <4>1. redisUp' \in BOOLEAN /\ UNCHANGED <<counter, ttl, pc, seen, within, emptied, faults>>
        BY <3>2 DEF RedisBack
      <4>2. QED
        BY <4>1
    <3>3. CASE RedisRestart
      <4>1. UNCHANGED <<redisUp, pc, seen, within>> /\ counter' \in 0 .. MaxCount
            /\ ttl' \in 1 .. Window \cup {-1}
        BY <3>3 DEF RedisRestart, LimitAssumption
      <4>2. faults' \in 0 .. MaxFaults
        BY <3>3 DEF RedisRestart, LimitAssumption
      <4>3. emptied' \in [Spans -> Nat]
        BY <2>3, <3>3 DEF RedisRestart
      <4>4. QED
        BY <4>1, <4>2, <4>3
    <3>4. QED
      BY <2>8, <3>1, <3>2, <3>3
  <2>9. CASE Tick
    <3>1. within' \in [Spans -> Nat] /\ emptied' \in [Spans -> Nat]
      BY <2>3, <2>9 DEF Tick
    <3>2. ttl' \in 1 .. Window \cup {-1} /\ counter' \in 0 .. MaxCount
      BY <2>9 DEF Tick, TtlAfterTick
    <3>3. QED
      BY <2>9, <3>1, <3>2 DEF Tick
  <2>10. CASE UNCHANGED vars
    BY <2>10 DEF vars
  <2>11. QED
    BY <2>4, <2>5, <2>6, <2>7, <2>8, <2>9, <2>10 DEF Next, Request
<1>3. QED
  BY <1>1, <1>2, PTL DEF Spec

\* An INCR within the limit spends one more request of the window; one beyond
\* it, or one whose reply is lost, does not give anything back.
LEMMA SpentByIncr ==
  ASSUME counter \in 0 .. MaxCount, counter' = Incremented
  PROVE  /\ Spent \in 0 .. MaxRequests /\ Spent' \in 0 .. MaxRequests
         /\ Spent <= Spent'
         /\ ~ Exceeded(Incremented) => Spent' = Spent + 1
BY DEF Spent, Incremented, Exceeded

\* The budget of n ticks in which Redis was restarted k times.
LEMMA BudgetGrows ==
  ASSUME NEW k \in Nat
  PROVE  /\ (1 + k) * MaxRequests \in Nat
         /\ MaxRequests <= (1 + k) * MaxRequests
         /\ (1 + (k + 1)) * MaxRequests = (1 + k) * MaxRequests + MaxRequests
<1>1. MaxRequests \in Nat
  OBVIOUS
<1>2. (1 + k) * MaxRequests = k * MaxRequests + MaxRequests /\ k * MaxRequests \in Nat
  BY <1>1
<1>3. (1 + (k + 1)) * MaxRequests = k * MaxRequests + MaxRequests + MaxRequests
  BY <1>1
<1>4. QED
  BY <1>1, <1>2, <1>3

\* Every step keeps the account of the last Window ticks.
LEMMA BurstStep ==
  ASSUME TypeOK, BurstInv, [Next]_vars
  PROVE  BurstInv'
<1> USE DEF TypeOK, NoTtl
<1> DEFINE Budget(k) == (1 + k) * MaxRequests
<1>0. \A k \in Nat : /\ Budget(k) \in Nat /\ MaxRequests <= Budget(k)
                     /\ Budget(k + 1) = Budget(k) + MaxRequests
  BY BudgetGrows
<1>1. /\ within[0] = 0
      /\ \A m, n \in Spans : m <= n => within[m] <= within[n]
      /\ ttl # -1 => within[Window - ttl] <= Spent
      /\ \A n \in Spans : within[n] <= Budget(emptied[n]) + Spent
  BY DEF BurstInv
<1>2. Spent \in 0 .. MaxRequests
  BY DEF Spent
<1>3. SUFFICES /\ within'[0] = 0
               /\ \A m, n \in Spans : m <= n => within'[m] <= within'[n]
               /\ ttl' # -1 => within'[Window - ttl'] <= Spent'
               /\ \A n \in Spans : within'[n] <= Budget(emptied'[n]) + Spent'
  BY DEF BurstInv, Spans
<1> HIDE DEF Budget
<1>4. \A n \in Spans : n \in Nat /\ n <= Window /\ (n # 0 => n - 1 \in Spans)
  BY DEF Spans
<1>5. 0 \in Spans /\ (ttl # -1 => Window - ttl \in Spans)
  BY DEF Spans
<1>6. ASSUME NEW r \in Requests, Incr(r)
      PROVE  /\ within'[0] = 0
             /\ \A m, n \in Spans : m <= n => within'[m] <= within'[n]
             /\ ttl' # -1 => within'[Window - ttl'] <= Spent'
             /\ \A n \in Spans : within'[n] <= Budget(emptied'[n]) + Spent'
  <2>1. /\ counter' = Incremented /\ ttl' = ttl /\ emptied' = emptied
        /\ within' = IF Exceeded(Incremented) THEN within ELSE OneMore(within)
    BY <1>6 DEF Incr
  <2>2. /\ Spent' \in Nat /\ Spent <= Spent'
        /\ ~ Exceeded(Incremented) => Spent' = Spent + 1
    BY <2>1, SpentByIncr
  <2>3. \A n \in Spans : emptied[n] \in Nat /\ within[n] \in Nat
    OBVIOUS
  <2>4. CASE Exceeded(Incremented)
    <3>1. within' = within
      BY <2>1, <2>4
    <3>2. \A n \in Spans : within[n] <= Budget(emptied[n]) + Spent'
      BY <1>0, <1>1, <1>2, <2>2, <2>3
    <3>3. QED
      BY <1>1, <1>2, <1>5, <2>1, <2>2, <2>3, <3>1, <3>2
  <2>5. CASE ~ Exceeded(Incremented)
    <3>1. \A n \in Spans : within'[n] = IF n = 0 THEN 0 ELSE within[n] + 1
      BY <2>1, <2>5 DEF OneMore
    <3>2. \A n \in Spans : within'[n] <= Budget(emptied'[n]) + Spent'
      BY <1>0, <1>1, <1>2, <2>1, <2>2, <2>3, <2>5, <3>1
    <3>3. \A m, n \in Spans : m <= n => within'[m] <= within'[n]
      BY <1>1, <1>4, <2>3, <3>1
    <3>4. ttl' # -1 => within'[Window - ttl'] <= Spent'
      BY <1>1, <1>2, <1>5, <2>1, <2>2, <2>3, <2>5, <3>1
    <3>5. QED
      BY <1>5, <3>1, <3>2, <3>3, <3>4
  <2>6. QED
    BY <2>4, <2>5
<1>7. ASSUME NEW r \in Requests, Expire(r)
      PROVE  /\ within'[0] = 0
             /\ \A m, n \in Spans : m <= n => within'[m] <= within'[n]
             /\ ttl' # -1 => within'[Window - ttl'] <= Spent'
             /\ \A n \in Spans : within'[n] <= Budget(emptied'[n]) + Spent'
  <2>1. /\ UNCHANGED <<counter, within, emptied>>
        /\ ttl' = IF counter = 0 THEN ttl ELSE Window
    BY <1>7 DEF Expire, AfterExpire
  <2>2. Spent' = Spent
    BY <2>1 DEF Spent
  <2>3. CASE counter = 0
    BY <1>1, <2>1, <2>2, <2>3
  <2>4. CASE counter # 0
    <3>1. Window - ttl' = 0
      BY <2>1, <2>4
    <3>2. within'[Window - ttl'] <= Spent'
      BY <1>1, <1>2, <2>1, <2>2, <3>1
    <3>3. QED
      BY <1>1, <2>1, <2>2, <3>2
  <2>5. QED
    BY <2>3, <2>4
<1>8. ASSUME NEW r \in Requests, IncrReplyLost(r)
      PROVE  /\ within'[0] = 0
             /\ \A m, n \in Spans : m <= n => within'[m] <= within'[n]
             /\ ttl' # -1 => within'[Window - ttl'] <= Spent'
             /\ \A n \in Spans : within'[n] <= Budget(emptied'[n]) + Spent'
  <2>1. counter' = Incremented /\ UNCHANGED <<ttl, within, emptied>>
    BY <1>8 DEF IncrReplyLost
  <2>2. Spent' \in Nat /\ Spent <= Spent'
    BY <2>1, SpentByIncr
  <2>3. \A n \in Spans : emptied[n] \in Nat /\ within[n] \in Nat
    OBVIOUS
  <2>4. \A n \in Spans : within[n] <= Budget(emptied[n]) + Spent'
    BY <1>0, <1>1, <1>2, <2>2, <2>3
  <2>5. QED
    BY <1>1, <1>2, <1>5, <2>1, <2>2, <2>3, <2>4
<1>9. CASE RedisRestart
  <2>1. /\ counter' = 0 /\ ttl' = -1 /\ within' = within
        /\ \A n \in Spans : emptied'[n] = IF n = 0 THEN 0 ELSE emptied[n] + 1
    BY <1>9 DEF RedisRestart, OneMore
  <2>2. Spent' = 0
    BY <2>1 DEF Spent
  <2>3. \A n \in Spans : emptied[n] \in Nat /\ within[n] \in Nat
    OBVIOUS
  <2>4. \A n \in Spans : n # 0 => within[n] <= Budget(emptied[n] + 1)
    BY <1>0, <1>1, <1>2, <2>3
  <2>5. within[0] <= Budget(0)
    BY <1>0, <1>1
  <2>6. \A n \in Spans : within'[n] <= Budget(emptied'[n]) + Spent'
    <3>1. TAKE n \in Spans
    <3>2. within'[n] <= Budget(emptied'[n]) /\ emptied'[n] \in Nat
      BY <2>1, <2>3, <2>4, <2>5
    <3>3. QED
      BY <1>0, <2>2, <3>2
  <2>7. QED
    BY <1>1, <2>1, <2>6
<1>10. CASE Tick
  <2>1. /\ \A n \in Spans : within'[n] = IF n = 0 THEN 0 ELSE within[n - 1]
        /\ \A n \in Spans : emptied'[n] = IF n = 0 THEN 0 ELSE emptied[n - 1]
        /\ ttl' = IF ttl > 1 THEN ttl - 1 ELSE -1
        /\ counter' = IF ttl = 1 THEN 0 ELSE counter
    BY <1>10 DEF Tick, Older, TtlAfterTick
  <2>2. \A n \in Spans : emptied[n] \in Nat /\ within[n] \in Nat
    OBVIOUS
  <2>3. within'[0] = 0
    BY <1>5, <2>1
  <2>4. \A m, n \in Spans : m <= n => within'[m] <= within'[n]
    <3>1. SUFFICES ASSUME NEW m \in Spans, NEW n \in Spans, m <= n
                   PROVE  within'[m] <= within'[n]
      OBVIOUS
    <3>2. CASE m = 0
      BY <1>4, <2>1, <2>2, <3>2
    <3>3. CASE m # 0
      <4>1. m - 1 \in Spans /\ n - 1 \in Spans /\ m - 1 <= n - 1 /\ n # 0
        BY <1>4, <3>1, <3>3
      <4>2. within'[m] = within[m - 1] /\ within'[n] = within[n - 1]
        BY <2>1, <3>3, <4>1
      <4>3. QED
        BY <1>1, <4>1, <4>2
    <3>4. QED
      BY <3>2, <3>3
  <2>5. CASE ttl = 1
    <3>1. within[Window - 1] <= Spent /\ Spent' = 0 /\ ttl' = -1
      BY <1>1, <2>1, <2>5 DEF Spent
    <3>2. \A n \in Spans : within'[n] <= Budget(emptied'[n]) + Spent'
      <4>1. TAKE n \in Spans
      <4>2. CASE n = 0
        BY <1>0, <2>1, <3>1, <4>2
      <4>3. CASE n # 0
        <5>1. /\ n - 1 \in Spans /\ Window - 1 \in Spans /\ n - 1 <= Window - 1
              /\ within'[n] = within[n - 1] /\ emptied'[n] \in Nat
          BY <1>4, <2>1, <2>2, <4>3 DEF Spans
        <5>2. within'[n] <= MaxRequests
          BY <1>1, <1>2, <2>2, <3>1, <5>1
        <5>3. QED
          BY <1>0, <2>2, <3>1, <5>1, <5>2
      <4>4. QED
        BY <4>2, <4>3
    <3>3. QED
      BY <2>3, <2>4, <3>1, <3>2
  <2>6. CASE ttl # 1
    <3>1. Spent' = Spent
      BY <2>1, <2>6 DEF Spent
    <3>2. ttl' # -1 => within'[Window - ttl'] <= Spent'
      <4>1. HAVE ttl' # -1
      <4>2. /\ ttl # -1 /\ Window - ttl' \in Spans /\ Window - ttl' # 0
            /\ (Window - ttl') - 1 = Window - ttl
        BY <2>1, <2>6, <4>1 DEF Spans
      <4>3. within'[Window - ttl'] = within[Window - ttl]
        BY <2>1, <4>2
      <4>4. QED
        BY <1>1, <3>1, <4>2, <4>3
    <3>3. \A n \in Spans : within'[n] <= Budget(emptied'[n]) + Spent'
      <4>1. TAKE n \in Spans
      <4>2. CASE n = 0
        BY <1>0, <1>2, <2>1, <3>1, <4>2
      <4>3. CASE n # 0
        <5>1. n - 1 \in Spans
          BY <4>3 DEF Spans
        <5>2. QED
          BY <1>1, <2>1, <3>1, <4>3, <5>1
      <4>4. QED
        BY <4>2, <4>3
    <3>4. QED
      BY <2>3, <2>4, <3>2, <3>3
  <2>7. QED
    BY <2>5, <2>6
<1>11. CASE \/ \E r \in Requests : FailOpen(r) \/ ExpireFails(r) \/ Respond(r)
            \/ RedisDown \/ RedisBack \/ UNCHANGED vars
  <2>1. UNCHANGED <<counter, ttl, within, emptied>>
    BY <1>11 DEF FailOpen, ExpireFails, Respond, RedisDown, RedisBack, vars
  <2>2. Spent' = Spent
    BY <2>1 DEF Spent
  <2>3. QED
    BY <1>1, <2>1, <2>2
<1>12. QED
  BY <1>6, <1>7, <1>8, <1>9, <1>10, <1>11 DEF Next, Request

\* At any time the key has let through what happened since its last EXPIRE, and
\* the keys before it account for the rest of the last Window ticks.
THEOREM BurstInvariant == Spec => []BurstInv
<1>1. Init => BurstInv
  <2> SUFFICES ASSUME Init PROVE BurstInv
    OBVIOUS
  <2>1. 0 \in Spans /\ Window \in Spans
    BY DEF Spans
  <2>2. /\ \A n \in Spans : within[n] = 0 /\ emptied[n] = 0
        /\ ttl = NoTtl /\ counter = 0
    BY DEF Init
  <2>3. Spent = 0
    BY <2>2 DEF Spent
  <2>4. QED
    BY <2>1, <2>2, <2>3, BudgetGrows DEF BurstInv
<1>2. TypeOK /\ BurstInv /\ [Next]_vars => BurstInv'
  BY BurstStep
<1>3. QED
  BY <1>1, <1>2, LimiterTypeCorrect, PTL DEF Spec

\* In any period of one window the counts that INCR returned admit no more
\* requests than two windows allow, and one more for each restart of Redis:
\* however requests interleave, also next to commands that fail, and however
\* late the EXPIRE of a window comes.  The requests that fail open
\* (cache.py:90-91) are not among them.
THEOREM BurstIsBounded == Spec => []BurstBound
<1>1. TypeOK /\ BurstInv => BurstBound
  <2> SUFFICES ASSUME TypeOK, BurstInv PROVE BurstBound
    OBVIOUS
  <2>1. Window \in Spans /\ emptied[Window] \in Nat /\ within[Window] \in Nat
    BY DEF Spans, TypeOK
  <2>2. Spent \in 0 .. MaxRequests
    BY DEF Spent, TypeOK
  <2>3. within[Window] <= (1 + emptied[Window]) * MaxRequests + MaxRequests
    BY <2>1, <2>2, BudgetGrows DEF BurstInv
  <2>4. (2 + emptied[Window]) * MaxRequests = (1 + (emptied[Window] + 1)) * MaxRequests
    BY <2>1
  <2>5. QED
    BY <2>1, <2>3, <2>4, BudgetGrows DEF BurstBound
<1>2. QED
  BY <1>1, LimiterTypeCorrect, BurstInvariant, PTL

\* No two requests of a window both see a count of 1.
LEMMA WindowOpensStep ==
  ASSUME TypeOK, WindowOpens, [Next]_vars
  PROVE  WindowOpens'
<1> SUFFICES ASSUME faults' = 0
             PROVE  /\ redisUp'
                    /\ counter' = 0 => ttl' = NoTtl
                    /\ \A r \in Requests : pc'[r] = "expire" => counter' # 0 /\ ttl' = NoTtl
                    /\ \A r, q \in Requests : pc'[r] = "expire" /\ pc'[q] = "expire" => r = q
  BY DEF WindowOpens
<1> USE DEF TypeOK, Answer, NoTtl
<1>1. faults = 0
  BY DEF Next, vars, Request, Incr, Expire, FailOpen, IncrReplyLost, ExpireFails, Respond,
     RedisDown, RedisBack, RedisRestart, Tick
<1>2. /\ redisUp
      /\ counter = 0 => ttl = NoTtl
      /\ \A r \in Requests : pc[r] = "expire" => counter # 0 /\ ttl = NoTtl
      /\ \A r, q \in Requests : pc[r] = "expire" /\ pc[q] = "expire" => r = q
  BY <1>1 DEF WindowOpens
<1>3. ASSUME NEW r \in Requests, Incr(r)
      PROVE  /\ redisUp'
             /\ counter' = 0 => ttl' = NoTtl
             /\ \A s \in Requests : pc'[s] = "expire" => counter' # 0 /\ ttl' = NoTtl
             /\ \A s, q \in Requests : pc'[s] = "expire" /\ pc'[q] = "expire" => s = q
  <2>1. /\ counter' = Incremented /\ UNCHANGED <<redisUp, ttl>>
        /\ pc' = [pc EXCEPT ![r] = IF IsFirst(Incremented) THEN "expire" ELSE Verdict(Incremented)]
    BY <1>3 DEF Incr
  <2>2. counter' # 0 /\ counter' \in Nat /\ (IsFirst(Incremented) <=> counter = 0)
    BY <2>1 DEF Incremented, IsFirst
  <2>3. Verdict(Incremented) # "expire"
    BY DEF Verdict
  <2>4. CASE counter = 0
    BY <1>2, <2>1, <2>2, <2>4
  <2>5. CASE counter # 0
    BY <1>2, <2>1, <2>2, <2>3, <2>5
  <2>6. QED
    BY <2>4, <2>5
<1>4. ASSUME NEW r \in Requests, Expire(r)
      PROVE  /\ redisUp'
             /\ counter' = 0 => ttl' = NoTtl
             /\ \A s \in Requests : pc'[s] = "expire" => counter' # 0 /\ ttl' = NoTtl
             /\ \A s, q \in Requests : pc'[s] = "expire" /\ pc'[q] = "expire" => s = q
  <2>1. /\ pc[r] = "expire" /\ UNCHANGED <<redisUp, counter>>
        /\ pc' = [pc EXCEPT ![r] = Verdict(seen[r])]
    BY <1>4 DEF Expire, AfterExpire
  <2>2. Verdict(seen[r]) # "expire" /\ counter # 0
    BY <1>2, <2>1 DEF Verdict
  <2>3. \A s \in Requests : pc'[s] # "expire"
    BY <1>2, <2>1, <2>2
  <2>4. QED
    BY <1>2, <2>1, <2>2, <2>3
<1>5. ASSUME NEW r \in Requests, Respond(r) \/ FailOpen(r) \/ IncrReplyLost(r) \/ ExpireFails(r)
      PROVE  /\ redisUp'
             /\ counter' = 0 => ttl' = NoTtl
             /\ \A s \in Requests : pc'[s] = "expire" => counter' # 0 /\ ttl' = NoTtl
             /\ \A s, q \in Requests : pc'[s] = "expire" /\ pc'[q] = "expire" => s = q
  <2>1. ~ FailOpen(r)
    BY <1>2 DEF FailOpen
  <2>2. ~ IncrReplyLost(r) /\ ~ ExpireFails(r)
    BY <1>1 DEF IncrReplyLost, ExpireFails
  <2>3. Respond(r)
    BY <1>5, <2>1, <2>2
  <2>4. QED
    BY <1>2, <2>3 DEF Respond
<1>6. CASE Tick
  BY <1>2, <1>6 DEF Tick, TtlAfterTick
<1>7. CASE RedisDown \/ RedisRestart \/ RedisBack
  BY <1>1, <1>2, <1>7 DEF RedisDown, RedisRestart, RedisBack
<1>8. CASE UNCHANGED vars
  BY <1>2, <1>8 DEF vars
<1>9. QED
  BY <1>3, <1>4, <1>5, <1>6, <1>7, <1>8 DEF Next, Request

\* The INCR that creates the key sends its request to EXPIRE, and only EXPIRE
\* takes it from there.
LEMMA ExpiryStep ==
  ASSUME TypeOK, WindowOpens, ExpiryIsComing, [Next]_vars
  PROVE  ExpiryIsComing'
<1> SUFFICES ASSUME faults' = 0, counter' # 0, ttl' = -1
             PROVE  \E r \in Requests : pc'[r] = "expire"
  BY DEF ExpiryIsComing, NoTtl
<1> USE DEF TypeOK, Answer, NoTtl
<1>1. faults = 0
  BY DEF Next, vars, Request, Incr, Expire, FailOpen, IncrReplyLost, ExpireFails, Respond,
     RedisDown, RedisBack, RedisRestart, Tick
<1>2. redisUp /\ (counter # 0 /\ ttl = -1 => \E r \in Requests : pc[r] = "expire")
  BY <1>1 DEF WindowOpens, ExpiryIsComing
<1>3. ASSUME NEW r \in Requests, Incr(r)
      PROVE  \E q \in Requests : pc'[q] = "expire"
  <2>1. /\ pc[r] = "idle" /\ ttl' = ttl
        /\ pc' = [pc EXCEPT ![r] = IF IsFirst(Incremented) THEN "expire" ELSE Verdict(Incremented)]
    BY <1>3 DEF Incr
  <2>2. CASE counter = 0
    <3>1. IsFirst(Incremented)
      BY <2>2 DEF IsFirst, Incremented
    <3>2. pc'[r] = "expire"
      BY <2>1, <3>1
    <3>3. QED
      BY <3>2
  <2>3. CASE counter # 0
    <3>1. PICK q \in Requests : pc[q] = "expire"
      BY <1>2, <2>1, <2>3
    <3>2. pc'[q] = "expire"
      BY <2>1, <3>1
    <3>3. QED
      BY <3>2
  <2>4. QED
    BY <2>2, <2>3
<1>4. ASSUME NEW r \in Requests, Expire(r)
      PROVE  FALSE
  <2>1. counter # 0 /\ ttl' = Window
    BY <1>4 DEF Expire, AfterExpire
  <2>2. QED
    BY <2>1
<1>5. ASSUME NEW r \in Requests, Respond(r)
      PROVE  \E q \in Requests : pc'[q] = "expire"
  <2>1. PICK q \in Requests : pc[q] = "expire"
    BY <1>2, <1>5 DEF Respond
  <2>2. pc'[q] = "expire"
    BY <1>5, <2>1 DEF Respond
  <2>3. QED
    BY <2>2
<1>6. CASE Tick
  <2>1. counter # 0 /\ ttl = -1 /\ pc' = pc
    BY <1>6 DEF Tick, TtlAfterTick
  <2>2. QED
    BY <1>2, <2>1
<1>7. CASE UNCHANGED vars
  BY <1>2, <1>7 DEF vars
<1>8. ASSUME NEW r \in Requests
      PROVE  ~ FailOpen(r) /\ ~ IncrReplyLost(r) /\ ~ ExpireFails(r)
  BY <1>1, <1>2 DEF FailOpen, IncrReplyLost, ExpireFails
<1>9. ~ RedisDown /\ ~ RedisRestart /\ ~ RedisBack
  BY <1>1, <1>2 DEF RedisDown, RedisRestart, RedisBack
<1>10. QED
  BY <1>3, <1>4, <1>5, <1>6, <1>7, <1>8, <1>9 DEF Next, Request

\* A key that nobody will expire needs a failure.
THEOREM NoOrphanedCounter == Spec => []ExpiryIsComing
<1>1. Init => WindowOpens /\ ExpiryIsComing
  BY DEF Init, WindowOpens, ExpiryIsComing
<1>2. TypeOK /\ WindowOpens /\ ExpiryIsComing /\ [Next]_vars => WindowOpens' /\ ExpiryIsComing'
  BY WindowOpensStep, ExpiryStep
<1>3. QED
  BY <1>1, <1>2, LimiterTypeCorrect, PTL DEF Spec

\* As long as nothing failed, the expiry of a key only comes nearer: INCRs and
\* EXPIREs of parallel requests never start a window anew.
THEOREM NoProlongedWindow == Spec => WindowNotProlonged
<1> DEFINE Kept == faults' = 0 /\ counter # 0 /\ ttl # NoTtl /\ counter' # 0
                     => ttl' # NoTtl /\ ttl' <= ttl
<1>1. Init => WindowOpens
  BY DEF Init, WindowOpens
<1>2. TypeOK /\ WindowOpens /\ [Next]_vars => WindowOpens'
  BY WindowOpensStep
<1>3. TypeOK /\ WindowOpens /\ [Next]_vars => Kept
  <2> SUFFICES ASSUME TypeOK, WindowOpens, [Next]_vars,
                      faults' = 0, counter # 0, ttl # NoTtl, counter' # 0
               PROVE  ttl' # NoTtl /\ ttl' <= ttl
    OBVIOUS
  <2> USE DEF TypeOK, NoTtl
  <2>1. faults = 0
    BY DEF Next, vars, Request, Incr, Expire, FailOpen, IncrReplyLost, ExpireFails, Respond,
       RedisDown, RedisBack, RedisRestart, Tick
  <2>2. \A r \in Requests : pc[r] # "expire"
    BY <2>1 DEF WindowOpens
  <2>3. ttl' = ttl \/ Tick
    BY <2>1, <2>2 DEF Next, vars, Request, Incr, Expire, FailOpen, IncrReplyLost, ExpireFails,
       Respond, RedisDown, RedisBack, RedisRestart
  <2>4. QED
    BY <2>3 DEF Tick, TtlAfterTick
<1>4. QED
  BY <1>1, <1>2, <1>3, LimiterTypeCorrect, PTL DEF Spec, WindowNotProlonged

=============================================================================
