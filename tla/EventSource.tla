----------------------------- MODULE EventSource -----------------------------
(***************************************************************************)
(* producer/simulator.py under the pacing of producer/cli.py, one process  *)
(* after the other with the same seed (DEFAULT_SEED, PRODUCER_SEED), and    *)
(* the keys under which the two stores take its events.  Python's generator *)
(* is a stream of words that its seed fixes; the simulator reads it from    *)
(* the beginning in every process, and how many words a draw takes and what *)
(* it yields depends on the words.  The clock of the simulator is not       *)
(* seeded: it begins at the wall clock, truncated to a second.              *)
(***************************************************************************)
EXTENDS Naturals, Sequences

CONSTANTS
  Second,       \* a second, in intervals between two events
  MaxDraws,     \* bound: events of one process
  Takes,        \* words that the draws of a header or of an event may take
  SessionLengths, \* lengths of a session
  MaxRuns,      \* bound: processes, one after the other
  MaxWall       \* bound: the wall clock

VARIABLES
  words,        \* the seed, as far as it was read: how many words the draws take
                \* that begin at a word of the stream, ...
  lengths,      \* ... and the length of a session whose header begins there
  wall,
  run,          \* processes started
  running,
  begun,        \* start of run(): the monotonic clock
  made,         \* produced
  state,        \* of the generator: the words this process has taken
  session,      \* session_id: the word it was drawn from
  left,         \* events the session still has
  emitted,      \* history: what was produced, with the time of it
  stored,       \* events that have reached ClickHouse ...
  clicks,       \* ... olap.clicks: the timestamp of each event_id that has a row
  counted       \* events that have reached the windows of Postgres

seed == <<words, lengths>>

Times == 0 .. MaxWall + MaxDraws

\* ids and sessions are named by the word of the stream they were drawn from.
Events == [nth : 1 .. MaxDraws, id : Nat, session : Nat, ts : Times, at : Times]

SourceTypeOK ==
  /\ DOMAIN words \subseteq Nat /\ \A s \in DOMAIN words : words[s] \in Takes
  /\ DOMAIN lengths \subseteq Nat /\ \A s \in DOMAIN lengths : lengths[s] \in SessionLengths
  /\ wall \in Second .. MaxWall
  /\ run \in 0 .. MaxRuns /\ running \in BOOLEAN
  /\ begun \in 0 .. MaxWall
  /\ made \in 0 .. MaxDraws
  /\ state \in Nat /\ session \in Nat /\ left \in Nat
  /\ \A i \in DOMAIN emitted : emitted[i] \in Events
  /\ DOMAIN clicks \subseteq Nat /\ \A d \in DOMAIN clicks : clicks[d] \in Times
  /\ stored \in 0 .. Len(emitted) /\ counted \in 0 .. Len(emitted)

Empty == [x \in {} |-> 0]

\* Nothing has run yet.
SourceInit ==
  /\ words = Empty /\ lengths = Empty
  /\ wall = Second
  /\ run = 0 /\ running = FALSE /\ begun = 0 /\ made = 0
  /\ state = 0 /\ session = 0 /\ left = 0
  /\ emitted = <<>>
  /\ clicks = Empty
  /\ stored = 0 /\ counted = 0

HasRows == DOMAIN clicks # {}

-----------------------------------------------------------------------------

\* replace(microsecond=0), and strftime with seconds.
Truncated(t) == (t \div Second) * Second

\* Random(seed): every process reads the stream from its beginning.
StartRun ==
  /\ ~ running /\ run < MaxRuns
  /\ run' = run + 1 /\ running' = TRUE
  /\ begun' = wall /\ made' = 0
  /\ state' = 0 /\ session' = 0 /\ left' = 0
  /\ UNCHANGED <<seed, wall, emitted, stored, clicks, counted>>

\* f with a value of S at s; what was read there before stays.
Read(f, s, S) ==
  IF s \in DOMAIN f THEN {f}
  ELSE {[x \in DOMAIN f \cup {s} |-> IF x = s THEN v ELSE f[x]] : v \in S}

\* The clock after `made` events, as the event prints it.
Ts == Truncated(Truncated(begun) + made)

\* Mutant: the loop does not sleep.
Unpaced == running

\* target = start + produced * interval; behind it the loop does not sleep.
Paced == running /\ wall >= begun + made

\* The header of the next session: user, session_id, device, region, campaign,
\* referrer, first page and length, all from the same stream.
OpenSession ==
  /\ Paced /\ made < MaxDraws
  /\ left = 0
  /\ words' \in Read(words, state, Takes)
  /\ lengths' \in Read(lengths, state, SessionLengths)
  /\ session' = state /\ left' = lengths'[state]
  /\ state' = state + words'[state]
  /\ UNCHANGED <<wall, run, running, begun, made, emitted, stored, clicks, counted>>

\* Mutant: ids from uuid4() instead of the seeded generator.
UnseededId == Len(emitted)

\* uuid.UUID(int=self._rng.getrandbits(128)).
DrawnId == state

\* Mutant: the pause before an event is jittered, by the same generator.
JitterToo == IF wall = begun + made THEN words'[state] + 1 ELSE words'[state]

\* The id, the type and the page after it are drawn, and nothing else.
Drawn == words'[state]

Event ==
  [nth |-> made + 1, id |-> DrawnId, session |-> session, ts |-> Ts, at |-> wall]

\* The next event of the session.
Emit ==
  /\ Paced /\ made < MaxDraws
  /\ left # 0
  /\ words' \in Read(words, state, Takes)
  /\ emitted' = Append(emitted, Event)
  /\ state' = state + Drawn
  /\ left' = left - 1 /\ made' = made + 1
  /\ UNCHANGED <<lengths, wall, run, running, begun, session, stored, clicks, counted>>

\* ReplacingMergeTree ORDER BY event_id, read with FINAL: the last insert wins.
RowReplaced(e) == [d \in DOMAIN clicks \cup {e.id} |-> IF d = e.id THEN e.ts ELSE clicks[d]]

\* The streaming job writes the next event to one of the stores.
ToClickhouse ==
  /\ stored < Len(emitted)
  /\ clicks' = RowReplaced(emitted[stored + 1])
  /\ stored' = stored + 1
  /\ UNCHANGED <<seed, wall, run, running, begun, made, state, session, left, emitted,
                 counted>>

ToPostgres ==
  /\ counted < Len(emitted)
  /\ counted' = counted + 1
  /\ UNCHANGED <<seed, wall, run, running, begun, made, state, session, left, emitted,
                 stored, clicks>>

\* The limits of run(), a signal or a crash.
RunStops ==
  /\ running
  /\ running' = FALSE
  /\ UNCHANGED <<seed, wall, run, begun, made, state, session, left, emitted,
                 stored, clicks, counted>>

\* Time passes, also while the loop hangs in produce().
WallTicks ==
  /\ wall < MaxWall
  /\ wall' = wall + 1
  /\ UNCHANGED <<seed, run, running, begun, made, state, session, left, emitted,
                 stored, clicks, counted>>

SourceStep ==
  StartRun \/ OpenSession \/ Emit \/ RunStops \/ WallTicks \/ ToClickhouse \/ ToPostgres

=============================================================================
