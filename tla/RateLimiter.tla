----------------------------- MODULE RateLimiter -----------------------------
(***************************************************************************)
(* The counters of services/ratelimit: per scope one key for the minute    *)
(* and one for the day.  A window starts with its first hit, and its key   *)
(* expires on its own.                                                     *)
(***************************************************************************)
EXTENDS Domain, ServerClock

CONSTANTS
  Scopes,           \* devices and users
  SecondsPerMinute,
  MinuteLimit,      \* PARSE_RATE_LIMIT
  DayLimit          \* PARSE_RATE_LIMIT_DAILY

ASSUME LimiterAssumption ==
  /\ SecondsPerMinute \in Nat \ {0}
  /\ MinuteLimit \in Nat \ {0}
  /\ DayLimit \in Nat \ {0}

VARIABLE counters  \* the keys in Redis, NULL if there is none

Windows == {"minute", "day"}
Length == [minute |-> SecondsPerMinute * TicksPerSecond,
           day    |-> SecondsPerDay * TicksPerSecond]
Limit == [minute |-> MinuteLimit, day |-> DayLimit]

Counter == [count : Nat \ {0}, started : Nat, expires : Nat]

ASSUME CounterAssumption == NULL \notin Counter

NoCounters == [s \in Scopes |-> [w \in Windows |-> NULL]]

LimiterTypeOK ==
  /\ now \in 0 .. Horizon
  /\ counters \in [Scopes -> [Windows -> Counter \cup {NULL}]]
  /\ \A s \in Scopes, w \in Windows :
       counters[s][w] # NULL => counters[s][w].expires > now

(* Variant with a bug: every hit renews the expiry of the key. *)
HitRenewing(s, w) ==
  LET old == counters[s][w]
  IN  counters' = [counters EXCEPT ![s][w] =
                     IF old = NULL
                     THEN [count |-> 1, started |-> now, expires |-> now + Length[w]]
                     ELSE [old EXCEPT !.count = @ + 1, !.expires = now + Length[w]]]

(* Variant with a bug: a window ends when the clock's minute or day does.  *)
HitAligned(s, w) ==
  LET old == counters[s][w]
  IN  counters' = [counters EXCEPT ![s][w] =
                     IF old = NULL
                     THEN [count |-> 1, started |-> now,
                           expires |-> (now \div Length[w] + 1) * Length[w]]
                     ELSE [old EXCEPT !.count = @ + 1]]

(* The Lua script, one atomic step of Redis: INCR, and PEXPIRE if the key  *)
(* is new.                                                                 *)
Hit(s, w) ==
  LET old == counters[s][w]
  IN  counters' = [counters EXCEPT ![s][w] =
                     IF old = NULL
                     THEN [count |-> 1, started |-> now, expires |-> now + Length[w]]
                     ELSE [old EXCEPT !.count = @ + 1]]

(* A RedisError: the script has run and its answer is lost, or it has not. *)
HitFails(s, w) == Hit(s, w) \/ UNCHANGED counters

(* What hit returns of the counter it has just written: count and PTTL. *)
Answer(counter) == [count |-> counter.count, ttl |-> counter.expires - now]

Exceeded(answer, w) == answer.count > Limit[w]

(* The Retry-After header, in seconds: rounded up, at least one. *)
RetryAfter(ttl) ==
  LET seconds == (ttl + TicksPerSecond - 1) \div TicksPerSecond
  IN  IF seconds < 1 THEN 1 ELSE seconds

Tick ==
  /\ TimePasses
  /\ counters' = [s \in Scopes |-> [w \in Windows |->
       IF counters[s][w] # NULL /\ counters[s][w].expires <= now'
       THEN NULL ELSE counters[s][w]]]
=============================================================================
