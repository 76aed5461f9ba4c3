---------------------------- MODULE RateLimiter ----------------------------
(***************************************************************************)
(* RateLimiter.check of app/core/rate_limiter.py for one API key, run by   *)
(* any number of gateway coroutines at once. The sorted set rl:{key} is    *)
(* the set of requests in it, scored by their stamps. A Redis command or   *)
(* MULTI pipeline is one step; the clock moves between any two of them.    *)
(***************************************************************************)
EXTENDS Integers, FiniteSets, FiniteSetsExt

CONSTANTS
  Requests,      \* the requests made with this key; a retry is a new request
  Configs,       \* the limits and windows an administrator may set
  Limit,         \* the largest rate_limit_requests among them
  Window,        \* the shortest rate_limit_window_seconds among them, in ticks
  LongWindow,    \* the longest
  Concurrency,   \* most requests inside check at the same time
  MaxTime        \* the clock is followed up to this value

ASSUME RequestsAssumption == IsFiniteSet(Requests)
ASSUME LimiterAssumption ==
  /\ Limit \in Nat \ {0}
  /\ Window \in Nat \ {0}
  /\ LongWindow \in Nat
  /\ Concurrency \in Nat \ {0}
  /\ MaxTime \in Nat
ASSUME ConfigsAssumption == Configs \subseteq [limit : 0..Limit, window : Window..LongWindow]

VARIABLES
  now,      \* the clock
  zset,     \* members of the sorted set
  conf,     \* the limit and window each request's limiter is built with; fixed
  expires,  \* when Redis drops the whole key (EXPIRE), 0 when it is absent
  pc,       \* where each request is in check
  stamp,    \* now, as each request read it when it entered check
  retry     \* retry_after_seconds of the requests turned away

vars == <<now, zset, conf, expires, pc, stamp, retry>>

-----------------------------------------------------------------------------
InCheck == {r \in Requests : pc[r] \in {"count", "add", "oldest"}}
Adding == {r \in Requests : pc[r] = "add"}
Admitted == {r \in Requests : pc[r] = "admitted"}

\* The race between counting and adding lets at most one extra request through
\* for each other request inside check.
Capacity == Limit + Concurrency - 1

\* Mutant of Outdated: the window is one tick short.
OutdatedEarly(t, window) == {q \in zset : stamp[q] <= t - window + 1}

\* Members whose score is at most t - window, the range ZREMRANGEBYSCORE drops.
Outdated(t, window) == {q \in zset : stamp[q] <= t - window}

\* The score ZRANGE 0 0 answers.
OldestStamp == Min({stamp[q] : q \in zset})

Init ==
  /\ now = 0
  /\ zset = {}
  /\ conf \in [Requests -> Configs]
  /\ expires = 0
  /\ pc = [r \in Requests |-> "new"]
  /\ stamp = [r \in Requests |-> 0]
  /\ retry = [r \in Requests |-> 0]

\* check is entered: now = time.time(). The limiter is built for the request,
\* from the configuration it has just read (routes.py:72-74).
Enter(r) ==
  /\ pc[r] = "new"
  /\ Cardinality(InCheck) < Concurrency
  /\ pc' = [pc EXCEPT ![r] = "count"]
  /\ stamp' = [stamp EXCEPT ![r] = now]
  /\ UNCHANGED <<now, zset, conf, expires, retry>>

\* Mutant of TrimAndCount: rejected only above the limit.
TrimAndCountAbove(r) ==
  /\ pc[r] = "count"
  /\ zset' = zset \ Outdated(stamp[r], conf[r].window)
  /\ expires' = IF zset' = {} THEN 0 ELSE expires
  /\ pc' = [pc EXCEPT ![r] = IF Cardinality(zset') > conf[r].limit THEN "oldest" ELSE "add"]
  /\ UNCHANGED <<now, conf, stamp, retry>>

\* First pipeline: ZREMRANGEBYSCORE 0 window_start; ZCARD. window_start is as
\* old as the request. A set left empty is a key that is gone.
TrimAndCount(r) ==
  /\ pc[r] = "count"
  /\ zset' = zset \ Outdated(stamp[r], conf[r].window)
  /\ expires' = IF zset' = {} THEN 0 ELSE expires
  /\ pc' = [pc EXCEPT ![r] = IF Cardinality(zset') >= conf[r].limit THEN "oldest" ELSE "add"]
  /\ UNCHANGED <<now, conf, stamp, retry>>

\* Mutant of Add: ZADD without EXPIRE.
AddForGood(r) ==
  /\ pc[r] = "add"
  /\ zset' = zset \union {r}
  /\ pc' = [pc EXCEPT ![r] = "admitted"]
  /\ UNCHANGED <<now, conf, expires, stamp, retry>>

\* Second pipeline: ZADD under the request's own stamp; EXPIRE.
Add(r) ==
  /\ pc[r] = "add"
  /\ zset' = zset \union {r}
  /\ expires' = now + conf[r].window
  /\ pc' = [pc EXCEPT ![r] = "admitted"]
  /\ UNCHANGED <<now, conf, stamp, retry>>

\* Mutant of Reject: the time already waited, not the time left.
RejectWithElapsed(r) ==
  /\ pc[r] = "oldest"
  /\ retry' = [retry EXCEPT ![r] =
       IF zset = {} THEN conf[r].window ELSE Max({0, stamp[r] - OldestStamp})]
  /\ pc' = [pc EXCEPT ![r] = "rejected"]
  /\ UNCHANGED <<now, zset, conf, expires, stamp>>

\* ZRANGE 0 0 WITHSCORES, then RateLimitExceeded. An emptied set means the
\* full window.
Reject(r) ==
  /\ pc[r] = "oldest"
  /\ retry' = [retry EXCEPT ![r] =
       IF zset = {} THEN conf[r].window ELSE Max({0, conf[r].window - (stamp[r] - OldestStamp)})]
  /\ pc' = [pc EXCEPT ![r] = "rejected"]
  /\ UNCHANGED <<now, zset, conf, expires, stamp>>

\* remaining trims on its own, as of the time it has read, and only counts.
Remaining ==
  /\ \E t \in 0..now, c \in Configs :
       /\ zset' = zset \ Outdated(t, c.window)
       /\ expires' = IF zset' = {} THEN 0 ELSE expires
  /\ UNCHANGED <<now, conf, pc, stamp, retry>>

\* The request ends inside check: its process dies or a Redis command fails.
Abandon(r) ==
  /\ r \in InCheck
  /\ pc' = [pc EXCEPT ![r] = "lost"]
  /\ UNCHANGED <<now, zset, conf, expires, stamp, retry>>

\* Time passes, and with it the life of the key.
Tick ==
  /\ now < MaxTime
  /\ now' = now + 1
  /\ IF expires = now + 1
       THEN zset' = {} /\ expires' = 0
       ELSE UNCHANGED <<zset, expires>>
  /\ UNCHANGED <<conf, pc, stamp, retry>>

Check(r) == Enter(r) \/ TrimAndCount(r) \/ Add(r) \/ Reject(r)

Next ==
  \/ \E r \in Requests : Check(r) \/ Abandon(r)
  \/ Remaining
  \/ Tick

Spec == Init /\ [][Next]_vars

-----------------------------------------------------------------------------
(* Properties *)

\* Only the requests that passed are in the set, the key never outlives its
\* members' usefulness, and times lie in the past.
TypeOK ==
  /\ now \in 0..MaxTime
  /\ zset \subseteq Admitted
  /\ conf \in [Requests -> Configs]
  /\ expires \in 0 .. MaxTime + LongWindow
  /\ (zset = {}) <=> (expires = 0)
  /\ pc \in [Requests -> {"new", "count", "add", "oldest", "admitted", "rejected", "lost"}]
  /\ stamp \in [Requests -> 0..MaxTime]
  /\ \A r \in Requests : stamp[r] <= now
  /\ retry \in [Requests -> Nat]

\* Admitted requests that count against the caller whatever window is set.
Recent == {r \in Admitted : now - stamp[r] < Window}

\* Why nobody is forgotten too early: the key lives until every member is out
\* of the shortest window, though an Add may bring its end forward.
KeyOutlivesMembers == \A q \in zset : stamp[q] + Window <= expires

\* Why the race is bounded: a request that has found room is counted already.
RoomIsReserved ==
  /\ Cardinality(InCheck) <= Concurrency
  /\ Cardinality(zset) + Cardinality(Adding) <= Capacity

\* Nobody who still counts has been forgotten: not by a trim that another
\* request made with an older clock reading or another window, not by the key's
\* expiry, which the last request to be admitted sets anew.
RecentAreCounted == Recent \subseteq zset

\* A window holds at most Limit requests, plus one for each other request that
\* can be between its count and its ZADD. With limits and windows that change
\* under running requests that is the largest limit, and the shortest window: a
\* request with a short window trims members that a longer one would count.
WindowBounded == Cardinality(Recent) <= Capacity

\* Requests in a window of the clock that ends at t, out of those in the set.
InWindowAt(t, window) == {q \in zset : stamp[q] > t - window}

\* A client turned away that comes back after retry_after finds room, save for
\* the requests the race has let in: at most Limit - 1 of those it was turned
\* away for still count, plus one for each other request inside check.
RetryFindsRoom ==
  [][\A r \in Requests : Reject(r) =>
       Cardinality(InWindowAt(stamp[r] + retry'[r], conf[r].window)) < Capacity]_vars

\* The limiter is a sliding window of that capacity.
Grants == {<<r, stamp[r]>> : r \in Admitted}

Promise == INSTANCE SlidingWindow WITH granted <- Grants

ImplementsSlidingWindow == Promise!Spec

\* "Redis sorted-set sliding window per API key - ... atomic" (README.md:279-280)
\* and "caps how many requests a given API key can make in a rolling time
\* window" (DOCUMENTATION.md:199-200): never more than Limit.
AtMostLimit == Cardinality(Recent) <= Limit

=============================================================================
