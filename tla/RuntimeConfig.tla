--------------------------- MODULE RuntimeConfig ---------------------------
(***************************************************************************)
(* RuntimeConfig (app/core/runtime_config.py): overrides in one Redis      *)
(* hash, and in every replica a copy that is used for cache_seconds.       *)
(* Coroutines of one replica share its copy and run between each other's   *)
(* awaits; an HGETALL takes effect at Redis (Fetch) some time before the   *)
(* coroutine that sent it goes on (Install).                               *)
(*                                                                         *)
(* What the hash holds is named by the number of the write that made it,   *)
(* so two equal configurations are still told apart.                       *)
(***************************************************************************)
EXTENDS Integers, FiniteSets, Sequences

CONSTANTS
  Replicas,       \* gateway processes
  Calls,          \* calls of get, update and reset, each made once
  CacheSeconds,   \* cache_seconds, in ticks
  MaxTime         \* the clock is followed up to this value

\* Time 0 is the epoch and lies further back than cache_seconds, so a copy
\* stamped 0.0 is never in use; MaxTime is at least the time at the start.
ASSUME ConfigAssumption ==
  /\ CacheSeconds \in Nat \ {0}
  /\ MaxTime \in Nat /\ CacheSeconds <= MaxTime

VARIABLES
  now,        \* the clock
  written,    \* when each version of the hash was written; the last one is current
  cached,     \* _cached of each replica: a version, NoCopy before the first
  cachedAt,   \* _cached_at of each replica
  pc,         \* where each call is
  at,         \* the replica that serves it
  entry,      \* now, as get has read it
  got,        \* the version get has in hand or has returned
  own         \* the version an update or reset has written, 0 when it has not

vars == <<now, written, cached, cachedAt, pc, at, entry, got, own>>

-----------------------------------------------------------------------------
NoCopy == 0

Current == Len(written)

\* The test at the head of get, for a copy stamped t.
InUse(r, t) == cached[r] # NoCopy /\ now - t < CacheSeconds

Goto(c, label) == pc' = [pc EXCEPT ![c] = label]

Init ==
  /\ now = CacheSeconds
  /\ written = <<0>>
  /\ cached = [r \in Replicas |-> NoCopy]
  /\ cachedAt = [r \in Replicas |-> 0]
  /\ pc = [c \in Calls |-> "new"]
  /\ at \in [Calls -> Replicas]
  /\ entry = [c \in Calls |-> 0]
  /\ got = [c \in Calls |-> 0]
  /\ own = [c \in Calls |-> 0]

-----------------------------------------------------------------------------
(* get *)

\* The copy is young enough.
GetCached(c) ==
  /\ pc[c] = "new"
  /\ InUse(at[c], cachedAt[at[c]])
  /\ entry' = [entry EXCEPT ![c] = now]
  /\ got' = [got EXCEPT ![c] = cached[at[c]]]
  /\ Goto(c, "returned")
  /\ UNCHANGED <<now, written, cached, cachedAt, at, own>>

\* It is not: the hash has to be read.
GetStored(c) ==
  /\ pc[c] = "new"
  /\ ~ InUse(at[c], cachedAt[at[c]])
  /\ entry' = [entry EXCEPT ![c] = now]
  /\ Goto(c, "fetch")
  /\ UNCHANGED <<now, written, cached, cachedAt, at, got, own>>

\* HGETALL
Fetch(c) ==
  /\ pc[c] = "fetch"
  /\ got' = [got EXCEPT ![c] = Current]
  /\ Goto(c, "install")
  /\ UNCHANGED <<now, written, cached, cachedAt, at, entry, own>>

\* Mutant of Install: the copy is stamped with the time of its arrival.
InstallAsOfNow(c) ==
  /\ pc[c] = "install"
  /\ cached' = [cached EXCEPT ![at[c]] = got[c]]
  /\ cachedAt' = [cachedAt EXCEPT ![at[c]] = now]
  /\ Goto(c, "returned")
  /\ UNCHANGED <<now, written, at, entry, got, own>>

\* The copy is replaced, whatever has been installed or invalidated since the
\* HGETALL, and stamped with the time read before it.
Install(c) ==
  /\ pc[c] = "install"
  /\ cached' = [cached EXCEPT ![at[c]] = got[c]]
  /\ cachedAt' = [cachedAt EXCEPT ![at[c]] = entry[c]]
  /\ Goto(c, "returned")
  /\ UNCHANGED <<now, written, at, entry, got, own>>

-----------------------------------------------------------------------------
(* update and reset *)

\* HSET of the values to store, or DELETE.
Write(c) ==
  /\ pc[c] = "new"
  /\ written' = Append(written, now)
  /\ own' = [own EXCEPT ![c] = Current + 1]
  /\ Goto(c, "written")
  /\ UNCHANGED <<now, cached, cachedAt, at, entry, got>>

\* Mutant of Invalidate: the copy keeps its stamp, so get may answer from it.
LeaveValid(c) ==
  /\ pc[c] = "written"
  /\ entry' = [entry EXCEPT ![c] = now]
  /\ IF InUse(at[c], cachedAt[at[c]])
       THEN got' = [got EXCEPT ![c] = cached[at[c]]] /\ Goto(c, "returned")
       ELSE got' = got /\ Goto(c, "fetch")
  /\ UNCHANGED <<now, written, cached, cachedAt, at, own>>

\* Mutant of Reread: the stamp is taken for the time of expiry and renewed.
RereadLater(c) ==
  /\ cachedAt' = [cachedAt EXCEPT ![at[c]] = now + CacheSeconds]
  /\ entry' = [entry EXCEPT ![c] = now]
  /\ Goto(c, "fetch")
  /\ UNCHANGED <<now, written, cached, at, got, own>>

\* _cached_at = 0.0, and get, which therefore reads the hash: there is no await
\* between the two.
Reread(c) ==
  /\ cachedAt' = [cachedAt EXCEPT ![at[c]] = 0]
  /\ entry' = [entry EXCEPT ![c] = now]
  /\ Goto(c, "fetch")
  /\ UNCHANGED <<now, written, cached, at, got, own>>

Invalidate(c) == pc[c] = "written" /\ Reread(c)

\* An update with nothing to store sends no HSET.
NothingToStore(c) == pc[c] = "new" /\ Reread(c)

-----------------------------------------------------------------------------
\* The calls in S end where they are, and what they held is gone.
Lose(S) ==
  /\ pc' = [c \in Calls |-> IF c \in S THEN "lost" ELSE pc[c]]
  /\ entry' = [c \in Calls |-> IF c \in S THEN 0 ELSE entry[c]]
  /\ got' = [c \in Calls |-> IF c \in S THEN 0 ELSE got[c]]
  /\ own' = [c \in Calls |-> IF c \in S THEN 0 ELSE own[c]]

Underway(c) == pc[c] \in {"fetch", "install", "written"}

\* A Redis command fails or the client goes away.
Abandon(c) ==
  /\ Underway(c)
  /\ Lose({c})
  /\ UNCHANGED <<now, written, cached, cachedAt, at>>

\* The replica's process is replaced, its calls end with it.
Restart(r) ==
  /\ cached' = [cached EXCEPT ![r] = NoCopy]
  /\ cachedAt' = [cachedAt EXCEPT ![r] = 0]
  /\ Lose({c \in Calls : at[c] = r /\ Underway(c)})
  /\ UNCHANGED <<now, written, at>>

Tick ==
  /\ now < MaxTime
  /\ now' = now + 1
  /\ UNCHANGED <<written, cached, cachedAt, pc, at, entry, got, own>>

Get(c) == GetCached(c) \/ GetStored(c) \/ Fetch(c) \/ Install(c)

Change(c) == Write(c) \/ NothingToStore(c) \/ Invalidate(c)

Next ==
  \/ \E c \in Calls : Get(c) \/ Change(c) \/ Abandon(c)
  \/ \E r \in Replicas : Restart(r)
  \/ Tick

Spec == Init /\ [][Next]_vars

-----------------------------------------------------------------------------
(* Properties *)

Versions == 1 .. Current

\* The state is well formed; versions were written one after the other.
TypeOK ==
  /\ now \in CacheSeconds .. MaxTime
  /\ written \in Seq(Nat) /\ written # <<>>
  /\ \A v \in Versions : written[v] <= now
  /\ cached \in [Replicas -> Nat] /\ cachedAt \in [Replicas -> Nat]
  /\ \A r \in Replicas : cached[r] <= Current /\ cachedAt[r] <= now
  /\ pc \in [Calls -> {"new", "fetch", "install", "written", "returned", "lost"}]
  /\ at \in [Calls -> Replicas]
  /\ entry \in [Calls -> Nat] /\ got \in [Calls -> Nat] /\ own \in [Calls -> Nat]
  /\ \A c \in Calls : entry[c] <= now /\ got[c] <= Current /\ own[c] <= Current

\* Version v has still been the current one at time t or after it.
CurrentSince(v, t) == v \in Versions /\ (v < Current => written[v + 1] >= t)

\* A configuration returned by get was the stored one less than cache_seconds
\* before get was entered, or later (README.md:174, "within ~2 seconds"), on every replica
\* and in spite of refreshes that arrive late, out of order or after an update
\* has invalidated the copy.
BoundedStaleness ==
  \A c \in Calls : pc[c] = "returned" => CurrentSince(got[c], entry[c] - CacheSeconds + 1)

\* An update or reset answers with its own effect or a later one, never with the
\* configuration it has replaced.
UpdateSeesItself == \A c \in Calls : pc[c] = "returned" => got[c] >= own[c]

\* Why staleness is bounded: a copy, like a refresh under way, was read after the
\* time it is stamped with.
StampsAreHonest ==
  /\ \A r \in Replicas : cached[r] # NoCopy /\ cachedAt[r] # 0 => CurrentSince(cached[r], cachedAt[r])
  /\ \A c \in Calls : pc[c] = "install" => CurrentSince(got[c], entry[c])

=============================================================================
