------------------------ MODULE RuntimeConfigProofs ------------------------
(***************************************************************************)
(* Proofs about RuntimeConfig, for any replicas, calls and cache lifetime. *)
(***************************************************************************)
EXTENDS RuntimeConfig, TLAPS

\* The number of versions only grows, and old ones keep their times.
LEMMA Writing ==
  ASSUME TypeOK, [Next]_vars
  PROVE  /\ Current \in Nat \ {0} /\ Current' \in Nat /\ Current <= Current'
         /\ written' \in Seq(Nat) /\ now <= now' /\ now \in Nat /\ now' \in Nat
         /\ \A v \in Versions : written'[v] = written[v]
         /\ \A v \in Versions' : v \notin Versions => written'[v] = now /\ now' = now
<1>1. written \in Seq(Nat) /\ written # <<>> /\ now \in Nat
  BY ConfigAssumption DEF TypeOK
<1>2. CASE written' = Append(written, now) /\ now' = now
  BY <1>1, <1>2 DEF Current, Versions
<1>3. CASE written' = written /\ now' \in {now, now + 1}
  BY <1>1, <1>3 DEF Current, Versions
<1>4. QED
  BY <1>2, <1>3 DEF Next, Get, Change, GetCached, GetStored, Fetch, Install, Write, Reread,
     NothingToStore, Invalidate, Abandon, Restart, Tick, vars

\* Every step keeps the types.
LEMMA TypeStep == TypeOK /\ [Next]_vars => TypeOK'
<1> SUFFICES ASSUME TypeOK, [Next]_vars PROVE TypeOK'
  OBVIOUS
<1> USE ConfigAssumption
<1>1. /\ Current \in Nat \ {0} /\ Current' \in Nat /\ Current <= Current'
      /\ written' \in Seq(Nat) /\ now <= now' /\ now \in Nat /\ now' \in Nat
      /\ \A v \in Versions : written'[v] = written[v]
      /\ \A v \in Versions' : v \notin Versions => written'[v] = now /\ now' = now
  BY Writing
<1>2. written' # <<>>
  BY <1>1 DEF Current
<1>3. ASSUME NEW v \in Versions' PROVE written'[v] <= now'
  <2>1. CASE v \in Versions
    <3>1. written[v] <= now /\ written[v] \in Nat /\ written'[v] = written[v]
      BY <1>1, <2>1 DEF TypeOK, Versions, Current
    <3>2. QED
      BY <1>1, <3>1
  <2>2. CASE v \notin Versions
    <3>1. written'[v] = now
      BY <1>1, <2>2
    <3>2. QED
      BY <1>1, <3>1
  <2>3. QED
    BY <2>1, <2>2
<1>4. now' \in CacheSeconds .. MaxTime
  <2>1. now' = now \/ (now < MaxTime /\ now' = now + 1)
    BY DEF Next, Get, Change, GetCached, GetStored, Fetch, Install, Write, Reread,
       NothingToStore, Invalidate, Abandon, Restart, Tick, vars
  <2>2. now \in CacheSeconds .. MaxTime
    BY DEF TypeOK
  <2>3. QED
    BY <2>1, <2>2
<1> DEFINE Rest ==
      /\ cached \in [Replicas -> Nat] /\ cachedAt \in [Replicas -> Nat]
      /\ \A r \in Replicas : cached[r] <= Current /\ cachedAt[r] <= now
      /\ pc \in [Calls -> {"new", "fetch", "install", "written", "returned", "lost"}]
      /\ at \in [Calls -> Replicas]
      /\ entry \in [Calls -> Nat] /\ got \in [Calls -> Nat] /\ own \in [Calls -> Nat]
      /\ \A c \in Calls : entry[c] <= now /\ got[c] <= Current /\ own[c] <= Current
<1>5. Rest
  BY DEF TypeOK
<1>6. ASSUME NEW c \in Calls, Get(c) PROVE Rest'
  <2>1. CASE GetCached(c)
    BY <1>1, <1>5, <2>1 DEF GetCached, Goto, Current
  <2>2. CASE GetStored(c)
    BY <1>1, <1>5, <2>2 DEF GetStored, Goto, Current
  <2>3. CASE Fetch(c)
    BY <1>1, <1>5, <2>3 DEF Fetch, Goto, Current
  <2>4. CASE Install(c)
    BY <1>1, <1>5, <2>4 DEF Install, Goto, Current
  <2>5. QED
    BY <1>6, <2>1, <2>2, <2>3, <2>4 DEF Get
<1>7. ASSUME NEW c \in Calls, Reread(c) PROVE Rest'
  BY <1>1, <1>5, <1>7 DEF Reread, Goto, Current
<1>8. ASSUME NEW c \in Calls, Write(c) PROVE Rest'
  <2>1. Current' = Current + 1
    BY <1>8 DEF Write, Current, TypeOK
  <2>2. QED
    BY <1>1, <1>5, <1>8, <2>1 DEF Write, Goto
<1>9. ASSUME NEW STATE S, Lose(S), UNCHANGED <<now, written, at>>,
             cached' \in [Replicas -> Nat] /\ cachedAt' \in [Replicas -> Nat],
             \A r \in Replicas : cached'[r] <= Current /\ cachedAt'[r] <= now
      PROVE  Rest'
  BY <1>1, <1>5, <1>9 DEF Lose, Current
<1>10. ASSUME NEW c \in Calls, Abandon(c) PROVE Rest'
  BY <1>5, <1>9, <1>10 DEF Abandon
<1>11. ASSUME NEW r \in Replicas, Restart(r) PROVE Rest'
  <2>1. /\ Lose({c \in Calls : at[c] = r /\ Underway(c)})
        /\ UNCHANGED <<now, written, at>>
        /\ cached' = [cached EXCEPT ![r] = 0] /\ cachedAt' = [cachedAt EXCEPT ![r] = 0]
    BY <1>11 DEF Restart, NoCopy
  <2>2. /\ cached' \in [Replicas -> Nat] /\ cachedAt' \in [Replicas -> Nat]
        /\ \A q \in Replicas : cached'[q] <= Current /\ cachedAt'[q] <= now
    BY <1>1, <1>5, <2>1
  <2>3. QED
    BY <1>9, <2>1, <2>2
<1>12. ASSUME Tick PROVE Rest'
  BY <1>1, <1>5, <1>12 DEF Tick, Current
<1>13. ASSUME UNCHANGED vars PROVE Rest'
  BY <1>1, <1>5, <1>13 DEF vars, Current
<1>14. Rest'
  BY <1>6, <1>7, <1>8, <1>10, <1>11, <1>12, <1>13 DEF Next, Change, NothingToStore, Invalidate
<1>15. QED
  BY <1>1, <1>2, <1>3, <1>4, <1>14 DEF TypeOK

\* The state is well formed, and no stamp or version is ahead of its time.
THEOREM TypeCorrect == Spec => []TypeOK
<1>1. Init => TypeOK
  BY ConfigAssumption DEF Init, TypeOK, Versions, Current, NoCopy
<1>2. QED
  BY <1>1, TypeStep, PTL DEF Spec

-----------------------------------------------------------------------------
(* Staleness *)

\* A version that was current at a time that is past was so whatever is written now.
LEMMA StillCurrentSince ==
  ASSUME TypeOK, [Next]_vars, NEW v \in Nat, NEW t \in Int, t <= now, CurrentSince(v, t)
  PROVE  CurrentSince(v, t)'
<1>1. /\ Current \in Nat \ {0} /\ Current' \in Nat /\ Current <= Current' /\ now \in Nat
      /\ \A w \in Versions : written'[w] = written[w]
      /\ \A w \in Versions' : w \notin Versions => written'[w] = now /\ now' = now
  BY Writing
<1>2. v \in Versions /\ v \in Versions'
  BY <1>1 DEF CurrentSince, Versions
<1>3. ASSUME v < Current' PROVE written'[v + 1] >= t
  <2>1. v + 1 \in Versions'
    BY <1>1, <1>2, <1>3 DEF Versions
  <2>2. CASE v + 1 \in Versions
    <3>1. v < Current /\ written'[v + 1] = written[v + 1]
      BY <1>1, <1>2, <2>2 DEF Versions
    <3>2. QED
      BY <3>1 DEF CurrentSince
  <2>3. CASE v + 1 \notin Versions
    <3>1. written'[v + 1] = now
      BY <1>1, <2>1, <2>3
    <3>2. QED
      BY <1>1, <3>1
  <2>4. QED
    BY <2>2, <2>3
<1>4. QED
  BY <1>2, <1>3 DEF CurrentSince

StaleInv == StampsAreHonest /\ BoundedStaleness

\* What a state says of its copies and calls is still so when only time and writes
\* have moved on.
LEMMA StillHonest ==
  ASSUME TypeOK, StaleInv, [Next]_vars
  PROVE  /\ \A r \in Replicas :
              cached[r] # NoCopy /\ cachedAt[r] # 0 =>
                cached[r] \in Versions' /\ (cached[r] < Current' => written'[cached[r] + 1] >= cachedAt[r])
         /\ \A c \in Calls :
              pc[c] = "install" =>
                got[c] \in Versions' /\ (got[c] < Current' => written'[got[c] + 1] >= entry[c])
         /\ \A c \in Calls :
              pc[c] = "returned" =>
                got[c] \in Versions'
                /\ (got[c] < Current' => written'[got[c] + 1] >= entry[c] - CacheSeconds + 1)
<1>1. /\ cached \in [Replicas -> Nat] /\ cachedAt \in [Replicas -> Nat]
      /\ entry \in [Calls -> Nat] /\ got \in [Calls -> Nat]
      /\ CacheSeconds \in Nat \ {0} /\ now \in Nat
      /\ \A r \in Replicas : cachedAt[r] <= now
      /\ \A c \in Calls : entry[c] <= now
  BY ConfigAssumption DEF TypeOK
<1>2. \A v \in Nat : \A t \in Int : t <= now /\ CurrentSince(v, t) =>
        v \in Versions' /\ (v < Current' => written'[v + 1] >= t)
  BY StillCurrentSince DEF CurrentSince
<1>3. ASSUME NEW r \in Replicas, cached[r] # NoCopy, cachedAt[r] # 0
      PROVE  cached[r] \in Versions' /\ (cached[r] < Current' => written'[cached[r] + 1] >= cachedAt[r])
  <2>1. CurrentSince(cached[r], cachedAt[r])
    BY <1>3 DEF StaleInv, StampsAreHonest
  <2>2. QED
    BY <1>1, <1>2, <2>1
<1>4. ASSUME NEW c \in Calls, pc[c] = "install"
      PROVE  got[c] \in Versions' /\ (got[c] < Current' => written'[got[c] + 1] >= entry[c])
  <2>1. CurrentSince(got[c], entry[c])
    BY <1>4 DEF StaleInv, StampsAreHonest
  <2>2. QED
    BY <1>1, <1>2, <2>1
<1>5. ASSUME NEW c \in Calls, pc[c] = "returned"
      PROVE  got[c] \in Versions'
             /\ (got[c] < Current' => written'[got[c] + 1] >= entry[c] - CacheSeconds + 1)
  <2>1. CurrentSince(got[c], entry[c] - CacheSeconds + 1)
    BY <1>5 DEF StaleInv, BoundedStaleness
  <2>2. entry[c] - CacheSeconds + 1 \in Int /\ entry[c] - CacheSeconds + 1 <= now
    BY <1>1
  <2>3. QED
    BY <1>1, <1>2, <2>1, <2>2
<1>6. QED
  BY <1>3, <1>4, <1>5

\* Every step keeps copies honest and answers fresh.
LEMMA StaleStep == TypeOK /\ TypeOK' /\ StaleInv /\ [Next]_vars => StaleInv'
<1> SUFFICES ASSUME TypeOK, TypeOK', StaleInv, [Next]_vars PROVE StaleInv'
  OBVIOUS
<1> DEFINE Since(v, t) == v \in Versions' /\ (v < Current' => written'[v + 1] >= t)
<1>1. /\ cached \in [Replicas -> Nat] /\ cachedAt \in [Replicas -> Nat]
      /\ pc \in [Calls -> {"new", "fetch", "install", "written", "returned", "lost"}]
      /\ at \in [Calls -> Replicas]
      /\ entry \in [Calls -> Nat] /\ got \in [Calls -> Nat]
      /\ CacheSeconds \in Nat \ {0} /\ now \in Nat
  BY ConfigAssumption DEF TypeOK
<1>2. /\ \A r \in Replicas : cached[r] # NoCopy /\ cachedAt[r] # 0 => Since(cached[r], cachedAt[r])
      /\ \A c \in Calls : pc[c] = "install" => Since(got[c], entry[c])
      /\ \A c \in Calls : pc[c] = "returned" => Since(got[c], entry[c] - CacheSeconds + 1)
  BY StillHonest
<1> DEFINE Goal ==
      /\ \A r \in Replicas : cached'[r] # NoCopy /\ cachedAt'[r] # 0 => Since(cached'[r], cachedAt'[r])
      /\ \A c \in Calls : pc'[c] = "install" => Since(got'[c], entry'[c])
      /\ \A c \in Calls : pc'[c] = "returned" => Since(got'[c], entry'[c] - CacheSeconds + 1)
<1>3. SUFFICES Goal
  BY DEF StaleInv, StampsAreHonest, BoundedStaleness, CurrentSince, Versions, Current
<1>4. ASSUME NEW v \in Nat, NEW t \in Int, NEW s \in Int, s <= t, Since(v, t) PROVE Since(v, s)
  <2>1. CASE v < Current'
    <3>1. written'[v + 1] >= t /\ v + 1 \in Versions' /\ written' \in Seq(Nat)
      BY <1>4, <2>1, Writing DEF Versions
    <3>2. written'[v + 1] \in Nat
      BY <3>1 DEF Versions, Current
    <3>3. QED
      BY <1>4, <3>1, <3>2
  <2>2. QED
    BY <1>4, <2>1
<1>5. ASSUME NEW c \in Calls, Fetch(c) PROVE Goal
  <2>1. Current \in Nat \ {0} /\ Current' = Current
    BY <1>5, Writing DEF Fetch, Current
  <2>2. \A t \in Int : Since(Current, t)
    BY <2>1 DEF Versions
  <2> HIDE DEF Since
  <2>3. QED
    BY <1>1, <1>2, <1>5, <2>1, <2>2 DEF Fetch, Goto
<1>6. ASSUME NEW c \in Calls, GetCached(c) PROVE Goal
  <2>1. /\ cached[at[c]] # NoCopy /\ now - cachedAt[at[c]] < CacheSeconds
        /\ at[c] \in Replicas
    BY <1>1, <1>6 DEF GetCached, InUse
  <2>2. cachedAt[at[c]] # 0
    <3>1. CacheSeconds <= now
      BY ConfigAssumption DEF TypeOK
    <3>2. QED
      BY <1>1, <2>1, <3>1
  <2>3. Since(cached[at[c]], cachedAt[at[c]])
    BY <1>2, <2>1, <2>2
  <2>4. Since(cached[at[c]], now - CacheSeconds + 1)
    <3>1. /\ cached[at[c]] \in Nat /\ cachedAt[at[c]] \in Int
          /\ now - CacheSeconds + 1 \in Int /\ now - CacheSeconds + 1 <= cachedAt[at[c]]
      BY <1>1, <2>1
    <3> HIDE DEF Since
    <3>2. QED
      BY <1>4, <2>3, <3>1
  <2> HIDE DEF Since
  <2>5. QED
    BY <1>1, <1>2, <1>6, <2>4 DEF GetCached, Goto
<1>7. ASSUME NEW c \in Calls, Install(c) PROVE Goal
  <2>1. pc[c] = "install" /\ Since(got[c], entry[c])
    BY <1>2, <1>7 DEF Install
  <2>2. Since(got[c], entry[c] - CacheSeconds + 1)
    <3>1. got[c] \in Nat /\ entry[c] \in Int /\ entry[c] - CacheSeconds + 1 \in Int
          /\ entry[c] - CacheSeconds + 1 <= entry[c]
      BY <1>1
    <3> HIDE DEF Since
    <3>2. QED
      BY <1>4, <2>1, <3>1
  <2> HIDE DEF Since
  <2>3. QED
    BY <1>1, <1>2, <1>7, <2>1, <2>2 DEF Install, Goto
<1> HIDE DEF Since
<1>8. ASSUME NEW c \in Calls, GetStored(c) \/ Write(c) PROVE Goal
  BY <1>1, <1>2, <1>8 DEF GetStored, Write, Goto
<1>9. ASSUME NEW c \in Calls, Reread(c) PROVE Goal
  BY <1>1, <1>2, <1>9 DEF Reread, Goto
<1>10. ASSUME NEW c \in Calls, Abandon(c) PROVE Goal
  BY <1>1, <1>2, <1>10 DEF Abandon, Lose
<1>11. ASSUME NEW r \in Replicas, Restart(r) PROVE Goal
  BY <1>1, <1>2, <1>11 DEF Restart, Lose, NoCopy
<1>12. ASSUME Tick PROVE Goal
  BY <1>2, <1>12 DEF Tick
<1>13. ASSUME UNCHANGED vars PROVE Goal
  BY <1>2, <1>13 DEF vars
<1>14. QED
  BY <1>5, <1>6, <1>7, <1>8, <1>9, <1>10, <1>11, <1>12, <1>13
  DEF Next, Get, Change, NothingToStore, Invalidate

\* No get answers with a configuration that was replaced cache_seconds or more before
\* it was called, however refreshes and updates of all replicas interleave.
THEOREM BoundedStalenessCorrect == Spec => []BoundedStaleness
<1>1. Init => StaleInv
  BY DEF Init, StaleInv, StampsAreHonest, BoundedStaleness, NoCopy
<1>2. StaleInv => BoundedStaleness
  BY DEF StaleInv
<1>3. QED
  BY <1>1, <1>2, StaleStep, TypeCorrect, PTL DEF Spec

-----------------------------------------------------------------------------
(* An update's answer *)

\* An update that has written goes through the hash, not through the copy.
SeesInv ==
  /\ \A c \in Calls : pc[c] = "new" => own[c] = 0
  /\ \A c \in Calls : pc[c] = "install" => got[c] >= own[c]
  /\ UpdateSeesItself

\* SeesInv is inductive.
LEMMA SeesStep == TypeOK /\ SeesInv /\ [Next]_vars => SeesInv'
<1> SUFFICES ASSUME TypeOK, SeesInv, [Next]_vars PROVE SeesInv'
  OBVIOUS
<1> USE DEF SeesInv, UpdateSeesItself, Goto
<1>1. /\ cached \in [Replicas -> Nat] /\ at \in [Calls -> Replicas]
      /\ pc \in [Calls -> {"new", "fetch", "install", "written", "returned", "lost"}]
      /\ got \in [Calls -> Nat] /\ own \in [Calls -> Nat]
      /\ Current \in Nat /\ \A c \in Calls : own[c] <= Current
  BY DEF TypeOK, Current
<1>2. ASSUME NEW c \in Calls, GetCached(c) \/ GetStored(c) PROVE SeesInv'
  BY <1>1, <1>2 DEF GetCached, GetStored
<1>3. ASSUME NEW c \in Calls, Fetch(c) \/ Install(c) PROVE SeesInv'
  BY <1>1, <1>3 DEF Fetch, Install
<1>4. ASSUME NEW c \in Calls, Write(c) \/ Reread(c) PROVE SeesInv'
  BY <1>1, <1>4 DEF Write, Reread
<1>5. ASSUME NEW c \in Calls, Abandon(c) PROVE SeesInv'
  BY <1>1, <1>5 DEF Abandon, Lose
<1>6. ASSUME NEW r \in Replicas, Restart(r) PROVE SeesInv'
  BY <1>1, <1>6 DEF Restart, Lose
<1>7. CASE Tick \/ UNCHANGED vars
  BY <1>7 DEF Tick, vars
<1>8. QED
  BY <1>2, <1>3, <1>4, <1>5, <1>6, <1>7 DEF Next, Get, Change, NothingToStore, Invalidate

\* An update or reset answers with its own effect or a later one.
THEOREM UpdateSeesItselfCorrect == Spec => []UpdateSeesItself
<1>1. Init => SeesInv
  BY DEF Init, SeesInv, UpdateSeesItself
<1>2. SeesInv => UpdateSeesItself
  BY DEF SeesInv
<1>3. QED
  BY <1>1, <1>2, SeesStep, TypeCorrect, PTL DEF Spec

=============================================================================
