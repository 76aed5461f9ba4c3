------------------------- MODULE RateLimiterProofs -------------------------
(***************************************************************************)
(* Proofs about RateLimiter, for any set of requests, configurations and   *)
(* number of concurrent checks.                                            *)
(***************************************************************************)
EXTENDS RateLimiter, FiniteSetTheorems, TLAPS

\* Every set of requests the limiter looks at is finite.
LEMMA RequestSets ==
  ASSUME NEW S \in SUBSET Requests
  PROVE  IsFiniteSet(S) /\ Cardinality(S) \in Nat
  BY RequestsAssumption, FS_Subset, FS_CardinalityType

\* A subset has no more members.
LEMMA FewerRequests ==
  ASSUME NEW S \in SUBSET Requests, NEW T \in SUBSET S
  PROVE  Cardinality(T) <= Cardinality(S)
  BY RequestSets, FS_Subset

\* One more request is one more member at most.
LEMMA OneMoreRequest ==
  ASSUME NEW S \in SUBSET Requests, NEW r \in Requests
  PROVE  Cardinality(S \union {r}) <= Cardinality(S) + 1
<1>1. Cardinality(S \union {r}) = IF r \in S THEN Cardinality(S) ELSE Cardinality(S) + 1
  BY RequestSets, FS_AddElement
<1>2. QED
  BY <1>1, RequestSets

\* One request gone is one member less.
LEMMA OneLessRequest ==
  ASSUME NEW S \in SUBSET Requests, NEW r \in S
  PROVE  Cardinality(S \ {r}) = Cardinality(S) - 1
  BY RequestSets, FS_RemoveElement

\* ZRANGE 0 0 finds the smallest score of a set that is not empty.
LEMMA LeastScore ==
  ASSUME NEW T, T \subseteq Nat, T # {}
  PROVE  Min(T) \in T /\ \A t \in T : Min(T) <= t
<1>1. \E x \in T : \A y \in T : ~ (<<y, x>> \in OpToRel(<, Nat))
  BY NatLessThanWellFounded, WFMin
<1>2. \E x \in T : \A y \in T : x <= y
  <2>1. PICK x \in T : \A y \in T : ~ (<<y, x>> \in OpToRel(<, Nat))
    BY <1>1
  <2>2. ASSUME NEW y \in T PROVE x <= y
    <3>1. <<y, x>> \notin {ss \in Nat \X Nat : ss[1] < ss[2]}
      BY <2>1 DEF OpToRel
    <3>2. QED
      BY <3>1
  <2>3. QED
    BY <2>2
<1>3. QED
  BY <1>2 DEF Min

\* retry_after is cut off at zero.
LEMMA NotNegative ==
  ASSUME NEW n \in Int
  PROVE  Max({0, n}) \in Nat /\ Max({0, n}) >= n
<1>1. \E x \in {0, n} : \A y \in {0, n} : x >= y
  OBVIOUS
<1>2. Max({0, n}) \in {0, n} /\ \A y \in {0, n} : Max({0, n}) >= y
  BY <1>1 DEF Max
<1>3. QED
  BY <1>2

\* What a request's limiter is built with is in the range that is configured.
LEMMA ConfInRange ==
  ASSUME TypeOK, NEW r \in Requests
  PROVE  /\ conf[r].limit \in 0..Limit
         /\ conf[r].window \in Window..LongWindow
         /\ conf[r].window \in Nat
<1>1. conf[r] \in [limit : 0..Limit, window : Window..LongWindow]
  BY ConfigsAssumption DEF TypeOK
<1>2. QED
  BY <1>1, LimiterAssumption

-----------------------------------------------------------------------------
(* Type correctness *)

\* The scores in the sorted set are natural numbers.
LEMMA ScoresAreNatural ==
  ASSUME TypeOK
  PROVE  {stamp[q] : q \in zset} \subseteq Nat
  BY LimiterAssumption DEF TypeOK, Admitted

\* retry_after is a natural number, also when the set was emptied in between.
LEMMA RetryTyped ==
  ASSUME TypeOK, NEW r \in Requests, Reject(r)
  PROVE  retry' \in [Requests -> Nat]
<1>1. CASE zset = {}
  BY <1>1, ConfInRange DEF Reject, TypeOK
<1>2. CASE zset # {}
  <2>1. OldestStamp \in Nat
    BY <1>2, ScoresAreNatural, LeastScore DEF OldestStamp
  <2>2. conf[r].window - (stamp[r] - OldestStamp) \in Int
    BY <2>1, ConfInRange, LimiterAssumption DEF TypeOK
  <2>3. Max({0, conf[r].window - (stamp[r] - OldestStamp)}) \in Nat
    BY <2>2, NotNegative
  <2>4. QED
    BY <1>2, <2>3 DEF Reject, TypeOK
<1>3. QED
  BY <1>1, <1>2

\* Every step keeps the types.
LEMMA TypeStep == TypeOK /\ [Next]_vars => TypeOK'
<1> SUFFICES ASSUME TypeOK, [Next]_vars PROVE TypeOK'
  OBVIOUS
<1> USE LimiterAssumption
<1>1. ASSUME NEW r \in Requests, Check(r) PROVE TypeOK'
  <2>1. CASE Enter(r)
    BY <2>1 DEF Enter, TypeOK, Admitted
  <2>2. CASE TrimAndCount(r)
    <3>1. zset' \subseteq zset /\ (zset' = {} <=> expires' = 0)
      BY <2>2 DEF TrimAndCount, TypeOK
    <3>2. expires' \in 0 .. MaxTime + LongWindow
      BY <2>2 DEF TrimAndCount, TypeOK
    <3>3. zset' \subseteq Admitted'
      BY <2>2, <3>1 DEF TrimAndCount, TypeOK, Admitted
    <3>4. QED
      BY <2>2, <3>1, <3>2, <3>3 DEF TrimAndCount, TypeOK
  <2>3. CASE Add(r)
    <3>1. zset' \subseteq Admitted' /\ zset' # {}
      BY <2>3 DEF Add, TypeOK, Admitted
    <3>2. expires' \in 0 .. MaxTime + LongWindow /\ expires' # 0
      BY <2>3, ConfInRange DEF Add, TypeOK
    <3>3. QED
      BY <2>3, <3>1, <3>2 DEF Add, TypeOK
  <2>4. CASE Reject(r)
    BY <2>4, RetryTyped DEF Reject, TypeOK, Admitted
  <2>5. QED
    BY <1>1, <2>1, <2>2, <2>3, <2>4 DEF Check
<1>2. ASSUME NEW r \in Requests, Abandon(r) PROVE TypeOK'
  BY <1>2 DEF Abandon, InCheck, TypeOK, Admitted
<1>3. CASE Remaining
  BY <1>3 DEF Remaining, TypeOK, Admitted
<1>4. CASE Tick
  BY <1>4 DEF Tick, TypeOK, Admitted
<1>5. CASE UNCHANGED vars
  BY <1>5 DEF vars, TypeOK, Admitted
<1>6. QED
  BY <1>1, <1>2, <1>3, <1>4, <1>5 DEF Next

\* The limiter's state is well formed in every execution: only requests that
\* passed are in the sorted set, and a set in Redis always has an expiry.
THEOREM TypeCorrect == Spec => []TypeOK
<1>1. Init => TypeOK
  BY LimiterAssumption DEF Init, TypeOK, Admitted
<1>2. QED
  BY <1>1, TypeStep, PTL DEF Spec

-----------------------------------------------------------------------------
(* Nobody who still counts is forgotten *)

Remembers == KeyOutlivesMembers /\ RecentAreCounted

\* Remembers is inductive: neither an old trim nor the key's expiry loses a member
\* that is still in the window.
LEMMA RemembersStep == TypeOK /\ TypeOK' /\ Remembers /\ [Next]_vars => Remembers'
<1> SUFFICES ASSUME TypeOK, TypeOK', Remembers, [Next]_vars PROVE Remembers'
  OBVIOUS
<1> USE LimiterAssumption DEF Remembers, KeyOutlivesMembers, RecentAreCounted
<1>1. ASSUME NEW r \in Requests, Check(r) PROVE Remembers'
  <2>1. CASE Enter(r)
    BY <2>1 DEF Enter, TypeOK, Recent, Admitted
  <2>2. CASE TrimAndCount(r)
    <3>1. zset' \subseteq zset /\ Recent' = Recent
      BY <2>2 DEF TrimAndCount, TypeOK, Recent, Admitted
    <3>2. Recent' \subseteq zset'
      BY <2>2, <3>1, ConfInRange DEF TrimAndCount, Outdated, Recent, Admitted, TypeOK
    <3>3. KeyOutlivesMembers'
      BY <2>2, <3>1 DEF TrimAndCount, TypeOK
    <3>4. QED
      BY <3>2, <3>3
  <2>3. CASE Add(r)
    <3>1. Recent' \subseteq Recent \union {r}
      BY <2>3 DEF Add, TypeOK, Recent, Admitted
    <3>2. KeyOutlivesMembers'
      BY <2>3, ConfInRange DEF Add, TypeOK, Admitted
    <3>3. QED
      BY <2>3, <3>1, <3>2 DEF Add
  <2>4. CASE Reject(r)
    BY <2>4 DEF Reject, TypeOK, Recent, Admitted
  <2>5. QED
    BY <1>1, <2>1, <2>2, <2>3, <2>4 DEF Check
<1>2. ASSUME NEW r \in Requests, Abandon(r) PROVE Remembers'
  BY <1>2 DEF Abandon, InCheck, TypeOK, Recent, Admitted
<1>3. CASE Remaining
  <2>1. PICK t \in 0..now, c \in Configs : zset' = zset \ Outdated(t, c.window)
    BY <1>3 DEF Remaining
  <2>2. Recent' = Recent
    BY <1>3 DEF Remaining, Recent, Admitted
  <2>3. Recent' \subseteq zset'
    <3>1. c.window \in Nat /\ Window <= c.window
      BY ConfigsAssumption
    <3>2. QED
      BY <2>1, <2>2, <3>1 DEF Outdated, Recent, Admitted, TypeOK
  <2>4. KeyOutlivesMembers'
    BY <1>3, <2>1 DEF Remaining, TypeOK
  <2>5. QED
    BY <2>3, <2>4
<1>4. CASE Tick
  <2>1. Recent' \subseteq Recent
    BY <1>4 DEF Tick, Recent, Admitted, TypeOK
  <2>2. CASE expires = now + 1
    <3>1. \A q \in Recent : q \notin Recent'
      BY <1>4, <2>2 DEF Tick, Recent, Admitted, TypeOK
    <3>2. QED
      BY <1>4, <2>1, <2>2, <3>1 DEF Tick, TypeOK
  <2>3. CASE expires # now + 1
    BY <1>4, <2>1, <2>3 DEF Tick, TypeOK
  <2>4. QED
    BY <2>2, <2>3
<1>5. CASE UNCHANGED vars
  BY <1>5 DEF vars, Recent, Admitted
<1>6. QED
  BY <1>1, <1>2, <1>3, <1>4, <1>5 DEF Next

\* Trims made with an old clock reading and the key's expiry forget only
\* requests that are out of the window.
THEOREM RecentAreCountedCorrect == Spec => []RecentAreCounted
<1>1. Init => Remembers
  BY LimiterAssumption DEF Init, Remembers, KeyOutlivesMembers, RecentAreCounted, Recent,
                           Admitted
<1>2. Remembers => RecentAreCounted
  BY DEF Remembers
<1>3. QED
  BY <1>1, <1>2, TypeCorrect, RemembersStep, PTL DEF Spec

-----------------------------------------------------------------------------
(* The race is bounded *)

\* The sets that are counted, and the numbers in play.
LEMMA Sets ==
  ASSUME TypeOK
  PROVE  /\ InCheck \subseteq Requests /\ Adding \subseteq InCheck
         /\ Recent \subseteq Requests /\ zset \subseteq Requests
         /\ Cardinality(InCheck) \in Nat /\ Cardinality(Adding) \in Nat
         /\ Cardinality(Recent) \in Nat /\ Cardinality(zset) \in Nat
         /\ Capacity \in Nat
<1>1. /\ InCheck \subseteq Requests /\ Adding \subseteq InCheck
      /\ Recent \subseteq Requests /\ zset \subseteq Requests
  BY DEF TypeOK, InCheck, Adding, Recent, Admitted
<1>2. QED
  BY <1>1, RequestSets, LimiterAssumption DEF Capacity

\* A step that adds nobody to check or to the set keeps the room reserved.
LEMMA NothingAdded ==
  ASSUME TypeOK, TypeOK', RoomIsReserved,
         InCheck' \subseteq InCheck, Adding' \subseteq Adding, zset' \subseteq zset
  PROVE  RoomIsReserved'
<1>1. /\ Cardinality(InCheck') <= Cardinality(InCheck)
      /\ Cardinality(Adding') <= Cardinality(Adding)
      /\ Cardinality(zset') <= Cardinality(zset)
      /\ Cardinality(InCheck') \in Nat
      /\ Cardinality(Adding') \in Nat
      /\ Cardinality(zset') \in Nat
  BY Sets, FewerRequests, RequestSets
<1>2. QED
  BY <1>1, Sets, LimiterAssumption DEF RoomIsReserved, Capacity

\* Entering takes one of the Concurrency places.
LEMMA EnterStep ==
  ASSUME TypeOK, RoomIsReserved, NEW r \in Requests, Enter(r)
  PROVE  RoomIsReserved'
<1>1. InCheck' = InCheck \union {r} /\ Adding' = Adding /\ zset' = zset
  BY DEF Enter, TypeOK, InCheck, Adding
<1>2. Cardinality(InCheck') <= Cardinality(InCheck) + 1 /\ Cardinality(InCheck') \in Nat
  BY <1>1, Sets, OneMoreRequest, RequestSets
<1>3. Cardinality(InCheck) < Concurrency
  BY DEF Enter
<1>4. QED
  BY <1>1, <1>2, <1>3, Sets, LimiterAssumption DEF RoomIsReserved, Capacity

\* A count below Limit leaves room for everybody inside check.
LEMMA TrimStep ==
  ASSUME TypeOK, TypeOK', RoomIsReserved, NEW r \in Requests, TrimAndCount(r)
  PROVE  RoomIsReserved'
<1>1. InCheck' = InCheck /\ zset' \subseteq zset
  BY DEF TrimAndCount, TypeOK, InCheck
<1>2. CASE Cardinality(zset') >= conf[r].limit
  <2>1. Adding' \subseteq Adding
    BY <1>2 DEF TrimAndCount, TypeOK, Adding
  <2>2. QED
    BY <1>1, <2>1, NothingAdded
<1>3. CASE ~ (Cardinality(zset') >= conf[r].limit)
  <2>1. Adding' \subseteq InCheck' /\ zset' \subseteq Requests /\ InCheck' \subseteq Requests
    BY <1>1, Sets DEF TrimAndCount, TypeOK, Adding, InCheck
  <2>2. /\ Cardinality(Adding') <= Concurrency
        /\ Cardinality(Adding') \in Nat
        /\ Cardinality(zset') \in Nat
    <3>1. /\ Cardinality(Adding') <= Cardinality(InCheck')
          /\ Cardinality(Adding') \in Nat
          /\ Cardinality(zset') \in Nat
      BY <2>1, FewerRequests, RequestSets
    <3>2. QED
      BY <1>1, <3>1, Sets, LimiterAssumption DEF RoomIsReserved
  <2>3. QED
    <3>1. Cardinality(zset') < Limit
      BY <1>3, <2>2, ConfInRange, LimiterAssumption
    <3>2. QED
      BY <1>1, <2>2, <3>1, LimiterAssumption DEF RoomIsReserved, Capacity
<1>4. QED
  BY <1>2, <1>3

\* Adding turns a reserved place into a member.
LEMMA AddStep ==
  ASSUME TypeOK, TypeOK', RoomIsReserved, NEW r \in Requests, Add(r)
  PROVE  RoomIsReserved'
<1>1. r \in Adding /\ Adding' = Adding \ {r} /\ InCheck' \subseteq InCheck
  BY DEF Add, TypeOK, InCheck, Adding
<1>2. Cardinality(Adding') = Cardinality(Adding) - 1
  BY <1>1, Sets, OneLessRequest
<1>3. Cardinality(zset') <= Cardinality(zset) + 1 /\ Cardinality(zset') \in Nat
  BY Sets, OneMoreRequest, RequestSets DEF Add
<1>4. Cardinality(InCheck') <= Cardinality(InCheck) /\ Cardinality(InCheck') \in Nat
  BY <1>1, Sets, FewerRequests, RequestSets
<1>5. QED
  BY <1>2, <1>3, <1>4, Sets, LimiterAssumption DEF RoomIsReserved, Capacity

\* RoomIsReserved is inductive: room is found before it is taken.
LEMMA RoomStep == TypeOK /\ TypeOK' /\ RoomIsReserved /\ [Next]_vars => RoomIsReserved'
<1> SUFFICES ASSUME TypeOK, TypeOK', RoomIsReserved, [Next]_vars PROVE RoomIsReserved'
  OBVIOUS
<1>1. ASSUME NEW r \in Requests, Check(r) PROVE RoomIsReserved'
  <2>1. CASE Reject(r)
    BY <2>1, NothingAdded DEF Reject, TypeOK, InCheck, Adding
  <2>2. QED
    BY <1>1, <2>1, EnterStep, TrimStep, AddStep DEF Check
<1>2. ASSUME NEW r \in Requests, Abandon(r) PROVE RoomIsReserved'
  BY <1>2, NothingAdded DEF Abandon, TypeOK, InCheck, Adding
<1>3. CASE Remaining
  BY <1>3, NothingAdded DEF Remaining, InCheck, Adding
<1>4. CASE Tick
  BY <1>4, NothingAdded DEF Tick, TypeOK, InCheck, Adding
<1>5. CASE UNCHANGED vars
  BY <1>5, NothingAdded DEF vars, InCheck, Adding
<1>6. QED
  BY <1>1, <1>2, <1>3, <1>4, <1>5 DEF Next

\* So the set and those on their way into it never exceed the capacity.
LEMMA RoomCorrect == Spec => []RoomIsReserved
<1>1. Init => RoomIsReserved
  <2>1. ASSUME Init PROVE InCheck = {} /\ Adding = {} /\ zset = {}
    BY <2>1 DEF Init, InCheck, Adding
  <2>2. QED
    BY <2>1, FS_EmptySet, LimiterAssumption DEF RoomIsReserved, Capacity
<1>2. QED
  BY <1>1, TypeCorrect, RoomStep, PTL DEF Spec

\* At any moment at most Limit requests of the last window have been admitted,
\* plus one for each other request that can be inside check: with one check at
\* a time, exactly the configured limit.
THEOREM WindowBoundedCorrect == Spec => []WindowBounded
<1>1. TypeOK /\ RoomIsReserved /\ RecentAreCounted => WindowBounded
  <2> SUFFICES ASSUME TypeOK, RoomIsReserved, RecentAreCounted PROVE WindowBounded
    OBVIOUS
  <2>1. Cardinality(Recent) <= Cardinality(zset)
    BY Sets, FewerRequests DEF RecentAreCounted
  <2>2. QED
    BY <2>1, Sets DEF RoomIsReserved, WindowBounded
<1>2. QED
  BY <1>1, TypeCorrect, RoomCorrect, RecentAreCountedCorrect, PTL

\* One check at a time keeps the limit the documentation promises; so every
\* window that holds more has seen two checks overlap.
THEOREM AtMostLimitAlone ==
  ASSUME Concurrency = 1
  PROVE  Spec => []AtMostLimit
<1>1. WindowBounded => AtMostLimit
  BY LimiterAssumption DEF WindowBounded, AtMostLimit, Capacity
<1>2. QED
  BY <1>1, WindowBoundedCorrect, PTL

-----------------------------------------------------------------------------
(* What a rejected client is told *)

\* A client that waits retry_after finds fewer than Capacity of the requests it
\* was turned away for: with one check at a time, fewer than Limit.
THEOREM RetryFindsRoomCorrect == Spec => RetryFindsRoom
<1>1. ASSUME TypeOK, RoomIsReserved, NEW r \in Requests, Reject(r)
      PROVE  Cardinality(InWindowAt(stamp[r] + retry'[r], conf[r].window)) < Capacity
  <2> DEFINE Later == InWindowAt(stamp[r] + retry'[r], conf[r].window)
  <2>1. Later \subseteq zset
    BY DEF InWindowAt
  <2>2. CASE zset = {}
    <3>1. Later = {}
      BY <2>1, <2>2
    <3>2. QED
      BY <3>1, FS_EmptySet, LimiterAssumption DEF Capacity
  <2>3. CASE zset # {}
    <3>1. PICK q \in zset : OldestStamp = stamp[q]
      <4>1. {stamp[p] : p \in zset} # {}
        BY <2>3
      <4>2. OldestStamp \in {stamp[p] : p \in zset}
        BY <1>1, <4>1, ScoresAreNatural, LeastScore DEF OldestStamp
      <4>3. QED
        BY <4>2
    <3>2. retry'[r] = Max({0, conf[r].window - (stamp[r] - stamp[q])})
      BY <1>1, <2>3, <3>1 DEF Reject, TypeOK
    <3>3. stamp[r] \in Nat /\ stamp[q] \in Nat
      BY <1>1, Sets, LimiterAssumption DEF TypeOK
    <3>4. /\ retry'[r] \in Nat
          /\ retry'[r] >= conf[r].window - (stamp[r] - stamp[q])
      BY <1>1, <3>2, <3>3, NotNegative, ConfInRange
    <3>5. q \notin Later
      BY <1>1, <3>3, <3>4, ConfInRange DEF InWindowAt
    <3>6. Cardinality(Later) <= Cardinality(zset \ {q}) /\ Cardinality(Later) \in Nat
      BY <1>1, <2>1, <3>5, Sets, FewerRequests, RequestSets
    <3>7. Cardinality(zset \ {q}) = Cardinality(zset) - 1
      BY <1>1, <3>1, Sets, OneLessRequest
    <3>8. QED
      BY <1>1, <3>6, <3>7, Sets DEF RoomIsReserved
  <2>4. QED
    BY <2>2, <2>3
<1>2. TypeOK /\ RoomIsReserved /\ [Next]_vars =>
        [\A r \in Requests : Reject(r) =>
           Cardinality(InWindowAt(stamp[r] + retry'[r], conf[r].window)) < Capacity]_vars
  BY <1>1
<1>3. QED
  BY <1>2, TypeCorrect, RoomCorrect, PTL DEF Spec, RetryFindsRoom

-----------------------------------------------------------------------------
(* The limiter implements the sliding window *)

\* The promise counts a granted request as often as the limiter does.
LEMMA GrantsAreCounted ==
  ASSUME TypeOK
  PROVE  /\ Cardinality(Promise!Recent) \in Nat
         /\ Cardinality(Promise!Recent) <= Cardinality(Recent)
<1> DEFINE f == [r \in Recent |-> <<r, stamp[r]>>]
<1>1. f \in Surjection(Recent, Promise!Recent)
  <2>1. \A r \in Recent : f[r] \in Promise!Recent
    BY DEF Recent, Promise!Recent, Grants, Admitted
  <2>2. \A g \in Promise!Recent : \E r \in Recent : f[r] = g
    BY DEF Recent, Promise!Recent, Grants, Admitted
  <2>3. QED
    BY <2>1, <2>2 DEF Surjection
<1>2. IsFiniteSet(Recent)
  BY Sets, RequestSets
<1>3. QED
  BY <1>1, <1>2, FS_Surjection, FS_CardinalityType

\* A request passes check only while its window has room.
LEMMA AddGrants ==
  ASSUME TypeOK, RoomIsReserved, RecentAreCounted, NEW r \in Requests, Add(r)
  PROVE  Promise!Grant(r)
<1>1. \A g \in Grants : g[1] # r
  BY DEF Grants, Admitted, Add
<1>2. Cardinality(Promise!Recent) < Capacity
  <2>1. Cardinality(Recent) <= Cardinality(zset)
    BY Sets, FewerRequests DEF RecentAreCounted
  <2>2. Cardinality(Adding) # 0
    <3>1. r \in Adding
      BY DEF Add, Adding
    <3>2. QED
      BY <3>1, Sets, RequestSets, FS_EmptySet
  <2>3. QED
    BY <2>1, <2>2, Sets, GrantsAreCounted DEF RoomIsReserved
<1>3. stamp[r] \in 0..now /\ now' = now
  BY LimiterAssumption DEF TypeOK, Add
<1>4. Grants' = Grants \union {<<r, stamp[r]>>}
  <2>1. Admitted' = Admitted \union {r} /\ stamp' = stamp
    BY DEF Add, Admitted, TypeOK
  <2>2. QED
    BY <2>1 DEF Grants
<1>5. Promise!Cardinality(Promise!Recent) = Cardinality(Promise!Recent)
  BY DEF Promise!Cardinality, Cardinality
<1>6. QED
  BY <1>1, <1>2, <1>3, <1>4, <1>5 DEF Promise!Grant

\* Every step of check is a grant of the promise or changes nothing it sees.
LEMMA StepKeepsPromise ==
  TypeOK /\ RoomIsReserved /\ RecentAreCounted /\ [Next]_vars
    => [Promise!Next]_<<now, Grants>>
<1> SUFFICES ASSUME TypeOK, RoomIsReserved, RecentAreCounted, [Next]_vars
             PROVE  [Promise!Next]_<<now, Grants>>
  OBVIOUS
<1>1. ASSUME NEW r \in Requests, Check(r) PROVE [Promise!Next]_<<now, Grants>>
  <2>1. CASE Enter(r)
    <3>1. Admitted' = Admitted /\ \A q \in Admitted : stamp'[q] = stamp[q]
      BY <2>1 DEF Enter, Admitted, TypeOK
    <3>2. QED
      BY <2>1, <3>1 DEF Enter, Grants
  <2>2. CASE TrimAndCount(r) \/ Reject(r)
    <3>1. Admitted' = Admitted /\ stamp' = stamp /\ now' = now
      BY <2>2 DEF TrimAndCount, Reject, Admitted, TypeOK
    <3>2. QED
      BY <3>1 DEF Grants
  <2>3. CASE Add(r)
    BY <2>3, AddGrants DEF Promise!Next
  <2>4. QED
    BY <1>1, <2>1, <2>2, <2>3 DEF Check
<1>2. ASSUME NEW r \in Requests, Abandon(r) PROVE [Promise!Next]_<<now, Grants>>
  <2>1. Admitted' = Admitted /\ stamp' = stamp /\ now' = now
    BY <1>2 DEF Abandon, InCheck, Admitted, TypeOK
  <2>2. QED
    BY <2>1 DEF Grants
<1>3. CASE Remaining
  BY <1>3 DEF Remaining, Grants, Admitted
<1>4. CASE Tick
  <2>1. Admitted' = Admitted /\ stamp' = stamp /\ now' = now + 1
    BY <1>4 DEF Tick, Admitted
  <2>2. QED
    BY <2>1 DEF Grants, Promise!Next, Promise!Tick
<1>5. CASE UNCHANGED vars
  BY <1>5 DEF vars, Grants, Admitted
<1>6. QED
  BY <1>1, <1>2, <1>3, <1>4, <1>5 DEF Next

\* check implements a sliding window of capacity Limit + Concurrency - 1.
THEOREM Implementation == Spec => ImplementsSlidingWindow
<1>1. Init => Promise!Init
  BY DEF Init, Promise!Init, Grants, Admitted
<1>2. QED
  BY <1>1, TypeCorrect, RoomCorrect, RecentAreCountedCorrect, StepKeepsPromise, PTL
     DEF Spec, ImplementsSlidingWindow, Promise!Spec

=============================================================================
