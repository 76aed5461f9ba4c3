------------------------- MODULE ModelRouterProofs -------------------------
(***************************************************************************)
(* Proofs about ModelRouter and RouterHistory, for any requests, prompts,  *)
(* likeness of prompts, tiers, chains and cache size.                      *)
(***************************************************************************)
EXTENDS RouterHistory, SequenceTheorems, FiniteSetTheorems, TLAPS

CacheKeys == TierNames \X Prompts

\* The key of a request is a tier and a prompt.
LEMMA KeyTyped ==
  ASSUME job \in [Requests -> Jobs], NEW r \in Requests
  PROVE  Key(r) \in CacheKeys /\ job[r].caching \in BOOLEAN
<1>1. job[r] \in [model : Requested, tier : TierNames, prompt : Prompts, caching : BOOLEAN]
  BY DEF Jobs
<1>2. QED
  BY <1>1 DEF Key, CacheKeys

\* LPUSH: the new entry and the old ones.
LEMMA Push ==
  ASSUME NEW s \in Seq(Requests), NEW r \in Requests
  PROVE  /\ <<r>> \o s \in Seq(Requests)
         /\ Len(<<r>> \o s) \in Nat
         /\ Range(<<r>> \o s) \subseteq Range(s) \union {r}
<1>1. /\ <<r>> \in Seq(Requests) /\ Len(<<r>>) = 1 /\ <<r>>[1] = r
      /\ Len(s) \in Nat /\ DOMAIN s = 1 .. Len(s)
  OBVIOUS
<1> DEFINE t == <<r>> \o s
<1>2. /\ t \in Seq(Requests)
      /\ Len(t) = 1 + Len(s)
      /\ DOMAIN t = 1 .. Len(t)
      /\ \A i \in 1 .. Len(t) : t[i] = IF i <= 1 THEN r ELSE s[i - 1]
  BY <1>1, ConcatProperties
<1>3. ASSUME NEW i \in 1 .. Len(t) PROVE t[i] \in Range(s) \union {r}
  <2>1. CASE i <= 1
    BY <1>2, <2>1
  <2>2. CASE i > 1
    <3>1. i - 1 \in DOMAIN s
      BY <1>1, <1>2, <2>2
    <3>2. QED
      BY <1>2, <2>2, <3>1 DEF Range
  <2>3. QED
    BY <1>1, <1>2, <2>1, <2>2
<1>4. QED
  BY <1>1, <1>2, <1>3 DEF Range

\* LTRIM: no more than n entries, all of them old.
LEMMA Trim ==
  ASSUME NEW t \in Seq(Requests), NEW n \in Nat, Len(t) > n, n # 0
  PROVE  /\ SubSeq(t, 1, n) \in Seq(Requests)
         /\ Len(SubSeq(t, 1, n)) = n
         /\ Range(SubSeq(t, 1, n)) \subseteq Range(t)
<1>1. n \in Nat \ {0} /\ Len(t) \in Nat /\ DOMAIN t = 1 .. Len(t)
  OBVIOUS
<1>2. \A i \in 1 .. n : i \in DOMAIN t /\ t[i] \in Requests
  BY <1>1
<1> DEFINE u == SubSeq(t, 1, n)
<1>3. /\ u \in Seq(Requests)
      /\ Len(u) = n
      /\ DOMAIN u = 1 .. n
      /\ \A i \in 1 .. n : u[i] = t[i]
  BY <1>1, <1>2
<1>4. QED
  BY <1>2, <1>3 DEF Range

-----------------------------------------------------------------------------
(* Type correctness *)

\* Everything of TypeOK but the list of semantic entries.
Plain ==
  /\ disabled \subseteq Providers
  /\ exact \in [CacheKeys -> Requests \union {None}]
  /\ books \in [exact : Nat, semantic : Nat, misses : Nat, fallbacks : Nat]
  /\ job \in [Requests -> Jobs]
  /\ pc \in [Requests -> Labels]
  /\ seen \in [Requests -> SUBSET Providers]
  /\ hop \in [Requests -> Nat \ {0}]
  /\ attempts \in [Requests -> Nat]
  /\ served \in [Requests -> Requests \union {None}]
  /\ paid \subseteq Requests
Listed ==
  /\ semantic \in Seq(Requests)
  /\ Len(semantic) <= CacheSize \/ \E s \in Settings : s.entries = 0

\* The two parts make up TypeOK.
LEMMA TypeParts == TypeOK <=> Plain /\ Listed
  BY DEF TypeOK, Plain, Listed, CacheKeys

\* Only KeepSemantic touches the list, and it keeps it short.
LEMMA ListedStep ==
  ASSUME Listed, [Next]_vars
  PROVE  Listed'
<1>1. ASSUME NEW r \in Requests, KeepSemantic(r) PROVE Listed'
  <2> DEFINE pushed == <<r>> \o semantic
  <2>1. PICK s \in Settings : semantic' = IF Len(pushed) > s.entries /\ s.entries # 0
                                         THEN SubSeq(pushed, 1, s.entries) ELSE pushed
    BY <1>1 DEF KeepSemantic
  <2> DEFINE n == s.entries
  <2>2. /\ pushed \in Seq(Requests) /\ Len(pushed) \in Nat /\ CacheSize \in Nat
        /\ n \in Nat /\ n <= CacheSize
    BY Push, RouterAssumption DEF Listed
  <2>3. CASE Len(pushed) > n /\ n # 0
    <3>1. semantic' = SubSeq(pushed, 1, n)
      BY <2>1, <2>3
    <3>2. /\ SubSeq(pushed, 1, n) \in Seq(Requests)
          /\ Len(SubSeq(pushed, 1, n)) = n
      BY <2>2, <2>3, Trim
    <3>3. semantic' \in Seq(Requests) /\ Len(semantic') = n
      BY <3>1, <3>2, Zenon
    <3>4. QED
      BY <2>2, <3>3 DEF Listed
  <2>4. CASE ~ (Len(pushed) > n /\ n # 0)
    <3>1. semantic' = pushed
      BY <2>1, <2>4
    <3>2. CASE n = 0
      BY <2>2, <3>1, <3>2 DEF Listed
    <3>3. CASE n # 0
      BY <2>2, <2>4, <3>1, <3>3 DEF Listed
    <3>4. QED
      BY <3>2, <3>3
  <2>5. QED
    BY <2>3, <2>4
<1>2. CASE UNCHANGED semantic
  BY <1>2 DEF Listed
<1>3. QED
  <2>1. [Next]_vars => UNCHANGED semantic \/ \E r \in Requests : KeepSemantic(r)
    BY DEF Next, Handle, Lookup, Fallback, Finish, Arrive, ReadDisabled, ExactHit, ExactMiss,
           SemanticHit, SemanticMiss, SkipDisabled, CallProvider, ShortCircuit,
           ProviderFails, ProviderAnswers, Exhaust, KeepExact, TallyHit, TallyMiss,
           Abandon, Expire, Disable, Enable, shared, vars
  <2>2. QED
    BY <1>1, <1>2, <2>1

\* What the lookup changes keeps its type.
LEMMA LookupTyped ==
  ASSUME Plain, Listed, NEW r \in Requests, Arrive(r) \/ Lookup(r)
  PROVE  Plain'
<1>1. Key(r) \in CacheKeys /\ job[r].caching \in BOOLEAN
  BY KeyTyped DEF Plain
<1>2. CASE Arrive(r)
  BY <1>1, <1>2 DEF Plain, Arrive, Goto, Labels, shared, history
<1>3. CASE ReadDisabled(r)
  BY <1>3 DEF Plain, ReadDisabled, Goto, Labels, shared, history
<1>4. CASE ExactHit(r)
  BY <1>1, <1>4 DEF Plain, ExactHit, Goto, Labels, shared, history
<1>5. CASE ExactMiss(r)
  BY <1>5 DEF Plain, ExactMiss, Goto, Labels, shared, history
<1>6. CASE SemanticHit(r)
  <2>1. Range(semantic) \subseteq Requests
    BY DEF Listed, Range
  <2>2. \A s \in Settings : Alike(r, s) \subseteq Requests
    BY <2>1 DEF Alike, InReach, Range
  <2>3. QED
    BY <1>6, <2>2 DEF Plain, SemanticHit, Goto, Labels, shared, history
<1>7. CASE SemanticMiss(r)
  BY <1>7 DEF Plain, SemanticMiss, Goto, Labels, shared, history
<1>8. QED
  BY <1>2, <1>3, <1>4, <1>5, <1>6, <1>7 DEF Lookup

\* So does what the walk along the chain changes ...
LEMMA FallbackTyped ==
  ASSUME Plain, NEW r \in Requests, Fallback(r)
  PROVE  Plain'
<1>1. CASE SkipDisabled(r)
  BY <1>1 DEF Plain, SkipDisabled, NextHop, shared, history
<1>2. CASE CallProvider(r)
  BY <1>2 DEF Plain, CallProvider, Goto, Labels, shared, history
<1>3. CASE ShortCircuit(r)
  BY <1>3 DEF Plain, ShortCircuit, NextHop, shared, history
<1>4. CASE ProviderFails(r)
  BY <1>4 DEF Plain, ProviderFails, NextHop, Goto, Labels, shared, history
<1>5. CASE ProviderAnswers(r)
  BY <1>5 DEF Plain, ProviderAnswers, Goto, Labels, shared
<1>6. CASE Exhaust(r)
  BY <1>6 DEF Plain, Exhaust, Goto, Labels, shared, history
<1>7. QED
  BY <1>1, <1>2, <1>3, <1>4, <1>5, <1>6 DEF Fallback

\* ... and what follows an answer.
LEMMA FinishTyped ==
  ASSUME Plain, NEW r \in Requests, Finish(r)
  PROVE  Plain'
<1>1. CASE KeepExact(r)
  <2>1. Key(r) \in CacheKeys
    BY KeyTyped DEF Plain
  <2>2. QED
    BY <1>1, <2>1 DEF Plain, KeepExact, Goto, Labels, history
<1>2. CASE KeepSemantic(r)
  BY <1>2 DEF Plain, KeepSemantic, Goto, Labels, history
<1>3. CASE TallyHit(r)
  BY <1>3 DEF Plain, TallyHit, Goto, Labels, history
<1>4. CASE TallyMiss(r)
  <2>1. /\ books.misses + 1 \in Nat
        /\ (IF attempts[r] > 1 THEN books.fallbacks + 1 ELSE books.fallbacks) \in Nat
    BY DEF Plain
  <2>2. books' \in [exact : Nat, semantic : Nat, misses : Nat, fallbacks : Nat]
    <3> DEFINE m == books.misses + 1
               f == IF attempts[r] > 1 THEN books.fallbacks + 1 ELSE books.fallbacks
    <3>1. books' = [books EXCEPT !.misses = m, !.fallbacks = f]
      BY <1>4 DEF TallyMiss
    <3>2. m \in Nat /\ f \in Nat
      BY <2>1
    <3> HIDE DEF m, f
    <3>3. QED
      BY <3>1, <3>2 DEF Plain
  <2>3. QED
    BY <1>4, <2>2 DEF Plain, TallyMiss, Goto, Labels, history
<1>5. QED
  BY <1>1, <1>2, <1>3, <1>4 DEF Finish

\* Every step keeps the types.
LEMMA TypeStep == TypeOK /\ [Next]_vars => TypeOK'
<1> SUFFICES ASSUME Plain, Listed, [Next]_vars PROVE Plain'
  BY TypeParts, ListedStep, PTL
<1>1. ASSUME NEW r \in Requests, Abandon(r) PROVE Plain'
  BY <1>1 DEF Plain, Abandon, Goto, Labels, shared, history
<1>2. ASSUME NEW key \in CacheKeys, Expire(key) PROVE Plain'
  BY <1>2 DEF Plain, Expire, history
<1>3. ASSUME NEW p \in Providers, Disable(p) PROVE Plain'
  BY <1>3 DEF Plain, Disable, history
<1>4. ASSUME NEW p \in Providers, Enable(p) PROVE Plain'
  BY <1>4 DEF Plain, Enable, history
<1>5. CASE UNCHANGED vars
  BY <1>5 DEF Plain, vars
<1>6. QED
  BY <1>1, <1>2, <1>3, <1>4, <1>5, LookupTyped, FallbackTyped, FinishTyped
  DEF Next, Handle, CacheKeys

\* The state starts well formed.
LEMMA TypeInit == Init => TypeOK
<1>1. Init => Plain
  BY DEF Init, Plain, Labels, CacheKeys
<1>2. Init => Listed
  BY RouterAssumption DEF Init, Listed
<1>3. QED
  BY <1>1, <1>2, TypeParts

\* The state is well formed and the semantic list no longer than CacheSize.
THEOREM TypeCorrect == Spec => []TypeOK
  BY TypeInit, TypeStep, PTL DEF Spec

-----------------------------------------------------------------------------
(* Responses *)

\* A request whose response may be put into the caches.
Kept(q) == q \in paid /\ job[q].caching

CachesOwed ==
  /\ \A key \in CacheKeys : exact[key] # None => Kept(exact[key]) /\ Key(exact[key]) = key
  /\ \A q \in Range(semantic) : Kept(q)

CachingWhereCached ==
  \A r \in Requests :
    /\ pc[r] \in {"exact", "semantic"} => job[r].caching
    /\ pc[r] \in {"keepExact", "keepSemantic"} => Kept(r)

OwedInv == CachesOwed /\ CachingWhereCached /\ ResponsesAreOwed

\* What a request asks for never changes, and no answer is unpaid again.
LEMMA Monotone ==
  ASSUME [Next]_vars
  PROVE  job' = job /\ paid \subseteq paid'
  BY DEF Next, Handle, Lookup, Fallback, Finish, Arrive, ReadDisabled, ExactHit, ExactMiss,
         SemanticHit, SemanticMiss, SkipDisabled, CallProvider, ShortCircuit,
         ProviderFails, ProviderAnswers, Exhaust, KeepExact, KeepSemantic, TallyHit, TallyMiss,
         Abandon, Expire, Disable, Enable, shared, history, vars

\* Only KeepExact and KeepSemantic add to the caches, and what they add is kept.
LEMMA CachesStep ==
  ASSUME TypeOK, OwedInv, [Next]_vars
  PROVE  CachesOwed'
<1>1. job' = job /\ paid \subseteq paid'
  BY Monotone
<1>2. ASSUME NEW r \in Requests, KeepExact(r) PROVE CachesOwed'
  <2>1. Kept(r)
    BY <1>2 DEF OwedInv, CachingWhereCached, KeepExact
  <2>2. exact' = [exact EXCEPT ![Key(r)] = r] /\ semantic' = semantic
    BY <1>2 DEF KeepExact
  <2>3. exact \in [CacheKeys -> Requests \union {None}]
    BY DEF TypeOK, CacheKeys
  <2>4. QED
    BY <1>1, <2>1, <2>2, <2>3 DEF OwedInv, CachesOwed, Kept, Key
<1>3. ASSUME NEW r \in Requests, KeepSemantic(r) PROVE CachesOwed'
  <2>1. Kept(r) /\ exact' = exact
    BY <1>3 DEF OwedInv, CachingWhereCached, KeepSemantic
  <2> DEFINE pushed == <<r>> \o semantic
  <2>2. /\ pushed \in Seq(Requests)
        /\ Range(pushed) \subseteq Range(semantic) \union {r}
    BY Push DEF TypeOK
  <2>3. PICK s \in Settings :
          \/ semantic' = pushed
          \/ /\ s.entries # 0 /\ Len(pushed) > s.entries
             /\ semantic' = SubSeq(pushed, 1, s.entries)
    BY <1>3 DEF KeepSemantic
  <2>4. Range(semantic') \subseteq Range(pushed)
    <3>1. CASE semantic' = pushed
      BY <3>1
    <3>2. CASE /\ s.entries # 0 /\ Len(pushed) > s.entries
               /\ semantic' = SubSeq(pushed, 1, s.entries)
      <4>1. s.entries \in Nat
        BY RouterAssumption
      <4>2. Range(SubSeq(pushed, 1, s.entries)) \subseteq Range(pushed)
        BY <2>2, <3>2, <4>1, Trim
      <4>3. QED
        BY <3>2, <4>2, Zenon
    <3>3. QED
      BY <2>3, <3>1, <3>2
  <2>5. QED
    BY <1>1, <2>1, <2>2, <2>4 DEF OwedInv, CachesOwed, Kept, Key
<1>4. ASSUME NEW key \in CacheKeys, Expire(key) PROVE CachesOwed'
  <2>1. /\ exact' = [exact EXCEPT ![key] = None] /\ semantic' = semantic
        /\ exact \in [CacheKeys -> Requests \union {None}]
    BY <1>4 DEF Expire, TypeOK, CacheKeys
  <2>2. QED
    BY <1>1, <2>1 DEF OwedInv, CachesOwed, Kept, Key
<1>5. CASE UNCHANGED <<exact, semantic>>
  BY <1>1, <1>5 DEF OwedInv, CachesOwed, Kept, Key
<1>6. QED
  <2>1. \/ UNCHANGED <<exact, semantic>>
        \/ \E r \in Requests : KeepExact(r) \/ KeepSemantic(r)
        \/ \E key \in CacheKeys : Expire(key)
    BY DEF Next, Handle, Lookup, Fallback, Finish, Arrive, ReadDisabled, ExactHit, ExactMiss,
           SemanticHit, SemanticMiss, SkipDisabled, CallProvider, ShortCircuit,
           ProviderFails, ProviderAnswers, Exhaust, TallyHit, TallyMiss,
           Abandon, Disable, Enable, shared, vars, CacheKeys
  <2>2. QED
    BY <1>2, <1>3, <1>4, <1>5, <2>1

\* Only requests that use the caches come to them.
LEMMA CachingStep ==
  ASSUME TypeOK, OwedInv, [Next]_vars
  PROVE  CachingWhereCached'
<1>1. job' = job /\ paid \subseteq paid'
  BY Monotone
<1>2. pc \in [Requests -> Labels]
  BY DEF TypeOK
<1>3. ASSUME NEW r \in Requests, Arrive(r) \/ Lookup(r) PROVE CachingWhereCached'
  BY <1>1, <1>2, <1>3
  DEF OwedInv, CachingWhereCached, Kept, Goto, Lookup, Arrive, ReadDisabled, ExactHit, ExactMiss,
      SemanticHit, SemanticMiss
<1>4. ASSUME NEW r \in Requests, Fallback(r) PROVE CachingWhereCached'
  BY <1>1, <1>2, <1>4
  DEF OwedInv, CachingWhereCached, Kept, Goto, Fallback, SkipDisabled, CallProvider, ShortCircuit,
      ProviderFails, ProviderAnswers, Exhaust
<1>5. ASSUME NEW r \in Requests, Finish(r) \/ Abandon(r) PROVE CachingWhereCached'
  BY <1>1, <1>2, <1>5
  DEF OwedInv, CachingWhereCached, Kept, Goto, Finish, KeepExact, KeepSemantic, TallyHit,
      TallyMiss, Abandon
<1>6. CASE UNCHANGED pc
  BY <1>1, <1>6 DEF OwedInv, CachingWhereCached, Kept
<1>7. QED
  BY <1>3, <1>4, <1>5, <1>6 DEF Next, Handle, Expire, Disable, Enable, vars

\* A response comes from a cache that owes it, or from the request's own call.
LEMMA ResponsesStep ==
  ASSUME TypeOK, OwedInv, [Next]_vars
  PROVE  ResponsesAreOwed'
<1>1. job' = job /\ paid \subseteq paid'
  BY Monotone
<1>2. \A o, r \in Requests : Owed(o, r) => Owed(o, r)'
  BY <1>1 DEF Owed, MayShare
<1>3. /\ served \in [Requests -> Requests \union {None}] /\ None \notin Requests
      /\ exact \in [CacheKeys -> Requests \union {None}]
      /\ Range(semantic) \subseteq Requests
  BY RouterAssumption DEF TypeOK, CacheKeys, Range
<1>4. ASSUME NEW r \in Requests, NEW o \in Requests, Owed(o, r)',
             served' = [served EXCEPT ![r] = o]
      PROVE  ResponsesAreOwed'
  BY <1>2, <1>3, <1>4 DEF OwedInv, ResponsesAreOwed
<1>5. ASSUME NEW r \in Requests, ExactHit(r) PROVE ResponsesAreOwed'
  <2>1. Key(r) \in CacheKeys
    BY KeyTyped DEF TypeOK
  <2>2. exact[Key(r)] \in Requests /\ served' = [served EXCEPT ![r] = exact[Key(r)]]
    BY <1>3, <1>5, <2>1 DEF ExactHit
  <2>3. /\ Kept(exact[Key(r)]) /\ Key(exact[Key(r)]) = Key(r)
        /\ job[r].caching
    BY <1>5, <2>1 DEF OwedInv, CachesOwed, CachingWhereCached, ExactHit
  <2>4. Owed(exact[Key(r)], r)
    BY <2>3 DEF Owed, MayShare, Kept, Key
  <2>5. QED
    <3>1. PICK o \in Requests : o = exact[Key(r)]
      BY <2>2
    <3>2. Owed(o, r)'
      BY <1>2, <2>4, <3>1
    <3>3. QED
      BY <1>4, <2>2, <3>1, <3>2
<1>6. ASSUME NEW r \in Requests, SemanticHit(r) PROVE ResponsesAreOwed'
  <2>1. PICK s \in Settings : \E q \in Alike(r, s) : served' = [served EXCEPT ![r] = q]
    BY <1>6 DEF SemanticHit
  <2> PICK q \in Alike(r, s) : served' = [served EXCEPT ![r] = q]
    BY <2>1
  <2>2. q \in Range(semantic) /\ q \in Requests
    BY <1>3 DEF Alike, InReach, Range
  <2>3. Kept(q) /\ job[r].caching
    BY <1>6, <2>2 DEF OwedInv, CachesOwed, CachingWhereCached, SemanticHit
  <2>4. Owed(q, r)
    <3>1. s.similar \subseteq Similar
      BY RouterAssumption
    <3>2. QED
      BY <2>3, <3>1 DEF Owed, MayShare, Kept, Alike
  <2>5. QED
    BY <1>2, <1>4, <2>1, <2>2, <2>4
<1>7. ASSUME NEW r \in Requests, ProviderAnswers(r) PROVE ResponsesAreOwed'
  <2>1. served' = [served EXCEPT ![r] = r] /\ Owed(r, r)'
    BY <1>7 DEF ProviderAnswers, Owed
  <2>2. QED
    BY <1>4, <2>1
<1>8. CASE UNCHANGED served
  BY <1>2, <1>3, <1>8 DEF OwedInv, ResponsesAreOwed
<1>9. QED
  <2>1. \/ UNCHANGED served
        \/ \E r \in Requests : ExactHit(r) \/ SemanticHit(r) \/ ProviderAnswers(r)
    BY DEF Next, Handle, Lookup, Fallback, Finish, Arrive, ReadDisabled, ExactMiss,
           SemanticMiss, SkipDisabled, CallProvider, ShortCircuit,
           ProviderFails, Exhaust, KeepExact, KeepSemantic, TallyHit, TallyMiss,
           Abandon, Expire, Disable, Enable, vars
  <2>2. QED
    BY <1>5, <1>6, <1>7, <1>8, <2>1

\* OwedInv holds at the start.
LEMMA OwedInit == Init => OwedInv
<1>1. ASSUME Init PROVE /\ \A key \in CacheKeys : exact[key] = None
                        /\ Range(semantic) = {}
                        /\ \A r \in Requests : pc[r] = "new" /\ served[r] = None
  BY <1>1 DEF Init, CacheKeys, Range
<1>2. QED
  BY <1>1 DEF OwedInv, CachesOwed, CachingWhereCached, ResponsesAreOwed

\* No request is answered with a response of another tier, of an unlike prompt or
\* of a request with use_cache false, for any number of requests at a time.
THEOREM ResponsesAreOwedCorrect == Spec => []ResponsesAreOwed
<1>1. TypeOK /\ OwedInv /\ [Next]_vars => OwedInv'
  BY CachesStep, CachingStep, ResponsesStep DEF OwedInv
<1>2. Spec => []OwedInv
  BY <1>1, OwedInit, TypeCorrect, PTL DEF Spec
<1>3. QED
  BY <1>2, PTL DEF OwedInv

-----------------------------------------------------------------------------
(* What has been true of a request since it came in *)

\* The history variables restrict nothing.
LEMMA HistoryIsSpec == HistorySpec => Spec
<1>1. HistoryInit => Init
  BY DEF HistoryInit
<1>2. [HistoryNext]_withHistory => [Next]_vars
  BY DEF HistoryNext, withHistory
<1>3. QED
  BY <1>1, <1>2, PTL DEF HistorySpec, Spec

\* ... and have their types.
THEOREM HistoryTypeCorrect == HistorySpec => []HistoryTypeOK
<1> DEFINE Typed == /\ quiet \in [Requests -> SUBSET Providers]
                    /\ warm \in [Requests -> BOOLEAN]
<1>1. HistoryInit => Typed
  BY DEF HistoryInit
<1>2. ASSUME TypeOK, TypeOK', Typed, [HistoryNext]_withHistory PROVE Typed'
  <2>1. CASE UNCHANGED withHistory
    BY <1>2, <2>1 DEF withHistory
  <2>2. CASE HistoryNext
    <3>1. disabled' \subseteq Providers
      BY <1>2 DEF TypeOK
    <3>2. job \in [Requests -> Jobs]
      BY <1>2 DEF TypeOK
    <3>3. \A r \in Requests : job[r].caching \in BOOLEAN
      BY <3>2, KeyTyped
    <3>4. quiet' \in [Requests -> SUBSET Providers]
      BY <1>2, <2>2, <3>1 DEF HistoryNext, Remember
    <3>5. warm' \in [Requests -> BOOLEAN]
      BY <1>2, <2>2, <3>3 DEF HistoryNext, Remember
    <3>6. QED
      BY <3>4, <3>5
  <2>3. QED
    BY <1>2, <2>1, <2>2
<1>3. QED
  BY <1>1, <1>2, HistoryIsSpec, TypeCorrect, PTL DEF HistorySpec, HistoryTypeOK

\* Until it has read the set, what a request remembers as disabled is disabled;
\* from then on to the end of the chain, it has seen it so.
QuietSeen ==
  \A r \in Requests :
    /\ pc[r] \in {"new", "arrived"} => quiet[r] \subseteq disabled
    /\ pc[r] \in {"exact", "semantic", "hop", "calling"} => quiet[r] \subseteq seen[r]

\* What Remember makes of one request.
LEMMA Remembered ==
  ASSUME Remember, NEW r \in Requests
  PROVE  /\ quiet'[r] \subseteq disabled'
         /\ pc[r] # "new" => quiet'[r] \subseteq quiet[r]
         /\ pc[r] # "new" /\ warm'[r] => warm[r]
         /\ warm'[r] => exact'[Key(r)] # None
         /\ pc[r] = "new" /\ warm'[r] => job[r].caching
  BY DEF Remember

\* A step takes a request from before its reading of the set to after it only by
\* that reading, and what it has seen stays.
LEMMA SeenStep ==
  ASSUME TypeOK, Next, NEW r \in Requests
  PROVE  /\ pc[r] = "new" => pc'[r] \in {"new", "arrived"}
         /\ pc[r] = "arrived" => \/ pc'[r] \in {"arrived", "lost"}
                                 \/ seen'[r] = disabled
         /\ pc[r] \notin {"new", "arrived"} => /\ pc'[r] \notin {"new", "arrived"}
                                               /\ seen'[r] = seen[r]
         /\ pc'[r] \in {"exact", "semantic", "hop", "calling"} =>
              pc[r] \in {"arrived", "exact", "semantic", "hop", "calling"}
<1>1. pc \in [Requests -> Labels] /\ seen \in [Requests -> SUBSET Providers]
  BY DEF TypeOK
<1> DEFINE Goal == /\ pc[r] = "new" => pc'[r] \in {"new", "arrived"}
                   /\ pc[r] = "arrived" => \/ pc'[r] \in {"arrived", "lost"}
                                           \/ seen'[r] = disabled
                   /\ pc[r] \notin {"new", "arrived"} => /\ pc'[r] \notin {"new", "arrived"}
                                                         /\ seen'[r] = seen[r]
                   /\ pc'[r] \in {"exact", "semantic", "hop", "calling"} =>
                        pc[r] \in {"arrived", "exact", "semantic", "hop", "calling"}
<1>2. ASSUME NEW s \in Requests, Arrive(s) \/ Lookup(s) PROVE Goal
  BY <1>1, <1>2
  DEF Goto, Lookup, Arrive, ReadDisabled, ExactHit, ExactMiss, SemanticHit, SemanticMiss, shared
<1>3. ASSUME NEW s \in Requests, Fallback(s) PROVE Goal
  BY <1>1, <1>3
  DEF Goto, Fallback, AtHop, SkipDisabled, CallProvider, ShortCircuit, ProviderFails,
      ProviderAnswers, Exhaust, shared
<1>4. ASSUME NEW s \in Requests, Finish(s) \/ Abandon(s) PROVE Goal
  BY <1>1, <1>4
  DEF Goto, Finish, KeepExact, KeepSemantic, TallyHit, TallyMiss, Abandon, Ended, shared
<1>5. CASE UNCHANGED <<pc, seen>>
  BY <1>5
<1>6. QED
  BY <1>2, <1>3, <1>4, <1>5 DEF Next, Handle, Expire, Disable, Enable

\* QuietSeen is inductive.
LEMMA QuietStep ==
  ASSUME TypeOK, QuietSeen, [HistoryNext]_withHistory
  PROVE  QuietSeen'
<1>1. CASE UNCHANGED withHistory
  BY <1>1 DEF QuietSeen, withHistory, vars
<1>2. CASE HistoryNext
  <2> SUFFICES ASSUME NEW r \in Requests
               PROVE  /\ pc'[r] \in {"new", "arrived"} => quiet'[r] \subseteq disabled'
                      /\ pc'[r] \in {"exact", "semantic", "hop", "calling"} =>
                           quiet'[r] \subseteq seen'[r]
    BY DEF QuietSeen
  <2>1. Next /\ Remember
    BY <1>2 DEF HistoryNext
  <2>2. /\ quiet'[r] \subseteq disabled'
        /\ pc[r] # "new" => quiet'[r] \subseteq quiet[r]
    BY <2>1, Remembered
  <2>3. /\ pc[r] = "arrived" => quiet[r] \subseteq disabled
        /\ pc[r] \in {"exact", "semantic", "hop", "calling"} => quiet[r] \subseteq seen[r]
    BY DEF QuietSeen
  <2>4. QED
    BY <2>1, <2>2, <2>3, SeenStep
<1>3. QED
  BY <1>1, <1>2

\* No request is followed by a call of a provider that has been disabled since
\* before it came in.
THEOREM DisabledIsQuietCorrect == HistorySpec => DisabledIsQuiet
<1>1. HistoryInit => QuietSeen
  BY DEF HistoryInit, Init, QuietSeen
<1>2. TypeOK /\ QuietSeen /\ [HistoryNext]_withHistory => QuietSeen'
  BY QuietStep
<1>3. TypeOK /\ QuietSeen /\ [HistoryNext]_withHistory =>
        [\A r \in Requests :
           CallProvider(r) => Route(r)[hop[r]].provider \notin quiet[r]]_withHistory
  BY DEF QuietSeen, CallProvider, AtHop, Skips
<1>4. QED
  BY <1>1, <1>2, <1>3, HistoryIsSpec, TypeCorrect, PTL DEF HistorySpec, DisabledIsQuiet

\* As long as the entry of a request lasts, the request goes nowhere but to it.
WarmPath ==
  \A r \in Requests :
    /\ pc[r] \in {"new", "arrived", "exact"} => r \notin paid
    /\ warm[r] => /\ exact[Key(r)] # None
                  /\ job[r].caching
                  /\ pc[r] \in {"new", "arrived", "exact", "tallyExact", "done", "lost"}
                  /\ r \notin paid

\* Where a step takes a request of which the entry is there.
LEMMA WarmWay ==
  ASSUME TypeOK, Next, NEW r \in Requests
  PROVE  /\ pc'[r] \in {"new", "arrived", "exact"} => pc[r] \in {"new", "arrived", "exact"}
         /\ pc[r] \in {"new", "arrived", "exact", "tallyExact", "done", "lost"} /\ r \notin paid
              => r \notin paid'
         /\ pc[r] = "new" => pc'[r] \in {"new", "arrived"}
         /\ pc[r] \in {"arrived", "exact", "tallyExact", "done", "lost"}
              /\ job[r].caching /\ exact[Key(r)] # None
              => pc'[r] \in {"arrived", "exact", "tallyExact", "done", "lost"}
<1>1. pc \in [Requests -> Labels] /\ None \notin Requests
  BY RouterAssumption DEF TypeOK
<1> DEFINE Goal == /\ pc'[r] \in {"new", "arrived", "exact"} => pc[r] \in {"new", "arrived", "exact"}
                   /\ pc[r] \in {"new", "arrived", "exact", "tallyExact", "done", "lost"}
                        /\ r \notin paid => r \notin paid'
                   /\ pc[r] = "new" => pc'[r] \in {"new", "arrived"}
                   /\ pc[r] \in {"arrived", "exact", "tallyExact", "done", "lost"}
                        /\ job[r].caching /\ exact[Key(r)] # None
                        => pc'[r] \in {"arrived", "exact", "tallyExact", "done", "lost"}
<1>2. ASSUME NEW s \in Requests, Arrive(s) \/ Lookup(s) PROVE Goal
  BY <1>1, <1>2
  DEF Goto, Lookup, Arrive, ReadDisabled, ExactHit, ExactMiss, SemanticHit, SemanticMiss, history
<1>3. ASSUME NEW s \in Requests, Fallback(s) PROVE Goal
  BY <1>1, <1>3
  DEF Goto, Fallback, AtHop, SkipDisabled, CallProvider, ShortCircuit, ProviderFails,
      ProviderAnswers, Exhaust, history
<1>4. ASSUME NEW s \in Requests, Finish(s) \/ Abandon(s) PROVE Goal
  BY <1>1, <1>4
  DEF Goto, Finish, KeepExact, KeepSemantic, TallyHit, TallyMiss, Abandon, Ended, history
<1>5. CASE UNCHANGED <<pc, paid>>
  BY <1>5
<1>6. QED
  BY <1>2, <1>3, <1>4, <1>5 DEF Next, Handle, Expire, Disable, Enable, history

\* WarmPath is inductive.
LEMMA WarmStep ==
  ASSUME TypeOK, WarmPath, [HistoryNext]_withHistory
  PROVE  WarmPath'
<1>1. CASE UNCHANGED withHistory
  BY <1>1 DEF WarmPath, Key, withHistory, vars
<1>2. CASE HistoryNext
  <2>1. Next /\ Remember
    BY <1>2 DEF HistoryNext
  <2>2. job' = job
    BY <2>1, Monotone
  <2> SUFFICES ASSUME NEW r \in Requests
               PROVE  /\ pc'[r] \in {"new", "arrived", "exact"} => r \notin paid'
                      /\ warm'[r] =>
                           /\ exact'[Key(r)] # None
                           /\ job[r].caching
                           /\ pc'[r] \in {"new", "arrived", "exact", "tallyExact", "done", "lost"}
                           /\ r \notin paid'
    BY <2>2 DEF WarmPath, Key
  <2>3. /\ pc[r] # "new" /\ warm'[r] => warm[r]
        /\ warm'[r] => exact'[Key(r)] # None
        /\ pc[r] = "new" /\ warm'[r] => job[r].caching
    BY <2>1, Remembered
  <2>4. /\ pc[r] \in {"new", "arrived", "exact"} => r \notin paid
        /\ warm[r] => /\ exact[Key(r)] # None
                      /\ job[r].caching
                      /\ pc[r] \in {"new", "arrived", "exact", "tallyExact", "done", "lost"}
                      /\ r \notin paid
    BY DEF WarmPath
  <2>5. QED
    BY <2>1, <2>3, <2>4, WarmWay
<1>3. QED
  BY <1>1, <1>2

\* A request that finds its exact entry on arrival costs no provider call unless
\* the entry expires before the lookup.
THEOREM WarmRequestsAreFreeCorrect == HistorySpec => []WarmRequestsAreFree
<1>1. HistoryInit => WarmPath
  BY DEF HistoryInit, Init, WarmPath
<1>2. TypeOK /\ WarmPath /\ [HistoryNext]_withHistory => WarmPath'
  BY WarmStep
<1>3. WarmPath => WarmRequestsAreFree
  BY DEF WarmPath, WarmRequestsAreFree
<1>4. QED
  BY <1>1, <1>2, <1>3, HistoryIsSpec, TypeCorrect, PTL DEF HistorySpec

-----------------------------------------------------------------------------
(* Attempts and books *)

\* Who has been paid for is on its way to the books, booked, or lost; and who is
\* on the way of the paid has been.
PaidPath ==
  \A r \in Requests :
    /\ r \in paid => pc[r] \in {"keepExact", "keepSemantic", "tallyMiss", "done", "lost"}
    /\ pc[r] \in {"keepExact", "keepSemantic", "tallyMiss"} => r \in paid

\* PaidPath is inductive.
LEMMA PaidStep ==
  ASSUME TypeOK, PaidPath, [Next]_vars
  PROVE  PaidPath'
<1>1. pc \in [Requests -> Labels]
  BY DEF TypeOK
<1>2. ASSUME NEW r \in Requests, Arrive(r) \/ Lookup(r) PROVE PaidPath'
  BY <1>1, <1>2
  DEF PaidPath, Goto, Lookup, Arrive, ReadDisabled, ExactHit, ExactMiss, SemanticHit,
      SemanticMiss, history
<1>3. ASSUME NEW r \in Requests, Fallback(r) PROVE PaidPath'
  BY <1>1, <1>3
  DEF PaidPath, Goto, Fallback, AtHop, SkipDisabled, CallProvider, ShortCircuit, ProviderFails,
      ProviderAnswers, Exhaust, history
<1>4. ASSUME NEW r \in Requests, Finish(r) \/ Abandon(r) PROVE PaidPath'
  BY <1>1, <1>4
  DEF PaidPath, Goto, Finish, KeepExact, KeepSemantic, TallyHit, TallyMiss, Abandon, Ended, history
<1>5. CASE UNCHANGED <<pc, paid>>
  BY <1>5 DEF PaidPath
<1>6. QED
  BY <1>2, <1>3, <1>4, <1>5 DEF Next, Handle, Expire, Disable, Enable, history, vars

\* The hops tried before the next one: one more, unless it is skipped.
LEMMA TriedNext ==
  ASSUME TypeOK, NEW r \in Requests, NEW n \in Nat
  PROVE  /\ Len(Route(r)) \in Nat
         /\ Cardinality(TriedBefore(r, 0)) = 0
         /\ Cardinality(TriedBefore(r, n)) \in Nat
         /\ Cardinality(TriedBefore(r, n + 1)) =
              IF n + 1 <= Len(Route(r)) /\ Route(r)[n + 1].provider \notin seen[r]
                THEN Cardinality(TriedBefore(r, n)) + 1 ELSE Cardinality(TriedBefore(r, n))
         /\ n >= Len(Route(r)) => TriedBefore(r, n) = TriedBefore(r, Len(Route(r)))
<1>1. Len(Route(r)) \in Nat
  <2>1. job[r].tier \in TierNames
    BY DEF TypeOK, Jobs
  <2>2. QED
    BY <2>1, RouterAssumption DEF Route
<1>2. TriedBefore(r, 0) = {}
  BY DEF TriedBefore
<1>3. IsFiniteSet(TriedBefore(r, n)) /\ n + 1 \notin TriedBefore(r, n)
  <2>1. TriedBefore(r, n) \in SUBSET (1 .. n) /\ n + 1 \notin 1 .. n
    BY DEF TriedBefore
  <2>2. IsFiniteSet(1 .. n)
    BY FS_Interval
  <2>3. QED
    BY <2>1, <2>2, FS_Subset
<1>4. TriedBefore(r, n + 1) =
        IF n + 1 <= Len(Route(r)) /\ Route(r)[n + 1].provider \notin seen[r]
          THEN TriedBefore(r, n) \union {n + 1} ELSE TriedBefore(r, n)
  BY DEF TriedBefore
<1>5. n >= Len(Route(r)) => TriedBefore(r, n) = TriedBefore(r, Len(Route(r)))
  BY <1>1 DEF TriedBefore
<1>6. Cardinality(TriedBefore(r, n) \union {n + 1}) = Cardinality(TriedBefore(r, n)) + 1
  BY <1>3, FS_AddElement
<1>7. QED
  BY <1>1, <1>2, <1>3, <1>4, <1>5, <1>6, FS_EmptySet, FS_CardinalityType

\* What is counted at each place: nothing before the chain, the hops before the
\* present one in front of it, that one too from its call on.
Counted(r) ==
  /\ pc[r] \in {"new", "arrived", "exact", "semantic"} => attempts[r] = 0 /\ hop[r] = 1
  /\ pc[r] = "hop" => attempts[r] = Cardinality(TriedBefore(r, hop[r] - 1))
  /\ pc[r] = "calling" \/ r \in paid => attempts[r] = Cardinality(TriedBefore(r, hop[r]))
  /\ pc[r] = "exhausted" => attempts[r] = Cardinality(TriedBefore(r, Len(Route(r))))

HopsCounted == \A r \in Requests : Counted(r)

\* A step is about r alone.
OnlyMoves(r) ==
  \A q \in Requests \ {r} :
    /\ pc'[q] = pc[q] /\ hop'[q] = hop[q] /\ attempts'[q] = attempts[q] /\ seen'[q] = seen[q]
    /\ q \in paid' => q \in paid

\* A step moves one request at most, and the rest keep their counts.
LEMMA CountedElsewhere ==
  ASSUME TypeOK, [Next]_vars, NEW q \in Requests, Counted(q),
         pc'[q] = pc[q], attempts'[q] = attempts[q], hop'[q] = hop[q], seen'[q] = seen[q],
         q \in paid' => q \in paid
  PROVE  Counted(q)'
<1>1. job' = job
  BY Monotone
<1>2. Route(q)' = Route(q)
  BY <1>1 DEF Route
<1>3. \A n : TriedBefore(q, n)' = TriedBefore(q, n)
  BY <1>2 DEF TriedBefore
<1>4. QED
  BY <1>2, <1>3 DEF Counted

\* HopsCounted is inductive.
LEMMA HopsStep ==
  ASSUME TypeOK, PaidPath, HopsCounted, [Next]_vars
  PROVE  HopsCounted'
<1>1. /\ pc \in [Requests -> Labels] /\ seen \in [Requests -> SUBSET Providers]
      /\ hop \in [Requests -> Nat \ {0}] /\ attempts \in [Requests -> Nat]
      /\ job' = job
  BY Monotone DEF TypeOK
<1>2. ASSUME NEW r \in Requests, Counted(r)', OnlyMoves(r) PROVE HopsCounted'
  <2>1. ASSUME NEW q \in Requests, q # r PROVE Counted(q)'
    BY <1>2, <2>1, CountedElsewhere DEF HopsCounted, OnlyMoves
  <2>2. QED
    BY <1>2, <2>1 DEF HopsCounted
<1>3. ASSUME UNCHANGED <<pc, hop, attempts, seen, paid>> PROVE HopsCounted'
  BY <1>3, CountedElsewhere DEF HopsCounted
<1>4. ASSUME NEW r \in Requests PROVE Route(r)' = Route(r) /\ hop[r] \in Nat \ {0}
                                      /\ attempts[r] \in Nat /\ Counted(r)
  BY <1>1 DEF Route, HopsCounted
<1>5. ASSUME NEW r \in Requests, ReadDisabled(r) PROVE HopsCounted'
  <2>1. /\ pc[r] = "arrived" /\ r \notin paid' /\ hop' = hop /\ attempts' = attempts /\ paid' = paid
        /\ \E l \in {"exact", "hop"} : pc' = [pc EXCEPT ![r] = l]
        /\ seen' = [seen EXCEPT ![r] = disabled]
    BY <1>5 DEF ReadDisabled, Goto, PaidPath, history
  <2>2. attempts'[r] = 0 /\ hop'[r] = 1 /\ hop'[r] - 1 = 0
    BY <1>4, <2>1 DEF Counted
  <2>3. Cardinality(TriedBefore(r, hop[r] - 1)') = 0
    <3>1. TriedBefore(r, 0)' = {}
      BY DEF TriedBefore
    <3>2. QED
      BY <1>4, <2>1, <2>2, <3>1, FS_EmptySet
  <2>4. Counted(r)'
    BY <1>1, <2>1, <2>2, <2>3 DEF Counted
  <2>5. OnlyMoves(r)
    BY <1>1, <2>1 DEF OnlyMoves
  <2>6. QED
    BY <1>2, <2>4, <2>5
<1>6. ASSUME NEW r \in Requests, Arrive(r) \/ ExactHit(r) \/ ExactMiss(r) \/ SemanticHit(r) \/ SemanticMiss(r)
      PROVE  HopsCounted'
  <2>1. /\ pc[r] \in {"new", "exact", "semantic"} /\ r \notin paid' /\ paid' = paid
        /\ UNCHANGED <<hop, attempts, seen>>
        /\ \E l \in {"arrived", "tallyExact", "semantic", "tallySemantic", "hop"} :
             pc' = [pc EXCEPT ![r] = l]
    BY <1>6 DEF Arrive, ExactHit, ExactMiss, SemanticHit, SemanticMiss, Goto, PaidPath, history
  <2>2. attempts'[r] = 0 /\ hop'[r] = 1 /\ hop'[r] - 1 = 0
    BY <1>4, <2>1 DEF Counted
  <2>3. Cardinality(TriedBefore(r, hop[r] - 1)') = 0
    <3>1. TriedBefore(r, 0)' = {}
      BY DEF TriedBefore
    <3>2. QED
      BY <1>4, <2>1, <2>2, <3>1, FS_EmptySet
  <2>4. Counted(r)'
    BY <1>1, <2>1, <2>2, <2>3 DEF Counted
  <2>5. OnlyMoves(r)
    BY <1>1, <2>1 DEF OnlyMoves
  <2>6. QED
    BY <1>2, <2>4, <2>5
<1>7. ASSUME NEW r \in Requests, SkipDisabled(r) \/ ShortCircuit(r) \/ CallProvider(r)
      PROVE  HopsCounted'
  <2>1. /\ pc[r] = "hop" /\ r \notin paid' /\ UNCHANGED <<seen, paid>> /\ hop[r] <= Len(Route(r))
        /\ attempts[r] = Cardinality(TriedBefore(r, hop[r] - 1))
        /\ hop[r] \in Nat \ {0}
    BY <1>4, <1>7 DEF SkipDisabled, ShortCircuit, CallProvider, AtHop, PaidPath, Counted, history
  <2>2. /\ hop[r] - 1 \in Nat /\ hop[r] - 1 + 1 = hop[r]
        /\ Cardinality(TriedBefore(r, hop[r])) =
             IF Route(r)[hop[r]].provider \notin seen[r] THEN attempts[r] + 1 ELSE attempts[r]
    <3>1. hop[r] - 1 \in Nat /\ hop[r] - 1 + 1 = hop[r]
      BY <2>1
    <3>2. QED
      BY <2>1, <3>1, TriedNext
  <2>3. \A n : TriedBefore(r, n)' = TriedBefore(r, n)
    BY <1>4, <2>1 DEF TriedBefore
  <2>4. CASE SkipDisabled(r) \/ ShortCircuit(r)
    <3>1. /\ pc' = pc /\ hop' = [hop EXCEPT ![r] = hop[r] + 1]
          /\ attempts' = [attempts EXCEPT ![r] = Cardinality(TriedBefore(r, hop[r]))]
      BY <1>1, <2>2, <2>4 DEF SkipDisabled, ShortCircuit, NextHop, Skips
    <3>2. pc'[r] = "hop" /\ hop'[r] - 1 = hop[r] /\ attempts'[r] = Cardinality(TriedBefore(r, hop[r]))
      BY <1>1, <2>1, <3>1
    <3>3. Counted(r)'
      BY <2>1, <2>3, <3>2 DEF Counted
    <3>4. OnlyMoves(r)
      BY <1>1, <2>1, <3>1 DEF OnlyMoves
    <3>5. QED
      BY <1>2, <3>3, <3>4
  <2>5. CASE CallProvider(r)
    <3>1. /\ pc' = [pc EXCEPT ![r] = "calling"] /\ hop' = hop
          /\ attempts' = [attempts EXCEPT ![r] = Cardinality(TriedBefore(r, hop[r]))]
      BY <1>1, <2>2, <2>5 DEF CallProvider, Goto, Skips
    <3>2. pc'[r] = "calling" /\ hop'[r] = hop[r] /\ attempts'[r] = Cardinality(TriedBefore(r, hop[r]))
      BY <1>1, <3>1
    <3>3. Counted(r)'
      BY <2>1, <2>3, <3>2 DEF Counted
    <3>4. OnlyMoves(r)
      BY <1>1, <2>1, <3>1 DEF OnlyMoves
    <3>5. QED
      BY <1>2, <3>3, <3>4
  <2>6. QED
    BY <1>7, <2>4, <2>5
<1>8. ASSUME NEW r \in Requests, ProviderFails(r) \/ ProviderAnswers(r) PROVE HopsCounted'
  <2>1. /\ pc[r] = "calling" /\ UNCHANGED <<seen, attempts>> /\ paid' \subseteq paid \union {r}
        /\ attempts[r] = Cardinality(TriedBefore(r, hop[r]))
    BY <1>4, <1>8 DEF ProviderFails, ProviderAnswers, Counted, history
  <2>2. \A n : TriedBefore(r, n)' = TriedBefore(r, n)
    BY <1>4, <2>1 DEF TriedBefore
  <2>3. CASE ProviderFails(r)
    <3>1. /\ pc' = [pc EXCEPT ![r] = "hop"] /\ hop' = [hop EXCEPT ![r] = hop[r] + 1]
          /\ r \notin paid'
      BY <2>1, <2>3 DEF ProviderFails, Goto, NextHop, PaidPath, history
    <3>2. pc'[r] = "hop" /\ hop'[r] - 1 = hop[r]
      BY <1>1, <3>1
    <3>3. Counted(r)'
      BY <2>1, <2>2, <3>1, <3>2 DEF Counted
    <3>4. OnlyMoves(r)
      BY <1>1, <2>1, <3>1 DEF OnlyMoves
    <3>5. QED
      BY <1>2, <3>3, <3>4
  <2>4. CASE ProviderAnswers(r)
    <3>1. hop' = hop /\ \E l \in {"keepExact", "tallyMiss"} : pc' = [pc EXCEPT ![r] = l]
      BY <2>4 DEF ProviderAnswers, Goto
    <3>2. Counted(r)'
      BY <1>1, <2>1, <2>2, <3>1 DEF Counted
    <3>3. OnlyMoves(r)
      BY <1>1, <2>1, <3>1 DEF OnlyMoves
    <3>4. QED
      BY <1>2, <3>2, <3>3
  <2>5. QED
    BY <1>8, <2>3, <2>4
<1>9. ASSUME NEW r \in Requests, Exhaust(r) PROVE HopsCounted'
  <2>1. /\ pc[r] = "hop" /\ pc' = [pc EXCEPT ![r] = "exhausted"] /\ r \notin paid'
        /\ UNCHANGED <<hop, attempts, seen, paid>> /\ hop[r] > Len(Route(r))
        /\ attempts[r] = Cardinality(TriedBefore(r, hop[r] - 1))
    BY <1>4, <1>9 DEF Exhaust, Goto, PaidPath, Counted, history
  <2>2. TriedBefore(r, hop[r] - 1) = TriedBefore(r, Len(Route(r)))
    <3>1. Len(Route(r)) \in Nat
      BY TriedNext
    <3>2. hop[r] - 1 \in Nat /\ hop[r] - 1 >= Len(Route(r))
      BY <1>4, <2>1, <3>1
    <3>3. QED
      BY <3>2, TriedNext
  <2>3. TriedBefore(r, Len(Route(r)))' = TriedBefore(r, Len(Route(r)))
    BY <1>4, <2>1 DEF TriedBefore
  <2>4. Counted(r)'
    BY <1>1, <1>4, <2>1, <2>2, <2>3 DEF Counted
  <2>5. OnlyMoves(r)
    BY <1>1, <2>1 DEF OnlyMoves
  <2>6. QED
    BY <1>2, <2>4, <2>5
<1>10. ASSUME NEW r \in Requests, Finish(r) \/ Abandon(r) PROVE HopsCounted'
  <2>1. /\ UNCHANGED <<hop, attempts, seen, paid>>
        /\ \E l \in {"keepSemantic", "tallyMiss", "done", "lost"} : pc' = [pc EXCEPT ![r] = l]
    BY <1>10 DEF Finish, KeepExact, KeepSemantic, TallyHit, TallyMiss, Abandon, Goto, shared, history
  <2>2. \A n : TriedBefore(r, n)' = TriedBefore(r, n)
    BY <1>4, <2>1 DEF TriedBefore
  <2>3. Counted(r)'
    BY <1>1, <1>4, <2>1, <2>2 DEF Counted
  <2>4. OnlyMoves(r)
    BY <1>1, <2>1 DEF OnlyMoves
  <2>5. QED
    BY <1>2, <2>3, <2>4
<1>11. QED
  BY <1>3, <1>5, <1>6, <1>7, <1>8, <1>9, <1>10
  DEF Next, Handle, Lookup, Fallback, Expire, Disable, Enable, history, vars

\* So the hops are counted in every execution.
LEMMA HopsAreCounted == Spec => [](TypeOK /\ HopsCounted)
<1>1. Init => PaidPath /\ HopsCounted
  BY DEF Init, PaidPath, HopsCounted, Counted
<1>2. TypeOK /\ PaidPath /\ HopsCounted /\ [Next]_vars => (PaidPath /\ HopsCounted)'
  BY PaidStep, HopsStep
<1>3. QED
  BY <1>1, <1>2, TypeCorrect, PTL DEF Spec

\* A 503 has tried every hop that was not disabled, and an answer every such hop
\* up to its own: fallback_used tells the truth (router.py:166-204).
THEOREM NoHopForgottenCorrect == Spec => []NoHopForgotten
<1>1. HopsCounted => NoHopForgotten
  BY DEF HopsCounted, Counted, NoHopForgotten
<1>2. QED
  BY <1>1, HopsAreCounted, PTL

\* No attempt jumps over a hop: the n-th attempt of a request, be it a call or a short
\* circuit, is made at the n-th hop of its chain that was not disabled when it came in.
\* The first one is at the first such hop, and a later hop is tried only after an attempt
\* at each such hop before it. So a request that names a model gets it first where it
\* heads what is left of its chain and its circuit lets the call through; where it does
\* not head the chain, ForcedModelIsCalled fails (router.py:152-172).
THEOREM AttemptsKeepOrder ==
  Spec => [][\A r \in Requests : CallProvider(r) \/ ShortCircuit(r) =>
               attempts'[r] = Cardinality(TriedBefore(r, hop[r]))]_vars
<1>1. ASSUME TypeOK, HopsCounted, NEW r \in Requests, CallProvider(r) \/ ShortCircuit(r)
      PROVE  attempts'[r] = Cardinality(TriedBefore(r, hop[r]))
  <2>1. /\ hop[r] - 1 \in Nat /\ (hop[r] - 1) + 1 = hop[r]
        /\ attempts \in [Requests -> Nat]
    BY <1>1 DEF TypeOK
  <2>2. /\ attempts[r] = Cardinality(TriedBefore(r, hop[r] - 1))
        /\ attempts'[r] = attempts[r] + 1
        /\ hop[r] <= Len(Route(r)) /\ Route(r)[hop[r]].provider \notin seen[r]
    BY <1>1, <2>1 DEF CallProvider, ShortCircuit, AtHop, Skips, HopsCounted, Counted
  <2>3. Cardinality(TriedBefore(r, (hop[r] - 1) + 1)) = Cardinality(TriedBefore(r, hop[r] - 1)) + 1
    BY <1>1, <2>1, <2>2, TriedNext
  <2>4. QED
    BY <2>1, <2>2, <2>3
<1>2. TypeOK /\ HopsCounted =>
        [\A r \in Requests : CallProvider(r) \/ ShortCircuit(r) =>
           attempts'[r] = Cardinality(TriedBefore(r, hop[r]))]_vars
  BY <1>1
<1>3. QED
  BY <1>2, HopsAreCounted, PTL DEF Spec

-----------------------------------------------------------------------------
(* Books *)

Done == {r \in Requests : pc[r] = "done"}

\* The books and the requests they were made from.
Balanced(n, ended) ==
  /\ n.misses = Cardinality(ended \intersect paid)
  /\ n.exact + n.semantic = Cardinality(ended \ paid)
  /\ n.fallbacks = Cardinality({r \in ended \intersect paid : attempts[r] > 1})

\* The books are written in the step that ends a request, and nobody is paid
\* for, or tries another hop, after its end.
LEMMA BooksStep ==
  ASSUME TypeOK, PaidPath, BooksBalance, [Next]_vars
  PROVE  BooksBalance'
<1>1. /\ pc \in [Requests -> Labels] /\ attempts \in [Requests -> Nat]
      /\ books \in [exact : Nat, semantic : Nat, misses : Nat, fallbacks : Nat]
  BY DEF TypeOK
<1>2. Done \in SUBSET Requests /\ Balanced(books, Done)
  BY DEF BooksBalance, Balanced, Done
<1>3. BooksBalance' <=> Balanced(books, Done)'
  BY DEF BooksBalance, Balanced, Done
<1> DEFINE misses == Done \intersect paid
           hits == Done \ paid
           far == {r \in Done \intersect paid : attempts[r] > 1}
<1>4. /\ IsFiniteSet(misses) /\ IsFiniteSet(hits) /\ IsFiniteSet(far)
      /\ Cardinality(misses) \in Nat /\ Cardinality(hits) \in Nat /\ Cardinality(far) \in Nat
  <2>1. misses \in SUBSET Requests /\ hits \in SUBSET Requests /\ far \in SUBSET Requests
    BY <1>2
  <2>2. QED
    BY <2>1, FS_Subset, FS_CardinalityType, RouterAssumption
<1>5. ASSUME NEW r \in Requests, TallyMiss(r) PROVE BooksBalance'
  <2>1. /\ r \in paid /\ r \notin Done /\ Done' = Done \union {r} /\ UNCHANGED <<paid, attempts>>
        /\ books' = [books EXCEPT !.misses = books.misses + 1,
                       !.fallbacks = IF attempts[r] > 1 THEN books.fallbacks + 1 ELSE books.fallbacks]
    BY <1>1, <1>5 DEF TallyMiss, Goto, PaidPath, Done, history
  <2>2. misses' = misses \union {r} /\ hits' = hits
        /\ far' = IF attempts[r] > 1 THEN far \union {r} ELSE far
    BY <2>1
  <2>3. /\ Cardinality(misses') = Cardinality(misses) + 1
        /\ Cardinality(hits') = Cardinality(hits)
        /\ Cardinality(far') = IF attempts[r] > 1 THEN Cardinality(far) + 1 ELSE Cardinality(far)
    <3>1. r \notin misses /\ r \notin far
      BY <2>1
    <3>2. /\ Cardinality(misses \union {r}) = Cardinality(misses) + 1
          /\ Cardinality(far \union {r}) = Cardinality(far) + 1
      BY <1>4, <3>1, FS_AddElement
    <3>3. QED
      BY <2>2, <3>2
  <2>4. /\ books'.misses = books.misses + 1
        /\ books'.exact = books.exact /\ books'.semantic = books.semantic
        /\ books'.fallbacks = IF attempts[r] > 1 THEN books.fallbacks + 1 ELSE books.fallbacks
    BY <1>1, <2>1
  <2>5. Balanced(books, Done)'
    BY <1>2, <2>3, <2>4 DEF Balanced
  <2>6. QED
    BY <1>3, <2>5
<1>6. ASSUME NEW r \in Requests, TallyHit(r) PROVE BooksBalance'
  <2>1. /\ r \notin paid /\ r \notin Done /\ Done' = Done \union {r} /\ UNCHANGED <<paid, attempts>>
        /\ \/ books' = [books EXCEPT !.exact = books.exact + 1]
           \/ books' = [books EXCEPT !.semantic = books.semantic + 1]
    BY <1>1, <1>6 DEF TallyHit, Goto, PaidPath, Done, history
  <2>2. misses' = misses /\ hits' = hits \union {r} /\ far' = far
    BY <2>1
  <2>3. Cardinality(hits') = Cardinality(hits) + 1
    BY <1>4, <2>1, <2>2, FS_AddElement
  <2>4. /\ books'.misses = books.misses /\ books'.fallbacks = books.fallbacks
        /\ books'.exact + books'.semantic = books.exact + books.semantic + 1
    BY <1>1, <2>1
  <2>5. Balanced(books, Done)'
    BY <1>2, <2>2, <2>3, <2>4 DEF Balanced
  <2>6. QED
    BY <1>3, <2>5
<1>7. ASSUME books' = books, Done' = Done, paid' \intersect Done = paid \intersect Done,
             \A r \in Done : attempts'[r] = attempts[r]
      PROVE  BooksBalance'
  <2>1. misses' = misses /\ hits' = hits /\ far' = far
    BY <1>7
  <2>2. Balanced(books, Done)'
    BY <1>2, <1>7, <2>1 DEF Balanced
  <2>3. QED
    BY <1>3, <2>2
<1>8. ASSUME NEW r \in Requests, Arrive(r) \/ Lookup(r) \/ KeepExact(r) \/ KeepSemantic(r) \/ Abandon(r)
      PROVE  BooksBalance'
  <2>1. UNCHANGED <<books, attempts, paid>> /\ Done' = Done
    BY <1>1, <1>8
    DEF Goto, Lookup, Arrive, ReadDisabled, ExactHit, ExactMiss, SemanticHit, SemanticMiss,
        KeepExact, KeepSemantic, Abandon, Ended, Done, shared, history
  <2>2. QED
    BY <1>7, <2>1
<1>9. ASSUME NEW r \in Requests, Fallback(r) PROVE BooksBalance'
  <2>1. /\ books' = books /\ Done' = Done /\ r \notin Done /\ paid' \subseteq paid \union {r}
        /\ paid \subseteq paid'
    BY <1>1, <1>9
    DEF Goto, Fallback, AtHop, SkipDisabled, CallProvider, ShortCircuit, ProviderFails,
        ProviderAnswers, Exhaust, Done, shared, history
  <2>2. \A q \in Requests \ {r} : attempts'[q] = attempts[q]
    BY <1>1, <1>9
    DEF Fallback, SkipDisabled, CallProvider, ShortCircuit, ProviderFails, ProviderAnswers, Exhaust
  <2>3. QED
    BY <1>2, <1>7, <2>1, <2>2
<1>10. CASE UNCHANGED <<books, pc, attempts, paid>>
  BY <1>7, <1>10 DEF Done
<1>11. QED
  BY <1>5, <1>6, <1>8, <1>9, <1>10
  DEF Next, Handle, Finish, Expire, Disable, Enable, history, vars

\* Whoever runs side by side, the counters of the cost tracker count every ended
\* request once, and fallbacks those that needed more than one hop
\* (cost_tracker.py, router.py:198-204).
THEOREM BooksBalanceCorrect == Spec => []BooksBalance
<1>1. Init => PaidPath /\ BooksBalance
  <2>1. ASSUME Init PROVE Done = {} /\ Balanced(books, {})
    <3>1. {} \intersect paid = {} /\ {} \ paid = {} /\ {r \in {} : attempts[r] > 1} = {}
      OBVIOUS
    <3>2. books.misses = 0 /\ books.exact = 0 /\ books.semantic = 0 /\ books.fallbacks = 0
      BY <2>1 DEF Init
    <3>3. QED
      BY <2>1, <3>1, <3>2, FS_EmptySet DEF Init, Done, Balanced
  <2>2. QED
    BY <2>1 DEF Init, PaidPath, BooksBalance, Balanced, Done
<1>2. TypeOK /\ PaidPath /\ BooksBalance /\ [Next]_vars => (PaidPath /\ BooksBalance)'
  BY PaidStep, BooksStep
<1>3. QED
  BY <1>1, <1>2, TypeCorrect, PTL DEF Spec

=============================================================================
