------------------------- MODULE ApiKeyStoreProofs -------------------------
(***************************************************************************)
(* Proofs about the API keys. What everything rests on is that keys never  *)
(* leave the index: once there is one, no replica starts to seed, so the   *)
(* time of seeding, when records may be overwritten, ends once for all.    *)
(***************************************************************************)
EXTENDS ApiKeyStore, FiniteSetTheorems, TLAPS

\* A calm revocation and a kept count mean that the seeding is over.
SeedingIsOver == (calm # {} \/ kept # {}) => Seeding = {}

\* Requests let through on a key that was calmly revoked later have been noted.
GraceIsNoted == \A r \in Requests : pc[r] = "valid" /\ key[r] \in calm => r \in grace

Planted == ToSet(Seeds) \subseteq index

\* Either all seeds are there, or a replica that has written some goes on.
SomebodyPlants ==
  /\ \A p \in Seeding : \A i \in 1 .. next[p] - 1 : Seeds[i] \in index
  /\ Serving => index # {} \/ Seeds = <<>>
  /\ index # {} /\ ~ cutShort => Planted \/ \E p \in Seeding : next[p] > 1

IInv ==
  /\ TypeOK
  /\ SeedingIsOver
  /\ RevocationSticks
  /\ GraceIsNoted
  /\ UsageIsCounted
  /\ SomebodyPlants

-----------------------------------------------------------------------------
LEMMA SeedsAreKeys ==
  /\ Len(Seeds) \in Nat
  /\ \A i \in 1 .. Len(Seeds) : Seeds[i] \in Keys
  /\ \A i \in Nat \ {0} : i <= Len(Seeds) => Seeds[i] \in Keys
  /\ Seeds # <<>> => Len(Seeds) > 0
  /\ ToSet(Seeds) = {Seeds[i] : i \in 1 .. Len(Seeds)}
  BY KeysAssumption DEF ToSet

LEMMA InitHolds ==
  ASSUME Init
  PROVE  IInv
  <1>1. TypeOK
    <2>1. Seeding = {} /\ {r \in Requests : pc[r] = "served"} = {}
      BY DEF Init, Seeding
    <2>2. /\ mode \in [Replicas -> {"down", "seeding", "up"}]
          /\ next \in [Replicas -> Nat \ {0}] /\ \A p \in Replicas : next[p] = 1
      BY DEF Init
    <2>3. /\ count \in [Keys -> Nat] /\ \A k \in Keys : count[k] = 0
          /\ key \in [Requests -> Keys]
      BY DEF Init
    <2>4. /\ pc \in [Requests -> {"new", "valid", "denied", "served", "dropped"}]
          /\ \A r \in Requests : pc[r] = "new"
      BY DEF Init
    <2>5. /\ index = {} /\ hashes = {} /\ revoked = {} /\ revoking = {} /\ calm = {}
          /\ grace = {} /\ touched = {} /\ kept = {} /\ cutShort \in BOOLEAN
      BY DEF Init
    <2> QED
      BY <2>1, <2>2, <2>3, <2>4, <2>5 DEF TypeOK
  <1>2. SeedingIsOver /\ RevocationSticks /\ GraceIsNoted /\ SomebodyPlants
    <2>1. Seeding = {} /\ ~ Serving
      BY DEF Init, Seeding, Serving
    <2> QED
      BY <2>1 DEF Init, SeedingIsOver, RevocationSticks, GraceIsNoted, SomebodyPlants
  <1>3. UsageIsCounted
    <2>1. ASSUME NEW k \in Keys
          PROVE  Uses(kept, k) = {} /\ Uses(touched, k) = {} /\ count[k] = 0
      BY DEF Init, Uses
    <2> QED
      BY <2>1, FS_EmptySet DEF UsageIsCounted
  <1> QED
    BY <1>1, <1>2, <1>3 DEF IInv

\* Each action keeps the state well formed.
LEMMA TypeStep ==
  ASSUME TypeOK, [Next]_vars
  PROVE  TypeOK'
  <1> USE DEF TypeOK, Seeding, store, history
  <1>1. ASSUME NEW p \in Replicas, StartUp(p)
        PROVE  TypeOK'
    BY <1>1 DEF StartUp
  <1>2. ASSUME NEW p \in Replicas, SeedNext(p)
        PROVE  TypeOK'
    <2> DEFINE k == Seeds[next[p]]
    <2>1. k \in Keys /\ next[p] \in Nat \ {0} /\ next[p] <= Len(Seeds) /\ Len(Seeds) \in Nat
      BY <1>2, SeedsAreKeys DEF SeedNext
    <2>2. CreateRaw(k) /\ UNCHANGED <<revoking, key, pc, history>>
      BY <1>2 DEF SeedNext
    <2> HIDE DEF k
    <2>3. /\ index' \subseteq Keys /\ hashes' = index' /\ revoked' \subseteq index'
          /\ count' \in [Keys -> Nat] /\ \A l \in Keys : count'[l] > 0 => l \in index'
          /\ index \subseteq index'
      BY <2>1, <2>2 DEF CreateRaw
    <2>4. \/ /\ next[p] < Len(Seeds) /\ next' = [next EXCEPT ![p] = next[p] + 1] /\ mode' = mode
          \/ next' = [next EXCEPT ![p] = 1] /\ mode' = [mode EXCEPT ![p] = "up"]
      BY <1>2 DEF SeedNext
    <2>5. /\ mode' \in [Replicas -> {"down", "seeding", "up"}]
          /\ next' \in [Replicas -> Nat \ {0}]
      <3>1. /\ mode \in [Replicas -> {"down", "seeding", "up"}]
            /\ next \in [Replicas -> Nat \ {0}]
        OBVIOUS
      <3> HIDE DEF TypeOK
      <3>2. next[p] + 1 \in Nat \ {0} /\ 1 \in Nat \ {0}
        BY <2>1
      <3> QED
        BY <2>4, <3>1, <3>2
    <2>6. \A q \in Replicas : next'[q] = 1 \/ (q \in Seeding' /\ next'[q] <= Len(Seeds))
      BY <1>2, <2>1, <2>4, <2>5 DEF SeedNext
    <2>7. Seeding' # {} => Seeds # <<>>
      BY <1>2, <2>4 DEF SeedNext
    <2> QED
      BY <2>2, <2>3, <2>5, <2>6, <2>7
  <1>3. ASSUME NEW p \in Replicas, Crash(p)
        PROVE  TypeOK'
    BY <1>3 DEF Crash
  <1>4. ASSUME NEW k \in Keys, Create(k)
        PROVE  TypeOK'
    BY <1>4 DEF Create, CreateRaw
  <1>5. ASSUME NEW k \in Keys, FindRevoked(k) \/ MarkRevoked(k) \/ LoseRevoke(k)
        PROVE  TypeOK'
    BY <1>5 DEF FindRevoked, MarkRevoked, LoseRevoke, NoteRevocation
  <1>6. ASSUME NEW r \in Requests, Validate(r)
        PROVE  TypeOK'
    BY <1>6 DEF Validate, Usable
  <1>7. ASSUME NEW r \in Requests, Touch(r)
        PROVE  TypeOK'
    BY <1>7 DEF Touch
  <1>8. ASSUME NEW r \in Requests, Drop(r)
        PROVE  TypeOK'
    BY <1>8 DEF Drop
  <1>9. CASE UNCHANGED vars
    BY <1>9 DEF vars
  <1> QED
    BY <1>1, <1>2, <1>3, <1>4, <1>5, <1>6, <1>7, <1>8, <1>9 DEF Next, Replica, Admin, Chat

\* Only the replicas change what they are doing, and none starts to seed when
\* there is a key.
LEMMA NobodyStartsToSeed ==
  ASSUME TypeOK, [Next]_vars, Seeding = {}, index # {}
  PROVE  Seeding' = {}
  BY DEF TypeOK, Next, Replica, StartUp, SeedNext, Crash, Admin, Create, FindRevoked,
     MarkRevoked, LoseRevoke, Chat, Validate, Touch, Drop, Seeding, vars

\* Keys never leave the index.
LEMMA IndexGrows ==
  ASSUME TypeOK, [Next]_vars
  PROVE  index \subseteq index'
  BY DEF TypeOK, Next, Replica, StartUp, SeedNext, Crash, Admin, Create, FindRevoked, CreateRaw,
     MarkRevoked, LoseRevoke, Chat, Validate, Touch, Drop, store, vars

LEMMA SeedingIsOverStep ==
  ASSUME TypeOK, SeedingIsOver, [Next]_vars
  PROVE  SeedingIsOver'
  <1>1. SUFFICES ASSUME calm' # {} \/ kept' # {}
                 PROVE  Seeding' = {}
    BY DEF SeedingIsOver
  <1>2. Seeding = {}
    <2>1. CASE calm # {} \/ kept # {}
      BY <2>1 DEF SeedingIsOver
    <2>2. CASE calm = {} /\ kept = {}
      BY <1>1, <2>2 DEF Next, Replica, StartUp, SeedNext, Crash, Admin, Create, FindRevoked,
         MarkRevoked, LoseRevoke, NoteRevocation, Chat, Validate, Touch, Drop, history, vars
    <2> QED
      BY <2>1, <2>2
  <1>3. CASE index # {}
    BY <1>2, <1>3, NobodyStartsToSeed
  <1>4. CASE index = {}
    <2>1. calm = {} /\ kept = {} /\ revoking = {}
      BY <1>4 DEF TypeOK
    <2>2. UNCHANGED <<calm, kept>>
      BY <1>4, <2>1 DEF TypeOK, Next, Replica, StartUp, SeedNext, Crash, Admin, Create, FindRevoked,
         MarkRevoked, LoseRevoke, Chat, Validate, Touch, Drop, history, vars
    <2> QED
      BY <1>1, <2>1, <2>2
  <1> QED
    BY <1>3, <1>4

\* Who writes a whole record, and of which key.
LEMMA RecordsAreWrittenWhole ==
  ASSUME TypeOK, SeedingIsOver, [Next]_vars
  PROVE  \/ \E k \in Keys :
              /\ CreateRaw(k) /\ k \notin calm /\ \A r \in kept : key[r] # k
              /\ UNCHANGED <<key, pc, calm, grace, touched, kept>>
         \/ revoked \subseteq revoked'
  <1>1. ASSUME NEW p \in Replicas, SeedNext(p)
        PROVE  /\ CreateRaw(Seeds[next[p]]) /\ Seeds[next[p]] \in Keys
               /\ calm = {} /\ kept = {} /\ UNCHANGED <<key, pc, calm, grace, touched, kept>>
    <2>1. next[p] \in Nat \ {0} /\ next[p] <= Len(Seeds)
      BY <1>1, SeedsAreKeys DEF TypeOK, SeedNext
    <2>2. CreateRaw(Seeds[next[p]]) /\ Seeding # {} /\ UNCHANGED <<key, pc, history>>
      BY <1>1 DEF SeedNext
    <2> QED
      BY <2>1, <2>2, SeedsAreKeys DEF SeedingIsOver, history
  <1>2. ASSUME NEW k \in Keys, Create(k)
        PROVE  /\ CreateRaw(k) /\ k \notin calm /\ \A r \in kept : key[r] # k
               /\ UNCHANGED <<key, pc, calm, grace, touched, kept>>
    BY <1>2 DEF Create, TypeOK, history
  <1>3. ASSUME ~ \E p \in Replicas : SeedNext(p), ~ \E k \in Keys : Create(k)
        PROVE  revoked \subseteq revoked'
    BY <1>3 DEF Next, Replica, StartUp, Crash, Admin, FindRevoked, MarkRevoked, LoseRevoke,
       Chat, Validate, Touch, Drop, store, vars
  <1> QED
    BY <1>1, <1>2, <1>3

LEMMA RevocationStep ==
  ASSUME TypeOK, SeedingIsOver, RevocationSticks, [Next]_vars
  PROVE  RevocationSticks'
  <1>1. CASE \E k \in Keys : CreateRaw(k) /\ k \notin calm /\ UNCHANGED calm
    BY <1>1 DEF CreateRaw, RevocationSticks
  <1>2. CASE revoked \subseteq revoked'
    <2>1. calm' \subseteq calm \union revoked'
      BY DEF Next, Replica, StartUp, SeedNext, Crash, Admin, Create, FindRevoked, MarkRevoked,
         NoteRevocation, LoseRevoke, Chat, Validate, Touch, Drop, history, vars
    <2> QED
      BY <1>2, <2>1 DEF RevocationSticks
  <1> QED
    BY <1>1, <1>2, RecordsAreWrittenWhole

LEMMA GraceStep ==
  ASSUME TypeOK, RevocationSticks, GraceIsNoted, [Next]_vars
  PROVE  GraceIsNoted'
  <1>1. ASSUME NEW k \in Keys, MarkRevoked(k)
        PROVE  GraceIsNoted'
    BY <1>1 DEF MarkRevoked, NoteRevocation, GraceIsNoted
  <1>2. ASSUME NEW r \in Requests, Validate(r)
        PROVE  GraceIsNoted'
    BY <1>2 DEF Validate, Usable, RevocationSticks, GraceIsNoted, TypeOK, history
  <1>3. ASSUME NEW r \in Requests, Touch(r) \/ Drop(r)
        PROVE  GraceIsNoted'
    BY <1>3 DEF Touch, Drop, GraceIsNoted, TypeOK, history
  <1>4. CASE UNCHANGED <<key, pc, calm, grace>>
    BY <1>4 DEF GraceIsNoted
  <1> QED
    BY <1>1, <1>2, <1>3, <1>4 DEF Next, Replica, StartUp, SeedNext, Crash, Admin, Create,
       FindRevoked, LoseRevoke, Chat, history, vars

LEMMA PlantingStep ==
  ASSUME TypeOK, SomebodyPlants, [Next]_vars
  PROVE  SomebodyPlants'
  <1>0. index \subseteq index'
    BY IndexGrows
  <1>1. ASSUME NEW p \in Replicas, StartUp(p)
        PROVE  SomebodyPlants'
    BY <1>1, SeedsAreKeys DEF StartUp, SomebodyPlants, TypeOK, Seeding, Serving, Planted, store, history
  <1>2. ASSUME NEW p \in Replicas, SeedNext(p)
        PROVE  SomebodyPlants'
    <2>1. /\ p \in Seeding /\ Seeds[next[p]] \in index' /\ cutShort' = cutShort
          /\ next[p] \in Nat \ {0} /\ next[p] <= Len(Seeds) /\ Len(Seeds) \in Nat
      BY <1>2, SeedsAreKeys DEF SeedNext, CreateRaw, TypeOK, history
    <2>2. \A i \in 1 .. next[p] : Seeds[i] \in index'
      BY <1>0, <2>1 DEF SomebodyPlants
    <2>3. CASE next[p] < Len(Seeds)
      <3>1. /\ next' = [next EXCEPT ![p] = next[p] + 1] /\ mode' = mode
            /\ next \in [Replicas -> Nat \ {0}]
        BY <1>2, <2>3 DEF SeedNext, TypeOK
      <3>2. Seeding' = Seeding /\ Serving' = Serving
        BY <3>1 DEF Seeding, Serving
      <3>3. \A q \in Seeding' : \A i \in 1 .. next'[q] - 1 : Seeds[i] \in index'
        BY <1>0, <2>1, <2>2, <3>1, <3>2 DEF SomebodyPlants, Seeding
      <3>4. next'[p] > 1 /\ p \in Seeding'
        BY <2>1, <3>1, <3>2
      <3> QED
        BY <1>0, <2>1, <3>2, <3>3, <3>4 DEF SomebodyPlants
    <2>4. CASE ~ (next[p] < Len(Seeds))
      <3>1. /\ next' = [next EXCEPT ![p] = 1] /\ mode' = [mode EXCEPT ![p] = "up"]
            /\ next \in [Replicas -> Nat \ {0}]
            /\ mode \in [Replicas -> {"down", "seeding", "up"}]
        BY <1>2, <2>4 DEF SeedNext, TypeOK
      <3>2. Seeding' = Seeding \ {p}
        BY <3>1 DEF Seeding
      <3>3. \A q \in Seeding' : \A i \in 1 .. next'[q] - 1 : Seeds[i] \in index'
        BY <1>0, <3>1, <3>2 DEF SomebodyPlants, Seeding
      <3>4. Planted'
        BY <2>1, <2>2, <2>4, SeedsAreKeys DEF Planted
      <3> QED
        BY <2>1, <3>3, <3>4 DEF SomebodyPlants
    <2> QED
      BY <2>3, <2>4
  <1>3. ASSUME NEW p \in Replicas, Crash(p)
        PROVE  SomebodyPlants'
    <2>1. /\ next' = [next EXCEPT ![p] = 1] /\ mode' = [mode EXCEPT ![p] = "down"]
          /\ index' = index /\ cutShort' = (cutShort \/ next[p] > 1)
          /\ next \in [Replicas -> Nat \ {0}]
          /\ mode \in [Replicas -> {"down", "seeding", "up"}]
      BY <1>3 DEF Crash, TypeOK, store
    <2>2. Seeding' = Seeding \ {p} /\ (Serving' => Serving)
      BY <2>1 DEF Seeding, Serving
    <2>3. \A q \in Seeding' : next'[q] = next[q]
      BY <2>1, <2>2 DEF Seeding
    <2> QED
      BY <2>1, <2>2, <2>3 DEF SomebodyPlants, Planted
  <1>4. ASSUME UNCHANGED <<mode, next, cutShort>>, Serving \/ index' = index
        PROVE  SomebodyPlants'
    <2>1. Seeding' = Seeding /\ Serving' = Serving
      BY <1>4 DEF Seeding, Serving
    <2>2. Seeds = <<>> => Planted'
      BY SeedsAreKeys DEF Planted
    <2>3. index' # {} /\ index = {} => Seeds = <<>>
      BY <1>4 DEF SomebodyPlants
    <2> QED
      BY <1>0, <1>4, <2>1, <2>2, <2>3 DEF SomebodyPlants, Planted
  <1>5. ASSUME NEW k \in Keys, Admin(k)
        PROVE  SomebodyPlants'
    BY <1>4, <1>5 DEF Admin, Create, FindRevoked, MarkRevoked, NoteRevocation, LoseRevoke,
       store, history
  <1>6. ASSUME NEW r \in Requests, Chat(r)
        PROVE  SomebodyPlants'
    BY <1>4, <1>6 DEF Chat, Validate, Touch, Drop, store, history
  <1>7. CASE UNCHANGED vars
    BY <1>4, <1>7 DEF vars
  <1> QED
    BY <1>1, <1>2, <1>3, <1>5, <1>6, <1>7 DEF Next, Replica

\* The requests of a key are finitely many; one more of them counts one more.
LEMMA UsesAreCounted ==
  ASSUME NEW S \in SUBSET Requests, NEW r \in Requests, r \notin S, NEW k \in Keys
  PROVE  /\ Cardinality(Uses(S, k)) \in Nat
         /\ Cardinality(Uses(S \union {r}, k)) =
              IF key[r] = k THEN Cardinality(Uses(S, k)) + 1 ELSE Cardinality(Uses(S, k))
  <1>1. Uses(S, k) \in SUBSET Requests /\ r \notin Uses(S, k)
    BY DEF Uses
  <1>2. IsFiniteSet(Uses(S, k)) /\ Cardinality(Uses(S, k)) \in Nat
    BY <1>1, FS_Subset, FS_CardinalityType, RequestsAssumption
  <1>3. Uses(S \union {r}, k) = IF key[r] = k THEN Uses(S, k) \union {r} ELSE Uses(S, k)
    BY DEF Uses
  <1>4. Cardinality(Uses(S, k) \union {r}) = Cardinality(Uses(S, k)) + 1
    BY <1>1, <1>2, FS_AddElement
  <1> QED
    BY <1>2, <1>3, <1>4

LEMMA UsageStep ==
  ASSUME TypeOK, SeedingIsOver, UsageIsCounted, [Next]_vars
  PROVE  UsageIsCounted'
  <1>0. kept \subseteq touched /\ touched \in SUBSET Requests /\ kept \in SUBSET Requests
    BY DEF TypeOK
  <1>1. ASSUME NEW r \in Requests, Touch(r)
        PROVE  UsageIsCounted'
    <2>1. /\ r \notin touched /\ r \notin kept /\ key[r] \in Keys
          /\ touched' = touched \union {r} /\ key' = key
          /\ kept' = kept \/ kept' = kept \union {r}
          /\ count' = [count EXCEPT ![key[r]] = count[key[r]] + 1]
          /\ count \in [Keys -> Nat]
      BY <1>1 DEF Touch, TypeOK
    <2>2. ASSUME NEW k \in Keys
          PROVE  count'[k] \in Cardinality(Uses(kept, k)') .. Cardinality(Uses(touched, k)')
      <3>1. /\ Cardinality(Uses(kept, k)) \in Nat
            /\ Cardinality(Uses(touched, k)) \in Nat
            /\ Cardinality(Uses(touched \union {r}, k)) =
                 IF key[r] = k THEN Cardinality(Uses(touched, k)) + 1 ELSE Cardinality(Uses(touched, k))
            /\ Cardinality(Uses(kept \union {r}, k)) =
                 IF key[r] = k THEN Cardinality(Uses(kept, k)) + 1 ELSE Cardinality(Uses(kept, k))
        BY <1>0, <2>1, UsesAreCounted
      <3>2. /\ Uses(touched, k)' = Uses(touched \union {r}, k)
            /\ Uses(kept, k)' = Uses(kept, k) \/ Uses(kept, k)' = Uses(kept \union {r}, k)
        BY <2>1 DEF Uses
      <3>3. count'[k] = IF key[r] = k THEN count[k] + 1 ELSE count[k]
        BY <2>1
      <3>4. count[k] \in Nat /\ count[k] \in Cardinality(Uses(kept, k)) .. Cardinality(Uses(touched, k))
        BY <2>1 DEF UsageIsCounted
      <3> QED
        BY <3>1, <3>2, <3>3, <3>4
    <2> QED
      BY <2>2 DEF UsageIsCounted
  <1>2. ASSUME NEW k \in Keys, CreateRaw(k), \A r \in kept : key[r] # k,
               UNCHANGED <<key, pc, calm, grace, touched, kept>>
        PROVE  UsageIsCounted'
    <2>1. ASSUME NEW l \in Keys
          PROVE  count'[l] \in Cardinality(Uses(kept, l)') .. Cardinality(Uses(touched, l)')
      <3>1. Uses(kept, l)' = Uses(kept, l) /\ Uses(touched, l)' = Uses(touched, l)
        BY <1>2 DEF Uses
      <3>2. IsFiniteSet(Uses(touched, l)) /\ Cardinality(Uses(touched, l)) \in Nat
        <4>1. Uses(touched, l) \in SUBSET Requests
          BY <1>0 DEF Uses
        <4> QED
          BY <4>1, FS_Subset, FS_CardinalityType, RequestsAssumption
      <3>3. CASE l = k
        <4>1. Uses(kept, l) = {}
          BY <1>2, <3>3 DEF Uses
        <4>2. count'[l] = 0
          BY <1>2, <3>3 DEF CreateRaw, TypeOK
        <4> QED
          BY <3>1, <3>2, <4>1, <4>2, FS_EmptySet
      <3>4. CASE l # k
        <4>1. count'[l] = count[l]
          BY <1>2, <3>4 DEF CreateRaw, TypeOK
        <4> QED
          BY <3>1, <4>1 DEF UsageIsCounted
      <3> QED
        BY <3>3, <3>4
    <2> QED
      BY <2>1 DEF UsageIsCounted
  <1>3. CASE UNCHANGED <<count, key, touched, kept>>
    BY <1>3 DEF UsageIsCounted, Uses
  <1>4. \/ \E r \in Requests : Touch(r)
        \/ \E p \in Replicas : SeedNext(p)
        \/ \E k \in Keys : Create(k)
        \/ UNCHANGED <<count, key, touched, kept>>
    BY DEF Next, Replica, StartUp, Crash, Admin, FindRevoked, MarkRevoked, NoteRevocation,
       LoseRevoke, Chat, Validate, Drop, store, history, vars
  <1>5. ASSUME NEW p \in Replicas, SeedNext(p)
        PROVE  UsageIsCounted'
    <2>1. next[p] \in Nat \ {0} /\ next[p] <= Len(Seeds)
      BY <1>5, SeedsAreKeys DEF TypeOK, SeedNext
    <2>2. /\ CreateRaw(Seeds[next[p]]) /\ kept = {}
          /\ UNCHANGED <<key, pc, calm, grace, touched, kept>>
      BY <1>5 DEF SeedNext, SeedingIsOver, history
    <2> QED
      BY <1>2, <2>1, <2>2, SeedsAreKeys
  <1>6. ASSUME NEW k \in Keys, Create(k)
        PROVE  UsageIsCounted'
    <2>1. \A r \in kept : key[r] \in hashes
      BY DEF TypeOK
    <2> QED
      BY <1>2, <1>6, <2>1 DEF Create, history
  <1> QED
    BY <1>1, <1>3, <1>4, <1>5, <1>6

LEMMA Inductive ==
  ASSUME IInv, [Next]_vars
  PROVE  IInv'
  <1> USE DEF IInv
  <1>1. TypeOK'
    BY TypeStep
  <1>2. SeedingIsOver'
    BY SeedingIsOverStep
  <1>3. RevocationSticks' /\ GraceIsNoted'
    BY RevocationStep, GraceStep
  <1>4. UsageIsCounted'
    BY UsageStep
  <1>5. SomebodyPlants'
    BY PlantingStep
  <1> QED
    BY <1>1, <1>2, <1>3, <1>4, <1>5

\* Every state is one in which the invariant holds.
THEOREM Invariance == Spec => []IInv
  BY InitHolds, Inductive, PTL DEF Spec

-----------------------------------------------------------------------------
\* The state of the store is well formed: no hash is without its index entry
\* (api_keys.py:66-79).
THEOREM TypeCorrect == Spec => []TypeOK
  <1>1. IInv => TypeOK
    BY DEF IInv
  <1> QED
    BY <1>1, Invariance, PTL

\* A key revoked while nobody was seeding stays revoked, however many replicas
\* start, die and start again (api_keys.py:58-64, 103-108).
THEOREM RevocationSticksCorrect == Spec => []RevocationSticks
  <1>1. IInv => RevocationSticks
    BY DEF IInv
  <1> QED
    BY <1>1, Invariance, PTL

\* After such a revocation only requests that validate had let through before are
\* served (routes.py:23-35, 91).
THEOREM ServedInGraceCorrect == Spec => ServedInGrace
  <1>1. ASSUME IInv, NEW r \in Requests, Touch(r), key[r] \in calm
        PROVE  r \in grace
    BY <1>1 DEF IInv, GraceIsNoted, Touch
  <1>2. IInv /\ [Next]_vars =>
          [\A r \in Requests : Touch(r) /\ key[r] \in calm => r \in grace]_vars
    BY <1>1
  <1> QED
    BY <1>2, Invariance, PTL DEF Spec, ServedInGrace

\* request_count counts every request once, but for those counted while a replica
\* was seeding (api_keys.py:133-137).
THEOREM UsageIsCountedCorrect == Spec => []UsageIsCounted
  <1>1. IInv => UsageIsCounted
    BY DEF IInv
  <1> QED
    BY <1>1, Invariance, PTL

\* Unless a replica has died between two seeds, every seed is there once replicas
\* serve and none is seeding (main.py:96-97).
THEOREM SeedsArePlantedCorrect == Spec => []SeedsArePlanted
  <1>1. IInv => SeedsArePlanted
    <2>1. Seeds = <<>> => Planted
      BY SeedsAreKeys DEF Planted
    <2> QED
      BY <2>1 DEF IInv, SomebodyPlants, SeedsArePlanted, Planted
  <1> QED
    BY <1>1, Invariance, PTL

=============================================================================
