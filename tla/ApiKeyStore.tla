---------------------------- MODULE ApiKeyStore ----------------------------
(***************************************************************************)
(* The API keys in Redis (app/core/api_keys.py): replicas that seed them   *)
(* when they start and may die while they do, administrators that create   *)
(* and revoke keys, and requests that are authenticated by their key and   *)
(* counted against it (app/api/routes.py). One Redis command or MULTI per  *)
(* step. delete, which nothing calls, is left out.                         *)
(***************************************************************************)
EXTENDS Integers, FiniteSets, Sequences, SequencesExt

CONSTANTS
  Keys,       \* key strings
  Seeds,      \* settings.api_keys, in order
  Replicas,   \* gateway processes
  Requests    \* chat requests, each made once

ASSUME KeysAssumption == Seeds \in Seq(Keys)
ASSUME RequestsAssumption == IsFiniteSet(Requests)

VARIABLES
  index,      \* apikeys:index
  hashes,     \* keys that have a hash apikey:{key}
  revoked,    \* keys whose hash has revoked = "1"
  count,      \* request_count of each key's hash, 0 when there is none
  mode,       \* what each replica is doing
  next,       \* position of the seed a seeding replica writes next
  revoking,   \* keys that a revoke has found and not yet marked
  key,        \* the key each request carries; fixed
  pc,         \* where each request is
  calm,       \* history: keys that were revoked while nobody was seeding
  grace,      \* history: requests past validate when such a key was revoked
  touched,    \* history: requests that have been counted ...
  kept,       \* ... and those of them that were while nobody was seeding
  cutShort    \* history: a replica has died between two seeds

store == <<index, hashes, revoked, count>>
history == <<calm, grace, touched, kept, cutShort>>
vars == <<index, hashes, revoked, count, mode, next, revoking, key, pc,
          calm, grace, touched, kept, cutShort>>

-----------------------------------------------------------------------------
Seeding == {p \in Replicas : mode[p] = "seeding"}

\* Somebody answers requests.
Serving == \E p \in Replicas : mode[p] = "up"

\* Mutant of CreateRaw: SADD is forgotten.
CreateUnlisted(k) ==
  /\ hashes' = hashes \union {k}
  /\ revoked' = revoked \ {k}
  /\ count' = [count EXCEPT ![k] = 0]
  /\ UNCHANGED index

\* _create_raw: HSET of the whole record and SADD, in one MULTI. A hash that is
\* there is overwritten.
CreateRaw(k) ==
  /\ index' = index \union {k}
  /\ hashes' = hashes \union {k}
  /\ revoked' = revoked \ {k}
  /\ count' = [count EXCEPT ![k] = 0]

Init ==
  /\ index = {}
  /\ hashes = {}
  /\ revoked = {}
  /\ count = [k \in Keys |-> 0]
  /\ mode = [p \in Replicas |-> "down"]
  /\ next = [p \in Replicas |-> 1]
  /\ revoking = {}
  /\ key \in [Requests -> Keys]
  /\ pc = [r \in Requests |-> "new"]
  /\ calm = {} /\ grace = {} /\ touched = {} /\ kept = {}
  /\ cutShort = FALSE

-----------------------------------------------------------------------------
(* A replica starts: lifespan calls seed_if_empty *)

\* Mutant of StartUp: seeds are written at every start.
StartUpSeeding(p) ==
  /\ mode[p] = "down"
  /\ mode' = [mode EXCEPT ![p] = IF Seeds = <<>> THEN "up" ELSE "seeding"]
  /\ UNCHANGED <<store, next, revoking, key, pc, history>>

\* SCARD: is there anything to do?
StartUp(p) ==
  /\ mode[p] = "down"
  /\ mode' = [mode EXCEPT ![p] = IF index # {} \/ Seeds = <<>> THEN "up" ELSE "seeding"]
  /\ UNCHANGED <<store, next, revoking, key, pc, history>>

\* Mutant of SeedNext: the loop ends one seed early.
SeedAllButLast(p) ==
  /\ p \in Seeding
  /\ CreateRaw(Seeds[next[p]])
  /\ IF next[p] + 1 < Len(Seeds)
       THEN next' = [next EXCEPT ![p] = @ + 1] /\ UNCHANGED mode
       ELSE next' = [next EXCEPT ![p] = 1] /\ mode' = [mode EXCEPT ![p] = "up"]
  /\ UNCHANGED <<revoking, key, pc, history>>

\* One turn of the loop; after the last seed the replica starts to serve.
SeedNext(p) ==
  /\ p \in Seeding
  /\ CreateRaw(Seeds[next[p]])
  /\ IF next[p] < Len(Seeds)
       THEN next' = [next EXCEPT ![p] = @ + 1] /\ UNCHANGED mode
       ELSE next' = [next EXCEPT ![p] = 1] /\ mode' = [mode EXCEPT ![p] = "up"]
  /\ UNCHANGED <<revoking, key, pc, history>>

\* The replica dies; it may start again.
Crash(p) ==
  /\ mode[p] # "down"
  /\ mode' = [mode EXCEPT ![p] = "down"]
  /\ next' = [next EXCEPT ![p] = 1]
  /\ cutShort' = (cutShort \/ next[p] > 1)
  /\ UNCHANGED <<store, revoking, key, pc, calm, grace, touched, kept>>

-----------------------------------------------------------------------------
(* An administrator *)

\* POST /admin/keys: generate_key never gives a key that has been in use.
Create(k) ==
  /\ Serving
  /\ k \notin hashes \union ToSet(Seeds)
  /\ CreateRaw(k)
  /\ UNCHANGED <<mode, next, revoking, key, pc, history>>

\* DELETE /admin/keys/{key}: EXISTS; anything else is a 404 ...
FindRevoked(k) ==
  /\ Serving
  /\ k \in hashes
  /\ revoking' = revoking \union {k}
  /\ UNCHANGED <<store, mode, next, key, pc, history>>

\* What the history keeps of a revocation.
NoteRevocation(k) ==
  /\ calm' = IF Seeding = {} THEN calm \union {k} ELSE calm
  /\ grace' = grace \union {r \in Requests : pc[r] = "valid" /\ key[r] = k}
  /\ UNCHANGED <<touched, kept, cutShort>>

\* Mutant of MarkRevoked: the whole record is written.
MarkRevokedAnew(k) ==
  /\ k \in revoking
  /\ revoking' = revoking \ {k}
  /\ revoked' = revoked \union {k}
  /\ count' = [count EXCEPT ![k] = 0]
  /\ NoteRevocation(k)
  /\ UNCHANGED <<index, hashes, mode, next, key, pc>>

\* ... and HSET revoked "1".
MarkRevoked(k) ==
  /\ k \in revoking
  /\ revoking' = revoking \ {k}
  /\ revoked' = revoked \union {k}
  /\ NoteRevocation(k)
  /\ UNCHANGED <<index, hashes, count, mode, next, key, pc>>

\* The request to revoke ends between the two.
LoseRevoke(k) ==
  /\ k \in revoking
  /\ revoking' = revoking \ {k}
  /\ UNCHANGED <<store, mode, next, key, pc, history>>

-----------------------------------------------------------------------------
(* A chat request *)

\* Mutant of Usable: any key that has a hash will do.
UsableIfKnown(k) == k \in hashes

\* validate: the hash is there and is not revoked.
Usable(k) == k \in hashes /\ k \notin revoked

\* _authenticate: HGETALL; a 401 if the key is not usable.
Validate(r) ==
  /\ Serving
  /\ pc[r] = "new"
  /\ pc' = [pc EXCEPT ![r] = IF Usable(key[r]) THEN "valid" ELSE "denied"]
  /\ UNCHANGED <<store, mode, next, revoking, key, history>>

\* touch: HSET last_used_at and HINCRBY request_count in one MULTI. The key is
\* not looked at again.
Touch(r) ==
  /\ pc[r] = "valid"
  /\ pc' = [pc EXCEPT ![r] = "served"]
  /\ count' = [count EXCEPT ![key[r]] = @ + 1]
  /\ touched' = touched \union {r}
  /\ kept' = IF Seeding = {} THEN kept \union {r} ELSE kept
  /\ UNCHANGED <<index, hashes, revoked, mode, next, revoking, key, calm, grace, cutShort>>

\* The request ends before it is counted: it is over its limit, or lost.
Drop(r) ==
  /\ pc[r] = "valid"
  /\ pc' = [pc EXCEPT ![r] = "dropped"]
  /\ UNCHANGED <<store, mode, next, revoking, key, history>>

-----------------------------------------------------------------------------
Replica(p) == StartUp(p) \/ SeedNext(p) \/ Crash(p)

Admin(k) == Create(k) \/ FindRevoked(k) \/ MarkRevoked(k) \/ LoseRevoke(k)

Chat(r) == Validate(r) \/ Touch(r) \/ Drop(r)

Next ==
  \/ \E p \in Replicas : Replica(p)
  \/ \E k \in Keys : Admin(k)
  \/ \E r \in Requests : Chat(r)

Spec == Init /\ [][Next]_vars

-----------------------------------------------------------------------------
(* Properties *)

\* The state is well formed: no hash is without its entry in the index, so that
\* every key that can be used is listed for the administrator.
TypeOK ==
  /\ index \subseteq Keys
  /\ hashes = index
  /\ revoked \subseteq index
  /\ count \in [Keys -> Nat]
  /\ \A k \in Keys : count[k] > 0 => k \in index
  /\ mode \in [Replicas -> {"down", "seeding", "up"}]
  /\ next \in [Replicas -> Nat \ {0}]
  /\ \A p \in Replicas : next[p] = 1 \/ (p \in Seeding /\ next[p] <= Len(Seeds))
  /\ Seeding # {} => Seeds # <<>>
  /\ revoking \subseteq index
  /\ key \in [Requests -> Keys]
  /\ pc \in [Requests -> {"new", "valid", "denied", "served", "dropped"}]
  /\ \A r \in Requests : pc[r] \in {"valid", "served"} => key[r] \in index
  /\ calm \subseteq index /\ grace \subseteq Requests
  /\ touched = {r \in Requests : pc[r] = "served"} /\ kept \subseteq touched
  /\ cutShort \in BOOLEAN

\* A revoked key stays revoked, whoever starts, dies or starts again later, if
\* nobody was seeding when it was revoked (a replica that is already seeding
\* writes its seeds anew, revoked or not).
RevocationSticks == calm \subseteq revoked

\* "Any client using it will immediately get 401s" (keys.html:125), as far as it
\* is true: after such a revocation no request is served but those that validate
\* had already let through.
ServedInGrace ==
  [][\A r \in Requests : Touch(r) /\ key[r] \in calm => r \in grace]_vars

Uses(S, k) == {r \in S : key[r] = k}

\* request_count counts no request twice, and loses none but those counted while
\* a replica was seeding.
UsageIsCounted ==
  \A k \in Keys :
    count[k] \in Cardinality(Uses(kept, k)) .. Cardinality(Uses(touched, k))

\* Once a replica serves and nobody is seeding, every seed is there, unless a
\* replica has died between two seeds: nobody takes up what it has left.
SeedsArePlanted ==
  Serving /\ Seeding = {} /\ ~ cutShort => ToSet(Seeds) \subseteq index

=============================================================================
