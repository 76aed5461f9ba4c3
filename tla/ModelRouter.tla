---------------------------- MODULE ModelRouter ----------------------------
(***************************************************************************)
(* ModelRouter.route (app/core/router.py): cache lookup, the ordered       *)
(* fallback chain of a complexity tier, cache fill and book-keeping, for   *)
(* requests served at the same time by any number of replicas; with the    *)
(* two caches (app/core/cache.py), the counters (app/core/cost_tracker.py) *)
(* and the set of disabled providers (app/core/provider_control.py).       *)
(*                                                                         *)
(* A response is named by the request whose provider call produced it, so  *)
(* a cache entry is such a request. A breaker's verdict on a call is left  *)
(* open here: CircuitBreaker says when it rejects.                         *)
(***************************************************************************)
EXTENDS Integers, FiniteSets, Sequences, SequencesExt

CONSTANTS
  Requests,    \* calls of route
  Prompts,     \* prompts that differ after normalization
  Similar,     \* pairs of prompts alike at the lowest semantic_cache_threshold
  Tiers,       \* the tiers, in the order of tier_chains
  Chain,       \* tier_chains: for each tier a sequence of [provider, model]
  Requested,   \* the model names clients ask for
  CacheSize,   \* the largest semantic_cache_max_entries
  Settings,    \* the semantic caches an administrator may set: how many entries, and
               \* which prompts are similar
  None         \* no response

TierNames == Range(Tiers)
Hops(tier) == Range(Chain[tier])
Providers == UNION {{hop.provider : hop \in Hops(tier)} : tier \in TierNames}

ASSUME RouterAssumption ==
  /\ IsFiniteSet(Requests)
  /\ None \notin Requests
  /\ Tiers \in Seq(STRING) /\ "complex" \in TierNames
  /\ Chain \in [TierNames -> Seq([provider : STRING, model : STRING])]
  /\ CacheSize \in Nat
  /\ Settings \subseteq [entries : 0..CacheSize, similar : SUBSET Similar]

\* main.py gives every tier at least one hop, so that route never finds a chain empty
\* (router.py:145-147), and only hops of providers it has built, so that it never
\* misses a provider or its breaker (router.py:164-167). Neither branch is modelled.
ASSUME ChainsAssumption == \A tier \in TierNames : Chain[tier] # <<>>

-----------------------------------------------------------------------------
(* _resolve_tier *)

HasModel(tier, model) == \E hop \in Hops(tier) : hop.model = model

\* The first tier whose chain contains the model, else complex.
TierOfModel(model) ==
  LET with == {i \in DOMAIN Tiers : HasModel(Tiers[i], model)}
  IN  IF with = {} THEN "complex" ELSE Tiers[Min(with)]

\* What the classifier makes of a prompt is left open.
Resolved(model) ==
  CASE model = "auto" -> TierNames
    [] model \in TierNames -> {model}
    [] OTHER -> {TierOfModel(model)}

Jobs == {job \in [model : Requested, tier : TierNames, prompt : Prompts, caching : BOOLEAN] :
           job.tier \in Resolved(job.model)}

-----------------------------------------------------------------------------
VARIABLES
  disabled,   \* providers:disabled
  exact,      \* cache:exact:*, by tier and prompt
  semantic,   \* cache:semantic:entries, newest first
  books,      \* the counters of the cost tracker
  job,        \* what each request asks for, its tier resolved; fixed
  pc,         \* where each request is
  seen,       \* disabled_providers, as the request has read it
  hop,        \* index in the chain
  attempts,   \* the counter of route
  served,     \* the response a request is to return
  paid        \* history: requests whose provider call has answered

shared == <<disabled, exact, semantic, books>>
history == <<paid>>
vars == <<disabled, exact, semantic, books, job, pc, seen, hop, attempts, served,
          paid>>

Labels == {"new", "arrived", "exact", "semantic", "hop", "calling", "keepExact",
           "keepSemantic", "tallyExact", "tallySemantic", "tallyMiss",
           "done", "exhausted", "lost"}

Ended == {"done", "exhausted", "lost"}

\* _exact_key: the tier and the normalized prompt, nothing else.
Key(r) == <<job[r].tier, job[r].prompt>>

Route(r) == Chain[job[r].tier]

\* LRANGE 0 max_entries - 1, which is the whole list when max_entries is 0.
InReach(s) == {semantic[i] : i \in {i \in DOMAIN semantic : i <= s.entries \/ s.entries = 0}}

\* Mutant of Alike: the tier of an entry is not compared.
AlikeInAnyTier(r, s) == {q \in InReach(s) : <<job[q].prompt, job[r].prompt>> \in s.similar}

\* SemanticCache.get: entries of the tier alike enough; which of them is best is
\* left open.
Alike(r, s) ==
  {q \in InReach(s) :
     /\ job[q].tier = job[r].tier
     /\ <<job[q].prompt, job[r].prompt>> \in s.similar}

Goto(r, label) == pc' = [pc EXCEPT ![r] = label]

Init ==
  /\ disabled = {}
  /\ exact = [key \in TierNames \X Prompts |-> None]
  /\ semantic = <<>>
  /\ books = [exact |-> 0, semantic |-> 0, misses |-> 0, fallbacks |-> 0]
  /\ job \in [Requests -> Jobs]
  /\ pc = [r \in Requests |-> "new"]
  /\ seen = [r \in Requests |-> {}]
  /\ hop = [r \in Requests |-> 1]
  /\ attempts = [r \in Requests |-> 0]
  /\ served = [r \in Requests |-> None]
  /\ paid = {}

-----------------------------------------------------------------------------
(* Before the chain *)

Arrive(r) ==
  /\ pc[r] = "new"
  /\ Goto(r, "arrived")
  /\ UNCHANGED <<shared, job, seen, hop, attempts, served, history>>

\* Mutant of ReadDisabled: the set is not passed on to route.
ForgetDisabled(r) ==
  /\ pc[r] = "arrived"
  /\ Goto(r, IF job[r].caching THEN "exact" ELSE "hop")
  /\ UNCHANGED <<shared, job, seen, hop, attempts, served, history>>

\* SMEMBERS, once for the whole request (routes.py:94).
ReadDisabled(r) ==
  /\ pc[r] = "arrived"
  /\ seen' = [seen EXCEPT ![r] = disabled]
  /\ Goto(r, IF job[r].caching THEN "exact" ELSE "hop")
  /\ UNCHANGED <<shared, job, hop, attempts, served, history>>

ExactHit(r) ==
  /\ pc[r] = "exact"
  /\ exact[Key(r)] # None
  /\ served' = [served EXCEPT ![r] = exact[Key(r)]]
  /\ Goto(r, "tallyExact")
  /\ UNCHANGED <<shared, job, seen, hop, attempts, history>>

\* Mutant of ExactMiss: an entry of another request is not trusted.
DistrustExact(r) ==
  /\ pc[r] = "exact"
  /\ Goto(r, "semantic")
  /\ UNCHANGED <<shared, job, seen, hop, attempts, served, history>>

ExactMiss(r) ==
  /\ pc[r] = "exact"
  /\ exact[Key(r)] = None
  /\ Goto(r, "semantic")
  /\ UNCHANGED <<shared, job, seen, hop, attempts, served, history>>

\* The caches are built anew for every request, with the settings of that moment
\* (routes.py:38-43). A request's own settings do not change; that each step here
\* may take any allows more than the code does, and needs no copy of them.
SemanticHit(r) ==
  /\ pc[r] = "semantic"
  /\ \E s \in Settings : \E q \in Alike(r, s) : served' = [served EXCEPT ![r] = q]
  /\ Goto(r, "tallySemantic")
  /\ UNCHANGED <<shared, job, seen, hop, attempts, history>>

SemanticMiss(r) ==
  /\ pc[r] = "semantic"
  /\ \E s \in Settings : Alike(r, s) = {}
  /\ Goto(r, "hop")
  /\ UNCHANGED <<shared, job, seen, hop, attempts, served, history>>

-----------------------------------------------------------------------------
(* The fallback chain *)

AtHop(r) == pc[r] = "hop" /\ hop[r] <= Len(Route(r))

Skips(r) == Route(r)[hop[r]].provider \in seen[r]

NextHop(r) == hop' = [hop EXCEPT ![r] = @ + 1]

\* Mutant of SkipDisabled: the counter is moved above the check.
SkipAsAttempt(r) ==
  /\ AtHop(r) /\ Skips(r)
  /\ attempts' = [attempts EXCEPT ![r] = @ + 1]
  /\ NextHop(r)
  /\ UNCHANGED <<shared, job, pc, seen, served, history>>

\* Mutant of SkipDisabled: the same hop is looked at again.
SkipInPlace(r) ==
  /\ AtHop(r) /\ Skips(r)
  /\ UNCHANGED vars

\* Disabled by an administrator: not an attempt.
SkipDisabled(r) ==
  /\ AtHop(r) /\ Skips(r)
  /\ NextHop(r)
  /\ UNCHANGED <<shared, job, pc, seen, attempts, served, history>>

\* The breaker lets the call through.
CallProvider(r) ==
  /\ AtHop(r) /\ ~ Skips(r)
  /\ attempts' = [attempts EXCEPT ![r] = @ + 1]
  /\ Goto(r, "calling")
  /\ UNCHANGED <<shared, job, seen, hop, served, history>>

\* CircuitOpenError counts as an attempt too.
ShortCircuit(r) ==
  /\ AtHop(r) /\ ~ Skips(r)
  /\ attempts' = [attempts EXCEPT ![r] = @ + 1]
  /\ NextHop(r)
  /\ UNCHANGED <<shared, job, pc, seen, served, history>>

\* ProviderError.
ProviderFails(r) ==
  /\ pc[r] = "calling"
  /\ NextHop(r)
  /\ Goto(r, "hop")
  /\ UNCHANGED <<shared, job, seen, attempts, served, history>>

ProviderAnswers(r) ==
  /\ pc[r] = "calling"
  /\ paid' = paid \union {r}
  /\ served' = [served EXCEPT ![r] = r]
  /\ Goto(r, IF job[r].caching THEN "keepExact" ELSE "tallyMiss")
  /\ UNCHANGED <<shared, job, seen, hop, attempts>>

\* NoAvailableProviderError.
Exhaust(r) ==
  /\ pc[r] = "hop"
  /\ hop[r] > Len(Route(r))
  /\ Goto(r, "exhausted")
  /\ UNCHANGED <<shared, job, seen, hop, attempts, served, history>>

-----------------------------------------------------------------------------
(* After an answer *)

\* SET with the cache's lifetime.
KeepExact(r) ==
  /\ pc[r] = "keepExact"
  /\ exact' = [exact EXCEPT ![Key(r)] = r]
  /\ Goto(r, "keepSemantic")
  /\ UNCHANGED <<disabled, semantic, books, job, seen, hop, attempts, served, history>>

\* Mutant of KeepSemantic: no LTRIM.
KeepForGood(r) ==
  /\ pc[r] = "keepSemantic"
  /\ semantic' = <<r>> \o semantic
  /\ Goto(r, "tallyMiss")
  /\ UNCHANGED <<disabled, exact, books, job, seen, hop, attempts, served, history>>

\* LPUSH and LTRIM 0 max_entries - 1, which keeps everything when max_entries is 0.
KeepSemantic(r) ==
  /\ pc[r] = "keepSemantic"
  /\ LET pushed == <<r>> \o semantic
     IN  \E s \in Settings :
           semantic' = IF Len(pushed) > s.entries /\ s.entries # 0
                         THEN SubSeq(pushed, 1, s.entries) ELSE pushed
  /\ Goto(r, "tallyMiss")
  /\ UNCHANGED <<disabled, exact, books, job, seen, hop, attempts, served, history>>

\* record_request, for a cache hit of either kind ...
TallyHit(r) ==
  /\ \/ /\ pc[r] = "tallyExact"
        /\ books' = [books EXCEPT !.exact = @ + 1]
     \/ /\ pc[r] = "tallySemantic"
        /\ books' = [books EXCEPT !.semantic = @ + 1]
  /\ Goto(r, "done")
  /\ UNCHANGED <<disabled, exact, semantic, job, seen, hop, attempts, served, history>>

\* Mutant of TallyMiss: only the answers of requests that use the caches are booked.
TallyCachedMiss(r) ==
  /\ pc[r] = "tallyMiss"
  /\ books' = [books EXCEPT !.misses = IF job[r].caching THEN @ + 1 ELSE @,
                            !.fallbacks = IF attempts[r] > 1 THEN @ + 1 ELSE @]
  /\ Goto(r, "done")
  /\ UNCHANGED <<disabled, exact, semantic, job, seen, hop, attempts, served, history>>

\* ... and for an answer that was paid for.
TallyMiss(r) ==
  /\ pc[r] = "tallyMiss"
  /\ books' = [books EXCEPT !.misses = @ + 1,
                            !.fallbacks = IF attempts[r] > 1 THEN @ + 1 ELSE @]
  /\ Goto(r, "done")
  /\ UNCHANGED <<disabled, exact, semantic, job, seen, hop, attempts, served, history>>

-----------------------------------------------------------------------------
(* Around the requests *)

\* A replica dies, the client goes away, or a Redis command fails: the request
\* ends where it is. All of it is an HTTP 500 or no answer at all.
Abandon(r) ==
  /\ pc[r] \notin Ended \union {"new"}
  /\ Goto(r, "lost")
  /\ UNCHANGED <<shared, job, seen, hop, attempts, served, history>>

\* The lifetime of an exact entry ends.
Expire(key) ==
  /\ exact[key] # None
  /\ exact' = [exact EXCEPT ![key] = None]
  /\ UNCHANGED <<disabled, semantic, books, job, pc, seen, hop, attempts, served, history>>

\* POST /admin/providers/{p}/disable and .../enable
Disable(p) ==
  /\ disabled' = disabled \union {p}
  /\ UNCHANGED <<exact, semantic, books, job, pc, seen, hop, attempts, served, history>>

Enable(p) ==
  /\ disabled' = disabled \ {p}
  /\ UNCHANGED <<exact, semantic, books, job, pc, seen, hop, attempts, served, history>>

Lookup(r) ==
  \/ ReadDisabled(r)
  \/ ExactHit(r) \/ ExactMiss(r)
  \/ SemanticHit(r) \/ SemanticMiss(r)

Fallback(r) ==
  \/ SkipDisabled(r) \/ CallProvider(r) \/ ShortCircuit(r)
  \/ ProviderFails(r) \/ ProviderAnswers(r)
  \/ Exhaust(r)

Finish(r) == KeepExact(r) \/ KeepSemantic(r) \/ TallyHit(r) \/ TallyMiss(r)

Handle(r) == Lookup(r) \/ Fallback(r) \/ Finish(r)

Next ==
  \/ \E r \in Requests : Arrive(r) \/ Handle(r) \/ Abandon(r)
  \/ \E key \in TierNames \X Prompts : Expire(key)
  \/ \E p \in Providers : Disable(p) \/ Enable(p)

Spec == Init /\ [][Next]_vars

-----------------------------------------------------------------------------
(* Properties *)

\* The state is well formed; the list of semantic entries never outgrows the
\* largest semantic_cache_max_entries, whoever pushes at the same time, unless
\* that may be 0.
TypeOK ==
  /\ disabled \subseteq Providers
  /\ exact \in [TierNames \X Prompts -> Requests \union {None}]
  /\ semantic \in Seq(Requests)
  /\ Len(semantic) <= CacheSize \/ \E s \in Settings : s.entries = 0
  /\ books \in [exact : Nat, semantic : Nat, misses : Nat, fallbacks : Nat]
  /\ job \in [Requests -> Jobs]
  /\ pc \in [Requests -> Labels]
  /\ seen \in [Requests -> SUBSET Providers]
  /\ hop \in [Requests -> Nat \ {0}]
  /\ attempts \in [Requests -> Nat]
  /\ served \in [Requests -> Requests \union {None}]
  /\ paid \subseteq Requests

\* A request with job k may be given the answer to job j: both take part in caching,
\* for the same tier, and their prompts are the same or alike.
MayShare(j, k) ==
  /\ j.caching /\ k.caching
  /\ j.tier = k.tier
  /\ (j.prompt = k.prompt \/ <<j.prompt, k.prompt>> \in Similar)

\* The response o may be returned to request r: r's own provider call gave it, or
\* that of a request it may share with.
Owed(o, r) == o \in paid /\ (o = r \/ MayShare(job[o], job[r]))

\* No request is answered with a response that another tier, an unlike prompt or
\* a request with use_cache false has produced, however fills, evictions and
\* lookups interleave.
ResponsesAreOwed == \A r \in Requests : served[r] # None => Owed(served[r], r)

\* A 503 means that every hop the request may use has been tried, and an answer
\* that all such hops before it have: the attempts reported are those hops.
TriedBefore(r, n) == {i \in 1 .. n : i <= Len(Route(r)) /\ Route(r)[i].provider \notin seen[r]}

NoHopForgotten ==
  \A r \in Requests :
    /\ pc[r] = "exhausted" => attempts[r] = Cardinality(TriedBefore(r, Len(Route(r))))
    /\ r \in paid => attempts[r] = Cardinality(TriedBefore(r, hop[r]))

\* Every paid answer is booked once, is on its way to the books, or belongs to a
\* request that was lost; hits are booked apart from them.
BooksBalance ==
  LET ended == {r \in Requests : pc[r] = "done"}
  IN  /\ books.misses = Cardinality(ended \intersect paid)
      /\ books.exact + books.semantic = Cardinality(ended \ paid)
      /\ books.fallbacks = Cardinality({r \in ended \intersect paid : attempts[r] > 1})

\* "a literal model name to force a specific model" (README.md:217-218): the
\* first call made for a request that names a model goes to that model.
ForcedModelIsCalled ==
  [][\A r \in Requests :
       CallProvider(r) /\ attempts[r] = 0 /\ job[r].model \notin TierNames \union {"auto"} =>
         Route(r)[hop[r]].model = job[r].model]_vars

=============================================================================
