# A verification project for NeuroRouter

NeuroRouter is an LLM gateway: FastAPI replicas without state of their own, all of it in one Redis,
in front of one or two LLM providers. This directory holds TLA+ modules that model its concurrent
core, TLC configurations that model-check them, and TLAPS proofs about them.

    tlc -workers 2 -config MCBreakerSafety.cfg MCCircuitBreaker
    tlapm CircuitBreakerProofs.tla

`PROJECT.json` lists components, runs, mutants (plausible bugs each property catches), the source
lines every definition models, findings, hazards and theorems.

## The system

| Component | State | Operations | Correct when |
|---|---|---|---|
| Circuit breaker, `core/circuit_breaker.py` | Redis, per provider: failure counter with a 60 s lifetime, `opened_at`, a probe lock with the recovery time as lifetime | `get_state`, `before_call`, `record_success`, `record_failure` | only real failures trip it, an open circuit goes quiet, one probe at a time, it closes again |
| Rate limiter, `core/rate_limiter.py` | Redis, per API key: sorted set of request times, with a lifetime | `check`, `remaining` | a window never holds more than it may, nobody is forgotten, `retry_after` is honest |
| Router, `core/router.py` | none between requests; tier, hop and attempts within one | `_resolve_tier`, `route` | every usable hop is tried in order, answers go to those they are owed to, work is booked once |
| Caches, `core/cache.py` | Redis: exact entries with a lifetime, one bounded list of semantic entries | `get`, `set` of both | entries are used only for the same tier and a same or similar prompt |
| Cost tracker, `core/cost_tracker.py` | Redis counters | `record_request`, `snapshot`, `record_circuit_trip` (never called) | hits, misses and fallbacks add up |
| Provider control, `core/provider_control.py` | Redis set of disabled providers | `disable`, `enable`, `disabled_set` | a disabled provider is not called |
| Runtime configuration, `core/runtime_config.py` | Redis hash of overrides; per replica a copy for 2 s | `get`, `update`, `reset` | a change reaches every replica within 2 s |
| API keys, `core/api_keys.py` | Redis hash per key and an index set | `seed_if_empty`, `create`, `revoke`, `validate`, `touch`, `list`, `delete` (never called) | a revoked key stays revoked and serves nobody, uses are counted once, all seeds are planted |
| Event log, `core/event_log.py` | Redis list of 1000 entries | `log`, `recent`, `get` | it stays within its size, and what happened is in it: every answer, every hop given up, every trip |
| Classifier, `core/classifier.py` | none | `classify` | scores lie in 0..1, more signals never mean a lower tier |
| Endpoints, `api/*.py`, `main.py` | the objects above | authenticate, read the configuration, check the limit, touch the key, read the disabled set, route, log, reply | nothing is booked that was not counted, an answered request is logged, every request ends |

Components interact only through Redis, by commands and MULTI pipelines that are atomic one by one
and interleave freely between coroutines and replicas. There are no locks but the probe lock, no
retries, and nothing that cleans up after a coroutine that dies. What is hard about this code
follows from that: state is read, acted on after an `await`, and acted on again; lifetimes run out
under their owners; and any step may be the last of its request. `hazards` in `PROJECT.json` lists
these at their lines.

## Modules

* **CircuitBreaker**: one provider's breaker and the part of `route` that drives it. A caller is a
  coroutine; its `pc` says which `await` it is at: `gate` (the state is read), `calling`, `won` or
  `failed` (the answer is in hand), `counted`, `trip`, `release` (inside `record_failure`). One
  action per Redis command. Time is kept as ages and remaining lifetimes, so that the clock needs
  no bound: `openedAge` stops at the longest recovery time, since the code compares it with nothing
  else. The breaker is built anew for every request with the configuration of that moment
  (`routes.py:44-51`), so that callers under way together may differ in threshold and recovery time
  (`Configs`). The steps that use them take any of `Configs`; one caller may even mix two, which
  allows more than the code does and saves a copy of the configuration for each. What is promised is
  promised for the lowest threshold and the shortest recovery time. A recovery time may be 0: then
  Redis refuses the probe lock, and the caller leaves by `Abandon`.
  `Abandon` ends a caller anywhere: a crash, a lost client, a Redis error or an exception that is
  not `ProviderError`, for which the router has no handler. `AdminReset` is reset-circuit.
* **RateLimiter**: `check` for one key, its two pipelines and its ZRANGE as separate steps, the
  time each request has read at entry travelling with it; `Remaining`, which trims with a time of
  its own; expiry of the whole key. `remaining` sends its two commands one by one, but the second
  only counts. Every request has the limit and window of the configuration it has read (`conf`), and
  an administrator may change them from one request to the next (`Configs`): a short window trims
  what a longer one would count, and an EXPIRE may bring the end of the key forward. The promise is
  therefore stated for the largest limit and the shortest window.
* **SlidingWindow**: what the limiter promises, with no sorted set, no lifetimes and no steps. The
  refinement maps `granted` to the admitted requests with their times.
* **ModelRouter**: `route` for any number of requests at once over the shared caches, counters and
  disabled set. A response is named by the request whose provider call produced it. The classifier,
  the choice of the best semantic entry and the breaker's verdict are free choices. The history
  variable `paid` records whose provider call has answered. A request that is `done` has been
  booked; after that the code only logs the event and builds the response. The caches, too, are built
  anew for every request (`routes.py:38-43`): a lookup or a fill takes any of `Settings`, a number of
  entries and what is similar enough. The number may be 0, with which `LTRIM 0 -1` cuts and `LRANGE 0
  -1` leaves out nothing. `ChainsAssumption` says that no chain is empty: `main.py:50-81` gives every
  tier at least one hop, and only hops of providers it has built with a breaker each, so that two
  branches of `route` are never taken and are not modelled: the 503 that is not logged
  (`router.py:145-147`) and the hop without a provider (`router.py:164-167`).
* **RouterHistory** adds two histories to ModelRouter's steps and changes none of them: which
  providers were disabled, and whether the exact entry was there, when a request came in. Only two
  properties speak of them, and Gateway does not carry them.
* **RuntimeConfig**: the overrides' hash and each replica's copy. An HGETALL takes effect at Redis
  (`Fetch`) before the coroutine that sent it goes on (`Install`), and anything may happen in
  between: `Install` then replaces what others have installed or invalidated. What a write stores is
  named by its number, `written` records when each came to be. Each call is made once; calls and
  copies vanish with the replica that is restarted.
* **ApiKeyStore**: the keys' hashes and index, replicas that seed when they start and may die between
  two seeds, an administrator whose revoke is an EXISTS and an HSET, requests that are validated in
  one step and counted in another. Names and times are left out. `calm`, `grace`, `kept` and
  `cutShort` are the histories the properties need: a replica that is already seeding writes its
  seeds anew, revoked or used, so what is promised is promised for the time nobody seeds.
* **TripLog** extends CircuitBreaker by the loop around it: the state read before the call and
  after the failure, the decision between `circuit_trip` and `provider_error`, the capped log. A
  Redis error inside `record_failure` is swallowed (`Swallow`), any other ends the request.
* **Gateway** extends ModelRouter to the whole of `chat_completions`: authentication, limit, touch of
  the key, route, log entries and reply. It runs the router's own actions, each between two pushes to
  the log, and adds what the endpoint does before and after. The verdicts on the key and the limit
  are free choices. `touches` is a history, the number of calls of `ApiKeyStore.touch`, and not the
  `request_count` they increment: that field is also written, back to 0, by a replica that seeds
  (`api_keys.py:66-77`), and ApiKeyStore models both writers and says what of the touches it keeps
  (`UsageIsCounted`). `events` is a history, too: the entries ever pushed, from which the list in Redis
  keeps the last 1000 (TripLog has the LTRIM). A trip entry stands
  in the place of a `provider_error`; TripLog tells them apart.
* **ChatPromise**: what the endpoint promises, with no caches, hops, counters or half-written log. A
  request is refused or charged once; it gets an answer of its own call or of one it may share with,
  or is told that there is none, and that only if none was paid for; an answer is booked as it is
  settled; the client hears of an outcome only once it is written down. The refinement in Gateway
  reads `status` off `stage`, `pc` and the entry being pushed (`Statuses`): an answer is settled by
  the counter (`Book`), not by the provider and not by the log.
* **Classifier**: the score as a function of what the patterns find, in 2400ths, in which every
  weight and quotient is whole. No run evaluates it; it is proved about.
* **MC...** modules give TLC its constants; **...Proofs** modules hold the theorems.

## Runs

| Run | Instance | Question |
|---|---|---|
| `breaker_safety` | 3 callers, threshold 2 with recovery 4 or threshold 3 with recovery 3, window 6, calls up to 1 tick; about 880 000 states | With short calls: one probe at a time, a quiet open circuit, earned trips, and late successes only of probes? |
| `breaker_recovers` | 2 callers, the same two configurations, window 4, fairness; about 120 000 states | Does the circuit close for good once the provider works, whatever was left behind? |
| `breaker_two_probes` | calls as long as the recovery time | No: a second probe goes out when the lock expires |
| `breaker_failed_probe` | 1 caller, window longer than recovery | Does a failed probe re-open? Not when the counter has expired |
| `limiter_window` | 4 requests, limit 2 with window 2 or limit 1 with window 3, 2 at a time, clock to 4; about 560 000 states, 2.5 minutes | Bounded overshoot, nobody forgotten, honest `retry_after`, sliding window implemented? |
| `limiter_overshoot` | 3 requests, limit 1, 2 at a time | Never more than the limit? No: two may count before either adds |
| `router` | 2 requests, 2 alike prompts, 2 tiers of 2 hops, 1 semantic entry, 2 similarity thresholds; about 670 000 states | Do caches serve what they owe, are hops all tried, disabled providers quiet, books balanced? |
| `router_forced_model` | the same, a client asking for `gpt-4o` | Is a named model the one that is called? No: the tier's first hop is |
| `config` | 3 calls of get, update or reset, 2 replicas, copies of 2 ticks, clock to 5; about 850 000 states | Is a configuration at most that old, and does an update answer with its own effect? |
| `keys` | 2 replicas, 2 requests, 3 keys of which 2 are seeds; about 630 000 states | Do revocations stick and take effect, are uses counted once, seeds planted? |
| `gateway` | 2 requests of one prompt, 1 tier of 2 hops, 1 semantic entry, fairness; about 330 000 states, 2 minutes | Do touches, books and log agree, is the promise implemented, is no request sent back, and does every request end? |
| `trip_unreported` | 2 callers, threshold 2, nothing lost, Redis prompt | Is every trip logged? No: an earlier call's success may close the circuit before it is read back |

A run marked "No" checks what the repository says of itself, and TLC's trace shows how the code
departs from it; `findings` quotes the lines.

### Bounds

* The breaker's threshold is 2 so that one failure alone does not trip it, its window is longer
  than the recovery time as in the defaults (60 s and 30 s), and three callers let a late failure,
  a probe and a would-be second probe meet. `MaxFailures` stops the counter one above the
  higher threshold; the code compares it with nothing higher. The two configurations cross a lower
  threshold with a longer recovery time, so that one caller's probe lock and reading of the state
  outlast, or fall short of, another's.
* `CallLimit` is how long a caller may take from `get_state` to its last command. The code sets no
  such limit: the provider clients time out per phase after 30 s, which is the default recovery
  time. `ShortCalls` (`2 * CallLimit < Recovery`) is therefore an assumption about the deployment,
  named in every theorem that needs it; `breaker_two_probes` shows what happens without it.
* `Concurrency` is how many requests of one key are inside `check` at once. The code has no such
  bound either; the limiter's real promise is stated in terms of it, `Limit + Concurrency - 1`.
* `MaxTime` lets two short windows pass, and one long with a tick to spare; four requests fill a window
  of capacity three and come back. The shorter window is 2 ticks, so that there are members that are
  older than the current tick and still count: a trim with a stale clock, a trim with the other window,
  the expiry of the key and its renewal with a shorter lifetime all meet such members in this run
  (an EXPIRE that is a tick short, or counts from the member's stamp, loses one). The two configurations
  trade the limit against the window, so that each undoes what the other has counted. The run checks no deadlock: once the clock has stopped and all
  requests have ended, nothing is left.
* In the router's run one semantic entry is enough for fills to evict each other, and of the two
  similarity thresholds one takes the two prompts for alike; `medium` has the
  chain of `simple` and is left out. Requests and prompts are interchangeable. The proofs of
  `ModelRouterProofs` cover every number of requests, chain and cache size.
* In `gateway` one prompt lets the second request be answered from the first one's entry, expired
  or not; the chain is that of the complex tier. There is no symmetry, since the run checks liveness.
* In `keys` two seeds make a death between two of them possible, and the third key is one an
  administrator creates; two replicas start and seed side by side, two requests may share a key.
* `config` starts at time `CacheSeconds`, since the stamp 0.0 with which copies are invalidated is
  the epoch; three ticks on, a copy has expired and been read again. Three calls are a refresh
  under way, an update and a reader on one replica or two.

### Fairness

`breaker_recovers` assumes weak fairness of time and of each caller's next step: coroutines are
scheduled, Redis answers, provider calls time out (httpx), and requests keep coming, since only
traffic probes a half-open circuit. `Recovers` has as its hypothesis that from some moment no call
fails and no caller is lost. The breaker's violation runs use `PromptSpec` (and `trip_unreported` its
like, `PromptLogSpec`), in which nothing is lost and Redis takes no time, so that what they show
cannot be put down to a slow step or a crash.

`gateway` assumes weak fairness of each request's own steps and nothing else: the event loop runs
what is ready, and every call a handler awaits returns or raises. Clients need not come, nothing
need expire, administrators need not act, and any request may break at any step.
`EveryRequestIsAnswered` then says that the loop over the hops ends, whatever others do.

The clocks of replicas and Redis are taken to agree.

## Proofs

For every value of the constants, under the named ASSUMEs of the modules (finite sets of callers or
requests, positive windows, no empty chain, configurations within their least and largest values):

* **CircuitBreakerProofs.** `TypeCorrect`. `SingleProbeCorrect` and `QuietWhileOpenCorrect` are not
  inductive; the invariant behind both is `LateCallersHoldTheLock`. A caller is late when it began
  more than one `CallLimit` after the recorded opening time. Whoever is past the gate and late has
  the lock, alone, and the lock still has `Recovery` minus the caller's age to run; callers that
  are not late are gone before the circuit is half-open, which is where `ShortCalls` is used: a
  caller on its way to re-open or release is not late, so it cannot do so while a probe is out.
  `TripsAreEarnedCorrect` follows from `FailuresAreErrors`: counted failures and those waiting to
  be counted are never more than the ProviderErrors since the last clearing.
  `LateSuccessIsAProbeCorrect` is the same lock invariant at the step that closes the circuit.
  All of these hold while thresholds and recovery times change; `SingleProbe` and its like need
  `ShortCalls` for the shortest recovery time.
  `NoRecoveryStaysShut` is about the boundary: while every recovery time is 0, which the admin API
  accepts, no probe is ever sent, and once the calls in flight are over an open circuit is closed
  by nobody but an operator. `FailedProbeReopensAtOne` is the other side of `breaker_failed_probe`:
  while no threshold is above 1, and with a prompt Redis, a failed probe does leave the circuit open.
* **RateLimiterProofs.** `RecentAreCountedCorrect` needs that the key outlives its members
  (`KeyOutlivesMembers`); `WindowBoundedCorrect` that room is reserved before it is taken
  (`RoomIsReserved`: members and requests about to become members are at most the capacity).
  `RetryFindsRoomCorrect` follows from both, `Implementation` is the refinement to SlidingWindow.
  `AtMostLimitAlone`: one check at a time keeps the limit itself, so the race of `limiter_overshoot`
  is all there is to it.
* **ModelRouterProofs.** `TypeCorrect` (and `HistoryTypeCorrect`, with the histories) with the bound
  of the semantic list;
  `ResponsesAreOwedCorrect` from `OwedInv` (every cache entry is paid for, comes from a caching
  request and sits under its own key; only caching requests come to the caches);
  `DisabledIsQuietCorrect` from `QuietSeen`; `WarmRequestsAreFreeCorrect` from `WarmPath`;
  `NoHopForgottenCorrect` from `HopsCounted` (at every hop the attempts are the hops before it that
  were not disabled), and so does `AttemptsKeepOrder`: the n-th attempt, a call or a short circuit, is
  made at the n-th hop that was not disabled, which says what a client that names a model does get; `BooksBalanceCorrect` by the cardinalities of the sets of finished requests.
  `HistoryIsSpec` carries theorems about `Spec` over to `HistorySpec`.
* **RuntimeConfigProofs.** `TypeCorrect`. `BoundedStalenessCorrect` from `StampsAreHonest`: a copy,
  and a refresh under way, was current at the time it is stamped with or after it, because get reads
  the clock before it sends HGETALL. `UpdateSeesItselfCorrect` from `SeesInv`. What does not hold
  is that later reads on the replica see the update too: a refresh that was under way re-installs
  the older configuration, for what is left of its two seconds.
* **ApiKeyStoreProofs.** Keys never leave the index, so no replica begins to seed once there is one,
  and the time in which records may be overwritten ends once for all: `SeedingIsOver` as soon as a
  key was revoked or counted while nobody was seeding. `RevocationSticksCorrect` and
  `UsageIsCountedCorrect` follow; `ServedInGraceCorrect` needs `GraceIsNoted`, and
  `SeedsArePlantedCorrect` that somebody goes on with what has been begun (`SomebodyPlants`).
* **TripLogProofs.** `HopImplementsBreaker`: a behaviour of the hop is one of CircuitBreaker, whose
  theorems then hold of it. `AlarmsAreRealCorrect` from `UnwitnessedIsClosed`: a caller that saw the
  circuit closed is right about it until it has witnessed an opening. `LogTypeCorrect` is the bound
  of the log. `TripsAreReportedAlone`, from `InTurn`: with one request at a time every trip is
  logged, so that `trip_unreported` takes two hops that overlap.
* **GatewayProofs.** `GatewayImplementsRouter`: a behaviour of the endpoint is one of ModelRouter, so
  that all theorems of ModelRouterProofs hold of it; `BooksBalance` is used that way. The invariant
  of its own says where each request is (`Staged`), what it has logged or is about to (`Trails`),
  that it pushes one entry at a time (`OneEach`, `Pushers`), and that each touch is that of a request
  booked, in the route, exhausted, or broken (`TouchesCounted`), from which `TouchesMatchBooksCorrect`
  follows with `BooksBalance`. `GatewayKeepsPromise` is the refinement to
  ChatPromise. It takes ModelRouter's `ResponsesAreOwed` and `BooksBalance` through
  `GatewayImplementsRouter`, that an answer at hand has been paid for (`PaidPath`, `ServedPath`),
  and that the outcome of whoever is answered is in the log (`Trails`); then each action is one step
  of the promise or none (`EntryKeepsPromise` up to the limit, `RouteKeepsPromise` in the router,
  `SettlingKeepsPromise` for the counters, `PushKeepsPromise`, `ReplyKeepsPromise`,
  `BreakKeepsPromise`). `NoStepBackCorrect` and `StepsAreBounded` are the part of
  `EveryRequestIsAnswered` that needs no fairness: `WorkAhead`, the steps a request can still take,
  lies within three for each hop and twelve, falls with every step of its own and rises with nobody's.
* **ClassifierProofs.** `ScoreIsBounded`, `ClassifyIsMonotone` and `ShortProseIsNotComplex`, for every
  combination of findings, by arithmetic.

Model-checked only: `Recovers` and `EveryRequestIsAnswered`, which are liveness and beyond the
prover; what is proved towards the second is that no request can take infinitely many steps. The five
properties that do not hold have violation runs; for four of them a theorem says under which condition
they do (`SingleProbeCorrect`, `FailedProbeReopensAtOne`, `AtMostLimitAlone`, `TripsAreReportedAlone`),
and for `ForcedModelIsCalled` `AttemptsKeepOrder` says what happens instead.

## Not modelled

* The provider clients' HTTP, schemas and settings, the control panel, benchmark and packaging: I/O
  and declarations, with no protocol of their own. Token and money totals: sums with no decision
  on them. `ApiKeyStore.delete` and `CostTracker.record_circuit_trip` have no caller.
* The patterns of the classifier and the vectors of the semantic cache: text and floating point. The
  tier is a free choice in the router, similarity a given relation.
* A configuration that is out of range, which nothing validates. Zero is modelled where the code gives
  it a meaning: a recovery time (`SET ... EX 0` is an error in Redis), a threshold, a limit, a number
  of semantic entries (`LTRIM 0 -1` keeps everything). Negative numbers of entries and windows of no
  length (`EXPIRE` with 0 deletes the key) are not; the ASSUMEs exclude them.
* What "rolling window" means for the failure counter (`circuit_breaker.py:84`): every failure renews
  its lifetime, so that the window has no length of its own. `TripsAreEarned` holds the code to that
  much: failures add up only while no whole window without one separates them.
* Two branches of `route` that `main.py`'s chains never reach, see ModelRouter; and what the request log
  keeps of more than 1000 entries in Gateway.
* RateLimiter, ApiKeyStore and RuntimeConfig are not composed with Gateway step by step. Their verdicts
  are free choices there, which allows all of theirs, and so are the configurations a request may have
  read in CircuitBreaker, RateLimiter and ModelRouter. With the key store the route shares
  `request_count`: ApiKeyStore has both of its writers, Gateway counts the calls of one.
