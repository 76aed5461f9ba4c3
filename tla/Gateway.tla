------------------------------ MODULE Gateway ------------------------------
(***************************************************************************)
(* POST /v1/chat/completions from end to end (app/api/routes.py, lines     *)
(* 23-131): the API key, the rate limit, the key's usage count, the route, *)
(* the reply, and the entries pushed to the event log on the way           *)
(* (app/core/event_log.py). The route is ModelRouter's, step by step.      *)
(*                                                                         *)
(* Whether a key is valid and whether the limit lets a request through is  *)
(* left open here: ApiKeyStore and RateLimiter say when.                   *)
(***************************************************************************)
EXTENDS ModelRouter

VARIABLES
  stage,     \* where each request is in chat_completions
  touches,   \* history: the times ApiKeyStore.touch was called, for any key
  pending,   \* entries a request is about to push
  events     \* history: the entries ever pushed to logs:events

gateVars == <<stage, touches, pending, events>>
allVars == <<vars, gateVars>>

Stages == {"outside", "key", "limit", "touch", "route", "denied", "limited",
           "answered", "lost"}

Over == {"outside", "answered", "lost"}

\* An entry names its request and, for a provider_error, the hop it is about: the
\* one past the last when it says that all are exhausted. A circuit_trip stands in
\* the place of a provider_error and is not told apart.
Entry(r, type, n) == [trace |-> r, type |-> type, hop |-> n]

Logging(r) == \E e \in pending : e.trace = r

Move(r, to) == stage' = [stage EXCEPT ![r] = to]

\* log is called: the entry is made, and pushed in a step of its own.
Note(r, type, n) == pending' = pending \union {Entry(r, type, n)}

GatewayInit ==
  /\ Init
  /\ stage = [r \in Requests |-> "outside"]
  /\ touches = 0
  /\ pending = {}
  /\ events = {}

-----------------------------------------------------------------------------
(* Before the route *)

Come(r) ==
  /\ stage[r] = "outside"
  /\ Arrive(r)
  /\ Move(r, "key")
  /\ UNCHANGED <<touches, pending, events>>

\* _authenticate, and the configuration is read.
Authenticate(r) ==
  /\ stage[r] = "key"
  /\ Move(r, "limit")
  /\ UNCHANGED <<vars, touches, pending, events>>

\* HTTP 401: nothing of the rest is done.
Deny(r) ==
  /\ stage[r] = "key"
  /\ Move(r, "denied")
  /\ Abandon(r)
  /\ Note(r, "auth_fail", 0)
  /\ UNCHANGED <<touches, events>>

\* Mutant of PassLimit: the key's usage is not counted.
PassUncounted(r) ==
  /\ stage[r] = "limit"
  /\ Move(r, "route")
  /\ UNCHANGED <<vars, touches, pending, events>>

\* RateLimiter.check
PassLimit(r) ==
  /\ stage[r] = "limit"
  /\ Move(r, "touch")
  /\ UNCHANGED <<vars, touches, pending, events>>

\* HTTP 429
HitLimit(r) ==
  /\ stage[r] = "limit"
  /\ Move(r, "limited")
  /\ Abandon(r)
  /\ Note(r, "rate_limit", 0)
  /\ UNCHANGED <<touches, events>>

\* HSET last_used_at and HINCRBY request_count. The count itself is also written by
\* replicas that seed (api_keys.py:66-77); ApiKeyStore has both writers, and what of
\* the touches the count keeps.
Touch(r) ==
  /\ stage[r] = "touch"
  /\ touches' = touches + 1
  /\ Move(r, "route")
  /\ UNCHANGED <<vars, pending, events>>

-----------------------------------------------------------------------------
(* The route, and what it logs *)

\* Steps of route that log nothing.
Proceed(r) ==
  /\ stage[r] = "route" /\ ~ Logging(r)
  /\ \/ Lookup(r)
     \/ CallProvider(r) \/ ProviderAnswers(r)
     \/ KeepExact(r) \/ KeepSemantic(r)
  /\ UNCHANGED gateVars

\* Mutant of GiveUpHop: a hop that is skipped is not logged.
GiveUpHopSilently(r) ==
  /\ stage[r] = "route" /\ ~ Logging(r)
  /\ \/ SkipDisabled(r) /\ UNCHANGED pending
     \/ (ShortCircuit(r) \/ ProviderFails(r)) /\ Note(r, "provider_error", hop[r])
  /\ UNCHANGED <<stage, touches, events>>

\* Mutant of GiveUpHop: the entry before is not waited for.
GiveUpHopInHaste(r) ==
  /\ stage[r] = "route"
  /\ SkipDisabled(r) \/ ShortCircuit(r) \/ ProviderFails(r)
  /\ Note(r, "provider_error", hop[r])
  /\ UNCHANGED <<stage, touches, events>>

\* A hop is skipped, short-circuited or fails. The fourth way, a hop whose provider
\* or breaker is missing (router.py:164-167), would not be logged; main.py leaves none.
GiveUpHop(r) ==
  /\ stage[r] = "route" /\ ~ Logging(r)
  /\ SkipDisabled(r) \/ ShortCircuit(r) \/ ProviderFails(r)
  /\ Note(r, "provider_error", hop[r])
  /\ UNCHANGED <<stage, touches, events>>

\* The loop ends without an answer: all providers exhausted. With a chain that is
\* empty (router.py:145-147) there would be no entry; see ChainsAssumption.
RunOut(r) ==
  /\ stage[r] = "route" /\ ~ Logging(r)
  /\ Exhaust(r)
  /\ Note(r, "provider_error", hop[r])
  /\ UNCHANGED <<stage, touches, events>>

\* Mutant of Book: a hit is not logged.
BookHitSilently(r) ==
  /\ stage[r] = "route" /\ ~ Logging(r)
  /\ \/ TallyHit(r) /\ UNCHANGED pending
     \/ TallyMiss(r) /\ Note(r, "request", 0)
  /\ UNCHANGED <<stage, touches, events>>

\* record_request, and then the entry of the request itself.
Book(r) ==
  /\ stage[r] = "route" /\ ~ Logging(r)
  /\ TallyHit(r) \/ TallyMiss(r)
  /\ Note(r, "request", 0)
  /\ UNCHANGED <<stage, touches, events>>

\* LPUSH. The LTRIM that goes with it drops the oldest of 1000 entries and makes no
\* difference to what has been pushed; TripLog has it.
PushEntry(r) ==
  /\ \E e \in pending :
       /\ e.trace = r
       /\ events' = events \union {e}
       /\ pending' = pending \ {e}
  /\ UNCHANGED <<vars, stage, touches>>

\* Mutant of Reply: the entry is pushed in the background.
ReplyAtOnce(r) ==
  /\ \/ stage[r] \in {"denied", "limited"}
     \/ stage[r] = "route" /\ pc[r] \in {"done", "exhausted"}
  /\ Move(r, "answered")
  /\ UNCHANGED <<vars, touches, pending, events>>

\* The response, or the HTTPException, leaves.
Reply(r) ==
  /\ ~ Logging(r)
  /\ \/ stage[r] \in {"denied", "limited"}
     \/ stage[r] = "route" /\ pc[r] \in {"done", "exhausted"}
  /\ Move(r, "answered")
  /\ UNCHANGED <<vars, touches, pending, events>>

\* The process dies, the client goes away, or something raises: a Redis command,
\* the push included, or what is neither ProviderError nor CircuitOpenError.
Break(r) ==
  /\ stage[r] \notin Over
  /\ IF pc[r] \in Ended THEN UNCHANGED vars ELSE Abandon(r)
  /\ Move(r, "lost")
  /\ pending' = {e \in pending : e.trace # r}
  /\ UNCHANGED <<touches, events>>

ChatCompletions(r) ==
  \/ Authenticate(r) \/ Deny(r) \/ PassLimit(r) \/ HitLimit(r) \/ Touch(r)
  \/ Proceed(r) \/ GiveUpHop(r) \/ RunOut(r) \/ Book(r) \/ PushEntry(r) \/ Reply(r)

Around ==
  /\ \/ \E key \in TierNames \X Prompts : Expire(key)
     \/ \E p \in Providers : Disable(p) \/ Enable(p)
  /\ UNCHANGED gateVars

GatewayNext ==
  \/ \E r \in Requests : Come(r) \/ ChatCompletions(r) \/ Break(r)
  \/ Around

GatewaySpec == GatewayInit /\ [][GatewayNext]_allVars

\* The event loop goes on with every request, and each call it awaits returns or
\* raises. Clients need not come.
FairGatewaySpec == GatewaySpec /\ \A r \in Requests : WF_allVars(ChatCompletions(r))

-----------------------------------------------------------------------------
(* Properties *)

Booked == books.exact + books.semantic + books.misses

LoggedAnswers == {e.trace : e \in {e \in events : e.type = "request"}}

\* The state is well formed; a request has one entry at a time to push, and
\* what ModelRouter has of it agrees with its stage.
GatewayTypeOK ==
  LET entries == [trace : Requests, type : {"auth_fail", "rate_limit", "request", "provider_error"},
                  hop : Nat]
  IN  /\ TypeOK
      /\ stage \in [Requests -> Stages]
      /\ touches \in Nat
      /\ events \subseteq entries
      /\ pending \subseteq entries
      /\ \A d, e \in pending : d.trace = e.trace => d = e
      /\ \A r \in Requests :
           /\ stage[r] = "outside" <=> pc[r] = "new"
           /\ stage[r] \in {"key", "limit", "touch"} => pc[r] = "arrived"

\* Whose touch is not in the books: the requests on their way to them and those told
\* that all providers are exhausted; and whose may be: those that broke unbooked.
Unbooked ==
  {r \in Requests : pc[r] = "exhausted" \/ (stage[r] = "route" /\ pc[r] # "done")}
Broken == {r \in Requests : stage[r] = "lost" /\ pc[r] = "lost"}

\* Usage and books agree: every answer booked, and every request that went into the
\* route, was counted against its key once, and nobody else was but for some of the
\* requests that broke - no refused request, however requests run side by side.
TouchesMatchBooks ==
  /\ Booked + Cardinality(Unbooked) <= touches
  /\ touches <= Booked + Cardinality(Unbooked) + Cardinality(Broken)

\* The books and the log tell the same story: every booked answer has its entry,
\* is about to push it, or was lost in between - the client of a lost one got an
\* error although its answer is booked.
BooksAgreeWithLog ==
  LET unlogged == {r \in Requests : pc[r] = "done"} \ LoggedAnswers
  IN  /\ Booked = Cardinality(LoggedAnswers) + Cardinality(unlogged)
      /\ \A r \in unlogged : Logging(r) \/ stage[r] = "lost"

\* "Every chat completion (cache hit or live call), provider failure ... and
\* rate-limit rejection gets pushed here" (event_log.py:4-5): by the time a
\* request is answered, its outcome and every hop it has given up are logged.
AnswersAreLogged ==
  \A r \in Requests : stage[r] = "answered" =>
    /\ pc[r] = "lost" => \E type \in {"auth_fail", "rate_limit"} : Entry(r, type, 0) \in events
    /\ pc[r] = "done" => Entry(r, "request", 0) \in events
    /\ pc[r] = "exhausted" => Entry(r, "provider_error", hop[r]) \in events
    /\ \A n \in 1 .. hop[r] - 1 : Entry(r, "provider_error", n) \in events

\* What ChatPromise sees of a state. How far each request has come:
Statuses ==
  [r \in Requests |->
     CASE stage[r] \in Over -> stage[r]
       [] stage[r] \in {"denied", "limited"} -> "refused"
       [] stage[r] = "route" /\ pc[r] = "done" -> IF r \in paid THEN "fresh" ELSE "cached"
       [] stage[r] = "route" /\ pc[r] = "exhausted" -> "unavailable"
       [] stage[r] = "route" /\ pc[r] \notin {"done", "exhausted"} -> "charged"
       [] OTHER -> "asked"]

Answers == [r \in Requests |-> IF pc[r] = "done" THEN served[r] ELSE None]

Tally == [fresh |-> books.misses, cached |-> books.exact + books.semantic]

\* The entry e tells how the request r has ended.
Tells(e, r) ==
  /\ e.trace = r
  /\ \/ pc[r] = "done" /\ e.type = "request"
     \/ pc[r] = "exhausted" /\ e.type = "provider_error" /\ e.hop = hop[r]
     \/ pc[r] = "lost" /\ e.type \in {"auth_fail", "rate_limit"}

Journal == {r \in Requests : \E e \in events : Tells(e, r)}

Sharing == {pair \in Jobs \X Jobs : MayShare(pair[1], pair[2])}

Promise == INSTANCE ChatPromise WITH
  status <- Statuses, answer <- Answers, charges <- touches, tally <- Tally, journal <- Journal

\* The whole of the endpoint, step by step, is that: however requests interleave,
\* fail over, hit and fill the caches or break off, each is charged once before it
\* is served, settled once with an answer it is owed, booked as what it was, and
\* in the log before its client hears of it.
KeepsPromise == Promise!Spec

\* An upper bound of the steps ahead of a request in the route: three for each hop
\* left - the call, its failure, the entry - and those around the loop ...
RouteAhead(label, hopsLeft) ==
  CASE label = "arrived" -> 3 * hopsLeft + 8
    [] label = "exact" -> 3 * hopsLeft + 7
    [] label = "semantic" -> 3 * hopsLeft + 6
    [] label = "hop" -> 3 * hopsLeft + 5
    [] label = "calling" -> 3 * hopsLeft + 4
    [] label = "keepExact" -> 6
    [] label = "keepSemantic" -> 5
    [] label \in {"tallyExact", "tallySemantic", "tallyMiss"} -> 4
    [] OTHER -> 1

\* ... and in the endpoint.
StepsAhead(place, label, hopsLeft, toPush) ==
  CASE place = "outside" -> 3 * hopsLeft + 12
    [] place = "key" -> 3 * hopsLeft + 11
    [] place = "limit" -> 3 * hopsLeft + 10
    [] place = "touch" -> 3 * hopsLeft + 9
    [] place = "route" -> RouteAhead(label, hopsLeft) + toPush
    [] place \in {"denied", "limited"} -> 1 + toPush
    [] OTHER -> 0

HopsLeft(r) == Len(Route(r)) + 1 - hop[r]

WorkAhead(r) == StepsAhead(stage[r], pc[r], HopsLeft(r), IF Logging(r) THEN 1 ELSE 0)

\* Every step of a request brings it nearer to its end, and nobody's step takes it
\* further away: no retry, no skipped hop, no log entry and no administrator sends
\* it back. Together with fairness, that is why every request is answered.
NoStepBack ==
  [][\A r \in Requests :
       \/ UNCHANGED <<stage[r], pc[r], hop[r], Logging(r)>>
       \/ WorkAhead(r)' < WorkAhead(r)]_allVars

\* Every request that comes in is answered in the end, unless it breaks: the
\* chains are walked to their ends whatever administrators and other requests
\* do. With each request coming at most once, that is: in the end none is left.
EveryRequestIsAnswered == <>[](\A r \in Requests : stage[r] \in Over)

=============================================================================
