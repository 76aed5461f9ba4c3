--------------------------- MODULE GatewayProofs ---------------------------
(***************************************************************************)
(* Proofs about the whole of a chat request: it runs the route as          *)
(* ModelRouter does, so that all of ModelRouter's theorems hold of it; no  *)
(* answer is booked that was not counted against a key; what is answered   *)
(* is logged; a measure of the steps ahead only ever falls; and the whole  *)
(* implements ChatPromise.                                                 *)
(***************************************************************************)
EXTENDS Gateway, ModelRouterProofs

\* Every step of a chat request is a step of ModelRouter, or none at all.
LEMMA ChatStepsAreRouterSteps ==
  ASSUME [GatewayNext]_allVars
  PROVE  [Next]_vars
<1>1. ASSUME NEW r \in Requests, ChatCompletions(r) PROVE [Next]_vars
  BY <1>1
  DEF ChatCompletions, Authenticate, Deny, PassLimit, HitLimit, Touch, Proceed, GiveUpHop, RunOut,
      Book, PushEntry, Reply, Next, Handle, Fallback, Finish
<1>2. ASSUME NEW r \in Requests, Come(r) \/ Break(r) PROVE [Next]_vars
  BY <1>2 DEF Come, Break, Next
<1>3. CASE Around
  BY <1>3 DEF Around, Next
<1>4. CASE UNCHANGED allVars
  BY <1>4 DEF allVars, vars
<1>5. QED
  BY <1>1, <1>2, <1>3, <1>4 DEF GatewayNext

\* The chat endpoint drives the router as ModelRouter allows: seen through the
\* router's variables, every behaviour of it is one of ModelRouter
\* (routes.py:91-109).
THEOREM GatewayImplementsRouter == GatewaySpec => Spec
<1>1. GatewayInit => Init
  BY DEF GatewayInit
<1>2. [GatewayNext]_allVars => [Next]_vars
  BY ChatStepsAreRouterSteps
<1>3. QED
  BY <1>1, <1>2, PTL DEF GatewaySpec, Spec

-----------------------------------------------------------------------------
(* Where a request is *)

\* What ModelRouter has of a request agrees with its stage.
Staged ==
  /\ stage \in [Requests -> Stages]
  /\ touches \in Nat
  /\ \A r \in Requests :
       /\ stage[r] = "outside" <=> pc[r] = "new"
       /\ stage[r] \in {"key", "limit", "touch"} => pc[r] = "arrived"
       /\ stage[r] \in {"denied", "limited"} => pc[r] = "lost"
       /\ stage[r] = "route" => pc[r] # "lost"
       /\ stage[r] = "answered" => pc[r] \in Ended

\* Staged is inductive.
LEMMA StagedStep ==
  ASSUME TypeOK, Staged, [GatewayNext]_allVars
  PROVE  Staged'
<1>1. pc \in [Requests -> Labels] /\ stage \in [Requests -> Stages] /\ touches \in Nat
  BY DEF TypeOK, Staged
<1>2. ASSUME NEW r \in Requests, Come(r) \/ Authenticate(r) \/ PassLimit(r) \/ Touch(r)
      PROVE  Staged'
  BY <1>1, <1>2 DEF Come, Arrive, Authenticate, PassLimit, Touch, Move, Goto, Staged, Stages, Ended, vars
<1>3. ASSUME NEW r \in Requests, Deny(r) \/ HitLimit(r) PROVE Staged'
  BY <1>1, <1>3 DEF Deny, HitLimit, Abandon, Move, Goto, Staged, Stages, Ended
<1>4. ASSUME NEW r \in Requests, Break(r) PROVE Staged'
  BY <1>1, <1>4 DEF Break, Abandon, Move, Goto, Staged, Stages, Ended, Over, vars
<1>5. ASSUME NEW r \in Requests, Reply(r) PROVE Staged'
  BY <1>1, <1>5 DEF Reply, Move, Staged, Stages, Ended, vars
<1>6. ASSUME NEW r \in Requests, stage[r] = "route",
             \E l \in Labels \ {"new", "lost"} : pc' = [pc EXCEPT ![r] = l],
             UNCHANGED <<stage, touches>>
      PROVE  Staged'
  BY <1>1, <1>6 DEF Staged
<1>7. ASSUME NEW r \in Requests, Proceed(r) \/ GiveUpHop(r) \/ RunOut(r) \/ Book(r)
      PROVE  Staged'
  <2>1. stage[r] = "route" /\ UNCHANGED <<stage, touches>>
    BY <1>7 DEF Proceed, GiveUpHop, RunOut, Book, gateVars
  <2>2. pc' = pc \/ \E l \in Labels \ {"new", "lost"} : pc' = [pc EXCEPT ![r] = l]
    BY <1>7
    DEF Proceed, GiveUpHop, RunOut, Book, Goto, Lookup, ReadDisabled, ExactHit, ExactMiss, SemanticHit,
        SemanticMiss, SkipDisabled, CallProvider, ShortCircuit, ProviderFails, ProviderAnswers,
        Exhaust, KeepExact, KeepSemantic, TallyHit, TallyMiss, Labels
  <2>3. CASE pc' = pc
    BY <2>1, <2>3 DEF Staged
  <2>4. QED
    BY <1>6, <2>1, <2>2, <2>3
<1>8. CASE UNCHANGED <<pc, stage, touches>>
  BY <1>8 DEF Staged
<1>9. QED
  BY <1>2, <1>3, <1>4, <1>5, <1>7, <1>8
  DEF GatewayNext, ChatCompletions, PushEntry, Around, Expire, Disable, Enable, allVars, vars,
      gateVars, history


-----------------------------------------------------------------------------
(* What is logged *)

Logged(e) == e \in pending \/ e \in events

LEMMA EntryFields ==
  ASSUME NEW r, NEW type, NEW n
  PROVE  Entry(r, type, n).trace = r /\ Entry(r, type, n).type = type
  BY DEF Entry

\* The entries a request owes at its stage: one for each hop behind it, and one for
\* its outcome.
Trail(r) ==
  /\ stage[r] \in {"outside", "key", "limit", "touch", "denied", "limited"} => hop[r] = 1
  /\ stage[r] # "lost" => \A n \in 1 .. hop[r] - 1 : Logged(Entry(r, "provider_error", n))
  /\ stage[r] \in {"route", "answered"} /\ pc[r] = "done" => Logged(Entry(r, "request", 0))
  /\ stage[r] \in {"route", "answered"} /\ pc[r] = "exhausted" =>
       Logged(Entry(r, "provider_error", hop[r]))
  /\ stage[r] = "denied" => Logged(Entry(r, "auth_fail", 0))
  /\ stage[r] = "limited" => Logged(Entry(r, "rate_limit", 0))
  /\ stage[r] = "answered" /\ pc[r] = "lost" =>
       \E type \in {"auth_fail", "rate_limit"} : Logged(Entry(r, type, 0))

Trails == \A r \in Requests : Trail(r)

\* Who has something to push goes on, and only booked requests have entries as such.
Pushers ==
  /\ \A e \in pending : e.trace \in Requests /\ stage[e.trace] \notin Over
  /\ \A e : Logged(e) /\ e.type = "request" => e.trace \in Done

\* A request that does not move keeps its trail as long as its entries are kept.
LEMMA TrailElsewhere ==
  ASSUME NEW q \in Requests, Trail(q), stage'[q] = stage[q], pc'[q] = pc[q], hop'[q] = hop[q],
         \A type, n : Logged(Entry(q, type, n)) => Logged(Entry(q, type, n))'
  PROVE  Trail(q)'
  BY DEF Trail

\* The step of one request r that keeps what is logged keeps all trails, if it keeps
\* its own.
LEMMA OneTrail ==
  ASSUME Trails, NEW r \in Requests, Trail(r)',
         \A q \in Requests \ {r} : stage'[q] = stage[q] /\ pc'[q] = pc[q] /\ hop'[q] = hop[q],
         \A e : Logged(e) /\ e.trace # r => Logged(e)'
  PROVE  Trails'
<1>1. ASSUME NEW q \in Requests, q # r PROVE Trail(q)'
  <2>1. \A type, n : Logged(Entry(q, type, n)) => Logged(Entry(q, type, n))'
    BY <1>1, EntryFields
  <2>2. QED
    BY <1>1, <2>1, TrailElsewhere DEF Trails
<1>2. QED
  BY <1>1 DEF Trails

\* Trails is inductive.
LEMMA TrailsStep ==
  ASSUME TypeOK, Staged, Trails, [GatewayNext]_allVars
  PROVE  Trails'
<1>1. /\ pc \in [Requests -> Labels] /\ stage \in [Requests -> Stages]
      /\ hop \in [Requests -> Nat \ {0}]
  BY DEF TypeOK, Staged
<1>2. ASSUME NEW r \in Requests PROVE Trail(r)
  BY DEF Trails
<1>3. ASSUME NEW r \in Requests, Come(r) \/ Authenticate(r) \/ PassLimit(r) \/ Touch(r)
      PROVE  Trails'
  <2>1. /\ stage[r] \in {"outside", "key", "limit", "touch"}
        /\ \E s \in {"key", "limit", "touch", "route"} : stage' = [stage EXCEPT ![r] = s]
        /\ \E l \in {"arrived", pc[r]} : pc' = [pc EXCEPT ![r] = l]
        /\ UNCHANGED <<hop, pending, events>>
    BY <1>1, <1>3 DEF Come, Arrive, Authenticate, PassLimit, Touch, Move, Goto, vars
  <2>2. pc'[r] \notin {"done", "exhausted"} \/ pc'[r] = pc[r]
    BY <1>1, <2>1
  <2>3. hop'[r] = 1 /\ pc[r] \notin {"done", "exhausted"} /\ \A n \in 1 .. hop'[r] - 1 : FALSE
    BY <1>2, <2>1 DEF Trail, Staged
  <2>4. Trail(r)'
    BY <1>1, <2>1, <2>2, <2>3 DEF Trail
  <2>5. QED
    BY <1>1, <2>1, <2>4, OneTrail DEF Logged
<1>4. ASSUME NEW r \in Requests, Deny(r) \/ HitLimit(r) PROVE Trails'
  <2>1. /\ stage[r] \in {"key", "limit"} /\ hop' = hop /\ events' = events
        /\ pc' = [pc EXCEPT ![r] = "lost"]
        /\ \/ stage' = [stage EXCEPT ![r] = "denied"]
              /\ pending' = pending \union {Entry(r, "auth_fail", 0)}
           \/ stage' = [stage EXCEPT ![r] = "limited"]
              /\ pending' = pending \union {Entry(r, "rate_limit", 0)}
    BY <1>4 DEF Deny, HitLimit, Abandon, Note, Move, Goto
  <2>2. hop'[r] = 1 /\ \A n \in 1 .. hop'[r] - 1 : FALSE
    BY <1>2, <2>1 DEF Trail
  <2>3. Trail(r)'
    BY <1>1, <2>1, <2>2 DEF Trail, Logged
  <2>4. QED
    BY <1>1, <2>1, <2>3, OneTrail DEF Logged
<1>5. ASSUME NEW r \in Requests, Proceed(r) PROVE Trails'
  <2>1. /\ stage[r] = "route" /\ UNCHANGED <<hop, stage, pending, events>>
        /\ \E l \in Labels \ {"done", "exhausted"} : pc' = [pc EXCEPT ![r] = l]
    BY <1>5
    DEF Proceed, Goto, Lookup, ReadDisabled, ExactHit, ExactMiss, SemanticHit, SemanticMiss,
        CallProvider, ProviderAnswers, KeepExact, KeepSemantic, Labels, gateVars
  <2>2. Trail(r)'
    BY <1>1, <1>2, <2>1 DEF Trail, Logged
  <2>3. QED
    BY <1>1, <2>1, <2>2, OneTrail DEF Logged
<1>6. ASSUME NEW r \in Requests, GiveUpHop(r) PROVE Trails'
  <2>1. /\ stage[r] = "route" /\ UNCHANGED <<stage, events>> /\ pc[r] \in {"hop", "calling"}
        /\ pc' = [pc EXCEPT ![r] = "hop"] /\ hop' = [hop EXCEPT ![r] = hop[r] + 1]
        /\ pending' = pending \union {Entry(r, "provider_error", hop[r])}
    BY <1>1, <1>6
    DEF GiveUpHop, SkipDisabled, ShortCircuit, ProviderFails, AtHop, NextHop, Note, Goto
  <2>2. \A n \in 1 .. hop'[r] - 1 : n = hop[r] \/ n \in 1 .. hop[r] - 1
    BY <1>1, <2>1
  <2>3. \A n \in 1 .. hop'[r] - 1 : Logged(Entry(r, "provider_error", n))'
    BY <1>2, <2>1, <2>2 DEF Trail, Logged
  <2>4. Trail(r)'
    BY <1>1, <2>1, <2>3 DEF Trail
  <2>5. QED
    BY <1>1, <2>1, <2>4, OneTrail DEF Logged
<1>7. ASSUME NEW r \in Requests, Book(r) PROVE Trails'
  <2>1. /\ stage[r] = "route" /\ UNCHANGED <<hop, stage, events>>
        /\ pc' = [pc EXCEPT ![r] = "done"]
        /\ pending' = pending \union {Entry(r, "request", 0)}
    BY <1>7 DEF Book, TallyHit, TallyMiss, Note, Goto
  <2>2. Trail(r)'
    BY <1>1, <1>2, <2>1 DEF Trail, Logged
  <2>3. QED
    BY <1>1, <2>1, <2>2, OneTrail DEF Logged
<1>8. ASSUME NEW r \in Requests, RunOut(r) PROVE Trails'
  <2>1. /\ stage[r] = "route" /\ UNCHANGED <<hop, stage, events>>
        /\ pc' = [pc EXCEPT ![r] = "exhausted"]
        /\ pending' = pending \union {Entry(r, "provider_error", hop[r])}
    BY <1>8 DEF RunOut, Exhaust, Note, Goto
  <2>2. Trail(r)'
    BY <1>1, <1>2, <2>1 DEF Trail, Logged
  <2>3. QED
    BY <1>1, <2>1, <2>2, OneTrail DEF Logged
<1>9. ASSUME NEW r \in Requests, Reply(r) PROVE Trails'
  <2>1. /\ stage[r] \in {"denied", "limited", "route"} /\ UNCHANGED <<pc, hop, pending, events>>
        /\ stage' = [stage EXCEPT ![r] = "answered"]
    BY <1>9 DEF Reply, Move, vars
  <2>2. pc[r] = "lost" => stage[r] \in {"denied", "limited"}
    BY <2>1 DEF Staged
  <2>3. \A e : Logged(e)' <=> Logged(e)
    BY <2>1 DEF Logged
  <2>4. pc[r] = "lost" => \E type \in {"auth_fail", "rate_limit"} : Logged(Entry(r, type, 0))
    BY <1>2, <2>2 DEF Trail
  <2>5. stage'[r] = "answered" /\ pc'[r] = pc[r] /\ hop'[r] = hop[r]
    BY <1>1, <2>1
  <2>6. \A n \in 1 .. hop[r] - 1 : Logged(Entry(r, "provider_error", n))
    BY <1>2, <2>1 DEF Trail
  <2>7. pc[r] = "done" => Logged(Entry(r, "request", 0))
    BY <1>2, <2>1, <2>2, <1>1 DEF Trail, Staged
  <2>8. pc[r] = "exhausted" => Logged(Entry(r, "provider_error", hop[r]))
    BY <1>2, <2>1, <2>2, <1>1 DEF Trail, Staged
  <2>9. Trail(r)'
    BY <2>3, <2>4, <2>5, <2>6, <2>7, <2>8 DEF Trail
  <2>10. QED
    BY <1>1, <2>1, <2>3, <2>9, OneTrail
<1>10. ASSUME NEW r \in Requests, Break(r) PROVE Trails'
  <2>1. /\ stage' = [stage EXCEPT ![r] = "lost"] /\ UNCHANGED <<hop, events>>
        /\ pc' = pc \/ pc' = [pc EXCEPT ![r] = "lost"]
        /\ pending' = {e \in pending : e.trace # r}
    BY <1>10 DEF Break, Abandon, Move, Goto, vars
  <2>2. Trail(r)'
    BY <1>1, <2>1 DEF Trail
  <2>3. QED
    BY <1>1, <2>1, <2>2, OneTrail DEF Logged
<1>11. ASSUME UNCHANGED <<stage, pc, hop>>, \A e : Logged(e) => Logged(e)' PROVE Trails'
  BY <1>11, TrailElsewhere DEF Trails
<1>12. ASSUME NEW r \in Requests, PushEntry(r) PROVE Trails'
  BY <1>11, <1>12 DEF PushEntry, Logged, vars
<1>13. CASE Around \/ UNCHANGED allVars
  BY <1>11, <1>13 DEF Around, Expire, Disable, Enable, history, vars, gateVars, allVars, Logged
<1>14. QED
  BY <1>3, <1>4, <1>5, <1>6, <1>7, <1>9, <1>10, <1>12, <1>13, <1>8 DEF GatewayNext, ChatCompletions

\* Pushers is inductive.
LEMMA PushersStep ==
  ASSUME TypeOK, Staged, Pushers, [GatewayNext]_allVars
  PROVE  Pushers'
<1>1. /\ pc \in [Requests -> Labels] /\ stage \in [Requests -> Stages]
      /\ hop \in [Requests -> Nat \ {0}]
  BY DEF TypeOK, Staged
<1>2. Done \subseteq Done'
  BY <1>1, ChatStepsAreRouterSteps
  DEF Next, Handle, Lookup, Fallback, Finish, Arrive, ReadDisabled, ExactHit, ExactMiss, SemanticHit,
      SemanticMiss, AtHop, SkipDisabled, CallProvider, ShortCircuit, ProviderFails, ProviderAnswers,
      Exhaust, KeepExact, KeepSemantic, TallyHit, TallyMiss, Abandon, Ended, Expire, Disable, Enable,
      Goto, Done, history, vars
<1>3. ASSUME NEW r \in Requests,
             stage[r] \notin Over,
             \E s \in Stages \ Over : stage' = [stage EXCEPT ![r] = s],
             events' = events,
             \/ pending' = pending
             \/ \E type \in {"auth_fail", "rate_limit", "provider_error"}, n \in Nat :
                  pending' = pending \union {Entry(r, type, n)}
             \/ pending' = pending \union {Entry(r, "request", 0)} /\ r \in Done'
      PROVE  Pushers'
  <2>1. \A e \in pending' : e.trace \in Requests /\ (e \in pending \/ e.trace = r)
    BY <1>3, EntryFields DEF Pushers
  <2>2. \A q \in Requests : stage[q] \notin Over => stage'[q] \notin Over
    BY <1>1, <1>3
  <2>3. \A e \in pending' : e.trace \in Requests /\ stage'[e.trace] \notin Over
    BY <1>3, <2>1, <2>2 DEF Pushers
  <2>4. ASSUME NEW e, Logged(e)', e.type = "request" PROVE e.trace \in Done'
    <3>1. CASE Logged(e)
      BY <1>2, <2>4, <3>1 DEF Pushers
    <3>2. CASE ~ Logged(e)
      BY <1>3, <2>4, <3>2, EntryFields DEF Logged
    <3>3. QED
      BY <3>1, <3>2
  <2>5. QED
    BY <2>3, <2>4 DEF Pushers
<1>4. ASSUME NEW r \in Requests, Authenticate(r) \/ PassLimit(r) \/ Touch(r) \/ Proceed(r)
      PROVE  Pushers'
  <2>1. /\ stage[r] \notin Over /\ UNCHANGED <<pending, events>>
        /\ \E s \in Stages \ Over : stage' = [stage EXCEPT ![r] = s]
    BY <1>1, <1>4 DEF Authenticate, PassLimit, Touch, Proceed, Move, Stages, Over, gateVars
  <2>2. QED
    BY <1>3, <2>1
<1>5. ASSUME NEW r \in Requests, Deny(r) \/ HitLimit(r) \/ GiveUpHop(r) \/ RunOut(r)
      PROVE  Pushers'
  <2>1. /\ stage[r] \notin Over /\ events' = events
        /\ \E s \in Stages \ Over : stage' = [stage EXCEPT ![r] = s]
    BY <1>1, <1>5 DEF Deny, HitLimit, GiveUpHop, RunOut, Move, Stages, Over
  <2>2. Note(r, "auth_fail", 0) \/ Note(r, "rate_limit", 0) \/ Note(r, "provider_error", hop[r])
    BY <1>5 DEF Deny, HitLimit, GiveUpHop, RunOut
  <2>3. \E type \in {"auth_fail", "rate_limit", "provider_error"}, n \in Nat :
          pending' = pending \union {Entry(r, type, n)}
    <3>1. hop[r] \in Nat /\ 0 \in Nat
      BY <1>1
    <3>2. QED
      BY <2>2, <3>1 DEF Note
  <2>4. QED
    BY <1>3, <2>1, <2>3
<1>6. ASSUME NEW r \in Requests, Book(r) PROVE Pushers'
  <2>1. /\ stage[r] \notin Over /\ events' = events /\ r \in Done'
        /\ \E s \in Stages \ Over : stage' = [stage EXCEPT ![r] = s]
        /\ pending' = pending \union {Entry(r, "request", 0)}
    BY <1>1, <1>6 DEF Book, TallyHit, TallyMiss, Goto, Done, Note, Stages, Over
  <2>2. QED
    BY <1>3, <2>1
<1>7. ASSUME NEW r \in Requests, Come(r) PROVE Pushers'
  BY <1>1, <1>2, <1>7 DEF Come, Move, Over, Pushers, Logged
<1>8. ASSUME NEW r \in Requests, PushEntry(r) PROVE Pushers'
  BY <1>2, <1>8 DEF PushEntry, Pushers, Logged
<1>9. ASSUME NEW r \in Requests, Reply(r) PROVE Pushers'
  BY <1>1, <1>2, <1>9 DEF Reply, Logging, Move, Pushers, Logged
<1>10. ASSUME NEW r \in Requests, Break(r) PROVE Pushers'
  BY <1>1, <1>2, <1>10 DEF Break, Move, Pushers, Logged
<1>11. CASE UNCHANGED <<stage, pending, events>>
  BY <1>2, <1>11 DEF Pushers, Logged
<1>12. QED
  BY <1>4, <1>5, <1>6, <1>7, <1>8, <1>9, <1>10, <1>11
  DEF GatewayNext, ChatCompletions, Around, gateVars, allVars


\* A request pushes one entry at a time, at a stage at which it may.
Entries == [trace : Requests, type : {"auth_fail", "rate_limit", "request", "provider_error"},
            hop : Nat]

OneEach ==
  /\ pending \subseteq Entries /\ events \subseteq Entries
  /\ \A e \in pending : stage[e.trace] \in {"denied", "limited", "route"}
  /\ \A d, e \in pending : d.trace = e.trace => d = e

\* OneEach is inductive.
LEMMA OneEachStep ==
  ASSUME TypeOK, Staged, OneEach, [GatewayNext]_allVars
  PROVE  OneEach'
<1>1. stage \in [Requests -> Stages] /\ hop \in [Requests -> Nat \ {0}]
  BY DEF TypeOK, Staged
<1>2. \A e \in pending : e.trace \in Requests
  BY DEF OneEach, Entries
<1>3. ASSUME NEW r \in Requests, NEW type \in {"auth_fail", "rate_limit", "request", "provider_error"},
             NEW n \in Nat, ~ Logging(r), Note(r, type, n), events' = events,
             \E s \in {"denied", "limited", "route"} : stage' = [stage EXCEPT ![r] = s]
      PROVE  OneEach'
  <2>1. Entry(r, type, n) \in Entries /\ Entry(r, type, n).trace = r
    BY DEF Entry, Entries
  <2>2. pending' = pending \union {Entry(r, type, n)} /\ \A e \in pending : e.trace # r
    BY <1>3 DEF Note, Logging
  <2>3. \A e \in pending' : stage'[e.trace] \in {"denied", "limited", "route"}
    BY <1>1, <1>2, <1>3, <2>1, <2>2 DEF OneEach
  <2>4. QED
    BY <1>3, <2>1, <2>2, <2>3 DEF OneEach
<1>4. ASSUME NEW r \in Requests, Deny(r) \/ HitLimit(r) PROVE OneEach'
  <2>1. /\ stage[r] \in {"key", "limit"} /\ events' = events
        /\ Note(r, "auth_fail", 0) \/ Note(r, "rate_limit", 0)
        /\ \E s \in {"denied", "limited", "route"} : stage' = [stage EXCEPT ![r] = s]
    BY <1>4 DEF Deny, HitLimit, Move
  <2>2. ~ Logging(r)
    BY <2>1 DEF Logging, OneEach
  <2>3. QED
    BY <1>3, <2>1, <2>2
<1>5. ASSUME NEW r \in Requests, GiveUpHop(r) \/ RunOut(r) \/ Book(r) PROVE OneEach'
  <2>1. /\ ~ Logging(r) /\ events' = events
        /\ stage[r] = "route" /\ stage' = [stage EXCEPT ![r] = "route"]
        /\ Note(r, "provider_error", hop[r]) \/ Note(r, "request", 0)
    BY <1>1, <1>5 DEF GiveUpHop, RunOut, Book
  <2>2. QED
    BY <1>1, <1>3, <2>1
<1>6. ASSUME NEW r \in Requests, Come(r) \/ Authenticate(r) \/ PassLimit(r) \/ Touch(r) PROVE OneEach'
  <2>1. stage[r] \in {"outside", "key", "limit", "touch"} /\ UNCHANGED <<pending, events>>
        /\ \A q \in Requests \ {r} : stage'[q] = stage[q]
    BY <1>1, <1>6 DEF Come, Authenticate, PassLimit, Touch, Move
  <2>2. \A e \in pending : e.trace # r
    BY <2>1 DEF OneEach
  <2>3. QED
    BY <1>2, <2>1, <2>2 DEF OneEach
<1>7. ASSUME NEW r \in Requests, PushEntry(r) PROVE OneEach'
  BY <1>7 DEF PushEntry, OneEach
<1>8. ASSUME NEW r \in Requests, Reply(r) \/ Break(r) PROVE OneEach'
  <2>1. /\ pending' \subseteq pending /\ \A e \in pending' : e.trace # r
        /\ events' = events /\ \A q \in Requests \ {r} : stage'[q] = stage[q]
    BY <1>1, <1>8 DEF Reply, Break, Logging, Move
  <2>2. QED
    BY <1>2, <2>1 DEF OneEach
<1>9. CASE UNCHANGED <<stage, pending, events>>
  BY <1>9 DEF OneEach
<1>10. QED
  BY <1>4, <1>5, <1>6, <1>7, <1>8, <1>9
  DEF GatewayNext, ChatCompletions, Proceed, Around, gateVars, allVars

-----------------------------------------------------------------------------
(* Touches *)

\* The requests that have been counted against their key for certain. Those in Broken
\* may have been.
Charged == {r \in Requests : stage[r] = "route" \/ pc[r] \in {"done", "exhausted"}}

Chargeable == Charged \union Broken

TouchesCounted == Cardinality(Charged) <= touches /\ touches <= Cardinality(Chargeable)

\* Sets of requests are finite.
LEMMA SomeRequests ==
  ASSUME NEW S \in SUBSET Requests
  PROVE  IsFiniteSet(S) /\ Cardinality(S) \in Nat
  BY FS_Subset, FS_CardinalityType, RouterAssumption

\* TouchesCounted is inductive: only Touch takes a request in, no step lets one go.
LEMMA TouchesStep ==
  ASSUME TypeOK, Staged, TouchesCounted, [GatewayNext]_allVars
  PROVE  TouchesCounted'
<1>1. pc \in [Requests -> Labels] /\ stage \in [Requests -> Stages] /\ touches \in Nat
  BY DEF TypeOK, Staged
<1>2. /\ Charged \in SUBSET Requests /\ Chargeable \in SUBSET Requests
      /\ Charged' \in SUBSET Requests /\ Chargeable' \in SUBSET Requests
  BY DEF Charged, Chargeable, Broken
<1>3. /\ IsFiniteSet(Charged) /\ Cardinality(Charged) \in Nat
      /\ IsFiniteSet(Chargeable) /\ Cardinality(Chargeable) \in Nat
      /\ IsFiniteSet(Charged') /\ Cardinality(Charged') \in Nat
      /\ IsFiniteSet(Chargeable') /\ Cardinality(Chargeable') \in Nat
  BY <1>2, SomeRequests
<1>4. ASSUME Charged' \subseteq Charged, Chargeable \subseteq Chargeable', touches' = touches
      PROVE  TouchesCounted'
  <2>1. Cardinality(Charged') <= Cardinality(Charged)
    BY <1>3, <1>4, FS_Subset
  <2>2. Cardinality(Chargeable) <= Cardinality(Chargeable')
    BY <1>3, <1>4, FS_Subset
  <2>3. QED
    BY <1>1, <1>3, <1>4, <2>1, <2>2 DEF TouchesCounted
<1>5. ASSUME NEW r \in Requests, Touch(r) PROVE TouchesCounted'
  <2>1. /\ stage[r] = "touch" /\ pc[r] = "arrived" /\ pc' = pc
        /\ stage' = [stage EXCEPT ![r] = "route"] /\ touches' = touches + 1
    BY <1>5 DEF Touch, Move, Staged, vars
  <2>2. /\ Charged' = Charged \union {r} /\ r \notin Charged
        /\ Chargeable' = Chargeable \union {r} /\ r \notin Chargeable
    BY <1>1, <2>1 DEF Charged, Chargeable, Broken
  <2>3. /\ Cardinality(Charged') = Cardinality(Charged) + 1
        /\ Cardinality(Chargeable') = Cardinality(Chargeable) + 1
    BY <1>3, <2>2, FS_AddElement
  <2>4. QED
    BY <1>1, <1>3, <2>1, <2>3 DEF TouchesCounted
<1>6. ASSUME NEW r \in Requests,
             Come(r) \/ Authenticate(r) \/ Deny(r) \/ PassLimit(r) \/ HitLimit(r)
      PROVE  Charged' \subseteq Charged /\ Chargeable \subseteq Chargeable' /\ touches' = touches
  BY <1>1, <1>6
  DEF Come, Arrive, Authenticate, Deny, PassLimit, HitLimit, Abandon, Move, Goto, Ended, Staged,
      Charged, Chargeable, Broken, vars
<1>7. ASSUME NEW r \in Requests, Reply(r)
      PROVE  Charged' \subseteq Charged /\ Chargeable \subseteq Chargeable' /\ touches' = touches
  BY <1>1, <1>7 DEF Reply, Move, Staged, Charged, Chargeable, Broken, vars
<1>8. ASSUME NEW r \in Requests, Break(r)
      PROVE  Charged' \subseteq Charged /\ Chargeable \subseteq Chargeable' /\ touches' = touches
  <2>1. stage' = [stage EXCEPT ![r] = "lost"] /\ touches' = touches /\ stage[r] # "lost"
    BY <1>8 DEF Break, Move, Over
  <2>2. \/ pc[r] \in Ended /\ pc' = pc
        \/ pc[r] \notin Ended /\ pc' = [pc EXCEPT ![r] = "lost"]
    BY <1>8 DEF Break, Abandon, Goto, vars
  <2>3. QED
    BY <1>1, <2>1, <2>2 DEF Ended, Charged, Chargeable, Broken
<1>9. ASSUME NEW r \in Requests, Proceed(r) \/ GiveUpHop(r) \/ RunOut(r) \/ Book(r)
      PROVE  Charged' \subseteq Charged /\ Chargeable \subseteq Chargeable' /\ touches' = touches
  <2>1. stage[r] = "route" /\ UNCHANGED <<stage, touches>>
    BY <1>9 DEF Proceed, GiveUpHop, RunOut, Book, gateVars
  <2>2. \A q \in Requests \ {r} : pc'[q] = pc[q]
    BY <1>1, <1>9
    DEF Proceed, GiveUpHop, RunOut, Book, Goto, Lookup, ReadDisabled, ExactHit, ExactMiss, SemanticHit,
        SemanticMiss, SkipDisabled, CallProvider, ShortCircuit, ProviderFails, ProviderAnswers,
        Exhaust, KeepExact, KeepSemantic, TallyHit, TallyMiss
  <2>3. QED
    BY <2>1, <2>2 DEF Charged, Chargeable, Broken
<1>10. ASSUME NEW r \in Requests, PushEntry(r)
       PROVE  Charged' \subseteq Charged /\ Chargeable \subseteq Chargeable' /\ touches' = touches
  BY <1>10 DEF PushEntry, Charged, Chargeable, Broken, vars
<1>11. CASE Around \/ UNCHANGED allVars
  BY <1>4, <1>11
  DEF Around, Expire, Disable, Enable, Charged, Chargeable, Broken, history, vars, gateVars, allVars
<1>12. QED
  BY <1>4, <1>5, <1>6, <1>7, <1>8, <1>9, <1>10, <1>11 DEF GatewayNext, ChatCompletions

-----------------------------------------------------------------------------
(* One request at a time *)

\* The step is about r: no other request moves, and no entry of another is touched.
OnlyMovesOn(r) ==
  /\ \A q \in Requests \ {r} :
       /\ stage'[q] = stage[q] /\ pc'[q] = pc[q] /\ hop'[q] = hop[q] /\ served'[q] = served[q]
       /\ q \in paid' <=> q \in paid
  /\ \A e : e.trace # r => /\ e \in pending' <=> e \in pending
                           /\ e \in events' <=> e \in events

\* The steps of a request are about that request.
LEMMA OwnSteps ==
  ASSUME TypeOK, Staged, NEW r \in Requests, Come(r) \/ ChatCompletions(r) \/ Break(r)
  PROVE  OnlyMovesOn(r)
<1>1. /\ pc \in [Requests -> Labels] /\ stage \in [Requests -> Stages]
      /\ hop \in [Requests -> Nat \ {0}] /\ served \in [Requests -> Requests \union {None}]
  BY DEF TypeOK, Staged
<1>2. CASE Come(r) \/ Authenticate(r) \/ PassLimit(r) \/ Touch(r) \/ Reply(r)
  BY <1>1, <1>2 DEF OnlyMovesOn, Come, Arrive, Authenticate, PassLimit, Touch, Reply, Move, Goto,
                    history, vars
<1>3. CASE Deny(r) \/ HitLimit(r) \/ Break(r)
  BY <1>1, <1>3, EntryFields
  DEF OnlyMovesOn, Deny, HitLimit, Break, Abandon, Note, Move, Goto, history, vars
<1>4. CASE Proceed(r)
  BY <1>1, <1>4
  DEF OnlyMovesOn, Proceed, Lookup, ReadDisabled, ExactHit, ExactMiss, SemanticHit, SemanticMiss,
      CallProvider, ProviderAnswers, KeepExact, KeepSemantic, Goto, history, gateVars
<1>5. CASE GiveUpHop(r) \/ RunOut(r) \/ Book(r)
  BY <1>1, <1>5, EntryFields
  DEF OnlyMovesOn, GiveUpHop, RunOut, Book, SkipDisabled, ShortCircuit, ProviderFails, Exhaust,
      TallyHit, TallyMiss, NextHop, Note, Goto, history
<1>6. CASE PushEntry(r)
  BY <1>6 DEF OnlyMovesOn, PushEntry, vars
<1>7. QED
  BY <1>2, <1>3, <1>4, <1>5, <1>6 DEF ChatCompletions

\* All other steps are about no request.
LEMMA OtherSteps ==
  ASSUME Around \/ UNCHANGED allVars
  PROVE  UNCHANGED <<job, stage, pc, hop, served, paid, pending, events, books, touches>>
  BY DEF Around, Expire, Disable, Enable, history, gateVars, allVars, vars

-----------------------------------------------------------------------------
(* Steps ahead *)

\* The chain of a request has a length, and stays what it is.
LEMMA RouteFixed ==
  ASSUME TypeOK, [Next]_vars, NEW r \in Requests
  PROVE  Len(Route(r)) \in Nat /\ Route(r)' = Route(r)
<1>1. Len(Route(r)) \in Nat
  BY TriedNext, 0 \in Nat
<1>2. job' = job
  BY Monotone
<1>3. QED
  BY <1>1, <1>2 DEF Route

\* No request is past the end of its chain by more than one, or calls past it.
HopsBounded ==
  \A r \in Requests :
    /\ hop[r] <= Len(Route(r)) + 1
    /\ pc[r] = "calling" => hop[r] <= Len(Route(r))

\* HopsBounded is inductive.
LEMMA HopsBoundedStep ==
  ASSUME TypeOK, HopsBounded, [Next]_vars
  PROVE  HopsBounded'
<1>1. pc \in [Requests -> Labels] /\ hop \in [Requests -> Nat \ {0}]
  BY DEF TypeOK
<1>2. \A q \in Requests : Len(Route(q)) \in Nat /\ Route(q)' = Route(q)
  BY RouteFixed
<1>3. ASSUME UNCHANGED hop,
             \A q \in Requests : pc'[q] = "calling" => pc[q] = "calling" \/ hop[q] <= Len(Route(q))
      PROVE  HopsBounded'
  BY <1>1, <1>2, <1>3 DEF HopsBounded
<1>4. ASSUME NEW r \in Requests, hop[r] <= Len(Route(r)), hop' = [hop EXCEPT ![r] = hop[r] + 1],
             \A q \in Requests : pc'[q] = "calling" => pc[q] = "calling" /\ q # r
      PROVE  HopsBounded'
  <2>1. ASSUME NEW q \in Requests PROVE hop'[q] <= Len(Route(q)) + 1
    BY <1>1, <1>2, <1>4 DEF HopsBounded
  <2>2. ASSUME NEW q \in Requests, pc'[q] = "calling" PROVE hop'[q] <= Len(Route(q))
    BY <1>1, <1>2, <1>4, <2>2 DEF HopsBounded
  <2>3. QED
    BY <1>2, <2>1, <2>2 DEF HopsBounded
<1>5. ASSUME NEW r \in Requests, SkipDisabled(r) \/ ShortCircuit(r) PROVE HopsBounded'
  BY <1>1, <1>4, <1>5 DEF SkipDisabled, ShortCircuit, AtHop, NextHop
<1>6. ASSUME NEW r \in Requests, ProviderFails(r) PROVE HopsBounded'
  BY <1>1, <1>4, <1>6 DEF ProviderFails, NextHop, Goto, HopsBounded
<1>7. ASSUME NEW r \in Requests, Arrive(r) \/ Lookup(r) PROVE HopsBounded'
  BY <1>1, <1>3, <1>7
  DEF Arrive, Lookup, ReadDisabled, ExactHit, ExactMiss, SemanticHit, SemanticMiss, Goto
<1>8. ASSUME NEW r \in Requests, CallProvider(r) \/ ProviderAnswers(r) \/ Exhaust(r) PROVE HopsBounded'
  BY <1>1, <1>3, <1>8 DEF CallProvider, ProviderAnswers, Exhaust, AtHop, Goto
<1>9. ASSUME NEW r \in Requests, Finish(r) \/ Abandon(r) PROVE HopsBounded'
  BY <1>1, <1>3, <1>9 DEF Finish, KeepExact, KeepSemantic, TallyHit, TallyMiss, Abandon, Goto
<1>10. CASE UNCHANGED <<pc, hop>>
  BY <1>3, <1>10
<1>11. QED
  BY <1>5, <1>6, <1>7, <1>8, <1>9, <1>10
  DEF Next, Handle, Fallback, Expire, Disable, Enable, vars

\* The measure of the route, label by label.
LEMMA RouteAheadTable ==
  ASSUME NEW l \in Labels, NEW n \in Nat
  PROVE  /\ l = "arrived" => RouteAhead(l, n) = 3 * n + 8
         /\ l = "exact" => RouteAhead(l, n) = 3 * n + 7
         /\ l = "semantic" => RouteAhead(l, n) = 3 * n + 6
         /\ l = "hop" => RouteAhead(l, n) = 3 * n + 5
         /\ l = "calling" => RouteAhead(l, n) = 3 * n + 4
         /\ l = "keepExact" => RouteAhead(l, n) = 6
         /\ l = "keepSemantic" => RouteAhead(l, n) = 5
         /\ l \in {"tallyExact", "tallySemantic", "tallyMiss"} => RouteAhead(l, n) = 4
         /\ l \in {"new"} \union Ended => RouteAhead(l, n) = 1
         /\ RouteAhead(l, n) \in Nat \ {0} /\ RouteAhead(l, n) <= 3 * n + 8
<1>1. /\ l = "arrived" => RouteAhead(l, n) = 3 * n + 8
      /\ l = "exact" => RouteAhead(l, n) = 3 * n + 7
      /\ l = "semantic" => RouteAhead(l, n) = 3 * n + 6
      /\ l = "hop" => RouteAhead(l, n) = 3 * n + 5
      /\ l = "calling" => RouteAhead(l, n) = 3 * n + 4
      /\ l = "keepExact" => RouteAhead(l, n) = 6
      /\ l = "keepSemantic" => RouteAhead(l, n) = 5
      /\ l \in {"tallyExact", "tallySemantic", "tallyMiss"} => RouteAhead(l, n) = 4
      /\ l \in {"new"} \union Ended => RouteAhead(l, n) = 1
  BY DEF RouteAhead, Ended
<1>2. QED
  BY <1>1 DEF Labels, Ended

\* The measure of the endpoint, stage by stage.
LEMMA StepsAheadTable ==
  ASSUME NEW s \in Stages, NEW l \in Labels, NEW n \in Nat, NEW p \in {0, 1}
  PROVE  /\ s = "outside" => StepsAhead(s, l, n, p) = 3 * n + 12
         /\ s = "key" => StepsAhead(s, l, n, p) = 3 * n + 11
         /\ s = "limit" => StepsAhead(s, l, n, p) = 3 * n + 10
         /\ s = "touch" => StepsAhead(s, l, n, p) = 3 * n + 9
         /\ s = "route" => StepsAhead(s, l, n, p) = RouteAhead(l, n) + p
         /\ s \in {"denied", "limited"} => StepsAhead(s, l, n, p) = 1 + p
         /\ s \in {"answered", "lost"} => StepsAhead(s, l, n, p) = 0
  BY DEF StepsAhead

\* Where the measure is a bounded number.
LEMMA WorkInRange ==
  ASSUME TypeOK, Staged, HopsBounded, NEW r \in Requests
  PROVE  /\ HopsLeft(r) \in Nat /\ HopsLeft(r) <= Len(Route(r))
         /\ WorkAhead(r) \in 0 .. 3 * Len(Route(r)) + 12
<1>1. /\ pc[r] \in Labels /\ stage[r] \in Stages /\ hop[r] \in Nat \ {0}
  BY DEF TypeOK, Staged
<1>2. Len(Route(r)) \in Nat
  BY TriedNext, 0 \in Nat
<1>3. HopsLeft(r) \in Nat /\ HopsLeft(r) <= Len(Route(r))
  BY <1>1, <1>2 DEF HopsBounded, HopsLeft
<1> DEFINE n == HopsLeft(r)
           l == pc[r]
           p == IF Logging(r) THEN 1 ELSE 0
<1>4. p \in {0, 1} /\ n \in Nat
  BY <1>3
<1>5. RouteAhead(l, n) \in Nat \ {0} /\ RouteAhead(l, n) <= 3 * n + 8
  BY <1>1, <1>4, RouteAheadTable
<1>6. StepsAhead(stage[r], l, n, p) \in Nat /\ StepsAhead(stage[r], l, n, p) <= 3 * n + 12
  <2> DEFINE s == stage[r]
             a == RouteAhead(l, n)
  <2>1. s \in Stages /\ l \in Labels /\ a \in Nat /\ a <= 3 * n + 8
    BY <1>1, <1>5
  <2> HIDE DEF n, l, p, s
  <2>2. /\ s = "outside" => StepsAhead(s, l, n, p) = 3 * n + 12
        /\ s = "key" => StepsAhead(s, l, n, p) = 3 * n + 11
        /\ s = "limit" => StepsAhead(s, l, n, p) = 3 * n + 10
        /\ s = "touch" => StepsAhead(s, l, n, p) = 3 * n + 9
        /\ s = "route" => StepsAhead(s, l, n, p) = a + p
        /\ s \in {"denied", "limited"} => StepsAhead(s, l, n, p) = 1 + p
        /\ s \in {"answered", "lost"} => StepsAhead(s, l, n, p) = 0
    BY <1>4, <2>1, StepsAheadTable
  <2>3. s \in {"outside", "key", "limit", "touch", "route", "denied", "limited", "answered", "lost"}
    BY <2>1 DEF Stages
  <2> HIDE DEF a
  <2>4. StepsAhead(s, l, n, p) \in Nat /\ StepsAhead(s, l, n, p) <= 3 * n + 12
    BY <1>4, <2>1, <2>2, <2>3
  <2>5. QED
    BY <2>4 DEF s
<1>7. WorkAhead(r) \in 0 .. 3 * HopsLeft(r) + 12
  BY <1>6 DEF WorkAhead
<1>8. QED
  BY <1>2, <1>3, <1>7

\* A step of a request brings it nearer to its end.
LEMMA Nearer ==
  ASSUME TypeOK, TypeOK', Staged, Staged', HopsBounded, HopsBounded', OneEach,
         NEW r \in Requests, Come(r) \/ ChatCompletions(r) \/ Break(r)
  PROVE  WorkAhead(r)' < WorkAhead(r)
<1> DEFINE p == IF Logging(r) THEN 1 ELSE 0
           q == IF Logging(r)' THEN 1 ELSE 0
           n == HopsLeft(r)
           m == HopsLeft(r)'
<1>1. /\ pc \in [Requests -> Labels] /\ stage \in [Requests -> Stages] /\ hop \in [Requests -> Nat \ {0}]
      /\ pc'[r] \in Labels /\ stage'[r] \in Stages /\ hop'[r] \in Nat \ {0}
      /\ Len(Route(r)) \in Nat /\ Route(r)' = Route(r)
  BY RouteFixed, ChatStepsAreRouterSteps DEF TypeOK, Staged, GatewayNext
<1>2. /\ pc[r] \in Labels /\ stage[r] \in Stages /\ hop[r] \in Nat \ {0}
  BY <1>1
<1>3. /\ n = Len(Route(r)) + 1 - hop[r] /\ m = Len(Route(r)) + 1 - hop'[r]
      /\ n \in Nat /\ m \in Nat
      /\ hop'[r] = hop[r] => m = n
  BY <1>1 DEF HopsLeft, HopsBounded
<1>4. /\ p \in {0, 1} /\ q \in {0, 1}
      /\ WorkAhead(r) = StepsAhead(stage[r], pc[r], n, p)
      /\ WorkAhead(r)' = StepsAhead(stage'[r], pc'[r], m, q)
  BY DEF WorkAhead
<1> DEFINE l == pc[r]
           k == pc'[r]
           s == stage[r]
           t == stage'[r]
           before == RouteAhead(l, n)
           after == RouteAhead(k, m)
<1>5. /\ l \in Labels /\ k \in Labels /\ s \in Stages /\ t \in Stages
      /\ n \in Nat /\ m \in Nat
  BY <1>1, <1>2, <1>3
<1> HIDE DEF p, q, n, m, l, k, s, t
<1>6. /\ before \in Nat \ {0}
      /\ l = "arrived" => before = 3 * n + 8
      /\ l = "exact" => before = 3 * n + 7
      /\ l = "semantic" => before = 3 * n + 6
      /\ l = "hop" => before = 3 * n + 5
      /\ l = "calling" => before = 3 * n + 4
      /\ l = "keepExact" => before = 6
      /\ l = "keepSemantic" => before = 5
      /\ l \in {"tallyExact", "tallySemantic", "tallyMiss"} => before = 4
  BY <1>5, RouteAheadTable
<1>7. /\ after \in Nat \ {0}
      /\ k = "arrived" => after = 3 * m + 8
      /\ k = "exact" => after = 3 * m + 7
      /\ k = "semantic" => after = 3 * m + 6
      /\ k = "hop" => after = 3 * m + 5
      /\ k = "calling" => after = 3 * m + 4
      /\ k = "keepExact" => after = 6
      /\ k = "keepSemantic" => after = 5
      /\ k \in {"tallyExact", "tallySemantic", "tallyMiss"} => after = 4
      /\ k \in Ended => after = 1
  BY <1>5, RouteAheadTable
<1> HIDE DEF before, after
<1>8. /\ s = "outside" => WorkAhead(r) = 3 * n + 12
      /\ s = "key" => WorkAhead(r) = 3 * n + 11
      /\ s = "limit" => WorkAhead(r) = 3 * n + 10
      /\ s = "touch" => WorkAhead(r) = 3 * n + 9
      /\ s = "route" => WorkAhead(r) = before + p
      /\ s \in {"denied", "limited"} => WorkAhead(r) = 1 + p
  <2>1. WorkAhead(r) = StepsAhead(s, l, n, p)
    BY <1>4 DEF s, l
  <2>2. QED
    BY <1>4, <1>5, <2>1, StepsAheadTable DEF before
<1>9. /\ t = "key" => WorkAhead(r)' = 3 * m + 11
      /\ t = "limit" => WorkAhead(r)' = 3 * m + 10
      /\ t = "touch" => WorkAhead(r)' = 3 * m + 9
      /\ t = "route" => WorkAhead(r)' = after + q
      /\ t \in {"denied", "limited"} => WorkAhead(r)' = 1 + q
      /\ t \in {"answered", "lost"} => WorkAhead(r)' = 0
  <2>1. WorkAhead(r)' = StepsAhead(t, k, m, q)
    BY <1>4 DEF t, k
  <2>2. QED
    BY <1>4, <1>5, <2>1, StepsAheadTable DEF after
<1> USE DEF s, t, l, k
<1>10. CASE Come(r) \/ Authenticate(r) \/ PassLimit(r) \/ Touch(r)
  <2>1. /\ hop'[r] = hop[r] /\ pc'[r] = "arrived"
        /\ \/ stage[r] = "outside" /\ stage'[r] = "key"
           \/ stage[r] = "key" /\ stage'[r] = "limit"
           \/ stage[r] = "limit" /\ stage'[r] = "touch"
           \/ stage[r] = "touch" /\ stage'[r] = "route"
        /\ pending' = pending
    BY <1>1, <1>10 DEF Come, Arrive, Authenticate, PassLimit, Touch, Move, Goto, Staged, vars
  <2>2. q = 0
    BY <2>1 DEF OneEach, Logging, q
  <2>3. after = 3 * m + 8
    BY <1>7, <2>1
  <2>4. QED
    BY <1>6, <1>7, <1>8, <1>9, <1>3, <2>1, <2>2, <2>3
<1>11. CASE Deny(r) \/ HitLimit(r)
  <2>1. stage[r] \in {"key", "limit"} /\ stage'[r] \in {"denied", "limited"}
    BY <1>1, <1>11 DEF Deny, HitLimit, Move
  <2>2. QED
    BY <1>6, <1>7, <1>8, <1>9, <1>3, <1>4, <2>1
<1>12. CASE Proceed(r)
  <2>1. /\ hop'[r] = hop[r] /\ stage[r] = "route" /\ stage'[r] = "route"
        /\ ~ Logging(r) /\ pending' = pending
        /\ \/ pc[r] = "arrived" /\ pc'[r] \in {"exact", "hop"}
           \/ pc[r] = "exact" /\ pc'[r] \in {"tallyExact", "semantic"}
           \/ pc[r] = "semantic" /\ pc'[r] \in {"tallySemantic", "hop"}
           \/ pc[r] = "hop" /\ pc'[r] = "calling"
           \/ pc[r] = "calling" /\ pc'[r] \in {"keepExact", "tallyMiss"}
           \/ pc[r] = "keepExact" /\ pc'[r] = "keepSemantic"
           \/ pc[r] = "keepSemantic" /\ pc'[r] = "tallyMiss"
    BY <1>1, <1>12
    DEF Proceed, Lookup, ReadDisabled, ExactHit, ExactMiss, SemanticHit, SemanticMiss, AtHop,
        CallProvider, ProviderAnswers, KeepExact, KeepSemantic, Goto, gateVars
  <2>2. p = 0 /\ q = 0
    BY <2>1 DEF Logging, p, q
  <2>3. pc[r] = "calling" => n > 0
    BY <1>1, <1>3 DEF HopsBounded
  <2>4. m = n
    BY <1>3, <2>1
  <2>5. after < before
    <3>1. CASE l \in {"arrived", "exact", "semantic"}
      BY <1>5, <1>6, <1>7, <2>1, <2>4, <3>1
    <3>2. CASE l = "hop"
      BY <1>5, <1>6, <1>7, <2>1, <2>4, <3>2
    <3>3. CASE l = "calling"
      BY <1>5, <1>6, <1>7, <2>1, <2>3, <2>4, <3>3
    <3>4. CASE l \in {"keepExact", "keepSemantic"}
      BY <1>6, <1>7, <2>1, <3>4
    <3>5. QED
      BY <2>1, <3>1, <3>2, <3>3, <3>4
  <2>6. QED
    BY <1>6, <1>7, <1>8, <1>9, <2>1, <2>2, <2>5
<1>13. CASE GiveUpHop(r)
  <2>1. /\ hop'[r] = hop[r] + 1 /\ stage[r] = "route" /\ stage'[r] = "route"
        /\ pc[r] \in {"hop", "calling"} /\ pc'[r] = "hop"
    BY <1>1, <1>13 DEF GiveUpHop, SkipDisabled, ShortCircuit, ProviderFails, AtHop, NextHop, Goto
  <2>2. m = n - 1
    BY <1>1, <1>3, <2>1
  <2>3. before >= 3 * n + 4 /\ after = 3 * m + 5
    BY <1>6, <1>7, <1>3, <2>1
  <2>4. QED
    BY <1>4, <1>5, <1>6, <1>7, <1>8, <1>9, <2>1, <2>2, <2>3 DEF s, t
<1>14. CASE RunOut(r) \/ Book(r)
  <2>1. /\ stage[r] = "route" /\ stage'[r] = "route"
        /\ pc[r] \in {"hop", "tallyExact", "tallySemantic", "tallyMiss"} /\ pc'[r] \in Ended
    BY <1>1, <1>14 DEF RunOut, Exhaust, Book, TallyHit, TallyMiss, Goto, Ended
  <2>2. before > 3 /\ after = 1
    BY <1>6, <1>7, <1>3, <2>1
  <2>3. QED
    BY <1>6, <1>7, <1>8, <1>9, <1>4, <2>1, <2>2
<1>15. CASE PushEntry(r)
  <2>1. /\ hop'[r] = hop[r] /\ stage'[r] = stage[r] /\ pc'[r] = pc[r]
        /\ stage[r] \in {"denied", "limited", "route"}
    BY <1>15 DEF PushEntry, OneEach, vars
  <2>2. Logging(r) /\ ~ Logging(r)'
    BY <1>15 DEF PushEntry, OneEach, Logging
  <2>3. p = 1 /\ q = 0
    BY <2>2 DEF p, q
  <2>4. after = before
    BY <1>3, <2>1 DEF before, after
  <2>5. QED
    BY <1>6, <1>7, <1>8, <1>9, <2>1, <2>3, <2>4
<1>16. CASE Reply(r) \/ Break(r)
  <2>1. stage[r] \in Stages \ Over /\ stage'[r] \in {"answered", "lost"}
    BY <1>1, <1>16 DEF Reply, Break, Move, Stages, Over
  <2>2. stage[r] \in {"key", "limit", "touch", "route", "denied", "limited"}
    BY <2>1 DEF Stages, Over
  <2>3. WorkAhead(r)' = 0 /\ WorkAhead(r) > 0
    BY <1>6, <1>7, <1>8, <1>9, <1>3, <1>4, <2>1, <2>2
  <2>4. QED
    BY <2>3
<1>17. QED
  BY <1>10, <1>11, <1>12, <1>13, <1>14, <1>15, <1>16 DEF ChatCompletions

\* Nobody's step takes a request back.
LEMMA NobodySentBack ==
  ASSUME TypeOK, TypeOK', Staged, Staged', HopsBounded, HopsBounded', OneEach,
         [GatewayNext]_allVars, NEW q \in Requests
  PROVE  \/ UNCHANGED <<stage[q], pc[q], hop[q], Logging(q)>>
         \/ WorkAhead(q)' < WorkAhead(q)
<1>1. ASSUME NEW r \in Requests, Come(r) \/ ChatCompletions(r) \/ Break(r), q # r
      PROVE  UNCHANGED <<stage[q], pc[q], hop[q], Logging(q)>>
  <2>1. OnlyMovesOn(r)
    BY <1>1, OwnSteps
  <2>2. Logging(q)' <=> Logging(q)
    BY <1>1, <2>1 DEF OnlyMovesOn, Logging
  <2>3. Logging(q)' = Logging(q)
    BY <2>2 DEF Logging
  <2>4. QED
    BY <1>1, <2>1, <2>3 DEF OnlyMovesOn
<1>2. CASE Around \/ UNCHANGED allVars
  BY <1>2, OtherSteps DEF Logging
<1>3. QED
  BY <1>1, <1>2, Nearer DEF GatewayNext

-----------------------------------------------------------------------------
(* No entry before its time *)

\* What has ended stays as it is, and nobody goes back in a chain.
LEMMA EndedStays ==
  ASSUME TypeOK, [Next]_vars, NEW q \in Requests
  PROVE  /\ pc[q] \in Ended => pc'[q] = pc[q] /\ hop'[q] = hop[q]
         /\ hop'[q] \in Nat /\ hop[q] \in Nat /\ hop'[q] >= hop[q]
<1>1. pc \in [Requests -> Labels] /\ hop \in [Requests -> Nat \ {0}]
  BY DEF TypeOK
<1> DEFINE Goal == /\ pc[q] \in Ended => pc'[q] = pc[q] /\ hop'[q] = hop[q]
                   /\ hop'[q] \in Nat /\ hop[q] \in Nat /\ hop'[q] >= hop[q]
<1>2. ASSUME NEW r \in Requests, Arrive(r) \/ Lookup(r) PROVE Goal
  BY <1>1, <1>2
  DEF Arrive, Lookup, ReadDisabled, ExactHit, ExactMiss, SemanticHit, SemanticMiss, Goto, Ended
<1>3. ASSUME NEW r \in Requests, Fallback(r) PROVE Goal
  BY <1>1, <1>3
  DEF Fallback, AtHop, SkipDisabled, CallProvider, ShortCircuit, ProviderFails, ProviderAnswers,
      Exhaust, NextHop, Goto, Ended
<1>4. ASSUME NEW r \in Requests, Finish(r) \/ Abandon(r) PROVE Goal
  BY <1>1, <1>4 DEF Finish, KeepExact, KeepSemantic, TallyHit, TallyMiss, Abandon, Goto, Ended
<1>5. CASE UNCHANGED <<pc, hop>>
  BY <1>1, <1>5
<1>6. QED
  BY <1>2, <1>3, <1>4, <1>5 DEF Next, Handle, Expire, Disable, Enable, vars

\* An entry e is not ahead of what its request has come to: one about a hop comes when
\* the hop is behind, one about the end comes with the end.
NotAhead(e) ==
  /\ e.type = "provider_error" => \/ e.hop < hop[e.trace]
                                  \/ e.hop = hop[e.trace] /\ pc[e.trace] = "exhausted"
  /\ e.type \in {"auth_fail", "rate_limit"} => pc[e.trace] = "lost"

NothingAhead == \A e : Logged(e) => NotAhead(e)

\* What a step adds to the log and what is to be pushed.
LEMMA NewEntries ==
  ASSUME [GatewayNext]_allVars, NEW e, Logged(e)', ~ Logged(e)
  PROVE  \E r \in Requests :
           \/ Deny(r) /\ e = Entry(r, "auth_fail", 0)
           \/ HitLimit(r) /\ e = Entry(r, "rate_limit", 0)
           \/ GiveUpHop(r) /\ e = Entry(r, "provider_error", hop[r])
           \/ RunOut(r) /\ e = Entry(r, "provider_error", hop[r])
           \/ Book(r) /\ e = Entry(r, "request", 0)
<1> DEFINE Goal == \E r \in Requests :
             \/ Deny(r) /\ e = Entry(r, "auth_fail", 0)
             \/ HitLimit(r) /\ e = Entry(r, "rate_limit", 0)
             \/ GiveUpHop(r) /\ e = Entry(r, "provider_error", hop[r])
             \/ RunOut(r) /\ e = Entry(r, "provider_error", hop[r])
             \/ Book(r) /\ e = Entry(r, "request", 0)
<1>1. ASSUME pending' \subseteq pending, events' = events PROVE FALSE
  BY <1>1 DEF Logged
<1>2. ASSUME NEW r \in Requests, Deny(r) \/ HitLimit(r) PROVE Goal
  BY <1>2 DEF Deny, HitLimit, Note, Logged
<1>3. ASSUME NEW r \in Requests, GiveUpHop(r) \/ RunOut(r) \/ Book(r) PROVE Goal
  BY <1>3 DEF GiveUpHop, RunOut, Book, Note, Logged
<1>4. ASSUME NEW r \in Requests, PushEntry(r) PROVE FALSE
  BY <1>4 DEF PushEntry, Logged
<1>5. ASSUME NEW r \in Requests,
             Come(r) \/ Authenticate(r) \/ PassLimit(r) \/ Touch(r) \/ Proceed(r) \/ Reply(r) \/ Break(r)
      PROVE  FALSE
  BY <1>1, <1>5 DEF Come, Authenticate, PassLimit, Touch, Proceed, Reply, Break, gateVars
<1>6. CASE Around \/ UNCHANGED allVars
  BY <1>1, <1>6, OtherSteps
<1>7. QED
  BY <1>2, <1>3, <1>4, <1>5, <1>6 DEF GatewayNext, ChatCompletions

\* NothingAhead is inductive.
LEMMA NothingAheadStep ==
  ASSUME TypeOK, Staged, OneEach, NothingAhead, [GatewayNext]_allVars
  PROVE  NothingAhead'
<1>1. /\ pc \in [Requests -> Labels] /\ hop \in [Requests -> Nat \ {0}]
      /\ \A q \in Requests : /\ pc[q] \in Ended => pc'[q] = pc[q] /\ hop'[q] = hop[q]
                             /\ hop'[q] \in Nat /\ hop[q] \in Nat /\ hop'[q] >= hop[q]
  BY EndedStays, ChatStepsAreRouterSteps DEF TypeOK
<1>2. ASSUME NEW e, Logged(e) PROVE NotAhead(e)'
  <2>1. e.trace \in Requests /\ e.hop \in Nat /\ NotAhead(e)
    BY <1>2 DEF OneEach, Entries, Logged, NothingAhead
  <2>2. QED
    BY <1>1, <2>1 DEF NotAhead, Ended
<1>3. ASSUME NEW e, Logged(e)', ~ Logged(e) PROVE NotAhead(e)'
  <2>1. PICK r \in Requests :
           \/ Deny(r) /\ e = Entry(r, "auth_fail", 0)
           \/ HitLimit(r) /\ e = Entry(r, "rate_limit", 0)
           \/ GiveUpHop(r) /\ e = Entry(r, "provider_error", hop[r])
           \/ RunOut(r) /\ e = Entry(r, "provider_error", hop[r])
           \/ Book(r) /\ e = Entry(r, "request", 0)
    BY <1>3, NewEntries
  <2>2. CASE (Deny(r) \/ HitLimit(r)) /\ e.trace = r /\ e.type \in {"auth_fail", "rate_limit"}
    BY <1>1, <2>2 DEF Deny, HitLimit, Abandon, Goto, NotAhead
  <2>3. CASE GiveUpHop(r) /\ e.trace = r /\ e.type = "provider_error" /\ e.hop = hop[r]
    <3>1. hop'[r] = hop[r] + 1
      BY <1>1, <2>3 DEF GiveUpHop, SkipDisabled, ShortCircuit, ProviderFails, NextHop
    <3>2. QED
      BY <1>1, <2>3, <3>1 DEF NotAhead
  <2>4. CASE RunOut(r) /\ e.trace = r /\ e.type = "provider_error" /\ e.hop = hop[r]
    BY <1>1, <2>4 DEF RunOut, Exhaust, Goto, NotAhead
  <2>5. CASE e.type = "request"
    BY <2>5 DEF NotAhead
  <2>6. QED
    BY <2>1, <2>2, <2>3, <2>4, <2>5 DEF Entry
<1>4. QED
  BY <1>2, <1>3 DEF NothingAhead

-----------------------------------------------------------------------------
(* What is served *)

\* A request on the way of the paid has its own answer, one on the way of the cached
\* has some.
ServedPath ==
  \A r \in Requests :
    /\ pc[r] \in {"keepExact", "keepSemantic", "tallyMiss"} => served[r] = r
    /\ pc[r] \in {"tallyExact", "tallySemantic"} => served[r] # None

\* ServedPath is inductive.
LEMMA ServedPathStep ==
  ASSUME TypeOK, ServedPath, [Next]_vars
  PROVE  ServedPath'
<1>1. /\ pc \in [Requests -> Labels] /\ served \in [Requests -> Requests \union {None}]
      /\ None \notin Requests
  BY RouterAssumption DEF TypeOK
<1>2. ASSUME NEW r \in Requests, Arrive(r) \/ ReadDisabled(r) \/ ExactHit(r) \/ ExactMiss(r) \/ SemanticMiss(r)
      PROVE  ServedPath'
  BY <1>1, <1>2 DEF Arrive, ReadDisabled, ExactHit, ExactMiss, SemanticMiss, Goto, ServedPath
<1>3. ASSUME NEW r \in Requests, SemanticHit(r) PROVE ServedPath'
  <2>1. \A s \in Settings : Alike(r, s) \subseteq Requests
    BY DEF TypeOK, Alike, InReach
  <2>2. QED
    BY <1>1, <1>3, <2>1 DEF SemanticHit, Goto, ServedPath
<1>4. ASSUME NEW r \in Requests, Fallback(r) PROVE ServedPath'
  BY <1>1, <1>4
  DEF Fallback, AtHop, SkipDisabled, CallProvider, ShortCircuit, ProviderFails, ProviderAnswers,
      Exhaust, Goto, ServedPath
<1>5. ASSUME NEW r \in Requests, Finish(r) \/ Abandon(r) PROVE ServedPath'
  BY <1>1, <1>5 DEF Finish, KeepExact, KeepSemantic, TallyHit, TallyMiss, Abandon, Goto, Ended, ServedPath
<1>6. CASE UNCHANGED <<pc, served>>
  BY <1>6 DEF ServedPath
<1>7. QED
  BY <1>2, <1>3, <1>4, <1>5, <1>6 DEF Next, Handle, Lookup, Expire, Disable, Enable, vars

-----------------------------------------------------------------------------
(* The theorems *)

GatewayInv == Staged /\ Trails /\ Pushers /\ OneEach /\ TouchesCounted

LEMMA GatewayInvInit ==
  ASSUME GatewayInit
  PROVE  GatewayInv
<1>1. Staged /\ OneEach
  BY DEF GatewayInit, Init, Staged, OneEach, Stages
<1>2. Trails /\ Pushers
  BY DEF GatewayInit, Init, Trails, Trail, Pushers, Logged
<1>3. Charged = {} /\ Chargeable = {}
  BY DEF GatewayInit, Init, Charged, Chargeable, Broken
<1>4. TouchesCounted
  BY <1>3, FS_EmptySet DEF TouchesCounted, GatewayInit
<1>5. QED
  BY <1>1, <1>2, <1>4 DEF GatewayInv

\* Every state of the endpoint satisfies the invariant, and what holds of the router.
LEMMA GatewayInvariance == GatewaySpec => [](GatewayInv /\ TypeOK /\ BooksBalance)
<1>1. GatewayInit => GatewayInv
  BY GatewayInvInit
<1>2. TypeOK /\ GatewayInv /\ [GatewayNext]_allVars => GatewayInv'
  BY StagedStep, TrailsStep, PushersStep, OneEachStep, TouchesStep DEF GatewayInv
<1>3. QED
  BY <1>1, <1>2, GatewayImplementsRouter, TypeCorrect, BooksBalanceCorrect, PTL DEF GatewaySpec

\* A request has one entry to push at a time, and its place in the router agrees with
\* its place in the endpoint.
THEOREM GatewayTypeCorrect == GatewaySpec => []GatewayTypeOK
<1>1. GatewayInv /\ TypeOK => GatewayTypeOK
  BY DEF GatewayInv, Staged, OneEach, Entries, GatewayTypeOK
<1>2. QED
  BY <1>1, GatewayInvariance, PTL

\* What the books add up to.
LEMMA BookedIsDone ==
  ASSUME TypeOK, BooksBalance
  PROVE  /\ IsFiniteSet(Done) /\ Cardinality(Done) \in Nat
         /\ Booked = Cardinality(Done)
<1>1. IsFiniteSet(Done) /\ Cardinality(Done) \in Nat
  <2>1. Done \in SUBSET Requests
    BY DEF Done
  <2>2. QED
    BY <2>1, FS_Subset, FS_CardinalityType, RouterAssumption
<1>2. Cardinality(Done \ paid) = Cardinality(Done) - Cardinality(Done \intersect paid)
  BY <1>1, FS_Difference
<1>3. Cardinality(Done \intersect paid) \in Nat
  BY <1>1, FS_Intersection, FS_CardinalityType
<1>4. /\ books.exact \in Nat /\ books.semantic \in Nat
      /\ books.misses = Cardinality(Done \intersect paid)
      /\ books.exact + books.semantic = Cardinality(Done \ paid)
  BY DEF TypeOK, BooksBalance, Done
<1>5. QED
  BY <1>1, <1>2, <1>3, <1>4 DEF Booked

\* Every answer booked and every request in the route was counted against its key once,
\* and nobody else was but for some of the requests that broke (routes.py:91 and the
\* route behind it).
THEOREM TouchesMatchBooksCorrect == GatewaySpec => []TouchesMatchBooks
<1>1. ASSUME GatewayInv, TypeOK, BooksBalance PROVE TouchesMatchBooks
  <2>1. /\ Done \in SUBSET Requests /\ Unbooked \in SUBSET Requests /\ Broken \in SUBSET Requests
        /\ Charged \in SUBSET Requests
    BY DEF Done, Unbooked, Broken, Charged
  <2>2. /\ IsFiniteSet(Done) /\ IsFiniteSet(Unbooked) /\ IsFiniteSet(Broken) /\ IsFiniteSet(Charged)
        /\ Cardinality(Done) \in Nat /\ Cardinality(Unbooked) \in Nat
        /\ Cardinality(Broken) \in Nat /\ Cardinality(Charged) \in Nat
    BY <2>1, SomeRequests
  <2>3. /\ Charged = Done \union Unbooked /\ Done \intersect Unbooked = {}
        /\ Charged \intersect Broken = {}
    BY DEF Charged, Done, Unbooked, Broken
  <2>4. Cardinality(Charged) = Cardinality(Done) + Cardinality(Unbooked)
    <3>1. Cardinality(Done \union Unbooked) =
            Cardinality(Done) + Cardinality(Unbooked) - Cardinality(Done \intersect Unbooked)
      BY <2>2, FS_Union
    <3>2. Cardinality(Done \intersect Unbooked) = 0
      BY <2>3, FS_EmptySet
    <3>3. QED
      BY <2>2, <2>3, <3>1, <3>2
  <2>5. Cardinality(Chargeable) = Cardinality(Charged) + Cardinality(Broken)
    <3>1. Cardinality(Charged \union Broken) =
            Cardinality(Charged) + Cardinality(Broken) - Cardinality(Charged \intersect Broken)
      BY <2>2, FS_Union
    <3>2. Cardinality(Charged \intersect Broken) = 0
      BY <2>3, FS_EmptySet
    <3>3. QED
      BY <2>2, <3>1, <3>2 DEF Chargeable
  <2>6. Booked = Cardinality(Done)
    BY <1>1, BookedIsDone
  <2>7. /\ touches \in Nat
        /\ Cardinality(Charged) <= touches /\ touches <= Cardinality(Chargeable)
    BY <1>1 DEF GatewayInv, TouchesCounted, Staged
  <2>8. QED
    BY <2>2, <2>4, <2>5, <2>6, <2>7 DEF TouchesMatchBooks
<1>2. QED
  BY <1>1, GatewayInvariance, PTL

\* Every booked answer has its entry, is about to push it, or its request was lost in
\* between (router.py:206-221).
THEOREM BooksAgreeWithLogCorrect == GatewaySpec => []BooksAgreeWithLog
<1>1. ASSUME GatewayInv, TypeOK, BooksBalance PROVE BooksAgreeWithLog
  <2> DEFINE unlogged == Done \ LoggedAnswers
  <2>1. LoggedAnswers \subseteq Done
    BY <1>1 DEF GatewayInv, Pushers, Logged, LoggedAnswers
  <2>2. Cardinality(unlogged) = Cardinality(Done) - Cardinality(LoggedAnswers)
    <3>1. Done \intersect LoggedAnswers = LoggedAnswers
      BY <2>1
    <3>2. Cardinality(Done \ LoggedAnswers) = Cardinality(Done) - Cardinality(Done \intersect LoggedAnswers)
      BY <1>1, BookedIsDone, FS_Difference
    <3>3. QED
      BY <3>1, <3>2
  <2>3. Cardinality(LoggedAnswers) \in Nat
    BY <1>1, <2>1, BookedIsDone, FS_Subset, FS_CardinalityType
  <2>4. Booked = Cardinality(LoggedAnswers) + Cardinality(unlogged)
    BY <1>1, <2>2, <2>3, BookedIsDone
  <2>5. ASSUME NEW r \in unlogged PROVE Logging(r) \/ stage[r] = "lost"
    <3>1. r \in Requests /\ pc[r] = "done" /\ r \notin LoggedAnswers
      BY <2>5 DEF Done
    <3>2. stage[r] \in {"route", "answered", "lost"}
      BY <1>1, <3>1 DEF GatewayInv, Staged, Stages
    <3>3. CASE stage[r] \in {"route", "answered"}
      <4>1. Logged(Entry(r, "request", 0))
        BY <1>1, <3>1, <3>3 DEF GatewayInv, Trails, Trail
      <4>2. Entry(r, "request", 0) \notin events
        BY <3>1, EntryFields DEF LoggedAnswers
      <4>3. QED
        BY <4>1, <4>2, EntryFields DEF Logged, Logging
    <3>4. QED
      BY <3>2, <3>3
  <2>6. unlogged = {r \in Requests : pc[r] = "done"} \ LoggedAnswers
    BY DEF Done
  <2>7. QED
    BY <2>4, <2>5, <2>6 DEF BooksAgreeWithLog
<1>2. QED
  BY <1>1, GatewayInvariance, PTL

\* By the time a request is answered, its outcome and every hop it has given up are in
\* the log (event_log.py:4-5).
THEOREM AnswersAreLoggedCorrect == GatewaySpec => []AnswersAreLogged
<1>1. ASSUME GatewayInv PROVE AnswersAreLogged
  <2>1. ASSUME NEW r \in Requests, stage[r] = "answered"
        PROVE  /\ pc[r] = "lost" => \E type \in {"auth_fail", "rate_limit"} : Entry(r, type, 0) \in events
               /\ pc[r] = "done" => Entry(r, "request", 0) \in events
               /\ pc[r] = "exhausted" => Entry(r, "provider_error", hop[r]) \in events
               /\ \A n \in 1 .. hop[r] - 1 : Entry(r, "provider_error", n) \in events
    <3>1. ASSUME NEW type, NEW n, Logged(Entry(r, type, n)) PROVE Entry(r, type, n) \in events
      BY <1>1, <2>1, <3>1, EntryFields DEF GatewayInv, OneEach, Logged
    <3>2. Trail(r)
      BY <1>1 DEF GatewayInv, Trails
    <3>3. QED
      BY <2>1, <3>1, <3>2 DEF Trail
  <2>2. QED
    BY <2>1 DEF AnswersAreLogged
<1>2. QED
  BY <1>1, GatewayInvariance, PTL

\* What the steps ahead are counted from, in every state of the endpoint.
LEMMA HopsInvariance == GatewaySpec => [](TypeOK /\ Staged /\ OneEach /\ HopsBounded)
<1>1. ASSUME GatewayInit PROVE HopsBounded
  <2>1. TypeOK /\ \A r \in Requests : hop[r] = 1 /\ pc[r] = "new"
    BY <1>1, TypeInit DEF GatewayInit, Init
  <2>2. \A r \in Requests : Len(Route(r)) \in Nat
    BY <2>1, TriedNext, 0 \in Nat
  <2>3. QED
    BY <2>1, <2>2 DEF HopsBounded
<1>2. TypeOK /\ HopsBounded /\ [GatewayNext]_allVars => HopsBounded'
  BY HopsBoundedStep, ChatStepsAreRouterSteps
<1>3. QED
  BY <1>1, <1>2, GatewayInvariance, PTL DEF GatewaySpec, GatewayInv

\* A request takes no more steps than its chain allows: three for each hop, and
\* twelve around them.
THEOREM StepsAreBounded ==
  GatewaySpec => [](\A r \in Requests : WorkAhead(r) \in 0 .. 3 * Len(Route(r)) + 12)
<1>1. TypeOK /\ Staged /\ HopsBounded =>
        \A r \in Requests : WorkAhead(r) \in 0 .. 3 * Len(Route(r)) + 12
  BY WorkInRange
<1>2. QED
  BY <1>1, HopsInvariance, PTL

\* Each of its steps uses one of them up, and nobody's step gives any back: no request
\* can be kept busy for ever (router.py:160-250).
THEOREM NoStepBackCorrect == GatewaySpec => NoStepBack
<1> DEFINE Onward == \A r \in Requests : \/ UNCHANGED <<stage[r], pc[r], hop[r], Logging(r)>>
                                         \/ WorkAhead(r)' < WorkAhead(r)
           Known == TypeOK /\ Staged /\ OneEach /\ HopsBounded
<1>1. Known /\ Known' /\ [GatewayNext]_allVars => Onward
  BY NobodySentBack
<1> HIDE DEF Onward
<1>2. Known /\ Known' /\ [GatewayNext]_allVars => [Onward]_allVars
  BY <1>1
<1>3. GatewaySpec => [][Onward]_allVars
  BY <1>2, HopsInvariance, PTL DEF GatewaySpec
<1>4. QED
  BY <1>3 DEF NoStepBack, Onward

-----------------------------------------------------------------------------
(* The endpoint keeps its promise *)

\* What is known of a state of the endpoint.
Known ==
  /\ TypeOK /\ ResponsesAreOwed /\ PaidPath /\ ServedPath
  /\ GatewayInv /\ NothingAhead

\* All of it holds always.
LEMMA KnownInvariance == GatewaySpec => []Known
<1>1. GatewayInit => PaidPath /\ ServedPath /\ NothingAhead
  BY DEF GatewayInit, Init, PaidPath, ServedPath, NothingAhead, Logged
<1>2. TypeOK /\ PaidPath /\ ServedPath /\ [GatewayNext]_allVars => PaidPath' /\ ServedPath'
  BY PaidStep, ServedPathStep, ChatStepsAreRouterSteps
<1>3. TypeOK /\ GatewayInv /\ NothingAhead /\ [GatewayNext]_allVars => NothingAhead'
  BY NothingAheadStep DEF GatewayInv
<1>4. QED
  BY <1>1, <1>2, <1>3, GatewayInvariance, GatewayImplementsRouter, ResponsesAreOwedCorrect, PTL
     DEF GatewaySpec, Known

\* Seen from ChatPromise, too, a step of r is about r alone.
LEMMA SeenElsewhere ==
  ASSUME NEW r \in Requests, OnlyMovesOn(r), NEW q \in Requests, q # r
  PROVE  Statuses'[q] = Statuses[q] /\ Answers'[q] = Answers[q] /\ (q \in Journal' <=> q \in Journal)
<1>1. /\ stage'[q] = stage[q] /\ pc'[q] = pc[q] /\ hop'[q] = hop[q] /\ served'[q] = served[q]
      /\ q \in paid' <=> q \in paid
  BY DEF OnlyMovesOn
<1>2. Answers'[q] = Answers[q]
  BY <1>1 DEF Answers
<1>3. Statuses'[q] = Statuses[q]
  <2>1. /\ Statuses[q] =
             CASE stage[q] \in Over -> stage[q]
               [] stage[q] \in {"denied", "limited"} -> "refused"
               [] stage[q] = "route" /\ pc[q] = "done" -> IF q \in paid THEN "fresh" ELSE "cached"
               [] stage[q] = "route" /\ pc[q] = "exhausted" -> "unavailable"
               [] stage[q] = "route" /\ pc[q] \notin {"done", "exhausted"} -> "charged"
               [] OTHER -> "asked"
        /\ Statuses'[q] =
             CASE stage'[q] \in Over -> stage'[q]
               [] stage'[q] \in {"denied", "limited"} -> "refused"
               [] stage'[q] = "route" /\ pc'[q] = "done" -> IF q \in paid' THEN "fresh" ELSE "cached"
               [] stage'[q] = "route" /\ pc'[q] = "exhausted" -> "unavailable"
               [] stage'[q] = "route" /\ pc'[q] \notin {"done", "exhausted"} -> "charged"
               [] OTHER -> "asked"
    BY Zenon DEF Statuses, Over
  <2>2. QED
    BY <1>1, <2>1
<1>4. q \in Journal' <=> q \in Journal
  <2>1. \A e : Tells(e, q)' <=> Tells(e, q)
    BY <1>1 DEF Tells
  <2>2. \A e : Tells(e, q) => (e \in events' <=> e \in events)
    BY DEF Tells, OnlyMovesOn
  <2>3. QED
    BY <2>1, <2>2 DEF Journal
<1>5. QED
  BY <1>2, <1>3, <1>4

\* ... so that it changes one place of each function, and the journal by r at most.
LEMMA SeenOf ==
  ASSUME NEW r \in Requests, OnlyMovesOn(r)
  PROVE  /\ Statuses' = [Statuses EXCEPT ![r] = Statuses'[r]]
         /\ Answers' = [Answers EXCEPT ![r] = Answers'[r]]
         /\ Statuses'[r] = Statuses[r] => Statuses' = Statuses
         /\ Answers'[r] = Answers[r] => Answers' = Answers
         /\ (r \in Journal' <=> r \in Journal) => Journal' = Journal
         /\ r \in Journal' => Journal' = Journal \union {r}
<1>1. \A q \in Requests \ {r} : /\ Statuses'[q] = Statuses[q] /\ Answers'[q] = Answers[q]
                                /\ (q \in Journal' <=> q \in Journal)
  BY SeenElsewhere
<1>2. /\ Statuses' = [Statuses EXCEPT ![r] = Statuses'[r]]
      /\ Statuses'[r] = Statuses[r] => Statuses' = Statuses
  <2>1. /\ Statuses = [q \in Requests |-> Statuses[q]]
        /\ Statuses' = [q \in Requests |-> Statuses'[q]]
    BY DEF Statuses
  <2>2. QED
    BY <1>1, <2>1
<1>3. /\ Answers' = [Answers EXCEPT ![r] = Answers'[r]]
      /\ Answers'[r] = Answers[r] => Answers' = Answers
  <2>1. /\ Answers = [q \in Requests |-> Answers[q]]
        /\ Answers' = [q \in Requests |-> Answers'[q]]
    BY DEF Answers
  <2>2. QED
    BY <1>1, <2>1
<1>4. Journal \subseteq Requests /\ Journal' \subseteq Requests
  BY DEF Journal
<1>5. /\ (r \in Journal' <=> r \in Journal) => Journal' = Journal
      /\ r \in Journal' => Journal' = Journal \union {r}
  BY <1>1, <1>4
<1>6. QED
  BY <1>2, <1>3, <1>5

\* The places ChatPromise has for a request.
LEMMA StatusTable ==
  ASSUME NEW r \in Requests
  PROVE  /\ stage[r] = "outside" => Statuses[r] = "outside"
         /\ stage[r] \in {"key", "limit", "touch"} => Statuses[r] = "asked"
         /\ stage[r] \in {"denied", "limited"} => Statuses[r] = "refused"
         /\ stage[r] = "route" /\ pc[r] \notin {"done", "exhausted"} => Statuses[r] = "charged"
         /\ stage[r] = "route" /\ pc[r] = "exhausted" => Statuses[r] = "unavailable"
         /\ stage[r] = "route" /\ pc[r] = "done" =>
              Statuses[r] = IF r \in paid THEN "fresh" ELSE "cached"
         /\ Answers[r] = IF pc[r] = "done" THEN served[r] ELSE None
         /\ r \in Journal <=> \E e \in events : Tells(e, r)
         /\ pc[r] \notin Ended => r \notin Journal
  BY DEF Statuses, Over, Answers, Journal, Tells, Ended

\* The same after a step.
LEMMA StatusTableNext ==
  ASSUME NEW r \in Requests
  PROVE  /\ stage'[r] \in {"key", "limit", "touch"} => Statuses'[r] = "asked"
         /\ stage'[r] \in {"denied", "limited"} => Statuses'[r] = "refused"
         /\ stage'[r] \in {"answered", "lost"} => Statuses'[r] = stage'[r]
         /\ stage'[r] = "route" /\ pc'[r] \notin {"done", "exhausted"} => Statuses'[r] = "charged"
         /\ stage'[r] = "route" /\ pc'[r] = "exhausted" => Statuses'[r] = "unavailable"
         /\ stage'[r] = "route" /\ pc'[r] = "done" =>
              Statuses'[r] = IF r \in paid' THEN "fresh" ELSE "cached"
         /\ Answers'[r] = IF pc'[r] = "done" THEN served'[r] ELSE None
         /\ r \in Journal' <=> \E e \in events' : Tells(e, r)'
         /\ pc'[r] \notin Ended => r \notin Journal'
  BY DEF Statuses, Over, Answers, Journal, Tells, Ended

\* A step of the endpoint is one of ChatPromise, or does not show there.
Keeps == [Promise!Next]_(Promise!vars)

\* Steps before the route.
LEMMA EntryKeepsPromise ==
  ASSUME Known, NEW r \in Requests,
         Come(r) \/ Authenticate(r) \/ Deny(r) \/ PassLimit(r) \/ HitLimit(r) \/ Touch(r)
  PROVE  Keeps
<1>1. /\ OnlyMovesOn(r)
      /\ pc \in [Requests -> Labels] /\ stage \in [Requests -> Stages]
      /\ stage[r] = "outside" <=> pc[r] = "new"
      /\ stage[r] \in {"key", "limit", "touch"} => pc[r] = "arrived"
  BY OwnSteps DEF Known, GatewayInv, Staged, TypeOK, ChatCompletions
<1>2. UNCHANGED <<job, paid, books, served, events>> /\ Tally' = Tally
  BY DEF Come, Arrive, Authenticate, Deny, PassLimit, HitLimit, Touch, Abandon, shared, history, vars, Tally
<1>3. CASE Come(r) \/ Authenticate(r) \/ PassLimit(r) \/ Touch(r)
  <2>1. pc'[r] = "arrived" /\ pc[r] \in {"new", "arrived"}
    BY <1>1, <1>3 DEF Come, Arrive, Authenticate, PassLimit, Touch, Goto, vars
  <2>2. Answers'[r] = Answers[r] /\ r \notin Journal /\ r \notin Journal'
    BY <2>1, StatusTable, StatusTableNext DEF Ended
  <2>3. Answers' = Answers /\ Journal' = Journal /\ Statuses' = [Statuses EXCEPT ![r] = Statuses'[r]]
    BY <1>1, <2>2, SeenOf
  <2>4. CASE Come(r)
    <3>1. stage[r] = "outside" /\ stage'[r] = "key" /\ touches' = touches
      BY <1>1, <2>4 DEF Come, Move
    <3>2. Statuses[r] = "outside" /\ Statuses'[r] = "asked"
      BY <3>1, StatusTable, StatusTableNext
    <3>3. Promise!Ask(r)
      BY <1>2, <2>3, <3>1, <3>2 DEF Promise!Ask, Promise!Turn
    <3>4. QED
      BY <3>3 DEF Keeps, Promise!Next
  <2>5. CASE Authenticate(r) \/ PassLimit(r)
    <3>1. stage[r] \in {"key", "limit"} /\ stage'[r] \in {"limit", "touch"} /\ touches' = touches
      BY <1>1, <2>5 DEF Authenticate, PassLimit, Move
    <3>2. Statuses[r] = "asked" /\ Statuses'[r] = "asked"
      BY <3>1, StatusTable, StatusTableNext
    <3>3. Statuses' = Statuses
      BY <1>1, <3>2, SeenOf
    <3>4. QED
      BY <1>2, <2>3, <3>1, <3>3 DEF Keeps, Promise!vars
  <2>6. CASE Touch(r)
    <3>1. stage[r] = "touch" /\ stage'[r] = "route" /\ touches' = touches + 1
      BY <1>1, <2>6 DEF Touch, Move
    <3>2. Statuses[r] = "asked" /\ Statuses'[r] = "charged"
      BY <2>1, <3>1, StatusTable, StatusTableNext
    <3>3. Promise!Charge(r)
      BY <1>2, <2>3, <3>1, <3>2 DEF Promise!Charge, Promise!Turn
    <3>4. QED
      BY <3>3 DEF Keeps, Promise!Next
  <2>7. QED
    BY <1>3, <2>4, <2>5, <2>6
<1>4. CASE Deny(r) \/ HitLimit(r)
  <2>1. /\ stage[r] \in {"key", "limit"} /\ stage'[r] \in {"denied", "limited"}
        /\ pc[r] = "arrived" /\ pc'[r] = "lost" /\ touches' = touches
    BY <1>1, <1>4 DEF Deny, HitLimit, Move, Abandon, Goto
  <2>2. /\ Statuses[r] = "asked" /\ Statuses'[r] = "refused" /\ Answers'[r] = Answers[r]
        /\ r \notin Journal
    BY <2>1, StatusTable, StatusTableNext DEF Ended
  <2>3. r \notin Journal'
    <3>1. ASSUME NEW e \in events, Tells(e, r)' PROVE FALSE
      BY <2>1, <3>1 DEF Tells, Known, NothingAhead, NotAhead, Logged
    <3>2. QED
      BY <1>2, <3>1, StatusTableNext
  <2>4. Answers' = Answers
    BY <1>1, <2>2, SeenOf
  <2>5. Promise!TurnAway(r)
    BY <1>1, <1>2, <2>1, <2>2, <2>3, <2>4, SeenOf DEF Promise!TurnAway, Promise!Turn
  <2>6. QED
    BY <2>5 DEF Keeps, Promise!Next
<1>5. QED
  BY <1>3, <1>4

\* Steps of the route before the books: paying for an answer is all that shows.
LEMMA RouteKeepsPromise ==
  ASSUME Known, NEW r \in Requests, Proceed(r) \/ GiveUpHop(r)
  PROVE  Keeps
<1>1. /\ OnlyMovesOn(r)
      /\ pc \in [Requests -> Labels] /\ stage[r] = "route" /\ stage'[r] = "route"
  BY OwnSteps DEF Known, GatewayInv, Staged, TypeOK, ChatCompletions, Proceed, GiveUpHop, gateVars
<1>2. /\ job' = job /\ touches' = touches /\ Tally' = Tally
      /\ pc[r] \notin Ended /\ pc'[r] \notin Ended
      /\ paid' = paid \/ ProviderAnswers(r)
  BY <1>1
  DEF Proceed, GiveUpHop, Lookup, ReadDisabled, ExactHit, ExactMiss, SemanticHit, SemanticMiss,
      CallProvider, KeepExact, KeepSemantic, SkipDisabled, ShortCircuit, AtHop,
      ProviderFails, ProviderAnswers, Goto, Ended, shared, history, gateVars, Tally
<1>3. /\ Statuses[r] = "charged" /\ Statuses'[r] = "charged" /\ Answers'[r] = Answers[r]
      /\ r \notin Journal /\ r \notin Journal'
  BY <1>1, <1>2, StatusTable, StatusTableNext DEF Ended
<1>4. Statuses' = Statuses /\ Answers' = Answers /\ Journal' = Journal
  BY <1>1, <1>3, SeenOf
<1>5. CASE paid' = paid
  BY <1>2, <1>4, <1>5 DEF Keeps, Promise!vars
<1>6. CASE ProviderAnswers(r)
  <2>1. r \notin paid /\ paid' = paid \union {r}
    BY <1>6 DEF ProviderAnswers, Known, PaidPath
  <2>2. Promise!Pay(r)
    BY <1>2, <1>3, <1>4, <2>1 DEF Promise!Pay
  <2>3. QED
    BY <2>2 DEF Keeps, Promise!Next
<1>7. QED
  BY <1>2, <1>5, <1>6

\* The steps that settle a request in the route write no entry that tells.
LEMMA SettledBeforeTold ==
  ASSUME Known, NEW r \in Requests, RunOut(r) \/ Book(r)
  PROVE  r \notin Journal /\ r \notin Journal'
<1>1. pc[r] \notin Ended
  BY DEF RunOut, Exhaust, Book, TallyHit, TallyMiss, Ended
<1>2. ASSUME NEW e \in events, e.trace = r PROVE e.type # "request" /\ ~ Tells(e, r)'
  <2>1. e.type # "request"
    BY <1>1, <1>2 DEF Known, GatewayInv, Pushers, Logged, Done, Ended
  <2>2. e.type = "provider_error" => e.hop < hop[r]
    BY <1>1, <1>2 DEF Known, NothingAhead, NotAhead, Logged, Ended
  <2>3. e.type = "provider_error" => e.hop # hop[r]
    <3>1. e.hop \in Nat /\ hop[r] \in Nat
      BY <1>2 DEF Known, GatewayInv, OneEach, Entries, TypeOK
    <3>2. QED
      BY <2>2, <3>1
  <2>4. hop' = hop /\ pc'[r] # "lost"
    <3>1. pc \in [Requests -> Labels]
      BY DEF Known, TypeOK
    <3>2. QED
      BY <3>1 DEF RunOut, Exhaust, Book, TallyHit, TallyMiss, Goto
  <2>5. QED
    BY <2>1, <2>3, <2>4 DEF Tells
<1>3. events' = events
  BY DEF RunOut, Book
<1>4. \A e \in events : ~ Tells(e, r)'
  BY <1>2 DEF Tells
<1>5. QED
  BY <1>1, <1>3, <1>4, StatusTable, StatusTableNext

\* A request is settled in one step: with an answer of its own, with one it may share,
\* or with none.
LEMMA SettlingKeepsPromise ==
  ASSUME Known, NEW r \in Requests, RunOut(r) \/ Book(r)
  PROVE  Keeps
<1>1. /\ OnlyMovesOn(r)
      /\ pc \in [Requests -> Labels] /\ stage[r] = "route" /\ stage'[r] = "route"
      /\ served' = served /\ paid' = paid /\ job' = job /\ touches' = touches
      /\ books \in [exact : Nat, semantic : Nat, misses : Nat, fallbacks : Nat]
  BY OwnSteps
  DEF Known, GatewayInv, Staged, TypeOK, ChatCompletions, RunOut, Exhaust, Book, TallyHit, TallyMiss,
      history
<1>2. Journal' = Journal
  BY <1>1, SettledBeforeTold, SeenOf
<1>3. Statuses' = [Statuses EXCEPT ![r] = Statuses'[r]] /\ Answers' = [Answers EXCEPT ![r] = Answers'[r]]
  BY <1>1, SeenOf
<1>4. CASE RunOut(r)
  <2>1. pc[r] = "hop" /\ pc'[r] = "exhausted" /\ books' = books
    BY <1>1, <1>4 DEF RunOut, Exhaust, Goto, shared
  <2>2. /\ Statuses[r] = "charged" /\ Statuses'[r] = "unavailable" /\ Answers'[r] = Answers[r]
    BY <1>1, <2>1, StatusTable, StatusTableNext
  <2>3. r \notin paid
    BY <2>1 DEF Known, PaidPath
  <2>4. Tally' = Tally /\ Answers' = Answers
    BY <1>1, <2>1, <2>2, SeenOf DEF Tally
  <2>5. Promise!GiveUp(r)
    BY <1>1, <1>2, <1>3, <2>2, <2>3, <2>4 DEF Promise!GiveUp, Promise!Turn
  <2>6. QED
    BY <2>5 DEF Keeps, Promise!Next
<1>5. CASE Book(r) /\ TallyMiss(r)
  <2>1. pc[r] = "tallyMiss" /\ pc'[r] = "done" /\ books'.misses = books.misses + 1
        /\ books'.exact = books.exact /\ books'.semantic = books.semantic
    BY <1>1, <1>5 DEF TallyMiss, Goto
  <2>2. r \in paid /\ served[r] = r
    BY <2>1 DEF Known, PaidPath, ServedPath
  <2>3. /\ Statuses[r] = "charged" /\ Statuses'[r] = "fresh" /\ Answers'[r] = r
    BY <1>1, <2>1, <2>2, StatusTable, StatusTableNext
  <2>4. Tally' = [Tally EXCEPT !.fresh = @ + 1]
    BY <2>1 DEF Tally
  <2>5. Promise!SettleFresh(r)
    BY <1>1, <1>2, <1>3, <2>2, <2>3, <2>4 DEF Promise!SettleFresh, Promise!Turn
  <2>6. QED
    BY <2>5 DEF Keeps, Promise!Next
<1>6. CASE Book(r) /\ TallyHit(r)
  <2>1. /\ pc[r] \in {"tallyExact", "tallySemantic"} /\ pc'[r] = "done"
        /\ books'.misses = books.misses
        /\ books'.exact + books'.semantic = books.exact + books.semantic + 1
    BY <1>1, <1>6 DEF TallyHit, Goto
  <2>2. r \notin paid /\ served[r] # None
    BY <2>1 DEF Known, PaidPath, ServedPath
  <2>3. /\ Statuses[r] = "charged" /\ Statuses'[r] = "cached" /\ Answers'[r] = served[r]
    BY <1>1, <2>1, <2>2, StatusTable, StatusTableNext
  <2>4. Tally' = [Tally EXCEPT !.cached = @ + 1]
    BY <2>1 DEF Tally
  <2>5. served[r] \in paid /\ MayShare(job[served[r]], job[r])
    BY <2>2 DEF Known, ResponsesAreOwed, Owed
  <2>6. <<job[served[r]], job[r]>> \in Sharing
    <3>1. job[served[r]] \in Jobs /\ job[r] \in Jobs
      BY <2>5 DEF Known, TypeOK
    <3>2. QED
      BY <2>5, <3>1 DEF Sharing
  <2>7. \E o \in paid : <<job[o], job[r]>> \in Sharing /\ Answers' = [Answers EXCEPT ![r] = o]
    BY <1>3, <2>3, <2>5, <2>6
  <2>8. Promise!SettleCached(r)
    BY <1>1, <1>2, <1>3, <2>2, <2>3, <2>4, <2>7 DEF Promise!SettleCached, Promise!Turn
  <2>9. QED
    BY <2>8 DEF Keeps, Promise!Next
<1>7. QED
  BY <1>4, <1>5, <1>6 DEF Book

\* The entry that tells how a request has ended is recorded; any other does not show.
LEMMA PushKeepsPromise ==
  ASSUME Known, NEW r \in Requests, PushEntry(r)
  PROVE  Keeps
<1>1. /\ OnlyMovesOn(r)
      /\ UNCHANGED <<job, stage, pc, hop, served, paid, touches>> /\ Tally' = Tally
      /\ events \subseteq events'
  BY OwnSteps DEF Known, GatewayInv, ChatCompletions, PushEntry, vars, Tally
<1>2. Statuses' = Statuses /\ Answers' = Answers
  BY <1>1 DEF Statuses, Answers
<1>3. r \in Journal => r \in Journal'
  BY <1>1 DEF Journal, Tells
<1>4. CASE r \in Journal' /\ r \notin Journal
  <2>1. stage[r] \in {"denied", "limited", "route"} /\ pc[r] \in Ended
    <3>1. stage[r] \in {"denied", "limited", "route"}
      BY DEF PushEntry, Known, GatewayInv, OneEach
    <3>2. pc'[r] \in Ended
      BY <1>4, StatusTableNext
    <3>3. QED
      BY <1>1, <3>1, <3>2
  <2>2. stage[r] = "route" => pc[r] \in {"done", "exhausted"}
    BY <2>1 DEF Known, GatewayInv, Staged, Ended
  <2>3. Statuses[r] \in Promise!Settled
    BY <2>1, <2>2, StatusTable DEF Promise!Settled
  <2>4. Journal' = Journal \union {r}
    BY <1>1, <1>4, SeenOf
  <2>5. Promise!Record(r)
    BY <1>1, <1>2, <1>4, <2>3, <2>4 DEF Promise!Record
  <2>6. QED
    BY <2>5 DEF Keeps, Promise!Next
<1>5. CASE r \in Journal' <=> r \in Journal
  <2>1. Journal' = Journal
    BY <1>1, <1>5, SeenOf
  <2>2. QED
    BY <1>1, <1>2, <2>1 DEF Keeps, Promise!vars
<1>6. QED
  BY <1>3, <1>4, <1>5

\* Who is answered is in the journal.
LEMMA ReplyKeepsPromise ==
  ASSUME Known, NEW r \in Requests, Reply(r)
  PROVE  Keeps
<1>1. /\ OnlyMovesOn(r)
      /\ UNCHANGED <<job, pc, hop, served, paid, touches, events>> /\ Tally' = Tally
      /\ stage[r] \in {"denied", "limited", "route"} /\ stage'[r] = "answered"
      /\ stage[r] = "route" => pc[r] \in {"done", "exhausted"}
      /\ stage[r] \in {"denied", "limited"} => pc[r] = "lost"
  BY OwnSteps DEF Known, GatewayInv, Staged, ChatCompletions, Reply, Move, vars, Tally
<1>2. Statuses[r] \in Promise!Settled /\ Statuses'[r] = "answered" /\ Answers'[r] = Answers[r]
  BY <1>1, StatusTable, StatusTableNext DEF Promise!Settled
<1>3. ASSUME NEW type, NEW n, Logged(Entry(r, type, n)) PROVE Entry(r, type, n) \in events
  BY <1>3, EntryFields DEF Reply, Logging, Logged
<1>4. /\ stage[r] = "denied" => Entry(r, "auth_fail", 0) \in events
      /\ stage[r] = "limited" => Entry(r, "rate_limit", 0) \in events
      /\ stage[r] = "route" /\ pc[r] = "done" => Entry(r, "request", 0) \in events
      /\ stage[r] = "route" /\ pc[r] = "exhausted" => Entry(r, "provider_error", hop[r]) \in events
  BY <1>3 DEF Known, GatewayInv, Trails, Trail
<1>5. \E e \in events : Tells(e, r)
  BY <1>1, <1>4 DEF Tells, Entry
<1>6. r \in Journal /\ r \in Journal'
  <2>1. r \in Journal
    BY <1>5, StatusTable
  <2>2. QED
    BY <1>1, <2>1 DEF Journal, Tells
<1>7. Answers' = Answers /\ Journal' = Journal /\ Statuses' = [Statuses EXCEPT ![r] = "answered"]
  BY <1>1, <1>2, <1>6, SeenOf
<1>8. Promise!Answer(r)
  BY <1>1, <1>2, <1>6, <1>7 DEF Promise!Answer, Promise!Turn
<1>9. QED
  BY <1>8 DEF Keeps, Promise!Next

\* A request that breaks off is lost, and what is booked and logged of it stays so.
LEMMA BreakKeepsPromise ==
  ASSUME Known, NEW r \in Requests, Break(r)
  PROVE  Keeps
<1>1. /\ OnlyMovesOn(r)
      /\ UNCHANGED <<job, hop, served, paid, touches, events>> /\ Tally' = Tally
      /\ stage[r] \in {"key", "limit", "touch", "denied", "limited", "route"} /\ stage'[r] = "lost"
      /\ pc'[r] = IF pc[r] \in Ended THEN pc[r] ELSE "lost"
      /\ stage[r] = "route" => pc[r] # "lost"
  <2>1. OnlyMovesOn(r)
    BY OwnSteps DEF Known, GatewayInv
  <2>2. pc \in [Requests -> Labels] /\ stage \in [Requests -> Stages] /\ (stage[r] = "route" => pc[r] # "lost")
    BY DEF Known, GatewayInv, Staged, TypeOK
  <2>3. /\ UNCHANGED <<job, hop, served, paid, touches, events>> /\ Tally' = Tally
        /\ pc'[r] = IF pc[r] \in Ended THEN pc[r] ELSE "lost"
    BY <2>2 DEF Break, Abandon, Goto, shared, history, vars, Tally
  <2>4. stage[r] \in {"key", "limit", "touch", "denied", "limited", "route"} /\ stage'[r] = "lost"
    BY <2>2 DEF Break, Move, Over, Stages
  <2>5. QED
    BY <2>1, <2>2, <2>3, <2>4
<1>2. Statuses[r] \in Promise!Settled \union {"asked", "charged"}
  BY <1>1, StatusTable DEF Promise!Settled
<1>3. Statuses'[r] = "lost" /\ Answers'[r] = Answers[r]
  BY <1>1, StatusTable, StatusTableNext DEF Ended
<1>4. r \in Journal' <=> r \in Journal
  <2>1. CASE pc[r] \in Ended
    BY <1>1, <2>1 DEF Journal, Tells
  <2>2. CASE pc[r] \notin Ended
    <3>1. ASSUME NEW e \in events, Tells(e, r)' PROVE FALSE
      BY <1>1, <2>2, <3>1 DEF Tells, Known, NothingAhead, NotAhead, Logged, Ended
    <3>2. QED
      BY <1>1, <2>2, <3>1, StatusTable, StatusTableNext
  <2>3. QED
    BY <2>1, <2>2
<1>5. Answers' = Answers /\ Journal' = Journal /\ Statuses' = [Statuses EXCEPT ![r] = "lost"]
  BY <1>1, <1>3, <1>4, SeenOf
<1>6. Promise!Lose(r)
  BY <1>1, <1>2, <1>5 DEF Promise!Lose, Promise!Turn
<1>7. QED
  BY <1>6 DEF Keeps, Promise!Next

\* The chat endpoint implements ChatPromise: however requests interleave, fail over, hit
\* and fill the caches or break off, each is charged before it is served, settled once
\* with an answer it is owed, booked as what it was, and in the log before its client
\* hears of it (routes.py:23-131, router.py:114-250).
THEOREM GatewayKeepsPromise == GatewaySpec => KeepsPromise
<1>1. ASSUME GatewayInit PROVE Promise!Init
  <2>1. /\ job \in [Requests -> Jobs] /\ paid = {} /\ touches = 0 /\ Tally = [fresh |-> 0, cached |-> 0]
        /\ \A r \in Requests : stage[r] = "outside" /\ pc[r] = "new"
        /\ events = {}
    BY <1>1 DEF GatewayInit, Init, Tally
  <2>2. Statuses = [r \in Requests |-> "outside"]
    BY <2>1 DEF Statuses, Over
  <2>3. Answers = [r \in Requests |-> None] /\ Journal = {}
    BY <2>1 DEF Answers, Journal
  <2>4. QED
    BY <2>1, <2>2, <2>3 DEF Promise!Init
<1>2. ASSUME Known, [GatewayNext]_allVars PROVE Keeps
  <2>1. CASE Around \/ UNCHANGED allVars
    <3>1. UNCHANGED <<job, stage, pc, hop, served, paid, events, books, touches>>
      BY <2>1, OtherSteps
    <3>2. UNCHANGED Promise!vars
      BY <3>1 DEF Promise!vars, Statuses, Answers, Journal, Tells, Tally
    <3>3. QED
      BY <3>2 DEF Keeps
  <2>2. QED
    BY <1>2, <2>1, EntryKeepsPromise, RouteKeepsPromise, SettlingKeepsPromise, PushKeepsPromise,
       ReplyKeepsPromise, BreakKeepsPromise DEF GatewayNext, ChatCompletions
<1>3. GatewaySpec => [][Promise!Next]_(Promise!vars)
  BY <1>2, KnownInvariance, PTL DEF GatewaySpec, Keeps
<1>4. QED
  BY <1>1, <1>3, PTL DEF GatewaySpec, KeepsPromise, Promise!Spec

=============================================================================
