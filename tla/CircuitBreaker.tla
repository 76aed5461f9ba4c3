--------------------------- MODULE CircuitBreaker ---------------------------
(***************************************************************************)
(* The Redis-backed circuit breaker of one provider                        *)
(* (app/core/circuit_breaker.py) together with the part of the fallback    *)
(* loop that drives it (app/core/router.py, lines 169-198).                *)
(*                                                                         *)
(* Every gateway coroutine that is talking to this provider is a caller.   *)
(* A Redis command, or a MULTI pipeline, is one atomic step; everything a  *)
(* coroutine does between two awaits belongs to the step before or after.  *)
(* Time is a discrete clock, kept as ages and remaining lifetimes so that  *)
(* it never has to be bounded: Tick makes everything one unit older.       *)
(***************************************************************************)
EXTENDS Integers, FiniteSets

CONSTANTS
  Callers,      \* coroutines that may use the provider at the same time
  Configs,      \* the thresholds and recovery times an administrator may set
  Threshold,    \* the lowest circuit_failure_threshold among them
  Recovery,     \* the shortest circuit_recovery_seconds among them, in ticks
  LongRecovery, \* the longest
  Window,       \* window_seconds, in ticks
  CallLimit,    \* most ticks a caller spends between get_state and its last step
  MaxFailures   \* the failure counter is not followed above this value

ASSUME CallersAssumption == IsFiniteSet(Callers)
ASSUME TimesAssumption ==
  /\ Recovery \in Nat
  /\ LongRecovery \in Nat
  /\ Window \in Nat \ {0}
  /\ CallLimit \in Nat
ASSUME CountsAssumption ==
  /\ Threshold \in Int
  /\ MaxFailures \in Nat \ {0}
  /\ Threshold <= MaxFailures
ASSUME ConfigsAssumption ==
  Configs \subseteq [threshold : Threshold..MaxFailures, recovery : Recovery..LongRecovery]

VARIABLES
  failures,    \* cb:{p}:failures, 0 when the key is absent
  failTTL,     \* ticks until that key expires, 0 when it is absent
  openedAge,   \* age of the time in cb:{p}:opened_at, Absent when unset
  probeTTL,    \* ticks until cb:{p}:probe_inflight expires, 0 when absent
  pc,          \* where each caller is
  stamp,       \* age of the time a caller holds: the opened_at it has read
               \* (at "gate"), or the moment it decided to trip (at "trip")
  busy,        \* ticks since the caller began
  probes,      \* history: the callers let through by the probe lock
  errors       \* history: ProviderErrors since the failure count was cleared

store == <<failures, failTTL, openedAge, probeTTL>>
vars == <<failures, failTTL, openedAge, probeTTL, pc, stamp, busy, probes, errors>>

-----------------------------------------------------------------------------
\* No time is stored or held.
Absent == -1

\* Ages are only compared with recovery times, so they stop growing at the longest.
Ages == 0..LongRecovery

Labels == {"idle", "gate", "calling", "won", "failed", "counted", "trip", "release"}

\* Enough to count every failure in the counter and every one not yet in it.
MaxErrors == MaxFailures + Cardinality(Callers)

Older(age) == IF age \in {Absent, LongRecovery} THEN age ELSE age + 1

Countdown(ttl) == IF ttl = 0 THEN 0 ELSE ttl - 1

\* Mutant of AgedProbeLock: the lock is created without ex.
UnexpiringProbeLock == probeTTL

\* The lock is created with ex=recovery_seconds, so it goes by itself.
AgedProbeLock == Countdown(probeTTL)

\* Callers that have a ProviderError in hand and have not counted it yet.
Uncounted == {c \in Callers : pc[c] = "failed"}

\* Mutant of SeesHalfOpen: the recovery time is over one tick too early.
SeesHalfOpenEarly(c, k) == stamp[c] >= k.recovery - 1

\* What get_state answers a caller with configuration k, from the opened_at it has
\* read. The breaker is built anew for every request, with the configuration of that
\* moment (routes.py:44-51). A caller's own does not change; that each step here may
\* take any allows more than the code does, and needs no copy of it.
SeesClosed(c)      == stamp[c] = Absent
SeesHalfOpen(c, k) == stamp[c] >= k.recovery
SeesOpen(c, k)     == stamp[c] \in 0 .. k.recovery - 1

Goto(c, label) == pc' = [pc EXCEPT ![c] = label]

\* The caller leaves the breaker and forgets what it held.
Leave(c) ==
  /\ Goto(c, "idle")
  /\ stamp' = [stamp EXCEPT ![c] = Absent]
  /\ busy' = [busy EXCEPT ![c] = 0]
  /\ probes' = probes \ {c}

Init ==
  /\ failures = 0 /\ failTTL = 0 /\ openedAge = Absent /\ probeTTL = 0
  /\ pc = [c \in Callers |-> "idle"]
  /\ stamp = [c \in Callers |-> Absent]
  /\ busy = [c \in Callers |-> 0]
  /\ probes = {}
  /\ errors = 0

-----------------------------------------------------------------------------
(* before_call: the gate in front of the provider *)

\* GET opened_at, the first command of get_state.
Begin(c) ==
  /\ pc[c] = "idle"
  /\ Goto(c, "gate")
  /\ stamp' = [stamp EXCEPT ![c] = openedAge]
  /\ UNCHANGED <<store, busy, probes, errors>>

\* CLOSED: the call goes out.
PassClosed(c) ==
  /\ pc[c] = "gate"
  /\ SeesClosed(c)
  /\ Goto(c, "calling")
  /\ UNCHANGED <<store, stamp, busy, probes, errors>>

\* OPEN: CircuitOpenError, and the router goes to its next hop.
RejectOpen(c) ==
  /\ pc[c] = "gate"
  /\ \E k \in Configs : SeesOpen(c, k)
  /\ Leave(c)
  /\ UNCHANGED <<store, errors>>

\* Mutant of AcquireProbe: SET without NX.
AcquireProbeAnyway(c) ==
  /\ pc[c] = "gate"
  /\ \E k \in Configs :
       /\ SeesHalfOpen(c, k) /\ k.recovery # 0
       /\ probeTTL' = k.recovery
  /\ probes' = probes \union {c}
  /\ Goto(c, "calling")
  /\ stamp' = [stamp EXCEPT ![c] = Absent]
  /\ UNCHANGED <<failures, failTTL, openedAge, busy, errors>>

\* HALF_OPEN: SET probe_inflight NX EX recovery_seconds, acquired. Redis refuses
\* EX 0, which is an error the router does not catch: Abandon, then.
\* The comparison with the clock that precedes it is part of this step: once
\* it has said HALF_OPEN it goes on saying so.
AcquireProbe(c) ==
  /\ pc[c] = "gate"
  /\ probeTTL = 0
  /\ \E k \in Configs :
       /\ SeesHalfOpen(c, k) /\ k.recovery # 0
       /\ probeTTL' = k.recovery
  /\ probes' = probes \union {c}
  /\ Goto(c, "calling")
  /\ stamp' = [stamp EXCEPT ![c] = Absent]
  /\ UNCHANGED <<failures, failTTL, openedAge, busy, errors>>

\* Mutant of RejectProbe: the rejected request releases the lock on its way out.
RejectProbeAndRelease(c) ==
  /\ pc[c] = "gate"
  /\ \E k \in Configs : SeesHalfOpen(c, k) /\ k.recovery # 0
  /\ probeTTL # 0
  /\ probeTTL' = 0
  /\ Leave(c)
  /\ UNCHANGED <<failures, failTTL, openedAge, errors>>

\* Mutant of RejectProbe: what SET NX answers is ignored.
PassWithoutLock(c) ==
  /\ pc[c] = "gate"
  /\ \E k \in Configs : SeesHalfOpen(c, k) /\ k.recovery # 0
  /\ probeTTL # 0
  /\ Goto(c, "calling")
  /\ stamp' = [stamp EXCEPT ![c] = Absent]
  /\ UNCHANGED <<store, busy, probes, errors>>

\* HALF_OPEN: the lock is taken, CircuitOpenError. The router does not count
\* it as a failure of the provider (router.py:179).
RejectProbe(c) ==
  /\ pc[c] = "gate"
  /\ \E k \in Configs : SeesHalfOpen(c, k) /\ k.recovery # 0
  /\ probeTTL # 0
  /\ Leave(c)
  /\ UNCHANGED <<store, errors>>

-----------------------------------------------------------------------------
(* The provider's answer, and what the router records of it *)

CallSucceeds(c) ==
  /\ pc[c] = "calling"
  /\ Goto(c, "won")
  /\ UNCHANGED <<store, stamp, busy, probes, errors>>

\* complete raises ProviderError.
CallFails(c) ==
  /\ pc[c] = "calling"
  /\ Goto(c, "failed")
  /\ errors' = IF errors = MaxErrors THEN errors ELSE errors + 1
  /\ UNCHANGED <<store, stamp, busy, probes>>

\* Mutant of ClearBreaker: the failure counter is forgotten.
ClearKeepingFailures ==
  /\ UNCHANGED <<failures, failTTL>>
  /\ openedAge' = Absent
  /\ probeTTL' = 0
  /\ errors' = Cardinality(Uncounted)

\* The three keys go in one MULTI; errors restarts from the failures that
\* are still on their way to the counter.
ClearBreaker ==
  /\ failures' = 0
  /\ failTTL' = 0
  /\ openedAge' = Absent
  /\ probeTTL' = 0
  /\ errors' = Cardinality(Uncounted)

\* record_success
RecordSuccess(c) ==
  /\ pc[c] = "won"
  /\ ClearBreaker
  /\ Leave(c)

\* Mutant of CountFailure: INCR without EXPIRE.
CountFailureForGood(c) ==
  /\ pc[c] = "failed"
  /\ failures' = IF failures = MaxFailures THEN failures ELSE failures + 1
  /\ Goto(c, "counted")
  /\ UNCHANGED <<failTTL, openedAge, probeTTL, stamp, busy, probes, errors>>

\* record_failure, first pipeline: INCR failures; EXPIRE failures window.
CountFailure(c) ==
  /\ pc[c] = "failed"
  /\ failures' = IF failures = MaxFailures THEN failures ELSE failures + 1
  /\ failTTL' = Window
  /\ Goto(c, "counted")
  /\ UNCHANGED <<openedAge, probeTTL, stamp, busy, probes, errors>>

\* record_failure: GET failures, compare with the threshold.
ReadFailures(c) ==
  /\ pc[c] = "counted"
  /\ \E k \in Configs :
       \/ /\ failures >= k.threshold
          /\ Goto(c, "trip")
          /\ stamp' = [stamp EXCEPT ![c] = 0]
       \/ /\ failures < k.threshold
          /\ Goto(c, "release")
          /\ UNCHANGED stamp
  /\ UNCHANGED <<store, busy, probes, errors>>

\* record_failure: SET opened_at time.time(). The time is taken at some moment
\* between the comparison and the SET.
OpenCircuit(c) ==
  /\ pc[c] = "trip"
  /\ \E age \in 0..stamp[c] : openedAge' = age
  /\ Goto(c, "release")
  /\ stamp' = [stamp EXCEPT ![c] = Absent]
  /\ UNCHANGED <<failures, failTTL, probeTTL, busy, probes, errors>>

\* record_failure: DELETE probe_inflight, whoever holds it.
ReleaseProbe(c) ==
  /\ pc[c] = "release"
  /\ probeTTL' = 0
  /\ Leave(c)
  /\ UNCHANGED <<failures, failTTL, openedAge, errors>>

-----------------------------------------------------------------------------
(* What happens around the callers *)

\* The coroutine ends where it is: the process dies, the client goes away, a
\* Redis command fails, or complete raises something else than ProviderError.
Abandon(c) ==
  /\ pc[c] # "idle"
  /\ Leave(c)
  /\ UNCHANGED <<store, errors>>

\* POST /admin/providers/{p}/reset-circuit calls record_success.
AdminReset ==
  /\ ClearBreaker
  /\ UNCHANGED <<pc, stamp, busy, probes>>

\* One unit of time passes; no caller stays longer than CallLimit.
Tick ==
  /\ \A c \in Callers : pc[c] # "idle" => busy[c] < CallLimit
  /\ busy' = [c \in Callers |-> IF pc[c] = "idle" THEN 0 ELSE busy[c] + 1]
  /\ stamp' = [c \in Callers |-> Older(stamp[c])]
  /\ openedAge' = Older(openedAge)
  /\ probeTTL' = AgedProbeLock
  /\ failTTL' = Countdown(failTTL)
  /\ failures' = IF failTTL = 1 THEN 0 ELSE failures
  /\ errors' = IF failTTL = 1 THEN Cardinality(Uncounted) ELSE errors
  /\ UNCHANGED <<pc, probes>>

Gate(c) == Begin(c) \/ PassClosed(c) \/ RejectOpen(c) \/ AcquireProbe(c) \/ RejectProbe(c)

Answer(c) == CallSucceeds(c) \/ CallFails(c)

Record(c) ==
  \/ RecordSuccess(c)
  \/ CountFailure(c)
  \/ ReadFailures(c)
  \/ OpenCircuit(c)
  \/ ReleaseProbe(c)

Handle(c) == Gate(c) \/ Answer(c) \/ Record(c)

Next ==
  \/ \E c \in Callers : Handle(c) \/ Abandon(c)
  \/ AdminReset
  \/ Tick

Spec == Init /\ [][Next]_vars

\* Requests keep coming, every one runs to its end, and time passes.
Fairness ==
  /\ WF_vars(Tick)
  /\ \A c \in Callers : WF_vars(Handle(c))

FairSpec == Spec /\ Fairness

\* The kindest environment: nobody is lost, nobody resets the breaker, and
\* Redis answers at once, so that time passes only during provider calls.
Prompt == \A c \in Callers : pc[c] \in {"idle", "calling"}

PromptSpec == Init /\ [][(\E c \in Callers : Handle(c)) \/ (Prompt /\ Tick)]_vars

-----------------------------------------------------------------------------
(* Properties *)

\* The state is well formed: a failure counter is never left without an
\* expiry (INCR and EXPIRE travel together), ages and lifetimes stay in range.
TypeOK ==
  /\ failures \in 0..MaxFailures
  /\ failTTL \in 0..Window
  /\ failures = 0 <=> failTTL = 0
  /\ openedAge \in Ages \union {Absent}
  /\ probeTTL \in 0..LongRecovery
  /\ pc \in [Callers -> Labels]
  /\ stamp \in [Callers -> Ages \union {Absent}]
  /\ busy \in [Callers -> 0..CallLimit]
  /\ probes \subseteq Callers
  /\ errors \in 0..MaxErrors

\* What the circuit is to a caller with the shortest recovery time; with a longer
\* one it is open still when others may probe it.
HalfOpen == openedAge >= Recovery
Open == openedAge \in 0 .. Recovery - 1

\* Callers spend little time in the breaker compared to any recovery time.
ShortCalls == 2 * CallLimit < Recovery

\* While the circuit is half-open to anyone at most one probe is in flight
\* (circuit_breaker.py:69), though callers disagree on when that is. Nothing ties the lock to its owner - it expires by
\* itself, and every record_failure and record_success deletes it - so this
\* rests on ShortCalls alone.
SingleProbe ==
  HalfOpen => \A c, d \in probes : pc[c] = "calling" /\ pc[d] = "calling" => c = d

\* An open circuit soon goes quiet: a call still in flight was let through, on
\* a state read earlier, no longer than one CallLimit after the recorded
\* opening time. Later calls are all short-circuited.
QuietWhileOpen ==
  Open => \A c \in Callers : pc[c] = "calling" => openedAge <= CallLimit + busy[c]

\* Why the two hold. A caller is late when it began more than one CallLimit
\* after the recorded opening time, hence after everyone who could still
\* record another. A late caller at the gate holds the stored time; beyond the
\* gate it is the only one there, a probe, and the lock it took outlives its stay.
Late(c) == openedAge > CallLimit + busy[c]

BeyondGate(c) == pc[c] \notin {"idle", "gate"}

LateCallersHoldTheLock ==
  /\ \A c \in Callers : pc[c] = "trip" => stamp[c] \in 0..busy[c]
  /\ \A c \in Callers : pc[c] = "gate" /\ Late(c) => stamp[c] = openedAge
  /\ \A c \in Callers : BeyondGate(c) /\ Late(c) =>
       HalfOpen /\ probeTTL + busy[c] >= Recovery /\ c \in probes
  /\ \A c, d \in Callers :
       BeyondGate(c) /\ BeyondGate(d) /\ Late(c) /\ Late(d) => c = d

\* record_success closes the circuit whoever calls it, and so does a call that
\* went out before others opened it and succeeds late. With short calls that ends
\* soon: a success recorded by a late caller is a probe's.
LateSuccessIsAProbe ==
  [][\A c \in Callers : Late(c) /\ RecordSuccess(c) => c \in probes]_vars

\* A caller decides to trip the circuit only after at least Threshold ProviderErrors
\* since the count was last cleared, by a success, an operator or its expiry;
\* short-circuited requests are not among them.
TripsAreEarned ==
  [][\A c \in Callers : pc[c] = "counted" /\ pc'[c] = "trip" => errors >= Threshold]_vars

\* Why it holds: each counted failure, and each one waiting to be counted, is a
\* ProviderError of its own.
FailuresAreErrors == failures + Cardinality(Uncounted) <= errors

\* The provider works: no call fails and no caller is lost on the way. A caller
\* that is turned away at the gate leaves like one that is lost, but is not.
Healthy == \A c \in Callers : ~ CallFails(c) /\ (Abandon(c) => Handle(c))

\* Once the provider works again and traffic goes on, the circuit closes for
\* good, whatever the callers lost before have left behind in Redis.
Recovers == <>[][Healthy]_vars => <>[](openedAge = Absent)

\* "Failure -> OPEN again" (circuit_breaker.py:10): when a probe has failed and
\* record_failure returns, the circuit does not stay half-open.
FailedProbeReopens ==
  [][\A c \in Callers : c \in probes /\ ReleaseProbe(c) => ~ HalfOpen]_vars

=============================================================================
