------------------------ MODULE CircuitBreakerProofs ------------------------
(***************************************************************************)
(* Proofs about CircuitBreaker, for any set of callers and any times.      *)
(***************************************************************************)
EXTENDS CircuitBreaker, FiniteSetTheorems, TLAPS

\* There are never more failures waiting to be counted than callers.
LEMMA UncountedFinite ==
  /\ IsFiniteSet(Uncounted)
  /\ Cardinality(Uncounted) \in Nat
  /\ Cardinality(Callers) \in Nat
  /\ Cardinality(Uncounted) <= Cardinality(Callers)
<1>1. Uncounted \subseteq Callers
  BY DEF Uncounted
<1>2. IsFiniteSet(Uncounted) /\ Cardinality(Uncounted) <= Cardinality(Callers)
  BY <1>1, CallersAssumption, FS_Subset
<1>3. QED
  BY <1>2, CallersAssumption, FS_CardinalityType

-----------------------------------------------------------------------------
(* Type correctness *)

\* Leaving the breaker keeps the caller's variables well typed.
LEMMA LeaveTyped ==
  ASSUME TypeOK, NEW c \in Callers, Leave(c)
  PROVE  /\ pc' \in [Callers -> Labels]
         /\ stamp' \in [Callers -> Ages \union {Absent}]
         /\ busy' \in [Callers -> 0..CallLimit]
         /\ probes' \subseteq Callers
  BY TimesAssumption DEF TypeOK, Leave, Goto, Labels

\* Clearing the three keys leaves the stored state well typed.
LEMMA ClearTyped ==
  ASSUME ClearBreaker
  PROVE  /\ failures' \in 0..MaxFailures
         /\ failTTL' \in 0..Window
         /\ failures' = 0 <=> failTTL' = 0
         /\ openedAge' \in Ages \union {Absent}
         /\ probeTTL' \in 0..LongRecovery
         /\ errors' \in 0..MaxErrors
  BY UncountedFinite, TimesAssumption, CountsAssumption DEF ClearBreaker, MaxErrors

\* Every step keeps the state well formed.
LEMMA TypeStep == TypeOK /\ [Next]_vars => TypeOK'
<1> SUFFICES ASSUME TypeOK, [Next]_vars PROVE TypeOK'
  OBVIOUS
<1> USE TimesAssumption, CountsAssumption, ConfigsAssumption DEF Absent, Ages
<1>1. ASSUME NEW c \in Callers, Gate(c) PROVE TypeOK'
  <2>1. CASE Begin(c)
    BY <2>1 DEF TypeOK, Begin, Goto, Labels, store
  <2>2. CASE PassClosed(c)
    BY <2>2 DEF TypeOK, PassClosed, Goto, Labels, store
  <2>3. CASE RejectOpen(c)
    BY <2>3, LeaveTyped DEF TypeOK, RejectOpen, store
  <2>4. CASE AcquireProbe(c)
    BY <2>4 DEF TypeOK, AcquireProbe, Goto, Labels
  <2>5. CASE RejectProbe(c)
    BY <2>5, LeaveTyped DEF TypeOK, RejectProbe, store
  <2>6. QED
    BY <1>1, <2>1, <2>2, <2>3, <2>4, <2>5 DEF Gate
<1>2. ASSUME NEW c \in Callers, Answer(c) PROVE TypeOK'
  <2>1. CASE CallSucceeds(c)
    BY <2>1 DEF TypeOK, CallSucceeds, Goto, Labels, store
  <2>2. CASE CallFails(c)
    <3>1. errors' \in 0..MaxErrors
      BY <2>2, UncountedFinite DEF TypeOK, CallFails, MaxErrors
    <3>2. QED
      BY <2>2, <3>1 DEF TypeOK, CallFails, Goto, Labels, store, MaxErrors
  <2>3. QED
    BY <1>2, <2>1, <2>2 DEF Answer
<1>3. ASSUME NEW c \in Callers, Record(c) PROVE TypeOK'
  <2>1. CASE RecordSuccess(c)
    BY <2>1, LeaveTyped, ClearTyped DEF TypeOK, RecordSuccess, MaxErrors
  <2>2. CASE CountFailure(c)
    BY <2>2 DEF TypeOK, CountFailure, Goto, Labels, MaxErrors
  <2>3. CASE ReadFailures(c)
    <3>1. CASE failures >= Threshold
      BY <2>3, <3>1 DEF TypeOK, ReadFailures, Goto, Labels, store, MaxErrors
    <3>2. CASE ~ (failures >= Threshold)
      BY <2>3, <3>2 DEF TypeOK, ReadFailures, Goto, Labels, store, MaxErrors
    <3>3. QED
      BY <3>1, <3>2
  <2>4. CASE OpenCircuit(c)
    BY <2>4 DEF TypeOK, OpenCircuit, Goto, Labels, MaxErrors
  <2>5. CASE ReleaseProbe(c)
    BY <2>5, LeaveTyped DEF TypeOK, ReleaseProbe, MaxErrors
  <2>6. QED
    BY <1>3, <2>1, <2>2, <2>3, <2>4, <2>5 DEF Record
<1>4. ASSUME NEW c \in Callers, Abandon(c) PROVE TypeOK'
  BY <1>4, LeaveTyped DEF TypeOK, Abandon, store, MaxErrors
<1>5. CASE AdminReset
  BY <1>5, ClearTyped DEF TypeOK, AdminReset, MaxErrors
<1>6. CASE Tick
  <2>1. errors' \in 0..MaxErrors
    BY <1>6, UncountedFinite DEF TypeOK, Tick, MaxErrors
  <2>2. /\ failures' \in 0..MaxFailures
        /\ failTTL' \in 0..Window
        /\ failures' = 0 <=> failTTL' = 0
    BY <1>6 DEF TypeOK, Tick, Countdown
  <2>3. /\ openedAge' \in Ages \union {Absent}
        /\ probeTTL' \in 0..LongRecovery
    BY <1>6 DEF TypeOK, Tick, Countdown, Older, AgedProbeLock
  <2>4. stamp' \in [Callers -> Ages \union {Absent}]
    BY <1>6 DEF TypeOK, Tick, Older
  <2>5. busy' \in [Callers -> 0..CallLimit]
    BY <1>6 DEF TypeOK, Tick
  <2>6. QED
    BY <1>6, <2>1, <2>2, <2>3, <2>4, <2>5 DEF TypeOK, Tick, MaxErrors
<1>7. CASE UNCHANGED vars
  BY <1>7 DEF TypeOK, vars, MaxErrors
<1>8. QED
  BY <1>1, <1>2, <1>3, <1>4, <1>5, <1>6, <1>7 DEF Next, Handle

\* The breaker's state is well formed in every execution; in particular the
\* failure counter never outlives its window (INCR is followed by EXPIRE).
THEOREM TypeCorrect == Spec => []TypeOK
<1>1. Init => TypeOK
  BY UncountedFinite, TimesAssumption, CountsAssumption
     DEF Init, TypeOK, Absent, Ages, Labels, MaxErrors
<1>2. QED
  BY <1>1, TypeStep, PTL DEF Spec

-----------------------------------------------------------------------------
(* One probe at a time, and quiet while open *)

\* A step that changes neither ages nor times and only makes callers leave or
\* stay in place cannot make anyone late.
LEMMA LeavePreserves ==
  ASSUME TypeOK, LateCallersHoldTheLock, NEW c \in Callers, Leave(c),
         openedAge' = openedAge, probeTTL' = probeTTL
  PROVE  LateCallersHoldTheLock'
  BY TimesAssumption
     DEF TypeOK, LateCallersHoldTheLock, Late, BeyondGate, HalfOpen, Leave, Goto

\* A closed circuit has no late callers.
LEMMA ClosedHasNoLate ==
  ASSUME TypeOK, openedAge = Absent
  PROVE  \A c \in Callers : ~ Late(c)
  BY TimesAssumption DEF TypeOK, Late, Absent

\* What the settings are between.
LEMMA ConfigBounds ==
  /\ Recovery \in Nat /\ LongRecovery \in Nat /\ Threshold \in Int /\ MaxFailures \in Nat
  /\ \A k \in Configs :
       /\ k.recovery \in Nat /\ Recovery <= k.recovery /\ k.recovery <= LongRecovery
       /\ k.threshold \in Int /\ Threshold <= k.threshold
  BY TimesAssumption, CountsAssumption, ConfigsAssumption

\* When calls are short, every caller of a half-open circuit is late.
LEMMA HalfOpenIsLate ==
  ASSUME ShortCalls, TypeOK, HalfOpen
  PROVE  \A c \in Callers : Late(c)
  BY TimesAssumption DEF TypeOK, Late, HalfOpen, ShortCalls, Ages, Absent

\* The gate admits a late caller only as the one holder of the lock.
LEMMA GateStep ==
  ASSUME ShortCalls, TypeOK, TypeOK', LateCallersHoldTheLock,
         NEW c \in Callers, Gate(c)
  PROVE  LateCallersHoldTheLock'
<1> USE TimesAssumption, ConfigsAssumption
<1>1. CASE Begin(c)
  BY <1>1 DEF Begin, Goto, store, TypeOK, LateCallersHoldTheLock, Late, BeyondGate,
              HalfOpen
<1>2. CASE PassClosed(c)
  <2>1. ~ Late(c)
    BY <1>2 DEF PassClosed, SeesClosed, TypeOK, LateCallersHoldTheLock, Late, Absent
  <2>2. QED
    BY <1>2, <2>1 DEF PassClosed, Goto, store, TypeOK, LateCallersHoldTheLock, Late,
                      BeyondGate, HalfOpen
<1>3. CASE RejectOpen(c)
  BY <1>3, LeavePreserves DEF RejectOpen, store
<1>4. CASE AcquireProbe(c)
  <2>1. \A d \in Callers : BeyondGate(d) => ~ Late(d)
    BY <1>4 DEF AcquireProbe, TypeOK, LateCallersHoldTheLock, ShortCalls
  <2>2. Late(c) => HalfOpen
    <3>1. PICK k \in Configs : stamp[c] >= k.recovery
      BY <1>4 DEF AcquireProbe, SeesHalfOpen
    <3>2. Late(c) => stamp[c] = openedAge
      BY <1>4 DEF AcquireProbe, LateCallersHoldTheLock
    <3>3. stamp[c] \in Int
      BY DEF TypeOK, Ages, Absent
    <3>4. QED
      BY <3>1, <3>2, <3>3, ConfigBounds DEF HalfOpen
  <2>3. probeTTL' \in Nat /\ probeTTL' >= Recovery
    BY <1>4, ConfigBounds DEF AcquireProbe
  <2>4. QED
    BY <1>4, <2>1, <2>2, <2>3 DEF AcquireProbe, Goto, TypeOK, LateCallersHoldTheLock, Late,
                                  BeyondGate, HalfOpen
<1>5. CASE RejectProbe(c)
  BY <1>5, LeavePreserves DEF RejectProbe, store
<1>6. QED
  BY <1>1, <1>2, <1>3, <1>4, <1>5 DEF Gate

\* Recording an answer disturbs no late caller: a success closes the circuit,
\* a trip writes a time too young for anyone to be late, and the lock is
\* deleted by the only caller there is once the circuit is half-open.
LEMMA RecordStep ==
  ASSUME ShortCalls, TypeOK, TypeOK', LateCallersHoldTheLock,
         NEW c \in Callers, Record(c)
  PROVE  LateCallersHoldTheLock'
<1> USE TimesAssumption, ConfigsAssumption
<1>1. CASE RecordSuccess(c)
  <2>1. \A d \in Callers : ~ Late(d)'
    BY <1>1, ClosedHasNoLate
       DEF RecordSuccess, ClearBreaker, Late, TypeOK, Absent
  <2>2. QED
    BY <1>1, <2>1 DEF RecordSuccess, Leave, Goto, TypeOK, LateCallersHoldTheLock
<1>2. CASE CountFailure(c)
  BY <1>2 DEF CountFailure, Goto, TypeOK, LateCallersHoldTheLock, Late, BeyondGate,
              HalfOpen
<1>3. CASE ReadFailures(c)
  BY <1>3 DEF ReadFailures, Goto, store, TypeOK, LateCallersHoldTheLock, Late,
              BeyondGate, HalfOpen
<1>4. CASE OpenCircuit(c)
  <2>1. openedAge' <= CallLimit
    BY <1>4 DEF OpenCircuit, TypeOK, LateCallersHoldTheLock, Ages, Absent
  <2>2. \A d \in Callers : ~ Late(d)'
    BY <1>4, <2>1 DEF OpenCircuit, Late, TypeOK, Ages, Absent
  <2>3. QED
    BY <1>4, <2>2 DEF OpenCircuit, Goto, TypeOK, LateCallersHoldTheLock
<1>5. CASE ReleaseProbe(c)
  <2>1. BeyondGate(c)
    BY <1>5 DEF ReleaseProbe, BeyondGate
  <2>2. \A d \in Callers \ {c} : BeyondGate(d) => ~ Late(d)
    BY <2>1, HalfOpenIsLate DEF LateCallersHoldTheLock
  <2>3. QED
    BY <1>5, <2>2 DEF ReleaseProbe, Leave, Goto, TypeOK, LateCallersHoldTheLock, Late,
                      BeyondGate, HalfOpen
<1>6. QED
  BY <1>1, <1>2, <1>3, <1>4, <1>5 DEF Record

\* Time makes nobody late and wears the lock down as fast as it wears the
\* caller's stay.
LEMMA TickStep ==
  ASSUME ShortCalls, TypeOK, TypeOK', LateCallersHoldTheLock, Tick
  PROVE  LateCallersHoldTheLock'
<1> USE TimesAssumption, ConfigsAssumption
<1>1. \A c \in Callers : pc[c] # "idle" /\ Late(c)' => Late(c)
  BY DEF Tick, TypeOK, Late, Older, Ages, Absent, ShortCalls
<1>2. \A c \in Callers : (pc[c] = "trip" => stamp[c] \in 0..busy[c])'
  BY DEF Tick, TypeOK, LateCallersHoldTheLock, Older, Ages, Absent
<1>3. \A c \in Callers : (pc[c] = "gate" /\ Late(c) => stamp[c] = openedAge)'
  BY <1>1 DEF Tick, TypeOK, LateCallersHoldTheLock, Older
<1>4. \A c \in Callers : (BeyondGate(c) /\ Late(c) =>
         HalfOpen /\ probeTTL + busy[c] >= Recovery /\ c \in probes)'
  <2> SUFFICES ASSUME NEW c \in Callers, (BeyondGate(c) /\ Late(c))'
               PROVE  (HalfOpen /\ probeTTL + busy[c] >= Recovery /\ c \in probes)'
    OBVIOUS
  <2>1. BeyondGate(c) /\ Late(c) /\ busy[c] < CallLimit /\ busy'[c] = busy[c] + 1
    BY <1>1 DEF Tick, BeyondGate, TypeOK
  <2>2. HalfOpen /\ probeTTL + busy[c] >= Recovery /\ c \in probes
    BY <2>1 DEF LateCallersHoldTheLock
  <2>3. /\ busy[c] \in Nat /\ probeTTL \in Nat /\ openedAge \in Int /\ CallLimit \in Nat
    BY DEF TypeOK, Ages, Absent
  <2>4. openedAge' >= openedAge /\ openedAge' \in Int
    BY <2>3 DEF Tick, Older, TypeOK, Ages, Absent
  <2>5. probeTTL' = probeTTL - 1
    BY <2>1, <2>2, <2>3, ConfigBounds DEF Tick, AgedProbeLock, Countdown, ShortCalls
  <2>6. QED
    BY <2>1, <2>2, <2>3, <2>4, <2>5, ConfigBounds DEF HalfOpen, Tick
<1>5. \A c, d \in Callers :
         (BeyondGate(c) /\ BeyondGate(d) /\ Late(c) /\ Late(d))' => c = d
  BY <1>1 DEF Tick, LateCallersHoldTheLock, BeyondGate
<1>6. QED
  BY <1>2, <1>3, <1>4, <1>5 DEF LateCallersHoldTheLock

\* LateCallersHoldTheLock is inductive when calls are short.
LEMMA LockStep ==
  ASSUME ShortCalls
  PROVE  TypeOK /\ TypeOK' /\ LateCallersHoldTheLock /\ [Next]_vars
           => LateCallersHoldTheLock'
<1> SUFFICES ASSUME TypeOK, TypeOK', LateCallersHoldTheLock, [Next]_vars
             PROVE  LateCallersHoldTheLock'
  OBVIOUS
<1>1. ASSUME NEW c \in Callers, Gate(c) PROVE LateCallersHoldTheLock'
  BY <1>1, GateStep
<1>2. ASSUME NEW c \in Callers, Answer(c) PROVE LateCallersHoldTheLock'
  BY <1>2 DEF Answer, CallSucceeds, CallFails, Goto, store, TypeOK,
              LateCallersHoldTheLock, Late, BeyondGate, HalfOpen
<1>3. ASSUME NEW c \in Callers, Record(c) PROVE LateCallersHoldTheLock'
  BY <1>3, RecordStep
<1>4. ASSUME NEW c \in Callers, Abandon(c) PROVE LateCallersHoldTheLock'
  BY <1>4, LeavePreserves DEF Abandon, store
<1>5. CASE AdminReset
  <2>1. \A d \in Callers : ~ Late(d)'
    BY <1>5, TimesAssumption DEF AdminReset, ClearBreaker, Late, TypeOK, Absent
  <2>2. QED
    BY <1>5, <2>1 DEF AdminReset, LateCallersHoldTheLock
<1>6. CASE Tick
  BY <1>6, TickStep
<1>7. CASE UNCHANGED vars
  BY <1>7 DEF vars, LateCallersHoldTheLock, Late, BeyondGate, HalfOpen
<1>8. QED
  BY <1>1, <1>2, <1>3, <1>4, <1>5, <1>6, <1>7 DEF Next, Handle

\* When calls are short, late callers hold the lock in every execution.
THEOREM LockCorrect ==
  ASSUME ShortCalls
  PROVE  Spec => []LateCallersHoldTheLock
<1>1. Init => LateCallersHoldTheLock
  BY DEF Init, LateCallersHoldTheLock, BeyondGate
<1>2. QED
  BY <1>1, TypeCorrect, LockStep, PTL DEF Spec

\* When calls are short, a half-open circuit has at most one probe in flight.
THEOREM SingleProbeCorrect ==
  ASSUME ShortCalls
  PROVE  Spec => []SingleProbe
<1>1. TypeOK /\ LateCallersHoldTheLock => SingleProbe
  BY HalfOpenIsLate DEF SingleProbe, LateCallersHoldTheLock, BeyondGate, TypeOK
<1>2. QED
  BY <1>1, TypeCorrect, LockCorrect, PTL

\* When calls are short, the calls in flight while the circuit is open all
\* began by one CallLimit after it opened.
THEOREM QuietWhileOpenCorrect ==
  ASSUME ShortCalls
  PROVE  Spec => []QuietWhileOpen
<1>1. TypeOK /\ LateCallersHoldTheLock => QuietWhileOpen
  BY TimesAssumption
     DEF QuietWhileOpen, Open, HalfOpen, LateCallersHoldTheLock, Late, BeyondGate, TypeOK,
         Ages, Absent
<1>2. QED
  BY <1>1, TypeCorrect, LockCorrect, PTL

\* When calls are short, only a probe or an operator closes a circuit that has
\* been open for some time: the same invariant, at the step that closes it.
THEOREM LateSuccessIsAProbeCorrect ==
  ASSUME ShortCalls
  PROVE  Spec => LateSuccessIsAProbe
<1>1. LateCallersHoldTheLock =>
        [\A c \in Callers : Late(c) /\ RecordSuccess(c) => c \in probes]_vars
  BY DEF LateCallersHoldTheLock, BeyondGate, RecordSuccess
<1>2. QED
  BY <1>1, LockCorrect, PTL DEF Spec, LateSuccessIsAProbe

-----------------------------------------------------------------------------
(* Trips are earned *)

\* Who waits to be counted after a step that moves one caller.
LEMMA UncountedStep ==
  ASSUME TypeOK, NEW c \in Callers, NEW label \in Labels,
         pc' = [pc EXCEPT ![c] = label]
  PROVE  /\ label # "failed" /\ pc[c] # "failed" => Uncounted' = Uncounted
         /\ label # "failed" => Uncounted' = Uncounted \ {c}
         /\ label = "failed" => Uncounted' = Uncounted \union {c}
  BY DEF TypeOK, Uncounted

\* A caller that goes on, in any way but by failing, adds nothing to count.
LEMMA NothingToCount ==
  ASSUME TypeOK, NEW c \in Callers, NEW label \in Labels \ {"failed"},
         pc' = [pc EXCEPT ![c] = label]
  PROVE  /\ Cardinality(Uncounted') \in Nat
         /\ Cardinality(Uncounted') <= Cardinality(Uncounted)
<1>1. Uncounted' = Uncounted \ {c}
  BY UncountedStep
<1>2. QED
  BY <1>1, UncountedFinite, FS_RemoveElement, FS_CardinalityType

\* A step that counts nothing, of a caller with no failure in hand afterwards,
\* keeps the books.
LEMMA NothingCounted ==
  ASSUME TypeOK, FailuresAreErrors, NEW c \in Callers, NEW label \in Labels \ {"failed"},
         Goto(c, label), failures' = failures, errors' = errors
  PROVE  FailuresAreErrors'
<1>1. /\ Cardinality(Uncounted') \in Nat
      /\ Cardinality(Uncounted') <= Cardinality(Uncounted)
  BY NothingToCount DEF Goto
<1>2. failures \in Nat /\ errors \in Int
  BY UncountedFinite, CountsAssumption DEF TypeOK, MaxErrors
<1>3. QED
  BY <1>1, <1>2, UncountedFinite DEF FailuresAreErrors

\* Failing adds one ProviderError and at most one failure to count.
LEMMA CallFailsStep ==
  ASSUME TypeOK, FailuresAreErrors, NEW c \in Callers, CallFails(c)
  PROVE  FailuresAreErrors'
<1>1. Uncounted' = Uncounted \union {c} /\ Uncounted' \subseteq Callers
  BY UncountedStep DEF CallFails, Goto, Labels, Uncounted
<1>2. /\ Cardinality(Uncounted') \in Nat
      /\ Cardinality(Uncounted') <= Cardinality(Uncounted) + 1
  <2>1. /\ IsFiniteSet(Uncounted')
        /\ Cardinality(Uncounted') =
             IF c \in Uncounted THEN Cardinality(Uncounted) ELSE Cardinality(Uncounted) + 1
    BY <1>1, UncountedFinite, FS_AddElement
  <2>2. QED
    BY <2>1, UncountedFinite
<1>3. Cardinality(Uncounted') <= Cardinality(Callers)
  BY <1>1, CallersAssumption, FS_Subset
<1>4. /\ failures' = failures /\ failures \in 0..MaxFailures
      /\ errors \in 0..MaxErrors
      /\ errors' = IF errors = MaxErrors THEN errors ELSE errors + 1
  BY DEF CallFails, store, TypeOK
<1>5. failures + Cardinality(Uncounted') <= errors'
  BY <1>2, <1>3, <1>4, UncountedFinite, CountsAssumption DEF FailuresAreErrors, MaxErrors
<1>6. QED
  BY <1>5 DEF FailuresAreErrors, CallFails, store

\* Counting moves a failure from the waiting ones to the counter.
LEMMA CountFailureStep ==
  ASSUME TypeOK, FailuresAreErrors, NEW c \in Callers, CountFailure(c)
  PROVE  FailuresAreErrors'
<1>1. c \in Uncounted /\ Uncounted' = Uncounted \ {c}
  BY UncountedStep DEF CountFailure, Goto, Labels, Uncounted
<1>2. Cardinality(Uncounted') = Cardinality(Uncounted) - 1
  BY <1>1, UncountedFinite, FS_RemoveElement
<1>3. QED
  BY <1>2, UncountedFinite, CountsAssumption
     DEF CountFailure, TypeOK, FailuresAreErrors, MaxErrors

\* FailuresAreErrors is inductive.
LEMMA EarnedStep ==
  TypeOK /\ FailuresAreErrors /\ [Next]_vars => FailuresAreErrors'
<1> SUFFICES ASSUME TypeOK, FailuresAreErrors, [Next]_vars
             PROVE  FailuresAreErrors'
  OBVIOUS
<1> USE UncountedFinite, CountsAssumption
<1>1. ASSUME NEW c \in Callers, Gate(c) PROVE FailuresAreErrors'
  <2>1. PICK label \in Labels \ {"failed"} : Goto(c, label)
    BY <1>1 DEF Gate, Begin, PassClosed, RejectOpen, AcquireProbe, RejectProbe, Leave,
                Labels
  <2>2. failures' = failures /\ errors' = errors
    BY <1>1 DEF Gate, Begin, PassClosed, RejectOpen, AcquireProbe, RejectProbe, store
  <2>3. QED
    BY <2>1, <2>2, NothingCounted
<1>2. ASSUME NEW c \in Callers, Answer(c) PROVE FailuresAreErrors'
  <2>1. CASE CallSucceeds(c)
    BY <2>1, NothingCounted DEF CallSucceeds, store, Labels
  <2>2. QED
    BY <1>2, <2>1, CallFailsStep DEF Answer
<1>3. ASSUME NEW c \in Callers, Record(c) PROVE FailuresAreErrors'
  <2>1. CASE RecordSuccess(c)
    <3>1. /\ Cardinality(Uncounted') \in Nat
          /\ Cardinality(Uncounted') <= Cardinality(Uncounted)
      BY <2>1, NothingToCount DEF RecordSuccess, Leave, Goto, Labels
    <3>2. QED
      BY <2>1, <3>1 DEF RecordSuccess, ClearBreaker, FailuresAreErrors
  <2>2. CASE CountFailure(c)
    BY <2>2, CountFailureStep
  <2>3. CASE ReadFailures(c) \/ OpenCircuit(c) \/ ReleaseProbe(c)
    <3>1. PICK label \in Labels \ {"failed"} : Goto(c, label)
      BY <2>3 DEF ReadFailures, OpenCircuit, ReleaseProbe, Leave, Labels
    <3>2. failures' = failures /\ errors' = errors
      BY <2>3 DEF ReadFailures, OpenCircuit, ReleaseProbe, store
    <3>3. QED
      BY <3>1, <3>2, NothingCounted
  <2>4. QED
    BY <1>3, <2>1, <2>2, <2>3 DEF Record
<1>4. ASSUME NEW c \in Callers, Abandon(c) PROVE FailuresAreErrors'
  BY <1>4, NothingCounted DEF Abandon, Leave, store, Labels
<1>5. CASE AdminReset
  <2>1. Uncounted' = Uncounted
    BY <1>5 DEF AdminReset, Uncounted
  <2>2. QED
    BY <1>5, <2>1 DEF AdminReset, ClearBreaker, FailuresAreErrors
<1>6. CASE Tick
  <2>1. Uncounted' = Uncounted
    BY <1>6 DEF Tick, Uncounted
  <2>2. QED
    BY <1>6, <2>1 DEF Tick, FailuresAreErrors
<1>7. CASE UNCHANGED vars
  BY <1>7 DEF vars, FailuresAreErrors, Uncounted
<1>8. QED
  BY <1>1, <1>2, <1>3, <1>4, <1>5, <1>6, <1>7 DEF Next, Handle

\* A caller trips the circuit only after Threshold ProviderErrors since the
\* count was last cleared.
THEOREM TripsAreEarnedCorrect == Spec => TripsAreEarned
<1>1. Init => FailuresAreErrors
  <2>1. ASSUME Init PROVE Uncounted = {}
    BY <2>1 DEF Init, Uncounted
  <2>2. QED
    BY <2>1, FS_EmptySet DEF Init, FailuresAreErrors
<1>2. TypeOK /\ FailuresAreErrors /\ [Next]_vars =>
        [\A c \in Callers : pc[c] = "counted" /\ pc'[c] = "trip" => errors >= Threshold]_vars
  <2> SUFFICES ASSUME TypeOK, FailuresAreErrors, Next, NEW c \in Callers,
                      pc[c] = "counted", pc'[c] = "trip"
               PROVE  errors >= Threshold
    OBVIOUS
  <2>1. PICK d \in Callers : Handle(d) \/ Abandon(d)
    BY DEF Next, AdminReset, Tick
  <2>2. ReadFailures(c)
    BY <2>1 DEF Handle, Abandon, Gate, Begin, PassClosed, RejectOpen, AcquireProbe,
                RejectProbe, Answer, CallSucceeds, CallFails, Record, RecordSuccess,
                CountFailure, ReadFailures, OpenCircuit, ReleaseProbe, Leave, Goto, TypeOK
  <2>3. failures >= Threshold
    <3>1. PICK k \in Configs : failures >= k.threshold
      BY <2>2 DEF ReadFailures, Goto, TypeOK
    <3>2. failures \in Int
      BY CountsAssumption DEF TypeOK
    <3>3. QED
      BY <3>1, <3>2, ConfigBounds
  <2>4. QED
    BY <2>3, UncountedFinite, CountsAssumption DEF TypeOK, FailuresAreErrors, MaxErrors
<1>3. QED
  BY <1>1, <1>2, TypeCorrect, EarnedStep, PTL DEF Spec, TripsAreEarned

-----------------------------------------------------------------------------
(* The boundaries of the settings *)

\* A circuit that nobody has passed and nobody has read as closed.
Shut ==
  /\ openedAge # Absent
  /\ \A c \in Callers : ~ BeyondGate(c) /\ (pc[c] = "gate" => stamp[c] # Absent)

\* A recovery time of 0, which PATCH /admin/config accepts, leaves no way back while
\* it lasts (LongRecovery is the longest set):
\* SET with EX 0 is an error, so that no probe is ever sent, and once the calls in
\* flight are over an open circuit is closed by nobody but an operator.
THEOREM NoRecoveryStaysShut ==
  ASSUME LongRecovery = 0
  PROVE  Spec => [][Shut => AdminReset \/ Shut']_vars
<1>1. TypeOK /\ [Next]_vars => (Shut => AdminReset \/ Shut')
  <2> SUFFICES ASSUME TypeOK, [Next]_vars, Shut, ~ AdminReset
               PROVE  Shut'
    OBVIOUS
  <2>1. ASSUME NEW c \in Callers, Begin(c) PROVE Shut'
    BY <2>1 DEF TypeOK, Shut, BeyondGate, Begin, Goto, store
  <2>2. ASSUME NEW c \in Callers, RejectOpen(c) \/ RejectProbe(c) \/ Abandon(c) PROVE Shut'
    BY <2>2 DEF TypeOK, Shut, BeyondGate, RejectOpen, RejectProbe, Abandon, Leave, Goto, store
  <2>3. ASSUME NEW c \in Callers
        PROVE  ~ PassClosed(c) /\ ~ AcquireProbe(c) /\ ~ Answer(c) /\ ~ Record(c)
    <3>1. \A k \in Configs : k.recovery = 0
      BY ConfigBounds
    <3>2. QED
      BY <3>1 DEF Shut, BeyondGate, PassClosed, SeesClosed, AcquireProbe, Answer, CallSucceeds,
                  CallFails, Record, RecordSuccess, CountFailure, ReadFailures, OpenCircuit,
                  ReleaseProbe
  <2>4. CASE Tick
    BY <2>4, TimesAssumption DEF TypeOK, Shut, BeyondGate, Tick, Older, Ages, Absent
  <2>5. CASE UNCHANGED vars
    BY <2>5 DEF Shut, BeyondGate, vars
  <2>6. QED
    BY <2>1, <2>2, <2>3, <2>4, <2>5 DEF Next, Handle, Gate
<1>2. QED
  BY <1>1, TypeCorrect, PTL DEF Spec

\* What a failure has done to the circuit when no time passes in the breaker: it
\* is counted, or somebody has closed the circuit since; then it is not half-open.
FailureTakesEffect ==
  /\ \A c \in Callers : pc[c] = "counted" => failures >= 1 \/ ~ HalfOpen
  /\ \A c \in Callers : pc[c] = "trip" => stamp[c] = 0
  /\ \A c \in Callers : pc[c] = "release" => ~ HalfOpen

LEMMA TakesEffectStep ==
  ASSUME \A k \in Configs : k.threshold <= 1, Recovery # 0, TypeOK, FailureTakesEffect,
         NEW c \in Callers, Handle(c)
  PROVE  FailureTakesEffect'
<1> USE TimesAssumption, CountsAssumption, ConfigsAssumption
<1>1. CASE Gate(c)
  BY <1>1 DEF Gate, Begin, PassClosed, RejectOpen, AcquireProbe, RejectProbe, Leave, Goto,
              store, TypeOK, FailureTakesEffect, HalfOpen
<1>2. CASE Answer(c)
  BY <1>2 DEF Answer, CallSucceeds, CallFails, Goto, store, TypeOK, FailureTakesEffect, HalfOpen
<1>3. CASE RecordSuccess(c)
  BY <1>3 DEF RecordSuccess, ClearBreaker, Leave, Goto, TypeOK, FailureTakesEffect, HalfOpen,
              Absent
<1>4. CASE CountFailure(c)
  BY <1>4 DEF CountFailure, Goto, TypeOK, FailureTakesEffect, HalfOpen
<1>5. CASE ReadFailures(c)
  <2>1. CASE failures >= Threshold
    BY <1>5, <2>1 DEF ReadFailures, Goto, store, TypeOK, FailureTakesEffect, HalfOpen
  <2>2. CASE ~ (failures >= Threshold)
    BY <1>5, <2>2 DEF ReadFailures, Goto, store, TypeOK, FailureTakesEffect, HalfOpen
  <2>3. QED
    BY <2>1, <2>2
<1>6. CASE OpenCircuit(c)
  <2>1. openedAge' = 0 /\ failures' = failures
    BY <1>6 DEF OpenCircuit, FailureTakesEffect
  <2>2. ~ HalfOpen'
    BY <2>1 DEF HalfOpen
  <2>3. QED
    BY <1>6, <2>2 DEF OpenCircuit, Goto, TypeOK, FailureTakesEffect
<1>7. CASE ReleaseProbe(c)
  BY <1>7 DEF ReleaseProbe, Leave, Goto, TypeOK, FailureTakesEffect, HalfOpen
<1>8. QED
  BY <1>1, <1>2, <1>3, <1>4, <1>5, <1>6, <1>7 DEF Handle, Record

\* "Failure -> OPEN again" (circuit_breaker.py:10) is true of a threshold of 1, for
\* any number of callers, when Redis answers at once. With a higher one it is not:
\* the counter that opened the circuit may be gone before the probe fails.
THEOREM FailedProbeReopensAtOne ==
  ASSUME \A k \in Configs : k.threshold <= 1, Recovery # 0
  PROVE  PromptSpec => FailedProbeReopens
<1> DEFINE Step == (\E c \in Callers : Handle(c)) \/ (Prompt /\ Tick)
<1>1. Init => TypeOK /\ FailureTakesEffect
  BY UncountedFinite, TimesAssumption, CountsAssumption
     DEF Init, TypeOK, FailureTakesEffect, Absent, Ages, Labels, MaxErrors
<1>2. TypeOK /\ FailureTakesEffect /\ [Step]_vars => TypeOK' /\ FailureTakesEffect'
  <2> SUFFICES ASSUME TypeOK, FailureTakesEffect, [Step]_vars
               PROVE  TypeOK' /\ FailureTakesEffect'
    OBVIOUS
  <2>1. TypeOK'
    BY TypeStep DEF Next
  <2>2. ASSUME NEW c \in Callers, Handle(c) PROVE FailureTakesEffect'
    BY <2>2, TakesEffectStep
  <2>3. CASE Prompt /\ Tick
    BY <2>1, <2>3 DEF Prompt, Tick, FailureTakesEffect
  <2>4. CASE UNCHANGED vars
    BY <2>1, <2>4 DEF vars, FailureTakesEffect, HalfOpen
  <2>5. QED
    BY <2>1, <2>2, <2>3, <2>4
<1>3. FailureTakesEffect => [\A c \in Callers : c \in probes /\ ReleaseProbe(c) => ~ HalfOpen]_vars
  BY DEF FailureTakesEffect, ReleaseProbe
<1>4. QED
  BY <1>1, <1>2, <1>3, PTL DEF PromptSpec, FailedProbeReopens

=============================================================================
