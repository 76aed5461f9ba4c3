--------------------------- MODULE TripLogProofs ---------------------------
(***************************************************************************)
(* Proofs about the hop around the breaker: it drives the breaker as       *)
(* CircuitBreaker allows, so that all of CircuitBreaker's theorems hold of *)
(* it; the log keeps its bound; and it raises no false alarm.              *)
(***************************************************************************)
EXTENDS TripLog, CircuitBreakerProofs, TLAPS

\* What is inductive: the shape of the state, that whoever saw the circuit closed
\* and has not witnessed an opening is right, and that alarms are witnessed.
LogInv == LogTypeOK /\ UnwitnessedIsClosed /\ AlarmsAreReal

\* LPUSH and LTRIM keep the list a list of entries, no longer than MAX_ENTRIES.
LEMMA PushKeepsBound ==
  ASSUME LogSize \in Nat \ {0}, events \in Seq(Types), Len(events) <= LogSize,
         NEW type \in Types, Push(type)
  PROVE  events' \in Seq(Types) /\ Len(events') <= LogSize
  <1> DEFINE pushed == <<type>> \o events
  <1>1. pushed \in Seq(Types) /\ Len(pushed) = Len(events) + 1
    OBVIOUS
  <1>2. events' = IF Len(pushed) > LogSize THEN SubSeq(pushed, 1, LogSize) ELSE pushed
    BY DEF Push
  <1> HIDE DEF pushed
  <1>3. CASE Len(pushed) > LogSize
    BY <1>1, <1>2, <1>3
  <1>4. CASE ~ (Len(pushed) > LogSize)
    BY <1>1, <1>2, <1>4
  <1> QED
    BY <1>3, <1>4

\* Every step of the hop is a step of CircuitBreaker, or none at all.
LEMMA HopStepsAreBreakerSteps ==
  ASSUME [LogNext]_allVars
  PROVE  [Next]_vars
  <1>1. ASSUME NEW c \in Callers, Hop(c)
        PROVE  [Next]_vars
    BY <1>1 DEF Hop, Look, Enter, GoOn, TripOpen, Succeed, TurnedAway, Fail, ReadBack, Log,
       Next, Handle, Gate, Answer, Record
  <1>2. ASSUME NEW c \in Callers, Swallow(c) \/ Lose(c)
        PROVE  [Next]_vars
    BY <1>2 DEF Swallow, Lose, Next
  <1>3. CASE (AdminReset \/ Tick) /\ UNCHANGED logVars
    BY <1>3 DEF Next
  <1>4. CASE UNCHANGED allVars
    BY <1>4 DEF allVars, vars
  <1> QED
    BY <1>1, <1>2, <1>3, <1>4 DEF LogNext

\* Only TripOpen lets the breaker open, and it makes witnesses of all who are there.
LEMMA OpeningsAreWitnessed ==
  ASSUME [LogNext]_allVars, LogTypeOK, openedAge = Absent, openedAge' # Absent
  PROVE  stage' = stage /\ wasOpen' = wasOpen /\ witnessed' = Callers \ Away
  <1>1. ASSUME NEW c \in Callers, Hop(c), ~ TripOpen(c)
        PROVE  openedAge' = openedAge \/ openedAge' = Absent
    BY <1>1 DEF Hop, Look, Enter, GoOn, Succeed, TurnedAway, Fail, ReadBack, Log, vars,
       Begin, PassClosed, RejectOpen, AcquireProbe, RejectProbe, Answer, CallSucceeds,
       CallFails, RecordSuccess, ClearBreaker, CountFailure, ReadFailures, ReleaseProbe, store
  <1>2. ASSUME NEW c \in Callers, Swallow(c) \/ Lose(c)
        PROVE  openedAge' = openedAge
    BY <1>2 DEF Swallow, Lose, Abandon, store, vars
  <1>3. ~ AdminReset /\ ~ Tick /\ ~ UNCHANGED allVars
    BY DEF AdminReset, ClearBreaker, Tick, Older, allVars, vars
  <1>4. PICK c \in Callers : TripOpen(c)
    BY <1>1, <1>2, <1>3 DEF LogNext
  <1> QED
    BY <1>4 DEF TripOpen

LEMMA LogInvStep ==
  ASSUME LogSize \in Nat \ {0}, LogInv, [LogNext]_allVars
  PROVE  LogInv'
  <1> USE DEF LogInv
  <1>1. events' \in Seq(Types) /\ Len(events') <= LogSize
    <2>1. CASE events' = events
      BY <2>1 DEF LogTypeOK
    <2>2. CASE \E type \in Types : Push(type)
      BY <2>2, PushKeepsBound DEF LogTypeOK
    <2>3. events' = events \/ \E type \in Types : Push(type)
      BY DEF LogNext, Hop, Look, Enter, GoOn, TripOpen, Succeed, TurnedAway, Fail, ReadBack,
         Log, Swallow, Lose, logVars, allVars, Types
    <2> QED
      BY <2>1, <2>2, <2>3
  <1>2. CASE openedAge = Absent /\ openedAge' # Absent
    <2>1. stage' = stage /\ wasOpen' = wasOpen /\ witnessed' = Callers \ Away
      BY <1>2, OpeningsAreWitnessed
    <2> QED
      BY <1>1, <2>1 DEF LogTypeOK, UnwitnessedIsClosed, AlarmsAreReal, Away
  <1>3. CASE ~ (openedAge = Absent /\ openedAge' # Absent)
    <2>1. ASSUME NEW c \in Callers, Look(c)
          PROVE  LogInv'
      BY <1>1, <2>1 DEF Look, Move, LogTypeOK, UnwitnessedIsClosed, AlarmsAreReal, Away,
         Stages, vars
    <2>2. ASSUME NEW c \in Callers, Enter(c) \/ TurnedAway(c) \/ Fail(c) \/ Swallow(c)
          PROVE  LogInv'
      <3>1. PICK to \in Stages \ {"away", "alarm"} : stage' = [stage EXCEPT ![c] = to]
        BY <2>2 DEF Enter, TurnedAway, Fail, Swallow, Move, Stages
      <3>2. stage[c] # "away" /\ UNCHANGED <<wasOpen, witnessed>>
        BY <2>2 DEF Enter, TurnedAway, Fail, Swallow
      <3> QED
        BY <1>1, <1>3, <3>1, <3>2 DEF LogTypeOK, UnwitnessedIsClosed, AlarmsAreReal, Away
    <2>3. ASSUME NEW c \in Callers, GoOn(c) \/ TripOpen(c)
          PROVE  LogInv'
      <3>1. UNCHANGED <<stage, wasOpen>> /\ (witnessed' = witnessed \/ witnessed' = Callers \ Away)
        BY <2>3 DEF GoOn, TripOpen, logVars
      <3> QED
        BY <1>1, <1>3, <3>1 DEF LogTypeOK, UnwitnessedIsClosed, AlarmsAreReal, Away
    <2>4. ASSUME NEW c \in Callers, Succeed(c) \/ Log(c) \/ Lose(c)
          PROVE  LogInv'
      <3>1. /\ stage' = [stage EXCEPT ![c] = "away"]
            /\ wasOpen' = wasOpen
            /\ witnessed' = witnessed \ {c}
        BY <2>4 DEF Succeed, Log, Lose, Move
      <3> QED
        BY <1>1, <1>3, <3>1 DEF LogTypeOK, UnwitnessedIsClosed, AlarmsAreReal, Away, Stages
    <2>5. ASSUME NEW c \in Callers, ReadBack(c)
          PROVE  LogInv'
      <3>1. PICK to \in {"alarm", "warning"} :
              /\ stage' = [stage EXCEPT ![c] = to]
              /\ to = "alarm" => openedAge # Absent /\ ~ wasOpen[c]
        <4>1. PICK k \in Configs :
                stage' = [stage EXCEPT ![c] =
                  IF stage[c] = "failed" /\ openedAge \in 0 .. k.recovery - 1 /\ ~ wasOpen[c]
                    THEN "alarm" ELSE "warning"]
          BY <2>5 DEF ReadBack, Move
        <4>2. openedAge \in 0 .. k.recovery - 1 => openedAge # Absent
          BY ConfigBounds DEF Absent
        <4>3. CASE stage[c] = "failed" /\ openedAge \in 0 .. k.recovery - 1 /\ ~ wasOpen[c]
          BY <4>1, <4>2, <4>3
        <4>4. CASE ~ (stage[c] = "failed" /\ openedAge \in 0 .. k.recovery - 1 /\ ~ wasOpen[c])
          BY <4>1, <4>4
        <4>5. QED
          BY <4>3, <4>4
      <3>2. stage[c] # "away" /\ UNCHANGED <<openedAge, wasOpen, witnessed>>
        BY <2>5 DEF ReadBack, vars
      <3>3. to = "alarm" => c \in witnessed
        BY <3>1, <3>2 DEF UnwitnessedIsClosed
      <3> QED
        BY <1>1, <3>1, <3>2, <3>3 DEF LogTypeOK, UnwitnessedIsClosed, AlarmsAreReal, Away, Stages
    <2>6. CASE UNCHANGED <<stage, wasOpen, witnessed>>
      BY <1>1, <1>3, <2>6 DEF LogTypeOK, UnwitnessedIsClosed, AlarmsAreReal, Away
    <2> QED
      BY <2>1, <2>2, <2>3, <2>4, <2>5, <2>6 DEF LogNext, Hop, logVars, allVars
  <1> QED
    BY <1>2, <1>3

LEMMA LogInvInit ==
  ASSUME LogSize \in Nat \ {0}, LogInit
  PROVE  LogInv
  BY DEF LogInit, LogInv, LogTypeOK, UnwitnessedIsClosed, AlarmsAreReal, Away, Stages, Types

\* The hop, seen through the variables of the breaker, is a behaviour of
\* CircuitBreaker: before_call and record_* are called as it assumes, whatever
\* the loop reads and logs around them (router.py:169-196).
THEOREM HopImplementsBreaker == LogSpec => Spec
  <1>1. LogInit => Init
    BY DEF LogInit
  <1>2. [LogNext]_allVars => [Next]_vars
    BY HopStepsAreBreakerSteps
  <1> QED
    BY <1>1, <1>2, PTL DEF LogSpec, Spec

\* A circuit_trip entry is never a false alarm: whoever logs one has been in its
\* hop while somebody opened the circuit (router.py:187).
THEOREM AlarmsAreRealCorrect ==
  ASSUME LogSize \in Nat \ {0}
  PROVE  LogSpec => []AlarmsAreReal
  <1>1. LogInit => LogInv
    BY LogInvInit
  <1>2. LogInv /\ [LogNext]_allVars => LogInv'
    BY LogInvStep
  <1>3. LogInv => AlarmsAreReal
    BY DEF LogInv
  <1> QED
    BY <1>1, <1>2, <1>3, PTL DEF LogSpec

\* The log stays within MAX_ENTRIES whoever pushes (event_log.py:70-73).
THEOREM LogTypeCorrect ==
  ASSUME LogSize \in Nat \ {0}
  PROVE  LogSpec => []LogTypeOK
  <1>1. LogInit => LogInv
    BY LogInvInit
  <1>2. LogInv /\ [LogNext]_allVars => LogInv'
    BY LogInvStep
  <1>3. LogInv => LogTypeOK
    BY DEF LogInv
  <1> QED
    BY <1>1, <1>2, <1>3, PTL DEF LogSpec

-----------------------------------------------------------------------------
(* One request at a time *)

\* The hop of a caller that has just opened a circuit it had read as closed.
HasOpened(c) == openedAge = 0 /\ ~ wasOpen[c]

\* What holds of a single caller when no time passes outside the provider's call:
\* what it has read of the circuit stays true until it opens it, and an opening is
\* unreported only until the same hop has logged it.
InTurn ==
  \A c \in Callers :
    /\ stage[c] # "inside" => pc[c] = "idle"
    /\ pc[c] = "trip" => stamp[c] = 0
    /\ stage[c] \in {"looked", "inside"} /\ pc[c] # "release" /\ openedAge = Absent
         => ~ wasOpen[c]
    /\ unreported => \/ stage[c] = "inside" /\ pc[c] = "release" /\ HasOpened(c)
                     \/ stage[c] = "failed" /\ HasOpened(c)
                     \/ stage[c] = "alarm"

\* The next-state relation of PromptLogSpec.
PromptLogNext ==
  \/ \E c \in Callers : Hop(c)
  \/ PromptHops /\ Tick /\ UNCHANGED logVars

LEMMA InTurnStep ==
  ASSUME \A c, d \in Callers : c = d, Recovery # 0, TypeOK, LogTypeOK, InTurn,
         [PromptLogNext]_allVars
  PROVE  InTurn'
  <1> USE TimesAssumption DEF TypeOK, LogTypeOK
  <1>1. ASSUME NEW c \in Callers, Look(c)
        PROVE  InTurn'
    BY <1>1 DEF Look, Move, vars, InTurn, HasOpened
  <1>2. ASSUME NEW c \in Callers, Enter(c)
        PROVE  InTurn'
    BY <1>2 DEF Enter, Begin, Goto, store, Move, InTurn, HasOpened
  <1>3. ASSUME NEW c \in Callers, GoOn(c)
        PROVE  InTurn'
    <2>1. ~ unreported
      BY <1>3 DEF GoOn, InTurn, PassClosed, AcquireProbe, Answer, CallSucceeds, CallFails,
         CountFailure, ReadFailures
    <2>2. openedAge' = openedAge /\ UNCHANGED logVars /\ stage[c] = "inside"
      BY <1>3 DEF GoOn, PassClosed, AcquireProbe, Answer, CallSucceeds, CallFails,
         CountFailure, ReadFailures, store
    <2>3. pc[c] # "release" /\ (pc'[c] = "trip" => stamp'[c] = 0)
      BY <1>3 DEF GoOn, PassClosed, AcquireProbe, Answer, CallSucceeds, CallFails,
         CountFailure, ReadFailures, Goto
    <2> QED
      BY <2>1, <2>2, <2>3 DEF InTurn, logVars
  <1>4. ASSUME NEW c \in Callers, TripOpen(c)
        PROVE  InTurn'
    <2>1. stamp[c] = 0 /\ ~ unreported /\ (openedAge = Absent => ~ wasOpen[c])
      BY <1>4 DEF TripOpen, OpenCircuit, InTurn
    <2>2. openedAge' = 0 /\ pc' = [pc EXCEPT ![c] = "release"]
      BY <1>4, <2>1 DEF TripOpen, OpenCircuit, Goto
    <2>3. UNCHANGED <<stage, wasOpen>> /\ stage[c] = "inside"
      BY <1>4 DEF TripOpen
    <2>4. unreported' => ~ wasOpen[c]
      BY <1>4, <2>1 DEF TripOpen
    <2> QED
      BY <2>2, <2>3, <2>4 DEF InTurn, HasOpened
  <1>5. ASSUME NEW c \in Callers, Succeed(c) \/ TurnedAway(c)
        PROVE  InTurn'
    <2>1. ~ unreported /\ ~ unreported'
      BY <1>5 DEF Succeed, TurnedAway, RecordSuccess, RejectOpen, RejectProbe, InTurn
    <2>2. PICK to \in {"away", "rejected"} : stage' = [stage EXCEPT ![c] = to]
      BY <1>5 DEF Succeed, TurnedAway, Move
    <2>3. pc' = [pc EXCEPT ![c] = "idle"]
      BY <1>5 DEF Succeed, TurnedAway, RecordSuccess, RejectOpen, RejectProbe, Leave, Goto
    <2> QED
      BY <2>1, <2>2, <2>3 DEF InTurn
  <1>6. ASSUME NEW c \in Callers, Fail(c)
        PROVE  InTurn'
    BY <1>6 DEF Fail, ReleaseProbe, Leave, Goto, Move, InTurn, HasOpened
  <1>7. ASSUME NEW c \in Callers, ReadBack(c)
        PROVE  InTurn'
    <2>1. unreported => stage[c] = "failed" /\ HasOpened(c)
      BY <1>7 DEF ReadBack, InTurn
    <2>2. PICK k \in Configs :
            stage' = [stage EXCEPT ![c] =
              IF stage[c] = "failed" /\ openedAge \in 0 .. k.recovery - 1 /\ ~ wasOpen[c]
                THEN "alarm" ELSE "warning"]
      BY <1>7 DEF ReadBack, Move
    <2>3. HasOpened(c) => openedAge \in 0 .. k.recovery - 1 /\ ~ wasOpen[c]
      BY ConfigBounds DEF HasOpened
    <2>4. PICK to \in {"alarm", "warning"} :
            /\ stage' = [stage EXCEPT ![c] = to]
            /\ unreported => to = "alarm"
      <3>1. CASE stage[c] = "failed" /\ openedAge \in 0 .. k.recovery - 1 /\ ~ wasOpen[c]
        BY <2>2, <3>1
      <3>2. CASE ~ (stage[c] = "failed" /\ openedAge \in 0 .. k.recovery - 1 /\ ~ wasOpen[c])
        BY <2>1, <2>2, <2>3, <3>2
      <3>3. QED
        BY <3>1, <3>2
    <2> QED
      BY <1>7, <2>4 DEF ReadBack, vars, InTurn
  <1>8. ASSUME NEW c \in Callers, Log(c)
        PROVE  InTurn'
    <2>1. ~ unreported' /\ stage' = [stage EXCEPT ![c] = "away"] /\ pc' = pc /\ stage[c] # "inside"
      BY <1>8 DEF Log, Move, vars, InTurn
    <2> QED
      BY <1>8, <2>1 DEF Log, vars, InTurn
  <1>9. CASE PromptHops /\ Tick /\ UNCHANGED logVars
    <2>1. \A c \in Callers : stage[c] = "away" \/ pc[c] = "calling"
      BY <1>9 DEF PromptHops
    <2>2. openedAge' = Absent => openedAge = Absent
      BY <1>9 DEF Tick, Older, Ages, Absent
    <2>3. ~ unreported \/ Callers = {}
      BY <2>1 DEF InTurn
    <2> QED
      BY <1>9, <2>1, <2>2, <2>3 DEF Tick, logVars, InTurn
  <1>10. CASE UNCHANGED allVars
    BY <1>10 DEF allVars, vars, logVars, InTurn, HasOpened
  <1> QED
    BY <1>1, <1>2, <1>3, <1>4, <1>5, <1>6, <1>7, <1>8, <1>9, <1>10 DEF PromptLogNext, Hop

\* "Every ... circuit trip ... gets pushed here" (event_log.py:4-5) is true of one
\* request at a time: a trip can go unreported only when two hops overlap.
THEOREM TripsAreReportedAlone ==
  ASSUME \A c, d \in Callers : c = d, Callers # {}, Recovery # 0, LogSize \in Nat \ {0}
  PROVE  PromptLogSpec => []TripsAreReported
  <1>1. LogInit => InTurn
    BY DEF LogInit, Init, InTurn
  <1>2. TypeOK /\ LogTypeOK /\ InTurn /\ [PromptLogNext]_allVars => InTurn'
    BY InTurnStep
  <1>3. [PromptLogNext]_allVars => [LogNext]_allVars
    BY DEF PromptLogNext, LogNext
  <1>4. InTurn => TripsAreReported
    BY DEF InTurn, TripsAreReported, Away
  <1>5. LogSpec => []TypeOK /\ []LogTypeOK
    BY HopImplementsBreaker, TypeCorrect, LogTypeCorrect, PTL
  <1>6. PromptLogSpec <=> LogInit /\ [][PromptLogNext]_allVars
    BY DEF PromptLogSpec, PromptLogNext
  <1> QED
    BY <1>1, <1>2, <1>3, <1>4, <1>5, <1>6, PTL DEF LogSpec

=============================================================================
