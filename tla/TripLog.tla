------------------------------ MODULE TripLog ------------------------------
(***************************************************************************)
(* One hop of the fallback loop around the circuit breaker of its provider *)
(* (app/core/router.py, lines 163-196), and the event log it reports to    *)
(* (app/core/event_log.py). The loop reads the breaker's state once more   *)
(* before the call and once more after a failure, and tells from the two   *)
(* whether to log a circuit_trip.                                          *)
(***************************************************************************)
EXTENDS CircuitBreaker, Sequences

CONSTANT LogSize   \* MAX_ENTRIES

VARIABLES
  stage,       \* where each caller is in the hop; "inside" is CircuitBreaker's part
  wasOpen,     \* was_open_before
  events,      \* logs:events, newest first: the types of the entries
  witnessed,   \* history: callers that were there when opened_at was last set
  unreported   \* history: the circuit has opened and no trip was logged since

logVars == <<stage, wasOpen, events, witnessed, unreported>>
allVars == <<vars, logVars>>

Stages == {"away", "looked", "inside", "failed", "rejected", "alarm", "warning"}

Types == {"circuit_trip", "provider_error"}

Away == {c \in Callers : stage[c] = "away"}

Move(c, to) == stage' = [stage EXCEPT ![c] = to]

LogInit ==
  /\ Init
  /\ stage = [c \in Callers |-> "away"]
  /\ wasOpen = [c \in Callers |-> FALSE]
  /\ events = <<>>
  /\ witnessed = {}
  /\ unreported = FALSE

-----------------------------------------------------------------------------
\* was_open_before = get_state() != closed
Look(c) ==
  /\ stage[c] = "away"
  /\ Move(c, "looked")
  /\ wasOpen' = [wasOpen EXCEPT ![c] = openedAge # Absent]
  /\ UNCHANGED <<vars, events, witnessed, unreported>>

\* before_call, complete and record_success or record_failure: the breaker's
\* own steps. A CircuitOpenError and a recorded ProviderError lead to the
\* handler, a success out of the hop.
Enter(c) ==
  /\ stage[c] = "looked"
  /\ Begin(c)
  /\ Move(c, "inside")
  /\ UNCHANGED <<wasOpen, events, witnessed, unreported>>

GoOn(c) ==
  /\ stage[c] = "inside"
  /\ \/ PassClosed(c) \/ AcquireProbe(c) \/ Answer(c)
     \/ CountFailure(c) \/ ReadFailures(c)
  /\ UNCHANGED logVars

TripOpen(c) ==
  /\ stage[c] = "inside"
  /\ OpenCircuit(c)
  /\ witnessed' = Callers \ Away
  /\ unreported' = (unreported \/ openedAge = Absent)
  /\ UNCHANGED <<stage, wasOpen, events>>

Succeed(c) ==
  /\ stage[c] = "inside"
  /\ RecordSuccess(c)
  /\ Move(c, "away")
  /\ witnessed' = witnessed \ {c}
  /\ UNCHANGED <<wasOpen, events, unreported>>

TurnedAway(c) ==
  /\ stage[c] = "inside"
  /\ RejectOpen(c) \/ RejectProbe(c)
  /\ Move(c, "rejected")
  /\ UNCHANGED <<wasOpen, events, witnessed, unreported>>

Fail(c) ==
  /\ stage[c] = "inside"
  /\ ReleaseProbe(c)
  /\ Move(c, "failed")
  /\ UNCHANGED <<wasOpen, events, witnessed, unreported>>

\* A Redis error inside record_failure is swallowed: the rest of it is left
\* undone and the hop goes on.
Swallow(c) ==
  /\ stage[c] = "inside"
  /\ pc[c] \in {"failed", "counted", "trip", "release"}
  /\ Abandon(c)
  /\ Move(c, "failed")
  /\ UNCHANGED <<wasOpen, events, witnessed, unreported>>

\* new_state = get_state(), and tripped_now.
ReadBack(c) ==
  /\ stage[c] \in {"failed", "rejected"}
  /\ \E k \in Configs :
       LET open == openedAge \in 0 .. k.recovery - 1
       IN  Move(c, IF stage[c] = "failed" /\ open /\ ~ wasOpen[c] THEN "alarm" ELSE "warning")
  /\ UNCHANGED <<vars, wasOpen, events, witnessed, unreported>>

\* LPUSH and LTRIM of a new entry.
Push(type) ==
  LET pushed == <<type>> \o events
  IN  events' = IF Len(pushed) > LogSize THEN SubSeq(pushed, 1, LogSize) ELSE pushed

Log(c) ==
  /\ \/ stage[c] = "alarm" /\ Push("circuit_trip") /\ unreported' = FALSE
     \/ stage[c] = "warning" /\ Push("provider_error") /\ UNCHANGED unreported
  /\ Move(c, "away")
  /\ witnessed' = witnessed \ {c}
  /\ UNCHANGED <<vars, wasOpen>>

\* The request ends where it is.
Lose(c) ==
  /\ stage[c] # "away"
  /\ IF stage[c] = "inside" THEN Abandon(c) ELSE UNCHANGED vars
  /\ Move(c, "away")
  /\ witnessed' = witnessed \ {c}
  /\ UNCHANGED <<wasOpen, events, unreported>>

Hop(c) ==
  \/ Look(c) \/ Enter(c) \/ GoOn(c) \/ TripOpen(c) \/ Succeed(c) \/ TurnedAway(c)
  \/ Fail(c) \/ ReadBack(c) \/ Log(c)

LogNext ==
  \/ \E c \in Callers : Hop(c) \/ Swallow(c) \/ Lose(c)
  \/ (AdminReset \/ Tick) /\ UNCHANGED logVars

LogSpec == LogInit /\ [][LogNext]_allVars

\* The kindest environment: nobody is lost, nobody resets the breaker, and Redis
\* answers at once, so that time passes only during provider calls.
PromptHops == \A c \in Callers : stage[c] = "away" \/ pc[c] = "calling"

PromptLogSpec ==
  LogInit /\ [][\/ \E c \in Callers : Hop(c)
                \/ PromptHops /\ Tick /\ UNCHANGED logVars]_allVars

-----------------------------------------------------------------------------
(* Properties *)

\* The state is well formed, and the log never grows beyond MAX_ENTRIES, however
\* many callers push at the same time.
LogTypeOK ==
  /\ stage \in [Callers -> Stages]
  /\ wasOpen \in [Callers -> BOOLEAN]
  /\ events \in Seq(Types)
  /\ Len(events) <= LogSize
  /\ witnessed \subseteq Callers \ Away

\* No false alarm: a circuit_trip is logged only by a caller during whose hop
\* somebody has opened the circuit, though it never learns who did.
AlarmsAreReal == \A c \in Callers : stage[c] = "alarm" => c \in witnessed

\* Why: whoever saw the circuit closed and has not witnessed an opening is right.
UnwitnessedIsClosed ==
  \A c \in Callers : stage[c] # "away" /\ ~ wasOpen[c] /\ c \notin witnessed => openedAge = Absent

\* "Every ... provider failure, circuit trip, and rate-limit rejection gets pushed
\* here" (event_log.py:4-5): when all hops are over, no opening of the closed
\* circuit is without its entry.
TripsAreReported == Away = Callers => ~ unreported

=============================================================================
