---------------------------- MODULE ChatPromise ----------------------------
(***************************************************************************)
(* What POST /v1/chat/completions promises clients and operators, without  *)
(* caches, chains, breakers or half-written logs. A request is turned away *)
(* for nothing, or charged to its key once; it is then given the answer of *)
(* a provider call of its own, or of one it may share, or told that nobody *)
(* answers. An answer is booked in the moment it is settled, as fresh or   *)
(* cached according to whose call gave it; and no client hears of an       *)
(* outcome that is not in the journal. Any request may be lost on the way. *)
(***************************************************************************)
EXTENDS Naturals

CONSTANTS
  Requests,   \* chat requests, each made once
  Jobs,       \* what they may ask for
  Sharing,    \* pairs of jobs of which the second may get the answer of the first
  None        \* no answer

VARIABLES
  job,        \* what each request asks for; fixed
  status,     \* how far each request has come
  answer,     \* the request whose provider call gave the answer it gets
  paid,       \* requests whose provider call has answered
  charges,    \* charges made to keys, whatever becomes of a key's count
  tally,      \* answers booked as fresh and as cached
  journal     \* requests whose outcome is in the journal

vars == <<job, status, answer, paid, charges, tally, journal>>

\* What a client may be about to hear: a refusal, an answer, or that there is none.
Settled == {"refused", "fresh", "cached", "unavailable"}

Turn(r, to) == status' = [status EXCEPT ![r] = to]

Init ==
  /\ job \in [Requests -> Jobs]
  /\ status = [r \in Requests |-> "outside"]
  /\ answer = [r \in Requests |-> None]
  /\ paid = {}
  /\ charges = 0
  /\ tally = [fresh |-> 0, cached |-> 0]
  /\ journal = {}

Ask(r) ==
  /\ status[r] = "outside"
  /\ Turn(r, "asked")
  /\ UNCHANGED <<job, answer, paid, charges, tally, journal>>

TurnAway(r) ==
  /\ status[r] = "asked"
  /\ Turn(r, "refused")
  /\ UNCHANGED <<job, answer, paid, charges, tally, journal>>

Charge(r) ==
  /\ status[r] = "asked"
  /\ Turn(r, "charged")
  /\ charges' = charges + 1
  /\ UNCHANGED <<job, answer, paid, tally, journal>>

\* A request pays for one answer at most.
Pay(r) ==
  /\ status[r] = "charged"
  /\ r \notin paid
  /\ paid' = paid \union {r}
  /\ UNCHANGED <<job, status, answer, charges, tally, journal>>

\* A request that has paid gets what it paid for, and no other shares its answer
\* with a request it may not.
SettleFresh(r) ==
  /\ status[r] = "charged"
  /\ r \in paid
  /\ Turn(r, "fresh")
  /\ answer' = [answer EXCEPT ![r] = r]
  /\ tally' = [tally EXCEPT !.fresh = @ + 1]
  /\ UNCHANGED <<job, paid, charges, journal>>

SettleCached(r) ==
  /\ status[r] = "charged"
  /\ r \notin paid
  /\ Turn(r, "cached")
  /\ \E o \in paid : <<job[o], job[r]>> \in Sharing /\ answer' = [answer EXCEPT ![r] = o]
  /\ tally' = [tally EXCEPT !.cached = @ + 1]
  /\ UNCHANGED <<job, paid, charges, journal>>

\* Nobody is told that there is no answer once one has been paid for.
GiveUp(r) ==
  /\ status[r] = "charged"
  /\ r \notin paid
  /\ Turn(r, "unavailable")
  /\ UNCHANGED <<job, answer, paid, charges, tally, journal>>

\* The outcome is written down once, before the client hears of it.
Record(r) ==
  /\ status[r] \in Settled
  /\ r \notin journal
  /\ journal' = journal \union {r}
  /\ UNCHANGED <<job, status, answer, paid, charges, tally>>

Answer(r) ==
  /\ status[r] \in Settled
  /\ r \in journal
  /\ Turn(r, "answered")
  /\ UNCHANGED <<job, answer, paid, charges, tally, journal>>

\* What is booked of a lost request stays booked.
Lose(r) ==
  /\ status[r] \in Settled \union {"asked", "charged"}
  /\ Turn(r, "lost")
  /\ UNCHANGED <<job, answer, paid, charges, tally, journal>>

Next ==
  \E r \in Requests :
    \/ Ask(r)
    \/ TurnAway(r) \/ Charge(r)
    \/ Pay(r) \/ SettleFresh(r) \/ SettleCached(r) \/ GiveUp(r)
    \/ Record(r) \/ Answer(r) \/ Lose(r)

Spec == Init /\ [][Next]_vars

=============================================================================
