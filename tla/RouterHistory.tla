--------------------------- MODULE RouterHistory ---------------------------
(***************************************************************************)
(* ModelRouter with two variables more, that no step of it reads: what has *)
(* been true of a request ever since it came in. They say what an operator *)
(* who has disabled a provider, and a client whose prompt is cached, may   *)
(* count on for a whole request, and not just at the moment of a read.     *)
(***************************************************************************)
EXTENDS ModelRouter

VARIABLES
  quiet,   \* history: providers disabled ever since the request came in
  warm     \* history: the exact cache has held its key ever since

withHistory == <<vars, quiet, warm>>

HistoryInit ==
  /\ Init
  /\ quiet = [r \in Requests |-> {}]
  /\ warm = [r \in Requests |-> FALSE]

\* Until it comes in, a request is as of now.
Remember ==
  /\ quiet' = [r \in Requests |->
       IF pc[r] = "new" THEN disabled' ELSE quiet[r] \intersect disabled']
  /\ warm' = [r \in Requests |->
       /\ IF pc[r] = "new" THEN job[r].caching ELSE warm[r]
       /\ exact'[Key(r)] # None]

HistoryNext == Next /\ Remember

HistorySpec == HistoryInit /\ [][HistoryNext]_withHistory

-----------------------------------------------------------------------------
(* Properties *)

\* Both say of every request what they are meant to.
HistoryTypeOK ==
  /\ TypeOK
  /\ quiet \in [Requests -> SUBSET Providers]
  /\ warm \in [Requests -> BOOLEAN]

\* A provider that was disabled before a request came in, and has stayed so, is
\* not called for it.
DisabledIsQuiet ==
  [][\A r \in Requests :
       CallProvider(r) => Route(r)[hop[r]].provider \notin quiet[r]]_withHistory

\* A request whose exact entry was there when it came in, and has not expired
\* since, never costs a provider call.
WarmRequestsAreFree == \A r \in Requests : warm[r] => r \notin paid

=============================================================================
