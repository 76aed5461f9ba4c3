--------------------------- MODULE SlidingWindow ---------------------------
(***************************************************************************)
(* What a sliding-window rate limiter promises for one API key, without    *)
(* saying how: a request is granted only while fewer than Capacity         *)
(* requests stamped within the last Window ticks have been granted.        *)
(***************************************************************************)
EXTENDS Integers, FiniteSets

CONSTANTS
  Requests,   \* the requests made with the key, each granted at most once
  Capacity,   \* the most requests a window may hold
  Window      \* the window's length, in ticks

VARIABLES
  now,        \* the clock
  granted     \* a set of <<request, stamp>>, the requests let through

Recent == {g \in granted : now - g[2] < Window}

Init ==
  /\ now \in Nat
  /\ granted = {}

\* A request is stamped when it arrives and granted at once or a little later.
Grant(r) ==
  /\ \A g \in granted : g[1] # r
  /\ Cardinality(Recent) < Capacity
  /\ \E s \in 0..now : granted' = granted \union {<<r, s>>}
  /\ UNCHANGED now

Tick ==
  /\ now' = now + 1
  /\ UNCHANGED granted

Next == Tick \/ \E r \in Requests : Grant(r)

Spec == Init /\ [][Next]_<<now, granted>>

=============================================================================
