--------------------------- MODULE MCRateLimiter ---------------------------
(***************************************************************************)
(* Instances of RateLimiter for TLC.                                       *)
(***************************************************************************)
EXTENDS RateLimiter, TLC

\* What an administrator switches between while requests run.
TwoConfigs == {[limit |-> 2, window |-> 2], [limit |-> 1, window |-> 3]}

OneConfig == {[limit |-> Limit, window |-> Window]}

RequestSymmetry == Permutations(Requests)

=============================================================================
