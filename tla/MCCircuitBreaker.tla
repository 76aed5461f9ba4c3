-------------------------- MODULE MCCircuitBreaker --------------------------
(***************************************************************************)
(* Instances of CircuitBreaker for TLC. Nothing in the specification tells *)
(* one caller from another, so safety runs may permute them; the liveness  *)
(* run does not.                                                           *)
(***************************************************************************)
EXTENDS CircuitBreaker, TLC

OneConfig == {[threshold |-> Threshold, recovery |-> Recovery]}

\* What an administrator switches between while callers run.
TwoConfigs == {[threshold |-> Threshold, recovery |-> LongRecovery],
               [threshold |-> Threshold + 1, recovery |-> Recovery]}

CallerSymmetry == Permutations(Callers)

=============================================================================
