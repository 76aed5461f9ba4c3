----------------------------- MODULE MCTripLog -----------------------------
(***************************************************************************)
(* Instances of TripLog for TLC. The liveness run does not permute the     *)
(* callers.                                                                *)
(***************************************************************************)
EXTENDS TripLog, TLC

OneConfig == {[threshold |-> Threshold, recovery |-> Recovery]}

=============================================================================
