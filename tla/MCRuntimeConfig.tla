-------------------------- MODULE MCRuntimeConfig --------------------------
(***************************************************************************)
(* Instances of RuntimeConfig for TLC. Calls and replicas may be permuted. *)
(***************************************************************************)
EXTENDS RuntimeConfig, TLC

Interchangeable == Permutations(Calls) \union Permutations(Replicas)

=============================================================================
