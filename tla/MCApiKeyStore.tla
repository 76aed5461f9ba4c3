--------------------------- MODULE MCApiKeyStore ---------------------------
(***************************************************************************)
(* Instances of ApiKeyStore for TLC.                                       *)
(***************************************************************************)
EXTENDS ApiKeyStore, TLC

CONSTANTS k1, k2, k3

\* NEUROROUTER_API_KEYS = "k1,k2"; k3 is what POST /admin/keys generates.
TwoSeeds == <<k1, k2>>

Interchangeable == Permutations(Replicas) \union Permutations(Requests)

=============================================================================
