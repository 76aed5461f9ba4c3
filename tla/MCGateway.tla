----------------------------- MODULE MCGateway -----------------------------
(***************************************************************************)
(* Instances of Gateway for TLC: one tier with the two hops main.py gives  *)
(* it. Nothing is permuted, as the run checks liveness.                    *)
(***************************************************************************)
EXTENDS Gateway, TLC

OneTier == <<"complex">>
OneChain ==
  [tier \in {"complex"} |->
     <<[provider |-> "groq", model |-> "llama-3.3-70b-versatile"],
       [provider |-> "openai", model |-> "gpt-4o"]>>]

Everything == Prompts \X Prompts

OneSetting == {[entries |-> CacheSize, similar |-> Similar]}

=============================================================================
