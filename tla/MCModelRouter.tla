--------------------------- MODULE MCModelRouter ---------------------------
(***************************************************************************)
(* Instances of RouterHistory for TLC. The chains are those main.py builds *)
(* when both Groq and OpenAI are configured; medium has simple's chain and *)
(* is left out of the smaller instances.                                   *)
(***************************************************************************)
EXTENDS RouterHistory, TLC

GroqSmall == [provider |-> "groq", model |-> "llama-3.1-8b-instant"]
GroqLarge == [provider |-> "groq", model |-> "llama-3.3-70b-versatile"]
OpenAISmall == [provider |-> "openai", model |-> "gpt-4o-mini"]
OpenAILarge == [provider |-> "openai", model |-> "gpt-4o"]

AllTiers == <<"simple", "medium", "complex">>
AllChains ==
  [tier \in {"simple", "medium", "complex"} |->
     IF tier = "complex" THEN <<GroqLarge, OpenAILarge>> ELSE <<GroqSmall, OpenAISmall>>]

TwoTiers == <<"simple", "complex">>
TwoChains == [tier \in {"simple", "complex"} |-> AllChains[tier]]

\* A capital-of-France pair and nothing else alike.
Everything == Prompts \X Prompts
OnlyItself == {<<p, p>> : p \in Prompts}

\* A lenient threshold, and one that takes only equal prompts as similar. Two requests
\* can overfill no list of more than one entry.
TwoSettings == {[entries |-> 1, similar |-> Everything], [entries |-> 1, similar |-> OnlyItself]}

OneSetting == {[entries |-> CacheSize, similar |-> Similar]}

Interchangeable == Permutations(Requests) \union Permutations(Prompts)

=============================================================================
