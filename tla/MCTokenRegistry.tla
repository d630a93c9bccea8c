-------------------------- MODULE MCTokenRegistry --------------------------
(* Definitions for model-checking TokenRegistry. *)
EXTENDS TokenRegistry, TLC

\* Tokens, requests and column values are interchangeable; the properties of the
\* runs that use this are safety properties.
RegistrySymmetry ==
    Permutations(Tokens) \cup Permutations(Requests) \cup Permutations(Values)
=============================================================================
