---------------------------- MODULE MCProviderCache ----------------------------
(* Instances of ProviderCache for TLC. *)
EXTENDS ProviderCache, TLC

Symmetries == Permutations(Queries) \cup Permutations(Keys) \cup Permutations(Lookups)
=============================================================================
