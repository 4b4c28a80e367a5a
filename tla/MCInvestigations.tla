--------------------------- MODULE MCInvestigations ---------------------------
(* Instances of Reports, hence of Investigations, for TLC. *)
EXTENDS Reports, TLC

Symmetries == Permutations(Emails) \cup Permutations(Analysts)
=============================================================================
