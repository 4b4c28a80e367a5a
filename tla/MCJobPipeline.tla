--------------------------- MODULE MCJobPipeline ---------------------------
(* Instances of JobPipeline for TLC. *)
EXTENDS JobPipeline, TLC

CONSTANTS w1, w2

\* Workers are interchangeable.
Symmetry == Permutations({w1, w2})
=============================================================================
