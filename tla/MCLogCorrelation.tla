-------------------------- MODULE MCLogCorrelation --------------------------
(* LogCorrelation for TLC: scopes are interchangeable, flows but the first. *)
EXTENDS LogCorrelation, TLC

Symmetry == Permutations(Scopes) \cup Permutations(Flows \ {FirstFlow})
=============================================================================
