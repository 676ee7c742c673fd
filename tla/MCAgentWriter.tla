--------------------------- MODULE MCAgentWriter ---------------------------
(* AgentWriter for TLC: traces, writers and closers are interchangeable. *)
EXTENDS AgentWriter, TLC

Symmetry == Permutations(Traces) \cup Permutations(Closers) \cup Permutations(Writers)
=============================================================================
