--------------------------- MODULE MCTraceContext ---------------------------
(* TraceContext for TLC: threads and spans are interchangeable. *)
EXTENDS TraceContext, TLC

Symmetry == Permutations(Threads) \cup Permutations(Spans)
=============================================================================
