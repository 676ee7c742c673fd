----------------------------- MODULE MCSampler -----------------------------
(***************************************************************************)
(* Two custom rules, one of which a span can make run out of time, and two *)
(* threads with two calls each around the end of one interval.             *)
(***************************************************************************)
EXTENDS RuleBasedSampler, TLC

CONSTANTS c1, c2, s1, s2

MCMatches == c1 :> {} @@ c2 :> {s1}
MCSlow == c1 :> {s1} @@ c2 :> {}
MCRate == c1 :> 0 @@ c2 :> 2 @@ Global :> 1 @@ Default :> 2
MCHash == [s \in Spans |-> 1]
=============================================================================
