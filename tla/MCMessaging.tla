---------------------------- MODULE MCMessaging ----------------------------
(***************************************************************************)
(* Two services, and a message of a sender elsewhere: a value that does    *)
(* not parse before one that does, and a sampling decision.                *)
(***************************************************************************)
EXTENDS Messaging, TLC

MCForeign ==
    {[NoHeaders EXCEPT !["traceid"] = <<Malformed, 90>>, !["spanid"] = <<91>>,
                      !["sampled"] = <<1>>, !["traceparent"] = <<Malformed>>]}
Sym == Permutations(Flows)
=============================================================================
