---------------------------- MODULE Propagation ----------------------------
(***************************************************************************)
(* The propagators: what Inject puts into the headers of a carrier and     *)
(* what Extract makes of them.  Headers map a name to the sequence of its  *)
(* values, ids are numbers with 0 for the id that is none, and Malformed   *)
(* is a value that does not parse.  A traceparent is a pair of ids; the    *)
(* tracestate, which no local context carries on, is left out.             *)
(***************************************************************************)
EXTENDS Integers, Sequences

CONSTANTS Malformed, Null

ASSUME PropagationAssumption ==
    /\ Malformed \notin Int \cup (Int \X Int)
    /\ Null \notin Int \cup [trace : Int, span : Int, priority : Int]
                       \cup [trace : Int, span : Int, priority : {Null}]

\* SamplingPriority.cs
UserReject == -1
AutoReject == 0
AutoKeep == 1
UserKeep == 2
Priorities == {UserReject, AutoReject, AutoKeep, UserKeep}

Names == {"traceid", "spanid", "parentid", "flags", "sampled", "traceparent"}
Headers ==
    {h \in [Names -> Seq(Int \cup {Malformed} \cup (Int \X Int))] :
        /\ h["traceparent"] \in Seq({Malformed} \cup (Int \X Int))
        /\ \A n \in Names \ {"traceparent"} : h[n] \in Seq(Int \cup {Malformed})}
NoHeaders == [n \in Names |-> <<>>]

Put(h, name, value) == [h EXCEPT ![name] = <<value>>]

\* The sampling header of a priority: UserKeep is a debug flag.
GetSamplingHeader(priority) ==
    [name |-> IF priority = UserKeep THEN "flags" ELSE "sampled",
     value |-> IF priority < AutoKeep THEN 0 ELSE 1]

\* Inject of a context [trace, span, parent, priority]; headers that are not
\* set stay as the carrier had them.
B3Inject(c, h) ==
    LET ids == Put(Put(h, "traceid", c.trace), "spanid", c.span)
        withParent == IF c.parent = 0 THEN ids ELSE Put(ids, "parentid", c.parent)
        sampling == GetSamplingHeader(c.priority)
    IN IF c.priority = Null THEN withParent
       ELSE Put(withParent, sampling.name, sampling.value)

\* The first value that parses.
FirstId(values) ==
    LET ok == {i \in DOMAIN values : values[i] # Malformed}
    IN IF ok = {} THEN 0
       ELSE values[CHOOSE i \in ok : \A j \in ok : i <= j]

Bit(values) == values # <<>> /\ Head(values) \in {0, 1}

\* A flag of 0 or 1 decides, even if 0 says nothing; then sampled.
ParseB3FlagsAndSampled(h) ==
    IF Bit(h["flags"])
    THEN IF Head(h["flags"]) = 1 THEN UserKeep ELSE Null
    ELSE IF ~Bit(h["sampled"]) THEN Null
         ELSE IF Head(h["sampled"]) = 1 THEN AutoKeep ELSE AutoReject

B3Extract(h) ==
    IF FirstId(h["traceid"]) = 0 THEN Null
    ELSE [trace |-> FirstId(h["traceid"]), span |-> FirstId(h["spanid"]),
          priority |-> ParseB3FlagsAndSampled(h)]

\* The version of traceparent always says sampled; Extract does not ask.
W3CInject(c, h) == Put(h, "traceparent", <<c.trace, c.span>>)

\* A traceparent that is too short throws, which the callers log: as if absent.
W3CExtract(h) ==
    IF h["traceparent"] = <<>> \/ Head(h["traceparent"]) = Malformed THEN Null
    ELSE LET ids == Head(h["traceparent"]) IN
         IF ids[1] = 0 \/ ids[2] = 0 THEN Null
         ELSE [trace |-> ids[1], span |-> ids[2], priority |-> Null]

Inject(kind, c, h) == IF kind = "W3C" THEN W3CInject(c, h) ELSE B3Inject(c, h)
Extract(kind, h) == IF kind = "W3C" THEN W3CExtract(h) ELSE B3Extract(h)
=============================================================================
