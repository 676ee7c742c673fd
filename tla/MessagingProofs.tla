-------------------------- MODULE MessagingProofs --------------------------
(***************************************************************************)
(* Proofs about Messaging, for any number of services, spans and nested    *)
(* calls, and any headers of senders elsewhere.                            *)
(***************************************************************************)
EXTENDS Messaging, SequenceTheorems, WellFoundedInduction, TLAPS

-----------------------------------------------------------------------------
(***************************************************************************)
(* The propagators: what Inject sends, Extract reads.                      *)
(***************************************************************************)

\* A context that Extract may return.
Context == [trace : Int \ {0}, span : Int, priority : Priorities \cup {Null}]

\* A context that Inject may be given.
Local == [trace : Int \ {0}, span : Nat \ {0}, parent : Int, priority : Priorities \cup {Null}]

\* A priority is a number, so the null priority is none of them.
LEMMA PrioritiesAreInts == Priorities \subseteq Int /\ Null \notin Priorities
  BY PropagationAssumption DEF Priorities, UserReject, AutoReject, AutoKeep, UserKeep

\* The null context is none of these.
LEMMA NullApart == \A c \in Context : c # Null
<1> SUFFICES ASSUME NEW c \in Context, c = Null
             PROVE  FALSE
  OBVIOUS
<1>1. c = [trace |-> c.trace, span |-> c.span, priority |-> c.priority]
  BY DEF Context
<1>2. c.trace \in Int /\ c.span \in Int /\ c.priority \in Int \cup {Null}
  BY PrioritiesAreInts DEF Context
<1>3. CASE c.priority \in Int
  <2>1. c \in [trace : Int, span : Int, priority : Int]
    BY <1>1, <1>2, <1>3
  <2> QED
    BY <2>1, PropagationAssumption
<1>4. CASE c.priority = Null
  <2>1. c \in [trace : Int, span : Int, priority : {Null}]
    BY <1>1, <1>2, <1>4
  <2> QED
    BY <2>1, PropagationAssumption
<1> QED
  BY <1>2, <1>3, <1>4

\* Ids are one of the values of a header, or none.
LEMMA FirstIdTyped ==
    ASSUME NEW values \in Seq(Int \cup {Malformed})
    PROVE  FirstId(values) \in Int
<1> DEFINE ok == {i \in DOMAIN values : values[i] # Malformed}
<1>1. CASE ok = {}
  BY <1>1 DEF FirstId
<1>2. CASE ok # {}
  <2>1. \E i \in ok : \A j \in ok : i <= j
    <3>1. ok \in SUBSET Nat
      OBVIOUS
    <3> DEFINE R == {ss \in Nat \X Nat : ss[1] < ss[2]}
    <3>2. IsWellFoundedOn(R, Nat)
      BY NatLessThanWellFounded, Zenon DEF OpToRel
    <3>3. PICK i \in ok : \A j \in ok : ~ (<<j, i>> \in R)
      <4> HIDE DEF R
      <4> QED
        BY <1>2, <3>1, <3>2, WFMin
    <3>4. ASSUME NEW j \in ok
          PROVE  i <= j
      <4>1. i \in Nat /\ j \in Nat
        BY <3>1
      <4>2. j < i => <<j, i>> \in R
        BY <4>1
      <4> QED
        BY <3>3, <4>1, <4>2
    <3> QED
      BY <3>4
  <2>2. (CHOOSE i \in ok : \A j \in ok : i <= j) \in ok
    BY <2>1
  <2> QED
    BY <1>2, <2>2 DEF FirstId
<1> QED
  BY <1>1, <1>2

\* One value that parses is read as it is.
LEMMA FirstIdOne ==
    ASSUME NEW x \in Int
    PROVE  FirstId(<<x>>) = x
<1> DEFINE ok == {i \in DOMAIN <<x>> : <<x>>[i] # Malformed}
<1>1. ok = {1}
  BY PropagationAssumption
<1>2. (CHOOSE i \in ok : \A j \in ok : i <= j) = 1
  BY <1>1
<1> QED
  BY <1>1, <1>2 DEF FirstId

\* A header that is set leaves the headers of their kind.
LEMMA PutTyped ==
    ASSUME NEW h \in Headers, NEW name \in Names, NEW value \in Int \cup (Int \X Int),
           name = "traceparent" => value \in Int \X Int,
           name # "traceparent" => value \in Int
    PROVE  /\ Put(h, name, value) \in Headers
           /\ Put(h, name, value)[name] = <<value>>
           /\ \A other \in Names \ {name} : Put(h, name, value)[other] = h[other]
<1> DEFINE r == Put(h, name, value)
           Values == Int \cup {Malformed} \cup (Int \X Int)
<1>1. h \in [Names -> Seq(Values)]
  BY DEF Headers
<1>2. <<value>> \in Seq(Values)
  OBVIOUS
<1>3. r \in [Names -> Seq(Values)]
  BY <1>1, <1>2 DEF Put
<1>4. r[name] = <<value>> /\ \A other \in Names \ {name} : r[other] = h[other]
  BY <1>1 DEF Put
<1>5. r["traceparent"] \in Seq({Malformed} \cup (Int \X Int))
  <2>1. CASE name = "traceparent"
    <3>1. <<value>> \in Seq({Malformed} \cup (Int \X Int))
      BY <2>1
    <3> QED
      BY <1>4, <2>1, <3>1
  <2>2. CASE name # "traceparent"
    BY <1>4, <2>2 DEF Headers, Names
  <2> QED
    BY <2>1, <2>2
<1>6. ASSUME NEW n \in Names \ {"traceparent"}
      PROVE  r[n] \in Seq(Int \cup {Malformed})
  <2>1. CASE n = name
    <3>1. <<value>> \in Seq(Int \cup {Malformed})
      BY <2>1, <1>6
    <3> QED
      BY <1>4, <2>1, <3>1
  <2>2. CASE n # name
    BY <1>4, <2>2 DEF Headers
  <2> QED
    BY <2>1, <2>2
<1> QED
  BY <1>3, <1>4, <1>5, <1>6 DEF Headers

\* What a carrier brings is a context, or none.
LEMMA ExtractTyped ==
    ASSUME NEW kind \in {"B3", "W3C"}, NEW h \in Headers
    PROVE  Extract(kind, h) \in Context \cup {Null}
<1>1. CASE kind = "B3"
  <2>1. h["traceid"] \in Seq(Int \cup {Malformed}) /\ h["spanid"] \in Seq(Int \cup {Malformed})
    BY DEF Headers, Names
  <2>2. FirstId(h["traceid"]) \in Int /\ FirstId(h["spanid"]) \in Int
    BY <2>1, FirstIdTyped
  <2>3. ParseB3FlagsAndSampled(h) \in Priorities \cup {Null}
    BY DEF ParseB3FlagsAndSampled, Priorities
  <2> QED
    BY <1>1, <2>2, <2>3 DEF Extract, B3Extract, Context
<1>2. CASE kind = "W3C"
  <2>1. CASE h["traceparent"] = <<>> \/ Head(h["traceparent"]) = Malformed
    BY <1>2, <2>1 DEF Extract, W3CExtract
  <2>2. CASE ~ (h["traceparent"] = <<>> \/ Head(h["traceparent"]) = Malformed)
    <3>1. h["traceparent"] \in Seq({Malformed} \cup (Int \X Int))
      BY DEF Headers
    <3>2. Head(h["traceparent"]) \in Int \X Int
      BY <2>2, <3>1, HeadTailProperties
    <3> QED
      BY <1>2, <2>2, <3>2 DEF Extract, W3CExtract, Context
  <2> QED
    BY <2>1, <2>2
<1> QED
  BY <1>1, <1>2

\* The ids that Inject sends are those that Extract reads, whatever else the
\* carrier had: no header of another message survives under their names.
LEMMA RoundTrip ==
    ASSUME NEW kind \in {"B3", "W3C"}, NEW c \in Local, NEW h \in Headers
    PROVE  /\ Inject(kind, c, h) \in Headers
           /\ Extract(kind, Inject(kind, c, h)) # Null
           /\ Extract(kind, Inject(kind, c, h)).trace = c.trace
           /\ Extract(kind, Inject(kind, c, h)).span = c.span
<1> DEFINE r == Inject(kind, c, h)
           x == Extract(kind, r)
<1>1. c.trace \in Int \ {0} /\ c.span \in Int \ {0} /\ c.parent \in Int
  BY DEF Local
<1>2. x \in Context => x # Null
  BY NullApart
<1>3. CASE kind = "B3"
  <2> DEFINE a == Put(h, "traceid", c.trace)
             b == Put(a, "spanid", c.span)
             d == IF c.parent = 0 THEN b ELSE Put(b, "parentid", c.parent)
             g == GetSamplingHeader(c.priority)
  <2>1. a \in Headers /\ a["traceid"] = <<c.trace>>
    BY <1>1, PutTyped DEF Names
  <2>2. b \in Headers /\ b["traceid"] = <<c.trace>> /\ b["spanid"] = <<c.span>>
    <3> HIDE DEF a
    <3>1. b \in Headers /\ b["spanid"] = <<c.span>> /\ \A n \in Names \ {"spanid"} : b[n] = a[n]
      <4>1. "spanid" \in Names /\ "spanid" # "traceparent"
        BY DEF Names
      <4>2. a \in Headers /\ c.span \in Int
        BY <1>1, <2>1
      <4> QED
        BY <4>1, <4>2, PutTyped
    <3>2. "traceid" \in Names \ {"spanid"}
      BY DEF Names
    <3> QED
      BY <2>1, <3>1, <3>2
  <2>3. d \in Headers /\ d["traceid"] = <<c.trace>> /\ d["spanid"] = <<c.span>>
    <3> HIDE DEF b
    <3> DEFINE e == Put(b, "parentid", c.parent)
    <3>1. e \in Headers /\ \A n \in Names \ {"parentid"} : e[n] = b[n]
      <4>1. "parentid" \in Names /\ "parentid" # "traceparent"
        BY DEF Names
      <4>2. b \in Headers /\ c.parent \in Int
        BY <1>1, <2>2
      <4> QED
        BY <4>1, <4>2, PutTyped
    <3>2. {"traceid", "spanid"} \subseteq Names \ {"parentid"}
      BY DEF Names
    <3>3. e["traceid"] = b["traceid"] /\ e["spanid"] = b["spanid"]
      BY <3>1, <3>2
    <3>4. d = IF c.parent = 0 THEN b ELSE e
      OBVIOUS
    <3> HIDE DEF d, e
    <3> QED
      BY <2>2, <3>1, <3>3, <3>4
  <2>4. r = IF c.priority = Null THEN d ELSE Put(d, g.name, g.value)
    BY <1>3 DEF Inject, B3Inject
  <2>5. g.name \in {"flags", "sampled"} /\ g.value \in {0, 1}
    BY DEF GetSamplingHeader
  <2>6. r \in Headers /\ r["traceid"] = <<c.trace>> /\ r["spanid"] = <<c.span>>
    <3> DEFINE e == Put(d, g.name, g.value)
    <3> HIDE DEF d, g
    <3>1. e \in Headers /\ \A n \in Names \ {g.name} : e[n] = d[n]
      <4>1. g.name \in Names /\ g.name # "traceparent" /\ g.value \in Int
        BY <2>5 DEF Names
      <4> QED
        BY <2>3, <4>1, PutTyped
    <3>2. {"traceid", "spanid"} \subseteq Names \ {g.name}
      BY <2>5 DEF Names
    <3>3. e["traceid"] = d["traceid"] /\ e["spanid"] = d["spanid"]
      BY <3>1, <3>2
    <3>4. r = IF c.priority = Null THEN d ELSE e
      BY <2>4
    <3> HIDE DEF e, r
    <3> QED
      BY <2>3, <3>1, <3>3, <3>4
  <2>7. FirstId(r["traceid"]) = c.trace /\ FirstId(r["spanid"]) = c.span
    BY <1>1, <2>6, FirstIdOne
  <2>8. x # Null /\ x.trace = c.trace /\ x.span = c.span
    <3> HIDE DEF r
    <3>1. x = [trace |-> c.trace, span |-> c.span, priority |-> ParseB3FlagsAndSampled(r)]
      BY <1>1, <1>3, <2>7 DEF Extract, B3Extract
    <3>2. ParseB3FlagsAndSampled(r) \in Priorities \cup {Null}
      BY DEF ParseB3FlagsAndSampled, Priorities
    <3>3. x \in Context
      BY <1>1, <3>1, <3>2 DEF Context
    <3> QED
      BY <1>2, <3>1, <3>3
  <2> QED
    BY <2>6, <2>8
<1>4. CASE kind = "W3C"
  <2>1. r = Put(h, "traceparent", <<c.trace, c.span>>)
    BY <1>4 DEF Inject, W3CInject
  <2>2. r \in Headers /\ r["traceparent"] = <<<<c.trace, c.span>>>>
    BY <1>1, <2>1, PutTyped, SMTT(30) DEF Names
  <2>3. x = [trace |-> c.trace, span |-> c.span, priority |-> Null]
    <3> HIDE DEF r
    <3>1. <<c.trace, c.span>> # Malformed
      BY <1>1, PropagationAssumption
    <3>2. Head(r["traceparent"]) = <<c.trace, c.span>> /\ r["traceparent"] # <<>>
      BY <2>2
    <3>3. x = W3CExtract(r)
      BY <1>4 DEF Extract
    <3> DEFINE ids == <<c.trace, c.span>>
    <3>4. ids[1] = c.trace /\ ids[2] = c.span
      OBVIOUS
    <3> HIDE DEF x, ids
    <3>5. Head(r["traceparent"]) = ids /\ r["traceparent"] # <<>> /\ ids # Malformed
      BY <3>1, <3>2 DEF ids
    <3> QED
      BY <1>1, <3>3, <3>4, <3>5 DEF W3CExtract
  <2>4. x # Null
    BY <1>1, <1>2, <2>3 DEF Context
  <2> QED
    BY <2>2, <2>3, <2>4
<1> QED
  BY <1>3, <1>4

-----------------------------------------------------------------------------
(***************************************************************************)
(* Types: spans, calls and messages, and what a new span is.               *)
(***************************************************************************)

CallKinds == {"app", "receive", "publish", "produce"}

SpanSet == [trace : Int \ {0}, parent : Int, local : Nat \ {0}, above : Nat,
            kind : CallKinds, from : Nat]
CallSet == [kind : CallKinds, span : Nat, from : Nat, bare : BOOLEAN, headers : Headers]
Messages == [headers : Headers, from : Nat]

\* The spans: a scope's parent is an earlier span, a trace context the one of an
\* earlier span or its own.
SpansInv ==
    /\ spans \in Seq(SpanSet) /\ Len(spans) \in 0 .. MaxSpans
    /\ \A i \in 1 .. Len(spans) :
          /\ spans[i].local \in 1 .. i
          /\ spans[i].above \in 0 .. i - 1
          /\ spans[i].from \in 0 .. i - 1

PriorityInv ==
    /\ priority \in [Ids -> Priorities \cup {Null}]
    /\ \A i \in 1 .. Len(spans) : priority[spans[i].local] \in Priorities

CallsInv ==
    /\ active \in [Flows -> 0 .. Len(spans)]
    /\ calls \in [Flows -> Seq(CallSet)]
    /\ \A f \in Flows :
          /\ Len(calls[f]) <= MaxDepth
          /\ \A n \in 1 .. Len(calls[f]) :
                calls[f][n].span <= Len(spans) /\ calls[f][n].from <= Len(spans)

QueueInv == queue \subseteq Messages /\ \A m \in queue : m.from <= Len(spans)

SetsInv ==
    /\ propagator \in {"B3", "W3C"}
    /\ locked \subseteq Ids /\ exempt \subseteq Ids /\ leaked \subseteq Flows

TypeInv == SpansInv /\ PriorityInv /\ CallsInv /\ QueueInv /\ SetsInv

\* What Start takes: a span of this kind, for this flow.
NewSpans(f) ==
    {s \in SpanSet :
        /\ s.above = active[f] /\ s.from \in 0 .. Len(spans)
        /\ \/ s.local = Next_
           \/ \E i \in 1 .. Len(spans) : s.local = spans[i].local}

\* StartActive's span, from a context that may be returned by Extract.
LEMMA NewSpanTyped ==
    ASSUME TypeInv, NEW f \in Flows, NEW p \in Context \cup {Null}, NEW kind \in CallKinds,
           NEW from \in 0 .. Len(spans)
    PROVE  /\ NewSpan(f, p, kind, from) \in NewSpans(f)
           /\ NewSpan(f, p, kind, from).kind = kind
           /\ NewSpan(f, p, kind, from).from = from
<1> DEFINE s == NewSpan(f, p, kind, from)
           a == active[f]
<1>1. Len(spans) \in Nat /\ a \in 0 .. Len(spans)
  BY DEF TypeInv, SpansInv, CallsInv
<1>2. a # 0 => spans[a] \in SpanSet
  BY <1>1 DEF TypeInv, SpansInv
<1>3. p # Null => p.trace \in Int \ {0} /\ p.span \in Int
  BY DEF Context
<1>4. s.above = a /\ s.kind = kind /\ s.from = from
  BY DEF NewSpan
<1>5. s.local = Next_ \/ \E i \in 1 .. Len(spans) : s.local = spans[i].local
  BY <1>1 DEF NewSpan
<1>6. s \in SpanSet
  BY <1>1, <1>2, <1>3 DEF NewSpan, SpanSet, Next_
<1> QED
  BY <1>4, <1>5, <1>6 DEF NewSpans

\* What Start does: one span more, with a priority.
Grows(s) ==
    /\ Len(spans') = Len(spans) + 1
    /\ \A i \in 1 .. Len(spans) : spans'[i] = spans[i]
    /\ spans'[Len(spans) + 1] = s

\* Start keeps the types of spans and priorities.
LEMMA StartGrows ==
    ASSUME TypeInv, NEW f \in Flows, NEW p \in Context \cup {Null},
           NEW s \in NewSpans(f), Start(s, p)
    PROVE  Grows(s) /\ SpansInv' /\ PriorityInv' /\ priority'[s.local] \in Priorities
           /\ s.local \in Ids /\ Next_ \in Ids
<1> DEFINE n == Len(spans)
<1> USE MessagingAssumption
<1>1. n \in Nat /\ Next_ = n + 1 /\ n + 1 <= MaxSpans /\ s \in SpanSet /\ s.above \in 0 .. n
  BY DEF TypeInv, SpansInv, CallsInv, Start, Ids, Next_, NewSpans
<1>2. spans' \in Seq(SpanSet) /\ Grows(s)
  BY <1>1, AppendProperties DEF TypeInv, SpansInv, Start, Grows
<1>3. s.local \in 1 .. n + 1
  BY <1>1 DEF NewSpans, TypeInv, SpansInv
<1>4. SpansInv'
  <2>1. ASSUME NEW i \in 1 .. n + 1
        PROVE  /\ spans'[i].local \in 1 .. i
               /\ spans'[i].above \in 0 .. i - 1
               /\ spans'[i].from \in 0 .. i - 1
    <3>1. CASE i = n + 1
      <4>1. s.from \in 0 .. n
        BY DEF NewSpans
      <4> QED
        BY <1>1, <1>2, <1>3, <3>1, <4>1 DEF Grows
    <3>2. CASE i # n + 1
      <4>1. i \in 1 .. n
        BY <1>1, <3>2
      <4> QED
        BY <1>2, <4>1 DEF Grows, TypeInv, SpansInv
    <3> QED
      BY <3>1, <3>2
  <2> QED
    BY <1>1, <1>2, <2>1 DEF SpansInv, Grows
<1>5. \E v \in Priorities : priority' = [priority EXCEPT ![s.local] = v]
  <2>1. PICK v \in FirstPriority(s, p) : priority' = [priority EXCEPT ![s.local] = v]
    BY DEF Start
  <2>2. v \in Priorities
    <3>1. CASE s.local # Next_
      <4>1. PICK i \in 1 .. n : s.local = spans[i].local
        BY <3>1 DEF NewSpans
      <4>2. priority[s.local] \in Priorities
        BY <4>1 DEF TypeInv, PriorityInv
      <4> QED
        BY <2>1, <3>1, <4>2 DEF FirstPriority
    <3>2. CASE s.local = Next_ /\ p # Null /\ p.priority # Null
      <4>1. p.priority \in Priorities
        BY <3>2 DEF Context
      <4> QED
        BY <2>1, <3>2, <4>1 DEF FirstPriority
    <3>3. CASE s.local = Next_ /\ ~ (p # Null /\ p.priority # Null)
      BY <2>1, <3>3 DEF FirstPriority, Priorities
    <3> QED
      BY <3>1, <3>2, <3>3
  <2> QED
    BY <2>1, <2>2
<1>6. PICK v \in Priorities : priority' = [priority EXCEPT ![s.local] = v]
  BY <1>5
<1>7. s.local \in Ids
  BY <1>1, <1>3 DEF Ids
<1>8. priority' \in [Ids -> Priorities \cup {Null}] /\ priority'[s.local] = v
      /\ \A l \in Ids \ {s.local} : priority'[l] = priority[l]
  BY <1>6, <1>7 DEF TypeInv, PriorityInv
<1>9. ASSUME NEW i \in 1 .. n + 1
      PROVE  priority'[spans'[i].local] \in Priorities
  <2>1. CASE i = n + 1
    BY <1>2, <1>6, <1>8, <2>1 DEF Grows
  <2>2. CASE i # n + 1
    <3>1. i \in 1 .. n /\ spans'[i] = spans[i]
      BY <1>1, <1>2, <2>2 DEF Grows
    <3>2. spans[i].local \in Ids /\ priority[spans[i].local] \in Priorities
      BY <1>1, <3>1 DEF TypeInv, SpansInv, PriorityInv, Ids
    <3> QED
      BY <1>6, <1>8, <3>1, <3>2
  <2> QED
    BY <2>1, <2>2
<1>10. PriorityInv'
  <2>1. Ids' = Ids /\ Len(spans') = n + 1
    BY <1>2 DEF Ids, Grows
  <2> QED
    BY <1>8, <1>9, <2>1 DEF PriorityInv
<1> QED
  BY <1>1, <1>2, <1>4, <1>6, <1>7, <1>8, <1>10 DEF Ids

-----------------------------------------------------------------------------
(***************************************************************************)
(* A flow: the calls under way are nested, and the active span is that of  *)
(* the innermost one that has a span.  Only a scope that was left open by  *)
(* a producer may stand in its place.                                      *)
(***************************************************************************)

\* Span a is the one active inside the first n calls of q.
Below(sp, lk, f, q, n, a) ==
    \/ a = 0 /\ \A k \in 1 .. n : q[k].span = 0
    \/ \E k \in 1 .. n : a # 0 /\ q[k].span = a /\ \A j \in k + 1 .. n : q[j].span = 0
    \/ f \in lk /\ a # 0 /\ sp[a].kind = "produce"

\* Call n of q: only a producer has no span, and none has one inside a span of
\* a producer's.
Nested(sp, lk, f, q, n) ==
    LET c == q[n] IN
    \/ c.span = 0 /\ c.kind = "produce"
    \/ /\ c.span # 0
       /\ sp[c.span].kind = c.kind
       /\ Below(sp, lk, f, q, n - 1, sp[c.span].above)
       /\ c.kind = "produce" => \/ sp[c.span].above = 0
                                \/ sp[sp[c.span].above].kind # "produce"

FlowOK(sp, lk, f, q, a) ==
    /\ Below(sp, lk, f, q, Len(q), a)
    /\ \A n \in 1 .. Len(q) : Nested(sp, lk, f, q, n)

FlowInv == \A f \in Flows : FlowOK(spans, leaked, f, calls[f], active[f])

\* The spans of sp are there in sp2, and every above is one of them.
Extends(sp, sp2) ==
    /\ Len(sp) <= Len(sp2)
    /\ \A i \in 1 .. Len(sp) : sp2[i] = sp[i]

Typed(sp, q) ==
    /\ sp \in Seq(SpanSet) /\ q \in Seq(CallSet)
    /\ \A i \in 1 .. Len(sp) : sp[i].above \in 0 .. i - 1
    /\ \A n \in 1 .. Len(q) : q[n].span <= Len(sp)

\* What is below stays below when calls are added and spans are started.
LEMMA BelowStays ==
    ASSUME NEW sp, NEW sp2, NEW lk, NEW lk2, NEW f, NEW q, NEW q2, NEW n \in Nat,
           NEW a \in 0 .. Len(sp), Len(sp) \in Nat,
           Extends(sp, sp2), lk \subseteq lk2,
           \A k \in 1 .. n : q2[k] = q[k],
           Below(sp, lk, f, q, n, a)
    PROVE  Below(sp2, lk2, f, q2, n, a)
<1>1. CASE a = 0 /\ \A k \in 1 .. n : q[k].span = 0
  BY <1>1 DEF Below
<1>2. CASE \E k \in 1 .. n : a # 0 /\ q[k].span = a /\ \A j \in k + 1 .. n : q[j].span = 0
  BY <1>2 DEF Below
<1>3. CASE f \in lk /\ a # 0 /\ sp[a].kind = "produce"
  BY <1>3 DEF Below, Extends
<1> QED
  BY <1>1, <1>2, <1>3 DEF Below

\* A call stays nested when calls are added and spans are started.
LEMMA NestedStays ==
    ASSUME NEW sp, NEW sp2, NEW lk, NEW lk2, NEW f, NEW q, NEW q2, NEW n \in 1 .. Len(q),
           Typed(sp, q), Extends(sp, sp2), lk \subseteq lk2,
           \A k \in 1 .. n : q2[k] = q[k],
           Nested(sp, lk, f, q, n)
    PROVE  Nested(sp2, lk2, f, q2, n)
<1> DEFINE c == q[n]
           a == sp[c.span].above
<1>1. Len(sp) \in Nat /\ Len(q) \in Nat /\ n \in Nat /\ q2[n] = c
  BY DEF Typed
<1>2. CASE c.span = 0
  BY <1>1, <1>2 DEF Nested
<1>3. CASE c.span # 0
  <2>1. c.span \in 1 .. Len(sp)
    <3>1. c \in CallSet
      BY DEF Typed
    <3> QED
      BY <1>1, <1>3, <3>1 DEF Typed, CallSet
  <2>2. sp2[c.span] = sp[c.span] /\ a \in 0 .. Len(sp)
    BY <1>1, <2>1 DEF Typed, Extends
  <2>3. Below(sp, lk, f, q, n - 1, a)
    BY <1>3 DEF Nested
  <2>4. Below(sp2, lk2, f, q2, n - 1, a)
    BY <1>1, <2>2, <2>3, BelowStays
  <2>5. a # 0 => sp2[a] = sp[a]
    BY <2>2, <1>1 DEF Extends
  <2> QED
    BY <1>1, <1>3, <2>2, <2>4, <2>5 DEF Nested
<1> QED
  BY <1>2, <1>3

\* Spans elsewhere, or scopes left open, change nothing here.
LEMMA FlowStays ==
    ASSUME NEW sp, NEW sp2, NEW lk, NEW lk2, NEW f, NEW q, NEW a \in 0 .. Len(sp),
           Typed(sp, q), Extends(sp, sp2), lk \subseteq lk2, FlowOK(sp, lk, f, q, a)
    PROVE  FlowOK(sp2, lk2, f, q, a)
<1>1. Len(sp) \in Nat /\ Len(q) \in Nat
  BY DEF Typed
<1>2. Below(sp2, lk2, f, q, Len(q), a)
  BY <1>1, BelowStays DEF FlowOK
<1>3. \A n \in 1 .. Len(q) : Nested(sp2, lk2, f, q, n)
  BY NestedStays DEF FlowOK
<1> QED
  BY <1>2, <1>3 DEF FlowOK

\* A call that opens a span.
LEMMA FlowOpens ==
    ASSUME NEW sp, NEW sp2, NEW lk, NEW f, NEW q, NEW c \in CallSet, NEW a \in 0 .. Len(sp),
           Typed(sp, q), Extends(sp, sp2), FlowOK(sp, lk, f, q, a),
           c.span = Len(sp) + 1, sp2[c.span].kind = c.kind, sp2[c.span].above = a,
           c.kind = "produce" => a = 0 \/ sp[a].kind # "produce"
    PROVE  FlowOK(sp2, lk, f, Append(q, c), c.span)
<1> DEFINE r == Append(q, c)
           n == Len(q) + 1
<1>1. Len(sp) \in Nat /\ Len(q) \in Nat /\ q \in Seq(CallSet)
  BY DEF Typed
<1>2. Len(r) = n /\ r[n] = c /\ \A k \in 1 .. Len(q) : r[k] = q[k]
  BY <1>1, AppendProperties
<1> HIDE DEF r
<1>3. ASSUME NEW k \in 1 .. Len(q)
      PROVE  Nested(sp2, lk, f, r, k)
  <2>1. \A j \in 1 .. k : r[j] = q[j]
    BY <1>1, <1>2
  <2> QED
    BY <2>1, NestedStays DEF FlowOK
<1>4. Below(sp2, lk, f, r, Len(q), a)
  BY <1>1, <1>2, BelowStays DEF FlowOK
<1>5. a # 0 => sp2[a] = sp[a]
  BY <1>1 DEF Extends
<1>6. Nested(sp2, lk, f, r, n)
  <2>1. n - 1 = Len(q) /\ c.span # 0
    BY <1>1
  <2> QED
    BY <1>2, <1>4, <1>5, <2>1 DEF Nested
<1>7. Below(sp2, lk, f, r, n, c.span)
  <2>1. r[n].span = c.span /\ c.span # 0 /\ n \in 1 .. n /\ \A j \in n + 1 .. n : r[j].span = 0
    BY <1>1, <1>2
  <2> QED
    BY <2>1 DEF Below
<1>8. \A k \in 1 .. n : k \in 1 .. Len(q) \/ k = n
  BY <1>1
<1>9. FlowOK(sp2, lk, f, r, c.span)
  BY <1>2, <1>3, <1>6, <1>7, <1>8 DEF FlowOK
<1> QED
  BY <1>9 DEF r

\* A producer inside another's span.
LEMMA FlowWraps ==
    ASSUME NEW sp, NEW lk, NEW f, NEW q, NEW c \in CallSet, NEW a \in 0 .. Len(sp),
           Typed(sp, q), FlowOK(sp, lk, f, q, a), c.span = 0, c.kind = "produce"
    PROVE  FlowOK(sp, lk, f, Append(q, c), a)
<1> DEFINE r == Append(q, c)
           n == Len(q) + 1
<1>1. Len(sp) \in Nat /\ Len(q) \in Nat /\ q \in Seq(CallSet) /\ Extends(sp, sp)
  BY DEF Typed, Extends
<1>2. Len(r) = n /\ r[n] = c /\ \A k \in 1 .. Len(q) : r[k] = q[k]
  BY <1>1, AppendProperties
<1> HIDE DEF r
<1>3. ASSUME NEW k \in 1 .. Len(q)
      PROVE  Nested(sp, lk, f, r, k)
  <2>1. \A j \in 1 .. k : r[j] = q[j]
    BY <1>1, <1>2
  <2> QED
    BY <1>1, <2>1, NestedStays DEF FlowOK
<1>4. Below(sp, lk, f, r, Len(q), a)
  BY <1>1, <1>2, BelowStays DEF FlowOK
<1>5. Nested(sp, lk, f, r, n)
  BY <1>2 DEF Nested
<1>6. Below(sp, lk, f, r, n, a)
  <2>1. CASE a = 0 /\ \A k \in 1 .. Len(q) : r[k].span = 0
    BY <1>1, <1>2, <2>1 DEF Below
  <2>2. CASE \E k \in 1 .. Len(q) :
                a # 0 /\ r[k].span = a /\ \A j \in k + 1 .. Len(q) : r[j].span = 0
    <3>1. PICK k \in 1 .. Len(q) :
                a # 0 /\ r[k].span = a /\ \A j \in k + 1 .. Len(q) : r[j].span = 0
      BY <2>2
    <3>2. \A j \in k + 1 .. n : j \in k + 1 .. Len(q) \/ j = n
      BY <1>1
    <3>3. k \in 1 .. n /\ \A j \in k + 1 .. n : r[j].span = 0
      BY <1>1, <1>2, <3>1, <3>2
    <3> QED
      BY <3>1, <3>3 DEF Below
  <2>3. CASE f \in lk /\ a # 0 /\ sp[a].kind = "produce"
    BY <2>3 DEF Below
  <2> QED
    BY <1>4, <2>1, <2>2, <2>3 DEF Below
<1>7. \A k \in 1 .. n : k \in 1 .. Len(q) \/ k = n
  BY <1>1
<1>8. FlowOK(sp, lk, f, r, a)
  BY <1>2, <1>3, <1>5, <1>6, <1>7 DEF FlowOK
<1> QED
  BY <1>8 DEF r

\* A scope left open.
LEMMA FlowLeaks ==
    ASSUME NEW sp, NEW sp2, NEW lk, NEW lk2, NEW f, NEW q, NEW a \in 0 .. Len(sp), NEW x \in Nat,
           Typed(sp, q), Extends(sp, sp2), lk \subseteq lk2, FlowOK(sp, lk, f, q, a),
           f \in lk2, x # 0, sp2[x].kind = "produce"
    PROVE  FlowOK(sp2, lk2, f, q, x)
<1>1. \A n \in 1 .. Len(q) : Nested(sp2, lk2, f, q, n)
  BY NestedStays DEF FlowOK
<1>2. Below(sp2, lk2, f, q, Len(q), x)
  BY DEF Below
<1> QED
  BY <1>1, <1>2 DEF FlowOK

\* The innermost call ends: the span below it is active again.
LEMMA FlowEnds ==
    ASSUME NEW sp, NEW lk, NEW f, NEW q, NEW a \in 0 .. Len(sp),
           Typed(sp, q), FlowOK(sp, lk, f, q, a), q # <<>>
    PROVE  LET id == q[Len(q)].span IN
           FlowOK(sp, lk, f, SubSeq(q, 1, Len(q) - 1),
                  IF a = id /\ id # 0 THEN sp[id].above ELSE a)
<1> DEFINE n == Len(q)
           c == q[n]
           id == c.span
           r == SubSeq(q, 1, n - 1)
           b == IF a = id /\ id # 0 THEN sp[id].above ELSE a
<1>1. Len(sp) \in Nat /\ n \in Nat \ {0} /\ q \in Seq(CallSet) /\ Extends(sp, sp)
  BY DEF Typed, Extends
<1>2. Len(r) = n - 1 /\ \A k \in 1 .. n - 1 : r[k] = q[k]
  <2>1. \A k \in 1 .. n - 1 : q[k] \in CallSet
    BY <1>1
  <2>2. 1 \in Int /\ n - 1 \in Int
    BY <1>1
  <2> HIDE DEF n
  <2>3. /\ Len(r) = IF 1 <= n - 1 THEN (n - 1) - 1 + 1 ELSE 0
        /\ \A k \in 1 .. (n - 1) - 1 + 1 : r[k] = q[1 + k - 1]
    BY <2>1, <2>2, SubSeqProperties
  <2> QED
    BY <1>1, <2>3
<1>3. c \in CallSet /\ id \in 0 .. Len(sp)
  <2>1. c \in CallSet
    BY <1>1
  <2> QED
    BY <1>1, <2>1 DEF Typed, CallSet
<1>4. Nested(sp, lk, f, q, n) /\ Below(sp, lk, f, q, n, a)
  BY <1>1 DEF FlowOK
<1>5. Below(sp, lk, f, q, n - 1, b)
  <2>1. CASE a = id /\ id # 0
    BY <1>4, <2>1 DEF Nested
  <2>2. CASE ~ (a = id /\ id # 0)
    <3>1. b = a
      BY <2>2
    <3>2. CASE a = 0 /\ \A k \in 1 .. n : q[k].span = 0
      BY <1>1, <3>1, <3>2 DEF Below
    <3>3. CASE \E k \in 1 .. n : a # 0 /\ q[k].span = a /\ \A j \in k + 1 .. n : q[j].span = 0
      <4>1. PICK k \in 1 .. n : a # 0 /\ q[k].span = a /\ \A j \in k + 1 .. n : q[j].span = 0
        BY <3>3
      <4>2. k \in 1 .. n - 1
        BY <1>1, <2>2, <4>1
      <4>3. \A j \in k + 1 .. n - 1 : q[j].span = 0
        BY <1>1, <4>1, <4>2
      <4> QED
        BY <3>1, <4>1, <4>2, <4>3 DEF Below
    <3>4. CASE f \in lk /\ a # 0 /\ sp[a].kind = "produce"
      BY <3>1, <3>4 DEF Below
    <3> QED
      BY <1>4, <3>2, <3>3, <3>4 DEF Below
  <2> QED
    BY <2>1, <2>2
<1>6. b \in 0 .. Len(sp)
  BY <1>1, <1>3 DEF Typed
<1> HIDE DEF r, b
<1>7. Below(sp, lk, f, r, n - 1, b)
  BY <1>1, <1>2, <1>5, <1>6, BelowStays
<1>8. ASSUME NEW k \in 1 .. n - 1
      PROVE  Nested(sp, lk, f, r, k)
  <2>1. k \in 1 .. Len(q) /\ \A j \in 1 .. k : r[j] = q[j]
    BY <1>1, <1>2
  <2> QED
    BY <1>1, <2>1, NestedStays DEF FlowOK
<1>9. FlowOK(sp, lk, f, r, b)
  BY <1>2, <1>7, <1>8 DEF FlowOK
<1> QED
  BY <1>9 DEF r, b

-----------------------------------------------------------------------------
(***************************************************************************)
(* What is in the headers: the context of the span that a message or a     *)
(* call names as its sender.                                               *)
(***************************************************************************)

Carries(kind, sp, h, x) ==
    LET p == Extract(kind, h) IN
    /\ p # Null
    /\ p.trace = sp[x].trace /\ p.span = x

\* A call that sends has its sender's context, or none: that takes a message in
\* which nothing can be put, or a scope that was left open.
CallSends(kind, sp, lk, f, c) ==
    c.kind \in {"publish", "produce"} =>
        IF c.from = 0 THEN f \in lk \/ c.bare ELSE Carries(kind, sp, c.headers, c.from)

SentInv ==
    \A f \in Flows : \A n \in 1 .. Len(calls[f]) :
        CallSends(propagator, spans, leaked, f, calls[f][n])

QueueSent == \A m \in queue : m.from # 0 => Carries(propagator, spans, m.headers, m.from)

SpanReceives(sp, s) ==
    s.from # 0 => s.parent = s.from /\ s.trace = sp[s.from].trace

Received == \A i \in 1 .. Len(spans) : SpanReceives(spans, spans[i])

\* The inductive invariant.
IInv == TypeInv /\ FlowInv /\ SentInv /\ QueueSent /\ Received

\* It holds at first: there are no spans, and no message names a sender.
LEMMA Start0 == Init => IInv
<1> SUFFICES ASSUME Init
             PROVE  IInv
  OBVIOUS
<1> USE MessagingAssumption DEF Init
<1>1. Len(spans) = 0 /\ spans \in Seq(SpanSet)
  OBVIOUS
<1>2. \A f \in Flows : Len(calls[f]) = 0 /\ calls[f] \in Seq(CallSet)
  OBVIOUS
<1>3. TypeInv
  <2>1. SpansInv /\ PriorityInv /\ SetsInv
    BY <1>1 DEF SpansInv, PriorityInv, SetsInv
  <2>2. CallsInv
    BY <1>1, <1>2 DEF CallsInv
  <2>3. QueueInv
    BY <1>1 DEF QueueInv, Messages
  <2> QED
    BY <2>1, <2>2, <2>3 DEF TypeInv
<1>4. FlowInv
  BY <1>2 DEF FlowInv, FlowOK, Below
<1>5. SentInv /\ QueueSent /\ Received
  BY <1>1, <1>2 DEF SentInv, QueueSent, Received
<1> QED
  BY <1>3, <1>4, <1>5 DEF IInv

\* A span that is started changes nothing of what the others received and sent.
LEMMA SentStays ==
    ASSUME IInv, Extends(spans, spans'), UNCHANGED <<propagator>>, leaked \subseteq leaked'
    PROVE  /\ \A f \in Flows : \A n \in 1 .. Len(calls[f]) :
                CallSends(propagator', spans', leaked', f, calls[f][n])
           /\ \A m \in queue : m.from # 0 => Carries(propagator', spans', m.headers, m.from)
           /\ \A i \in 1 .. Len(spans) : SpanReceives(spans', spans'[i])
<1>1. Len(spans) \in Nat
  BY DEF IInv, TypeInv, SpansInv
<1>2. \A i \in 1 .. Len(spans) : spans'[i] = spans[i]
  BY DEF Extends
<1>3. ASSUME NEW f \in Flows, NEW n \in 1 .. Len(calls[f])
      PROVE  CallSends(propagator', spans', leaked', f, calls[f][n])
  <2> DEFINE c == calls[f][n]
  <2>1. CallSends(propagator, spans, leaked, f, c)
    BY DEF IInv, SentInv
  <2>2. c.from \in Nat /\ c.from <= Len(spans)
    <3>1. calls[f] \in Seq(CallSet)
      BY DEF IInv, TypeInv, CallsInv
    <3>2. c \in CallSet
      BY <3>1
    <3> QED
      BY <3>2 DEF IInv, TypeInv, CallsInv, CallSet
  <2>3. c.from # 0 => spans'[c.from] = spans[c.from]
    BY <1>1, <1>2, <2>2
  <2> QED
    BY <2>1, <2>3 DEF CallSends, Carries
<1>4. ASSUME NEW m \in queue, m.from # 0
      PROVE  Carries(propagator', spans', m.headers, m.from)
  <2>1. m.from \in 1 .. Len(spans)
    BY <1>1, <1>4 DEF IInv, TypeInv, QueueInv, Messages
  <2> QED
    BY <1>2, <1>4, <2>1 DEF IInv, QueueSent, Carries
<1>5. ASSUME NEW i \in 1 .. Len(spans)
      PROVE  SpanReceives(spans', spans'[i])
  <2>1. spans[i].from \in 0 .. Len(spans)
    BY <1>1 DEF IInv, TypeInv, SpansInv
  <2>2. spans[i].from # 0 => spans'[spans[i].from] = spans[spans[i].from]
    BY <1>1, <1>2, <2>1
  <2> QED
    BY <1>2, <2>2 DEF IInv, Received, SpanReceives
<1> QED
  BY <1>3, <1>4, <1>5

\* The spans of a flow, as the lemmas about flows take them.
LEMMA FlowTyped ==
    ASSUME TypeInv, NEW f \in Flows
    PROVE  /\ Typed(spans, calls[f]) /\ active[f] \in 0 .. Len(spans) /\ Len(spans) \in Nat
           /\ calls[f] \in Seq(CallSet) /\ Len(calls[f]) \in Nat
  BY DEF TypeInv, SpansInv, CallsInv, Typed

-----------------------------------------------------------------------------
(***************************************************************************)
(* The shapes of a step.                                                   *)
(***************************************************************************)

\* A call c of flow f opens span s.
Opens(f, s, c) ==
    /\ SpansInv' /\ PriorityInv' /\ SetsInv' /\ Grows(s)
    /\ s.above = active[f] /\ s.kind = c.kind /\ c.span = Next_
    /\ c.kind = "produce" => ~ AlreadyInstrumented(f)
    /\ c.from <= Next_ /\ CallSends(propagator, spans', leaked, f, c)
    /\ SpanReceives(spans, s) /\ s.from <= Len(spans)
    /\ Push(f, c) /\ active' = [active EXCEPT ![f] = Next_]
    /\ UNCHANGED <<propagator, queue, leaked>>

\* The new call is the innermost, and its span the active one.
LEMMA OpensKeeps ==
    ASSUME IInv, NEW f \in Flows, NEW s \in SpanSet, NEW c \in CallSet, Opens(f, s, c)
    PROVE  IInv'
<1> DEFINE n == Len(spans)
<1>1. n \in Nat /\ Len(spans') = n + 1 /\ Next_ = n + 1 /\ Extends(spans, spans')
      /\ spans'[n + 1] = s
  BY DEF IInv, TypeInv, SpansInv, Opens, Grows, Next_, Extends
<1>2. /\ calls' = [calls EXCEPT ![f] = Append(calls[f], c)]
      /\ active' = [active EXCEPT ![f] = n + 1]
      /\ calls \in [Flows -> Seq(CallSet)] /\ active \in [Flows -> 0 .. n]
  BY <1>1 DEF Opens, Push, IInv, TypeInv, CallsInv
<1>3. /\ calls'[f] = Append(calls[f], c) /\ active'[f] = n + 1
      /\ \A g \in Flows \ {f} : calls'[g] = calls[g] /\ active'[g] = active[g]
  BY <1>2
<1>4. /\ Append(calls[f], c) \in Seq(CallSet) /\ Len(Append(calls[f], c)) = Len(calls[f]) + 1
      /\ \A k \in 1 .. Len(calls[f]) : Append(calls[f], c)[k] = calls[f][k]
      /\ Append(calls[f], c)[Len(calls[f]) + 1] = c
      /\ Len(calls[f]) \in Nat
  BY <1>2, AppendProperties
<1>5. c.span = n + 1 /\ c.from <= n + 1 /\ c.from \in Nat /\ Len(calls[f]) < MaxDepth
  BY <1>1 DEF Opens, CallSet, Push
<1>6. CallsInv'
  <2>1. active' \in [Flows -> 0 .. n + 1]
    BY <1>1, <1>2
  <2>2. calls' \in [Flows -> Seq(CallSet)]
    BY <1>2, <1>4
  <2>3. ASSUME NEW g \in Flows
        PROVE  /\ Len(calls'[g]) <= MaxDepth
               /\ \A k \in 1 .. Len(calls'[g]) :
                     calls'[g][k].span <= n + 1 /\ calls'[g][k].from <= n + 1
    <3>1. \A k \in 1 .. Len(calls[g]) : calls[g][k] \in CallSet
      BY <1>2
    <3>2. \A k \in 1 .. Len(calls[g]) : calls[g][k].span <= n + 1 /\ calls[g][k].from <= n + 1
      BY <1>1, <3>1 DEF IInv, TypeInv, CallsInv, CallSet
    <3>3. CASE g = f
      <4>1. Len(calls'[g]) <= MaxDepth
        BY <1>3, <1>4, <1>5, <3>3, MessagingAssumption
      <4>2. ASSUME NEW k \in 1 .. Len(calls'[g])
            PROVE  calls'[g][k].span <= n + 1 /\ calls'[g][k].from <= n + 1
        <5>1. k \in 1 .. Len(calls[f]) \/ k = Len(calls[f]) + 1
          BY <1>3, <1>4, <3>3
        <5>2. CASE k \in 1 .. Len(calls[f])
          <6>1. calls'[g][k] = calls[g][k]
            BY <1>3, <1>4, <3>3, <5>2
          <6> QED
            BY <3>2, <3>3, <5>2, <6>1
        <5>3. CASE k = Len(calls[f]) + 1
          <6>1. calls'[g][k] = c
            BY <1>3, <1>4, <3>3, <5>3
          <6> QED
            BY <1>1, <1>5, <6>1
        <5> QED
          BY <5>1, <5>2, <5>3
      <4> QED
        BY <4>1, <4>2
    <3>4. CASE g # f
      BY <1>3, <3>2, <3>4 DEF IInv, TypeInv, CallsInv
    <3> QED
      BY <3>3, <3>4
  <2> QED
    BY <1>1, <2>1, <2>2, <2>3 DEF CallsInv
<1>7. TypeInv'
  <2>1. QueueInv'
    BY <1>1 DEF Opens, IInv, TypeInv, QueueInv, Messages
  <2> QED
    BY <1>6, <2>1 DEF Opens, TypeInv
<1>8. FlowInv'
  <2>1. ASSUME NEW g \in Flows
        PROVE  FlowOK(spans', leaked, g, calls'[g], active'[g])
    <3>1. FlowOK(spans, leaked, g, calls[g], active[g])
      BY DEF IInv, FlowInv
    <3>2. Typed(spans, calls[g]) /\ active[g] \in 0 .. n
      BY FlowTyped DEF IInv
    <3>3. CASE g = f
      <4>1. spans'[c.span].kind = c.kind /\ spans'[c.span].above = active[f]
        BY <1>1, <1>5 DEF Opens
      <4>2. c.kind = "produce" => active[f] = 0 \/ spans[active[f]].kind # "produce"
        BY DEF Opens, AlreadyInstrumented
      <4>3. FlowOK(spans', leaked, f, Append(calls[f], c), c.span)
        BY <1>1, <1>5, <3>1, <3>2, <3>3, <4>1, <4>2, FlowOpens
      <4> QED
        BY <1>3, <1>5, <3>3, <4>3
    <3>4. CASE g # f
      <4>1. FlowOK(spans', leaked, g, calls[g], active[g])
        BY <1>1, <3>1, <3>2, FlowStays
      <4> QED
        BY <1>3, <3>4, <4>1
    <3> QED
      BY <3>3, <3>4
  <2>2. leaked' = leaked
    BY DEF Opens
  <2> QED
    BY <2>1, <2>2 DEF FlowInv
<1>9. leaked' = leaked /\ propagator' = propagator /\ queue' = queue
  BY DEF Opens
<1>10. /\ \A g \in Flows : \A k \in 1 .. Len(calls[g]) :
              CallSends(propagator, spans', leaked, g, calls[g][k])
       /\ \A m \in queue : m.from # 0 => Carries(propagator, spans', m.headers, m.from)
       /\ \A i \in 1 .. n : SpanReceives(spans', spans'[i])
  BY <1>1, <1>9, SentStays
<1>11. SentInv'
  <2>1. ASSUME NEW g \in Flows, NEW k \in 1 .. Len(calls'[g])
        PROVE  CallSends(propagator, spans', leaked, g, calls'[g][k])
    <3>1. CASE g = f /\ k = Len(calls[f]) + 1
      <4>1. calls'[g][k] = c
        BY <1>3, <1>4, <3>1
      <4> QED
        BY <3>1, <4>1 DEF Opens
    <3>2. CASE ~ (g = f /\ k = Len(calls[f]) + 1)
      <4>1. k \in 1 .. Len(calls[g]) /\ calls'[g][k] = calls[g][k]
        <5>1. CASE g = f
          <6>1. k \in 1 .. Len(calls[f]) + 1 /\ k # Len(calls[f]) + 1
            BY <1>3, <1>4, <3>2, <5>1
          <6>2. k \in 1 .. Len(calls[f])
            BY <1>4, <6>1
          <6> QED
            BY <1>3, <1>4, <5>1, <6>2
        <5>2. CASE g # f
          BY <1>3, <5>2
        <5> QED
          BY <5>1, <5>2
      <4> QED
        BY <1>10, <4>1
    <3> QED
      BY <3>1, <3>2
  <2> QED
    BY <1>9, <2>1 DEF SentInv
<1>12. QueueSent'
  BY <1>9, <1>10 DEF QueueSent
<1>13. Received'
  <2>1. SpanReceives(spans', s)
    <3>1. s.from # 0 => s.from \in 1 .. n
      BY <1>1 DEF Opens, SpanSet
    <3>2. s.from # 0 => spans'[s.from] = spans[s.from]
      BY <1>1, <3>1 DEF Extends
    <3> QED
      BY <3>2 DEF Opens, SpanReceives
  <2>2. \A i \in 1 .. n + 1 : i \in 1 .. n \/ i = n + 1
    BY <1>1
  <2> QED
    BY <1>1, <1>10, <2>1, <2>2 DEF Received
<1> QED
  BY <1>7, <1>8, <1>11, <1>12, <1>13 DEF IInv

\* A producer inside another's span.
Wraps(f, c) ==
    /\ c.span = 0 /\ c.kind = "produce" /\ c.from <= Len(spans)
    /\ CallSends(propagator, spans, leaked, f, c)
    /\ Push(f, c)
    /\ UNCHANGED <<propagator, spans, priority, locked, active, queue, leaked, exempt>>

\* A producer without a span of its own keeps the invariant.
LEMMA WrapsKeeps ==
    ASSUME IInv, NEW f \in Flows, NEW c \in CallSet, Wraps(f, c)
    PROVE  IInv'
<1> DEFINE n == Len(spans)
           r == Append(calls[f], c)
<1>1. /\ calls' = [calls EXCEPT ![f] = r] /\ calls \in [Flows -> Seq(CallSet)]
      /\ Len(calls[f]) < MaxDepth /\ n \in Nat
  BY DEF Wraps, Push, IInv, TypeInv, CallsInv, SpansInv
<1>2. /\ r \in Seq(CallSet) /\ Len(r) = Len(calls[f]) + 1 /\ Len(calls[f]) \in Nat
      /\ \A k \in 1 .. Len(calls[f]) : r[k] = calls[f][k]
      /\ r[Len(calls[f]) + 1] = c
  BY <1>1, AppendProperties
<1> HIDE DEF r
<1>3. calls'[f] = r /\ \A g \in Flows \ {f} : calls'[g] = calls[g]
  BY <1>1
<1>4. /\ spans' = spans /\ priority' = priority /\ locked' = locked /\ active' = active
      /\ queue' = queue /\ leaked' = leaked /\ exempt' = exempt /\ propagator' = propagator
  BY DEF Wraps
<1>5. ASSUME NEW g \in Flows, NEW k \in 1 .. Len(calls'[g])
      PROVE  \/ g = f /\ calls'[g][k] = c
             \/ k \in 1 .. Len(calls[g]) /\ calls'[g][k] = calls[g][k]
  <2>1. CASE g = f
    <3>1. k \in 1 .. Len(calls[f]) \/ k = Len(calls[f]) + 1
      BY <1>2, <1>3, <2>1
    <3> QED
      BY <1>2, <1>3, <2>1, <3>1
  <2>2. CASE g # f
    BY <1>3, <2>2
  <2> QED
    BY <2>1, <2>2
<1>6. CallsInv'
  <2>1. calls' \in [Flows -> Seq(CallSet)]
    BY <1>1, <1>2
  <2>2. ASSUME NEW g \in Flows
        PROVE  Len(calls'[g]) <= MaxDepth
    <3>1. CASE g = f
      BY <1>1, <1>2, <1>3, <3>1, MessagingAssumption
    <3>2. CASE g # f
      BY <1>3, <3>2 DEF IInv, TypeInv, CallsInv
    <3> QED
      BY <3>1, <3>2
  <2>3. ASSUME NEW g \in Flows, NEW k \in 1 .. Len(calls'[g])
        PROVE  calls'[g][k].span <= n /\ calls'[g][k].from <= n
    <3>1. c.span <= n /\ c.from <= n
      BY <1>1 DEF Wraps
    <3> QED
      BY <1>5, <3>1 DEF IInv, TypeInv, CallsInv
  <2> QED
    BY <1>4, <2>1, <2>2, <2>3 DEF CallsInv, IInv, TypeInv
<1>7. TypeInv'
  BY <1>4, <1>6 DEF IInv, TypeInv, SpansInv, PriorityInv, QueueInv, SetsInv, Ids
<1>8. FlowInv'
  <2>1. ASSUME NEW g \in Flows
        PROVE  FlowOK(spans, leaked, g, calls'[g], active[g])
    <3>1. FlowOK(spans, leaked, g, calls[g], active[g])
      BY DEF IInv, FlowInv
    <3>2. Typed(spans, calls[g]) /\ active[g] \in 0 .. n
      BY FlowTyped DEF IInv
    <3>3. CASE g = f
      <4>1. FlowOK(spans, leaked, f, Append(calls[f], c), active[f])
        BY <3>1, <3>2, <3>3, FlowWraps DEF Wraps
      <4> QED
        BY <1>3, <3>3, <4>1 DEF r
    <3>4. CASE g # f
      BY <1>3, <3>1, <3>4
    <3> QED
      BY <3>3, <3>4
  <2> QED
    BY <1>4, <2>1 DEF FlowInv
<1>9. SentInv'
  <2>1. ASSUME NEW g \in Flows, NEW k \in 1 .. Len(calls'[g])
        PROVE  CallSends(propagator, spans, leaked, g, calls'[g][k])
    BY <1>5 DEF IInv, SentInv, Wraps
  <2> QED
    BY <1>4, <2>1 DEF SentInv
<1>10. QueueSent' /\ Received'
  BY <1>4 DEF IInv, QueueSent, Received
<1> QED
  BY <1>7, <1>8, <1>9, <1>10 DEF IInv

\* A span beside the calls: it is over at once, or it stays open.
Beside(f, s) ==
    /\ SpansInv' /\ PriorityInv' /\ SetsInv' /\ Grows(s)
    /\ SpanReceives(spans, s) /\ s.from <= Len(spans)
    /\ \/ UNCHANGED <<active, leaked>>
       \/ /\ s.kind = "produce" /\ leaked' = leaked \cup {f}
          /\ active' = [active EXCEPT ![f] = Next_]
    /\ UNCHANGED <<propagator, calls, queue>>

\* A span beside the calls keeps the invariant.
LEMMA BesideKeeps ==
    ASSUME IInv, NEW f \in Flows, NEW s \in SpanSet, Beside(f, s)
    PROVE  IInv'
<1> DEFINE n == Len(spans)
<1>1. n \in Nat /\ Len(spans') = n + 1 /\ Next_ = n + 1 /\ Extends(spans, spans')
      /\ spans'[n + 1] = s /\ leaked \subseteq leaked'
  BY DEF IInv, TypeInv, SpansInv, Beside, Grows, Next_, Extends
<1>2. propagator' = propagator /\ calls' = calls /\ queue' = queue
  BY DEF Beside
<1>3. TypeInv'
  <2>1. active' \in [Flows -> 0 .. n + 1]
    <3>1. active \in [Flows -> 0 .. n + 1]
      BY <1>1 DEF IInv, TypeInv, CallsInv
    <3>2. n + 1 \in 0 .. n + 1
      BY <1>1
    <3>3. active' = active \/ active' = [active EXCEPT ![f] = n + 1]
      BY <1>1 DEF Beside
    <3> QED
      BY <3>1, <3>2, <3>3
  <2>2. ASSUME NEW g \in Flows, NEW k \in 1 .. Len(calls[g])
        PROVE  calls[g][k].span <= n + 1 /\ calls[g][k].from <= n + 1
    <3>1. calls[g] \in Seq(CallSet)
      BY DEF IInv, TypeInv, CallsInv
    <3>2. calls[g][k] \in CallSet
      BY <3>1
    <3> QED
      <4>1. calls[g][k].span \in Nat /\ calls[g][k].from \in Nat
        BY <3>2 DEF CallSet
      <4>2. calls[g][k].span <= n /\ calls[g][k].from <= n
        BY DEF IInv, TypeInv, CallsInv
      <4> QED
        BY <1>1, <4>1, <4>2
  <2>3. CallsInv'
    BY <1>1, <1>2, <2>1, <2>2 DEF CallsInv, IInv, TypeInv
  <2>4. QueueInv'
    BY <1>1, <1>2 DEF IInv, TypeInv, QueueInv, Messages
  <2> QED
    BY <2>3, <2>4 DEF Beside, TypeInv
<1>4. FlowInv'
  <2>1. ASSUME NEW g \in Flows
        PROVE  FlowOK(spans', leaked', g, calls[g], active'[g])
    <3>1. FlowOK(spans, leaked, g, calls[g], active[g])
      BY DEF IInv, FlowInv
    <3>2. Typed(spans, calls[g]) /\ active[g] \in 0 .. n
      BY FlowTyped DEF IInv
    <3>3. FlowOK(spans', leaked', g, calls[g], active[g])
      BY <1>1, <3>1, <3>2, FlowStays
    <3>4. CASE active'[g] = active[g]
      BY <3>3, <3>4
    <3>5. CASE active'[g] # active[g]
      <4>1. /\ s.kind = "produce" /\ leaked' = leaked \cup {f}
            /\ active' = [active EXCEPT ![f] = n + 1]
        BY <1>1, <3>5 DEF Beside
      <4>2. g = f /\ active'[g] = n + 1
        BY <3>5, <4>1 DEF IInv, TypeInv, CallsInv
      <4>3. g \in leaked' /\ n + 1 # 0 /\ n + 1 \in Nat /\ spans'[n + 1].kind = "produce"
        BY <1>1, <4>1, <4>2
      <4>4. FlowOK(spans', leaked', g, calls[g], n + 1)
        BY <1>1, <3>1, <3>2, <4>3, FlowLeaks
      <4> QED
        BY <4>2, <4>4
    <3> QED
      BY <3>4, <3>5
  <2> QED
    BY <1>2, <2>1 DEF FlowInv
<1>5. /\ \A g \in Flows : \A k \in 1 .. Len(calls[g]) :
              CallSends(propagator', spans', leaked', g, calls[g][k])
      /\ \A m \in queue : m.from # 0 => Carries(propagator', spans', m.headers, m.from)
      /\ \A i \in 1 .. n : SpanReceives(spans', spans'[i])
  BY <1>1, <1>2, SentStays
<1>6. SentInv' /\ QueueSent'
  BY <1>2, <1>5 DEF SentInv, QueueSent
<1>7. Received'
  <2>1. SpanReceives(spans', s)
    <3>1. s.from # 0 => s.from \in 1 .. n
      BY <1>1 DEF Beside, SpanSet
    <3>2. s.from # 0 => spans'[s.from] = spans[s.from]
      BY <1>1, <3>1 DEF Extends
    <3> QED
      BY <3>2 DEF Beside, SpanReceives
  <2>2. \A i \in 1 .. n + 1 : i \in 1 .. n \/ i = n + 1
    BY <1>1
  <2> QED
    BY <1>1, <1>5, <2>1, <2>2 DEF Received
<1> QED
  BY <1>3, <1>4, <1>6, <1>7 DEF IInv

\* The innermost call ends; if it sent a message, the broker has it.
Ends(f) ==
    /\ calls[f] # <<>> /\ Dispose(f, Top(f).span) /\ Pop(f)
    /\ \/ UNCHANGED queue
       \/ /\ Top(f).kind \in {"publish", "produce"}
          /\ queue' = queue \cup {[headers |-> Top(f).headers, from |-> Top(f).from]}
    /\ UNCHANGED <<propagator, spans, priority, leaked, exempt>>

\* The end of the innermost call keeps the invariant, its message too.
LEMMA EndsKeeps ==
    ASSUME IInv, NEW f \in Flows, Ends(f)
    PROVE  IInv'
<1> DEFINE n == Len(spans)
           q == calls[f]
           c == q[Len(q)]
           r == SubSeq(q, 1, Len(q) - 1)
           b == IF active[f] = c.span /\ c.span # 0 THEN spans[c.span].above ELSE active[f]
<1>1. /\ propagator' = propagator /\ spans' = spans /\ priority' = priority
      /\ leaked' = leaked /\ exempt' = exempt
  BY DEF Ends
<1>2. /\ calls \in [Flows -> Seq(CallSet)] /\ active \in [Flows -> 0 .. n] /\ n \in Nat
      /\ q # <<>> /\ q \in Seq(CallSet) /\ Len(q) \in Nat \ {0}
  BY DEF Ends, IInv, TypeInv, CallsInv, SpansInv
<1>3. c \in CallSet /\ c.span \in 0 .. n /\ c.from \in 0 .. n
  <2>1. c \in CallSet
    BY <1>2
  <2> QED
    BY <1>2, <2>1 DEF IInv, TypeInv, CallsInv, CallSet
<1>4. /\ Len(r) = Len(q) - 1 /\ r \in Seq(CallSet)
      /\ \A k \in 1 .. Len(q) - 1 : r[k] = q[k]
  <2> DEFINE l == Len(q)
  <2>1. 1 \in Int /\ l - 1 \in Int /\ \A k \in 1 .. l - 1 : q[k] \in CallSet
    BY <1>2
  <2> HIDE DEF l
  <2>2. /\ SubSeq(q, 1, l - 1) \in Seq(CallSet)
        /\ Len(SubSeq(q, 1, l - 1)) = IF 1 <= l - 1 THEN (l - 1) - 1 + 1 ELSE 0
        /\ \A k \in 1 .. (l - 1) - 1 + 1 : SubSeq(q, 1, l - 1)[k] = q[1 + k - 1]
    BY <2>1, SubSeqProperties
  <2>3. r = SubSeq(q, 1, l - 1) /\ l \in Nat \ {0}
    BY <1>2 DEF l
  <2> HIDE DEF r
  <2>4. Len(r) = l - 1 /\ r \in Seq(CallSet) /\ \A k \in 1 .. l - 1 : r[k] = q[k]
    BY <2>2, <2>3
  <2> QED
    BY <2>4 DEF l
<1>5. calls' = [calls EXCEPT ![f] = r] /\ active' = [active EXCEPT ![f] = b]
  BY DEF Ends, Pop, Dispose, Top
<1>6. locked' \subseteq locked \cup Ids
  <2>1. c.span # 0 => c.span \in Ids
    BY <1>2, <1>3, MessagingAssumption DEF IInv, TypeInv, SpansInv, Ids
  <2> QED
    BY <2>1 DEF Ends, Dispose, Top
<1> HIDE DEF r, b
<1>7. /\ calls'[f] = r /\ active'[f] = b
      /\ \A g \in Flows \ {f} : calls'[g] = calls[g] /\ active'[g] = active[g]
  BY <1>2, <1>5
<1>8. b \in 0 .. n
  <2>1. c.span # 0 => spans[c.span].above \in 0 .. n
    BY <1>2, <1>3 DEF IInv, TypeInv, SpansInv
  <2> QED
    BY <1>2, <2>1 DEF b
<1>9. ASSUME NEW g \in Flows, NEW k \in 1 .. Len(calls'[g])
      PROVE  k \in 1 .. Len(calls[g]) /\ calls'[g][k] = calls[g][k]
  <2>1. CASE g = f
    BY <1>2, <1>4, <1>7, <2>1
  <2>2. CASE g # f
    BY <1>7, <2>2
  <2> QED
    BY <2>1, <2>2
<1>10. CallsInv'
  <2>1. calls' \in [Flows -> Seq(CallSet)] /\ active' \in [Flows -> 0 .. n]
    BY <1>2, <1>4, <1>5, <1>8
  <2>2. ASSUME NEW g \in Flows
        PROVE  Len(calls'[g]) <= MaxDepth
    <3>1. Len(calls[f]) <= MaxDepth
      BY DEF IInv, TypeInv, CallsInv
    <3>2. CASE g = f
      BY <1>2, <1>4, <1>7, <3>1, <3>2, MessagingAssumption
    <3>3. CASE g # f
      BY <1>7, <3>3 DEF IInv, TypeInv, CallsInv
    <3> QED
      BY <3>2, <3>3
  <2>3. \A g \in Flows : \A k \in 1 .. Len(calls'[g]) :
            calls'[g][k].span <= n /\ calls'[g][k].from <= n
    BY <1>9 DEF IInv, TypeInv, CallsInv
  <2> QED
    BY <1>1, <2>1, <2>2, <2>3 DEF CallsInv
<1>11. /\ queue' \subseteq Messages
       /\ \A m \in queue' : m.from <= n /\ (m.from # 0 => Carries(propagator, spans, m.headers, m.from))
  <2>1. CASE queue' = queue
    BY <2>1 DEF IInv, TypeInv, QueueInv, QueueSent
  <2>2. CASE /\ c.kind \in {"publish", "produce"}
             /\ queue' = queue \cup {[headers |-> c.headers, from |-> c.from]}
    <3>1. CallSends(propagator, spans, leaked, f, c)
      BY <1>2 DEF IInv, SentInv
    <3>2. c.from # 0 => Carries(propagator, spans, c.headers, c.from)
      BY <2>2, <3>1 DEF CallSends
    <3>3. c.headers \in Headers /\ c.from \in Nat /\ c.from <= n
      BY <1>2, <1>3 DEF CallSet
    <3> DEFINE m == [headers |-> c.headers, from |-> c.from]
    <3>4. m \in Messages /\ m.headers = c.headers /\ m.from = c.from
      BY <3>3 DEF Messages
    <3> HIDE DEF m
    <3>5. queue' = queue \cup {m}
      BY <2>2 DEF m
    <3> QED
      BY <3>2, <3>3, <3>4, <3>5 DEF IInv, TypeInv, QueueInv, QueueSent
  <2> QED
    BY <2>1, <2>2 DEF Ends, Top
<1>12. TypeInv'
  <2>1. QueueInv'
    BY <1>1, <1>11 DEF QueueInv
  <2>2. SpansInv' /\ PriorityInv' /\ SetsInv'
    BY <1>1, <1>6 DEF IInv, TypeInv, SpansInv, PriorityInv, SetsInv, Ids
  <2> QED
    BY <1>10, <2>1, <2>2 DEF TypeInv
<1>13. FlowInv'
  <2>1. ASSUME NEW g \in Flows
        PROVE  FlowOK(spans, leaked, g, calls'[g], active'[g])
    <3>1. FlowOK(spans, leaked, g, calls[g], active[g])
      BY DEF IInv, FlowInv
    <3>2. Typed(spans, calls[g]) /\ active[g] \in 0 .. n
      BY FlowTyped DEF IInv
    <3>3. CASE g = f
      <4>1. FlowOK(spans, leaked, f, r, b)
        BY <1>2, <3>1, <3>2, <3>3, FlowEnds DEF r, b
      <4> QED
        BY <1>7, <3>3, <4>1
    <3>4. CASE g # f
      BY <1>7, <3>1, <3>4
    <3> QED
      BY <3>3, <3>4
  <2> QED
    BY <1>1, <2>1 DEF FlowInv
<1>14. SentInv'
  <2>1. \A g \in Flows : \A k \in 1 .. Len(calls'[g]) :
            CallSends(propagator, spans, leaked, g, calls'[g][k])
    BY <1>9 DEF IInv, SentInv
  <2> QED
    BY <1>1, <2>1 DEF SentInv
<1>15. QueueSent' /\ Received'
  BY <1>1, <1>11 DEF IInv, QueueSent, Received
<1> QED
  BY <1>12, <1>13, <1>14, <1>15 DEF IInv

-----------------------------------------------------------------------------
(***************************************************************************)
(* Every step has one of these shapes.                                     *)
(***************************************************************************)

\* No headers are headers too.
LEMMA NoHeadersTyped == NoHeaders \in Headers
<1>1. <<>> \in Seq(Int \cup {Malformed} \cup (Int \X Int)) /\ <<>> \in Seq(Int \cup {Malformed})
      /\ <<>> \in Seq({Malformed} \cup (Int \X Int))
  OBVIOUS
<1>2. \A n \in Names : NoHeaders[n] = <<>>
  BY DEF NoHeaders
<1>3. NoHeaders \in [Names -> Seq(Int \cup {Malformed} \cup (Int \X Int))]
  BY <1>1 DEF NoHeaders
<1>4. "traceparent" \in Names
  BY DEF Names
<1> QED
  BY <1>1, <1>2, <1>3, <1>4 DEF Headers

\* What the application gives a message are headers.
LEMMA GivenTyped == TypeInv => Given \subseteq Headers
  BY NoHeadersTyped DEF TypeInv, QueueInv, Messages, Given

\* The application's spans are opened by calls of their own.
LEMMA AppStartsOpens ==
    ASSUME IInv, NEW f \in Flows, AppStarts(f)
    PROVE  \E s \in SpanSet, c \in CallSet : Opens(f, s, c)
<1> DEFINE s == NewSpan(f, Null, "app", 0)
           c == [kind |-> "app", span |-> Next_, from |-> 0, bare |-> FALSE,
                 headers |-> NoHeaders]
<1>1. Len(spans) \in Nat /\ Next_ = Len(spans) + 1
  BY DEF IInv, TypeInv, SpansInv, Next_
<1>2. s \in NewSpans(f) /\ s.kind = "app" /\ s.from = 0
  <2>1. 0 \in 0 .. Len(spans)
    BY <1>1
  <2>2. TypeInv
    BY DEF IInv
  <2>3. Null \in Context \cup {Null}
    OBVIOUS
  <2>4. "app" \in CallKinds
    BY DEF CallKinds
  <2> QED
    BY <2>1, <2>2, <2>3, <2>4, NewSpanTyped
<1>3. Start(s, Null)
  BY DEF AppStarts
<1> HIDE DEF s
<1>4. Grows(s) /\ SpansInv' /\ PriorityInv'
  BY <1>2, <1>3, StartGrows DEF IInv
<1>5. SetsInv'
  BY DEF AppStarts, IInv, TypeInv, SetsInv, Ids
<1>6. s \in SpanSet /\ s.above = active[f]
  BY <1>2 DEF NewSpans
<1>7. c \in CallSet
  BY <1>1, NoHeadersTyped DEF CallSet, CallKinds
<1>8. CallSends(propagator, spans', leaked, f, c) /\ SpanReceives(spans, s)
  BY <1>2 DEF CallSends, SpanReceives
<1>9. Opens(f, s, c)
  BY <1>1, <1>2, <1>4, <1>5, <1>6, <1>8 DEF Opens, AppStarts
<1> QED
  BY <1>6, <1>7, <1>9

\* What is sent with a message is its sender's context, whatever was there.
LEMMA SendOpens ==
    ASSUME IInv, NEW f \in Flows, NEW kind \in {"publish", "produce"}, NEW h \in Headers,
           Send(f, kind, h), UNCHANGED <<propagator, queue, leaked, exempt>>,
           kind = "produce" => ~ AlreadyInstrumented(f)
    PROVE  \E s \in SpanSet, c \in CallSet : Opens(f, s, c)
<1> DEFINE s == NewSpan(f, Null, kind, 0)
           x == ContextOf(s, Next_)
           headers == Inject(propagator, x, h)
           c == [kind |-> kind, span |-> Next_, from |-> Next_, bare |-> FALSE, headers |-> headers]
<1>1. Len(spans) \in Nat /\ Next_ = Len(spans) + 1
  BY DEF IInv, TypeInv, SpansInv, Next_
<1>2. s \in NewSpans(f) /\ s.kind = kind /\ s.from = 0
  <2>1. 0 \in 0 .. Len(spans)
    BY <1>1
  <2>2. TypeInv
    BY DEF IInv
  <2>3. Null \in Context \cup {Null}
    OBVIOUS
  <2>4. kind \in CallKinds
    BY DEF CallKinds
  <2> QED
    BY <2>1, <2>2, <2>3, <2>4, NewSpanTyped
<1>3. Start(s, Null) /\ locked' = locked \cup {s.local}
      /\ Push(f, c) /\ active' = [active EXCEPT ![f] = Next_]
  BY DEF Send
<1> HIDE DEF s
<1>4. Grows(s) /\ SpansInv' /\ PriorityInv' /\ priority'[s.local] \in Priorities /\ s.local \in Ids
  BY <1>2, <1>3, StartGrows DEF IInv
<1>5. SetsInv'
  BY <1>3, <1>4 DEF IInv, TypeInv, SetsInv, Ids
<1>6. s \in SpanSet /\ s.above = active[f]
  BY <1>2 DEF NewSpans
<1>7. x \in Local /\ x.trace = s.trace /\ x.span = Next_
  BY <1>1, <1>4, <1>6 DEF ContextOf, Local, SpanSet
<1>8. propagator \in {"B3", "W3C"}
  BY DEF IInv, TypeInv, SetsInv
<1> HIDE DEF x
<1>9. headers \in Headers /\ Carries(propagator, spans', headers, Next_)
  <2>1. spans'[Next_] = s
    BY <1>1, <1>4 DEF Grows
  <2> QED
    BY <1>7, <1>8, <2>1, RoundTrip DEF Carries
<1> HIDE DEF headers
<1>10. c \in CallSet
  BY <1>1, <1>9 DEF CallSet, CallKinds
<1>11. CallSends(propagator, spans', leaked, f, c) /\ SpanReceives(spans, s)
  BY <1>1, <1>2, <1>9 DEF CallSends, SpanReceives
<1>12. Opens(f, s, c)
  BY <1>1, <1>2, <1>3, <1>4, <1>5, <1>6, <1>11 DEF Opens
<1> QED
  BY <1>6, <1>10, <1>12

\* A message in which nothing can be put goes as it is.
LEMMA SendBareOpens ==
    ASSUME IInv, NEW f \in Flows, NEW kind \in {"publish", "produce"}, NEW h \in Headers,
           SendBare(f, kind, h), UNCHANGED <<propagator, queue, leaked, exempt>>,
           kind = "produce" => ~ AlreadyInstrumented(f)
    PROVE  \E s \in SpanSet, c \in CallSet : Opens(f, s, c)
<1> DEFINE s == NewSpan(f, Null, kind, 0)
           c == [kind |-> kind, span |-> Next_, from |-> 0, bare |-> TRUE, headers |-> h]
<1>1. Len(spans) \in Nat /\ Next_ = Len(spans) + 1
  BY DEF IInv, TypeInv, SpansInv, Next_
<1>2. s \in NewSpans(f) /\ s.kind = kind /\ s.from = 0
  <2>1. 0 \in 0 .. Len(spans)
    BY <1>1
  <2>2. TypeInv
    BY DEF IInv
  <2>3. Null \in Context \cup {Null}
    OBVIOUS
  <2>4. kind \in CallKinds
    BY DEF CallKinds
  <2> QED
    BY <2>1, <2>2, <2>3, <2>4, NewSpanTyped
<1>3. Start(s, Null) /\ UNCHANGED locked
      /\ Push(f, c) /\ active' = [active EXCEPT ![f] = Next_]
  BY DEF SendBare
<1> HIDE DEF s
<1>4. Grows(s) /\ SpansInv' /\ PriorityInv'
  BY <1>2, <1>3, StartGrows DEF IInv
<1>5. SetsInv'
  BY <1>3 DEF IInv, TypeInv, SetsInv, Ids
<1>6. s \in SpanSet /\ s.above = active[f]
  BY <1>2 DEF NewSpans
<1>7. c \in CallSet
  BY <1>1 DEF CallSet, CallKinds
<1>8. CallSends(propagator, spans', leaked, f, c) /\ SpanReceives(spans, s)
  BY <1>2 DEF CallSends, SpanReceives
<1>9. Opens(f, s, c)
  BY <1>1, <1>2, <1>3, <1>4, <1>5, <1>6, <1>8 DEF Opens
<1> QED
  BY <1>6, <1>7, <1>9

\* A producer that finds a span of a producer's active is inside that call, or
\* beside a scope that was left open: it sends the context it was given.
LEMMA ProduceStep ==
    ASSUME IInv, NEW f \in Flows, Produce(f)
    PROVE  \/ \E s \in SpanSet, c \in CallSet : Opens(f, s, c)
           \/ \E c \in CallSet : Wraps(f, c)
<1> DEFINE q == calls[f]
           wrapped == InCall(f, {"produce"})
<1>1. q \in Seq(CallSet) /\ Len(q) \in Nat /\ Len(spans) \in Nat
  BY FlowTyped DEF IInv
<1>2. wrapped => q # <<>> /\ Len(q) \in 1 .. Len(q) /\ Top(f) = q[Len(q)] /\ Top(f) \in CallSet
                 /\ Top(f).kind = "produce"
  BY <1>1 DEF InCall, Top
<1>3. PICK h \in IF wrapped THEN {Top(f).headers} ELSE Given :
          IF AlreadyInstrumented(f)
          THEN /\ Push(f, [kind |-> "produce", span |-> 0, headers |-> h,
                          from |-> IF wrapped THEN Top(f).from ELSE 0,
                          bare |-> wrapped /\ Top(f).bare])
               /\ UNCHANGED <<spans, priority, locked, active>>
          ELSE \/ Send(f, "produce", h)
               \/ h = NoHeaders /\ SendBare(f, "produce", h)
  BY DEF Produce
<1>4. h \in Headers
  BY <1>2, <1>3, GivenTyped DEF IInv, CallSet
<1>5. CASE ~ AlreadyInstrumented(f)
  BY <1>3, <1>4, <1>5, SendOpens, SendBareOpens DEF Produce
<1>6. CASE AlreadyInstrumented(f)
  <2> DEFINE from == IF wrapped THEN Top(f).from ELSE 0
             bare == wrapped /\ Top(f).bare
             c == [kind |-> "produce", span |-> 0, headers |-> h, from |-> from,
                   bare |-> bare]
  <2>1. Push(f, c) /\ UNCHANGED <<spans, priority, locked, active>>
    BY <1>3, <1>6
  <2>2. from \in Nat /\ from <= Len(spans)
    <3>1. wrapped => Top(f).from \in Nat /\ Top(f).from <= Len(spans)
      BY <1>2 DEF IInv, TypeInv, CallsInv, CallSet
    <3> QED
      BY <1>1, <3>1
  <2>3. CallSends(propagator, spans, leaked, f, c)
    <3>1. CASE wrapped
      <4>1. CallSends(propagator, spans, leaked, f, q[Len(q)])
        BY <1>2, <3>1 DEF IInv, SentInv
      <4>2. /\ h = q[Len(q)].headers /\ from = q[Len(q)].from /\ q[Len(q)].kind = "produce"
            /\ q[Len(q)].bare => bare
        BY <1>2, <1>3, <3>1
      <4>3. /\ c.kind = "produce" /\ c.headers = h /\ c.from = from
            /\ c.bare <=> bare
        OBVIOUS
      <4> HIDE DEF c, from, bare
      <4> QED
        BY <4>1, <4>2, <4>3 DEF CallSends
    <3>2. CASE ~ wrapped
      <4> DEFINE a == active[f]
      <4>1. a # 0 /\ spans[a].kind = "produce"
        BY <1>6 DEF AlreadyInstrumented
      <4>2. Below(spans, leaked, f, q, Len(q), a)
            /\ \A n \in 1 .. Len(q) : Nested(spans, leaked, f, q, n)
        BY DEF IInv, FlowInv, FlowOK
      <4>3. ASSUME NEW k \in 1 .. Len(q), q[k].span = a, \A j \in k + 1 .. Len(q) : q[j].span = 0
            PROVE  FALSE
        <5>1. q[k].kind = "produce"
          BY <4>1, <4>2, <4>3 DEF Nested
        <5>2. k # Len(q) => q[Len(q)].span = 0
          BY <1>1, <4>3
        <5>3. k # Len(q) => q[Len(q)].kind = "produce"
          BY <1>1, <4>2, <5>2 DEF Nested
        <5>4. q[Len(q)].kind = "produce" /\ q # <<>>
          BY <1>1, <5>1, <5>3
        <5> QED
          BY <3>2, <5>4 DEF InCall, Top
      <4>4. f \in leaked
        BY <4>1, <4>2, <4>3 DEF Below
      <4>5. c.from = 0
        BY <3>2
      <4> QED
        BY <4>4, <4>5 DEF CallSends
    <3> QED
      BY <3>1, <3>2
  <2>4. c \in CallSet
    <3>1. bare \in BOOLEAN
      BY <1>2 DEF CallSet
    <3> HIDE DEF bare, from
    <3> QED
      BY <1>4, <2>2, <3>1 DEF CallSet, CallKinds
  <2>5. Wraps(f, c)
    <3> HIDE DEF from, bare
    <3>1. c.span = 0 /\ c.kind = "produce" /\ c.from = from
      OBVIOUS
    <3> QED
      BY <2>1, <2>2, <2>3, <3>1 DEF Wraps, Produce
  <2> QED
    BY <2>4, <2>5
<1> QED
  BY <1>5, <1>6

\* The span that receives a message: its parent is the span that sent it.
LEMMA ReceiveStarts ==
    ASSUME IInv, NEW f \in Flows, NEW m \in queue, NEW kind \in CallKinds,
           Receive(f, m, Extract(propagator, m.headers), kind)
    PROVE  LET s == NewSpan(f, Extract(propagator, m.headers), kind, m.from) IN
           /\ SpansInv' /\ PriorityInv' /\ Grows(s) /\ s \in SpanSet
           /\ s.above = active[f] /\ s.kind = kind
           /\ SpanReceives(spans, s) /\ s.from <= Len(spans) /\ exempt' \subseteq Ids
           /\ Next_ \in Ids
<1> DEFINE p == Extract(propagator, m.headers)
           s == NewSpan(f, p, kind, m.from)
<1>1. m.headers \in Headers /\ m.from \in 0 .. Len(spans)
  <2>1. Len(spans) \in Nat /\ m.from \in Nat /\ m.from <= Len(spans)
    BY DEF IInv, TypeInv, SpansInv, QueueInv, Messages
  <2> QED
    BY <2>1 DEF IInv, TypeInv, QueueInv, Messages
<1>2. p \in Context \cup {Null}
  BY <1>1, ExtractTyped DEF IInv, TypeInv, SetsInv
<1>3. s \in NewSpans(f) /\ s.kind = kind /\ s.from = m.from
  BY <1>1, <1>2, NewSpanTyped DEF IInv
<1>4. SpanReceives(spans, s)
  <2>1. m.from # 0 => p # Null /\ p.trace = spans[m.from].trace /\ p.span = m.from
    BY DEF IInv, QueueSent, Carries
  <2>2. p # Null => s.trace = p.trace /\ s.parent = p.span
    BY DEF NewSpan
  <2> HIDE DEF p, s
  <2> QED
    BY <1>3, <2>1, <2>2 DEF SpanReceives
<1>5. Start(s, p) /\ exempt' = IF PriorityCame(m, p) THEN exempt ELSE exempt \cup {s.local}
  BY DEF Receive
<1> HIDE DEF p, s
<1>6. Grows(s) /\ SpansInv' /\ PriorityInv' /\ s.local \in Ids /\ Next_ \in Ids
  BY <1>2, <1>3, <1>5, StartGrows DEF IInv
<1>7. s \in SpanSet /\ s.above = active[f]
  BY <1>3 DEF NewSpans
<1>8. exempt' \subseteq Ids
  BY <1>5, <1>6 DEF IInv, TypeInv, SetsInv
<1> QED
  BY <1>1, <1>3, <1>4, <1>6, <1>7, <1>8 DEF p, s

\* BasicDeliver runs its handler inside a span.
LEMMA DeliverOpens ==
    ASSUME IInv, NEW f \in Flows, NEW m \in queue, BasicDeliver(f, m)
    PROVE  \E s \in SpanSet, c \in CallSet : Opens(f, s, c)
<1> DEFINE s == NewSpan(f, Extract(propagator, m.headers), "receive", m.from)
           c == [kind |-> "receive", span |-> Next_, from |-> 0, bare |-> FALSE,
                 headers |-> NoHeaders]
<1>1. Len(spans) \in Nat /\ Next_ = Len(spans) + 1
  BY DEF IInv, TypeInv, SpansInv, Next_
<1>2. Receive(f, m, Extract(propagator, m.headers), "receive") /\ "receive" \in CallKinds
  BY DEF BasicDeliver, CallKinds
<1>3. /\ SpansInv' /\ PriorityInv' /\ Grows(s) /\ s \in SpanSet
      /\ s.above = active[f] /\ s.kind = "receive"
      /\ SpanReceives(spans, s) /\ s.from <= Len(spans) /\ exempt' \subseteq Ids
  BY <1>2, ReceiveStarts
<1> HIDE DEF s
<1>4. SetsInv'
  BY <1>3 DEF BasicDeliver, IInv, TypeInv, SetsInv, Ids
<1>5. c \in CallSet
  BY <1>1, NoHeadersTyped DEF CallSet, CallKinds
<1>6. CallSends(propagator, spans', leaked, f, c)
  BY DEF CallSends
<1>7. Opens(f, s, c)
  BY <1>1, <1>3, <1>4, <1>6 DEF Opens, BasicDeliver
<1> QED
  BY <1>3, <1>5, <1>7

\* BasicGet and Consume close their span at once.
LEMMA PullBeside ==
    ASSUME IInv, NEW f \in Flows, NEW m \in queue, Pull(f, m)
    PROVE  \E s \in SpanSet : Beside(f, s)
<1> DEFINE s == NewSpan(f, Extract(propagator, m.headers), "receive", m.from)
<1>1. Receive(f, m, Extract(propagator, m.headers), "receive") /\ "receive" \in CallKinds
  BY DEF Pull, CallKinds
<1>2. /\ SpansInv' /\ PriorityInv' /\ Grows(s) /\ s \in SpanSet
      /\ SpanReceives(spans, s) /\ s.from <= Len(spans) /\ exempt' \subseteq Ids
      /\ Next_ \in Ids
  BY <1>1, ReceiveStarts
<1> HIDE DEF s
<1>3. SetsInv'
  <2>1. locked' \subseteq locked \cup {Next_}
    BY DEF Pull
  <2> QED
    BY <1>2, <2>1 DEF Pull, IInv, TypeInv, SetsInv, Ids
<1>4. Beside(f, s)
  BY <1>2, <1>3 DEF Beside, Pull
<1> QED
  BY <1>2, <1>4

\* A producer that is not built leaves its span open.
LEMMA NotBuiltBeside ==
    ASSUME IInv, NEW f \in Flows, ProduceNotBuilt(f)
    PROVE  \E s \in SpanSet : Beside(f, s)
<1> DEFINE s == NewSpan(f, Null, "produce", 0)
<1>1. Len(spans) \in Nat
  BY DEF IInv, TypeInv, SpansInv
<1>2. s \in NewSpans(f) /\ s.kind = "produce" /\ s.from = 0
  <2>1. 0 \in 0 .. Len(spans)
    BY <1>1
  <2>2. TypeInv
    BY DEF IInv
  <2>3. "produce" \in CallKinds
    BY DEF CallKinds
  <2>4. Null \in Context \cup {Null}
    OBVIOUS
  <2> QED
    BY <2>1, <2>2, <2>3, <2>4, NewSpanTyped
<1>3. Start(s, Null) /\ locked' = locked \cup {s.local}
  BY DEF ProduceNotBuilt
<1> HIDE DEF s
<1>4. Grows(s) /\ SpansInv' /\ PriorityInv' /\ s.local \in Ids
  BY <1>2, <1>3, StartGrows DEF IInv
<1>5. SetsInv'
  BY <1>3, <1>4 DEF ProduceNotBuilt, IInv, TypeInv, SetsInv, Ids
<1>6. s \in SpanSet
  BY <1>2 DEF NewSpans
<1>7. SpanReceives(spans, s) /\ s.from <= Len(spans)
  BY <1>1, <1>2 DEF SpanReceives
<1>8. Beside(f, s)
  BY <1>2, <1>4, <1>5, <1>7 DEF Beside, ProduceNotBuilt
<1> QED
  BY <1>6, <1>8

\* A tag changes priorities only.
LEMMA SetPriorityKeeps ==
    ASSUME IInv, NEW f \in Flows, NEW v \in {UserReject, UserKeep}, SetPriority(f, v)
    PROVE  IInv'
<1> DEFINE a == active[f]
           l == spans[a].local
<1>1. a \in 1 .. Len(spans) /\ l \in Ids /\ l \in Int
  BY MessagingAssumption DEF SetPriority, IInv, TypeInv, CallsInv, SpansInv, Ids
<1>2. priority' = [priority EXCEPT ![l] = v] /\ v \in Priorities /\ exempt' \subseteq exempt \cup {l}
  BY DEF SetPriority, Priorities
<1>3. UNCHANGED <<propagator, spans, locked, active, calls, queue, leaked>>
  BY DEF SetPriority
<1> HIDE DEF l
<1>4. PriorityInv'
  <2>1. priority' \in [Ids -> Priorities \cup {Null}]
    BY <1>1, <1>2 DEF IInv, TypeInv, PriorityInv
  <2>2. ASSUME NEW i \in 1 .. Len(spans)
        PROVE  priority'[spans[i].local] \in Priorities
    <3>1. priority[spans[i].local] \in Priorities
      BY DEF IInv, TypeInv, PriorityInv
    <3>2. spans[i].local \in Ids
      BY MessagingAssumption DEF IInv, TypeInv, SpansInv, Ids
    <3> QED
      BY <1>2, <3>1, <3>2 DEF IInv, TypeInv, PriorityInv
  <2> QED
    BY <1>3, <2>1, <2>2 DEF PriorityInv, Ids
<1>5. TypeInv'
  <2>1. SpansInv' /\ CallsInv' /\ QueueInv'
    BY <1>3 DEF IInv, TypeInv, SpansInv, CallsInv, QueueInv
  <2>2. SetsInv'
    BY <1>1, <1>2, <1>3 DEF IInv, TypeInv, SetsInv, Ids
  <2> QED
    BY <1>4, <2>1, <2>2 DEF TypeInv
<1>6. FlowInv' /\ SentInv' /\ QueueSent' /\ Received'
  BY <1>3 DEF IInv, FlowInv, SentInv, QueueSent, Received
<1> QED
  BY <1>5, <1>6 DEF IInv

\* One step.
LEMMA StepKeeps == IInv /\ [Next]_vars => IInv'
<1> SUFFICES ASSUME IInv, [Next]_vars
             PROVE  IInv'
  OBVIOUS
<1>1. CASE UNCHANGED vars
  BY <1>1 DEF vars, IInv, TypeInv, SpansInv, PriorityInv, CallsInv, QueueInv, SetsInv, Ids,
              FlowInv, SentInv, QueueSent, Received
<1>2. ASSUME NEW f \in Flows, AppStarts(f)
      PROVE  IInv'
  BY <1>2, AppStartsOpens, OpensKeeps
<1>3. ASSUME NEW f \in Flows, AppEnds(f)
      PROVE  IInv'
  <2>1. Ends(f)
    BY <1>3 DEF AppEnds, InCall, Ends
  <2> QED
    BY <2>1, EndsKeeps
<1>4. ASSUME NEW f \in Flows, NEW v \in {UserReject, UserKeep}, SetPriority(f, v)
      PROVE  IInv'
  BY <1>4, SetPriorityKeeps
<1>5. ASSUME NEW f \in Flows, BasicPublish(f)
      PROVE  IInv'
  <2>1. PICK h \in Given : Send(f, "publish", h) \/ SendBare(f, "publish", h)
    BY <1>5 DEF BasicPublish
  <2>2. h \in Headers
    BY GivenTyped DEF IInv
  <2>3. "publish" \in {"publish", "produce"} /\ "publish" # "produce"
        /\ UNCHANGED <<propagator, queue, leaked, exempt>>
    BY <1>5 DEF BasicPublish
  <2>4. \E s \in SpanSet, c \in CallSet : Opens(f, s, c)
    BY <2>1, <2>2, <2>3, SendOpens, SendBareOpens
  <2> QED
    BY <2>4, OpensKeeps
<1>6. ASSUME NEW f \in Flows, Produce(f)
      PROVE  IInv'
  BY <1>6, ProduceStep, OpensKeeps, WrapsKeeps
<1>7. ASSUME NEW f \in Flows, ProduceNotBuilt(f)
      PROVE  IInv'
  BY <1>7, NotBuiltBeside, BesideKeeps
<1>8. ASSUME NEW f \in Flows, SendReturns(f)
      PROVE  IInv'
  <2>1. Ends(f)
    BY <1>8 DEF SendReturns, InCall, Ends
  <2> QED
    BY <2>1, EndsKeeps
<1>9. ASSUME NEW f \in Flows, DeliverReturns(f)
      PROVE  IInv'
  <2>1. Ends(f)
    BY <1>9 DEF DeliverReturns, InCall, Ends
  <2> QED
    BY <2>1, EndsKeeps
<1>10. ASSUME NEW f \in Flows, NEW m \in queue, BasicDeliver(f, m)
       PROVE  IInv'
  BY <1>10, DeliverOpens, OpensKeeps
<1>11. ASSUME NEW f \in Flows, NEW m \in queue, BasicGet(f, m) \/ Consume(f, m)
       PROVE  IInv'
  <2>1. Pull(f, m)
    BY <1>11 DEF BasicGet, Consume
  <2>2. \E s \in SpanSet : Beside(f, s)
    BY <2>1, PullBeside
  <2> QED
    BY <2>2, BesideKeeps
<1> QED
  BY <1>1, <1>2, <1>3, <1>4, <1>5, <1>6, <1>7, <1>8, <1>9, <1>10, <1>11 DEF Next

\* The flows, the headers and the spans stay as described above.
THEOREM InvariantHolds == Spec => []IInv
<1>1. Init => IInv
  BY Start0
<1>2. IInv /\ [Next]_vars => IInv'
  BY StepKeeps
<1> QED
  BY <1>1, <1>2, PTL DEF Spec

-----------------------------------------------------------------------------
(***************************************************************************)
(* The sampling decision: who knows of it, and from whom.                  *)
(***************************************************************************)

\* Two priorities keep the trace, or neither does.
Alike(v, w) == v >= AutoKeep <=> w >= AutoKeep

\* What headers say of the decision in trace t is v.
Says(kind, h, t, v) ==
    LET p == Extract(kind, h) IN
    p # Null /\ p.trace = t /\ OnePriority(h, p) => Alike(p.priority, v)

\* A trace context is that of its first span, which is in its trace.
LocalsInv ==
    \A i \in 1 .. Len(spans) :
        LET l == spans[i].local IN spans[l].local = l /\ spans[l].trace = spans[i].trace

\* A trace that starts here was sent on with its priority locked before a
\* second service is in it.
TracesInv ==
    \A i \in 1 .. Len(spans) :
        LET t == spans[i].trace IN
        t \in Ids => t <= Len(spans) /\ (spans[i].local = t \/ t \in locked)

\* The services of a trace that follow what they were sent agree with each
\* other, and with the foreign senders they have it from.
AgreeInv ==
    \A i, j \in 1 .. Len(spans) :
        /\ spans[i].trace = spans[j].trace
        /\ spans[i].local \notin exempt /\ spans[j].local \notin exempt
        => Alike(priority[spans[i].local], priority[spans[j].local])

ForeignInv ==
    \A i \in 1 .. Len(spans), h \in Foreign :
        spans[i].local \notin exempt
        => Says(propagator, h, spans[i].trace, priority[spans[i].local])

\* A sender's headers say what it decided, and its decision is locked; headers
\* of no sender are a foreign sender's, or those of a message that has one.
Told(h, x) ==
    /\ spans[x].local \in locked
    /\ Says(propagator, h, spans[x].trace, priority[spans[x].local])
Sourced(h) == h \in Foreign \cup {NoHeaders} \/ \E n \in queue : n.from # 0 /\ n.headers = h
Tells(h, x) == IF x = 0 THEN Sourced(h) ELSE Told(h, x)

CallsTell == \A f \in Flows : \A n \in 1 .. Len(calls[f]) :
                 Tells(calls[f][n].headers, calls[f][n].from)
QueueTells == \A m \in queue : Tells(m.headers, m.from)

\* The inductive invariant of the decision.
DInv == LocalsInv /\ TracesInv /\ AgreeInv /\ ForeignInv /\ CallsTell /\ QueueTells

\* Headers without a value bring no context.
LEMMA NothingExtracted == ASSUME NEW kind \in {"B3", "W3C"} PROVE Extract(kind, NoHeaders) = Null
<1>1. \A n \in Names : NoHeaders[n] = <<>>
  BY DEF NoHeaders
<1>2. NoHeaders["traceid"] = <<>> /\ NoHeaders["traceparent"] = <<>>
  BY <1>1 DEF Names
<1>3. FirstId(<<>>) = 0
  BY DEF FirstId
<1> QED
  BY <1>2, <1>3 DEF Extract, B3Extract, W3CExtract

\* What Inject puts beside the ids.
LEMMA PutBeside ==
    ASSUME NEW c \in Local, NEW h \in Headers
    PROVE  \E d \in Headers :
              B3Inject(c, h) = IF c.priority = Null THEN d
                               ELSE Put(d, GetSamplingHeader(c.priority).name,
                                           GetSamplingHeader(c.priority).value)
<1> DEFINE a == Put(h, "traceid", c.trace)
           b == Put(a, "spanid", c.span)
           e == Put(b, "parentid", c.parent)
           d == IF c.parent = 0 THEN b ELSE e
<1>1. c.trace \in Int /\ c.span \in Int /\ c.parent \in Int
  BY DEF Local
<1>2. {"traceid", "spanid", "parentid"} \subseteq Names \ {"traceparent"}
  BY DEF Names
<1>3. a \in Headers
  BY <1>1, <1>2, PutTyped
<1>4. b \in Headers
  <2> HIDE DEF a
  <2> QED
    BY <1>1, <1>2, <1>3, PutTyped
<1>5. e \in Headers
  <2> HIDE DEF b
  <2> QED
    BY <1>1, <1>2, <1>4, PutTyped
<1>6. d \in Headers
  <2> HIDE DEF b, e
  <2> QED
    BY <1>4, <1>5
<1>7. B3Inject(c, h) = IF c.priority = Null THEN d
                       ELSE Put(d, GetSamplingHeader(c.priority).name,
                                   GetSamplingHeader(c.priority).value)
  BY DEF B3Inject
<1> HIDE DEF d
<1> QED
  BY <1>6, <1>7

\* The decision that Inject sends is the one that Extract reads.
LEMMA PriorityRoundTrip ==
    ASSUME NEW kind \in {"B3", "W3C"}, NEW c \in Local, c.priority \in Priorities,
           NEW h \in Headers
    PROVE  Says(kind, Inject(kind, c, h), c.trace, c.priority)
<1> DEFINE g == Inject(kind, c, h)
           p == Extract(kind, g)
<1>1. CASE kind = "W3C"
  <2>1. p # Null => p.priority = Null
    BY <1>1 DEF Extract, W3CExtract
  <2> QED
    BY <2>1 DEF Says, OnePriority
<1>2. CASE kind = "B3"
  <2> DEFINE name == GetSamplingHeader(c.priority).name
             value == GetSamplingHeader(c.priority).value
  <2>1. c.priority # Null
    BY PrioritiesAreInts
  <2>2. PICK d \in Headers : g = Put(d, name, value)
    BY <1>2, <2>1, PutBeside DEF Inject
  <2>3. /\ name = IF c.priority = UserKeep THEN "flags" ELSE "sampled"
        /\ value = IF c.priority < AutoKeep THEN 0 ELSE 1
    BY DEF GetSamplingHeader
  <2> HIDE DEF name, value
  <2>4. g[name] = <<value>>
    <3>1. name \in Names /\ name # "traceparent" /\ value \in Int
      BY <2>3 DEF Names
    <3> QED
      BY <2>2, <3>1, PutTyped
  <2>5. p # Null => p.priority = ParseB3FlagsAndSampled(g)
    BY <1>2 DEF Extract, B3Extract
  <2> HIDE DEF g, p
  <2>6. ASSUME p # Null, OnePriority(g, p)
        PROVE  Alike(p.priority, c.priority)
    <3>1. CASE c.priority = UserKeep
      <4>1. g["flags"] = <<1>>
        BY <2>3, <2>4, <3>1 DEF UserKeep, AutoKeep
      <4>2. Bit(g["flags"]) /\ Head(g["flags"]) = 1
        BY <4>1 DEF Bit
      <4>3. p.priority = UserKeep
        BY <2>5, <2>6, <4>2 DEF ParseB3FlagsAndSampled
      <4> QED
        BY <3>1, <4>3 DEF Alike
    <3>2. CASE c.priority # UserKeep
      <4>1. g["sampled"] = <<value>>
        BY <2>3, <2>4, <3>2
      <4>2. g["flags"] = <<>>
        <5>1. g["flags"] = <<>> \/ g["sampled"] = <<>>
          BY <2>6 DEF OnePriority
        <5>2. <<value>> # <<>>
          OBVIOUS
        <5> QED
          BY <4>1, <5>1, <5>2
      <4>3. ~ Bit(g["flags"])
        BY <4>2 DEF Bit
      <4>4. Bit(g["sampled"]) /\ Head(g["sampled"]) = value
        BY <2>3, <4>1 DEF Bit
      <4>5. p.priority = IF value = 1 THEN AutoKeep ELSE AutoReject
        BY <2>5, <2>6, <4>3, <4>4 DEF ParseB3FlagsAndSampled
      <4> QED
        BY <2>3, <4>5 DEF Alike, AutoKeep, AutoReject, Priorities, UserReject, UserKeep
    <3> QED
      BY <3>1, <3>2
  <2> QED
    BY <2>6 DEF Says, g, p
<1> QED
  BY <1>1, <1>2

\* A new span changes the priority of no trace that was there; one that comes
\* with headers is the new trace context's.
LEMMA StartedPriority ==
    ASSUME TypeInv, NEW f \in Flows, NEW p \in Context \cup {Null},
           NEW s \in NewSpans(f), Start(s, p)
    PROVE  /\ \A i \in 1 .. Len(spans) : priority'[spans[i].local] = priority[spans[i].local]
           /\ s.local = Next_ /\ p # Null /\ p.priority # Null => priority'[s.local] = p.priority
<1> DEFINE n == Len(spans)
<1>1. n \in Nat /\ Next_ = n + 1 /\ Next_ \in Ids
  BY DEF TypeInv, SpansInv, Start, Next_
<1>2. PICK v \in FirstPriority(s, p) : priority' = [priority EXCEPT ![s.local] = v]
  BY DEF Start
<1>3. s.local \in Ids
  <2>1. \A i \in 1 .. n : spans[i].local \in Ids
    BY <1>1, MessagingAssumption DEF TypeInv, SpansInv, Ids
  <2> QED
    BY <1>1, <2>1 DEF NewSpans
<1>4. /\ priority'[s.local] = v
      /\ \A l \in Ids \ {s.local} : priority'[l] = priority[l]
  BY <1>2, <1>3 DEF TypeInv, PriorityInv
<1>5. ASSUME NEW i \in 1 .. n
      PROVE  priority'[spans[i].local] = priority[spans[i].local]
  <2>1. spans[i].local \in Ids /\ spans[i].local # Next_
    BY <1>1, MessagingAssumption DEF TypeInv, SpansInv, Ids
  <2>2. CASE spans[i].local = s.local
    BY <1>2, <1>4, <2>1, <2>2 DEF FirstPriority
  <2>3. CASE spans[i].local # s.local
    BY <1>4, <2>1, <2>3
  <2> QED
    BY <2>2, <2>3
<1>6. s.local = Next_ /\ p # Null /\ p.priority # Null => priority'[s.local] = p.priority
  BY <1>2, <1>4 DEF FirstPriority
<1> QED
  BY <1>5, <1>6

\* A new span is in the trace of another or in one of its own, and its trace
\* context decides as the others of its trace, unless it is exempt.
Follows(s) ==
    /\ locked \subseteq locked' /\ exempt \subseteq exempt' /\ UNCHANGED propagator
    /\ \A i \in 1 .. Len(spans) : priority'[spans[i].local] = priority[spans[i].local]
    /\ \/ s.local = Next_
       \/ \E a \in 1 .. Len(spans) : s.local = spans[a].local /\ s.trace = spans[a].trace
    /\ s.trace \in Ids => s.trace <= Next_ /\ (s.local = s.trace \/ s.trace \in locked')
    /\ s.local \notin exempt' =>
          /\ \A i \in 1 .. Len(spans) :
                spans[i].trace = s.trace /\ spans[i].local \notin exempt
                => Alike(priority[spans[i].local], priority'[s.local])
          /\ \A h \in Foreign : Says(propagator, h, s.trace, priority'[s.local])

\* What is said of the spans and their traces stays true with a span that follows.
LEMMA StartFollows ==
    ASSUME IInv, DInv, NEW s, Grows(s), Follows(s)
    PROVE  LocalsInv' /\ TracesInv' /\ AgreeInv' /\ ForeignInv'
<1> DEFINE n == Len(spans)
<1>1. n \in Nat /\ Next_ = n + 1 /\ Len(spans') = n + 1 /\ spans'[n + 1] = s
      /\ \A i \in 1 .. n : spans'[i] = spans[i]
  BY DEF IInv, TypeInv, SpansInv, Grows, Next_
<1>2. \A i \in 1 .. n + 1 : i \in 1 .. n \/ i = n + 1
  BY <1>1
<1>3. \A i \in 1 .. n : spans[i].local \in 1 .. n
  BY <1>1 DEF IInv, TypeInv, SpansInv
<1>4. LocalsInv'
  <2>1. ASSUME NEW i \in 1 .. n
        PROVE  LET l == spans'[i].local IN
               spans'[l].local = l /\ spans'[l].trace = spans'[i].trace
    BY <1>1, <1>3 DEF DInv, LocalsInv
  <2>2. LET l == s.local IN spans'[l].local = l /\ spans'[l].trace = s.trace
    <3>1. CASE s.local = Next_
      BY <1>1, <3>1
    <3>2. CASE \E a \in 1 .. n : s.local = spans[a].local /\ s.trace = spans[a].trace
      BY <1>1, <2>1, <3>2
    <3> QED
      BY <3>1, <3>2 DEF Follows
  <2> QED
    BY <1>1, <1>2, <2>1, <2>2 DEF LocalsInv
<1>5. TracesInv'
  <2>1. ASSUME NEW i \in 1 .. n + 1, spans'[i].trace \in Ids
        PROVE  /\ spans'[i].trace <= n + 1
               /\ spans'[i].local = spans'[i].trace \/ spans'[i].trace \in locked'
    <3>1. CASE i \in 1 .. n
      <4>1. /\ spans[i].trace <= n
            /\ spans[i].local = spans[i].trace \/ spans[i].trace \in locked
        BY <1>1, <2>1, <3>1 DEF DInv, TracesInv
      <4>2. spans[i].trace \in Int
        BY <1>1, <2>1, <3>1, MessagingAssumption DEF Ids
      <4> QED
        BY <1>1, <3>1, <4>1, <4>2 DEF Follows
    <3>2. CASE i = n + 1
      BY <1>1, <2>1, <3>2 DEF Follows
    <3> QED
      BY <1>2, <3>1, <3>2
  <2> QED
    BY <1>1, <2>1 DEF TracesInv, Ids
<1>6. \A i \in 1 .. n : priority'[spans[i].local] = priority[spans[i].local]
  BY DEF Follows
<1>7. exempt \subseteq exempt' /\ propagator' = propagator
  BY DEF Follows
<1>8. AgreeInv'
  <2>1. ASSUME NEW i \in 1 .. n, NEW j \in 1 .. n,
               spans[i].trace = spans[j].trace,
               spans[i].local \notin exempt', spans[j].local \notin exempt'
        PROVE  Alike(priority'[spans[i].local], priority'[spans[j].local])
    <3>1. Alike(priority[spans[i].local], priority[spans[j].local])
      BY <1>7, <2>1 DEF DInv, AgreeInv
    <3> QED
      BY <1>6, <3>1
  <2>2. ASSUME NEW i \in 1 .. n, spans[i].trace = s.trace,
               spans[i].local \notin exempt', s.local \notin exempt'
        PROVE  Alike(priority'[spans[i].local], priority'[s.local])
    <3>1. Alike(priority[spans[i].local], priority'[s.local])
      BY <1>7, <2>2 DEF Follows
    <3> QED
      BY <1>6, <3>1
  <2>3. \A i, j \in 1 .. n + 1 :
           /\ spans'[i].trace = spans'[j].trace
           /\ spans'[i].local \notin exempt' /\ spans'[j].local \notin exempt'
           => Alike(priority'[spans'[i].local], priority'[spans'[j].local])
    BY <1>1, <1>2, <2>1, <2>2 DEF Alike
  <2> QED
    BY <1>1, <2>3 DEF AgreeInv, Alike
<1>9. ForeignInv'
  <2>1. ASSUME NEW i \in 1 .. n + 1, NEW h \in Foreign, spans'[i].local \notin exempt'
        PROVE  Says(propagator, h, spans'[i].trace, priority'[spans'[i].local])
    <3>1. CASE i \in 1 .. n
      <4>1. Says(propagator, h, spans[i].trace, priority[spans[i].local])
        BY <1>1, <1>7, <2>1, <3>1 DEF DInv, ForeignInv
      <4> QED
        BY <1>1, <1>6, <3>1, <4>1
    <3>2. CASE i = n + 1
      BY <1>1, <2>1, <3>2 DEF Follows
    <3> QED
      BY <1>2, <3>1, <3>2
  <2> QED
    BY <1>1, <1>7, <2>1 DEF ForeignInv, Says, Alike, OnePriority
<1> QED
  BY <1>4, <1>5, <1>8, <1>9

\* What was sent stays what the sender decided: its priority is locked.
LEMMA TellStays ==
    ASSUME Extends(spans, spans'), locked \subseteq locked', queue \subseteq queue',
           UNCHANGED propagator,
           NEW h, NEW x \in 0 .. Len(spans), Len(spans) \in Nat, Tells(h, x),
           x # 0 => priority'[spans[x].local] = priority[spans[x].local]
    PROVE  Tells(h, x)'
<1>1. CASE x = 0
  BY <1>1 DEF Tells, Sourced
<1>2. CASE x # 0
  <2>1. spans'[x] = spans[x]
    BY <1>2 DEF Extends
  <2>2. spans[x].local \in locked'
    BY <1>2 DEF Tells, Told
  <2>3. Says(propagator, h, spans[x].trace, priority[spans[x].local])
    BY <1>2 DEF Tells, Told
  <2> QED
    BY <1>2, <2>1, <2>2, <2>3 DEF Tells, Told, Says, Alike, OnePriority
<1> QED
  BY <1>1, <1>2

\* So it is for all that is in the queue or on its way there.
LEMMA AllTellStays ==
    ASSUME IInv, DInv, Extends(spans, spans'), locked \subseteq locked', queue \subseteq queue',
           UNCHANGED propagator,
           \A i \in 1 .. Len(spans) :
               spans[i].local \in locked => priority'[spans[i].local] = priority[spans[i].local]
    PROVE  /\ \A m \in queue : \A h, x : h = m.headers /\ x = m.from => Tells(h, x)'
           /\ \A g \in Flows : \A k \in 1 .. Len(calls[g]) :
                 \A h, x : h = calls[g][k].headers /\ x = calls[g][k].from => Tells(h, x)'
<1>1. Len(spans) \in Nat
  BY DEF IInv, TypeInv, SpansInv
<1>2. ASSUME NEW h, NEW x \in 0 .. Len(spans), Tells(h, x)
      PROVE  Tells(h, x)'
  <2>1. x # 0 => priority'[spans[x].local] = priority[spans[x].local]
    BY <1>1, <1>2 DEF Tells, Told
  <2> QED
    BY <1>1, <1>2, <2>1, TellStays
<1>3. ASSUME NEW m \in queue, NEW h, NEW x, h = m.headers, x = m.from
      PROVE  Tells(h, x)'
  <2>1. x \in 0 .. Len(spans)
    <3>1. m.from \in Nat /\ m.from <= Len(spans)
      BY DEF IInv, TypeInv, QueueInv, Messages
    <3> QED
      BY <1>1, <1>3, <3>1
  <2>2. Tells(h, x)
    BY <1>3 DEF DInv, QueueTells
  <2> QED
    BY <1>2, <2>1, <2>2
<1>4. ASSUME NEW g \in Flows, NEW k \in 1 .. Len(calls[g]), NEW h, NEW x,
             h = calls[g][k].headers, x = calls[g][k].from
      PROVE  Tells(h, x)'
  <2>1. x \in 0 .. Len(spans)
    <3>1. calls[g] \in Seq(CallSet)
      BY DEF IInv, TypeInv, CallsInv
    <3>2. calls[g][k] \in CallSet
      BY <3>1
    <3>3. x \in Nat /\ x <= Len(spans)
      BY <1>4, <3>2 DEF IInv, TypeInv, CallsInv, CallSet
    <3> QED
      BY <1>1, <3>3
  <2>2. Tells(h, x)
    BY <1>4 DEF DInv, CallsTell
  <2> QED
    BY <1>2, <2>1, <2>2
<1> QED
  BY <1>3, <1>4

\* The span that starts under the active one, or a trace of its own.
LEMMA HereFollows ==
    ASSUME IInv, DInv, NEW f \in Flows, NEW kind \in CallKinds, NEW from \in 0 .. Len(spans),
           Start(NewSpan(f, Null, kind, from), Null),
           locked \subseteq locked', UNCHANGED <<propagator, exempt>>
    PROVE  /\ Grows(NewSpan(f, Null, kind, from)) /\ Follows(NewSpan(f, Null, kind, from))
           /\ NewSpan(f, Null, kind, from) \in SpanSet
           /\ priority'[NewSpan(f, Null, kind, from).local] \in Priorities
<1> DEFINE s == NewSpan(f, Null, kind, from)
           n == Len(spans)
           a == active[f]
<1>1. n \in Nat /\ Next_ = n + 1 /\ a \in 0 .. n /\ Next_ \in Ids
  BY DEF IInv, TypeInv, SpansInv, CallsInv, Start, Next_
<1>2. /\ s.trace = IF a # 0 THEN spans[a].trace ELSE Next_
      /\ s.local = IF a # 0 THEN spans[a].local ELSE Next_
  BY DEF NewSpan
<1>3. s \in NewSpans(f)
  BY NewSpanTyped DEF IInv
<1> HIDE DEF s
<1>4. Grows(s) /\ s \in SpanSet /\ priority'[s.local] \in Priorities
      /\ \A i \in 1 .. n : priority'[spans[i].local] = priority[spans[i].local]
  <2>1. Null \in Context \cup {Null} /\ TypeInv
    BY DEF IInv
  <2>2. Grows(s) /\ priority'[s.local] \in Priorities
    BY <1>3, <2>1, StartGrows DEF s
  <2>3. \A i \in 1 .. n : priority'[spans[i].local] = priority[spans[i].local]
    BY <1>3, <2>1, StartedPriority DEF s
  <2> QED
    BY <1>3, <2>2, <2>3 DEF NewSpans
<1>5. CASE a # 0
  <2>1. a \in 1 .. n /\ s.trace = spans[a].trace /\ s.local = spans[a].local
        /\ priority'[s.local] = priority[spans[a].local]
    BY <1>1, <1>2, <1>4, <1>5
  <2>2. s.trace \in Ids => s.trace <= Next_ /\ (s.local = s.trace \/ s.trace \in locked')
    <3>1. s.trace \in Ids => s.trace <= n /\ (s.local = s.trace \/ s.trace \in locked)
      BY <2>1 DEF DInv, TracesInv
    <3>2. s.trace \in Ids => s.trace \in Int
      BY MessagingAssumption DEF Ids
    <3> QED
      BY <1>1, <3>1, <3>2
  <2>3. ASSUME s.local \notin exempt
        PROVE  /\ \A i \in 1 .. n : spans[i].trace = s.trace /\ spans[i].local \notin exempt
                                    => Alike(priority[spans[i].local], priority'[s.local])
               /\ \A h \in Foreign : Says(propagator, h, s.trace, priority'[s.local])
    <3>1. \A i \in 1 .. n : spans[i].trace = s.trace /\ spans[i].local \notin exempt
                            => Alike(priority[spans[i].local], priority'[s.local])
      BY <2>1, <2>3 DEF DInv, AgreeInv
    <3>2. \A h \in Foreign : Says(propagator, h, s.trace, priority'[s.local])
      BY <2>1, <2>3 DEF DInv, ForeignInv
    <3> QED
      BY <3>1, <3>2
  <2>4. Follows(s)
    BY <1>4, <2>1, <2>2, <2>3 DEF Follows
  <2> QED
    BY <1>4, <2>4 DEF s
<1>6. CASE a = 0
  <2>1. s.trace = Next_ /\ s.local = Next_
    BY <1>2, <1>6
  <2>2. \A i \in 1 .. n : spans[i].trace # s.trace
    BY <1>1, <2>1 DEF DInv, TracesInv
  <2>3. \A h \in Foreign : Says(propagator, h, s.trace, priority'[s.local])
    <3>1. ASSUME NEW h \in Foreign, Extract(propagator, h) # Null
          PROVE  Extract(propagator, h).trace \notin Ids
      BY <3>1, ForeignAssumption DEF IInv, TypeInv, SetsInv
    <3> QED
      BY <1>1, <2>1, <3>1 DEF Says
  <2>4. s.trace <= Next_ /\ s.local = s.trace
    BY <1>1, <2>1
  <2>5. Follows(s)
    BY <1>4, <2>1, <2>2, <2>3, <2>4 DEF Follows
  <2> QED
    BY <1>4, <2>5 DEF s
<1> QED
  BY <1>5, <1>6

\* The span that receives a message decides as its headers say, or is exempt.
LEMMA ReceiverFollows ==
    ASSUME IInv, DInv, NEW f \in Flows, NEW m \in queue, NEW kind \in CallKinds,
           Receive(f, m, Extract(propagator, m.headers), kind),
           locked \subseteq locked', UNCHANGED propagator
    PROVE  LET s == NewSpan(f, Extract(propagator, m.headers), kind, m.from) IN
           Grows(s) /\ Follows(s) /\ s \in SpanSet
<1> DEFINE p == Extract(propagator, m.headers)
           s == NewSpan(f, p, kind, m.from)
           n == Len(spans)
<1>1. n \in Nat /\ Next_ = n + 1 /\ propagator \in {"B3", "W3C"}
      /\ m.headers \in Headers /\ m.from \in 0 .. n
  <2>1. n \in Nat /\ m \in Messages /\ m.from <= n
    BY DEF IInv, TypeInv, SpansInv, QueueInv
  <2> QED
    BY <2>1 DEF IInv, TypeInv, SetsInv, Messages, Next_
<1>2. p \in Context \cup {Null}
  BY <1>1, ExtractTyped
<1>3. Start(s, p) /\ exempt' = IF PriorityCame(m, p) THEN exempt ELSE exempt \cup {s.local}
  BY DEF Receive
<1>4. CASE p = Null
  <2>1. Start(NewSpan(f, Null, kind, m.from), Null) /\ s = NewSpan(f, Null, kind, m.from)
    BY <1>3, <1>4
  <2>2. exempt' = exempt
    BY <1>3, <1>4 DEF PriorityCame
  <2> QED
    BY <1>1, <2>1, <2>2, HereFollows
<1>5. CASE p # Null
  <2>1. s.local = Next_ /\ s.trace = p.trace
    BY <1>5 DEF NewSpan
  <2>2. s \in NewSpans(f)
    BY <1>1, <1>2, NewSpanTyped DEF IInv
  <2> HIDE DEF p, s
  <2>3. /\ Grows(s) /\ s \in SpanSet
        /\ \A i \in 1 .. n : priority'[spans[i].local] = priority[spans[i].local]
        /\ p.priority # Null => priority'[s.local] = p.priority
    <3>1. Grows(s)
      BY <1>2, <1>3, <2>2, StartGrows DEF IInv
    <3>2. /\ \A i \in 1 .. n : priority'[spans[i].local] = priority[spans[i].local]
          /\ s.local = Next_ /\ p # Null /\ p.priority # Null => priority'[s.local] = p.priority
      BY <1>2, <1>3, <2>2, StartedPriority DEF IInv
    <3> QED
      BY <1>5, <2>1, <2>2, <3>1, <3>2 DEF NewSpans
  <2>4. m.headers \in Foreign \/ \E o \in queue : o.from # 0 /\ o.headers = m.headers
    <3>1. CASE m.from = 0
      <4>1. Sourced(m.headers)
        BY <3>1 DEF DInv, QueueTells, Tells
      <4>2. m.headers # NoHeaders
        BY <1>1, <1>5, NothingExtracted DEF p
      <4> QED
        BY <4>1, <4>2 DEF Sourced
    <3>2. CASE m.from # 0
      BY <3>2
    <3> QED
      BY <3>1, <3>2
  <2>5. CASE m.headers \in Foreign
    <3>1. p.trace \notin Ids
      BY <1>1, <1>5, <2>5, ForeignAssumption DEF p
    <3>2. ASSUME s.local \notin exempt'
          PROVE  OnePriority(m.headers, p) /\ priority'[s.local] = p.priority
      <4>1. PriorityCame(m, p)
        BY <1>3, <3>2
      <4>2. OnePriority(m.headers, p)
        BY <1>5, <4>1 DEF PriorityCame
      <4> QED
        BY <2>3, <4>2 DEF OnePriority
    <3>3. ASSUME s.local \notin exempt', NEW i \in 1 .. n,
                 spans[i].trace = s.trace, spans[i].local \notin exempt
          PROVE  Alike(priority[spans[i].local], priority'[s.local])
      <4>1. Says(propagator, m.headers, spans[i].trace, priority[spans[i].local])
        BY <2>5, <3>3 DEF DInv, ForeignInv
      <4>2. Alike(p.priority, priority[spans[i].local])
        BY <1>5, <2>1, <3>2, <3>3, <4>1 DEF Says, p
      <4> QED
        BY <3>2, <3>3, <4>2 DEF Alike
    <3>4. ASSUME s.local \notin exempt', NEW h \in Foreign
          PROVE  Says(propagator, h, s.trace, priority'[s.local])
      <4> DEFINE q == Extract(propagator, h)
      <4>1. q # Null /\ q.trace = p.trace /\ OnePriority(h, q)
            => (p.priority >= AutoKeep <=> q.priority >= AutoKeep)
        BY <1>1, <1>5, <2>5, <3>2, <3>4, ForeignAssumption DEF p
      <4> QED
        BY <2>1, <3>2, <3>4, <4>1 DEF Says, Alike
    <3>5. Follows(s)
      BY <1>3, <2>1, <2>3, <3>1, <3>3, <3>4 DEF Follows
    <3> QED
      BY <2>3, <3>5 DEF s, p
  <2>6. CASE \E o \in queue : o.from # 0 /\ o.headers = m.headers
    <3>1. PICK o \in queue : o.from # 0 /\ o.headers = m.headers
      BY <2>6
    <3> DEFINE x == o.from
    <3>2. x \in 1 .. n
      <4>1. o.from \in Nat /\ o.from <= n
        BY DEF IInv, TypeInv, QueueInv, Messages
      <4> QED
        BY <1>1, <3>1, <4>1
    <3>3. p.trace = spans[x].trace
      BY <3>1 DEF IInv, QueueSent, Carries, p
    <3>4. spans[x].local \in locked
          /\ Says(propagator, m.headers, spans[x].trace, priority[spans[x].local])
      BY <3>1 DEF DInv, QueueTells, Tells, Told
    <3>5. s.trace \in Ids => s.trace <= Next_ /\ s.trace \in locked
      <4>1. s.trace \in Ids => s.trace <= n /\ (spans[x].local = s.trace \/ s.trace \in locked)
        BY <2>1, <3>2, <3>3 DEF DInv, TracesInv
      <4>2. s.trace \in Ids => s.trace \in Int
        BY MessagingAssumption DEF Ids
      <4> QED
        BY <1>1, <3>4, <4>1, <4>2
    <3>6. ASSUME s.local \notin exempt'
          PROVE  /\ spans[x].local \notin exempt
                 /\ Alike(priority'[s.local], priority[spans[x].local])
      <4>1. PriorityCame(m, p)
        BY <1>3, <3>6
      <4>2. OnePriority(m.headers, p) /\ SentByFollower(m.headers)
        BY <1>5, <4>1 DEF PriorityCame
      <4>3. spans[x].local \notin exempt
        BY <3>1, <4>2 DEF SentByFollower
      <4>4. priority'[s.local] = p.priority
        BY <2>3, <4>2 DEF OnePriority
      <4>5. Alike(p.priority, priority[spans[x].local])
        BY <1>5, <3>3, <3>4, <4>2 DEF Says, p
      <4> QED
        BY <4>3, <4>4, <4>5
    <3>7. ASSUME s.local \notin exempt', NEW i \in 1 .. n,
                 spans[i].trace = s.trace, spans[i].local \notin exempt
          PROVE  Alike(priority[spans[i].local], priority'[s.local])
      <4>1. Alike(priority[spans[i].local], priority[spans[x].local])
        BY <2>1, <3>2, <3>3, <3>6, <3>7 DEF DInv, AgreeInv
      <4> QED
        BY <3>6, <3>7, <4>1 DEF Alike
    <3>8. ASSUME s.local \notin exempt', NEW h \in Foreign
          PROVE  Says(propagator, h, s.trace, priority'[s.local])
      <4>1. Says(propagator, h, spans[x].trace, priority[spans[x].local])
        BY <3>2, <3>6, <3>8 DEF DInv, ForeignInv
      <4> QED
        BY <2>1, <3>3, <3>6, <3>8, <4>1 DEF Says, Alike
    <3>9. exempt \subseteq exempt' /\ (s.trace \in Ids => s.trace \in locked')
      BY <1>3, <3>5
    <3>10. Follows(s)
      BY <2>1, <2>3, <3>5, <3>7, <3>8, <3>9 DEF Follows
    <3> QED
      BY <2>3, <3>10 DEF s, p
  <2> QED
    BY <2>4, <2>5, <2>6
<1> QED
  BY <1>4, <1>5

\* A call that opens a span, or wraps another, says what its sender decided.
LEMMA PushTells ==
    ASSUME IInv, DInv, NEW f \in Flows, NEW c, Push(f, c),
           NEW h, NEW x, h = c.headers, x = c.from, Tells(h, x)',
           Extends(spans, spans'), locked \subseteq locked', UNCHANGED <<propagator, queue>>,
           \A i \in 1 .. Len(spans) : priority'[spans[i].local] = priority[spans[i].local]
    PROVE  CallsTell' /\ QueueTells'
<1>1. /\ \A m \in queue : \A g, y : g = m.headers /\ y = m.from => Tells(g, y)'
      /\ \A e \in Flows : \A k \in 1 .. Len(calls[e]) :
            \A g, y : g = calls[e][k].headers /\ y = calls[e][k].from => Tells(g, y)'
  BY AllTellStays
<1>2. /\ calls' = [calls EXCEPT ![f] = Append(calls[f], c)]
      /\ calls \in [Flows -> Seq(CallSet)] /\ Len(calls[f]) \in Nat
  BY DEF Push, IInv, TypeInv, CallsInv
<1>3. /\ calls'[f] = Append(calls[f], c)
      /\ \A g \in Flows \ {f} : calls'[g] = calls[g]
  BY <1>2
<1>4. /\ Len(calls'[f]) = Len(calls[f]) + 1 /\ calls'[f][Len(calls[f]) + 1] = c
      /\ \A k \in 1 .. Len(calls[f]) : calls'[f][k] = calls[f][k]
  <2> DEFINE q == calls[f]
  <2>1. q \in Seq(CallSet) /\ Len(q) \in Nat
    BY <1>2
  <2> HIDE DEF q
  <2>2. Len(Append(q, c)) = Len(q) + 1 /\ Append(q, c)[Len(q) + 1] = c
        /\ \A k \in 1 .. Len(q) : Append(q, c)[k] = q[k]
    BY <2>1
  <2> QED
    BY <1>3, <2>2 DEF q
<1>5. ASSUME NEW e \in Flows, NEW k \in 1 .. Len(calls'[e]), NEW g, NEW y,
             g = calls'[e][k].headers, y = calls'[e][k].from
      PROVE  Tells(g, y)'
  <2>1. CASE e = f /\ k = Len(calls[f]) + 1
    <3>1. g = h /\ y = x
      BY <1>4, <1>5, <2>1
    <3> QED
      BY <3>1
  <2>2. CASE ~ (e = f /\ k = Len(calls[f]) + 1)
    <3>1. k \in 1 .. Len(calls[e]) /\ calls'[e][k] = calls[e][k]
      <4>1. CASE e = f
        <5>1. k \in 1 .. Len(calls[f])
          BY <1>2, <1>4, <2>2, <4>1
        <5> QED
          BY <1>4, <4>1, <5>1
      <4>2. CASE e # f
        BY <1>3, <4>2
      <4> QED
        BY <4>1, <4>2
    <3> QED
      BY <1>1, <1>5, <3>1
  <2> QED
    BY <2>1, <2>2
<1>6. CallsTell'
  BY <1>5 DEF CallsTell
<1>7. QueueTells'
  BY <1>1 DEF QueueTells
<1> QED
  BY <1>6, <1>7

\* A span that follows, and the call that opens it.
LEMMA CallDecides ==
    ASSUME IInv, DInv, NEW f \in Flows, NEW s, Grows(s), Follows(s),
           NEW c, Push(f, c), NEW h, NEW x, h = c.headers, x = c.from, Tells(h, x)',
           UNCHANGED queue
    PROVE  DInv'
<1>1. Extends(spans, spans')
  BY DEF Grows, Extends, IInv, TypeInv, SpansInv
<1>2. CallsTell' /\ QueueTells'
  BY <1>1, PushTells DEF Follows
<1>3. LocalsInv' /\ TracesInv' /\ AgreeInv' /\ ForeignInv'
  BY StartFollows
<1> QED
  BY <1>2, <1>3 DEF DInv

\* A span that follows, beside the calls.
LEMMA BesideDecides ==
    ASSUME IInv, DInv, NEW s, Grows(s), Follows(s), UNCHANGED <<calls, queue>>
    PROVE  DInv'
<1>1. Extends(spans, spans')
  BY DEF Grows, Extends, IInv, TypeInv, SpansInv
<1>2. /\ \A m \in queue : \A h, x : h = m.headers /\ x = m.from => Tells(h, x)'
      /\ \A g \in Flows : \A k \in 1 .. Len(calls[g]) :
            \A h, x : h = calls[g][k].headers /\ x = calls[g][k].from => Tells(h, x)'
  BY <1>1, AllTellStays DEF Follows
<1>3. CallsTell' /\ QueueTells'
  BY <1>2 DEF CallsTell, QueueTells
<1>4. LocalsInv' /\ TracesInv' /\ AgreeInv' /\ ForeignInv'
  BY StartFollows
<1> QED
  BY <1>3, <1>4 DEF DInv

\* Nothing is said by no headers of no sender.
LEMMA NothingTold == Tells(NoHeaders, 0)
  BY DEF Tells, Sourced

\* The application's spans.
LEMMA AppDecides ==
    ASSUME IInv, DInv, NEW f \in Flows, AppStarts(f)
    PROVE  DInv'
<1> DEFINE s == NewSpan(f, Null, "app", 0)
           c == [kind |-> "app", span |-> Next_, from |-> 0, bare |-> FALSE,
                 headers |-> NoHeaders]
<1>1. Start(s, Null) /\ Push(f, c) /\ UNCHANGED <<propagator, locked, queue, exempt>>
  BY DEF AppStarts
<1>2. "app" \in CallKinds /\ 0 \in 0 .. Len(spans)
  BY DEF CallKinds, IInv, TypeInv, SpansInv
<1>3. Grows(s) /\ Follows(s)
  BY <1>1, <1>2, HereFollows
<1>4. Tells(NoHeaders, 0)'
  BY DEF Tells, Sourced
<1>5. c.headers = NoHeaders /\ c.from = 0
  OBVIOUS
<1> HIDE DEF s, c
<1> QED
  BY <1>1, <1>3, <1>4, <1>5, CallDecides

\* What is sent with a message is its sender's decision, locked.
LEMMA SendDecides ==
    ASSUME IInv, DInv, NEW f \in Flows, NEW kind \in {"publish", "produce"}, NEW g \in Headers,
           Send(f, kind, g), UNCHANGED <<propagator, queue, leaked, exempt>>
    PROVE  DInv'
<1> DEFINE s == NewSpan(f, Null, kind, 0)
           x == ContextOf(s, Next_)
           h == Inject(propagator, x, g)
           c == [kind |-> kind, span |-> Next_, from |-> Next_, bare |-> FALSE, headers |-> h]
<1>1. /\ Start(s, Null) /\ Push(f, c) /\ locked' = locked \cup {s.local}
      /\ UNCHANGED <<propagator, queue, exempt>>
  BY DEF Send
<1>2. kind \in CallKinds /\ 0 \in 0 .. Len(spans)
  BY DEF CallKinds, IInv, TypeInv, SpansInv
<1>3. Grows(s) /\ Follows(s) /\ s \in SpanSet /\ priority'[s.local] \in Priorities
  BY <1>1, <1>2, HereFollows
<1>4. Next_ \in Nat \ {0} /\ spans'[Next_] = s
  BY <1>3 DEF Next_, Grows, IInv, TypeInv, SpansInv
<1> HIDE DEF s
<1>5. x \in Local /\ x.trace = s.trace /\ x.priority = priority'[s.local]
      /\ x.priority \in Priorities
  BY <1>3, <1>4 DEF ContextOf, Local, SpanSet
<1> HIDE DEF x
<1>6. Says(propagator, h, s.trace, priority'[s.local])
  <2>1. propagator \in {"B3", "W3C"}
    BY DEF IInv, TypeInv, SetsInv
  <2>2. Says(propagator, Inject(propagator, x, g), x.trace, x.priority)
    BY <1>5, <2>1, PriorityRoundTrip
  <2> QED
    BY <1>5, <2>2
<1> HIDE DEF h
<1>7. c.headers = h /\ c.from = Next_
  OBVIOUS
<1> HIDE DEF c
<1>8. \A y, z : y = h /\ z = Next_ => Tells(y, z)'
  BY <1>1, <1>4, <1>6 DEF Tells, Told, Says, Alike, OnePriority
<1>9. PICK y, z : y = h /\ z = Next_
  OBVIOUS
<1>10. y = c.headers /\ z = c.from /\ Tells(y, z)'
  BY <1>7, <1>8, <1>9
<1> QED
  BY <1>1, <1>3, <1>10, CallDecides

\* What the application gives a message is told by those it got it from.
LEMMA GivenTells ==
    ASSUME DInv, NEW h \in Given
    PROVE  Tells(h, 0)
<1>1. CASE h = NoHeaders
  BY <1>1, NothingTold
<1>2. CASE \E m \in queue : h = m.headers
  <2>1. PICK m \in queue : h = m.headers
    BY <1>2
  <2>2. Tells(m.headers, m.from)
    BY DEF DInv, QueueTells
  <2>3. Sourced(h)
    BY <2>1, <2>2 DEF Tells, Sourced
  <2> QED
    BY <2>3 DEF Tells
<1> QED
  BY <1>1, <1>2 DEF Given

\* What is sent in a message as it was given says what that said.
LEMMA SendBareDecides ==
    ASSUME IInv, DInv, NEW f \in Flows, NEW kind \in {"publish", "produce"}, NEW h \in Given,
           SendBare(f, kind, h), UNCHANGED <<propagator, queue, leaked, exempt>>
    PROVE  DInv'
<1> DEFINE s == NewSpan(f, Null, kind, 0)
           c == [kind |-> kind, span |-> Next_, from |-> 0, bare |-> TRUE, headers |-> h]
<1>1. /\ Start(s, Null) /\ Push(f, c) /\ locked \subseteq locked'
      /\ UNCHANGED <<propagator, queue, exempt>>
  BY DEF SendBare
<1>2. kind \in CallKinds /\ 0 \in 0 .. Len(spans)
  BY DEF CallKinds, IInv, TypeInv, SpansInv
<1>3. Grows(s) /\ Follows(s)
  BY <1>1, <1>2, HereFollows
<1>4. Tells(h, 0)
  BY GivenTells
<1>5. Sourced(h)
  BY <1>4 DEF Tells
<1>6. \A y, z : y = h /\ z = 0 => Tells(y, z)'
  BY <1>1, <1>5 DEF Tells, Sourced
<1>7. c.headers = h /\ c.from = 0
  OBVIOUS
<1> HIDE DEF s, c
<1>8. PICK y, z : y = h /\ z = 0
  OBVIOUS
<1>9. y = c.headers /\ z = c.from /\ Tells(y, z)'
  BY <1>6, <1>7, <1>8
<1> QED
  BY <1>1, <1>3, <1>9, CallDecides

\* A producer that passes on what it got says what that said.
LEMMA ProduceDecides ==
    ASSUME IInv, DInv, NEW f \in Flows, Produce(f)
    PROVE  DInv'
<1> DEFINE q == calls[f]
           wrapped == InCall(f, {"produce"})
           from == IF wrapped THEN Top(f).from ELSE 0
           bare == wrapped /\ Top(f).bare
<1>1. q \in Seq(CallSet) /\ Len(q) \in Nat
  BY FlowTyped DEF IInv
<1>2. wrapped => Len(q) \in 1 .. Len(q) /\ Top(f) = q[Len(q)] /\ Top(f) \in CallSet
  BY <1>1 DEF InCall, Top
<1>3. PICK h \in IF wrapped THEN {Top(f).headers} ELSE Given :
          IF AlreadyInstrumented(f)
          THEN /\ Push(f, [kind |-> "produce", span |-> 0, headers |-> h, from |-> from,
                           bare |-> bare])
               /\ UNCHANGED <<spans, priority, locked, active>>
          ELSE \/ Send(f, "produce", h)
               \/ h = NoHeaders /\ SendBare(f, "produce", h)
  BY DEF Produce
<1>4. UNCHANGED <<propagator, queue, leaked, exempt>>
  BY DEF Produce
<1>5. h \in Headers
  BY <1>2, <1>3, GivenTyped DEF IInv, CallSet
<1>6. CASE ~ AlreadyInstrumented(f)
  <2>1. NoHeaders \in Given
    BY DEF Given
  <2> QED
    BY <1>3, <1>4, <1>5, <1>6, <2>1, SendDecides, SendBareDecides
<1>7. CASE AlreadyInstrumented(f)
  <2> DEFINE c == [kind |-> "produce", span |-> 0, headers |-> h, from |-> from,
                   bare |-> bare]
  <2>1. Push(f, c) /\ UNCHANGED <<spans, priority, locked>>
    BY <1>3, <1>7
  <2>2. Tells(h, from)
    <3>1. CASE wrapped
      <4>1. Tells(q[Len(q)].headers, q[Len(q)].from)
        BY <1>2, <3>1 DEF DInv, CallsTell
      <4>2. h = q[Len(q)].headers /\ from = q[Len(q)].from
        BY <1>2, <1>3, <3>1
      <4> QED
        BY <4>1, <4>2
    <3>2. CASE ~ wrapped
      <4>1. h \in Given /\ from = 0
        BY <1>3, <3>2
      <4> QED
        BY <4>1, GivenTells
    <3> QED
      BY <3>1, <3>2
  <2>3. c.headers = h /\ c.from = from
    OBVIOUS
  <2> HIDE DEF c, from, bare
  <2>4. PICK y, z : y = h /\ z = from
    OBVIOUS
  <2>5. Tells(y, z)
    BY <2>2, <2>4
  <2>6. Tells(y, z)'
    BY <1>4, <2>1, <2>5 DEF Tells, Told, Sourced, Says, Alike, OnePriority
  <2>7. Extends(spans, spans') /\ locked \subseteq locked'
        /\ \A i \in 1 .. Len(spans) : priority'[spans[i].local] = priority[spans[i].local]
    BY <2>1 DEF Extends, IInv, TypeInv, SpansInv
  <2>8. CallsTell' /\ QueueTells'
    BY <1>4, <2>1, <2>3, <2>4, <2>6, <2>7, PushTells
  <2>9. LocalsInv' /\ TracesInv' /\ AgreeInv' /\ ForeignInv'
    BY <1>4, <2>1 DEF DInv, LocalsInv, TracesInv, AgreeInv, ForeignInv, Ids, Says, Alike,
                      OnePriority
  <2> QED
    BY <2>8, <2>9 DEF DInv
<1> QED
  BY <1>6, <1>7

\* The end of a call puts what it said into the queue; what its span decided
\* stays, and may be locked now.
LEMMA EndsDecides ==
    ASSUME IInv, DInv, NEW f \in Flows, Ends(f)
    PROVE  DInv'
<1> DEFINE q == calls[f]
           c == q[Len(q)]
<1>1. /\ UNCHANGED <<propagator, spans, priority, exempt>> /\ locked \subseteq locked'
      /\ queue \subseteq queue'
      /\ queue' = queue \/ queue' = queue \cup {[headers |-> c.headers, from |-> c.from]}
  BY DEF Ends, Dispose, Top
<1>2. /\ calls' = [calls EXCEPT ![f] = SubSeq(q, 1, Len(q) - 1)]
      /\ calls \in [Flows -> Seq(CallSet)] /\ q \in Seq(CallSet) /\ Len(q) \in Nat \ {0}
  BY DEF Ends, Pop, IInv, TypeInv, CallsInv
<1>3. /\ \A m \in queue : \A h, x : h = m.headers /\ x = m.from => Tells(h, x)'
      /\ \A g \in Flows : \A k \in 1 .. Len(calls[g]) :
            \A h, x : h = calls[g][k].headers /\ x = calls[g][k].from => Tells(h, x)'
  <2>1. Extends(spans, spans')
    BY <1>1 DEF Extends, IInv, TypeInv, SpansInv
  <2>2. \A i \in 1 .. Len(spans) : priority'[spans[i].local] = priority[spans[i].local]
    BY <1>1
  <2> QED
    BY <1>1, <2>1, <2>2, AllTellStays
<1>4. QueueTells'
  <2>1. ASSUME NEW m \in queue', NEW h, NEW x, h = m.headers, x = m.from
        PROVE  Tells(h, x)'
    <3>1. CASE m \in queue
      BY <1>3, <2>1, <3>1
    <3>2. CASE m = [headers |-> c.headers, from |-> c.from]
      <4>1. h = c.headers /\ x = c.from /\ Len(q) \in 1 .. Len(q)
        BY <1>2, <2>1, <3>2
      <4> QED
        BY <1>3, <4>1
    <3> QED
      BY <1>1, <3>1, <3>2
  <2> QED
    BY <2>1 DEF QueueTells
<1>5. CallsTell'
  <2>1. ASSUME NEW g \in Flows, NEW k \in 1 .. Len(calls'[g])
        PROVE  k \in 1 .. Len(calls[g]) /\ calls'[g][k] = calls[g][k]
    <3>1. CASE g = f
      <4> DEFINE n == Len(q)
      <4>1. 1 \in Int /\ n - 1 \in Int /\ \A j \in 1 .. n - 1 : q[j] \in CallSet
        BY <1>2
      <4> HIDE DEF n
      <4>2. /\ Len(SubSeq(q, 1, n - 1)) = IF 1 <= n - 1 THEN (n - 1) - 1 + 1 ELSE 0
            /\ \A j \in 1 .. (n - 1) - 1 + 1 : SubSeq(q, 1, n - 1)[j] = q[1 + j - 1]
        BY <4>1, SubSeqProperties
      <4>3. calls'[g] = SubSeq(q, 1, n - 1) /\ n \in Nat \ {0} /\ n = Len(calls[g])
        BY <1>2, <3>1 DEF n
      <4>4. k \in 1 .. n - 1
        BY <4>2, <4>3
      <4>5. calls'[g][k] = q[k]
        BY <4>2, <4>3, <4>4
      <4> QED
        BY <3>1, <4>3, <4>4, <4>5
    <3>2. CASE g # f
      BY <1>2, <3>2
    <3> QED
      BY <3>1, <3>2
  <2>2. ASSUME NEW g \in Flows, NEW k \in 1 .. Len(calls'[g]), NEW h, NEW x,
               h = calls'[g][k].headers, x = calls'[g][k].from
        PROVE  Tells(h, x)'
    BY <1>3, <2>1, <2>2
  <2> QED
    BY <2>2 DEF CallsTell
<1>6. LocalsInv' /\ TracesInv' /\ AgreeInv' /\ ForeignInv'
  <2>1. LocalsInv' /\ TracesInv'
    BY <1>1 DEF DInv, LocalsInv, TracesInv, Ids
  <2>2. AgreeInv' /\ ForeignInv'
    BY <1>1 DEF DInv, AgreeInv, ForeignInv, Says, Alike, OnePriority
  <2> QED
    BY <2>1, <2>2
<1> QED
  BY <1>4, <1>5, <1>6 DEF DInv

\* A priority that is set was not sent yet: the trace is one that starts here
\* and has no other service, or its trace context is exempt.
LEMMA SetPriorityDecides ==
    ASSUME IInv, DInv, NEW f \in Flows, NEW v \in {UserReject, UserKeep}, SetPriority(f, v)
    PROVE  DInv'
<1> DEFINE n == Len(spans)
           a == active[f]
           l == spans[a].local
<1>1. a \in 1 .. n /\ l \in Ids /\ n \in Nat
  BY MessagingAssumption DEF SetPriority, IInv, TypeInv, CallsInv, SpansInv, Ids
<1>2. /\ UNCHANGED <<propagator, spans, locked, active, calls, queue, leaked>>
      /\ l \notin locked /\ priority' = [priority EXCEPT ![l] = v]
      /\ exempt' = IF spans[l].trace # l THEN exempt \cup {l} ELSE exempt
  BY DEF SetPriority
<1>3. ASSUME NEW i \in 1 .. n, spans[i].local = l
      PROVE  spans[i].trace = spans[l].trace
  BY <1>3 DEF DInv, LocalsInv
<1> HIDE DEF l
<1>4. \A i \in 1 .. n : spans[i].local # l => priority'[spans[i].local] = priority[spans[i].local]
  <2>1. \A i \in 1 .. n : spans[i].local \in Ids
    BY MessagingAssumption DEF IInv, TypeInv, SpansInv, Ids
  <2> QED
    BY <1>2, <2>1 DEF IInv, TypeInv, PriorityInv
<1>5. ASSUME NEW i \in 1 .. n, NEW j \in 1 .. n, spans[i].trace = spans[j].trace,
             spans[i].local \notin exempt', spans[i].local = l
      PROVE  spans[j].local = l
  <2>1. spans[l].trace = l
    BY <1>2, <1>5
  <2>2. spans[j].trace = l
    BY <1>3, <1>5, <2>1
  <2> QED
    BY <1>1, <1>2, <2>2 DEF DInv, TracesInv
<1>6. AgreeInv'
  <2>1. ASSUME NEW i \in 1 .. n, NEW j \in 1 .. n, spans[i].trace = spans[j].trace,
               spans[i].local \notin exempt', spans[j].local \notin exempt'
        PROVE  Alike(priority'[spans[i].local], priority'[spans[j].local])
    <3>1. CASE spans[i].local = l \/ spans[j].local = l
      <4>1. spans[i].local = spans[j].local
        BY <1>5, <2>1, <3>1
      <4> QED
        BY <4>1 DEF Alike
    <3>2. CASE spans[i].local # l /\ spans[j].local # l
      <4>1. Alike(priority[spans[i].local], priority[spans[j].local])
        BY <1>2, <2>1 DEF DInv, AgreeInv
      <4> QED
        BY <1>4, <3>2, <4>1
    <3> QED
      BY <3>1, <3>2
  <2> QED
    BY <1>2, <2>1 DEF AgreeInv, Alike
<1>7. ForeignInv'
  <2>1. ASSUME NEW i \in 1 .. n, NEW h \in Foreign, spans[i].local \notin exempt'
        PROVE  Says(propagator, h, spans[i].trace, priority'[spans[i].local])
    <3>1. CASE spans[i].local = l
      <4>1. spans[i].trace = l
        BY <1>2, <1>3, <2>1, <3>1
      <4>2. Extract(propagator, h) # Null => Extract(propagator, h).trace \notin Ids
        BY ForeignAssumption DEF IInv, TypeInv, SetsInv
      <4> QED
        BY <1>1, <4>1, <4>2 DEF Says
    <3>2. CASE spans[i].local # l
      <4>1. Says(propagator, h, spans[i].trace, priority[spans[i].local])
        BY <1>2, <2>1 DEF DInv, ForeignInv
      <4> QED
        BY <1>4, <3>2, <4>1
    <3> QED
      BY <3>1, <3>2
  <2> QED
    BY <1>2, <2>1 DEF ForeignInv, Says, Alike, OnePriority
<1>8. /\ \A m \in queue : \A h, x : h = m.headers /\ x = m.from => Tells(h, x)'
      /\ \A g \in Flows : \A k \in 1 .. Len(calls[g]) :
            \A h, x : h = calls[g][k].headers /\ x = calls[g][k].from => Tells(h, x)'
  <2>1. Extends(spans, spans')
    BY <1>1, <1>2 DEF Extends
  <2>2. \A i \in 1 .. n : spans[i].local \in locked
                          => priority'[spans[i].local] = priority[spans[i].local]
    BY <1>2, <1>4
  <2> QED
    BY <1>2, <2>1, <2>2, AllTellStays
<1>9. CallsTell' /\ QueueTells'
  BY <1>2, <1>8 DEF CallsTell, QueueTells
<1>10. LocalsInv' /\ TracesInv'
  BY <1>2 DEF DInv, LocalsInv, TracesInv, Ids
<1> QED
  BY <1>6, <1>7, <1>9, <1>10 DEF DInv

\* It holds at first: the queue has what foreign senders sent.
LEMMA DecisionStart == Init => DInv
<1> SUFFICES ASSUME Init
             PROVE  DInv
  OBVIOUS
<1>1. Len(spans) = 0 /\ \A f \in Flows : Len(calls[f]) = 0
  BY DEF Init
<1>2. QueueTells
  BY DEF Init, QueueTells, Tells, Sourced
<1> QED
  BY <1>1, <1>2 DEF DInv, LocalsInv, TracesInv, AgreeInv, ForeignInv, CallsTell

\* One step.
LEMMA StepDecides == IInv /\ DInv /\ [Next]_vars => DInv'
<1> SUFFICES ASSUME IInv, DInv, [Next]_vars
             PROVE  DInv'
  OBVIOUS
<1>1. CASE UNCHANGED vars
  <2>1. LocalsInv' /\ TracesInv' /\ AgreeInv' /\ ForeignInv'
    BY <1>1 DEF vars, DInv, LocalsInv, TracesInv, AgreeInv, ForeignInv, Ids, Says, Alike,
                OnePriority
  <2>2. CallsTell' /\ QueueTells'
    BY <1>1 DEF vars, DInv, CallsTell, QueueTells, Tells, Told, Sourced, Says, Alike,
                OnePriority
  <2> QED
    BY <2>1, <2>2 DEF DInv
<1>2. ASSUME NEW f \in Flows, AppStarts(f)
      PROVE  DInv'
  BY <1>2, AppDecides
<1>3. ASSUME NEW f \in Flows, AppEnds(f) \/ SendReturns(f) \/ DeliverReturns(f)
      PROVE  DInv'
  <2>1. Ends(f)
    BY <1>3 DEF AppEnds, SendReturns, DeliverReturns, InCall, Ends
  <2> QED
    BY <2>1, EndsDecides
<1>4. ASSUME NEW f \in Flows, NEW v \in {UserReject, UserKeep}, SetPriority(f, v)
      PROVE  DInv'
  BY <1>4, SetPriorityDecides
<1>5. ASSUME NEW f \in Flows, BasicPublish(f)
      PROVE  DInv'
  <2>1. PICK h \in Given : Send(f, "publish", h) \/ SendBare(f, "publish", h)
    BY <1>5 DEF BasicPublish
  <2>2. h \in Headers
    BY GivenTyped DEF IInv
  <2>3. UNCHANGED <<propagator, queue, leaked, exempt>>
    BY <1>5 DEF BasicPublish
  <2> QED
    BY <2>1, <2>2, <2>3, SendDecides, SendBareDecides
<1>6. ASSUME NEW f \in Flows, Produce(f)
      PROVE  DInv'
  BY <1>6, ProduceDecides
<1>7. ASSUME NEW f \in Flows, ProduceNotBuilt(f)
      PROVE  DInv'
  <2> DEFINE s == NewSpan(f, Null, "produce", 0)
  <2>1. /\ Start(s, Null) /\ locked \subseteq locked'
        /\ UNCHANGED <<propagator, calls, queue, exempt>>
    BY <1>7 DEF ProduceNotBuilt
  <2>2. "produce" \in CallKinds /\ 0 \in 0 .. Len(spans)
    BY DEF CallKinds, IInv, TypeInv, SpansInv
  <2>3. Grows(s) /\ Follows(s)
    BY <2>1, <2>2, HereFollows
  <2> HIDE DEF s
  <2> QED
    BY <2>1, <2>3, BesideDecides
<1>8. ASSUME NEW f \in Flows, NEW m \in queue, BasicDeliver(f, m)
      PROVE  DInv'
  <2> DEFINE s == NewSpan(f, Extract(propagator, m.headers), "receive", m.from)
             c == [kind |-> "receive", span |-> Next_, from |-> 0, bare |-> FALSE,
                 headers |-> NoHeaders]
  <2>1. /\ Receive(f, m, Extract(propagator, m.headers), "receive") /\ Push(f, c)
        /\ UNCHANGED <<propagator, locked, queue>>
    BY <1>8 DEF BasicDeliver
  <2>2. "receive" \in CallKinds
    BY DEF CallKinds
  <2>3. Grows(s) /\ Follows(s)
    BY <2>1, <2>2, ReceiverFollows
  <2>4. Tells(NoHeaders, 0)' /\ c.headers = NoHeaders /\ c.from = 0
    BY DEF Tells, Sourced
  <2> HIDE DEF s, c
  <2> QED
    BY <2>1, <2>3, <2>4, CallDecides
<1>9. ASSUME NEW f \in Flows, NEW m \in queue, BasicGet(f, m) \/ Consume(f, m)
      PROVE  DInv'
  <2>1. Pull(f, m)
    BY <1>9 DEF BasicGet, Consume
  <2> DEFINE s == NewSpan(f, Extract(propagator, m.headers), "receive", m.from)
  <2>2. /\ Receive(f, m, Extract(propagator, m.headers), "receive")
        /\ locked \subseteq locked' /\ UNCHANGED <<propagator, calls, queue>>
    BY <2>1 DEF Pull
  <2>3. "receive" \in CallKinds
    BY DEF CallKinds
  <2>4. Grows(s) /\ Follows(s)
    BY <2>2, <2>3, ReceiverFollows
  <2> HIDE DEF s
  <2> QED
    BY <2>2, <2>4, BesideDecides
<1> QED
  BY <1>1, <1>2, <1>3, <1>4, <1>5, <1>6, <1>7, <1>8, <1>9 DEF Next

-----------------------------------------------------------------------------
(***************************************************************************)
(* What follows.                                                           *)
(***************************************************************************)

\* Every span that receives a message is a child of the span that sent it, in
\* its trace, with either propagator and whatever other headers the carrier has
\* (RabbitMQIntegration.cs, lines 118 to 146 and 433 to 452).
THEOREM TracesContinue == Spec => []ReceiverContinuesTrace
<1>1. IInv => ReceiverContinuesTrace
  <2> SUFFICES ASSUME IInv, NEW i \in DOMAIN spans, spans[i].from # 0
               PROVE  /\ spans[i].parent = spans[i].from
                      /\ spans[i].trace = spans[spans[i].from].trace
    BY DEF ReceiverContinuesTrace
  <2>1. i \in 1 .. Len(spans)
    BY DEF IInv, TypeInv, SpansInv
  <2> QED
    BY <2>1 DEF IInv, Received, SpanReceives
<1> QED
  BY <1>1, InvariantHolds, PTL

\* The services of a trace decide alike whether it is kept: a decision that was
\* sent is locked, and comes back from the headers as far as keeping goes
\* (LockSamplingPriority in B3SpanContextPropagator.cs, line 30, and its Extract).
THEOREM DecisionStands == Spec => []OneDecision
<1>1. Init => DInv
  BY DecisionStart
<1>2. IInv /\ DInv /\ [Next]_vars => DInv'
  BY StepDecides
<1>3. IInv /\ DInv => OneDecision
  <2> SUFFICES ASSUME IInv, DInv, NEW i \in DOMAIN spans, NEW j \in DOMAIN spans,
                      spans[i].trace = spans[j].trace,
                      {spans[i].local, spans[j].local} \cap exempt = {}
               PROVE  priority[spans[i].local] >= AutoKeep <=> priority[spans[j].local] >= AutoKeep
    BY DEF OneDecision
  <2>1. i \in 1 .. Len(spans) /\ j \in 1 .. Len(spans)
    BY DEF IInv, TypeInv, SpansInv
  <2> QED
    BY <2>1 DEF DInv, AgreeInv, Alike
<1> QED
  BY <1>1, <1>2, <1>3, InvariantHolds, PTL DEF Spec

\* Producers that wrap each other make one span for the message they pass on,
\* unless a span of another kind is between them (KafkaHelper.cs, line 54).
THEOREM OneSpanEach == Spec => []OneSpanPerProduce
<1>1. IInv => OneSpanPerProduce
  <2> SUFFICES ASSUME IInv, NEW f \in Flows, NEW i \in DOMAIN calls[f], NEW j \in DOMAIN calls[f],
                      i < j, calls[f][i].kind = "produce", calls[f][j].kind = "produce",
                      {calls[f][i].span, calls[f][j].span} \cap {0} = {}
               PROVE  \E k \in i + 1 .. j - 1 : calls[f][k].span # 0
    BY DEF OneSpanPerProduce
  <2> DEFINE q == calls[f]
             a == spans[q[j].span].above
  <2>1. q \in Seq(CallSet) /\ i \in 1 .. Len(q) /\ j \in 1 .. Len(q) /\ Len(q) \in Nat
    BY FlowTyped DEF IInv
  <2>2. q[i].span # 0 /\ q[j].span # 0
    OBVIOUS
  <2>3. Nested(spans, leaked, f, q, i) /\ Nested(spans, leaked, f, q, j)
    BY <2>1 DEF IInv, FlowInv, FlowOK
  <2>4. spans[q[i].span].kind = "produce"
    BY <2>2, <2>3 DEF Nested
  <2>5. Below(spans, leaked, f, q, j - 1, a) /\ (a = 0 \/ spans[a].kind # "produce")
    BY <2>2, <2>3 DEF Nested
  <2>6. PICK k \in 1 .. j - 1 : a # 0 /\ q[k].span = a /\ \A m \in k + 1 .. j - 1 : q[m].span = 0
    <3>1. i \in 1 .. j - 1
      BY <2>1
    <3> QED
      BY <2>2, <2>5, <3>1 DEF Below
  <2>7. k # i
    BY <2>4, <2>5, <2>6
  <2>8. i \notin k + 1 .. j - 1
    BY <2>2, <2>6
  <2>9. k \in i + 1 .. j - 1
    BY <2>1, <2>6, <2>7, <2>8
  <2> QED
    BY <2>6, <2>9
<1> QED
  BY <1>1, InvariantHolds, PTL

\* A flow without a call under way has no active span, except for the scope of a
\* producer that failed before its call (ProduceKafkaIntegrationHelper.cs:39).
THEOREM FlowsStayRestored == Spec => []FlowsRestored
<1>1. IInv => TypeOK
  <2> SUFFICES ASSUME IInv
               PROVE  TypeOK
    OBVIOUS
  <2>1. Len(spans) \in Nat /\ DOMAIN spans = 1 .. Len(spans)
    BY DEF IInv, TypeInv, SpansInv
  <2>2. \A i \in DOMAIN spans : priority[spans[i].local] # Null
    BY <2>1, PrioritiesAreInts DEF IInv, TypeInv, PriorityInv
  <2>3. \A m \in queue : m.from \in 0 .. Len(spans)
    BY <2>1 DEF IInv, TypeInv, QueueInv, Messages
  <2> QED
    BY <2>1, <2>2, <2>3 DEF IInv, TypeInv, SpansInv, PriorityInv, CallsInv, SetsInv, TypeOK
<1>2. IInv => NothingLeftActive
  <2> SUFFICES ASSUME IInv, NEW f \in Flows, calls[f] = <<>>, f \notin leaked
               PROVE  active[f] = 0
    BY DEF NothingLeftActive
  <2>1. Below(spans, leaked, f, calls[f], Len(calls[f]), active[f]) /\ Len(calls[f]) = 0
    BY DEF IInv, FlowInv, FlowOK
  <2> QED
    BY <2>1 DEF Below
<1> QED
  BY <1>1, <1>2, InvariantHolds, PTL DEF FlowsRestored

\* A message leaves without a context only where nothing could be put in it, or
\* in a flow in which a scope was left open (RabbitMQIntegration.cs:443,
\* ProduceKafkaIntegrationHelper.cs:39 and 260).
THEOREM UntracedOnlyThere == Spec => SentWithContext
<1> DEFINE P == \A f \in Flows, m \in queue' \ queue :
                   calls'[f] # calls[f] /\ m.from = 0 => f \in leaked \/ Top(f).bare
<1>1. IInv /\ [Next]_vars => [P]_vars
  <2> SUFFICES ASSUME IInv, Next, NEW f \in Flows, NEW m \in queue' \ queue,
                      calls'[f] # calls[f], m.from = 0
               PROVE  f \in leaked \/ Top(f).bare
    BY DEF P
  <2>1. PICK g \in Flows : SendReturns(g)
    BY DEF Next, AppStarts, AppEnds, SetPriority, BasicPublish, Produce, ProduceNotBuilt,
           DeliverReturns, BasicDeliver, BasicGet, Consume, Pull
  <2>2. g = f
    BY <2>1 DEF SendReturns, Pop, IInv, TypeInv, CallsInv
  <2>3. /\ calls[f] # <<>> /\ Top(f).kind \in {"publish", "produce"}
        /\ m = [headers |-> Top(f).headers, from |-> Top(f).from]
    BY <2>1, <2>2 DEF SendReturns, InCall
  <2>4. calls[f] \in Seq(CallSet) /\ Len(calls[f]) \in 1 .. Len(calls[f])
    BY <2>3 DEF IInv, TypeInv, CallsInv
  <2>5. CallSends(propagator, spans, leaked, f, Top(f))
    BY <2>4 DEF IInv, SentInv, Top
  <2> QED
    BY <2>3, <2>5 DEF CallSends
<1> QED
  BY <1>1, InvariantHolds, PTL DEF Spec, SentWithContext
=============================================================================
