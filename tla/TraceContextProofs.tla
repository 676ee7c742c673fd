------------------------- MODULE TraceContextProofs -------------------------
(***************************************************************************)
(* Proofs about TraceContext, for any set of threads and any finite set of *)
(* spans: the open-span count is exact, a trace has its priority from its  *)
(* first span on, every span is written once and with its whole trace, and *)
(* TraceContext implements TraceWriting.                                   *)
(***************************************************************************)
EXTENDS TraceContext, FiniteSetTheorems, TLAPS

Closing(th) == op[th].pc \in {"close", "decrement"}
Starts(th) == op[th].pc \in {"startCheck", "startWrite", "add"}
Sets(th) == op[th].pc \in {"startCheck", "startWrite", "setCheck", "setWrite"}

\* What the call of a thread holds at each point.
ThreadInv ==
    \A th \in Threads :
        /\ Closing(th) => op[th].span \in added \ decremented
        /\ Starts(th) => op[th].span \in Spans \ added
        /\ Sets(th) => op[th].value \in Priorities
        /\ op[th].pc = "tag" => op[th].span \in Spans
        /\ op[th].pc = "write" <=> op[th].batch # {}
        /\ op[th].pc # "idle" => rootSpan # NoSpan \/ (bare /\ op[th].pc = "inject")

\* No two threads start the same span, nor close it: IsFinished lets one in.
ApartInv ==
    \A t, u \in Threads :
        /\ t # u
        /\ (Closing(t) /\ Closing(u)) \/ (Starts(t) /\ Starts(u))
        => op[t].span # op[u].span

\* A span is finished from the moment a thread begins to close it.
SpanInv ==
    /\ added \subseteq Spans /\ decremented \subseteq added
    /\ rootSpan = NoSpan => added = {}
    /\ bare => rootSpan = NoSpan
    /\ \A s \in Spans :
          isFinished[s] <=> \/ s \in decremented
                            \/ \E th \in Threads : Closing(th) /\ op[th].span = s

\* The list is only kept while a span of it is open.
CountInv == OpenSpansExact /\ (added = decremented => spans = {})

\* Where a span is, and that it left the list closed.
PlaceInv ==
    \A s \in Spans :
        /\ s \in spans => s \in added
        /\ s \in spans => InBatch(s) = {} /\ writes[s] = 0
        /\ s \notin added => InBatch(s) = {} /\ writes[s] = 0
        /\ s \in added \ spans =>
              \/ s \in decremented /\ writes[s] = 0 /\ \E th \in Threads : InBatch(s) = {th}
              \/ s \in decremented /\ writes[s] = 1 /\ InBatch(s) = {}

IInv == TypeOK /\ ThreadInv /\ ApartInv /\ SpanInv /\ CountInv /\ PlaceInv /\ PriorityFromFirstSpan

\* The part of it that a step on the list has to keep.
Kept == ThreadInv' /\ ApartInv' /\ SpanInv' /\ CountInv' /\ PlaceInv'

-----------------------------------------------------------------------------
Op == [pc : {"idle", "startCheck", "startWrite", "add", "setCheck", "setWrite",
             "inject", "tag", "close", "decrement", "write"},
       span : Spans \cup {NoSpan}, value : Priorities \cup {NoPriority},
       batch : SUBSET Spans]

\* A step of thread th that leaves the calls of the others alone.
StepOf(th) ==
    /\ op' \in [Threads -> Op]
    /\ \A u \in Threads : u # th => op'[u] = op[u]

\* A step that ends a call leaves the thread idle.
LEMMA ReturnSteps ==
    ASSUME TypeOK, NEW th \in Threads, Return(th)
    PROVE  StepOf(th) /\ op'[th] = Idle
<1>1. Idle \in Op
  BY DEF Idle, Op
<1> QED BY <1>1 DEF TypeOK, Return, StepOf, Op

\* A step inside a call changes only where the thread is in it.
LEMMA GotoSteps ==
    ASSUME TypeOK, NEW th \in Threads,
           NEW pc \in {"startWrite", "add", "setWrite", "inject", "decrement"}, Goto(th, pc)
    PROVE  /\ StepOf(th) /\ op'[th].pc = pc
           /\ op'[th].span = op[th].span /\ op'[th].value = op[th].value
           /\ op'[th].batch = op[th].batch
<1>1. op[th] \in Op /\ op \in [Threads -> Op]
  BY DEF TypeOK, Op
<1>2. [op[th] EXCEPT !.pc = pc] \in Op
  BY <1>1 DEF Op
<1>3. op' = [op EXCEPT ![th] = [op[th] EXCEPT !.pc = pc]]
  BY DEF Goto
<1>4. /\ [op[th] EXCEPT !.pc = pc].pc = pc /\ [op[th] EXCEPT !.pc = pc].span = op[th].span
      /\ [op[th] EXCEPT !.pc = pc].value = op[th].value
      /\ [op[th] EXCEPT !.pc = pc].batch = op[th].batch
  BY <1>1 DEF Op
<1> HIDE DEF Op
<1> QED BY <1>1, <1>2, <1>3, <1>4 DEF StepOf

\* A call begins.
LEMMA BeginSteps ==
    ASSUME TypeOK, NEW th \in Threads, NEW r \in Op, op' = [op EXCEPT ![th] = r]
    PROVE  StepOf(th) /\ op'[th] = r
  BY DEF TypeOK, StepOf, Op

-----------------------------------------------------------------------------
\* A step that touches neither the list nor isFinished: it keeps the span it
\* closes, and the span it starts is new.
LEMMA QuietStep ==
    ASSUME IInv, NEW th \in Threads, StepOf(th),
           UNCHANGED <<listVars, isFinished, bare>>,
           op[th].pc # "write", op'[th].pc # "write", op'[th].batch = {},
           Closing(th)' <=> Closing(th),
           Closing(th) => op'[th].span = op[th].span,
           Starts(th)' => \/ Starts(th) /\ op'[th].span = op[th].span
                          \/ op'[th].span \in Spans \ (added \cup Starting),
           Sets(th)' => op'[th].value \in Priorities,
           op'[th].pc = "tag" => op'[th].span \in Spans,
           op'[th].pc # "idle" => rootSpan # NoSpan \/ (bare /\ op'[th].pc = "inject")
    PROVE  Kept
<1>1. ThreadInv'
  BY DEF IInv, ThreadInv, StepOf, listVars, Closing, Starts, Sets
<1>2. ApartInv'
  <2>1. \A u \in Threads : Starts(u) => op[u].span \in Starting
    BY DEF Starts, Starting
  <2> QED BY <2>1 DEF IInv, ApartInv, StepOf, Closing, Starts
<1>3. SpanInv'
  BY DEF IInv, SpanInv, StepOf, listVars, Closing
<1>4. CountInv'
  BY DEF IInv, CountInv, OpenSpansExact, listVars
<1>5. \A s : InBatch(s)' = InBatch(s)
  BY DEF IInv, ThreadInv, InBatch, StepOf
<1>6. PlaceInv'
  BY <1>5 DEF IInv, PlaceInv, listVars
<1> QED BY <1>1, <1>2, <1>3, <1>4, <1>6 DEF Kept
\* The steps that only change the priority, the tags or the headers.
LEMMA QuietSteps ==
    ASSUME IInv, NEW th \in Threads,
           \/ InjectLocks(th) \/ InjectReads(th) \/ PriorityCheck(th) \/ PriorityWrite(th)
           \/ CloseLocks(th) \/ \E k \in TagKeys : TagWrite(th, k)
           \/ \E s \in Spans : SetTag(th, s) \/ StartChild(th, s)
           \/ \E s \in Spans, p \in Priorities : SetPriorityTag(th, s, p)
    PROVE  Kept
<1>t. TypeOK
  BY DEF IInv
<1>o. op[th] \in Op
  BY <1>t DEF TypeOK, Op
<1>i. /\ Idle.pc = "idle" /\ Idle.batch = {}
  BY DEF Idle
<1>b. op[th].pc # "write" => op[th].batch = {}
  BY DEF IInv, ThreadInv
<1>v. NoPriority \notin Priorities
  BY TraceAssumption
<1>1. CASE InjectLocks(th)
  BY <1>1, <1>t, <1>b, GotoSteps, QuietStep DEF InjectLocks, settings, Closing, Starts, Sets
<1>2. CASE InjectReads(th)
  BY <1>2, <1>t, <1>i, ReturnSteps, QuietStep DEF InjectReads, settings, Closing, Starts, Sets
<1>3. CASE PriorityCheck(th)
  <2>1. UNCHANGED <<listVars, isFinished, bare>> /\ op[th].pc \in {"setCheck", "startCheck"}
    BY <1>3 DEF PriorityCheck, settings
  <2>2. Sets(th) /\ op[th].value \in Priorities /\ rootSpan # NoSpan
    BY <2>1 DEF IInv, ThreadInv, Sets
  <2>3. CASE Return(th)
    BY <2>1, <2>3, <1>t, <1>i, <2>2, ReturnSteps, QuietStep DEF Closing, Starts, Sets
  <2>4. ASSUME op[th].pc = "setCheck", Goto(th, "setWrite") PROVE Kept
    BY <2>1, <2>4, <1>t, <1>b, <2>2, GotoSteps, QuietStep DEF Closing, Starts, Sets
  <2>5. ASSUME op[th].pc = "startCheck", NEW pc \in {"add", "startWrite"}, Goto(th, pc) PROVE Kept
    BY <2>1, <2>5, <1>t, <1>b, <2>2, GotoSteps, QuietStep DEF Closing, Starts, Sets
  <2> QED BY <1>3, <2>1, <2>3, <2>4, <2>5 DEF PriorityCheck, settings
<1>4. CASE PriorityWrite(th)
  <2>1. UNCHANGED <<listVars, isFinished, bare>> /\ op[th].pc \in {"setWrite", "startWrite"}
    BY <1>4 DEF PriorityWrite, settings
  <2>2. rootSpan # NoSpan
    BY <2>1 DEF IInv, ThreadInv
  <2>3. CASE Return(th)
    BY <2>1, <2>3, <1>t, <1>i, <2>2, ReturnSteps, QuietStep DEF Closing, Starts, Sets
  <2>4. CASE op[th].pc = "startWrite" /\ Goto(th, "add")
    BY <2>1, <2>4, <1>t, <1>b, <2>2, GotoSteps, QuietStep DEF Closing, Starts, Sets
  <2> QED BY <1>4, <2>1, <2>3, <2>4 DEF PriorityWrite, settings
<1>5. CASE CloseLocks(th)
  <2>1. rootSpan # NoSpan
    BY <1>5 DEF CloseLocks, settings, IInv, ThreadInv
  <2> QED BY <1>5, <2>1, <1>t, <1>b, GotoSteps, QuietStep DEF CloseLocks, settings, Closing, Starts, Sets
<1>6. ASSUME NEW k \in TagKeys, TagWrite(th, k) PROVE Kept
  BY <1>6, <1>t, <1>i, ReturnSteps, QuietStep DEF TagWrite, settings, Closing, Starts, Sets
<1>7. ASSUME NEW s \in Spans, SetTag(th, s) PROVE Kept
  <2> DEFINE r == [Idle EXCEPT !.pc = "tag", !.span = s]
  <2>1. r \in Op /\ r.pc = "tag" /\ r.span = s /\ r.batch = {}
    BY DEF Idle, Op
  <2>2. /\ op' = [op EXCEPT ![th] = r] /\ s \in added
        /\ UNCHANGED <<listVars, isFinished, bare>> /\ op[th].pc = "idle"
    BY <1>7 DEF SetTag, settings
  <2>3. rootSpan # NoSpan
    BY <2>2 DEF IInv, SpanInv
  <2> HIDE DEF r
  <2> QED BY <2>1, <2>2, <2>3, <1>t, BeginSteps, QuietStep DEF Closing, Starts, Sets
<1>8. ASSUME NEW s \in Spans, StartChild(th, s) PROVE Kept
  <2> DEFINE r == [Idle EXCEPT !.pc = IF globalPriority = NoPriority THEN "add" ELSE "startCheck",
                               !.span = s, !.value = globalPriority]
  <2>1. /\ r \in Op /\ r.pc \in {"add", "startCheck"} /\ r.span = s /\ r.batch = {}
        /\ r.value = globalPriority /\ (r.pc = "startCheck" => globalPriority # NoPriority)
    BY <1>t DEF Idle, Op, TypeOK
  <2>2. globalPriority \in Priorities \cup {NoPriority}
    BY <1>t DEF TypeOK
  <2>3. op' = [op EXCEPT ![th] = r] /\ s \notin added \cup Starting /\ rootSpan # NoSpan
        /\ UNCHANGED <<listVars, isFinished, bare>> /\ op[th].pc = "idle"
    BY <1>8 DEF StartChild, settings
  <2> HIDE DEF r
  <2> QED BY <2>1, <2>2, <2>3, <1>t, BeginSteps, QuietStep DEF Closing, Starts, Sets
<1>9. ASSUME NEW s \in Spans, NEW p \in Priorities, SetPriorityTag(th, s, p) PROVE Kept
  <2> DEFINE r == [Idle EXCEPT !.pc = "setCheck", !.span = s, !.value = p]
  <2>1. r \in Op /\ r.pc = "setCheck" /\ r.value = p /\ r.batch = {}
    BY DEF Idle, Op
  <2>2. /\ op' = [op EXCEPT ![th] = r] /\ s \in added
        /\ UNCHANGED <<listVars, isFinished, bare>> /\ op[th].pc = "idle"
    BY <1>9 DEF SetPriorityTag, settings
  <2>3. rootSpan # NoSpan
    BY <2>2 DEF IInv, SpanInv
  <2> HIDE DEF r
  <2> QED BY <2>1, <2>2, <2>3, <1>t, BeginSteps, QuietStep DEF Closing, Starts, Sets
<1> QED BY <1>1, <1>2, <1>3, <1>4, <1>5, <1>6, <1>7, <1>8, <1>9
-----------------------------------------------------------------------------
\* One span more on the list.
LEMMA EnlistCounts ==
    ASSUME IInv, NEW s \in Spans \ added, Enlist(s)
    PROVE  CountInv' /\ openSpans' \in Nat
<1>1. IsFiniteSet(added \ decremented)
  BY TraceAssumption, FS_Subset DEF IInv, SpanInv
<1>2. (added \ decremented)' = (added \ decremented) \cup {s}
  BY DEF Enlist, IInv, SpanInv
<1>3. Cardinality((added \ decremented) \cup {s}) = Cardinality(added \ decremented) + 1
  BY <1>1, FS_AddElement
<1>4. openSpans \in Nat
  BY DEF IInv, TypeOK
<1>5. added' # decremented'
  BY DEF Enlist, IInv, SpanInv
<1>6. openSpans = Cardinality(added \ decremented) /\ openSpans' = openSpans + 1
  BY DEF IInv, CountInv, OpenSpansExact, Enlist
<1>7. openSpans' = Cardinality((added \ decremented)')
  BY <1>2, <1>3, <1>6
<1> QED BY <1>4, <1>5, <1>6, <1>7 DEF CountInv, OpenSpansExact

\* The first span: no thread is in a call yet.
LEMMA StartRootKeeps ==
    ASSUME IInv, NEW th \in Threads, NEW s \in Spans, StartRoot(th, s)
    PROVE  Kept
<1>1. /\ Enlist(s) /\ UNCHANGED <<isFinished, op, bare>> /\ ~bare /\ rootSpan = NoSpan /\ rootSpan' = s
      /\ spans' = spans \cup {s} /\ added' = added \cup {s}
      /\ UNCHANGED <<decremented, writes>>
  BY DEF StartRoot, Enlist, settings
<1>2. \A t \in Threads : op[t].pc = "idle"
  BY <1>1 DEF IInv, ThreadInv
<1>3. added = {} /\ s # NoSpan
  BY <1>1, TraceAssumption DEF IInv, SpanInv
<1>4. ThreadInv'
  BY <1>1, <1>2, <1>3 DEF IInv, ThreadInv, Closing, Starts, Sets
<1>5. ApartInv'
  BY <1>1, <1>2 DEF ApartInv, Closing, Starts
<1>6. SpanInv'
  BY <1>1, <1>2, <1>3 DEF IInv, SpanInv, Closing
<1>7. CountInv'
  BY <1>1, <1>3, EnlistCounts
<1>8. \A r : InBatch(r)' = InBatch(r)
  BY <1>1 DEF InBatch
<1>9. PlaceInv'
  BY <1>1, <1>3, <1>8 DEF IInv, PlaceInv
<1> QED BY <1>4, <1>5, <1>6, <1>7, <1>9 DEF Kept

\* AddSpan keeps the invariant.
LEMMA AddSpanKeeps ==
    ASSUME IInv, NEW th \in Threads, AddSpan(th)
    PROVE  Kept
<1> DEFINE s == op[th].span
<1>1. /\ Enlist(s) /\ UNCHANGED <<isFinished, rootSpan, bare>> /\ op[th].pc = "add" /\ Return(th)
      /\ spans' = spans \cup {s} /\ added' = added \cup {s}
      /\ UNCHANGED <<decremented, writes>>
  BY DEF AddSpan, Enlist, settings
<1>2. StepOf(th) /\ op'[th].pc = "idle" /\ op'[th].batch = {}
  BY <1>1, ReturnSteps DEF IInv, Idle
<1>3. Starts(th) /\ s \in Spans \ added /\ rootSpan # NoSpan
  BY <1>1 DEF IInv, ThreadInv, Starts
<1>4. \A u \in Threads : u # th /\ Starts(u) => op[u].span # s
  BY <1>3 DEF IInv, ApartInv
<1>5. ThreadInv'
  BY <1>1, <1>2, <1>3, <1>4 DEF IInv, ThreadInv, StepOf, Closing, Starts, Sets
<1>6. ApartInv'
  BY <1>2 DEF IInv, ApartInv, StepOf, Closing, Starts
<1>7. SpanInv'
  BY <1>1, <1>2, <1>3 DEF IInv, SpanInv, StepOf, Closing
<1>8. CountInv'
  BY <1>1, <1>3, EnlistCounts
<1>9. \A r : InBatch(r)' = InBatch(r)
  BY <1>1, <1>2 DEF IInv, ThreadInv, InBatch, StepOf
<1>10. PlaceInv'
  BY <1>1, <1>3, <1>9 DEF IInv, PlaceInv
<1> QED BY <1>5, <1>6, <1>7, <1>8, <1>10 DEF Kept

\* Finish keeps the invariant.
LEMMA FinishKeeps ==
    ASSUME IInv, NEW th \in Threads, NEW s \in Spans, Finish(th, s)
    PROVE  Kept
<1> DEFINE r == [Idle EXCEPT !.pc = "close", !.span = s]
<1>1. r \in Op /\ r.pc = "close" /\ r.span = s /\ r.batch = {}
  BY DEF Idle, Op
<1>2. /\ UNCHANGED <<listVars, bare>> /\ op[th].pc = "idle" /\ s \in added /\ ~isFinished[s]
      /\ isFinished' = [isFinished EXCEPT ![s] = TRUE] /\ op' = [op EXCEPT ![th] = r]
  BY DEF Finish, settings
<1> HIDE DEF r
<1>3. StepOf(th) /\ op'[th] = r
  BY <1>1, <1>2, BeginSteps DEF IInv
<1>4. s \notin decremented /\ rootSpan # NoSpan
  BY <1>2 DEF IInv, SpanInv
<1>5. \A u \in Threads : Closing(u) => op[u].span # s
  BY <1>2 DEF IInv, SpanInv
<1>6. ThreadInv'
  BY <1>1, <1>2, <1>3, <1>4 DEF IInv, ThreadInv, StepOf, listVars, Closing, Starts, Sets
<1>7. ApartInv'
  BY <1>1, <1>2, <1>3, <1>5 DEF IInv, ApartInv, StepOf, Closing, Starts
<1>8. SpanInv'
  <2>1. \A u \in Threads : Closing(u)' <=> u = th \/ Closing(u)
    BY <1>1, <1>3 DEF StepOf, Closing
  <2>2. \A u \in Threads : Closing(u) => u # th /\ op'[u] = op[u]
    BY <1>2, <1>3 DEF StepOf, Closing
  <2>3. \A v \in Spans : isFinished'[v] <=> v = s \/ isFinished[v]
    BY <1>2 DEF IInv, TypeOK
  <2> QED BY <1>1, <1>2, <1>3, <2>1, <2>2, <2>3 DEF IInv, SpanInv, listVars
<1>9. CountInv'
  BY <1>2 DEF IInv, CountInv, OpenSpansExact, listVars
<1>10. \A v : InBatch(v)' = InBatch(v)
  BY <1>1, <1>2, <1>3 DEF IInv, ThreadInv, InBatch, StepOf
<1>11. PlaceInv'
  BY <1>2, <1>10 DEF IInv, PlaceInv, listVars
<1> QED BY <1>6, <1>7, <1>8, <1>9, <1>11 DEF Kept
\* One open span less: the last one takes the list.
LEMMA DecrementCounts ==
    ASSUME IInv, NEW s \in added \ decremented, openSpans' = openSpans - 1,
           added' = added, decremented' = decremented \cup {s}
    PROVE  /\ openSpans' \in Nat
           /\ openSpans' = Cardinality((added \ decremented)')
           /\ openSpans' = 0 <=> added = decremented'
<1>1. IsFiniteSet(added \ decremented)
  BY TraceAssumption, FS_Subset DEF IInv, SpanInv
<1>2. (added \ decremented)' = (added \ decremented) \ {s}
  OBVIOUS
<1>3. Cardinality((added \ decremented) \ {s}) = Cardinality(added \ decremented) - 1
  BY <1>1, FS_RemoveElement
<1>4. openSpans' = Cardinality((added \ decremented)')
  BY <1>2, <1>3 DEF IInv, CountInv, OpenSpansExact
<1>5. IsFiniteSet((added \ decremented) \ {s})
  BY <1>1, FS_RemoveElement
<1>6. openSpans' \in Nat
  BY <1>2, <1>4, <1>5, FS_CardinalityType
<1>7. openSpans' = 0 <=> (added \ decremented)' = {}
  BY <1>2, <1>4, <1>5, FS_EmptySet
<1>8. (added \ decremented)' = {} <=> added = decremented'
  BY DEF IInv, SpanInv
<1> QED BY <1>4, <1>6, <1>7, <1>8

\* The locked part of CloseSpan, which takes the trace when it is complete.
LEMMA CloseDecrementsKeeps ==
    ASSUME IInv, NEW th \in Threads, CloseDecrements(th)
    PROVE  Kept /\ openSpans' \in Nat
<1> DEFINE s == op[th].span
           r == [Idle EXCEPT !.pc = "write", !.batch = spans]
<1>1. /\ op[th].pc = "decrement" /\ openSpans' = openSpans - 1
      /\ decremented' = decremented \cup {s}
      /\ UNCHANGED <<rootSpan, added, writes, isFinished, bare>>
  BY DEF CloseDecrements, settings
<1>2. Closing(th) /\ s \in added \ decremented /\ op[th].batch = {}
  BY <1>1 DEF IInv, ThreadInv, Closing
<1>3. /\ openSpans' \in Nat /\ openSpans' = Cardinality((added \ decremented)')
      /\ openSpans' = 0 <=> added = decremented'
  BY <1>1, <1>2, DecrementCounts
<1>4. /\ r \in Op /\ r.pc = "write" /\ r.batch = spans
      /\ Idle.pc = "idle" /\ Idle.batch = {}
  BY DEF IInv, TypeOK, Idle, Op
<1>5. \/ /\ openSpans' = 0 /\ op' = [op EXCEPT ![th] = r] /\ spans' = {}
      \/ openSpans' # 0 /\ Return(th) /\ spans' = spans
  BY DEF CloseDecrements
<1> HIDE DEF r
<1>6. /\ StepOf(th) /\ op'[th].pc \in {"write", "idle"}
      /\ op'[th].pc = "write" <=> openSpans' = 0
      /\ op'[th].batch = IF openSpans' = 0 THEN spans ELSE {}
      /\ s \in spans
  <2>1. s \in spans
    BY <1>2 DEF IInv, PlaceInv, SpanInv
  <2> QED BY <1>4, <1>5, <2>1, BeginSteps, ReturnSteps DEF IInv
<1>7. rootSpan # NoSpan
  BY <1>2 DEF IInv, SpanInv
<1>8. \A u \in Threads : u # th /\ Closing(u) => op[u].span # s
  BY <1>2 DEF IInv, ApartInv
<1>9. ThreadInv'
  BY <1>1, <1>6, <1>7, <1>8 DEF IInv, ThreadInv, StepOf, Closing, Starts, Sets
<1>10. ApartInv'
  BY <1>6 DEF IInv, ApartInv, StepOf, Closing, Starts
<1>11. SpanInv'
  <2>1. \A u \in Threads : Closing(u)' <=> u # th /\ Closing(u)
    BY <1>6 DEF StepOf, Closing
  <2>2. ASSUME NEW v \in Spans
        PROVE  isFinished'[v] <=> \/ v \in decremented'
                                  \/ \E u \in Threads : Closing(u)' /\ op'[u].span = v
    BY <1>1, <1>2, <1>6, <2>1 DEF IInv, SpanInv, StepOf
  <2> QED BY <1>1, <1>2, <2>2 DEF IInv, SpanInv
<1>12. CountInv'
  BY <1>3, <1>5, <1>1 DEF CountInv, OpenSpansExact
<1>13. PlaceInv'
  <2>1. CASE openSpans' # 0
    <3>1. \A v : InBatch(v)' = InBatch(v)
      BY <2>1, <1>2, <1>6 DEF InBatch, StepOf
    <3> QED BY <2>1, <1>1, <1>5, <3>1 DEF IInv, PlaceInv
  <2>2. CASE openSpans' = 0
    <3>1. spans' = {} /\ added = decremented'
      BY <2>2, <1>3, <1>5
    <3>2. \A v : InBatch(v)' = InBatch(v) \cup (IF v \in spans THEN {th} ELSE {})
      BY <2>2, <1>2, <1>6 DEF InBatch, StepOf
    <3>3. \A v \in Spans : v \in spans => InBatch(v)' = {th} /\ writes'[v] = 0 /\ v \in decremented'
      BY <3>1, <3>2, <1>1 DEF IInv, PlaceInv
    <3>4. \A v \in Spans : v \notin spans => InBatch(v)' = InBatch(v) /\ writes'[v] = writes[v]
      BY <3>2, <1>1
    <3> QED BY <3>1, <3>3, <3>4, <1>1 DEF IInv, PlaceInv
  <2> QED BY <2>1, <2>2
<1> QED BY <1>3, <1>9, <1>10, <1>11, <1>12, <1>13 DEF Kept

\* The write of a complete trace, outside the lock.
LEMMA CloseWritesKeeps ==
    ASSUME IInv, NEW th \in Threads, CloseWrites(th)
    PROVE  Kept
<1>1. /\ op[th].pc = "write" /\ Return(th)
      /\ UNCHANGED <<rootSpan, spans, openSpans, added, decremented, isFinished, bare>>
      /\ writes' = [s \in Spans |-> IF s \in op[th].batch THEN writes[s] + 1 ELSE writes[s]]
  BY DEF CloseWrites, settings
<1>2. StepOf(th) /\ op'[th].pc = "idle" /\ op'[th].batch = {}
  BY <1>1, ReturnSteps DEF IInv, Idle
<1>3. ThreadInv'
  BY <1>1, <1>2 DEF IInv, ThreadInv, StepOf, Closing, Starts, Sets
<1>4. ApartInv'
  BY <1>2 DEF IInv, ApartInv, StepOf, Closing, Starts
<1>5. SpanInv'
  BY <1>1, <1>2 DEF IInv, SpanInv, StepOf, Closing
<1>6. CountInv'
  BY <1>1 DEF IInv, CountInv, OpenSpansExact
<1>7. PlaceInv'
  <2>1. \A s : InBatch(s)' = InBatch(s) \ {th}
    BY <1>2 DEF InBatch, StepOf
  <2>2. \A s \in Spans : s \in op[th].batch <=> th \in InBatch(s)
    BY DEF InBatch
  <2>3. \A s \in Spans : th \in InBatch(s) =>
           s \in added \ spans /\ s \in decremented /\ writes[s] = 0 /\ InBatch(s) = {th}
    BY DEF IInv, PlaceInv
  <2>4. \A s \in Spans : th \in InBatch(s) => writes'[s] = 1 /\ InBatch(s)' = {}
    BY <1>1, <2>1, <2>2, <2>3
  <2>5. \A s \in Spans : th \notin InBatch(s) => writes'[s] = writes[s] /\ InBatch(s)' = InBatch(s)
    BY <1>1, <2>1, <2>2
  <2> QED BY <1>1, <2>3, <2>4, <2>5 DEF IInv, PlaceInv
<1> QED BY <1>3, <1>4, <1>5, <1>6, <1>7 DEF Kept
-----------------------------------------------------------------------------
\* Every step keeps the parts on threads, spans, the list and the batches.
LEMMA StepKeeps ==
    ASSUME IInv, NEW th \in Threads, Call(th) \/ Proceed(th)
    PROVE  Kept
<1>1. ASSUME NEW s \in Spans, StartRoot(th, s) PROVE Kept
  BY <1>1, StartRootKeeps
<1>2. ASSUME NEW s \in Spans, Finish(th, s) PROVE Kept
  BY <1>2, FinishKeeps
<1>3. CASE AddSpan(th)
  BY <1>3, AddSpanKeeps
<1>4. CASE CloseDecrements(th)
  BY <1>4, CloseDecrementsKeeps
<1>5. CASE CloseWrites(th)
  BY <1>5, CloseWritesKeeps
<1> QED BY <1>1, <1>2, <1>3, <1>4, <1>5, QuietSteps DEF Call, Proceed

\* The priority is set with the first span and never unset.
LEMMA PriorityKept ==
    ASSUME IInv, NEW th \in Threads, Call(th) \/ Proceed(th)
    PROVE  PriorityFromFirstSpan'
<1>1. NoPriority \notin Priorities /\ {"AutoKeep", "AutoReject"} \subseteq Priorities
  BY TraceAssumption DEF Priorities
<1> USE DEF IInv, PriorityFromFirstSpan
<1>2. ASSUME NEW s \in Spans, StartRoot(th, s) PROVE PriorityFromFirstSpan'
  BY <1>1, <1>2 DEF StartRoot, FirstPriority, TypeOK, settings
<1>3. CASE PriorityWrite(th)
  <2>1. op[th].value \in Priorities
    BY <1>3 DEF PriorityWrite, ThreadInv, Sets
  <2> QED BY <1>1, <1>3, <2>1 DEF PriorityWrite, listVars, settings
<1>4. CASE InjectReads(th)
  <2>1. rootSpan # NoSpan \/ (bare /\ rootSpan = NoSpan)
    BY <1>4 DEF InjectReads, ThreadInv
  <2> QED BY <1>4, <2>1 DEF InjectReads, listVars, prioVars, settings, SpanInv
<1>5. CASE AddSpan(th)
  <2>1. ~bare
    BY <1>5 DEF AddSpan, ThreadInv, SpanInv
  <2> QED BY <1>5, <2>1 DEF AddSpan, prioVars, settings
<1>6. CASE PriorityCheck(th)
  BY <1>6 DEF PriorityCheck, listVars, prioVars, settings
<1>7. ASSUME NEW k \in TagKeys, TagWrite(th, k) PROVE PriorityFromFirstSpan'
  BY <1>7 DEF TagWrite, listVars, prioVars, settings
<1>8. CASE CloseLocks(th)
  BY <1>8 DEF CloseLocks, listVars, settings
<1>9. CASE CloseDecrements(th)
  BY <1>9 DEF CloseDecrements, prioVars, settings
<1>10. CASE CloseWrites(th)
  BY <1>10 DEF CloseWrites, prioVars, settings
<1>11. ASSUME NEW s \in Spans, StartChild(th, s) PROVE PriorityFromFirstSpan'
  BY <1>11 DEF StartChild, listVars, prioVars, settings
<1>12. CASE InjectLocks(th)
  BY <1>12 DEF InjectLocks, listVars, settings
<1>13. ASSUME NEW s \in Spans, NEW p \in Priorities, SetPriorityTag(th, s, p) PROVE PriorityFromFirstSpan'
  BY <1>13 DEF SetPriorityTag, listVars, prioVars, settings
<1>14. ASSUME NEW s \in Spans, SetTag(th, s) \/ Finish(th, s) PROVE PriorityFromFirstSpan'
  BY <1>14 DEF SetTag, Finish, listVars, prioVars, settings
<1> QED BY <1>2, <1>3, <1>4, <1>5, <1>6, <1>7, <1>8, <1>9, <1>10, <1>11, <1>12, <1>13, <1>14
        DEF Call, Proceed

\* The types, given what PriorityKept and StepKeeps say of the rest.
LEMMA TypesKept ==
    ASSUME IInv, NEW th \in Threads, Call(th) \/ Proceed(th)
    PROVE  TypeOK'
<1>t. TypeOK
  BY DEF IInv
<1>o. /\ op \in [Threads -> Op] /\ op[th] \in Op /\ Idle \in Op
  BY <1>t DEF TypeOK, Op, Idle
<1>r. ASSUME Return(th) PROVE op' \in [Threads -> Op]
  BY <1>r, <1>t, ReturnSteps DEF StepOf
<1>g. ASSUME NEW pc \in {"startWrite", "add", "setWrite", "inject", "decrement"}, Goto(th, pc)
      PROVE  op' \in [Threads -> Op]
  BY <1>g, <1>t, GotoSteps DEF StepOf
<1>p. {"AutoKeep", "AutoReject"} \subseteq Priorities
  BY DEF Priorities
<1>s. Starts(th) \/ Closing(th) \/ op[th].pc = "tag" => op[th].span \in Spans
  BY DEF IInv, ThreadInv, SpanInv
<1>1. ASSUME NEW s \in Spans, StartRoot(th, s) PROVE TypeOK'
  BY <1>1, <1>t, <1>p DEF StartRoot, Enlist, FirstPriority, TypeOK, settings
<1>2. CASE PriorityWrite(th)
  <2>1. op' \in [Threads -> Op]
    BY <1>2, <1>r, <1>g DEF PriorityWrite
  <2>2. samplingPriority' \in Priorities \cup {NoPriority}
    BY <1>2, <1>o DEF PriorityWrite, Op
  <2> QED BY <1>2, <1>t, <2>1, <2>2 DEF PriorityWrite, TypeOK, listVars, settings, Op
<1>3. CASE InjectReads(th)
  BY <1>3, <1>t, <1>r DEF InjectReads, TypeOK, listVars, prioVars, settings, Op
<1>4. CASE AddSpan(th)
  BY <1>4, <1>t, <1>r, <1>s DEF AddSpan, Enlist, Starts, TypeOK, prioVars, settings, Op
<1>5. CASE PriorityCheck(th)
  <2>1. op' \in [Threads -> Op]
    BY <1>5, <1>r, <1>g DEF PriorityCheck
  <2> QED BY <1>5, <1>t, <2>1 DEF PriorityCheck, TypeOK, listVars, prioVars, settings, Op
<1>6. ASSUME NEW k \in TagKeys, TagWrite(th, k) PROVE TypeOK'
  <2>1. op' \in [Threads -> Op] /\ tags' \in [Spans -> SUBSET TagKeys]
    BY <1>6, <1>t, <1>r, <1>s DEF TagWrite, TypeOK
  <2> QED BY <1>6, <1>t, <2>1 DEF TagWrite, TypeOK, listVars, prioVars, settings, Op
<1>7. CASE CloseLocks(th)
  <2>1. op' \in [Threads -> Op] /\ locked' \in BOOLEAN
    BY <1>7, <1>t, <1>g DEF CloseLocks, LockSamplingPriority, TypeOK
  <2> QED BY <1>7, <1>t, <2>1 DEF CloseLocks, TypeOK, listVars, settings, Op
<1>8. CASE CloseDecrements(th)
  <2> DEFINE r == [Idle EXCEPT !.pc = "write", !.batch = spans]
  <2>1. r \in Op
    BY <1>t DEF Idle, Op, TypeOK
  <2>2. \/ op' = [op EXCEPT ![th] = r] /\ spans' = {}
        \/ Return(th) /\ spans' = spans
    BY <1>8 DEF CloseDecrements
  <2> HIDE DEF r
  <2>3. op' \in [Threads -> Op] /\ spans' \in SUBSET Spans
    BY <1>t, <1>o, <1>r, <2>1, <2>2 DEF TypeOK
  <2>4. openSpans' \in Nat
    BY <1>8, CloseDecrementsKeeps
  <2>5. decremented' \in SUBSET Spans
    BY <1>8, <1>t, <1>s DEF CloseDecrements, Closing, TypeOK
  <2> QED BY <1>8, <1>t, <2>3, <2>4, <2>5 DEF CloseDecrements, TypeOK, prioVars, settings, Op
<1>9. CASE CloseWrites(th)
  <2>1. op' \in [Threads -> Op] /\ writes' \in [Spans -> Nat]
    BY <1>9, <1>t, <1>r DEF CloseWrites, TypeOK
  <2> QED BY <1>9, <1>t, <2>1 DEF CloseWrites, TypeOK, prioVars, settings, Op
<1>10. ASSUME NEW s \in Spans, StartChild(th, s) PROVE TypeOK'
  <2>1. op' \in [Threads -> Op]
    BY <1>10, <1>t, <1>o DEF StartChild, Idle, Op, TypeOK
  <2> QED BY <1>10, <1>t, <2>1 DEF StartChild, TypeOK, listVars, prioVars, settings, Op
<1>11. CASE InjectLocks(th)
  <2>1. op' \in [Threads -> Op] /\ locked' \in BOOLEAN
    BY <1>11, <1>t, <1>g DEF InjectLocks, LockSamplingPriority, TypeOK
  <2> QED BY <1>11, <1>t, <2>1 DEF InjectLocks, TypeOK, listVars, settings, Op
<1>12. ASSUME NEW s \in Spans, NEW p \in Priorities, SetPriorityTag(th, s, p) PROVE TypeOK'
  <2>1. op' \in [Threads -> Op]
    BY <1>12, <1>t, <1>o DEF SetPriorityTag, Idle, Op, TypeOK
  <2>2. tagCalls' \in 0 .. MaxTagCalls
    BY <1>12, <1>t, TraceAssumption DEF SetPriorityTag, TypeOK
  <2> QED BY <1>12, <1>t, <2>1, <2>2 DEF SetPriorityTag, TypeOK, listVars, prioVars, settings, Op
<1>13. ASSUME NEW s \in Spans, SetTag(th, s) PROVE TypeOK'
  <2>1. op' \in [Threads -> Op]
    BY <1>13, <1>t, <1>o DEF SetTag, Idle, Op, TypeOK
  <2>2. tagCalls' \in 0 .. MaxTagCalls
    BY <1>13, <1>t, TraceAssumption DEF SetTag, TypeOK
  <2> QED BY <1>13, <1>t, <2>1, <2>2 DEF SetTag, TypeOK, listVars, prioVars, settings, Op
<1>14. ASSUME NEW s \in Spans, Finish(th, s) PROVE TypeOK'
  <2>1. op' \in [Threads -> Op] /\ isFinished' \in [Spans -> BOOLEAN]
    BY <1>14, <1>t, <1>o DEF Finish, Idle, Op, TypeOK
  <2> QED BY <1>14, <1>t, <2>1 DEF Finish, TypeOK, listVars, prioVars, settings, Op
<1> QED BY <1>1, <1>2, <1>3, <1>4, <1>5, <1>6, <1>7, <1>8, <1>9, <1>10, <1>11, <1>12, <1>13, <1>14
        DEF Call, Proceed
-----------------------------------------------------------------------------
\* The invariant holds when the trace is created.
LEMMA InitHolds == Init => IInv
<1> SUFFICES ASSUME Init PROVE IInv
  OBVIOUS
<1>1. /\ Idle.pc = "idle" /\ Idle.batch = {} /\ Idle \in Op
      /\ \A th \in Threads : op[th] = Idle
  BY DEF Init, Idle, Op
<1>2. \A s : InBatch(s) = {}
  BY <1>1 DEF InBatch
<1>3. TypeOK
  <2>1. op \in [Threads -> Op]
    BY <1>1 DEF Init
  <2>2. /\ isFinished \in [Spans -> BOOLEAN] /\ tags \in [Spans -> SUBSET TagKeys]
        /\ writes \in [Spans -> Nat] /\ tagCalls \in 0 .. MaxTagCalls
    BY TraceAssumption DEF Init
  <2>3. {parentPriority, globalPriority} \subseteq Priorities \cup {NoPriority}
    BY TraceAssumption DEF Init
  <2> QED BY <2>1, <2>2, <2>3 DEF Init, TypeOK, Op
<1>4. CountInv
  BY FS_EmptySet DEF Init, CountInv, OpenSpansExact
<1>5. ThreadInv /\ ApartInv /\ SpanInv
  BY <1>1 DEF Init, ThreadInv, ApartInv, SpanInv, Closing, Starts, Sets
<1>6. PlaceInv /\ PriorityFromFirstSpan
  BY <1>2 DEF Init, PlaceInv, PriorityFromFirstSpan
<1> QED BY <1>3, <1>4, <1>5, <1>6 DEF IInv

\* Every step keeps it.
LEMMA NextHolds == IInv /\ [Next]_vars => IInv'
<1> SUFFICES ASSUME IInv, [Next]_vars PROVE IInv'
  OBVIOUS
<1>1. ASSUME NEW th \in Threads, Call(th) \/ Proceed(th) PROVE IInv'
  BY <1>1, StepKeeps, PriorityKept, TypesKept DEF Kept, IInv
<1>2. CASE UNCHANGED vars
  <2>1. \A s : InBatch(s)' = InBatch(s)
    BY <1>2 DEF vars, InBatch
  <2> QED BY <1>2, <2>1 DEF vars, IInv, TypeOK, ThreadInv, ApartInv, SpanInv, CountInv,
        OpenSpansExact, PlaceInv, PriorityFromFirstSpan, Closing, Starts, Sets
<1> QED BY <1>1, <1>2 DEF Next

\* IInv holds throughout.
LEMMA Invariant == Spec => []IInv
  BY InitHolds, NextHolds, PTL DEF Spec

\* _openSpans counts the open spans, whatever calls of StartSpan and Finish
\* overlap, and from the first span on the trace has a priority for Inject and
\* CloseSpan to lock; only a context made for headers alone is sent without.
THEOREM CountHolds == Spec => []CountAndPriority
<1>1. IInv => CountAndPriority
  BY DEF IInv, CountInv, CountAndPriority
<1> QED BY <1>1, Invariant, PTL

\* Every span that AddSpan saw is in the list, in one taken batch, or written
\* once.
THEOREM WrittenOnce == Spec => []WrittenExactlyOnce
<1>1. IInv => WrittenExactlyOnce
  <2> SUFFICES ASSUME IInv, NEW s \in added PROVE
        \/ s \in spans /\ InBatch(s) = {} /\ writes[s] = 0
        \/ s \notin spans /\ Cardinality(InBatch(s)) = 1 /\ writes[s] = 0
        \/ s \notin spans /\ InBatch(s) = {} /\ writes[s] = 1
    BY DEF WrittenExactlyOnce
  <2>1. s \in Spans
    BY DEF IInv, SpanInv
  <2>2. \A th : Cardinality({th}) = 1
    BY FS_Singleton
  <2> QED BY <2>1, <2>2 DEF IInv, PlaceInv
<1> QED BY <1>1, Invariant, PTL

\* A trace leaves CloseSpan whole: all its spans have finished, and none stays
\* behind once no call is under way.
THEOREM WholeTraces == Spec => []WrittenWhole
<1>1. IInv => BatchFinished
  BY DEF IInv, PlaceInv, SpanInv, BatchFinished
<1>2. IInv => NothingStranded
  <2> SUFFICES ASSUME IInv, \A th \in Threads : op[th].pc = "idle",
                      \A s \in added : isFinished[s], NEW s \in added
               PROVE  writes[s] = 1
    BY DEF NothingStranded
  <2>1. added = decremented
    BY DEF IInv, SpanInv, Closing
  <2>2. spans = {} /\ s \in Spans
    BY <2>1 DEF IInv, CountInv, SpanInv
  <2>3. InBatch(s) = {}
    BY DEF IInv, ThreadInv, InBatch
  <2> QED BY <2>2, <2>3 DEF IInv, PlaceInv
<1> QED BY <1>1, <1>2, WrittenOnce, Invariant, PTL DEF WrittenWhole
-----------------------------------------------------------------------------
(***************************************************************************)
(* TraceContext implements TraceWriting.                                   *)
(***************************************************************************)

\* The variables of TraceWriting.
writingVars == <<added \ decremented, spans \cap decremented, Handed, {s \in Spans : writes[s] = 1}>>

\* A step outside of the write leaves alone what was handed over.
LEMMA HandedStays ==
    ASSUME NEW th \in Threads, StepOf(th), op[th].pc # "write", op'[th].pc # "write"
    PROVE  Handed' = Handed
<1>1. \A u \in Threads : op[u].pc = "write" => u # th /\ op'[u] = op[u]
  BY DEF StepOf
<1>2. \A u \in Threads : op'[u].pc = "write" => u # th /\ op'[u] = op[u]
  BY DEF StepOf
<1> QED BY <1>1, <1>2 DEF Handed

\* The steps that do not touch the list or its count are none of TraceWriting.
LEMMA QuietStutters ==
    ASSUME IInv, NEW th \in Threads,
           \/ InjectLocks(th) \/ InjectReads(th) \/ PriorityCheck(th) \/ PriorityWrite(th)
           \/ CloseLocks(th) \/ \E k \in TagKeys : TagWrite(th, k)
           \/ \E s \in Spans : StartChild(th, s) \/ SetTag(th, s) \/ Finish(th, s)
           \/ \E s \in Spans, p \in Priorities : SetPriorityTag(th, s, p)
    PROVE  UNCHANGED writingVars
<1>t. TypeOK
  BY DEF IInv
<1>1. UNCHANGED listVars /\ op[th].pc # "write"
  BY DEF InjectLocks, InjectReads, PriorityCheck, PriorityWrite, CloseLocks, TagWrite,
         StartChild, SetTag, Finish, SetPriorityTag, listVars
<1>2. StepOf(th) /\ op'[th].pc # "write"
  <2>i. Idle \in Op /\ Idle.pc = "idle"
    BY DEF Idle, Op
  <2>1. CASE Return(th)
    BY <2>1, <2>i, <1>t, ReturnSteps
  <2>2. ASSUME NEW pc \in {"startWrite", "add", "setWrite", "inject", "decrement"}, Goto(th, pc)
        PROVE  StepOf(th) /\ op'[th].pc # "write"
    BY <2>2, <1>t, GotoSteps
  <2>3. ASSUME NEW r \in Op, op' = [op EXCEPT ![th] = r], r.pc # "write"
        PROVE  StepOf(th) /\ op'[th].pc # "write"
    BY <2>3, <1>t, BeginSteps
  <2>4. CASE InjectLocks(th) \/ InjectReads(th) \/ PriorityCheck(th) \/ PriorityWrite(th)
             \/ CloseLocks(th) \/ \E k \in TagKeys : TagWrite(th, k)
    BY <2>1, <2>2, <2>4
    DEF InjectLocks, InjectReads, PriorityCheck, PriorityWrite, CloseLocks, TagWrite
  <2>5. ASSUME NEW s \in Spans, StartChild(th, s) PROVE StepOf(th) /\ op'[th].pc # "write"
    <3> DEFINE r == [Idle EXCEPT !.pc = IF globalPriority = NoPriority THEN "add" ELSE "startCheck",
                                 !.span = s, !.value = globalPriority]
    <3>1. r \in Op /\ r.pc # "write"
      BY <1>t DEF Idle, Op, TypeOK
    <3>2. op' = [op EXCEPT ![th] = r]
      BY <2>5 DEF StartChild
    <3> HIDE DEF r
    <3> QED BY <2>3, <3>1, <3>2
  <2>6. ASSUME NEW s \in Spans, SetTag(th, s) \/ Finish(th, s)
        PROVE  StepOf(th) /\ op'[th].pc # "write"
    <3> DEFINE r(pc) == [Idle EXCEPT !.pc = pc, !.span = s]
    <3>1. \A pc \in {"tag", "close"} : r(pc) \in Op /\ r(pc).pc # "write"
      BY DEF Idle, Op
    <3>2. \E pc \in {"tag", "close"} : op' = [op EXCEPT ![th] = r(pc)]
      BY <2>6 DEF SetTag, Finish
    <3> HIDE DEF r
    <3> QED BY <2>3, <3>1, <3>2
  <2>7. ASSUME NEW s \in Spans, NEW p \in Priorities, SetPriorityTag(th, s, p)
        PROVE  StepOf(th) /\ op'[th].pc # "write"
    <3> DEFINE r == [Idle EXCEPT !.pc = "setCheck", !.span = s, !.value = p]
    <3>1. r \in Op /\ r.pc # "write"
      BY DEF Idle, Op
    <3>2. op' = [op EXCEPT ![th] = r]
      BY <2>7 DEF SetPriorityTag
    <3> HIDE DEF r
    <3> QED BY <2>3, <3>1, <3>2
  <2> QED BY <2>4, <2>5, <2>6, <2>7
<1> QED BY <1>1, <1>2, HandedStays DEF listVars, writingVars

\* AddSpan, for the first span and for a child, is Start.
LEMMA EnlistStarts ==
    ASSUME IInv, NEW s \in Spans \ added, Enlist(s), UNCHANGED Handed
    PROVE  Writing!Start(s)
<1>1. s \notin spans /\ InBatch(s) = {} /\ writes[s] = 0 /\ s \notin decremented
  BY DEF IInv, PlaceInv, SpanInv
<1>2. s \notin UNION Handed
  BY <1>1 DEF Handed, InBatch
<1>3. (added \ decremented)' = (added \ decremented) \cup {s}
  BY <1>1 DEF Enlist
<1>4. (spans \cap decremented)' = spans \cap decremented
  BY <1>1 DEF Enlist
<1> QED BY <1>1, <1>2, <1>3, <1>4 DEF Writing!Start, Writing!Seen, Enlist

\* The locked part of CloseSpan is Close, or CloseLast for the last open span.
LEMMA DecrementCloses ==
    ASSUME IInv, NEW th \in Threads, CloseDecrements(th)
    PROVE  Writing!Close(op[th].span) \/ Writing!CloseLast(op[th].span)
<1> DEFINE s == op[th].span
           r == [Idle EXCEPT !.pc = "write", !.batch = spans]
<1>1. /\ op[th].pc = "decrement" /\ openSpans' = openSpans - 1
      /\ decremented' = decremented \cup {s} /\ added' = added /\ writes' = writes
  BY DEF CloseDecrements
<1>2. s \in added \ decremented /\ s \in spans /\ spans \subseteq added /\ decremented \subseteq added
  BY <1>1 DEF IInv, TypeOK, ThreadInv, PlaceInv, SpanInv, Closing
<1>3. openSpans' = 0 <=> added = decremented'
  BY <1>1, <1>2, DecrementCounts
<1>4. /\ r \in Op /\ r.pc = "write" /\ r.batch = spans
      /\ Idle.pc = "idle" /\ Idle.batch = {}
  BY DEF IInv, TypeOK, Idle, Op
<1>5. \/ /\ openSpans' = 0 /\ op' = [op EXCEPT ![th] = r] /\ spans' = {}
      \/ openSpans' # 0 /\ Return(th) /\ spans' = spans
  BY DEF CloseDecrements
<1> HIDE DEF r
<1>6. CASE openSpans' # 0
  <2>1. StepOf(th) /\ op'[th].pc = "idle"
    BY <1>4, <1>5, <1>6, ReturnSteps DEF IInv
  <2>2. Handed' = Handed
    BY <1>1, <2>1, HandedStays
  <2>3. (spans \cap decremented)' = (spans \cap decremented) \cup {s}
    BY <1>1, <1>2, <1>5, <1>6
  <2>4. added \ decremented # {s} /\ (added \ decremented)' = (added \ decremented) \ {s}
    BY <1>1, <1>2, <1>3, <1>6
  <2> QED BY <1>1, <1>2, <2>2, <2>3, <2>4 DEF Writing!Close
<1>7. CASE openSpans' = 0
  <2>1. StepOf(th) /\ op'[th].pc = "write" /\ op'[th].batch = spans
    BY <1>4, <1>5, <1>7, BeginSteps DEF IInv
  <2>2. \A u \in Threads : op'[u].pc = "write" <=> u = th \/ op[u].pc = "write"
    BY <2>1 DEF StepOf
  <2>3. \A u \in Threads : op[u].pc = "write" => u # th /\ op'[u] = op[u]
    BY <1>1 , <2>1 DEF StepOf
  <2>4. Handed' = Handed \cup {spans}
    BY <2>1, <2>2, <2>3 DEF Handed
  <2>5. spans = (spans \cap decremented) \cup {s}
    BY <1>1, <1>2, <1>3, <1>7
  <2>6. /\ added \ decremented = {s} /\ (added \ decremented)' = {}
        /\ (spans \cap decremented)' = {}
    BY <1>1, <1>2, <1>3, <1>5, <1>7
  <2> QED BY <1>1, <2>4, <2>5, <2>6 DEF Writing!CloseLast
<1> QED BY <1>6, <1>7

\* The call of the writer after the lock is Write of the list that was taken:
\* no other thread has the same.
LEMMA WriteWrites ==
    ASSUME IInv, NEW th \in Threads, CloseWrites(th)
    PROVE  \E b \in Handed : Writing!Write(b)
<1>b. PICK b : b = op[th].batch
  OBVIOUS
<1>1. /\ op[th].pc = "write" /\ Return(th)
      /\ UNCHANGED <<spans, added, decremented>>
      /\ writes' = [s \in Spans |-> IF s \in b THEN writes[s] + 1 ELSE writes[s]]
  BY <1>b DEF CloseWrites
<1>2. StepOf(th) /\ op'[th].pc = "idle"
  BY <1>1, ReturnSteps DEF IInv, Idle
<1>3. b # {} /\ b \subseteq Spans
  BY <1>b, <1>1 DEF IInv, ThreadInv, TypeOK
<1>4. \A s \in b : InBatch(s) = {th} /\ writes[s] = 0
  BY <1>b, <1>3 DEF IInv, PlaceInv, InBatch
<1>5. \A u \in Threads : u # th => op[u].batch # b
  BY <1>3, <1>4 DEF InBatch
<1>6. b \in Handed
  BY <1>b, <1>1 DEF Handed
<1>7. Handed' = Handed \ {b}
  <2>1. \A u \in Threads : op'[u].pc = "write" <=> u # th /\ op[u].pc = "write"
    BY <1>2 DEF StepOf
  <2>2. \A u \in Threads : u # th => op'[u] = op[u]
    BY <1>2 DEF StepOf
  <2> QED BY <1>b, <1>5, <2>1, <2>2 DEF Handed
<1>8. {s \in Spans : writes[s] = 1}' = {s \in Spans : writes[s] = 1} \cup b
  BY <1>1, <1>3, <1>4
<1> QED BY <1>1, <1>6, <1>7, <1>8 DEF Writing!Write

\* Every step of a thread is a step of TraceWriting, or none.
LEMMA WritingSteps ==
    IInv /\ [Next]_vars => [Writing!Next]_writingVars
<1> SUFFICES ASSUME IInv, [Next]_vars
             PROVE  Writing!Next \/ UNCHANGED writingVars
  OBVIOUS
<1>1. ASSUME NEW th \in Threads, NEW s \in Spans, StartRoot(th, s) PROVE Writing!Next
  <2>1. s \in Spans \ added /\ Enlist(s) /\ UNCHANGED Handed
    BY <1>1 DEF StartRoot, IInv, SpanInv, Handed
  <2> QED BY <2>1, EnlistStarts DEF Writing!Next
<1>2. ASSUME NEW th \in Threads, AddSpan(th) PROVE Writing!Next
  <2>1. /\ op[th].span \in Spans \ added /\ Enlist(op[th].span)
        /\ op[th].pc = "add" /\ Return(th)
    BY <1>2 DEF AddSpan, IInv, ThreadInv, Starts
  <2>2. StepOf(th) /\ op'[th].pc = "idle"
    BY <2>1, ReturnSteps DEF IInv, Idle
  <2>3. UNCHANGED Handed
    BY <2>1, <2>2, HandedStays
  <2> QED BY <2>1, <2>3, EnlistStarts DEF Writing!Next
<1>3. ASSUME NEW th \in Threads, CloseDecrements(th) PROVE Writing!Next
  <2>1. op[th].span \in Spans
    BY <1>3 DEF CloseDecrements, IInv, ThreadInv, SpanInv, Closing
  <2> QED BY <1>3, <2>1, DecrementCloses DEF Writing!Next
<1>4. ASSUME NEW th \in Threads, CloseWrites(th) PROVE Writing!Next
  BY <1>4, WriteWrites DEF Writing!Next
<1>5. CASE UNCHANGED vars
  BY <1>5 DEF vars, writingVars, Handed
<1> QED BY <1>1, <1>2, <1>3, <1>4, <1>5, QuietStutters DEF Next, Call, Proceed

\* At the start no span is anywhere.
LEMMA WritingInit == Init => Writing!Init
  BY DEF Init, Idle, Handed, Writing!Init

\* However the calls of StartSpan and Finish overlap, the span that leaves no
\* other open takes all that wait, and each taken list is written once
\* (TraceContext.CloseSpan).
THEOREM ContextImplementsWriting == Spec => ImplementsWriting
  BY WritingInit, WritingSteps, Invariant, PTL
  DEF Spec, ImplementsWriting, Writing!Spec, writingVars
=============================================================================
