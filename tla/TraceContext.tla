---------------------------- MODULE TraceContext ----------------------------
(***************************************************************************)
(* One trace: TraceContext.cs with the spans that belong to it (Span.cs)   *)
(* and the parts of Tracer.cs and of the propagators that work on it.      *)
(*                                                                         *)
(* Application threads start children, set tags, finish spans and inject   *)
(* headers concurrently.  lock (_spans), lock (_lock) and lock (_tagsLock) *)
(* make single steps; everything the code does outside them is a step of   *)
(* its own, `op' says where a thread is.  A child's StartSpan can only run *)
(* once the root's has returned: until then nobody has the TraceContext.   *)
(***************************************************************************)
EXTENDS Integers, FiniteSets

CONSTANTS
    Threads, Spans, NoSpan,
    NoPriority,          \* a null SamplingPriority?
    ParentPriorities,    \* priorities a propagated parent may carry, or NoPriority
    GlobalTagPriorities, \* what a special key in Settings.GlobalTags asks for,
                         \* or NoPriority
    TagKeys,             \* ordinary tag keys
    MaxTagCalls          \* bound: SetTag calls in a behaviour

\* SamplingPriority.cs
Priorities == {"UserReject", "AutoReject", "AutoKeep", "UserKeep"}

ASSUME TraceAssumption ==
    /\ NoPriority \notin Priorities
    /\ NoSpan \notin Spans
    /\ ParentPriorities \subseteq Priorities \cup {NoPriority}
    /\ GlobalTagPriorities \subseteq Priorities \cup {NoPriority}
    /\ MaxTagCalls \in Nat
    /\ IsFiniteSet(Spans)

VARIABLES
    rootSpan, spans, openSpans,     \* RootSpan, _spans, _openSpans
    samplingPriority, locked,       \* _samplingPriority, _samplingPriorityLocked
    isFinished,                     \* per span
    tags,                           \* per span: keys present in Tags
    op,                             \* per thread: the call in progress
    parentPriority, globalPriority, \* how this trace was started, settings
    bare,                           \* made by CreateHttpSpanContext, to be
                                    \* injected ahead of any span
    tagCalls,                       \* bound counter
    added, decremented,             \* history: spans through AddSpan, CloseSpan
    writes,                         \* history: per span, how often written
    headers                         \* history: priorities put in headers

vars == <<rootSpan, spans, openSpans, samplingPriority, locked, isFinished,
          tags, op, parentPriority, globalPriority, bare, tagCalls, added,
          decremented, writes, headers>>

prioVars == <<samplingPriority, locked>>
listVars == <<rootSpan, spans, openSpans, added, decremented, writes>>
settings == <<parentPriority, globalPriority, bare>>

Idle == [pc |-> "idle", span |-> NoSpan, value |-> NoPriority, batch |-> {}]

Init ==
    /\ rootSpan = NoSpan
    /\ spans = {}
    /\ openSpans = 0
    /\ samplingPriority = NoPriority
    /\ locked = FALSE
    /\ isFinished = [s \in Spans |-> FALSE]
    /\ tags = [s \in Spans |-> {}]
    /\ op = [th \in Threads |-> Idle]
    /\ parentPriority \in ParentPriorities
    /\ globalPriority \in GlobalTagPriorities
    /\ bare \in BOOLEAN
    /\ tagCalls = 0
    /\ added = {}
    /\ decremented = {}
    /\ writes = [s \in Spans |-> 0]
    /\ headers = {}

Goto(th, pc) == op' = [op EXCEPT ![th].pc = pc]

Return(th) == op' = [op EXCEPT ![th] = Idle]

-----------------------------------------------------------------------------
\* Starting spans.

\* AddSpan's list part, for any span.
Enlist(s) ==
    /\ spans' = spans \cup {s}
    /\ openSpans' = openSpans + 1
    /\ added' = added \cup {s}
    /\ UNCHANGED <<decremented, writes>>

\* The priority the trace has when its first span is added: that of the
\* propagated parent (CreateSpanContext sets it), replaced by a special global
\* tag on the new span, and the sampler's if that leaves none.
FirstPriority ==
    IF globalPriority # NoPriority THEN {globalPriority}
    ELSE IF parentPriority # NoPriority THEN {parentPriority}
    ELSE {"AutoKeep", "AutoReject"}

\* StartSpan for the first span of the trace: CreateSpanContext makes the
\* TraceContext, AddSpan finds RootSpan null.  By then _samplingPriority is not
\* null when the parent had one, so the branch that locks it is not taken.  The
\* TraceContext that CreateHttpSpanContext makes never comes here: GetResponse
\* takes the span id from the headers and starts its span in another one.
StartRoot(th, s) ==
    /\ op[th].pc = "idle"
    /\ rootSpan = NoSpan
    /\ ~bare
    /\ rootSpan' = s
    /\ samplingPriority' \in FirstPriority
    /\ Enlist(s)
    /\ UNCHANGED <<locked, isFinished, tags, op, settings, tagCalls, headers>>

Starting == {op[th].span : th \in {t \in Threads : op[t].pc \in {"startCheck", "startWrite", "add"}}}

\* StartSpan for a child: applying the global tags calls SetTag, whose special
\* keys go through the SamplingPriority setter.
StartChild(th, s) ==
    /\ op[th].pc = "idle"
    /\ rootSpan # NoSpan
    /\ s \notin added \cup Starting
    /\ op' = [op EXCEPT ![th] =
                [Idle EXCEPT !.pc = IF globalPriority = NoPriority THEN "add"
                                    ELSE "startCheck",
                             !.span = s, !.value = globalPriority]]
    /\ UNCHANGED <<listVars, prioVars, isFinished, tags, settings, tagCalls, headers>>

\* AddSpan for a child, under lock (_spans).
AddSpan(th) ==
    /\ op[th].pc = "add"
    /\ Enlist(op[th].span)
    /\ Return(th)
    /\ UNCHANGED <<rootSpan, prioVars, isFinished, tags, settings, tagCalls, headers>>

-----------------------------------------------------------------------------
\* The SamplingPriority setter: read the flag, then write, without a lock.

PriorityCheck(th) ==
    /\ op[th].pc \in {"setCheck", "startCheck"}
    /\ IF op[th].pc = "setCheck"
       THEN IF locked THEN Return(th) ELSE Goto(th, "setWrite")
       ELSE Goto(th, IF locked THEN "add" ELSE "startWrite")
    /\ UNCHANGED <<listVars, prioVars, isFinished, tags, settings, tagCalls, headers>>

PriorityWrite(th) ==
    /\ op[th].pc \in {"setWrite", "startWrite"}
    /\ samplingPriority' = op[th].value
    /\ IF op[th].pc = "setWrite" THEN Return(th) ELSE Goto(th, "add")
    /\ UNCHANGED <<listVars, locked, isFinished, tags, settings, tagCalls, headers>>

\* LockSamplingPriority: only a warning while the priority is null.
LockSamplingPriority == locked' = (locked \/ samplingPriority # NoPriority)

\* A propagator's Inject: lock the priority, then read it into the headers.
\* GetRequestStream with no scope active injects from a TraceContext that has
\* neither span nor priority.
InjectLocks(th) ==
    /\ op[th].pc = "idle"
    /\ rootSpan # NoSpan \/ bare
    /\ LockSamplingPriority
    /\ Goto(th, "inject")
    /\ UNCHANGED <<listVars, samplingPriority, isFinished, tags, settings, tagCalls, headers>>

InjectReads(th) ==
    /\ op[th].pc = "inject"
    /\ headers' = headers \cup {samplingPriority}
    /\ Return(th)
    /\ UNCHANGED <<listVars, prioVars, isFinished, tags, settings, tagCalls>>

-----------------------------------------------------------------------------
\* SetTag on a started span: IsFinished is read first, without a lock.

SetPriorityTag(th, s, p) ==
    /\ op[th].pc = "idle"
    /\ s \in added
    /\ tagCalls < MaxTagCalls
    /\ tagCalls' = tagCalls + 1
    /\ ~isFinished[s]
    /\ op' = [op EXCEPT ![th] = [Idle EXCEPT !.pc = "setCheck", !.span = s, !.value = p]]
    /\ UNCHANGED <<listVars, prioVars, isFinished, tags, settings, headers>>

SetTag(th, s) ==
    /\ op[th].pc = "idle"
    /\ s \in added
    /\ tagCalls < MaxTagCalls
    /\ tagCalls' = tagCalls + 1
    /\ ~isFinished[s]
    /\ op' = [op EXCEPT ![th] = [Idle EXCEPT !.pc = "tag", !.span = s]]
    /\ UNCHANGED <<listVars, prioVars, isFinished, tags, settings, headers>>

\* The change itself, under lock (_tagsLock): a null value removes the key.
TagWrite(th, k) ==
    /\ op[th].pc = "tag"
    /\ \/ tags' = [tags EXCEPT ![op[th].span] = @ \cup {k}]
       \/ tags' = [tags EXCEPT ![op[th].span] = @ \ {k}]
    /\ Return(th)
    /\ UNCHANGED <<listVars, prioVars, isFinished, settings, tagCalls, headers>>

-----------------------------------------------------------------------------
\* Finish and CloseSpan.

\* Mutant: Finish does not look at IsFinished.
FinishUnguarded(th, s) ==
    /\ op[th].pc = "idle"
    /\ s \in added
    /\ isFinished' = [isFinished EXCEPT ![s] = TRUE]
    /\ op' = [op EXCEPT ![th] = [Idle EXCEPT !.pc = "close", !.span = s]]
    /\ UNCHANGED <<listVars, prioVars, tags, settings, tagCalls, headers>>

\* Finish, under lock (_lock): the first call sets IsFinished and goes on to
\* CloseSpan, any later one returns.
Finish(th, s) ==
    /\ op[th].pc = "idle"
    /\ s \in added
    /\ ~isFinished[s]
    /\ isFinished' = [isFinished EXCEPT ![s] = TRUE]
    /\ op' = [op EXCEPT ![th] = [Idle EXCEPT !.pc = "close", !.span = s]]
    /\ UNCHANGED <<listVars, prioVars, tags, settings, tagCalls, headers>>

\* CloseSpan: the root span locks the priority.
CloseLocks(th) ==
    /\ op[th].pc = "close"
    /\ IF op[th].span = rootSpan THEN LockSamplingPriority ELSE UNCHANGED locked
    /\ Goto(th, "decrement")
    /\ UNCHANGED <<listVars, samplingPriority, isFinished, tags, settings, tagCalls, headers>>

\* Mutant: the list is taken but not cleared.
DecrementWithoutClear(th) ==
    /\ op[th].pc = "decrement"
    /\ openSpans' = openSpans - 1
    /\ decremented' = decremented \cup {op[th].span}
    /\ IF openSpans' = 0
       THEN op' = [op EXCEPT ![th] = [Idle EXCEPT !.pc = "write", !.batch = spans]]
       ELSE Return(th)
    /\ UNCHANGED <<spans, rootSpan, added, writes, prioVars, isFinished, tags, settings, tagCalls, headers>>

\* Mutant: the trace is written when the root span closes.
DecrementRootWrites(th) ==
    /\ op[th].pc = "decrement"
    /\ openSpans' = openSpans - 1
    /\ decremented' = decremented \cup {op[th].span}
    /\ IF op[th].span = rootSpan
       THEN /\ op' = [op EXCEPT ![th] = [Idle EXCEPT !.pc = "write", !.batch = spans]]
            /\ spans' = {}
       ELSE Return(th) /\ UNCHANGED spans
    /\ UNCHANGED <<rootSpan, added, writes, prioVars, isFinished, tags, settings, tagCalls, headers>>

\* Mutant: the trace is only written if the root span is the last to close.
DecrementRootLast(th) ==
    /\ op[th].pc = "decrement"
    /\ openSpans' = openSpans - 1
    /\ decremented' = decremented \cup {op[th].span}
    /\ IF openSpans' = 0 /\ op[th].span = rootSpan
       THEN /\ op' = [op EXCEPT ![th] = [Idle EXCEPT !.pc = "write", !.batch = spans]]
            /\ spans' = {}
       ELSE Return(th) /\ UNCHANGED spans
    /\ UNCHANGED <<rootSpan, added, writes, prioVars, isFinished, tags, settings, tagCalls, headers>>

\* CloseSpan, under lock (_spans): the last open span takes the whole list.
CloseDecrements(th) ==
    /\ op[th].pc = "decrement"
    /\ openSpans' = openSpans - 1
    /\ decremented' = decremented \cup {op[th].span}
    /\ IF openSpans' = 0
       THEN /\ op' = [op EXCEPT ![th] = [Idle EXCEPT !.pc = "write", !.batch = spans]]
            /\ spans' = {}
       ELSE Return(th) /\ UNCHANGED spans
    /\ UNCHANGED <<rootSpan, added, writes, prioVars, isFinished, tags, settings, tagCalls, headers>>

\* CloseSpan, after the lock: Tracer.Write(spansToWrite).
CloseWrites(th) ==
    /\ op[th].pc = "write"
    /\ writes' = [s \in Spans |-> IF s \in op[th].batch THEN writes[s] + 1 ELSE writes[s]]
    /\ Return(th)
    /\ UNCHANGED <<rootSpan, spans, openSpans, added, decremented, prioVars, isFinished, tags, settings, tagCalls, headers>>

\* What a thread inside a call does next.
Proceed(th) ==
    \/ AddSpan(th) \/ PriorityCheck(th) \/ PriorityWrite(th) \/ InjectReads(th)
    \/ \E k \in TagKeys : TagWrite(th, k)
    \/ CloseLocks(th) \/ CloseDecrements(th) \/ CloseWrites(th)

Call(th) ==
    \/ \E s \in Spans : StartRoot(th, s) \/ StartChild(th, s)
    \/ InjectLocks(th)
    \/ \E s \in Spans, p \in Priorities : SetPriorityTag(th, s, p)
    \/ \E s \in Spans : SetTag(th, s) \/ Finish(th, s)

Next == \E th \in Threads : Call(th) \/ Proceed(th)

Spec == Init /\ [][Next]_vars

\* A thread inside a call gets on with it; nothing makes it call Finish.
FairSpec == Spec /\ \A th \in Threads : WF_vars(Proceed(th))
-----------------------------------------------------------------------------
\* The types of the state; _openSpans never goes below zero.
TypeOK ==
    /\ rootSpan \in Spans \cup {NoSpan}
    /\ spans \in SUBSET Spans
    /\ openSpans \in Nat
    /\ samplingPriority \in Priorities \cup {NoPriority}
    /\ locked \in BOOLEAN
    /\ isFinished \in [Spans -> BOOLEAN]
    /\ tags \in [Spans -> SUBSET TagKeys]
    /\ op \in [Threads -> [pc : {"idle", "startCheck", "startWrite", "add",
                                "setCheck", "setWrite", "inject", "tag",
                                "close", "decrement", "write"},
                           span : Spans \cup {NoSpan},
                           value : Priorities \cup {NoPriority},
                           batch : SUBSET Spans]]
    /\ parentPriority \in Priorities \cup {NoPriority}
    /\ globalPriority \in Priorities \cup {NoPriority}
    /\ bare \in BOOLEAN
    /\ tagCalls \in 0 .. MaxTagCalls
    /\ added \in SUBSET Spans
    /\ decremented \in SUBSET Spans
    /\ writes \in [Spans -> Nat]
    /\ headers \in SUBSET (Priorities \cup {NoPriority})

InBatch(s) == {th \in Threads : s \in op[th].batch}

\* _openSpans is the number of spans that were added and have not gone through
\* CloseSpan, however Finish calls on several threads interleave.
OpenSpansExact == openSpans = Cardinality(added \ decremented)

\* Every span that was added is in exactly one of three places: the list, one
\* taken batch on its way to Write, or written (once): none is lost when a
\* child starts while the last span closes, none is written twice.
WrittenExactlyOnce ==
    \A s \in added :
        \/ s \in spans /\ InBatch(s) = {} /\ writes[s] = 0
        \/ s \notin spans /\ Cardinality(InBatch(s)) = 1 /\ writes[s] = 0
        \/ s \notin spans /\ InBatch(s) = {} /\ writes[s] = 1

\* A span leaves the list only when it is finished: no batch and no written
\* trace holds a span that is still open.
BatchFinished ==
    \A s \in Spans : (writes[s] > 0 \/ InBatch(s) # {}) => isFinished[s]

\* When no call is in progress and every started span is finished, all of them
\* are written: the list never keeps a closed trace.
NothingStranded ==
    ((\A th \in Threads : op[th].pc = "idle") /\ \A s \in added : isFinished[s])
        => \A s \in added : writes[s] = 1

\* The trace has a priority from its first span on: Inject and the end of the
\* root span lock it and put it in the headers, whatever other threads set or
\* start meanwhile.  The one header without a priority, and the one "Cannot
\* lock" warning (TraceContext.cs:118), are those of a context that
\* GetRequestStream made for its headers alone (WebRequestIntegration.cs:87),
\* and no span ever joins such a trace here.
PriorityFromFirstSpan ==
    /\ rootSpan # NoSpan => samplingPriority # NoPriority
    /\ NoPriority \in headers => bare /\ added = {}

\* A finished span is written, or waits for a span that is still open or
\* starting.
FinishedLeadsToWritten ==
    \A s \in Spans :
        isFinished[s] ~> (writes[s] = 1 \/ \E r \in added : ~isFinished[r])

\* "lock sampling priority when a span is started from a propagated trace"
\* (TraceContext.cs): with no priority in the global tags, a trace that was
\* started from a propagated priority keeps it.
PropagatedPriorityKept ==
    (rootSpan # NoSpan /\ parentPriority # NoPriority /\ globalPriority = NoPriority)
        => samplingPriority = parentPriority

\* The counter agrees with the spans, and whatever is sent for a trace that has
\* spans carries its priority (lines 54 to 124): the state the two properties on
\* writing rest on.
CountAndPriority == TypeOK /\ OpenSpansExact /\ PriorityFromFirstSpan

\* A trace is written once and whole: after its spans have finished, and then
\* all of them (CloseSpan, lines 95 to 112).
WrittenWhole == WrittenExactlyOnce /\ BatchFinished /\ NothingStranded

\* The taken lists that are still to be written.
Handed == {op[th].batch : th \in {t \in Threads : op[t].pc = "write"}}

Writing == INSTANCE TraceWriting WITH
    open <- added \ decremented, closed <- spans \cap decremented,
    handed <- Handed, written <- {s \in Spans : writes[s] = 1}

\* The count under its lock, the flag under another and the write under none
\* (Span.Finish, AddSpan, CloseSpan lines 74 to 112) together do what
\* TraceWriting promises: the span that leaves no other open hands over all
\* closed ones, though a child may start and end between the lock and the write.
ImplementsWriting == Writing!Spec
=============================================================================
