----------------------------- MODULE Messaging -----------------------------
(***************************************************************************)
(* The RabbitMQ and Kafka wrappers of services that send each other        *)
(* messages through a broker: spans around the calls, their context in the *)
(* headers of the messages, and the trace's sampling decision with it.     *)
(*                                                                         *)
(* Each flow is one worker of a service of its own.  Its calls nest:       *)
(* a handler sends, a producer wraps another.  The broker may deliver a    *)
(* message to several services, again, or not at all: it keeps them all.   *)
(***************************************************************************)
EXTENDS Propagation, FiniteSets

CONSTANTS Flows,
          Foreign,      \* headers of messages from senders elsewhere
          MaxSpans,     \* bound: spans
          MaxDepth      \* bound: calls of a flow inside each other

ASSUME MessagingAssumption ==
    /\ MaxSpans \in Nat /\ MaxDepth \in Nat
    /\ Foreign \subseteq Headers

Ids == 1 .. MaxSpans

\* The priority that headers bring is that of the context in them: those of a
\* message sent on may also hold the flag of the trace it was received in.
OnePriority(h, p) == p.priority # Null /\ (h["flags"] = <<>> \/ h["sampled"] = <<>>)

\* Ids are random: a trace that started elsewhere has none of those that start
\* here.  Its sampling is decided once there too.
ASSUME ForeignAssumption ==
    \A kind \in {"B3", "W3C"}, g, h \in Foreign :
        LET p == Extract(kind, g)
            q == Extract(kind, h)
        IN p # Null => /\ p.trace \notin Ids
                       /\ q # Null /\ q.trace = p.trace /\ OnePriority(g, p) /\ OnePriority(h, q)
                            => (p.priority >= AutoKeep <=> q.priority >= AutoKeep)

VARIABLES
    propagator,     \* Tracer.Propagator, the same in all services
    spans,          \* spans in the order they were started
    priority,       \* TraceContext.SamplingPriority, by the trace's first span
    locked,         \* the traces whose priority is locked
    active,         \* per flow: the active span, 0 for none
    calls,          \* per flow: the calls under way, innermost last
    queue,          \* messages in the broker
    leaked,         \* history: flows in which a scope was left open
    exempt          \* history: traces whose priority did not come as it was sent

vars == <<propagator, spans, priority, locked, active, calls, queue,
          leaked, exempt>>

Next_ == Len(spans) + 1

Init ==
    /\ propagator \in {"B3", "W3C"}
    /\ spans = <<>> /\ locked = {} /\ leaked = {} /\ exempt = {}
    /\ priority = [l \in Ids |-> Null]
    /\ active = [f \in Flows |-> 0]
    /\ calls = [f \in Flows |-> <<>>]
    /\ queue = {[headers |-> h, from |-> 0] : h \in Foreign}

-----------------------------------------------------------------------------
(***************************************************************************)
(* Tracer.StartActive and Scope.Dispose.                                   *)
(***************************************************************************)

\* Mutant: the active span goes before the propagated context.
NewSpanUnderActive(f, p, kind, from) ==
    LET parent == active[f] IN
    [trace |-> IF parent # 0 THEN spans[parent].trace ELSE IF p # Null THEN p.trace ELSE Next_,
     parent |-> IF parent # 0 THEN parent ELSE IF p # Null THEN p.span ELSE 0,
     local |-> IF parent # 0 THEN spans[parent].local ELSE Next_,
     above |-> parent, kind |-> kind, from |-> from]

\* The span StartActive makes for flow f from the propagated context p, or from
\* the active one: `above' is the scope's parent, `local' stands for the trace
\* context, `from' the span whose message it receives.
NewSpan(f, p, kind, from) ==
    LET parent == active[f] IN
    [trace |-> IF p # Null THEN p.trace
               ELSE IF parent # 0 THEN spans[parent].trace ELSE Next_,
     parent |-> IF p # Null THEN p.span ELSE parent,
     local |-> IF p = Null /\ parent # 0 THEN spans[parent].local ELSE Next_,
     above |-> parent, kind |-> kind, from |-> from]

\* A trace that starts here has the priority that came with it, or the sampler's.
FirstPriority(s, p) ==
    IF s.local # Next_ THEN {priority[s.local]}
    ELSE IF p # Null /\ p.priority # Null THEN {p.priority}
    ELSE {AutoReject, AutoKeep}

Start(s, p) ==
    /\ Next_ \in Ids
    /\ spans' = Append(spans, s)
    /\ \E v \in FirstPriority(s, p) : priority' = [priority EXCEPT ![s.local] = v]

\* Their first sender followed what had been sent to it; others may have passed
\* them on as they were.
SentByFollower(h) ==
    \A m \in queue : m.headers = h /\ m.from # 0 => spans[m.from].local \notin exempt

PriorityCame(m, p) == p # Null => OnePriority(m.headers, p) /\ SentByFollower(m.headers)

\* A span that receives message m.
Receive(f, m, p, kind) ==
    LET s == NewSpan(f, p, kind, m.from) IN
    /\ Start(s, p)
    /\ exempt' = IF PriorityCame(m, p) THEN exempt ELSE exempt \cup {s.local}

ContextOf(s, id) ==
    [trace |-> s.trace, span |-> id, parent |-> s.parent,
     priority |-> priority'[s.local]]

Top(f) == calls[f][Len(calls[f])]
Push(f, call) == Len(calls[f]) < MaxDepth /\ calls' = [calls EXCEPT ![f] = Append(@, call)]
Pop(f) == calls' = [calls EXCEPT ![f] = SubSeq(@, 1, Len(@) - 1)]
InCall(f, kinds) == calls[f] # <<>> /\ Top(f).kind \in kinds

\* Mutant: the span's parent becomes active instead of the scope's.
DisposeToParent(f, id) ==
    /\ active' = [active EXCEPT ![f] = IF @ = id /\ id # 0 THEN spans[id].parent ELSE @]
    /\ locked' = IF id # 0 /\ spans[id].local = id THEN locked \cup {id} ELSE locked

\* Dispose: the scope above becomes active if this one is; a root that
\* finishes locks its trace's priority.
Dispose(f, id) ==
    /\ active' = [active EXCEPT ![f] = IF @ = id /\ id # 0 THEN spans[id].above ELSE @]
    /\ locked' = IF id # 0 /\ spans[id].local = id THEN locked \cup {id} ELSE locked

-----------------------------------------------------------------------------
(***************************************************************************)
(* The application: spans of its own, and a priority set by a tag.         *)
(***************************************************************************)

AppStarts(f) ==
    LET s == NewSpan(f, Null, "app", 0) IN
    /\ Start(s, Null)
    /\ Push(f, [kind |-> "app", span |-> Next_, from |-> 0, bare |-> FALSE,
               headers |-> NoHeaders])
    /\ active' = [active EXCEPT ![f] = Next_]
    /\ UNCHANGED <<propagator, locked, queue, leaked, exempt>>

AppEnds(f) ==
    /\ InCall(f, {"app"})
    /\ Dispose(f, Top(f).span) /\ Pop(f)
    /\ UNCHANGED <<propagator, spans, priority, queue, leaked, exempt>>

\* The tag sampling.priority on the active span; ignored once it is locked.  In
\* a trace that came from elsewhere it may go against what was sent.
SetPriority(f, v) ==
    /\ active[f] # 0
    /\ LET l == spans[active[f]].local IN
       /\ l \notin locked /\ priority[l] # v
       /\ priority' = [priority EXCEPT ![l] = v]
       /\ exempt' = IF spans[l].trace # l THEN exempt \cup {l} ELSE exempt
    /\ UNCHANGED <<propagator, spans, locked, active, calls, queue, leaked>>

-----------------------------------------------------------------------------
(***************************************************************************)
(* Sending: BasicPublish, and Produce or ProduceAsync.                     *)
(***************************************************************************)

\* The headers the application gives a message: none, or those of a message it
\* got from the broker, by one of these calls or otherwise.
Given == {NoHeaders} \cup {m.headers : m \in queue}

\* Mutant: Inject does not lock the priority.
SendWithoutLock(f, kind, h) ==
    LET s == NewSpan(f, Null, kind, 0) IN
    /\ Start(s, Null)
    /\ Push(f, [kind |-> kind, span |-> Next_, from |-> Next_, bare |-> FALSE,
                headers |-> Inject(propagator, ContextOf(s, Next_), h)])
    /\ active' = [active EXCEPT ![f] = Next_]
    /\ locked' = locked

\* A scope, and its context in the headers, with the priority locked.
Send(f, kind, h) ==
    LET s == NewSpan(f, Null, kind, 0) IN
    /\ Start(s, Null)
    /\ Push(f, [kind |-> kind, span |-> Next_, from |-> Next_, bare |-> FALSE,
                headers |-> Inject(propagator, ContextOf(s, Next_), h)])
    /\ active' = [active EXCEPT ![f] = Next_]
    /\ locked' = locked \cup {s.local}

\* A scope around a message in which nothing can be put, `bare': its priority
\* is not locked, and it leaves as the application gave it.
SendBare(f, kind, h) ==
    LET s == NewSpan(f, Null, kind, 0) IN
    /\ Start(s, Null)
    /\ Push(f, [kind |-> kind, span |-> Next_, from |-> 0, bare |-> TRUE, headers |-> h])
    /\ active' = [active EXCEPT ![f] = Next_]
    /\ UNCHANGED locked

\* Without properties there are no headers; properties that cannot be cast keep
\* theirs.
BasicPublish(f) ==
    /\ \E h \in Given : Send(f, "publish", h) \/ SendBare(f, "publish", h)
    /\ UNCHANGED <<propagator, queue, leaked, exempt>>

\* Mutant: every producer makes a span.
AlreadyInstrumentedNever(f) == FALSE

\* Mutant: any span but the application's own counts.
AlreadyInstrumentedByAny(f) == active[f] # 0 /\ spans[active[f]].kind # "app"

\* KafkaHelper.AlreadyInstrumented: the active span is one of these wrappers'.
AlreadyInstrumented(f) == active[f] # 0 /\ spans[active[f]].kind = "produce"

\* A message goes into a producer; one that wraps another passes on what it
\* got, `from' the span whose context it carries.  One without headers may be
\* one for which none can be made.
Produce(f) ==
    LET wrapped == InCall(f, {"produce"}) IN
    /\ \E h \in IF wrapped THEN {Top(f).headers} ELSE Given :
          IF AlreadyInstrumented(f)
          THEN /\ Push(f, [kind |-> "produce", span |-> 0, headers |-> h,
                          from |-> IF wrapped THEN Top(f).from ELSE 0,
                          bare |-> wrapped /\ Top(f).bare])
               /\ UNCHANGED <<spans, priority, locked, active>>
          ELSE \/ Send(f, "produce", h)
               \/ h = NoHeaders /\ SendBare(f, "produce", h)
    /\ UNCHANGED <<propagator, queue, leaked, exempt>>

\* After the scope was opened the priority is locked, the context goes into the
\* headers and the delegate is built: when a header cannot be set, or no
\* delegate made, the scope stays active, and the message does not leave.
ProduceNotBuilt(f) ==
    /\ ~AlreadyInstrumented(f)
    /\ LET s == NewSpan(f, Null, "produce", 0) IN
       Start(s, Null) /\ locked' = locked \cup {s.local}
    /\ active' = [active EXCEPT ![f] = Next_]
    /\ leaked' = leaked \cup {f}
    /\ UNCHANGED <<propagator, calls, queue, exempt>>

\* The original call ended; one that threw is one whose message nobody gets.
SendReturns(f) ==
    /\ InCall(f, {"publish", "produce"})
    /\ queue' = queue \cup {[headers |-> Top(f).headers, from |-> Top(f).from]}
    /\ Dispose(f, Top(f).span) /\ Pop(f)
    /\ UNCHANGED <<propagator, spans, priority, leaked, exempt>>

-----------------------------------------------------------------------------
(***************************************************************************)
(* Receiving: BasicDeliver, BasicGet and Consume.                          *)
(***************************************************************************)

\* BasicDeliver: the handler runs inside the scope.
BasicDeliver(f, m) ==
    /\ calls[f] = <<>>
    /\ Receive(f, m, Extract(propagator, m.headers), "receive")
    /\ Push(f, [kind |-> "receive", span |-> Next_, from |-> 0, bare |-> FALSE,
               headers |-> NoHeaders])
    /\ active' = [active EXCEPT ![f] = Next_]
    /\ UNCHANGED <<propagator, locked, queue, leaked>>

\* The handler returned or threw.
DeliverReturns(f) ==
    /\ InCall(f, {"receive"})
    /\ Dispose(f, Top(f).span) /\ Pop(f)
    /\ UNCHANGED <<propagator, spans, priority, queue, leaked, exempt>>

\* BasicGet and Consume make the span after the call and close it at once.
Pull(f, m) ==
    /\ Receive(f, m, Extract(propagator, m.headers), "receive")
    /\ locked' = IF spans'[Next_].local = Next_ THEN locked \cup {Next_} ELSE locked
    /\ UNCHANGED <<propagator, active, calls, queue, leaked>>

BasicGet(f, m) == Pull(f, m)

Consume(f, m) == ~AlreadyInstrumented(f) /\ Pull(f, m)

Next ==
    \E f \in Flows :
       \/ AppStarts(f) \/ AppEnds(f) \/ \E v \in {UserReject, UserKeep} : SetPriority(f, v)
       \/ BasicPublish(f) \/ Produce(f) \/ ProduceNotBuilt(f) \/ SendReturns(f)
       \/ DeliverReturns(f)
       \/ \E m \in queue : BasicDeliver(f, m) \/ BasicGet(f, m) \/ Consume(f, m)

Spec == Init /\ [][Next]_vars

-----------------------------------------------------------------------------
(***************************************************************************)
(* Properties.                                                             *)
(***************************************************************************)

\* The variables have their types, and a trace has a priority from its first
\* span on, so that the sender finds one to lock and to send.
TypeOK ==
    /\ propagator \in {"B3", "W3C"} /\ Len(spans) \in 0 .. MaxSpans
    /\ \A i \in DOMAIN spans : spans[i].local \in 1 .. i /\ spans[i].above \in 0 .. i - 1
    /\ priority \in [Ids -> Priorities \cup {Null}]
    /\ \A i \in DOMAIN spans : priority[spans[i].local] # Null
    /\ {locked, exempt} \subseteq SUBSET Ids /\ leaked \subseteq Flows
    /\ active \in [Flows -> 0 .. Len(spans)]
    /\ \A f \in Flows : Len(calls[f]) <= MaxDepth
    /\ \A m \in queue : m.from \in 0 .. Len(spans)

\* A span that receives a message is a child of the span that sent it, in the
\* sender's trace, even when the application sends with the headers of a
\* message it had received, and a producer wraps another
\* (RabbitMQIntegration.cs, lines 118 to 146 and 433 to 452).
ReceiverContinuesTrace ==
    \A i \in DOMAIN spans :
        spans[i].from # 0 =>
            /\ spans[i].parent = spans[i].from
            /\ spans[i].trace = spans[spans[i].from].trace

\* The services of one trace decide alike whether it is kept: the decision that
\* went out with a message stands (LockSamplingPriority in Inject), and it comes
\* back from the headers as it was, as far as keeping goes, unless a service
\* overrides it, the message brought none or it was sent with other headers too.
OneDecision ==
    \A i, j \in DOMAIN spans :
        (/\ spans[i].trace = spans[j].trace
         /\ {spans[i].local, spans[j].local} \cap exempt = {})
        => (priority[spans[i].local] >= AutoKeep <=> priority[spans[j].local] >= AutoKeep)

\* Producers that wrap each other make one span for the message they pass on
\* ("avoid multiple spans for the same logical operation", KafkaHelper.cs:54).
OneSpanPerProduce ==
    \A f \in Flows : \A i, j \in DOMAIN calls[f] :
        (/\ i < j /\ calls[f][i].kind = "produce" /\ calls[f][j].kind = "produce"
         /\ {calls[f][i].span, calls[f][j].span} \cap {0} = {})
        => \E k \in i + 1 .. j - 1 : calls[f][k].span # 0

\* A flow without a call under way has no active span, unless a producer failed
\* there between its scope and its call (ProduceKafkaIntegrationHelper.cs:39).
NothingLeftActive ==
    \A f \in Flows : calls[f] = <<>> /\ f \notin leaked => active[f] = 0

\* A message leaves with the context of the span made for it, however its calls
\* are nested, but for two cases: its properties or headers could not be had
\* (RabbitMQIntegration.cs:443, ProduceKafkaIntegrationHelper.cs:260), or it
\* leaves in a flow in which a producer that failed left its scope (:39), which
\* hides later ones.
SentWithContext ==
    [][\A f \in Flows, m \in queue' \ queue :
          calls'[f] # calls[f] /\ m.from = 0 => f \in leaked \/ Top(f).bare]_vars

\* Every call gives its flow back as it found it, the types included.
FlowsRestored == TypeOK /\ NothingLeftActive
=============================================================================
