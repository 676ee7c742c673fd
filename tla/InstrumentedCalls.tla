------------------------- MODULE InstrumentedCalls -------------------------
(***************************************************************************)
(* Calls of instrumented methods and the spans made for them: the wrappers *)
(* of WebRequestIntegration.cs, HttpMessageHandlerIntegration.cs and the   *)
(* ADO.NET integrations, with ScopeFactory.cs, Tracer.StartActive and the  *)
(* scope manager.                                                          *)
(*                                                                         *)
(* The profiler replaces a call by a call of a wrapper, which opens a      *)
(* scope, runs the original method and closes the scope.  Original methods *)
(* call each other (GetResponse uses an HttpClientHandler, ExecuteReader   *)
(* another ExecuteReader), so wrappers nest for one operation and only one *)
(* of them may make a span.  A request carries the context of its span in  *)
(* its headers; GetRequestStream needs one before there is a span.  An     *)
(* asynchronous call is a flow of its own.                                 *)
(***************************************************************************)
EXTENDS ScopeManager, Sequences, FiniteSets, SequencesExt

CONSTANTS
    WebRequests,   \* HttpWebRequest objects
    Messages,      \* HttpRequestMessage objects given to a handler
    Commands,      \* DbCommand objects
    Target,        \* per operation: its method and clean URL, or its
                   \* database type and statement
    Untraced,      \* requests with the header that switches tracing off
    Excluded,      \* requests to a host in OutboundHttpExcludedHosts
    MaxDepth       \* bound: wrappers nested in each other for one operation

Requests == WebRequests \cup Messages
Operations == Requests \cup Commands

ASSUME CallsAssumption ==
    /\ WebRequests \cap Messages = {}
    /\ Requests \cap Commands = {}
    /\ Scopes \cap Operations = {}
    /\ NoScope \notin Operations \cup [trace : Scopes \cup WebRequests,
                                     span : Scopes \cup WebRequests]
    /\ DOMAIN Target = Operations
    /\ \A r \in Requests, c \in Commands : Target[r] # Target[c]
    /\ Untraced \cup Excluded \subseteq Requests
    /\ MaxDepth \in Nat \ {0}

VARIABLES
    frames,    \* per flow: open wrappers and using blocks, innermost last
    kind,      \* per scope: the tag span.kind of its span
    context,   \* per scope: [trace, span] ids
    spanOf,    \* per scope: the operation it was made for, NoScope for none
    creating,  \* spans of requests that CreateOutboundHttpScope works on
    errors,    \* spans with Error set
    header,    \* per request: the context in its headers, NoScope for none
    wire,      \* per request: contexts the server has seen
    throwing,  \* flows in which an exception is on its way
    outcome,   \* per operation: "new", "running", "returned" or "threw"
    late       \* history: spans whose parent was finished when it was to be
               \* cleared of its span.kind

callVars == <<frames, kind, context, spanOf, creating, errors, header, wire,
              throwing, outcome, late>>
vars == <<scopeVars, callVars>>

Init ==
    /\ ScopeInit
    /\ frames = [f \in Flows |-> <<>>]
    /\ kind = [s \in Scopes |-> "none"]
    /\ context = [s \in Scopes |-> NoScope]
    /\ spanOf = [s \in Scopes |-> NoScope]
    /\ creating = {}
    /\ errors = {}
    /\ header = [r \in Requests |-> NoScope]
    /\ wire = [r \in Requests |-> {}]
    /\ throwing = {}
    /\ outcome = [o \in Operations |-> "new"]
    /\ late = {}

\* The innermost block of a flow.  Its original method or the application, if
\* the block is one of its own, runs when the scope has been made.
Innermost(f) ==
    IF frames[f] = <<>> THEN [op |-> NoScope, scope |-> NoScope]
    ELSE Last(frames[f])
InCall(f, o) == Innermost(f).op = o /\ Innermost(f).scope \notin creating
AppRuns(f) == f \in started \ throwing /\ InCall(f, NoScope)
Depth(f, o) == Cardinality({i \in DOMAIN frames[f] : frames[f][i].op = o})

Push(f, o, s) == frames' = [frames EXCEPT ![f] = Append(@, [op |-> o, scope |-> s])]
Pop(f) == frames' = [frames EXCEPT ![f] = Front(@)]

-----------------------------------------------------------------------------
\* Tracer.StartActive.

\* The ids of a context made while f runs: those of the active trace or a new
\* one (named by `fresh'), and the given span id.
ContextFor(f, fresh, id) ==
    [trace |-> IF active[f] = NoScope THEN fresh ELSE context[active[f]].trace,
     span  |-> id]

StartActive(f, s, o, k, id) ==
    /\ Activate(f, s)
    /\ context' = [context EXCEPT ![s] = ContextFor(f, s, id)]
    /\ spanOf' = [spanOf EXCEPT ![s] = o]
    /\ kind' = [kind EXCEPT ![s] = k]

\* A using block of the application or of a client library's integration
\* (whose spans are of kind client).
StartLocal(f, s, k) ==
    /\ AppRuns(f)
    /\ StartActive(f, s, NoScope, k, s)
    /\ Push(f, NoScope, s)
    /\ UNCHANGED <<creating, errors, header, wire, throwing, outcome, late>>

\* Dispose of a scope that finishes its span.
Dispose(f, s) ==
    /\ CloseCurrent(f, s) \/ CloseOther(f, s)
    /\ finished' = finished \cup {s}

EndLocal(f) ==
    /\ AppRuns(f)
    /\ frames[f] # <<>>
    /\ Dispose(f, Innermost(f).scope)
    /\ Pop(f)
    /\ UNCHANGED <<kind, context, spanOf, creating, errors, header, wire,
                   throwing, outcome, late>>

\* A task, a thread or an asynchronous call of the application.
ForkFlow(f, g) ==
    /\ AppRuns(f)
    /\ Fork(f, g)
    /\ UNCHANGED callVars

-----------------------------------------------------------------------------
\* ScopeFactory.

\* Mutant: any client span counts as the same request.
AnyClientScope(f, o) == active[f] # NoScope /\ kind[active[f]] = "client"

\* GetActiveHttpScope: the active span is of this request.
ActiveHttpScope(f, o) ==
    /\ active[f] # NoScope
    /\ kind[active[f]] = "client"
    /\ spanOf[active[f]] # NoScope
    /\ Target[spanOf[active[f]]] = Target[o]

\* CreateDbCommandScope compares type and statement with the active span's.
ActiveDbScope(f, o) ==
    /\ active[f] # NoScope
    /\ spanOf[active[f]] # NoScope
    /\ Target[spanOf[active[f]]] = Target[o]

\* The context of the request's active span or, outside of one, a new one.
CreateHttpSpanContext(f, o) ==
    IF ActiveHttpScope(f, o) THEN context[active[f]] ELSE ContextFor(f, o, o)

\* CreateOutboundHttpScope and CreateDbCommandScope return null.
Skips(f, o) ==
    IF o \in Commands THEN ActiveDbScope(f, o)
    ELSE o \in Untraced \cup Excluded \/ ActiveHttpScope(f, o)

\* Mutant: the parent keeps its span.kind.
KindsKept(s) == kind

\* The parent of a request's span is no client any more, unless it is finished
\* (SetTag ignores it then).
ParentCleared(s) ==
    [x \in Scopes |->
        IF x = parent[s] /\ kind[x] = "client" /\ x \notin finished
        THEN "none" ELSE kind[x]]

\* Mutant: the id GetRequestStream has sent is not used.
SpanIdAlwaysNew(f, s, o) == s

\* The outermost wrapper of a WebRequest takes over the id of a context that
\* GetRequestStream has put into the headers.
SpanIdFor(f, s, o) ==
    IF o \in WebRequests /\ ~InCall(f, o) /\ header[o] # NoScope
    THEN header[o].span ELSE s

-----------------------------------------------------------------------------
\* The wrappers.

\* A wrapper is entered from the application, or from the original method of
\* another wrapper of the same operation.
MayEnter(f, o) ==
    /\ f \in started \ throwing
    /\ \/ AppRuns(f) /\ outcome[o] = "new"
       \/ InCall(f, o) /\ Depth(f, o) < MaxDepth

\* The wrapper (GetRequestStream's too) finds no original method to call: its
\* exception reaches the caller before there is a scope, and the call has not
\* been made.
BuildFails(f, o) ==
    /\ MayEnter(f, o)
    /\ throwing' = throwing \cup {f}
    /\ UNCHANGED <<scopeVars, frames, kind, context, spanOf, creating, errors,
                   header, wire, outcome, late>>

Enter(f, o) ==
    /\ MayEnter(f, o)
    /\ outcome' = [outcome EXCEPT ![o] = "running"]
    /\ UNCHANGED <<errors, wire, throwing>>

\* The wrapper makes a span, a client, which for a request is not the end of it.
EnterTraced(f, o, s) ==
    /\ Enter(f, o)
    /\ ~Skips(f, o)
    /\ StartActive(f, s, o, "client", SpanIdFor(f, s, o))
    /\ creating' = IF o \in Requests THEN creating \cup {s} ELSE creating
    /\ Push(f, o, s)
    /\ UNCHANGED <<header, late>>

\* After StartActive, without a lock, the request's span makes its parent one
\* that is no client, which other flows may have finished meanwhile; then the
\* wrapper injects the context.
CreateOutboundHttpScope(f, o) ==
    LET s == Innermost(f).scope IN
    /\ Innermost(f).op = o
    /\ s \in creating
    /\ kind' = ParentCleared(s)
    /\ late' = IF parent[s] \in finished THEN late \cup {s} ELSE late
    /\ creating' = creating \ {s}
    /\ header' = [header EXCEPT ![o] = context[s]]
    /\ UNCHANGED <<scopeVars, frames, context, spanOf, errors, wire, throwing,
                   outcome>>

\* The wrapper calls the original method without a span.
EnterUntraced(f, o) ==
    /\ Enter(f, o)
    /\ Skips(f, o)
    /\ Push(f, o, NoScope)
    /\ UNCHANGED <<scopeVars, kind, context, spanOf, creating, header, late>>

\* GetRequestStream: a context without a span goes into the headers, and the
\* runtime may send them now.  Excluded hosts are not asked about.  One call
\* per request.
GetRequestStream(f, o, sends) ==
    /\ AppRuns(f)
    /\ outcome[o] = "new"
    /\ o \notin Untraced
    /\ header[o] = NoScope
    /\ header' = [header EXCEPT ![o] = CreateHttpSpanContext(f, o)]
    /\ wire' = IF sends THEN [wire EXCEPT ![o] = {header'[o]}] ELSE wire
    /\ UNCHANGED <<scopeVars, frames, kind, context, spanOf, creating, errors,
                   throwing, outcome, late>>

\* The original method sends the headers.
Transmit(f, r) ==
    /\ f \notin throwing
    /\ InCall(f, r)
    /\ wire[r] = {}
    /\ header[r] # NoScope
    /\ wire' = [wire EXCEPT ![r] = {header[r]}]
    /\ UNCHANGED <<scopeVars, frames, kind, context, spanOf, creating, errors,
                   header, throwing, outcome, late>>

\* The scope of the innermost wrapper is disposed of, if it has one.
Leave(f, o, how) ==
    LET s == Innermost(f).scope IN
    /\ InCall(f, o)
    /\ IF s = NoScope THEN UNCHANGED scopeVars ELSE Dispose(f, s)
    /\ Pop(f)
    /\ outcome' = IF Depth(f, o) = 1 THEN [outcome EXCEPT ![o] = how] ELSE outcome
    /\ UNCHANGED <<kind, context, spanOf, creating, header, wire, late>>

Return(f, o) ==
    /\ f \notin throwing
    /\ Leave(f, o, "returned")
    /\ UNCHANGED <<errors, throwing>>

\* Mutant: the scope is not in a using block.
ThrowWithoutDispose(f, o) ==
    /\ InCall(f, o)
    /\ Pop(f)
    /\ outcome' = IF Depth(f, o) = 1 THEN [outcome EXCEPT ![o] = "threw"] ELSE outcome
    /\ errors' = errors \cup ({Innermost(f).scope} \ {NoScope})
    /\ throwing' = throwing \cup {f}
    /\ UNCHANGED <<scopeVars, kind, context, spanOf, creating, header, wire, late>>

\* The original method throws, or an exception of a nested wrapper passes.
Throw(f, o) ==
    /\ Leave(f, o, "threw")
    /\ errors' = errors \cup ({Innermost(f).scope} \ {NoScope})
    /\ throwing' = throwing \cup {f}

\* The application, or an original method between two wrappers, catches it.
Catch(f) ==
    /\ f \in throwing
    /\ throwing' = throwing \ {f}
    /\ UNCHANGED <<scopeVars, frames, kind, context, spanOf, creating, errors,
                   header, wire, outcome, late>>

Next ==
    \E f \in Flows :
        \/ \E s \in Scopes, k \in {"none", "client"} : StartLocal(f, s, k)
        \/ EndLocal(f)
        \/ \E g \in Flows : ForkFlow(f, g)
        \/ \E o \in Operations :
              \/ \E s \in Scopes : EnterTraced(f, o, s)
              \/ CreateOutboundHttpScope(f, o)
              \/ EnterUntraced(f, o)
              \/ BuildFails(f, o)
              \/ Return(f, o)
              \/ Throw(f, o)
        \/ \E o \in WebRequests, sends \in BOOLEAN : GetRequestStream(f, o, sends)
        \/ \E r \in Requests : Transmit(f, r)
        \/ Catch(f)

Spec == Init /\ [][Next]_vars
-----------------------------------------------------------------------------
\* The types of the call state: a context has ids of scopes or of requests,
\* wrappers of one operation nest no deeper than the bound.
TypeOK ==
    /\ ScopeTypeOK
    /\ kind \in [Scopes -> {"none", "client"}]
    /\ LET Contexts == [trace : Scopes \cup WebRequests,
                        span : Scopes \cup WebRequests] IN
       /\ \A s \in Opened : context[s] \in Contexts
       /\ header \in [Requests -> Contexts \cup {NoScope}]
       /\ wire \in [Requests -> SUBSET Contexts]
    /\ spanOf \in [Scopes -> Operations \cup {NoScope}]
    /\ errors \cup late \cup creating \subseteq Opened
    /\ throwing \subseteq started
    /\ outcome \in [Operations -> {"new", "running", "returned", "threw"}]
    /\ \A f \in Flows :
          /\ \A i \in DOMAIN frames[f] :
                frames[f][i] \in [op : Operations \cup {NoScope},
                                  scope : Scopes \cup {NoScope}]
          /\ \A o \in Operations : Depth(f, o) <= MaxDepth

SpansOf(o) == {s \in Scopes : spanOf[s] = o}
Ended(o) == outcome[o] \in {"returned", "threw"}

\* However many wrappers an operation goes through, and whatever client span
\* it runs under, it gets one span, which is finished when the call is over;
\* it gets none if tracing is switched off for it.
OneSpanPerOperation ==
    \A o \in Operations :
        /\ Cardinality(SpansOf(o)) <= 1
        /\ o \in Untraced \cup Excluded => SpansOf(o) = {}
        /\ Ended(o) /\ o \notin Untraced \cup Excluded =>
              SpansOf(o) # {} /\ SpansOf(o) \subseteq finished

\* s is the scope of the innermost block that has one, or the one from outside.
OfInnermost(blocks, outside, s) ==
    \/ \E i \in DOMAIN blocks :
          /\ blocks[i].scope = s /\ s # NoScope
          /\ \A j \in DOMAIN blocks : j > i => blocks[j].scope = NoScope
    \/ /\ s = outside
       /\ \A j \in DOMAIN blocks : blocks[j].scope = NoScope

\* The wrappers leave the application the active scope it had: in every flow
\* the active scope is that of the innermost open block, also while an
\* exception unwinds them and after other flows have closed theirs.
ActiveIsInnermost ==
    \A f \in started : OfInnermost(frames[f], inherited[f], active[f])

\* "Only the span responsible for propagated context should have client
\* span.kind": when the span of a request has been made, the one above it is
\* no client, and no other flow makes it one again.  The one case left is a
\* parent that was finished before it could be cleared, by another flow
\* between StartActive and SetTag or earlier; its tags no longer change.
OneClientOnThePath ==
    \A s \in Opened \ (creating \cup late) :
        spanOf[s] \in Requests /\ parent[s] # NoScope =>
            kind[parent[s]] # "client"

\* The error is on the span of every operation that threw and on no other,
\* though inner wrappers throw without a span and exceptions are caught on
\* the way.
ErrorsMatchOutcome ==
    \A o \in Operations : Ended(o) =>
        \A s \in SpansOf(o) : s \in errors <=> outcome[o] = "threw"

\* The span id a server was told is that of a span that is recorded for this
\* very request, also when it was sent by GetRequestStream before there was
\* a span.
WireSpanRecorded ==
    \A r \in Requests \ Excluded : Ended(r) =>
        \A c \in wire[r] : \E s \in SpansOf(r) \cap finished :
            context[s].span = c.span

\* Wrappers and blocks nest as the calls do (Scope.cs lines 41 to 65).
CallsNested == TypeOK /\ ActiveIsInnermost

\* An operation is told by its one span: that it happened and how it ended
\* (ScopeFactory.cs lines 99 to 187 and the wrappers' catch blocks).
OperationsTold == OneSpanPerOperation /\ ErrorsMatchOutcome
=============================================================================
