--------------------------- MODULE LogCorrelation ---------------------------
(***************************************************************************)
(* Logging/LibLogScopeEventSubscriber.cs on top of ScopeManager: every     *)
(* scope event pushes or disposes logging contexts.  The subscriber keeps  *)
(* one disposal stack for the whole process, while a logging context       *)
(* belongs to a flow.  The handlers run inside Activate and Close without  *)
(* a lock, so that those of several flows interleave: `handler' says where *)
(* each is.  A flow does nothing else until its handler has returned, and  *)
(* nobody else reads its Active, so that it makes no difference that       *)
(* SpanOpened is raised before Activate sets Active.                       *)
(*                                                                         *)
(* The four contexts of one span (trace id, span id, service, environment) *)
(* are one element of the stack.  They are pushed and popped one by one in *)
(* the code, but a flow disposes of another's only to set all its own, and *)
(* a handler that fails between two of them leaves at most its own.        *)
(*                                                                         *)
(* The logging libraries are external.  Opening a context gives back a     *)
(* disposable that restores, in the flow that disposes it, what the        *)
(* opening flow had: in Serilog ("stack") the whole enricher stack, in the *)
(* map-based libraries ("map") the absence of the keys.                    *)
(***************************************************************************)
EXTENDS ScopeManager, Sequences, SequencesExt

CONSTANTS Providers,   \* kinds of logging library: "stack" (Serilog), "map"
          MayThrow     \* OpenMappedContext may throw

ASSUME LogAssumption ==
    Providers \subseteq {"stack", "map"} /\ MayThrow \in BOOLEAN

VARIABLES
    provider, \* _logProvider, fixed when the subscriber is made
    ctx,      \* per flow: the correlation contexts its log lines carry
    stack,    \* _contextDisposalStack: what each disposable restores; history:
              \* who pushed it and whether correlation was given up by then
    safe,     \* _safeToAddToMdc
    handler   \* per flow: the handler in progress and the scope it is to show

logVars == <<active, parent, opener, closes, finished, started, inherited,
          nested, provider, ctx, stack, safe, handler>>

NoHandler == [pc |-> "none", scope |-> NoScope]

LogInit ==
    /\ ScopeInit
    /\ provider \in Providers
    /\ ctx = [f \in Flows |-> <<>>]
    /\ stack = <<>>
    /\ safe = TRUE
    /\ handler = [f \in Flows |-> NoHandler]

MoveTo(f, pc) == handler' = [handler EXCEPT ![f].pc = pc]

HandlerReturns(f) == handler' = [handler EXCEPT ![f] = NoHandler]

Handling(f, pc) == handler[f].pc = pc /\ UNCHANGED <<scopeVars, provider>>

\* TryPop and Dispose, whoever pushed the context.
DisposeTop(f) ==
    /\ stack # <<>>
    /\ ctx' = [ctx EXCEPT ![f] = Last(stack).restores]
    /\ stack' = Front(stack)

\* OpenMappedContext and Push.
PushContexts(f) ==
    LET c == IF provider = "stack" THEN ctx[f] ELSE <<>> IN
    /\ ctx' = [ctx EXCEPT ![f] = Append(c, handler[f].scope)]
    /\ stack' = Append(stack, [restores |-> c, by |-> f, late |-> ~safe])

\* Mutant: the context is popped but not disposed of.
RemoveLastNoDispose(f) ==
    /\ Handling(f, "removeLast")
    /\ stack' = IF stack = <<>> THEN stack ELSE Front(stack)
    /\ HandlerReturns(f)
    /\ UNCHANGED <<safe, ctx>>

RemoveLastCorrelationIdentifierContext(f) ==
    /\ Handling(f, "removeLast")
    /\ DisposeTop(f) \/ (stack = <<>> /\ UNCHANGED <<ctx, stack>>)
    /\ HandlerReturns(f)
    /\ UNCHANGED safe

\* RemoveAllCorrelationIdentifierContexts: TryPop until it finds the stack
\* empty, either before the new contexts are set or in the catch block.
RemoveOne(f) ==
    /\ Handling(f, "removeAll") \/ Handling(f, "clear")
    /\ DisposeTop(f)
    /\ UNCHANGED <<safe, handler>>

RemovedAll(f) ==
    /\ stack = <<>>
    /\ \/ Handling(f, "removeAll") /\ MoveTo(f, "test")
       \/ Handling(f, "clear") /\ HandlerReturns(f)
    /\ UNCHANGED <<ctx, stack, safe>>

\* SetCorrelationIdentifierContext reads _safeToAddToMdc once,
TestSafe(f) ==
    /\ Handling(f, "test")
    /\ IF safe THEN MoveTo(f, "push") ELSE HandlerReturns(f)
    /\ UNCHANGED <<ctx, stack, safe>>

\* Mutant: the old contexts are disposed of after the new ones are set.
SetThenRemove(f) ==
    /\ Handling(f, "push")
    /\ PushContexts(f)
    /\ MoveTo(f, "clear")
    /\ UNCHANGED safe

\* then opens the contexts, whatever other flows have done to the stack and to
\* the flag since.
SetContexts(f) ==
    /\ Handling(f, "push")
    /\ PushContexts(f)
    /\ HandlerReturns(f)
    /\ UNCHANGED safe

\* OpenMappedContext throws at the first context or at a later one.
SetContextsThrows(f) ==
    /\ MayThrow
    /\ Handling(f, "push")
    /\ PushContexts(f) \/ UNCHANGED <<ctx, stack>>
    /\ MoveTo(f, "catch")
    /\ UNCHANGED safe

\* Mutant: the catch block only clears the flag.
GiveUpAndReturn(f) ==
    /\ Handling(f, "catch")
    /\ safe' = FALSE
    /\ HandlerReturns(f)
    /\ UNCHANGED <<ctx, stack>>

\* The catch block: never add again, then dispose of everything.
GiveUp(f) ==
    /\ Handling(f, "catch")
    /\ safe' = FALSE
    /\ MoveTo(f, "clear")
    /\ UNCHANGED <<ctx, stack>>

HandlerStep(f) ==
    \/ RemoveLastCorrelationIdentifierContext(f)
    \/ RemoveOne(f) \/ RemovedAll(f)
    \/ TestSafe(f) \/ SetContexts(f) \/ SetContextsThrows(f) \/ GiveUp(f)

-----------------------------------------------------------------------------
\* The handlers, by their first step.

Begin(f, pc, x) ==
    /\ handler' = [handler EXCEPT ![f] = [pc |-> pc, scope |-> x]]
    /\ UNCHANGED <<provider, ctx, stack, safe>>

StackOnSpanOpened(f, s) == provider = "stack" /\ Begin(f, "test", s)

StackOnSpanClosed(f) == provider = "stack" /\ Begin(f, "removeLast", NoScope)

\* MapOnSpanActivated, and with NoScope (zero ids) MapOnTraceEnded.
MapOnSpanActivated(f, x) == provider = "map" /\ Begin(f, "removeAll", x)

-----------------------------------------------------------------------------
\* The scope manager's operations with the handlers their events run.

ActivateLogged(f, s) ==
    /\ handler[f] = NoHandler
    /\ Activate(f, s)
    /\ StackOnSpanOpened(f, s) \/ MapOnSpanActivated(f, s)

CloseCurrentLogged(f, s) ==
    /\ handler[f] = NoHandler
    /\ CloseCurrent(f, s)
    /\ StackOnSpanClosed(f) \/ MapOnSpanActivated(f, parent[s])

CloseOtherLogged(f, s) ==
    /\ handler[f] = NoHandler
    /\ CloseOther(f, s)
    /\ \/ StackOnSpanClosed(f)
       \/ provider = "map" /\ UNCHANGED <<provider, ctx, stack, safe, handler>>

\* The logging context is copied with the execution context.
ForkLogged(f, g) ==
    /\ handler[f] = NoHandler
    /\ Fork(f, g)
    /\ ctx' = [ctx EXCEPT ![g] = ctx[f]]
    /\ UNCHANGED <<provider, stack, safe, handler>>

LogNext ==
    \/ \E f \in Flows, s \in Scopes :
          ActivateLogged(f, s) \/ CloseCurrentLogged(f, s) \/ CloseOtherLogged(f, s)
    \/ \E f, g \in Flows : ForkLogged(f, g)
    \/ \E f \in Flows : HandlerStep(f)

LogSpec == LogInit /\ [][LogNext]_logVars
-----------------------------------------------------------------------------
\* The types of the subscriber's state.
LogTypeOK ==
    /\ ScopeTypeOK
    /\ provider \in {"stack", "map"}
    /\ ctx \in [Flows -> Seq(Scopes \cup {NoScope})]
    /\ stack \in Seq([restores : Seq(Scopes \cup {NoScope}), by : Flows, late : BOOLEAN])
    /\ safe \in BOOLEAN
    /\ handler \in [Flows -> [pc : {"none", "removeLast", "removeAll", "test", "push",
                                   "catch", "clear"},
                             scope : Scopes \cup {NoScope}]]

\* The scope whose ids a log line of flow f carries, NoScope for none or zeros.
Logged(f) == IF ctx[f] = <<>> THEN NoScope ELSE Last(ctx[f])

\* Outside the handlers, where the application logs, a log line carries the ids
\* of the span that is active in its flow.
LogMatchesActive ==
    \A f \in started : handler[f] = NoHandler => Logged(f) = active[f]

\* With the map-based libraries it does so although all flows dispose through
\* one stack, in any order and between each other's steps, until
\* OpenMappedContext has thrown.
MapLogMatchesActive == provider = "map" /\ safe => LogMatchesActive

\* With Serilog it does so in a single flow of nested scopes closed once.
SerilogNestedMatchesActive ==
    (provider = "stack" /\ safe /\ started = {FirstFlow} /\ nested
        /\ \A s \in Scopes : closes[s] <= 1) => LogMatchesActive

\* The flag is read at line 194 and cleared at 217 by another flow, without a
\* lock: after correlation was given up and everything disposed of, contexts
\* can still be pushed.  They are only those of handlers that had read the flag
\* before, at most once for each flow, and nothing set earlier is left.
OnlyLateContextsLeft ==
    (~safe /\ \A f \in Flows : handler[f].pc # "clear") =>
        \A i, j \in DOMAIN stack :
            /\ stack[i].late
            /\ i # j => stack[i].by # stack[j].by

\* Nested flows come back to the scope they inherited and never to one they
\* closed (ScopeManagerBase.cs lines 43 to 71), whatever the subscriber does.
FlowsBalanced == LogTypeOK /\ BalancedFlow /\ NoResurrection
=============================================================================
