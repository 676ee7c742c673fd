---------------------------- MODULE ScopeManager ----------------------------
(***************************************************************************)
(* ScopeManagerBase.cs over AsyncLocalScopeManager.cs, with Scope.cs: the  *)
(* active scope of every logical flow of control and what Activate and     *)
(* Close do to it.  Active is an AsyncLocal: a flow sees its own value,    *)
(* and a flow started by another begins with a copy.  Each scope wraps a   *)
(* span of its own.  Any flow may close any scope, more than once (Close,  *)
(* then Dispose), and in any order; `nested' records whether all closes so *)
(* far came as nested using blocks make them, innermost first in the flow  *)
(* that opened the scope, with only repeats of a close out of order.       *)
(***************************************************************************)
EXTENDS Integers

CONSTANTS
    Flows, FirstFlow, Scopes, NoScope,
    MaxCloses    \* bound: calls of Close per scope

ASSUME ScopeAssumption ==
    /\ FirstFlow \in Flows
    /\ NoScope \notin Scopes \cup Flows
    /\ MaxCloses \in Nat \ {0}

VARIABLES
    active,     \* per flow: Active, NoScope for null
    parent,     \* per scope: Scope.Parent
    opener,     \* per scope: the flow that activated it, history
    closes,     \* per scope: calls of Close so far, history
    finished,   \* spans of scopes closed with _finishOnClose
    started,    \* flows that exist
    inherited,  \* per flow: Active when it started, history
    nested      \* every close came as by nested using blocks, history

scopeVars == <<active, parent, opener, closes, finished, started, inherited,
               nested>>

Opened == {s \in Scopes : opener[s] # NoScope}

ScopeInit ==
    /\ active = [f \in Flows |-> NoScope]
    /\ parent = [s \in Scopes |-> NoScope]
    /\ opener = [s \in Scopes |-> NoScope]
    /\ closes = [s \in Scopes |-> 0]
    /\ finished = {}
    /\ started = {FirstFlow}
    /\ inherited = [f \in Flows |-> NoScope]
    /\ nested = TRUE

\* Activate: the new scope's parent is whatever was active.
Activate(f, s) ==
    /\ f \in started
    /\ s \notin Opened
    /\ parent' = [parent EXCEPT ![s] = active[f]]
    /\ active' = [active EXCEPT ![f] = s]
    /\ opener' = [opener EXCEPT ![s] = f]
    /\ UNCHANGED <<closes, finished, started, inherited, nested>>

\* Scope.Close with _finishOnClose or without.
FinishOnClose(s) == finished' = finished \cup {s} \/ UNCHANGED finished

\* Any call of Close; the bound counts the calls.
MayClose(f, s) ==
    /\ f \in started
    /\ s \in Opened
    /\ closes[s] < MaxCloses
    /\ nested' = (nested /\ opener[s] = f /\ (active[f] = s \/ closes[s] > 0))

\* Close of the flow's active scope: its parent becomes active.
CloseCurrent(f, s) ==
    /\ MayClose(f, s)
    /\ active[f] = s
    /\ active' = [active EXCEPT ![f] = parent[s]]
    /\ closes' = [closes EXCEPT ![s] = @ + 1]
    /\ FinishOnClose(s)
    /\ UNCHANGED <<parent, opener, started, inherited>>

\* Mutant: Close does not compare the scope with the current one.
CloseOtherPops(f, s) ==
    /\ MayClose(f, s)
    /\ active[f] # s
    /\ active' = [active EXCEPT ![f] = parent[s]]
    /\ closes' = [closes EXCEPT ![s] = @ + 1]
    /\ FinishOnClose(s)
    /\ UNCHANGED <<parent, opener, started, inherited>>

\* Close of a scope that is not the current one: bail out.
CloseOther(f, s) ==
    /\ MayClose(f, s)
    /\ active[f] # s
    /\ closes' = [closes EXCEPT ![s] = @ + 1]
    /\ FinishOnClose(s)
    /\ UNCHANGED <<active, parent, opener, started, inherited>>

\* Flow f starts flow g (a task, a thread, an async call): the execution
\* context, and Active with it, is copied.
Fork(f, g) ==
    /\ f \in started
    /\ g \in Flows \ started
    /\ started' = started \cup {g}
    /\ active' = [active EXCEPT ![g] = active[f]]
    /\ inherited' = [inherited EXCEPT ![g] = active[f]]
    /\ UNCHANGED <<parent, opener, closes, finished, nested>>

ScopeNext ==
    \/ \E f \in Flows, s \in Scopes :
          Activate(f, s) \/ CloseCurrent(f, s) \/ CloseOther(f, s)
    \/ \E f, g \in Flows : Fork(f, g)

ScopeSpec == ScopeInit /\ [][ScopeNext]_scopeVars
-----------------------------------------------------------------------------
\* The types of the scope manager's state: only an activated scope is active or
\* a parent, and none is its own parent.
ScopeTypeOK ==
    /\ active \in [Flows -> Scopes \cup {NoScope}]
    /\ parent \in [Scopes -> Scopes \cup {NoScope}]
    /\ opener \in [Scopes -> Flows \cup {NoScope}]
    /\ closes \in [Scopes -> 0 .. MaxCloses]
    /\ finished \in SUBSET Scopes
    /\ started \in SUBSET Flows
    /\ inherited \in [Flows -> Scopes \cup {NoScope}]
    /\ nested \in BOOLEAN
    /\ \A f \in Flows : active[f] \in Opened \cup {NoScope}
    /\ \A s \in Scopes : parent[s] \in (Opened \ {s}) \cup {NoScope}

OwnOpen(f) == {s \in Scopes : opener[s] = f /\ closes[s] = 0}

\* Nested using blocks leave no trace: a flow with no open scope of its own is
\* back at the scope it started with, whatever other flows do and however
\* often its own scopes are closed again.
BalancedFlow ==
    nested => \A f \in started : OwnOpen(f) = {} => active[f] = inherited[f]

\* A flow never finds one of its own scopes active again after it closed it,
\* so no new span becomes the child of a span this flow has finished.
NoResurrection ==
    nested => \A f \in started :
        active[f] # NoScope /\ opener[active[f]] = f => closes[active[f]] = 0
=============================================================================
