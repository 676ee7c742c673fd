--------------------------- MODULE AspNetPipeline ---------------------------
(***************************************************************************)
(* ASP.NET requests: TracingHttpModule.cs around the handler, the MVC      *)
(* wrappers of AspNetMvcIntegration.cs, the Web API and WCF wrappers.      *)
(*                                                                         *)
(* MVC runs an action as a pair of calls.  The wrapper of the first leaves *)
(* its scope in HttpContext.Items for that of the second; an action may    *)
(* run another (Html.Action) between them or within the second.            *)
(***************************************************************************)
EXTENDS RequestScopes

-----------------------------------------------------------------------------
(***************************************************************************)
(* TracingHttpModule.                                                      *)
(***************************************************************************)

\* tracer.Propagator.Extract, when nothing is active.
Extracted(f) == IF Active(f) = 0 THEN request.headers ELSE NoContext

\* OnBeginRequest: the context of the span replaces the caller's in the headers
\* of the request, where the pipeline allows.
OnBeginRequest(c) ==
    /\ host = "aspnet"
    /\ request.stage = "idle" /\ request.number < MaxRequests[host]
    /\ request' = [number |-> request.number + 1, stage |-> "begun", entered |-> 0,
                   failed |-> "no",
                   headers |-> IF ~integrated THEN c ELSE IF c = 0 THEN 0 ELSE Fresh]
    /\ Fresh \in Ids
    /\ scopes' = Append(scopes, NewScope(Main, "request", c))
    /\ local' = [local EXCEPT ![Main] = Fresh]
    /\ items' = [active |-> Fresh, module |-> Fresh, action |-> 0]
    /\ UNCHANGED <<host, integrated, runs, actions, strayed, abandoned>>

\* A scope that is closed again before anybody else sees it, or that could not
\* be made: a number is spent on it all the same.
DropScope(c) ==
    /\ Fresh \in Ids
    /\ scopes' = Append(scopes, [NewScope(Main, "dropped", c) EXCEPT !.open = FALSE])

\* The integration is disabled, or an exception: the scope, if there is one, is
\* disposed of at once.
OnBeginRequestNoScope(c) ==
    /\ host = "aspnet"
    /\ NextRequest(c)
    /\ DropScope(c)
    /\ UNCHANGED <<local, items>>

\* OnError.
OnError ==
    /\ host = "aspnet"
    /\ request.stage = "handled" /\ request.failed = "exception"
    /\ request' = [request EXCEPT !.stage = "reported"]
    /\ IF items.module # 0 THEN SetException(items.module) ELSE UNCHANGED scopes
    /\ UNCHANGED <<host, integrated, local, runs, items, actions, strayed,
                   abandoned>>

\* Mutant: the active scope is closed, not the one in the items.
OnEndRequestActive ==
    /\ host = "aspnet"
    /\ \/ request.stage = "reported"
       \/ request.stage = "handled" /\ request.failed # "exception"
    /\ request' = [request EXCEPT !.stage = "idle"]
    /\ scopes' = IF Active(Main) # 0 THEN [scopes EXCEPT ![Active(Main)].open = FALSE]
                 ELSE scopes
    /\ local' = [local EXCEPT ![Main] = 0]
    /\ items' = NoItems
    /\ runs' = [runs EXCEPT ![Task] = IF @ = "in" THEN "ended" ELSE @]
    /\ UNCHANGED <<host, integrated, actions, strayed, abandoned>>

\* OnEndRequest: the scope is found in the items.  What Close does to the
\* AsyncLocal and the items goes with them when the request is over, as does a
\* task that needs its synchronization context.
OnEndRequest ==
    /\ host = "aspnet"
    /\ \/ request.stage = "reported"
       \/ request.stage = "handled" /\ request.failed # "exception"
    /\ request' = [request EXCEPT !.stage = "idle"]
    /\ scopes' = IF items.module # 0 THEN [scopes EXCEPT ![items.module].open = FALSE]
                 ELSE scopes
    /\ local' = [local EXCEPT ![Main] = 0]
    /\ items' = NoItems
    /\ runs' = [runs EXCEPT ![Task] = IF @ = "in" THEN "ended" ELSE @]
    /\ UNCHANGED <<host, integrated, actions, strayed, abandoned>>

-----------------------------------------------------------------------------
(***************************************************************************)
(* MVC.                                                                    *)
(***************************************************************************)

Ending == actions # <<>> /\ Last(actions).ending

\* The scopes of actions that have yet to read them from the item, which is about
\* to be overwritten.
Overwritten == {actions[i].scope : i \in {j \in DOMAIN actions : ~actions[j].ending}} \ {0}

\* BeginInvokeAction, after which the original returns, or throws: then there
\* will be no EndInvokeAction.
BeginInvokeAction(threw) ==
    /\ host = "aspnet" /\ Working(Main)
    /\ Len(actions) < 2
    /\ Fresh \in Ids
    /\ UNCHANGED request
    /\ scopes' = Append(scopes, NewScope(Main, "action", Extracted(Main)))
    /\ local' = [local EXCEPT ![Main] = Fresh]
    /\ items' = [items EXCEPT !.active = Fresh, !.action = Fresh]
    /\ actions' = IF threw THEN actions
                  ELSE Append(actions, [ending |-> FALSE, scope |-> Fresh])
    /\ abandoned' = abandoned \cup Overwritten \cup (IF threw THEN {Fresh} ELSE {})
    /\ UNCHANGED <<host, integrated, runs, strayed>>

\* CreateScope returns null, and null goes into the items; or HttpContext.Current
\* is null (not `here'), on a thread that goes on without it, and they stay.
BeginInvokeActionNoScope(here) ==
    /\ host = "aspnet" /\ Working(Main)
    /\ Len(actions) < 2
    /\ UNCHANGED request
    /\ DropScope(NoContext)
    /\ items' = IF here THEN [items EXCEPT !.action = 0] ELSE items
    /\ actions' = Append(actions, [ending |-> FALSE, scope |-> 0])
    /\ abandoned' = IF here THEN abandoned \cup Overwritten ELSE abandoned
    /\ UNCHANGED <<host, integrated, local, runs, strayed>>

\* EndInvokeAction takes the scope from the items, if HttpContext.Current is not
\* null.  It throws, with nothing disposed of, when it cannot build the call of
\* the original.
EndInvokeAction(built, here) ==
    /\ host = "aspnet" /\ Working(Main)
    /\ actions # <<>> /\ ~Ending
    /\ actions' = IF built THEN Append(Front(actions),
                                       [ending |-> TRUE, scope |-> IF here THEN items.action ELSE 0])
                  ELSE Front(actions)
    /\ abandoned' = IF built /\ here THEN abandoned
                    ELSE abandoned \cup ({Last(actions).scope} \ {0})
    /\ UNCHANGED <<host, integrated, request, scopes, local, runs, items, strayed>>

\* Mutant: the scope is taken from the items when the original has returned.
EndInvokeActionReadsLate ==
    /\ Ending /\ Working(Main)
    /\ actions' = Front(actions)
    /\ IF items.action = 0 THEN UNCHANGED <<scopes, local, items>>
       ELSE Dispose(Main, items.action, FALSE)
    /\ UNCHANGED <<host, integrated, request, runs, strayed, abandoned>>

\* Its end: the original has returned or thrown.
EndInvokeActionDone ==
    /\ Ending /\ Working(Main)
    /\ actions' = Front(actions)
    /\ LET s == Last(actions).scope IN
       IF s = 0 THEN UNCHANGED <<scopes, local, items>> ELSE Dispose(Main, s, FALSE)
    /\ UNCHANGED <<host, integrated, request, runs, strayed, abandoned>>

\* The asynchronous action goes on in a context without the AsyncLocal.
ContextLost ==
    /\ host = "aspnet" /\ Working(Main)
    /\ actions # <<>> /\ local[Main] # 0
    /\ local' = [local EXCEPT ![Main] = 0]
    /\ UNCHANGED <<host, integrated, request, scopes, runs, items, actions,
                   strayed, abandoned>>

-----------------------------------------------------------------------------
(***************************************************************************)
(* Web API and WCF.                                                        *)
(***************************************************************************)

\* ExecuteAsyncInternal, and HandleRequest in the flow of the request: a using
\* block around the original, which CloseScope ends.
OpenServerScope ==
    /\ host = "aspnet" /\ Working(Main)
    /\ UNCHANGED request
    /\ StartActive(Main, "server", Extracted(Main))
    /\ UNCHANGED <<host, integrated, runs, actions, strayed, abandoned>>

\* HandleRequest on a thread of WCF's own, which has no HttpContext.
HandleRequest ==
    /\ host = "aspnet" /\ Working(Main) /\ runs[Task] = "not"
    /\ UNCHANGED request
    /\ StartActive(Task, "server", Extracted(Task))
    /\ runs' = [runs EXCEPT ![Task] = "out"]
    /\ UNCHANGED <<host, integrated, actions, strayed, abandoned>>

AspNetStep ==
    \/ \E c \in {NoContext, 0} : OnBeginRequest(c) \/ OnBeginRequestNoScope(c)
    \/ OnError
    \/ OnEndRequest
    \/ \E threw \in BOOLEAN : BeginInvokeAction(threw)
    \/ \E here \in BOOLEAN : BeginInvokeActionNoScope(here)
    \/ \E built, here \in BOOLEAN : EndInvokeAction(built, here)
    \/ EndInvokeActionDone
    \/ ContextLost
    \/ OpenServerScope
    \/ HandleRequest
=============================================================================
