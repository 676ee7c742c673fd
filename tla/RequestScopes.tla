--------------------------- MODULE RequestScopes ---------------------------
(***************************************************************************)
(* What the two web hosts share: one flow that serves requests one after   *)
(* another, a second flow started from a handler, and the scope manager of *)
(* the host: an AsyncLocal in ASP.NET Core, an AsyncLocal backed by        *)
(* HttpContext.Items in ASP.NET (AspNetScopeManager.cs).                   *)
(*                                                                         *)
(* Scopes are numbered in the order they are activated; 0 is null.  A      *)
(* trace is named by its first scope, and 0 is the trace of the caller.    *)
(***************************************************************************)
EXTENDS Integers, Sequences, SequencesExt

CONSTANTS MaxScopes,     \* bound: scopes
          MaxRequests    \* bound: requests, per host
ASSUME BoundsAssumption ==
    MaxScopes \in Nat /\ MaxRequests \in [{"core", "aspnet"} -> Nat]

Main == "main"
Task == "task"
Flows == {Main, Task}
NoContext == -1    \* no context in the headers

VARIABLES
    host,        \* "core" or "aspnet"
    integrated,  \* HttpRuntime.UsingIntegratedPipeline
    request,     \* the request of the main flow
    scopes,      \* all scopes with their spans
    local,       \* per flow: the AsyncLocal
    runs,        \* per flow: "in" the HttpContext, "out" of it, or "not"
    items,       \* HttpContext.Items: the active scope, the module's, MVC's
    actions,     \* MVC invocations under way, innermost last: the scope that
                 \* BeginInvokeAction opened, then the one EndInvokeAction found
    strayed,     \* history: a handler has left the flow in another scope
    abandoned    \* history: MVC scopes whose end was lost

vars == <<host, integrated, request, scopes, local, runs, items, actions,
          strayed, abandoned>>

Ids == 1 .. MaxScopes
Fresh == Len(scopes) + 1
NoItems == [active |-> 0, module |-> 0, action |-> 0]

Init ==
    /\ host \in {"core", "aspnet"}
    /\ integrated \in {FALSE, host = "aspnet"}
    /\ request = [number |-> 0, stage |-> "idle", headers |-> NoContext,
                  entered |-> 0, failed |-> "no"]
    /\ scopes = <<>> /\ actions = <<>>
    /\ local = [f \in Flows |-> 0]
    /\ runs = [f \in Flows |-> IF f = Main THEN "in" ELSE "not"]
    /\ items = NoItems
    /\ strayed = FALSE /\ abandoned = {}

-----------------------------------------------------------------------------
(***************************************************************************)
(* The scope manager.                                                      *)
(***************************************************************************)

\* HttpContext.Current is not null.
InContext(f) == host = "aspnet" /\ runs[f] = "in"

\* Mutant: the items are not looked at.
ActiveLocalOnly(f) == local[f]

\* Active's getter: the AsyncLocal, else the item of the request.
Active(f) ==
    IF local[f] = 0 /\ InContext(f) THEN items.active ELSE local[f]

\* Active's setter writes both.
SetActive(f, s) ==
    /\ local' = [local EXCEPT ![f] = s]
    /\ items' = IF InContext(f) THEN [items EXCEPT !.active = s] ELSE items

\* Tracer.StartSpan and Activate: the span follows the propagated context c, or
\* the active span; the scope's parent is the active scope in either case.
NewScope(f, k, c) ==
    [kind |-> k, by |-> f, of |-> request'.number, parent |-> Active(f),
     trace |-> IF c # NoContext THEN c
               ELSE IF Active(f) # 0 THEN scopes[Active(f)].trace ELSE Fresh,
     open |-> TRUE, error |-> FALSE]

StartActive(f, k, c) ==
    /\ Fresh \in Ids
    /\ scopes' = Append(scopes, NewScope(f, k, c))
    /\ SetActive(f, Fresh)

\* Mutant: Error is set when the span has finished.
DisposeBeforeError(f, s, failed) ==
    /\ IF Active(f) = s THEN SetActive(f, scopes[s].parent)
       ELSE UNCHANGED <<local, items>>
    /\ scopes' = [scopes EXCEPT ![s].open = FALSE]

\* Scope.Dispose: Close goes back to the parent if the scope is the active one,
\* and the span finishes.  `failed': Error was set just before.  Of a span that
\* has finished, and may have been sent, it is too late to set it.
Dispose(f, s, failed) ==
    /\ IF Active(f) = s THEN SetActive(f, scopes[s].parent)
       ELSE UNCHANGED <<local, items>>
    /\ scopes' = [scopes EXCEPT ![s].open = FALSE,
                                ![s].error = @ \/ (failed /\ scopes[s].open)]

\* Span.SetException, if in time.
SetException(s) == scopes' = [scopes EXCEPT ![s].error = @ \/ scopes[s].open]

-----------------------------------------------------------------------------
(***************************************************************************)
(* The host and the application.                                           *)
(***************************************************************************)

\* The host takes the next request, with the caller's context in it or not.
NextRequest(c) ==
    /\ request.stage = "idle"
    /\ request.number < MaxRequests[host]
    /\ request' = [number |-> request.number + 1, stage |-> "begun",
                   headers |-> c, entered |-> 0, failed |-> "no"]
    /\ UNCHANGED <<host, integrated, runs, actions, strayed, abandoned>>

EnterHandler ==
    /\ request.stage = "begun"
    /\ request' = [request EXCEPT !.stage = "handling", !.entered = local[Main]]
    /\ UNCHANGED <<host, integrated, scopes, local, runs, items, actions,
                   strayed, abandoned>>

\* The handler is done, with an exception or a 5xx status perhaps.  What it did
\* to the AsyncLocal is undone if it is an async method, and stays if it is
\* not; ASP.NET may go on in a context that has none of it.
LeaveHandler(failed, after) ==
    /\ request.stage = "handling" /\ actions = <<>>
    /\ failed = "status" => host = "core"    \* no difference to ASP.NET
    /\ request' = [request EXCEPT !.stage = "handled", !.failed = failed]
    /\ after \in {request.entered, local[Main]}
                   \cup (IF host = "aspnet" THEN {0} ELSE {})
    /\ local' = [local EXCEPT ![Main] = after]
    /\ strayed' = (strayed \/ (after # request.entered /\ host = "core"))
    /\ UNCHANGED <<host, integrated, scopes, runs, items, actions, abandoned>>

\* Code of the application, or a wrapper, runs in flow f.
Working(f) ==
    IF f = Main THEN request.stage = "handling"
    ELSE runs[f] = "out" \/ (runs[f] = "in" /\ request.stage = "handling")

\* The handler starts a task, which takes the AsyncLocal with it, inside the
\* synchronization context of ASP.NET or outside.
ForkTask(where) ==
    /\ Working(Main) /\ runs[Task] = "not"
    /\ where \in (IF host = "aspnet" THEN {"in", "out"} ELSE {"out"})
    /\ runs' = [runs EXCEPT ![Task] = where]
    /\ local' = [local EXCEPT ![Task] = local[Main]]
    /\ UNCHANGED <<host, integrated, request, scopes, items, actions, strayed,
                   abandoned>>

\* A scope of the application or of a client wrapper.
OpenScope(f) ==
    /\ Working(f)
    /\ UNCHANGED request
    /\ StartActive(f, "app", NoContext)
    /\ UNCHANGED <<host, integrated, runs, actions, strayed, abandoned>>

\* It is closed where it was opened, once, in any order.
CloseScope(f, s) ==
    /\ Working(f)
    /\ scopes[s].by = f /\ scopes[s].kind \in {"app", "server"} /\ scopes[s].open
    /\ Dispose(f, s, FALSE)
    /\ UNCHANGED <<host, integrated, request, runs, actions, strayed, abandoned>>

HostStep ==
    \/ EnterHandler
    \/ \E failed \in {"no", "status", "exception"}, a \in 0 .. MaxScopes :
           LeaveHandler(failed, a)
    \/ \E where \in {"in", "out"} : ForkTask(where)
    \/ \E f \in Flows : OpenScope(f)
    \/ \E f \in Flows, s \in DOMAIN scopes : CloseScope(f, s)
=============================================================================
