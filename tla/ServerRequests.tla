--------------------------- MODULE ServerRequests ---------------------------
(***************************************************************************)
(* A web server with the tracer in it: ASP.NET Core or ASP.NET.            *)
(***************************************************************************)
EXTENDS AspNetCoreObserver, AspNetPipeline

Next == HostStep \/ CoreStep \/ AspNetStep
Spec == Init /\ [][Next]_vars

-----------------------------------------------------------------------------
\* Type of the state of RequestScopes: a scope's parent is an earlier one.
TypeOK ==
    /\ \A s \in DOMAIN scopes :
           /\ scopes[s].kind \in {"request", "app", "action", "server", "dropped"}
           /\ scopes[s].parent \in 0 .. s - 1 /\ scopes[s].trace \in 0 .. s
           /\ scopes[s].by \in Flows /\ scopes[s].of \in 1 .. request.number
    /\ local \in [Flows -> 0 .. Len(scopes)]
    /\ items \in [active : 0 .. Len(scopes), module : 0 .. Len(scopes),
                  action : 0 .. Len(scopes)]
    /\ Len(actions) <= 2
    /\ abandoned \subseteq DOMAIN scopes

RequestScope(n) == {s \in DOMAIN scopes : scopes[s].kind = "request" /\ scopes[s].of = n}

\* OnHostingHttpRequestInStop closes whatever is active and OnEndRequest what
\* it finds in the items: either way a request that is over has its span ended,
\* and in ASP.NET Core nothing stays active for the next request of the
\* connection, ignored ones in between included, unless a handler has left its
\* flow in another scope than it found.
RequestsEnd ==
    request.stage = "idle" =>
        \A s \in DOMAIN scopes : scopes[s].kind = "request" =>
            \/ ~scopes[s].open /\ (local[Main] = 0 \/ strayed)
            \/ host = "core" /\ strayed

\* SetException and the 5xx status go to the span of the request that failed,
\* though ASP.NET Core looks for the active span and ASP.NET in the items.
FailureOnItsRequest ==
    request.stage = "idle" /\ ~strayed
      /\ request.failed # "no"
      => \A s \in RequestScope(request.number) : scopes[s].error

\* The scope an MVC action opened in BeginInvokeAction is closed by its
\* EndInvokeAction, through an item that other actions share: one is left open
\* only if its BeginInvokeAction threw, its EndInvokeAction could not be built or
\* ran where HttpContext.Current is null (AspNetMvcIntegration.cs:340), or another
\* action began before its EndInvokeAction had read the item.
ActionsEnd ==
    request.stage = "idle" =>
        \A s \in DOMAIN scopes \ abandoned :
            scopes[s].kind = "action" => ~scopes[s].open

\* A span of MVC, Web API or WCF is in the trace of its request, in whatever
\* flow or context it is made: through the AsyncLocal, the items, or the
\* headers that OnBeginRequest has overwritten (a WCF thread has only those,
\* and without the integrated pipeline the caller's).
OneTracePerRequest ==
    \A r, s \in DOMAIN scopes :
        /\ host = "aspnet" /\ scopes[r].kind = "request" /\ scopes[r].open
        /\ scopes[s].kind \in {"action", "server"} /\ scopes[s].of = scopes[r].of
        /\ integrated \/ scopes[s].by = Main
        => scopes[s].trace = scopes[r].trace

\* A request ends its span and leaves the host clean for the next one
\* (AspNetCoreDiagnosticObserver.cs line 249, TracingHttpModule.cs line 187).
RequestsEndClean == TypeOK /\ RequestsEnd
=============================================================================
