------------------------ MODULE AspNetCoreObserver ------------------------
(***************************************************************************)
(* AspNetCoreDiagnosticObserver.cs: the span of an ASP.NET Core request,   *)
(* made and ended by events of the host.  DiagnosticObserver.OnNext keeps  *)
(* exceptions of a handler from the application.                           *)
(***************************************************************************)
EXTENDS RequestScopes

\* OnHostingHttpRequestInStart reads the headers whether or not a span is
\* active.
OnHostingHttpRequestInStart(c) ==
    /\ host = "core"
    /\ NextRequest(c)
    /\ StartActive(Main, "request", c)

\* The request matches an ignore pattern, or its URL does not parse (new Uri
\* throws before StartSpan).
OnHostingHttpRequestInStartNoSpan(c) ==
    /\ host = "core"
    /\ NextRequest(c)
    /\ UNCHANGED <<scopes, local, items>>

\* OnHostingUnhandledException: on the span that is active.
OnHostingUnhandledException ==
    /\ host = "core"
    /\ request.stage = "handled" /\ request.failed = "exception"
    /\ request' = [request EXCEPT !.stage = "reported"]
    /\ IF Active(Main) # 0 THEN SetException(Active(Main)) ELSE UNCHANGED scopes
    /\ UNCHANGED <<host, integrated, local, runs, items, actions, strayed,
                   abandoned>>

\* OnHostingHttpRequestInStop closes the scope that is active, of an ignored
\* request too.
OnHostingHttpRequestInStop ==
    /\ host = "core"
    /\ \/ request.stage = "reported"
       \/ request.stage = "handled" /\ request.failed # "exception"
    /\ request' = [request EXCEPT !.stage = "idle"]
    /\ IF Active(Main) # 0 THEN Dispose(Main, Active(Main), request.failed = "status")
       ELSE UNCHANGED <<scopes, local, items>>
    /\ UNCHANGED <<host, integrated, runs, actions, strayed, abandoned>>

CoreStep ==
    \/ \E c \in {NoContext, 0} :
           \/ OnHostingHttpRequestInStart(c)
           \/ OnHostingHttpRequestInStartNoSpan(c)
    \/ OnHostingUnhandledException
    \/ OnHostingHttpRequestInStop
=============================================================================
