-------------------------- MODULE MCServerRequests --------------------------
(***************************************************************************)
(* Four scopes; two requests of one connection to ASP.NET Core, or one to  *)
(* ASP.NET, where nothing goes from one request to the next.               *)
(***************************************************************************)
EXTENDS ServerRequests

MCMaxRequests == [core |-> 2, aspnet |-> 1]
=============================================================================
