------------------------ MODULE MCInstrumentedCalls ------------------------
(***************************************************************************)
(* One operation of each kind: a WebRequest, a message for a handler that  *)
(* may be switched off, and a command.                                     *)
(***************************************************************************)
EXTENDS InstrumentedCalls

CONSTANTS web, msg, cmd, u, q

MCTarget == [o \in Operations |-> IF o \in Requests THEN u ELSE q]
Sym == Permutations(Scopes)
=============================================================================
