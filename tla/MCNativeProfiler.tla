-------------------------- MODULE MCNativeProfiler --------------------------
(***************************************************************************)
(* A corlib and another module in the shared domain, collectible but for   *)
(* the .NET Framework; in another domain Microsoft.AspNetCore.Hosting and  *)
(* a collectible module; a wrapper of each kind.                           *)
(***************************************************************************)
EXTENDS NativeProfiler, TLC

CONSTANTS corlib, gac, hosting, plugin, g, f, h, shared, d1, w, first

MCDomainOf ==
    corlib :> shared @@ gac :> shared @@ hosting :> d1 @@ plugin :> d1
MCKind ==
    corlib :> "corlib" @@ gac :> "app" @@ hosting :> "hosting" @@ plugin :> "app"
MCModuleOf == g :> gac @@ f :> plugin @@ h :> hosting
MCTargets == g :> {w} @@ f :> {w, first} @@ h :> {w}
Sym == Permutations(Threads)
=============================================================================
