--------------------------- MODULE NativeProfiler ---------------------------
(***************************************************************************)
(* CorProfiler, the native profiler that the CLR loads: it follows modules *)
(* and assemblies as they load, adds the start-up hook to the first method *)
(* compiled in an application domain, and replaces calls in methods about  *)
(* to be compiled by calls to the wrappers of the managed profiler.        *)
(*                                                                         *)
(* A callback reads is_attached_ before it takes the lock, and does the    *)
(* rest under the lock: two steps, so Shutdown and ModuleUnloadStarted can *)
(* come between them.                                                      *)
(***************************************************************************)
EXTENDS Integers, FiniteSets

CONSTANTS Threads, Modules, Methods, AppDomains, Wrappers,
          Shared,         \* the domain corlib is loaded in
          DomainOf,       \* module -> application domain
          Kind,           \* module -> how ModuleLoadFinished treats its name
          Collectible,    \* modules that can unload without their domain
          ModuleOf,       \* method -> module
          Targets,        \* method -> wrappers with a match in its body
          Disabled,       \* wrappers of the integrations turned off
          InsertFirst,    \* wrappers whose action is InsertFirst
          MaxJits,        \* bound: compilations of a method (instantiations)
          MaxLives        \* bound: lives of an application domain id

ASSUME NativeAssumption ==
    /\ Shared \in AppDomains
    /\ DomainOf \in [Modules -> AppDomains]
    /\ Kind \in [Modules -> {"corlib", "skipped", "hosting", "app"}]
    /\ Collectible \subseteq Modules /\ Disabled \subseteq Wrappers
    /\ InsertFirst \subseteq Wrappers
    /\ ModuleOf \in [Methods -> Modules]
    /\ Targets \in [Methods -> SUBSET Wrappers]
    /\ MaxJits \in Nat /\ MaxLives \in Nat \ {0}

VARIABLES
    isAttached,           \* is_attached_
    integrations,         \* integrations_, as the wrappers that are enabled
    desktop, neutral,     \* is_desktop(), instrument_domain_neutral_assemblies
    infoMap,              \* module_id_to_info_map_
    corlibLoaded,         \* corlib_module_loaded
    managedDomains,       \* managed_profiler_loaded_app_domains
    managedNeutral,       \* managed_profiler_loaded_domain_neutral
    firstJit,             \* first_jit_compilation_app_domains
    thread,               \* what each runtime thread is calling
    loaded,               \* modules the runtime holds
    dying,                \* domains being unloaded
    lives,                \* lives of each domain id
    managedPresent,       \* domains that hold the managed profiler
    il,                   \* method -> what was written into its body
    jits                  \* method -> times it was compiled

profilerVars == <<isAttached, integrations, desktop, neutral, infoMap,
                  corlibLoaded, managedDomains, managedNeutral, firstJit>>
runtimeVars == <<loaded, dying, lives, managedPresent, jits>>
configVars == <<integrations, desktop, neutral>>
vars == <<profilerVars, thread, runtimeVars, il>>

MethodDomain(f) == DomainOf[ModuleOf[f]]

Untracked == [stored |-> FALSE, refs |-> {}, failed |-> {}]
Untouched == [hook |-> 0, replaced |-> {}, inserted |-> [w \in Wrappers |-> 0]]
Idle == [op |-> "idle"]

Init ==
    /\ isAttached = FALSE /\ corlibLoaded = FALSE /\ managedNeutral = FALSE
    /\ integrations = {}
    /\ desktop \in BOOLEAN /\ neutral = FALSE
    /\ infoMap = [m \in Modules |-> Untracked]
    /\ managedDomains = {} /\ firstJit = {}
    /\ thread = [t \in Threads |-> Idle]
    /\ loaded = {} /\ dying = {} /\ managedPresent = {}
    /\ lives = [d \in AppDomains |-> 1]
    /\ il = [f \in Methods |-> Untouched]
    /\ jits = [f \in Methods |-> 0]

-----------------------------------------------------------------------------
(***************************************************************************)
(* Initialize and Shutdown.                                                *)
(***************************************************************************)

\* Every test of Initialize passed and some integration is left after the
\* disabled ones are taken out; SetEventMask succeeded.
Initialize ==
    /\ ~isAttached /\ integrations = {}
    /\ integrations' = Wrappers \ Disabled /\ integrations' # {}
    /\ neutral' \in BOOLEAN
    /\ isAttached' = TRUE
    /\ UNCHANGED <<desktop, infoMap, corlibLoaded, managedDomains,
                   managedNeutral, firstJit, thread, runtimeVars, il>>

Shutdown ==
    /\ isAttached
    /\ isAttached' = FALSE
    /\ UNCHANGED <<configVars, infoMap, corlibLoaded, managedDomains,
                   managedNeutral, firstJit, thread, runtimeVars, il>>

-----------------------------------------------------------------------------
(***************************************************************************)
(* Modules and assemblies.                                                 *)
(***************************************************************************)

\* The runtime calls back on thread t; a detached profiler returns at once.
Enter(t, call) ==
    /\ thread[t] = Idle
    /\ isAttached
    /\ thread' = [thread EXCEPT ![t] = call]

Return(t) == thread' = [thread EXCEPT ![t] = Idle]

Busy(op, field, x) ==
    \E t \in Threads : thread[t].op = op /\ thread[t][field] = x

\* A module of a live domain finishes loading, corlib first of all; an id is
\* not given to another module while a call about the old one is under way.
ModuleLoadEnter(t, m) ==
    /\ Enter(t, [op |-> "module", module |-> m])
    /\ m \notin loaded /\ DomainOf[m] \notin dying /\ ~Busy("module", "module", m)
    /\ \A f \in Methods : ModuleOf[f] = m => ~Busy("jit", "method", f)
    /\ Kind[m] = "corlib" \/ \E c \in loaded : Kind[c] = "corlib"
    /\ UNCHANGED <<profilerVars, runtimeVars, il>>

\* The filters by caller and by target leave something for a method of m;
\* Microsoft.AspNetCore.Hosting is only filtered by caller.
Wanted(m) ==
    \/ Kind[m] = "hosting"
    \/ /\ Kind[m] = "app"
       /\ \E f \in Methods : ModuleOf[f] = m /\ Targets[f] \cap integrations # {}

\* Module or metadata information that cannot be read leaves m untracked.
Track(m) ==
    \/ /\ Wanted(m)
       /\ infoMap' = [infoMap EXCEPT ![m] = [Untracked EXCEPT !.stored = TRUE]]
    \/ UNCHANGED infoMap

ModuleLoadFinished(t, m) ==
    /\ thread[t] = [op |-> "module", module |-> m]
    /\ loaded' = loaded \cup {m}
    /\ IF Kind[m] = "corlib" /\ ~corlibLoaded
       THEN corlibLoaded' = TRUE /\ UNCHANGED infoMap
       ELSE Track(m) /\ UNCHANGED corlibLoaded
    /\ Return(t)
    /\ UNCHANGED <<isAttached, configVars, managedDomains, managedNeutral,
                   firstJit, dying, lives, managedPresent, jits, il>>

\* The bodies of the methods go with their module.
Forget(gone) ==
    /\ il' = [f \in Methods |-> IF f \in gone THEN Untouched ELSE il[f]]
    /\ jits' = [f \in Methods |-> IF f \in gone THEN 0 ELSE jits[f]]

HoldsHook(m) == \E f \in Methods : ModuleOf[f] = m /\ il[f].hook > 0

\* The runtime does not unload code that a thread runs: the hook of m that
\* loads the managed profiler, or anything in a domain whose threads it aborts.
\* The .NET Framework keeps the code of the shared domain for good.
Unload(m) ==
    /\ m \in loaded
    /\ \/ m \in Collectible /\ (desktop => DomainOf[m] # Shared)
       \/ DomainOf[m] \in dying
    /\ ~Busy("module", "module", m)
    /\ (DomainOf[m] \in dying \/ HoldsHook(m)) => ~Busy("assembly", "domain", DomainOf[m])
    /\ loaded' = loaded \ {m}
    /\ Forget({f \in Methods : ModuleOf[f] = m})
    /\ UNCHANGED <<isAttached, configVars, corlibLoaded, managedNeutral,
                   firstJit, thread, dying, lives, managedPresent>>

\* A variant that leaves the domain in the set of those that hold the
\* managed profiler.
ModuleUnloadKeepsDomain(m) ==
    /\ Unload(m)
    /\ infoMap' = [infoMap EXCEPT ![m] = Untracked]
    /\ UNCHANGED managedDomains

\* A variant that leaves the metadata in the map.
ModuleUnloadKeepsInfo(m) ==
    Unload(m) /\ UNCHANGED <<infoMap, managedDomains>>

\* ModuleUnloadStarted does not test is_attached_. One tracked module that
\* unloads takes its whole domain out of managed_profiler_loaded_app_domains.
ModuleUnloadStarted(m) ==
    /\ Unload(m)
    /\ IF infoMap[m].stored
       THEN /\ managedDomains' = managedDomains \ {DomainOf[m]}
            /\ infoMap' = [infoMap EXCEPT ![m] = Untracked]
       ELSE UNCHANGED <<managedDomains, infoMap>>

\* The start-up hook loads the managed profiler into the domain that runs
\* it, or into the shared domain when it is loaded domain-neutral.
MayLoadManaged(d) ==
    \E m \in loaded : HoldsHook(m) /\ (DomainOf[m] \in {d, Shared} \/ (desktop /\ d = Shared))

AssemblyLoadEnter(t, d) ==
    /\ Enter(t, [op |-> "assembly", domain |-> d])
    /\ d \notin managedPresent /\ d \notin dying /\ MayLoadManaged(d)
    /\ ~Busy("assembly", "domain", d)
    /\ UNCHANGED <<profilerVars, runtimeVars, il>>

\* The managed profiler's assembly: a copy of another version is not recorded
\* and holds no wrapper this profiler may call.
AssemblyLoadFinished(t, d) ==
    /\ thread[t] = [op |-> "assembly", domain |-> d]
    /\ \/ /\ managedDomains' = managedDomains \cup {d}
          /\ managedNeutral' = (managedNeutral
                                   \/ (desktop /\ corlibLoaded /\ d = Shared))
          /\ managedPresent' = managedPresent \cup {d}
       \/ UNCHANGED <<managedDomains, managedNeutral, managedPresent>>
    /\ Return(t)
    /\ UNCHANGED <<isAttached, configVars, infoMap, corlibLoaded, firstJit,
                   loaded, dying, lives, jits, il>>

-----------------------------------------------------------------------------
(***************************************************************************)
(* JITCompilationStarted.                                                  *)
(***************************************************************************)

\* A method is compiled once per instantiation of its generic arguments, in a
\* module that finished loading.
JitEnter(t, f) ==
    /\ Enter(t, [op |-> "jit", method |-> f])
    /\ ModuleOf[f] \in loaded /\ MethodDomain(f) \notin dying
    /\ jits[f] < MaxJits /\ ~Busy("jit", "method", f)
    /\ jits' = [jits EXCEPT ![f] = @ + 1]
    /\ UNCHANGED <<profilerVars, loaded, dying, lives, managedPresent, il>>

\* ProfilerAssemblyIsLoadedIntoAppDomain.
ManagedLoadedInto(d) == managedNeutral \/ d \in managedDomains

\* Domain-neutral code is shared, and left alone unless configured otherwise.
DomainNeutralUnsafe(d) == desktop /\ corlibLoaded /\ d = Shared /\ ~neutral

\* A variant that hooks every method it is called for.
RunILStartupHookAlways(f, body) == {body, [body EXCEPT !.hook = @ + 1]}

\* The hook is written into f, or its generation, import or export failed: the
\* domain counts as done and the callback goes on either way.
RunILStartupHook(f, body) ==
    IF MethodDomain(f) \in firstJit THEN {body}
    ELSE {body, [body EXCEPT !.hook = @ + 1]}

\* Wrappers of f that were not found to fail earlier in this module, and whose
\* call is still in the body.
Attempted(f, info, body) ==
    ((Targets[f] \cap integrations) \ info.failed) \ body.replaced

\* What GetWrapperMethodRef leaves in the caches: nothing when the assembly
\* reference cannot be emitted. A wrapper can end in both: a second call site
\* tries again after the first one failed.
Resolutions(tried, info) ==
    LET unknown == tried \ info.refs IN
    {[info EXCEPT !.refs = @ \cup r.ok, !.failed = @ \cup r.bad] :
        r \in {r \in [ok : SUBSET unknown, bad : SUBSET unknown] :
                  r.ok \cap r.bad \cap InsertFirst = {}}}

\* ProcessInsertionCalls: a call to each wrapper it has a reference to, at the
\* start of the method.
ProcessInsertionCalls(f, tried, info, body) ==
    [body EXCEPT !.inserted =
        [w \in Wrappers |->
            @[w] + IF w \in tried \cap InsertFirst \cap info.refs THEN 1 ELSE 0]]

\* ProcessReplacementCalls: the matching calls whose wrapper has a reference,
\* in a domain that can call the managed profiler.
ProcessReplacementCalls(f, tried, info, body) ==
    [body EXCEPT !.replaced =
        IF ~ManagedLoadedInto(MethodDomain(f)) \/ DomainNeutralUnsafe(MethodDomain(f))
        THEN @ ELSE @ \cup ((tried \cap info.refs) \ InsertFirst)]

\* An Import or Export that fails leaves body as it was.
ReplacementPass(f, tried, info, body) ==
    \E last \in Resolutions(tried \ InsertFirst, info) :
        /\ infoMap' = [infoMap EXCEPT ![ModuleOf[f]] = last]
        /\ il' \in {[il EXCEPT ![f] = body],
                    [il EXCEPT ![f] = ProcessReplacementCalls(f, tried, last, body)]}

\* Nothing is replaced in f; or the pass of the insertions cannot import the
\* body and replacements follow; or its Export fails and ends the callback.
Rewrite(f, hooked) ==
    LET m == ModuleOf[f]
        tried == Attempted(f, infoMap[m], hooked)
    IN \/ il' = [il EXCEPT ![f] = hooked] /\ UNCHANGED infoMap
       \/ ReplacementPass(f, tried, infoMap[m], hooked)
       \/ \E info \in Resolutions(tried \cap InsertFirst, infoMap[m]) :
            \/ /\ infoMap' = [infoMap EXCEPT ![m] = info]
               /\ il' = [il EXCEPT ![f] = hooked]
            \/ ReplacementPass(f, tried, info,
                               ProcessInsertionCalls(f, tried, info, hooked))

JITCompilationStarted(t, f) ==
    /\ thread[t] = [op |-> "jit", method |-> f]
    /\ infoMap[ModuleOf[f]].stored
    /\ firstJit' = firstJit \cup {MethodDomain(f)}
    /\ \E hooked \in RunILStartupHook(f, il[f]) :
         \/ /\ Kind[ModuleOf[f]] = "hosting"
            /\ il' = [il EXCEPT ![f] = hooked]
            /\ UNCHANGED infoMap
         \/ /\ Kind[ModuleOf[f]] = "app"
            /\ Rewrite(f, hooked)
    /\ Return(t)
    /\ UNCHANGED <<isAttached, configVars, corlibLoaded, managedDomains,
                   managedNeutral, runtimeVars>>

\* The module is not tracked, or was unloaded while the callback waited for
\* the lock, or its function information cannot be read.
JitSkips(t) ==
    /\ thread[t].op = "jit"
    /\ Return(t)
    /\ UNCHANGED <<profilerVars, runtimeVars, il>>

-----------------------------------------------------------------------------
(***************************************************************************)
(* The runtime unloads an application domain and uses its id again.        *)
(***************************************************************************)

DomainUnloads(d) ==
    /\ desktop /\ d # Shared /\ d \notin dying /\ lives[d] < MaxLives
    /\ dying' = dying \cup {d}
    /\ UNCHANGED <<profilerVars, thread, loaded, lives, managedPresent, jits, il>>

DomainGone(d) ==
    /\ d \in dying
    /\ \A m \in loaded : DomainOf[m] # d
    /\ \A t \in Threads : thread[t] = Idle
    /\ dying' = dying \ {d}
    /\ lives' = [lives EXCEPT ![d] = @ + 1]
    /\ managedPresent' = managedPresent \ {d}
    /\ UNCHANGED <<profilerVars, thread, loaded, jits, il>>

Next ==
    \/ Initialize \/ Shutdown
    \/ \E t \in Threads, m \in Modules :
          ModuleLoadEnter(t, m) \/ ModuleLoadFinished(t, m)
    \/ \E m \in Modules : ModuleUnloadStarted(m)
    \/ \E t \in Threads, d \in AppDomains :
          AssemblyLoadEnter(t, d) \/ AssemblyLoadFinished(t, d)
    \/ \E t \in Threads, f \in Methods :
          JitEnter(t, f) \/ JITCompilationStarted(t, f)
    \/ \E t \in Threads : JitSkips(t)
    \/ \E d \in AppDomains : DomainUnloads(d) \/ DomainGone(d)

Spec == Init /\ [][Next]_vars

-----------------------------------------------------------------------------
(***************************************************************************)
(* Properties.                                                             *)
(***************************************************************************)

\* The variables hold what the fields of CorProfiler can hold, and no method
\* body is given more than the callbacks that were made for it.
TypeOK ==
    /\ {isAttached, desktop, neutral, corlibLoaded, managedNeutral} \subseteq BOOLEAN
    /\ integrations \subseteq Wrappers
    /\ infoMap \in [Modules -> [stored : BOOLEAN, refs : SUBSET Wrappers,
                               failed : SUBSET Wrappers]]
    /\ managedDomains \subseteq AppDomains /\ firstJit \subseteq AppDomains
    /\ \A t \in Threads :
          thread[t] \in {Idle} \cup [op : {"module"}, module : Modules]
                       \cup [op : {"assembly"}, domain : AppDomains]
                       \cup [op : {"jit"}, method : Methods]
    /\ loaded \subseteq Modules /\ dying \subseteq AppDomains
    /\ managedPresent \subseteq AppDomains
    /\ lives \in [AppDomains -> 1 .. MaxLives]
    /\ il \in [Methods -> [hook : 0 .. 1, replaced : SUBSET Wrappers,
                          inserted : [Wrappers -> 0 .. MaxJits]]]
    /\ jits \in [Methods -> 0 .. MaxJits]

\* At most one method of an application domain is given the start-up hook,
\* however the compilations of different threads interleave
\* (cor_profiler.cpp, lines 533 to 543).
HookOncePerDomain ==
    \A f, g \in Methods :
        (/\ MethodDomain(f) = MethodDomain(g)
         /\ il[f].hook > 0 /\ il[g].hook > 0) => f = g

SharedHook == \E f \in Methods : MethodDomain(f) = Shared /\ il[f].hook > 0

\* A call is only replaced by a call to the managed profiler in a domain that
\* holds the managed profiler, in its matching version, now: the set of the
\* profiler keeps up with modules and domains that unload (cor_profiler.cpp,
\* lines 466 to 477 and 807 to 820). It does not when a domain's id is used
\* again after the hook ran there from shared code: no tracked module of the
\* first life need exist, and the id stays in the set.
ReplacedOnlyWhereManaged ==
    \A f \in Methods :
        (/\ il[f].replaced # {}
         /\ lives[MethodDomain(f)] = 1 \/ ~SharedHook)
        => {MethodDomain(f), Shared} \cap managedPresent # {}

\* Nothing is written into a method of a module whose unload has started, and
\* nothing is noted for that module, neither a reference to a wrapper nor a
\* failure: a callback that waited for the lock meanwhile finds the module gone
\* ("to prevent it from unloading while in use").
NothingWrittenAfterUnload ==
    [][/\ \A f \in Methods :
             ModuleOf[f] \notin loaded => il'[f] \in {il[f], Untouched}
       /\ \A m \in Modules \ (loaded \cup loaded') :
             infoMap'[m] \in {infoMap[m], Untracked}]_vars

\* Domain-neutral code of the .NET Framework calls a wrapper only when that
\* was asked for, whichever domain the managed profiler reached first
\* (cor_profiler.cpp, lines 822 to 837).
NeutralCodeLeftAlone ==
    \A f \in Methods :
        desktop /\ MethodDomain(f) = Shared /\ il[f].replaced # {} => neutral

\* A method body calls a wrapper only where the runtime can resolve it and the
\* configuration wants it (ProcessReplacementCalls, lines 804 to 843), and it
\* is rewritten no more often than it is compiled.
ReplacementsSafe == TypeOK /\ ReplacedOnlyWhereManaged /\ NeutralCodeLeftAlone
=============================================================================
