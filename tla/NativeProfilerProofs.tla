------------------------ MODULE NativeProfilerProofs ------------------------
(***************************************************************************)
(* Proofs about NativeProfiler, for any threads, modules, methods, domains *)
(* and wrappers.                                                           *)
(***************************************************************************)
EXTENDS NativeProfiler, TLAPS

ModuleCall(m) == [op |-> "module", module |-> m]
AssemblyCall(d) == [op |-> "assembly", domain |-> d]
JitCall(f) == [op |-> "jit", method |-> f]

Calls == {Idle} \cup [op : {"module"}, module : Modules]
                \cup [op : {"assembly"}, domain : AppDomains]
                \cup [op : {"jit"}, method : Methods]
Info == [stored : BOOLEAN, refs : SUBSET Wrappers, failed : SUBSET Wrappers]
Body == [hook : 0 .. 1, replaced : SUBSET Wrappers, inserted : [Wrappers -> 0 .. MaxJits]]

TypeInv ==
    /\ isAttached \in BOOLEAN /\ desktop \in BOOLEAN /\ neutral \in BOOLEAN
    /\ corlibLoaded \in BOOLEAN /\ managedNeutral \in BOOLEAN
    /\ integrations \subseteq Wrappers
    /\ infoMap \in [Modules -> Info]
    /\ managedDomains \subseteq AppDomains /\ firstJit \subseteq AppDomains
    /\ thread \in [Threads -> Calls]
    /\ loaded \subseteq Modules /\ dying \subseteq AppDomains
    /\ managedPresent \subseteq AppDomains
    /\ lives \in [AppDomains -> 1 .. MaxLives]
    /\ \A d \in dying : lives[d] < MaxLives
    /\ il \in [Methods -> Body]
    /\ jits \in [Methods -> 0 .. MaxJits]

\* What the runtime and the table of modules know of a module: it is tracked
\* and has bodies only while it is loaded, one callback is about it, and none
\* compiles a method of it before it has loaded.
ModuleInv ==
    /\ \A m \in Modules : infoMap[m].stored => m \in loaded
    /\ \A f \in Methods : ModuleOf[f] \notin loaded => il[f] = Untouched
    /\ \A t \in Threads, m \in Modules : thread[t] = ModuleCall(m) =>
          /\ m \notin loaded
          /\ \A u \in Threads : thread[u] = ModuleCall(m) => u = t
          /\ \A u \in Threads, f \in Methods :
                ModuleOf[f] = m => thread[u] # JitCall(f)

\* A callback about a method that is loaded has not yet inserted its calls.
InsertInv ==
    /\ \A f \in Methods, w \in Wrappers : il[f].inserted[w] <= jits[f]
    /\ \A t \in Threads, f \in Methods : thread[t] = JitCall(f) =>
          /\ \A u \in Threads : thread[u] = JitCall(f) => u = t
          /\ ModuleOf[f] \in loaded =>
                \A w \in Wrappers : il[f].inserted[w] < jits[f]

\* The hook of a domain is written when the domain enters firstJit, into a
\* module that is tracked.
HookInv ==
    /\ HookOncePerDomain
    /\ \A f \in Methods : il[f].hook > 0 =>
          MethodDomain(f) \in firstJit /\ infoMap[ModuleOf[f]].stored

\* Modules load after corlib, and calls are replaced after Initialize.
NeutralInv ==
    /\ NeutralCodeLeftAlone
    /\ loaded # {} => corlibLoaded
    /\ \A t \in Threads, m \in Modules :
          thread[t] = ModuleCall(m) => Kind[m] = "corlib" \/ corlibLoaded
    /\ \A f \in Methods : il[f].replaced # {} => integrations # {}

\* A domain that the profiler takes for one with the managed profiler has it
\* in its first life; with no hook in shared code, a tracked module of the
\* domain itself holds the hook, and leaves the set when it unloads.
HookedBy(d) == \E m \in loaded : DomainOf[m] = d /\ HoldsHook(m)

ManagedInv ==
    /\ ReplacedOnlyWhereManaged
    /\ Shared \notin dying
    /\ managedNeutral \/ Shared \in managedDomains => Shared \in managedPresent
    /\ \A d \in managedDomains : lives[d] = 1 => d \in managedPresent
    /\ ~desktop => dying = {} /\ \A d \in AppDomains : lives[d] = 1
    /\ desktop /\ ~SharedHook => \A d \in AppDomains \ {Shared} :
          /\ d \in managedDomains => d \in managedPresent /\ HookedBy(d)
          /\ (\E t \in Threads : thread[t] = AssemblyCall(d)) => HookedBy(d)

IInv == TypeInv /\ ModuleInv /\ InsertInv /\ HookInv /\ NeutralInv
-----------------------------------------------------------------------------
(***************************************************************************)
(* Calls of the runtime.                                                   *)
(***************************************************************************)

\* The calls of the runtime are told apart by what they are about.
LEMMA CallsApart ==
    ASSUME NEW m, NEW d, NEW f, NEW x
    PROVE  /\ Idle # ModuleCall(m) /\ Idle # AssemblyCall(d) /\ Idle # JitCall(f)
           /\ ModuleCall(m) # AssemblyCall(d) /\ ModuleCall(m) # JitCall(f)
           /\ AssemblyCall(d) # JitCall(f)
           /\ ModuleCall(m) = ModuleCall(x) => m = x
           /\ AssemblyCall(d) = AssemblyCall(x) => d = x
           /\ JitCall(f) = JitCall(x) => f = x
<1>1. Idle.op = "idle" /\ ModuleCall(m).op = "module" /\ AssemblyCall(d).op = "assembly"
      /\ JitCall(f).op = "jit"
  BY DEF Idle, ModuleCall, AssemblyCall, JitCall
<1>2. /\ ModuleCall(m).module = m /\ ModuleCall(x).module = x
      /\ AssemblyCall(d).domain = d /\ AssemblyCall(x).domain = x
      /\ JitCall(f).method = f /\ JitCall(x).method = x
  BY DEF ModuleCall, AssemblyCall, JitCall
<1> QED
  BY <1>1, <1>2

\* A call that is not under way is that of no thread.
LEMMA NotBusy ==
    ASSUME NEW x
    PROVE  /\ ~Busy("module", "module", x) => \A u \in Threads : thread[u] # ModuleCall(x)
           /\ ~Busy("assembly", "domain", x) => \A u \in Threads : thread[u] # AssemblyCall(x)
           /\ ~Busy("jit", "method", x) => \A u \in Threads : thread[u] # JitCall(x)
  BY DEF Busy, ModuleCall, AssemblyCall, JitCall

\* Each call is one the type of thread allows.
LEMMA CallTypes ==
    /\ Idle \in Calls
    /\ \A m \in Modules : ModuleCall(m) \in Calls
    /\ \A d \in AppDomains : AssemblyCall(d) \in Calls
    /\ \A f \in Methods : JitCall(f) \in Calls
  BY DEF Calls, ModuleCall, AssemblyCall, JitCall

-----------------------------------------------------------------------------
(***************************************************************************)
(* What a compilation writes.                                              *)
(***************************************************************************)

WideBody == [hook : Nat, replaced : SUBSET Wrappers, inserted : [Wrappers -> Nat]]

\* The wrappers tried are those of enabled integrations.
LEMMA TriedEnabled ==
    ASSUME NEW f, NEW info, NEW body
    PROVE  Attempted(f, info, body) \subseteq integrations
  BY DEF Attempted

\* The caches of a module keep their type, and the module stays tracked.
LEMMA ResolutionTyped ==
    ASSUME NEW tried \in SUBSET Wrappers, NEW info \in Info,
           NEW r \in Resolutions(tried, info)
    PROVE  r \in Info /\ r.stored = info.stored
<1> DEFINE unknown == tried \ info.refs
<1>1. PICK o \in [ok : SUBSET unknown, bad : SUBSET unknown] :
        r = [info EXCEPT !.refs = @ \cup o.ok, !.failed = @ \cup o.bad]
  BY DEF Resolutions
<1>2. /\ info.refs \cup o.ok \in SUBSET Wrappers
      /\ info.failed \cup o.bad \in SUBSET Wrappers
      /\ info.stored \in BOOLEAN
  BY <1>1 DEF Info
<1>3. r = [stored |-> info.stored, refs |-> info.refs \cup o.ok,
           failed |-> info.failed \cup o.bad]
  BY <1>1 DEF Info
<1> QED
  BY <1>2, <1>3 DEF Info

\* ProcessInsertionCalls adds at most one call of each wrapper and leaves the
\* rest of the body alone.
LEMMA InsertionWrites ==
    ASSUME NEW f, NEW tried, NEW info, NEW body \in WideBody,
           NEW b, b = ProcessInsertionCalls(f, tried, info, body)
    PROVE  /\ b \in WideBody /\ b.hook = body.hook /\ b.replaced = body.replaced
           /\ \A w \in Wrappers : b.inserted[w] \in {body.inserted[w], body.inserted[w] + 1}
<1> DEFINE count == [w \in Wrappers |->
              body.inserted[w] + IF w \in tried \cap InsertFirst \cap info.refs THEN 1 ELSE 0]
<1>1. b = [body EXCEPT !.inserted = count]
  BY DEF ProcessInsertionCalls
<1>2. body.inserted \in [Wrappers -> Nat] /\ body.hook \in Nat
      /\ body.replaced \in SUBSET Wrappers
  BY DEF WideBody
<1>3. count \in [Wrappers -> Nat]
      /\ \A w \in Wrappers : count[w] \in {body.inserted[w], body.inserted[w] + 1}
  BY <1>2
<1>4. b = [hook |-> body.hook, replaced |-> body.replaced, inserted |-> count]
  BY <1>1 DEF WideBody
<1> HIDE DEF count
<1> QED
  BY <1>2, <1>3, <1>4 DEF WideBody

\* ProcessReplacementCalls replaces calls by calls to wrappers of enabled
\* integrations, where the managed profiler can be called.
LEMMA ReplacementWrites ==
    ASSUME NEW f, NEW tried \in SUBSET integrations, integrations \subseteq Wrappers,
           NEW info, NEW body \in WideBody,
           NEW b, b = ProcessReplacementCalls(f, tried, info, body)
    PROVE  /\ b \in WideBody /\ b.hook = body.hook /\ b.inserted = body.inserted
           /\ \/ b.replaced = body.replaced
              \/ /\ ManagedLoadedInto(MethodDomain(f)) /\ ~DomainNeutralUnsafe(MethodDomain(f))
                 /\ integrations # {}
<1> DEFINE cannot == ~ManagedLoadedInto(MethodDomain(f)) \/ DomainNeutralUnsafe(MethodDomain(f))
           calls == IF cannot THEN body.replaced
                    ELSE body.replaced \cup ((tried \cap info.refs) \ InsertFirst)
<1>1. b = [body EXCEPT !.replaced = calls]
  BY DEF ProcessReplacementCalls
<1>2. body.inserted \in [Wrappers -> Nat] /\ body.hook \in Nat
      /\ body.replaced \in SUBSET Wrappers
  BY DEF WideBody
<1>3. calls \in SUBSET Wrappers /\ (calls = body.replaced \/ (~cannot /\ integrations # {}))
  <2>1. CASE cannot
    BY <2>1, <1>2
  <2>2. CASE ~cannot /\ integrations = {}
    BY <2>2, <1>2
  <2>3. CASE ~cannot /\ integrations # {}
    BY <2>3, <1>2
  <2> QED
    BY <2>1, <2>2, <2>3
<1>4. b = [hook |-> body.hook, replaced |-> calls, inserted |-> body.inserted]
  BY <1>1 DEF WideBody
<1>5. b.replaced = calls /\ b.hook = body.hook /\ b.inserted = body.inserted /\ b \in WideBody
  <2> HIDE DEF calls
  <2> QED
    BY <1>2, <1>3, <1>4 DEF WideBody
<1> QED
  BY <1>3, <1>5

\* What one compilation may make of body a: b.
Written(f, a, b) ==
    /\ b \in WideBody
    /\ b.hook = a.hook \/ (MethodDomain(f) \notin firstJit /\ b.hook = a.hook + 1)
    /\ \/ b.replaced = a.replaced
       \/ /\ ManagedLoadedInto(MethodDomain(f)) /\ ~DomainNeutralUnsafe(MethodDomain(f))
          /\ integrations # {}
    /\ \A w \in Wrappers : b.inserted[w] \in {a.inserted[w], a.inserted[w] + 1}

\* The pass of the replacements adds to what the pass before it wrote.
LEMMA ReplacementPassWrites ==
    ASSUME TypeInv, NEW f \in Methods, NEW tried \in SUBSET integrations,
           NEW info \in Info, info.stored,
           NEW body \in WideBody, Written(f, il[f], body), body.replaced = il[f].replaced,
           ReplacementPass(f, tried, info, body)
    PROVE  /\ \E b \in WideBody : Written(f, il[f], b) /\ il' = [il EXCEPT ![f] = b]
           /\ \E i \in Info : i.stored /\ infoMap' = [infoMap EXCEPT ![ModuleOf[f]] = i]
<1>1. integrations \subseteq Wrappers /\ tried \ InsertFirst \in SUBSET Wrappers
  BY DEF TypeInv
<1>2. PICK last \in Resolutions(tried \ InsertFirst, info) :
        /\ infoMap' = [infoMap EXCEPT ![ModuleOf[f]] = last]
        /\ il' \in {[il EXCEPT ![f] = body],
                    [il EXCEPT ![f] = ProcessReplacementCalls(f, tried, last, body)]}
  BY DEF ReplacementPass
<1>3. last \in Info /\ last.stored
  BY <1>1, <1>2, ResolutionTyped
<1> DEFINE final == ProcessReplacementCalls(f, tried, last, body)
<1>4. /\ final \in WideBody /\ final.hook = body.hook
      /\ final.inserted = body.inserted
      /\ \/ final.replaced = body.replaced
         \/ /\ ManagedLoadedInto(MethodDomain(f)) /\ ~DomainNeutralUnsafe(MethodDomain(f))
            /\ integrations # {}
  BY <1>1, ReplacementWrites
<1>5. il' = [il EXCEPT ![f] = body] \/ il' = [il EXCEPT ![f] = final]
  BY <1>2
<1> HIDE DEF final
<1>6. Written(f, il[f], final)
  BY <1>4 DEF Written
<1> QED
  BY <1>2, <1>3, <1>4, <1>5, <1>6

\* JITCompilationStarted writes one body, and the caches of one tracked module.
LEMMA JitWrites ==
    ASSUME TypeInv, NEW t \in Threads, NEW f \in Methods, JITCompilationStarted(t, f)
    PROVE  /\ \E b \in WideBody : Written(f, il[f], b) /\ il' = [il EXCEPT ![f] = b]
           /\ \E i \in Info : i.stored /\ infoMap' = [infoMap EXCEPT ![ModuleOf[f]] = i]
<1> DEFINE m == ModuleOf[f]
<1>1. /\ m \in Modules /\ infoMap \in [Modules -> Info] /\ il[f] \in WideBody
      /\ integrations \subseteq Wrappers /\ infoMap[m] \in Info /\ infoMap[m].stored
      /\ il \in [Methods -> Body]
  <2>1. /\ infoMap \in [Modules -> Info] /\ il \in [Methods -> Body]
        /\ integrations \subseteq Wrappers
    BY DEF TypeInv
  <2>2. m \in Modules /\ infoMap[m].stored
    BY NativeAssumption DEF JITCompilationStarted
  <2>3. Body \subseteq WideBody
    BY NativeAssumption DEF Body, WideBody
  <2> QED
    BY <2>1, <2>2, <2>3
<1>2. PICK hooked \in RunILStartupHook(f, il[f]) :
        \/ il' = [il EXCEPT ![f] = hooked] /\ UNCHANGED infoMap
        \/ Rewrite(f, hooked)
  BY DEF JITCompilationStarted
<1>3. /\ hooked \in WideBody /\ hooked.replaced = il[f].replaced
      /\ hooked.inserted = il[f].inserted
      /\ hooked.hook = il[f].hook \/ (MethodDomain(f) \notin firstJit /\ hooked.hook = il[f].hook + 1)
  <2>1. hooked = il[f] \/ (MethodDomain(f) \notin firstJit
                             /\ hooked = [il[f] EXCEPT !.hook = @ + 1])
    BY <1>2 DEF RunILStartupHook
  <2>2. CASE hooked = il[f]
    BY <2>2, <1>1
  <2>3. CASE MethodDomain(f) \notin firstJit /\ hooked = [il[f] EXCEPT !.hook = @ + 1]
    BY <2>3, <1>1 DEF WideBody
  <2> QED
    BY <2>1, <2>2, <2>3
<1>4. Written(f, il[f], hooked)
  <2>1. \A w \in Wrappers : hooked.inserted[w] \in {il[f].inserted[w], il[f].inserted[w] + 1}
    BY <1>3
  <2> QED
    BY <2>1, <1>3 DEF Written
<1>5. CASE il' = [il EXCEPT ![f] = hooked] /\ UNCHANGED infoMap
  <2>1. infoMap' = [infoMap EXCEPT ![m] = infoMap[m]]
    BY <1>1, <1>5
  <2> QED
    BY <2>1, <1>1, <1>3, <1>4, <1>5
<1>6. CASE Rewrite(f, hooked)
  <2> DEFINE tried == Attempted(f, infoMap[m], hooked)
  <2>1. tried \in SUBSET integrations /\ tried \in SUBSET Wrappers
    BY <1>1, TriedEnabled
  <2> HIDE DEF tried
  <2>2. CASE ReplacementPass(f, tried, infoMap[m], hooked)
    BY <1>1, <1>3, <1>4, <2>1, <2>2, ReplacementPassWrites
  <2>3. ASSUME NEW info \in Resolutions(tried \cap InsertFirst, infoMap[m]),
               \/ /\ infoMap' = [infoMap EXCEPT ![m] = info]
                  /\ il' = [il EXCEPT ![f] = hooked]
               \/ ReplacementPass(f, tried, info,
                                  ProcessInsertionCalls(f, tried, info, hooked))
        PROVE  /\ \E b \in WideBody : Written(f, il[f], b) /\ il' = [il EXCEPT ![f] = b]
               /\ \E i \in Info : i.stored /\ infoMap' = [infoMap EXCEPT ![m] = i]
    <3> DEFINE inserted == ProcessInsertionCalls(f, tried, info, hooked)
    <3>1. info \in Info /\ info.stored
      BY <1>1, <2>1, ResolutionTyped
    <3>2. /\ inserted \in WideBody /\ inserted.hook = hooked.hook
          /\ inserted.replaced = hooked.replaced
          /\ \A w \in Wrappers : inserted.inserted[w] \in {hooked.inserted[w], hooked.inserted[w] + 1}
      BY <1>3, InsertionWrites
    <3> HIDE DEF inserted
    <3>3. Written(f, il[f], inserted) /\ inserted.replaced = il[f].replaced
      BY <1>3, <3>2 DEF Written
    <3>4. CASE infoMap' = [infoMap EXCEPT ![m] = info] /\ il' = [il EXCEPT ![f] = hooked]
      BY <1>3, <1>4, <3>1, <3>4
    <3>5. CASE ReplacementPass(f, tried, info, inserted)
      BY <2>1, <3>1, <3>2, <3>3, <3>5, ReplacementPassWrites
    <3> QED
      BY <2>3, <3>4, <3>5 DEF inserted
  <2>4. \/ il' = [il EXCEPT ![f] = hooked] /\ UNCHANGED infoMap
        \/ ReplacementPass(f, tried, infoMap[m], hooked)
        \/ \E info \in Resolutions(tried \cap InsertFirst, infoMap[m]) :
             \/ /\ infoMap' = [infoMap EXCEPT ![m] = info]
                /\ il' = [il EXCEPT ![f] = hooked]
             \/ ReplacementPass(f, tried, info,
                                ProcessInsertionCalls(f, tried, info, hooked))
    BY <1>6 DEF Rewrite, tried
  <2> QED
    BY <1>5, <2>2, <2>3, <2>4
<1> QED
  BY <1>2, <1>5, <1>6
-----------------------------------------------------------------------------
(***************************************************************************)
(* Types.                                                                  *)
(***************************************************************************)

\* The start-up hook of a domain that is not done has not been written.
LEMMA HookFresh ==
    ASSUME TypeInv, HookInv, NEW f \in Methods, MethodDomain(f) \notin firstJit
    PROVE  il[f].hook = 0
<1>1. il[f].hook \in 0 .. 1
  BY DEF TypeInv, Body
<1> QED
  BY <1>1 DEF HookInv

\* A body written by a compilation has the hook once and no call inserted more
\* often than the method was compiled.
LEMMA WrittenTyped ==
    ASSUME TypeInv, ModuleInv, InsertInv, HookInv, NEW t \in Threads, NEW f \in Methods,
           JITCompilationStarted(t, f), NEW b, Written(f, il[f], b)
    PROVE  /\ b \in Body
           /\ \A w \in Wrappers : b.inserted[w] <= jits[f]
<1>1. ModuleOf[f] \in loaded /\ thread[t] = JitCall(f)
  BY NativeAssumption DEF ModuleInv, JITCompilationStarted, JitCall
<1>2. il[f] \in Body /\ jits[f] \in 0 .. MaxJits /\ b \in WideBody
  BY DEF TypeInv, Written
<1>3. \A w \in Wrappers : il[f].inserted[w] < jits[f]
  BY <1>1 DEF InsertInv
<1>4. \A w \in Wrappers : b.inserted[w] \in Nat /\ b.inserted[w] <= jits[f]
  BY <1>2, <1>3, NativeAssumption DEF Written, Body, WideBody
<1>5. b.hook \in 0 .. 1
  BY <1>2, HookFresh DEF Written, Body
<1>6. b.inserted \in [Wrappers -> 0 .. MaxJits]
  BY <1>2, <1>4, NativeAssumption DEF WideBody
<1> QED
  BY <1>2, <1>4, <1>5, <1>6 DEF WideBody, Body

\* The empty body and the empty caches.
LEMMA Blank ==
    /\ Untouched \in Body /\ Untouched.hook = 0 /\ Untouched.replaced = {}
    /\ \A w \in Wrappers : Untouched.inserted[w] = 0
    /\ Untracked \in Info /\ ~Untracked.stored
    /\ [Untracked EXCEPT !.stored = TRUE] \in Info
    /\ [Untracked EXCEPT !.stored = TRUE].stored
<1>1. /\ Untouched.hook = 0 /\ Untouched.replaced = {}
      /\ Untouched.inserted = [w \in Wrappers |-> 0]
      /\ Untouched = [hook |-> 0, replaced |-> {}, inserted |-> [w \in Wrappers |-> 0]]
  BY DEF Untouched
<1>2. [w \in Wrappers |-> 0] \in [Wrappers -> 0 .. MaxJits]
  BY NativeAssumption
<1>3. Untouched \in Body
  BY <1>1, <1>2 DEF Body
<1>5. Untracked \in Info /\ ~Untracked.stored
  BY DEF Untracked, Info
<1>6. ASSUME NEW i \in Info
      PROVE  [i EXCEPT !.stored = TRUE] \in Info /\ [i EXCEPT !.stored = TRUE].stored
  BY DEF Info
<1> QED
  BY <1>1, <1>3, <1>5, <1>6

\* The types are kept by every step.
LEMMA TypeStep ==
    ASSUME TypeInv, ModuleInv, InsertInv, HookInv, [Next]_vars
    PROVE  TypeInv'
<1> USE NativeAssumption DEF TypeInv
<1>1. CASE Initialize
  BY <1>1 DEF Initialize, runtimeVars
<1>2. CASE Shutdown
  BY <1>2 DEF Shutdown, configVars, runtimeVars
<1>3. ASSUME NEW t \in Threads, NEW m \in Modules, ModuleLoadEnter(t, m)
      PROVE  TypeInv'
  BY <1>3, CallTypes DEF ModuleLoadEnter, Enter, profilerVars, runtimeVars, ModuleCall
<1>4. ASSUME NEW t \in Threads, NEW m \in Modules, ModuleLoadFinished(t, m)
      PROVE  TypeInv'
  <2>1. infoMap' \in [Modules -> Info]
    BY <1>4, Blank DEF ModuleLoadFinished, Track
  <2>2. corlibLoaded' \in BOOLEAN
    BY <1>4 DEF ModuleLoadFinished
  <2> QED
    BY <1>4, <2>1, <2>2, CallTypes DEF ModuleLoadFinished, Return, configVars
<1>5. ASSUME NEW m \in Modules, ModuleUnloadStarted(m)
      PROVE  TypeInv'
  <2>1. infoMap' \in [Modules -> Info] /\ managedDomains' \subseteq AppDomains
    BY <1>5, Blank DEF ModuleUnloadStarted
  <2>2. il' \in [Methods -> Body] /\ jits' \in [Methods -> 0 .. MaxJits]
    BY <1>5, Blank DEF ModuleUnloadStarted, Unload, Forget
  <2> QED
    BY <1>5, <2>1, <2>2 DEF ModuleUnloadStarted, Unload, configVars
<1>6. ASSUME NEW t \in Threads, NEW d \in AppDomains, AssemblyLoadEnter(t, d)
      PROVE  TypeInv'
  BY <1>6, CallTypes DEF AssemblyLoadEnter, Enter, profilerVars, runtimeVars, AssemblyCall
<1>7. ASSUME NEW t \in Threads, NEW d \in AppDomains, AssemblyLoadFinished(t, d)
      PROVE  TypeInv'
  BY <1>7, CallTypes DEF AssemblyLoadFinished, Return, configVars
<1>8. ASSUME NEW t \in Threads, NEW f \in Methods, JitEnter(t, f)
      PROVE  TypeInv'
  BY <1>8, CallTypes DEF JitEnter, Enter, profilerVars, JitCall
<1>9. ASSUME NEW t \in Threads, NEW f \in Methods, JITCompilationStarted(t, f)
      PROVE  TypeInv'
  <2>1. infoMap' \in [Modules -> Info]
    BY <1>9, JitWrites
  <2>2. il' \in [Methods -> Body]
    BY <1>9, JitWrites, WrittenTyped
  <2>3. MethodDomain(f) \in AppDomains
    BY DEF MethodDomain
  <2> QED
    BY <1>9, <2>1, <2>2, <2>3, CallTypes
    DEF JITCompilationStarted, Return, configVars, runtimeVars
<1>10. ASSUME NEW t \in Threads, JitSkips(t)
       PROVE  TypeInv'
  BY <1>10, CallTypes DEF JitSkips, Return, profilerVars, runtimeVars
<1>11. ASSUME NEW d \in AppDomains, DomainUnloads(d) \/ DomainGone(d)
       PROVE  TypeInv'
  <2>1. CASE DomainUnloads(d)
    BY <2>1 DEF DomainUnloads, profilerVars
  <2>2. CASE DomainGone(d)
    <3>1. lives' \in [AppDomains -> 1 .. MaxLives]
      BY <2>2 DEF DomainGone
    <3>2. \A x \in dying' : lives'[x] < MaxLives
      BY <2>2 DEF DomainGone
    <3> QED
      BY <2>2, <3>1, <3>2 DEF DomainGone, profilerVars
  <2> QED
    BY <1>11, <2>1, <2>2
<1>12. CASE UNCHANGED vars
  BY <1>12 DEF vars, profilerVars, runtimeVars
<1> QED
  BY <1>1, <1>2, <1>3, <1>4, <1>5, <1>6, <1>7, <1>8, <1>9, <1>10, <1>11, <1>12 DEF Next
-----------------------------------------------------------------------------
(***************************************************************************)
(* What the actions change, method by method and module by module.         *)
(***************************************************************************)

LEMMA JitChanges ==
    ASSUME TypeInv, NEW t \in Threads, NEW f \in Methods, JITCompilationStarted(t, f)
    PROVE  /\ Written(f, il[f], il'[f])
           /\ \A g \in Methods : g # f => il'[g] = il[g]
           /\ \A m \in Modules : infoMap'[m].stored = infoMap[m].stored
<1>1. infoMap[ModuleOf[f]].stored /\ ModuleOf[f] \in Modules
  BY NativeAssumption DEF JITCompilationStarted
<1>2. PICK b \in WideBody : Written(f, il[f], b) /\ il' = [il EXCEPT ![f] = b]
  BY JitWrites
<1>3. PICK i \in Info : i.stored /\ infoMap' = [infoMap EXCEPT ![ModuleOf[f]] = i]
  BY JitWrites
<1>4. \A m \in Modules : infoMap'[m].stored = infoMap[m].stored
  <2>1. ASSUME NEW m \in Modules, m = ModuleOf[f]
        PROVE  infoMap'[m].stored = infoMap[m].stored
    <3>1. infoMap'[m].stored = TRUE
      BY <1>3, <2>1 DEF TypeInv, Info
    <3>2. infoMap[m].stored = TRUE
      BY <1>1, <2>1 DEF TypeInv, Info
    <3> QED
      BY <3>1, <3>2
  <2>2. ASSUME NEW m \in Modules, m # ModuleOf[f]
        PROVE  infoMap'[m].stored = infoMap[m].stored
    BY <1>3, <2>2 DEF TypeInv
  <2> QED
    BY <2>1, <2>2
<1> QED
  BY <1>2, <1>4 DEF TypeInv

\* What ModuleLoadFinished changes.
LEMMA LoadChanges ==
    ASSUME TypeInv, NEW t \in Threads, NEW m \in Modules, ModuleLoadFinished(t, m)
    PROVE  /\ \A x \in Modules : infoMap'[x].stored => infoMap[x].stored \/ x = m
           /\ \A x \in Modules : infoMap[x].stored => infoMap'[x].stored
<1>1. \/ UNCHANGED infoMap
      \/ infoMap' = [infoMap EXCEPT ![m] = [Untracked EXCEPT !.stored = TRUE]]
  BY DEF ModuleLoadFinished, Track
<1> QED
  BY <1>1, Blank DEF TypeInv

\* What ModuleUnloadStarted changes.
LEMMA UnloadChanges ==
    ASSUME TypeInv, NEW m \in Modules, ModuleUnloadStarted(m)
    PROVE  /\ ~infoMap'[m].stored
           /\ \A x \in Modules : x # m => infoMap'[x] = infoMap[x]
           /\ \A f \in Methods : ModuleOf[f] = m => il'[f] = Untouched /\ jits'[f] = 0
           /\ \A f \in Methods : ModuleOf[f] # m => il'[f] = il[f] /\ jits'[f] = jits[f]
  BY Blank DEF TypeInv, ModuleUnloadStarted, Unload, Forget

\* A thread that returns has no call; the others keep theirs.
LEMMA Returned ==
    ASSUME TypeInv, NEW t \in Threads, Return(t)
    PROVE  \A u \in Threads :
             /\ \A m : thread'[u] = ModuleCall(m) => u # t /\ thread[u] = ModuleCall(m)
             /\ \A d : thread'[u] = AssemblyCall(d) => u # t /\ thread[u] = AssemblyCall(d)
             /\ \A f : thread'[u] = JitCall(f) => u # t /\ thread[u] = JitCall(f)
<1>1. \A u \in Threads : thread'[u] = IF u = t THEN Idle ELSE thread[u]
  BY DEF TypeInv, Return
<1> QED
  BY <1>1, CallsApart

\* The thread that starts a callback is in it, the others are where they were.
LEMMA Entered ==
    ASSUME TypeInv, NEW t \in Threads, NEW c, Enter(t, c)
    PROVE  /\ \A u \in Threads : thread'[u] = IF u = t THEN c ELSE thread[u]
           /\ \A x : c = ModuleCall(x) => \A u \in Threads :
                 /\ \A m : thread'[u] = ModuleCall(m) => (u = t /\ m = x) \/ thread[u] = ModuleCall(m)
                 /\ \A d : thread'[u] = AssemblyCall(d) => thread[u] = AssemblyCall(d)
                 /\ \A f : thread'[u] = JitCall(f) => thread[u] = JitCall(f)
           /\ \A x : c = AssemblyCall(x) => \A u \in Threads :
                 /\ \A m : thread'[u] = ModuleCall(m) => thread[u] = ModuleCall(m)
                 /\ \A d : thread'[u] = AssemblyCall(d) => (u = t /\ d = x) \/ thread[u] = AssemblyCall(d)
                 /\ \A f : thread'[u] = JitCall(f) => thread[u] = JitCall(f)
           /\ \A x : c = JitCall(x) => \A u \in Threads :
                 /\ \A m : thread'[u] = ModuleCall(m) => thread[u] = ModuleCall(m)
                 /\ \A d : thread'[u] = AssemblyCall(d) => thread[u] = AssemblyCall(d)
                 /\ \A f : thread'[u] = JitCall(f) => (u = t /\ f = x) \/ thread[u] = JitCall(f)
<1>1. \A u \in Threads : thread'[u] = IF u = t THEN c ELSE thread[u]
  BY DEF TypeInv, Enter
<1>2. ASSUME NEW x, c = ModuleCall(x), NEW u \in Threads
      PROVE  /\ \A m : thread'[u] = ModuleCall(m) => (u = t /\ m = x) \/ thread[u] = ModuleCall(m)
             /\ \A d : thread'[u] = AssemblyCall(d) => thread[u] = AssemblyCall(d)
             /\ \A f : thread'[u] = JitCall(f) => thread[u] = JitCall(f)
  BY <1>1, <1>2, CallsApart
<1>3. ASSUME NEW x, c = AssemblyCall(x), NEW u \in Threads
      PROVE  /\ \A m : thread'[u] = ModuleCall(m) => thread[u] = ModuleCall(m)
             /\ \A d : thread'[u] = AssemblyCall(d) => (u = t /\ d = x) \/ thread[u] = AssemblyCall(d)
             /\ \A f : thread'[u] = JitCall(f) => thread[u] = JitCall(f)
  BY <1>1, <1>3, CallsApart
<1>4. ASSUME NEW x, c = JitCall(x), NEW u \in Threads
      PROVE  /\ \A m : thread'[u] = ModuleCall(m) => thread[u] = ModuleCall(m)
             /\ \A d : thread'[u] = AssemblyCall(d) => thread[u] = AssemblyCall(d)
             /\ \A f : thread'[u] = JitCall(f) => (u = t /\ f = x) \/ thread[u] = JitCall(f)
  BY <1>1, <1>4, CallsApart
<1> QED
  BY <1>1, <1>2, <1>3, <1>4

\* The call that the thread of a finished callback was in, by name.
LEMMA CallsOf ==
    ASSUME NEW t, NEW m, NEW d, NEW f
    PROVE  /\ ModuleLoadFinished(t, m) => thread[t] = ModuleCall(m)
           /\ AssemblyLoadFinished(t, d) => thread[t] = AssemblyCall(d)
           /\ JITCompilationStarted(t, f) => thread[t] = JitCall(f)
  BY DEF ModuleLoadFinished, AssemblyLoadFinished, JITCompilationStarted,
         ModuleCall, AssemblyCall, JitCall

-----------------------------------------------------------------------------
(***************************************************************************)
(* The modules.                                                            *)
(***************************************************************************)

LEMMA ModuleStep ==
    ASSUME TypeInv, ModuleInv, InsertInv, HookInv, [Next]_vars
    PROVE  ModuleInv'
<1> USE NativeAssumption
<1> \A f \in Methods : ModuleOf[f] \in Modules
  OBVIOUS
<1>1. CASE Initialize
  BY <1>1 DEF Initialize, runtimeVars, ModuleInv
<1>2. CASE Shutdown
  BY <1>2 DEF Shutdown, configVars, runtimeVars, ModuleInv
<1>3. ASSUME NEW t \in Threads, NEW m \in Modules, ModuleLoadEnter(t, m)
      PROVE  ModuleInv'
  <2>1. /\ m \notin loaded
        /\ \A u \in Threads : thread[u] # ModuleCall(m)
        /\ \A u \in Threads, f \in Methods : ModuleOf[f] = m => thread[u] # JitCall(f)
        /\ UNCHANGED <<infoMap, loaded, il>>
    BY <1>3, NotBusy DEF ModuleLoadEnter, profilerVars, runtimeVars
  <2>2. \A u \in Threads :
             /\ \A x : thread'[u] = ModuleCall(x) => (u = t /\ x = m) \/ thread[u] = ModuleCall(x)
             /\ \A g : thread'[u] = JitCall(g) => thread[u] = JitCall(g)
    <3>1. Enter(t, ModuleCall(m))
      BY <1>3 DEF ModuleLoadEnter, ModuleCall
    <3> QED
      BY <3>1, Entered
  <2> QED
    BY <2>1, <2>2 DEF ModuleInv
<1>4. ASSUME NEW t \in Threads, NEW m \in Modules, ModuleLoadFinished(t, m)
      PROVE  ModuleInv'
  <2>1. \A u \in Threads :
             /\ \A x : thread'[u] = ModuleCall(x) => u # t /\ thread[u] = ModuleCall(x)
             /\ \A g : thread'[u] = JitCall(g) => u # t /\ thread[u] = JitCall(g)
    BY <1>4, Returned DEF ModuleLoadFinished
  <2>2. thread[t] = ModuleCall(m) /\ loaded' = loaded \cup {m} /\ il' = il
    BY <1>4, CallsOf DEF ModuleLoadFinished
  <2>3. \A x \in Modules : infoMap'[x].stored => infoMap[x].stored \/ x = m
    BY <1>4, LoadChanges
  <2> QED
    BY <2>1, <2>2, <2>3 DEF ModuleInv
<1>5. ASSUME NEW m \in Modules, ModuleUnloadStarted(m)
      PROVE  ModuleInv'
  <2>1. loaded' = loaded \ {m} /\ thread' = thread
    BY <1>5 DEF ModuleUnloadStarted, Unload
  <2> QED
    BY <1>5, <2>1, UnloadChanges DEF ModuleInv
<1>6. ASSUME NEW t \in Threads, NEW d \in AppDomains, AssemblyLoadEnter(t, d)
      PROVE  ModuleInv'
  <2>1. \A u \in Threads :
             /\ \A x : thread'[u] = ModuleCall(x) => thread[u] = ModuleCall(x)
             /\ \A g : thread'[u] = JitCall(g) => thread[u] = JitCall(g)
    <3>1. Enter(t, AssemblyCall(d))
      BY <1>6 DEF AssemblyLoadEnter, AssemblyCall
    <3> QED
      BY <3>1, Entered
  <2>2. UNCHANGED <<infoMap, loaded, il>>
    BY <1>6 DEF AssemblyLoadEnter, profilerVars, runtimeVars
  <2> QED
    BY <2>1, <2>2 DEF ModuleInv
<1>7. ASSUME NEW t \in Threads, NEW d \in AppDomains, AssemblyLoadFinished(t, d)
      PROVE  ModuleInv'
  <2>1. \A u \in Threads :
             /\ \A x : thread'[u] = ModuleCall(x) => u # t /\ thread[u] = ModuleCall(x)
             /\ \A g : thread'[u] = JitCall(g) => u # t /\ thread[u] = JitCall(g)
    BY <1>7, Returned DEF AssemblyLoadFinished
  <2>2. UNCHANGED <<infoMap, loaded, il>>
    BY <1>7 DEF AssemblyLoadFinished
  <2> QED
    BY <2>1, <2>2 DEF ModuleInv
<1>8. ASSUME NEW t \in Threads, NEW f \in Methods, JitEnter(t, f)
      PROVE  ModuleInv'
  <2>1. \A u \in Threads :
             /\ \A x : thread'[u] = ModuleCall(x) => thread[u] = ModuleCall(x)
             /\ \A g : thread'[u] = JitCall(g) => (u = t /\ g = f) \/ thread[u] = JitCall(g)
    <3>1. Enter(t, JitCall(f))
      BY <1>8 DEF JitEnter, JitCall
    <3> QED
      BY <3>1, Entered
  <2>2. ModuleOf[f] \in loaded /\ UNCHANGED <<infoMap, loaded, il>>
    BY <1>8 DEF JitEnter, profilerVars
  <2> QED
    BY <2>1, <2>2 DEF ModuleInv
<1>9. ASSUME NEW t \in Threads, NEW f \in Methods, JITCompilationStarted(t, f)
      PROVE  ModuleInv'
  <2>1. \A u \in Threads :
             /\ \A x : thread'[u] = ModuleCall(x) => u # t /\ thread[u] = ModuleCall(x)
             /\ \A g : thread'[u] = JitCall(g) => u # t /\ thread[u] = JitCall(g)
    BY <1>9, Returned DEF JITCompilationStarted
  <2>2. /\ \A m \in Modules : infoMap'[m].stored = infoMap[m].stored
        /\ \A g \in Methods : g # f => il'[g] = il[g]
    BY <1>9, JitChanges
  <2>3. infoMap[ModuleOf[f]].stored /\ UNCHANGED loaded
    BY <1>9 DEF JITCompilationStarted, runtimeVars
  <2> QED
    BY <2>1, <2>2, <2>3 DEF ModuleInv
<1>10. ASSUME NEW t \in Threads, JitSkips(t)
       PROVE  ModuleInv'
  <2>1. \A u \in Threads :
             /\ \A x : thread'[u] = ModuleCall(x) => u # t /\ thread[u] = ModuleCall(x)
             /\ \A g : thread'[u] = JitCall(g) => u # t /\ thread[u] = JitCall(g)
    BY <1>10, Returned DEF JitSkips
  <2>2. UNCHANGED <<infoMap, loaded, il>>
    BY <1>10 DEF JitSkips, profilerVars, runtimeVars
  <2> QED
    BY <2>1, <2>2 DEF ModuleInv
<1>11. ASSUME NEW d \in AppDomains, DomainUnloads(d) \/ DomainGone(d)
       PROVE  ModuleInv'
  BY <1>11 DEF DomainUnloads, DomainGone, profilerVars, ModuleInv
<1>12. CASE UNCHANGED vars
  BY <1>12 DEF vars, profilerVars, runtimeVars, ModuleInv
<1> QED
  BY <1>1, <1>2, <1>3, <1>4, <1>5, <1>6, <1>7, <1>8, <1>9, <1>10, <1>11, <1>12 DEF Next
-----------------------------------------------------------------------------
(***************************************************************************)
(* The inserted calls.                                                     *)
(***************************************************************************)

LEMMA InsertStep ==
    ASSUME TypeInv, ModuleInv, InsertInv, HookInv, [Next]_vars
    PROVE  InsertInv'
<1> USE NativeAssumption
<1> \A f \in Methods : ModuleOf[f] \in Modules
  OBVIOUS
<1> \A f \in Methods : jits[f] \in Nat /\ il[f] \in Body
  BY DEF TypeInv
<1> \A f \in Methods, w \in Wrappers : il[f].inserted[w] \in Nat
  BY DEF Body
<1>1. CASE Initialize
  BY <1>1 DEF Initialize, runtimeVars, InsertInv
<1>2. CASE Shutdown
  BY <1>2 DEF Shutdown, configVars, runtimeVars, InsertInv
<1>3. ASSUME NEW t \in Threads, NEW m \in Modules, ModuleLoadEnter(t, m)
      PROVE  InsertInv'
  <2>1. \A u \in Threads, g \in Methods : thread'[u] = JitCall(g) => thread[u] = JitCall(g)
    <3>1. Enter(t, ModuleCall(m))
      BY <1>3 DEF ModuleLoadEnter, ModuleCall
    <3> QED
      BY <3>1, Entered
  <2>2. UNCHANGED <<jits, loaded, il>>
    BY <1>3 DEF ModuleLoadEnter, profilerVars, runtimeVars
  <2> QED
    BY <2>1, <2>2 DEF InsertInv
<1>4. ASSUME NEW t \in Threads, NEW m \in Modules, ModuleLoadFinished(t, m)
      PROVE  InsertInv'
  <2>1. \A u \in Threads, g \in Methods : thread'[u] = JitCall(g) => thread[u] = JitCall(g)
    BY <1>4, Returned DEF ModuleLoadFinished
  <2>2. /\ thread[t] = ModuleCall(m) /\ loaded' = loaded \cup {m}
        /\ UNCHANGED <<jits, il>>
    BY <1>4, CallsOf DEF ModuleLoadFinished
  <2>3. \A u \in Threads, g \in Methods : thread[u] = JitCall(g) => ModuleOf[g] # m
    BY <2>2 DEF ModuleInv
  <2> QED
    BY <2>1, <2>2, <2>3 DEF InsertInv
<1>5. ASSUME NEW m \in Modules, ModuleUnloadStarted(m)
      PROVE  InsertInv'
  <2>1. loaded' = loaded \ {m} /\ thread' = thread
    BY <1>5 DEF ModuleUnloadStarted, Unload
  <2>2. /\ \A f \in Methods : ModuleOf[f] = m => il'[f] = Untouched /\ jits'[f] = 0
        /\ \A f \in Methods : ModuleOf[f] # m => il'[f] = il[f] /\ jits'[f] = jits[f]
    BY <1>5, UnloadChanges
  <2>3. \A f \in Methods, w \in Wrappers : il'[f].inserted[w] <= jits'[f]
    BY <2>2, Blank DEF InsertInv
  <2>4. \A t \in Threads, f \in Methods : thread'[t] = JitCall(f) =>
          /\ \A u \in Threads : thread'[u] = JitCall(f) => u = t
          /\ ModuleOf[f] \in loaded' =>
                \A w \in Wrappers : il'[f].inserted[w] < jits'[f]
    BY <2>1, <2>2 DEF InsertInv
  <2> QED
    BY <2>3, <2>4 DEF InsertInv
<1>6. ASSUME NEW t \in Threads, NEW d \in AppDomains, AssemblyLoadEnter(t, d)
      PROVE  InsertInv'
  <2>1. \A u \in Threads, g \in Methods : thread'[u] = JitCall(g) => thread[u] = JitCall(g)
    <3>1. Enter(t, AssemblyCall(d))
      BY <1>6 DEF AssemblyLoadEnter, AssemblyCall
    <3> QED
      BY <3>1, Entered
  <2>2. UNCHANGED <<jits, loaded, il>>
    BY <1>6 DEF AssemblyLoadEnter, profilerVars, runtimeVars
  <2> QED
    BY <2>1, <2>2 DEF InsertInv
<1>7. ASSUME NEW t \in Threads, NEW d \in AppDomains, AssemblyLoadFinished(t, d)
      PROVE  InsertInv'
  <2>1. \A u \in Threads, g \in Methods : thread'[u] = JitCall(g) => thread[u] = JitCall(g)
    BY <1>7, Returned DEF AssemblyLoadFinished
  <2>2. UNCHANGED <<jits, loaded, il>>
    BY <1>7 DEF AssemblyLoadFinished
  <2> QED
    BY <2>1, <2>2 DEF InsertInv
<1>8. ASSUME NEW t \in Threads, NEW f \in Methods, JitEnter(t, f)
      PROVE  InsertInv'
  <2>1. \A u \in Threads, g \in Methods :
          thread'[u] = JitCall(g) => (u = t /\ g = f) \/ thread[u] = JitCall(g)
    <3>1. Enter(t, JitCall(f))
      BY <1>8 DEF JitEnter, JitCall
    <3> QED
      BY <3>1, Entered
  <2>2. \A u \in Threads : thread[u] # JitCall(f)
    BY <1>8, NotBusy DEF JitEnter
  <2>3. /\ UNCHANGED <<loaded, il>> /\ jits'[f] = jits[f] + 1
        /\ \A g \in Methods : g # f => jits'[g] = jits[g]
    BY <1>8 DEF JitEnter, profilerVars, TypeInv
  <2>4. \A g \in Methods, w \in Wrappers : il'[g].inserted[w] <= jits'[g]
    BY <2>3 DEF InsertInv
  <2>5. \A w \in Wrappers : il'[f].inserted[w] < jits'[f]
    BY <2>3 DEF InsertInv
  <2>6. ASSUME NEW u \in Threads, NEW g \in Methods, thread'[u] = JitCall(g)
        PROVE  /\ \A v \in Threads : thread'[v] = JitCall(g) => v = u
               /\ ModuleOf[g] \in loaded' =>
                    \A w \in Wrappers : il'[g].inserted[w] < jits'[g]
    <3>1. CASE g = f
      BY <2>1, <2>2, <2>5, <2>6, <3>1
    <3>2. CASE g # f
      BY <2>1, <2>3, <2>6, <3>2 DEF InsertInv
    <3> QED
      BY <3>1, <3>2
  <2> QED
    BY <2>4, <2>6 DEF InsertInv
<1>9. ASSUME NEW t \in Threads, NEW f \in Methods, JITCompilationStarted(t, f)
      PROVE  InsertInv'
  <2>1. \A u \in Threads, g \in Methods :
          thread'[u] = JitCall(g) => u # t /\ thread[u] = JitCall(g)
    BY <1>9, Returned DEF JITCompilationStarted
  <2>2. /\ thread[t] = JitCall(f) /\ UNCHANGED <<loaded, jits>>
    BY <1>9, CallsOf DEF JITCompilationStarted, runtimeVars
  <2>3. \A g \in Methods : g # f => il'[g] = il[g]
    BY <1>9, JitChanges
  <2>4. \A w \in Wrappers : il'[f].inserted[w] <= jits[f]
    BY <1>9, JitChanges, WrittenTyped
  <2>5. \A u \in Threads : thread'[u] # JitCall(f)
    BY <2>1, <2>2 DEF InsertInv
  <2>6. \A g \in Methods, w \in Wrappers : il'[g].inserted[w] <= jits'[g]
    BY <2>2, <2>3, <2>4 DEF InsertInv
  <2>7. \A u \in Threads, g \in Methods : thread'[u] = JitCall(g) =>
          /\ \A v \in Threads : thread'[v] = JitCall(g) => v = u
          /\ ModuleOf[g] \in loaded' =>
                \A w \in Wrappers : il'[g].inserted[w] < jits'[g]
    BY <2>1, <2>2, <2>3, <2>5 DEF InsertInv
  <2> QED
    BY <2>6, <2>7 DEF InsertInv
<1>10. ASSUME NEW t \in Threads, JitSkips(t)
       PROVE  InsertInv'
  <2>1. \A u \in Threads, g \in Methods : thread'[u] = JitCall(g) => thread[u] = JitCall(g)
    BY <1>10, Returned DEF JitSkips
  <2>2. UNCHANGED <<jits, loaded, il>>
    BY <1>10 DEF JitSkips, profilerVars, runtimeVars
  <2> QED
    BY <2>1, <2>2 DEF InsertInv
<1>11. ASSUME NEW d \in AppDomains, DomainUnloads(d) \/ DomainGone(d)
       PROVE  InsertInv'
  BY <1>11 DEF DomainUnloads, DomainGone, profilerVars, InsertInv
<1>12. CASE UNCHANGED vars
  BY <1>12 DEF vars, profilerVars, runtimeVars, InsertInv
<1> QED
  BY <1>1, <1>2, <1>3, <1>4, <1>5, <1>6, <1>7, <1>8, <1>9, <1>10, <1>11, <1>12 DEF Next
-----------------------------------------------------------------------------
(***************************************************************************)
(* The start-up hook.                                                      *)
(***************************************************************************)

\* Steps that leave the bodies, the table and the set of hooked domains alone.
LEMMA HookUnchanged ==
    ASSUME HookInv, UNCHANGED <<il, infoMap, firstJit>>
    PROVE  HookInv'
  BY DEF HookInv, HookOncePerDomain

\* Every step keeps the start-up hook's invariant.
LEMMA HookStep ==
    ASSUME TypeInv, ModuleInv, InsertInv, HookInv, [Next]_vars
    PROVE  HookInv'
<1> USE NativeAssumption
<1> \A f \in Methods : ModuleOf[f] \in Modules
  OBVIOUS
<1>1. ASSUME NEW t \in Threads, NEW m \in Modules, ModuleLoadFinished(t, m)
      PROVE  HookInv'
  <2>1. /\ \A x \in Modules : infoMap[x].stored => infoMap'[x].stored
        /\ UNCHANGED <<il, firstJit>>
    BY <1>1, LoadChanges DEF ModuleLoadFinished
  <2> QED
    BY <2>1 DEF HookInv, HookOncePerDomain
<1>2. ASSUME NEW m \in Modules, ModuleUnloadStarted(m)
      PROVE  HookInv'
  <2>1. /\ \A x \in Modules : x # m => infoMap'[x] = infoMap[x]
        /\ \A f \in Methods : ModuleOf[f] = m => il'[f].hook = 0
        /\ \A f \in Methods : ModuleOf[f] # m => il'[f] = il[f]
        /\ UNCHANGED firstJit
    BY <1>2, UnloadChanges, Blank DEF ModuleUnloadStarted, Unload
  <2> QED
    BY <2>1 DEF HookInv, HookOncePerDomain
<1>3. ASSUME NEW t \in Threads, NEW f \in Methods, JITCompilationStarted(t, f)
      PROVE  HookInv'
  <2>1. /\ \A m \in Modules : infoMap'[m].stored = infoMap[m].stored
        /\ \A g \in Methods : g # f => il'[g] = il[g]
        /\ il'[f].hook = il[f].hook \/ MethodDomain(f) \notin firstJit
    BY <1>3, JitChanges DEF Written
  <2>2. /\ firstJit' = firstJit \cup {MethodDomain(f)} /\ infoMap[ModuleOf[f]].stored
    BY <1>3 DEF JITCompilationStarted
  <2>3. CASE il'[f].hook = il[f].hook
    BY <2>1, <2>2, <2>3 DEF HookInv, HookOncePerDomain
  <2>4. CASE MethodDomain(f) \notin firstJit
    <3>1. \A g \in Methods : g # f /\ MethodDomain(g) = MethodDomain(f) => ~(il'[g].hook > 0)
      BY <2>1, <2>4 DEF HookInv
    <3> QED
      BY <2>1, <2>2, <3>1 DEF HookInv, HookOncePerDomain
  <2> QED
    BY <2>1, <2>3, <2>4
<1>4. ASSUME \/ Initialize \/ Shutdown
             \/ \E t \in Threads, m \in Modules : ModuleLoadEnter(t, m)
             \/ \E t \in Threads, d \in AppDomains :
                   AssemblyLoadEnter(t, d) \/ AssemblyLoadFinished(t, d)
             \/ \E t \in Threads, f \in Methods : JitEnter(t, f)
             \/ \E t \in Threads : JitSkips(t)
             \/ \E d \in AppDomains : DomainUnloads(d) \/ DomainGone(d)
             \/ UNCHANGED vars
      PROVE  HookInv'
  <2>1. UNCHANGED <<il, infoMap, firstJit>>
    BY <1>4 DEF Initialize, Shutdown, ModuleLoadEnter, AssemblyLoadEnter,
                AssemblyLoadFinished, JitEnter, JitSkips, DomainUnloads, DomainGone,
                vars, profilerVars, runtimeVars, configVars
  <2> QED
    BY <2>1, HookUnchanged
<1> QED
  BY <1>1, <1>2, <1>3, <1>4 DEF Next

-----------------------------------------------------------------------------
(***************************************************************************)
(* Domain-neutral code.                                                    *)
(***************************************************************************)

LEMMA NeutralUnchanged ==
    ASSUME NeutralInv, UNCHANGED <<il, desktop, neutral, integrations, corlibLoaded, loaded>>,
           \A t \in Threads, m \in Modules :
              thread'[t] = ModuleCall(m) => thread[t] = ModuleCall(m) \/ Kind[m] = "corlib"
                                            \/ loaded # {}
    PROVE  NeutralInv'
  BY DEF NeutralInv, NeutralCodeLeftAlone

\* Every step keeps the invariant about domain-neutral code.
LEMMA NeutralStep ==
    ASSUME TypeInv, ModuleInv, NeutralInv, [Next]_vars
    PROVE  NeutralInv'
<1> USE NativeAssumption
<1> \A f \in Methods : ModuleOf[f] \in Modules
  OBVIOUS
<1>1. CASE Initialize
  <2>1. /\ integrations = {} /\ UNCHANGED <<il, desktop, corlibLoaded, loaded, thread>>
    BY <1>1 DEF Initialize, runtimeVars
  <2> QED
    BY <2>1 DEF NeutralInv, NeutralCodeLeftAlone
<1>2. ASSUME NEW t \in Threads, NEW m \in Modules, ModuleLoadEnter(t, m)
      PROVE  NeutralInv'
  <2>1. Enter(t, ModuleCall(m))
    BY <1>2 DEF ModuleLoadEnter, ModuleCall
  <2>2. \A u \in Threads, x \in Modules :
          thread'[u] = ModuleCall(x) => x = m \/ thread[u] = ModuleCall(x)
    BY <2>1, Entered
  <2>3. /\ Kind[m] = "corlib" \/ loaded # {}
        /\ UNCHANGED <<il, desktop, neutral, integrations, corlibLoaded, loaded>>
    BY <1>2 DEF ModuleLoadEnter, profilerVars, runtimeVars
  <2> QED
    BY <2>2, <2>3, NeutralUnchanged
<1>3. ASSUME NEW t \in Threads, NEW m \in Modules, ModuleLoadFinished(t, m)
      PROVE  NeutralInv'
  <2>1. \A u \in Threads, x \in Modules : thread'[u] = ModuleCall(x) => thread[u] = ModuleCall(x)
    BY <1>3, Returned DEF ModuleLoadFinished
  <2>2. UNCHANGED <<il, desktop, neutral, integrations>>
    BY <1>3 DEF ModuleLoadFinished, configVars
  <2>3. thread[t] = ModuleCall(m)
    BY <1>3, CallsOf
  <2>4. corlibLoaded'
    BY <1>3, <2>3 DEF ModuleLoadFinished, NeutralInv
  <2> QED
    BY <2>1, <2>2, <2>4 DEF NeutralInv, NeutralCodeLeftAlone
<1>4. ASSUME NEW m \in Modules, ModuleUnloadStarted(m)
      PROVE  NeutralInv'
  <2>1. /\ loaded' \subseteq loaded
        /\ UNCHANGED <<desktop, neutral, integrations, corlibLoaded, thread>>
    BY <1>4 DEF ModuleUnloadStarted, Unload, configVars
  <2>2. \A f \in Methods : il'[f] = il[f] \/ il'[f].replaced = {}
    BY <1>4, UnloadChanges, Blank
  <2> QED
    BY <2>1, <2>2 DEF NeutralInv, NeutralCodeLeftAlone
<1>5. ASSUME NEW t \in Threads, NEW f \in Methods, JITCompilationStarted(t, f)
      PROVE  NeutralInv'
  <2>1. \A u \in Threads, x \in Modules : thread'[u] = ModuleCall(x) => thread[u] = ModuleCall(x)
    BY <1>5, Returned DEF JITCompilationStarted
  <2>2. UNCHANGED <<desktop, neutral, integrations, corlibLoaded, loaded>>
    BY <1>5 DEF JITCompilationStarted, configVars, runtimeVars
  <2>3. /\ \A g \in Methods : g # f => il'[g] = il[g]
        /\ \/ il'[f].replaced = il[f].replaced
           \/ ~DomainNeutralUnsafe(MethodDomain(f)) /\ integrations # {}
    BY <1>5, JitChanges DEF Written
  <2>4. loaded # {} /\ corlibLoaded
    BY <1>5 DEF JITCompilationStarted, ModuleInv, NeutralInv
  <2> QED
    BY <2>1, <2>2, <2>3, <2>4 DEF NeutralInv, NeutralCodeLeftAlone, DomainNeutralUnsafe
<1>6. ASSUME \/ Shutdown
             \/ \E d \in AppDomains : DomainUnloads(d) \/ DomainGone(d)
             \/ UNCHANGED vars
      PROVE  NeutralInv'
  <2>1. UNCHANGED <<il, desktop, neutral, integrations, corlibLoaded, loaded, thread>>
    BY <1>6 DEF Shutdown, DomainUnloads, DomainGone, vars, profilerVars, runtimeVars, configVars
  <2> QED
    BY <2>1, NeutralUnchanged
<1>7. ASSUME NEW t \in Threads, NEW d \in AppDomains, AssemblyLoadEnter(t, d)
      PROVE  NeutralInv'
  <2>1. \A u \in Threads, x \in Modules : thread'[u] = ModuleCall(x) => thread[u] = ModuleCall(x)
    <3>1. Enter(t, AssemblyCall(d))
      BY <1>7 DEF AssemblyLoadEnter, AssemblyCall
    <3> QED
      BY <3>1, Entered
  <2>2. UNCHANGED <<il, desktop, neutral, integrations, corlibLoaded, loaded>>
    BY <1>7 DEF AssemblyLoadEnter, profilerVars, runtimeVars
  <2> QED
    BY <2>1, <2>2, NeutralUnchanged
<1>8. ASSUME NEW t \in Threads, NEW d \in AppDomains, AssemblyLoadFinished(t, d)
      PROVE  NeutralInv'
  <2>1. \A u \in Threads, x \in Modules : thread'[u] = ModuleCall(x) => thread[u] = ModuleCall(x)
    BY <1>8, Returned DEF AssemblyLoadFinished
  <2>2. UNCHANGED <<il, desktop, neutral, integrations, corlibLoaded, loaded>>
    BY <1>8 DEF AssemblyLoadFinished, configVars
  <2> QED
    BY <2>1, <2>2, NeutralUnchanged
<1>9. ASSUME NEW t \in Threads, NEW f \in Methods, JitEnter(t, f)
      PROVE  NeutralInv'
  <2>1. Enter(t, JitCall(f))
    BY <1>9 DEF JitEnter, JitCall
  <2>2. \A u \in Threads, x \in Modules : thread'[u] = ModuleCall(x) => thread[u] = ModuleCall(x)
    BY <2>1, Entered
  <2>3. UNCHANGED <<il, desktop, neutral, integrations, corlibLoaded, loaded>>
    BY <1>9 DEF JitEnter, profilerVars
  <2> QED
    BY <2>2, <2>3, NeutralUnchanged
<1>10. ASSUME NEW t \in Threads, JitSkips(t)
       PROVE  NeutralInv'
  <2>1. \A u \in Threads, x \in Modules : thread'[u] = ModuleCall(x) => thread[u] = ModuleCall(x)
    BY <1>10, Returned DEF JitSkips
  <2>2. UNCHANGED <<il, desktop, neutral, integrations, corlibLoaded, loaded>>
    BY <1>10 DEF JitSkips, profilerVars, runtimeVars
  <2> QED
    BY <2>1, <2>2, NeutralUnchanged
<1> QED
  BY <1>1, <1>2, <1>3, <1>4, <1>5, <1>6, <1>7, <1>8, <1>9, <1>10 DEF Next
-----------------------------------------------------------------------------
(***************************************************************************)
(* The domains that hold the managed profiler.                             *)
(***************************************************************************)

\* Steps that take no hook away, and change neither the bodies' calls nor what
\* is known of the domains, keep the invariant.
LEMMA ManagedKept ==
    ASSUME ManagedInv,
           UNCHANGED <<desktop, managedDomains, managedNeutral, managedPresent, lives>>,
           loaded \subseteq loaded', dying' \subseteq dying \cup (AppDomains \ {Shared}),
           desktop \/ dying' \subseteq dying,
           \A f \in Methods : /\ il[f].hook > 0 => il'[f].hook > 0
                              /\ il'[f].replaced = il[f].replaced,
           \A t \in Threads, d \in AppDomains :
              thread'[t] = AssemblyCall(d) => thread[t] = AssemblyCall(d)
                                              \/ SharedHook \/ HookedBy(d) \/ d = Shared
    PROVE  ManagedInv'
<1>1. SharedHook => SharedHook'
  BY DEF SharedHook, MethodDomain
<1>2. \A d : HookedBy(d) => HookedBy(d)'
  BY DEF HookedBy, HoldsHook
<1>3. ReplacedOnlyWhereManaged'
  BY <1>1 DEF ManagedInv, ReplacedOnlyWhereManaged, MethodDomain
<1>4. (desktop /\ ~SharedHook => \A d \in AppDomains \ {Shared} :
          /\ d \in managedDomains => d \in managedPresent /\ HookedBy(d)
          /\ (\E t \in Threads : thread[t] = AssemblyCall(d)) => HookedBy(d))'
  BY <1>1, <1>2 DEF ManagedInv
<1> QED
  BY <1>3, <1>4 DEF ManagedInv

\* Every step keeps the invariant about replaced calls.
LEMMA ManagedStep ==
    ASSUME TypeInv, ModuleInv, HookInv, ManagedInv, [Next]_vars
    PROVE  ManagedInv'
<1> USE NativeAssumption
<1> \A f \in Methods : ModuleOf[f] \in Modules
  OBVIOUS
<1>1. ASSUME NEW t \in Threads, NEW m \in Modules, ModuleLoadFinished(t, m)
      PROVE  ManagedInv'
  <2>1. \A u \in Threads, d \in AppDomains :
          thread'[u] = AssemblyCall(d) => thread[u] = AssemblyCall(d)
    BY <1>1, Returned DEF ModuleLoadFinished
  <2>2. /\ loaded' = loaded \cup {m}
        /\ UNCHANGED <<desktop, managedDomains, managedNeutral, managedPresent, lives, dying, il>>
    BY <1>1 DEF ModuleLoadFinished, configVars
  <2> QED
    BY <2>1, <2>2, ManagedKept
<1>2. ASSUME NEW m \in Modules, ModuleUnloadStarted(m)
      PROVE  ManagedInv'
  <2>1. /\ m \in loaded /\ loaded' = loaded \ {m} /\ (desktop => DomainOf[m] # Shared)
        /\ (DomainOf[m] \in dying \/ HoldsHook(m)) =>
              \A t \in Threads : thread[t] # AssemblyCall(DomainOf[m])
        /\ UNCHANGED <<desktop, managedNeutral, managedPresent, lives, dying, thread>>
    BY <1>2, NotBusy DEF ModuleUnloadStarted, Unload, configVars, ManagedInv
  <2>2. /\ \A f \in Methods : ModuleOf[f] = m => il'[f] = Untouched
        /\ \A f \in Methods : ModuleOf[f] # m => il'[f] = il[f]
    BY <1>2, UnloadChanges
  <2>3. /\ managedDomains' \subseteq managedDomains
        /\ infoMap[m].stored => DomainOf[m] \notin managedDomains'
    BY <1>2 DEF ModuleUnloadStarted
  <2>4. HoldsHook(m) => infoMap[m].stored
    BY DEF HoldsHook, HookInv
  <2>5. desktop /\ SharedHook => SharedHook'
    BY <2>1, <2>2 DEF SharedHook, MethodDomain
  <2>6. ReplacedOnlyWhereManaged'
    <3>1. \A f \in Methods : MethodDomain(f) \in AppDomains
      BY DEF MethodDomain
    <3>2. \A f \in Methods : lives[MethodDomain(f)] = 1 \/ ~SharedHook'
                           => lives[MethodDomain(f)] = 1 \/ ~SharedHook
      BY <2>5, <3>1 DEF ManagedInv
    <3>3. \A f \in Methods : il'[f].replaced # {} => il[f].replaced # {}
      BY <2>2, Blank
    <3> QED
      BY <2>1, <3>2, <3>3 DEF ManagedInv, ReplacedOnlyWhereManaged, MethodDomain
  <2>7. \A d \in AppDomains : HookedBy(d) => HookedBy(d)' \/ (d = DomainOf[m] /\ HoldsHook(m))
    <3>1. \A x \in loaded : x # m /\ HoldsHook(x) => x \in loaded' /\ HoldsHook(x)'
      BY <2>1, <2>2 DEF HoldsHook
    <3> QED
      BY <3>1 DEF HookedBy
  <2>8. ASSUME desktop, ~SharedHook', NEW d \in AppDomains \ {Shared}
        PROVE  /\ d \in managedDomains' => d \in managedPresent' /\ HookedBy(d)'
               /\ (\E t \in Threads : thread'[t] = AssemblyCall(d)) => HookedBy(d)'
    <3>1. d \in managedDomains' => d \in managedPresent' /\ HookedBy(d)'
      BY <2>1, <2>3, <2>4, <2>5, <2>7, <2>8 DEF ManagedInv
    <3>2. (\E t \in Threads : thread'[t] = AssemblyCall(d)) => HookedBy(d)'
      BY <2>1, <2>5, <2>7, <2>8 DEF ManagedInv
    <3> QED
      BY <3>1, <3>2
  <2> QED
    BY <2>1, <2>3, <2>6, <2>8 DEF ManagedInv
<1>3. ASSUME NEW t \in Threads, NEW d \in AppDomains, AssemblyLoadEnter(t, d)
      PROVE  ManagedInv'
  <2>1. Enter(t, AssemblyCall(d))
    BY <1>3 DEF AssemblyLoadEnter, AssemblyCall
  <2>2. \A u \in Threads, x \in AppDomains :
          thread'[u] = AssemblyCall(x) => x = d \/ thread[u] = AssemblyCall(x)
    BY <2>1, Entered
  <2>3. PICK m \in loaded : /\ HoldsHook(m)
                            /\ DomainOf[m] \in {d, Shared} \/ d = Shared
    BY <1>3 DEF AssemblyLoadEnter, MayLoadManaged
  <2>4. SharedHook \/ HookedBy(d) \/ d = Shared
    BY <2>3 DEF SharedHook, HookedBy, HoldsHook, MethodDomain
  <2>5. UNCHANGED <<desktop, managedDomains, managedNeutral, managedPresent, lives, dying, loaded, il>>
    BY <1>3 DEF AssemblyLoadEnter, profilerVars, runtimeVars, configVars
  <2> QED
    BY <2>2, <2>4, <2>5, ManagedKept
<1>4. ASSUME NEW t \in Threads, NEW d \in AppDomains, AssemblyLoadFinished(t, d)
      PROVE  ManagedInv'
  <2>1. \A u \in Threads, x \in AppDomains :
          thread'[u] = AssemblyCall(x) => thread[u] = AssemblyCall(x)
    BY <1>4, Returned DEF AssemblyLoadFinished
  <2>2. thread[t] = AssemblyCall(d)
    BY <1>4, CallsOf
  <2>3. UNCHANGED <<desktop, lives, dying, loaded, il>>
    BY <1>4 DEF AssemblyLoadFinished, configVars
  <2>4. \/ /\ managedDomains' = managedDomains \cup {d}
           /\ managedPresent' = managedPresent \cup {d}
           /\ managedNeutral' => managedNeutral \/ d = Shared
        \/ UNCHANGED <<managedDomains, managedNeutral, managedPresent>>
    BY <1>4 DEF AssemblyLoadFinished, TypeInv
  <2>5. (SharedHook' <=> SharedHook) /\ \A x : HookedBy(x)' <=> HookedBy(x)
    BY <2>3 DEF SharedHook, HookedBy, HoldsHook, MethodDomain
  <2>6. ReplacedOnlyWhereManaged'
    <3>1. managedPresent \subseteq managedPresent'
      BY <2>4
    <3> QED
      BY <2>3, <2>5, <3>1 DEF ManagedInv, ReplacedOnlyWhereManaged, MethodDomain
  <2>7. (\A x \in managedDomains : lives[x] = 1 => x \in managedPresent)'
    BY <2>3, <2>4 DEF ManagedInv
  <2>8. (managedNeutral \/ Shared \in managedDomains => Shared \in managedPresent)'
    BY <2>4 DEF ManagedInv
  <2>9. ASSUME desktop, ~SharedHook', NEW x \in AppDomains \ {Shared}
        PROVE  /\ x \in managedDomains' => x \in managedPresent' /\ HookedBy(x)'
               /\ (\E u \in Threads : thread'[u] = AssemblyCall(x)) => HookedBy(x)'
    BY <2>1, <2>2, <2>4, <2>5, <2>9 DEF ManagedInv
  <2> QED
    BY <2>3, <2>6, <2>7, <2>8, <2>9 DEF ManagedInv
<1>5. ASSUME NEW t \in Threads, NEW f \in Methods, JITCompilationStarted(t, f)
      PROVE  ManagedInv'
  <2>1. \A u \in Threads, x \in AppDomains :
          thread'[u] = AssemblyCall(x) => thread[u] = AssemblyCall(x)
    BY <1>5, Returned DEF JITCompilationStarted
  <2>2. UNCHANGED <<desktop, managedDomains, managedNeutral, managedPresent, lives, dying, loaded>>
    BY <1>5 DEF JITCompilationStarted, runtimeVars, configVars
  <2>3. /\ \A g \in Methods : g # f => il'[g] = il[g]
        /\ il'[f].hook \in {il[f].hook, il[f].hook + 1}
        /\ il'[f].replaced = il[f].replaced \/ ManagedLoadedInto(MethodDomain(f))
    BY <1>5, JitChanges DEF Written
  <2>4. \A g \in Methods : il[g].hook > 0 => il'[g].hook > 0
    <3>1. il[f].hook \in 0 .. 1
      BY DEF TypeInv, Body
    <3> QED
      BY <2>3, <3>1
  <2>5. (SharedHook => SharedHook') /\ \A x : HookedBy(x) => HookedBy(x)'
    BY <2>2, <2>4 DEF SharedHook, HookedBy, HoldsHook, MethodDomain
  <2>6. MethodDomain(f) \in AppDomains
    BY DEF MethodDomain
  <2>7. ASSUME ManagedLoadedInto(MethodDomain(f)), lives[MethodDomain(f)] = 1 \/ ~SharedHook
        PROVE  {MethodDomain(f), Shared} \cap managedPresent # {}
    BY <2>6, <2>7 DEF ManagedLoadedInto, ManagedInv
  <2>8. ReplacedOnlyWhereManaged'
    BY <2>2, <2>3, <2>5, <2>7 DEF ReplacedOnlyWhereManaged, ManagedInv, MethodDomain
  <2>9. (desktop /\ ~SharedHook => \A x \in AppDomains \ {Shared} :
          /\ x \in managedDomains => x \in managedPresent /\ HookedBy(x)
          /\ (\E u \in Threads : thread[u] = AssemblyCall(x)) => HookedBy(x))'
    BY <2>1, <2>2, <2>5 DEF ManagedInv
  <2> QED
    BY <2>2, <2>8, <2>9 DEF ManagedInv
<1>6. ASSUME NEW d \in AppDomains, DomainGone(d)
      PROVE  ManagedInv'
  <2>1. /\ d \in dying /\ d # Shared /\ desktop /\ \A m \in loaded : DomainOf[m] # d
        /\ lives[d] \in 1 .. MaxLives
    BY <1>6 DEF DomainGone, ManagedInv, TypeInv
  <2>2. /\ dying' = dying \ {d} /\ managedPresent' = managedPresent \ {d}
        /\ lives'[d] = lives[d] + 1 /\ \A x \in AppDomains : x # d => lives'[x] = lives[x]
        /\ UNCHANGED <<desktop, managedDomains, managedNeutral, il, loaded, thread>>
    BY <1>6 DEF DomainGone, profilerVars, configVars, TypeInv
  <2>3. \A f \in Methods : MethodDomain(f) = d => il[f].replaced = {}
    BY <2>1, Blank DEF ModuleInv, MethodDomain
  <2>4. (SharedHook' <=> SharedHook) /\ (\A x : HookedBy(x)' <=> HookedBy(x)) /\ ~HookedBy(d)
    BY <2>1, <2>2 DEF SharedHook, HookedBy, HoldsHook, MethodDomain
  <2>5. ReplacedOnlyWhereManaged'
    <3> SUFFICES ASSUME NEW f \in Methods, il'[f].replaced # {},
                        lives'[MethodDomain(f)] = 1 \/ ~SharedHook'
                 PROVE  {MethodDomain(f), Shared} \cap managedPresent' # {}
      BY DEF ReplacedOnlyWhereManaged, MethodDomain
    <3>1. MethodDomain(f) # d /\ MethodDomain(f) \in AppDomains
      BY <2>2, <2>3 DEF MethodDomain
    <3> QED
      BY <2>1, <2>2, <2>4, <3>1 DEF ManagedInv, ReplacedOnlyWhereManaged
  <2>6. (\A x \in managedDomains : lives[x] = 1 => x \in managedPresent)'
    <3>1. lives'[d] # 1
      BY <2>1, <2>2
    <3> QED
      BY <2>2, <3>1 DEF ManagedInv, TypeInv
  <2>7. ASSUME desktop, ~SharedHook', NEW x \in AppDomains \ {Shared}
        PROVE  /\ x \in managedDomains' => x \in managedPresent' /\ HookedBy(x)'
               /\ (\E u \in Threads : thread'[u] = AssemblyCall(x)) => HookedBy(x)'
    BY <2>2, <2>4, <2>7 DEF ManagedInv
  <2> QED
    BY <2>1, <2>2, <2>5, <2>6, <2>7 DEF ManagedInv
<1>7. ASSUME \/ Initialize \/ Shutdown
             \/ \E d \in AppDomains : DomainUnloads(d)
             \/ UNCHANGED vars
      PROVE  ManagedInv'
  <2>1. /\ UNCHANGED <<desktop, managedDomains, managedNeutral, managedPresent, lives, loaded, il, thread>>
        /\ dying' \subseteq dying \cup (AppDomains \ {Shared})
        /\ desktop \/ dying' \subseteq dying
    BY <1>7 DEF Initialize, Shutdown, DomainUnloads, vars, profilerVars, runtimeVars, configVars
  <2> QED
    BY <2>1, ManagedKept
<1>8. ASSUME \/ \E t \in Threads, m \in Modules : ModuleLoadEnter(t, m)
             \/ \E t \in Threads, f \in Methods : JitEnter(t, f)
             \/ \E t \in Threads : JitSkips(t)
      PROVE  ManagedInv'
  <2>1. UNCHANGED <<desktop, managedDomains, managedNeutral, managedPresent, lives, dying, loaded, il>>
    BY <1>8 DEF ModuleLoadEnter, JitEnter, JitSkips, profilerVars, runtimeVars, configVars
  <2>2. \/ \E t \in Threads, m \in Modules : Enter(t, ModuleCall(m))
        \/ \E t \in Threads, f \in Methods : Enter(t, JitCall(f))
        \/ \E t \in Threads : Return(t)
    BY <1>8 DEF ModuleLoadEnter, JitEnter, JitSkips, ModuleCall, JitCall
  <2>3. \A u \in Threads, x \in AppDomains :
          thread'[u] = AssemblyCall(x) => thread[u] = AssemblyCall(x)
    BY <2>2, Entered, Returned
  <2> QED
    BY <2>1, <2>3, ManagedKept
<1> QED
  BY <1>1, <1>2, <1>3, <1>4, <1>5, <1>6, <1>7, <1>8 DEF Next
-----------------------------------------------------------------------------
(***************************************************************************)
(* The theorems.                                                           *)
(***************************************************************************)

\* The profiler starts detached, in a process with nothing loaded.
LEMMA InitHolds == Init => IInv /\ ManagedInv
<1> SUFFICES ASSUME Init
             PROVE  IInv /\ ManagedInv
  OBVIOUS
<1> USE NativeAssumption
<1>1. \A f \in Methods : il[f] = Untouched
  BY DEF Init
<1>2. \A t \in Threads : \A x : thread[t] # ModuleCall(x) /\ thread[t] # AssemblyCall(x)
                            /\ thread[t] # JitCall(x)
  BY CallsApart DEF Init
<1>3. TypeInv
  <2>1. il \in [Methods -> Body] /\ infoMap \in [Modules -> Info] /\ thread \in [Threads -> Calls]
    BY Blank, CallTypes DEF Init
  <2>2. jits \in [Methods -> 0 .. MaxJits] /\ lives \in [AppDomains -> 1 .. MaxLives]
    BY DEF Init
  <2> QED
    BY <2>1, <2>2 DEF TypeInv, Init
<1>4. ModuleInv
  BY <1>1, <1>2, Blank DEF ModuleInv, Init
<1>5. InsertInv
  BY <1>1, <1>2, Blank DEF InsertInv, Init
<1>6. HookInv
  BY <1>1, Blank DEF HookInv, HookOncePerDomain
<1>7. NeutralInv
  BY <1>1, <1>2, Blank DEF NeutralInv, NeutralCodeLeftAlone, Init
<1>8. ManagedInv
  BY <1>1, <1>2, Blank DEF ManagedInv, ReplacedOnlyWhereManaged, Init
<1> QED
  BY <1>3, <1>4, <1>5, <1>6, <1>7, <1>8 DEF IInv

\* The invariant is inductive.
LEMMA Inductive == IInv /\ [Next]_vars => IInv'
  BY TypeStep, ModuleStep, InsertStep, HookStep, NeutralStep DEF IInv

\* The invariant holds throughout, whatever the modules and domains.
THEOREM InvariantHolds == Spec => []IInv
<1>1. Init => IInv
  BY InitHolds
<1> QED
  BY <1>1, Inductive, PTL DEF Spec

\* For any number of threads and domains, JITCompilationStarted gives the
\* start-up hook to one method of a domain: firstJit and the body are written
\* under one hold of the lock.
THEOREM HookedOnce == Spec => []HookOncePerDomain
<1>1. IInv => HookOncePerDomain
  BY DEF IInv, HookInv
<1> QED
  BY <1>1, InvariantHolds, PTL

\* A callback that waits for the lock while its module unloads writes no body
\* and leaves nothing in the caches of the module: it is no longer in
\* module_id_to_info_map_.
THEOREM UnloadedLeftAlone == Spec => NothingWrittenAfterUnload
<1>1. IInv /\ [Next]_vars =>
        [/\ \A f \in Methods : ModuleOf[f] \notin loaded => il'[f] \in {il[f], Untouched}
         /\ \A m \in Modules \ (loaded \cup loaded') :
               infoMap'[m] \in {infoMap[m], Untracked}]_vars
  <2> SUFFICES ASSUME IInv, Next
               PROVE  /\ \A f \in Methods :
                            ModuleOf[f] \notin loaded => il'[f] \in {il[f], Untouched}
                      /\ \A m \in Modules \ (loaded \cup loaded') :
                            infoMap'[m] \in {infoMap[m], Untracked}
    BY DEF vars
  <2> USE NativeAssumption DEF IInv
  <2>1. ASSUME NEW m \in Modules, ModuleUnloadStarted(m)
        PROVE  /\ \A f \in Methods :
                     ModuleOf[f] \notin loaded => il'[f] \in {il[f], Untouched}
               /\ \A x \in Modules : infoMap'[x] \in {infoMap[x], Untracked}
    <3>1. \A x \in Modules : infoMap'[x] \in {infoMap[x], Untracked}
      BY <2>1 DEF ModuleUnloadStarted, TypeInv
    <3> QED
      BY <2>1, <3>1, UnloadChanges
  <2>2. ASSUME NEW t \in Threads, NEW g \in Methods, JITCompilationStarted(t, g)
        PROVE  /\ \A f \in Methods :
                     ModuleOf[f] \notin loaded => il'[f] \in {il[f], Untouched}
               /\ \A m \in Modules \ loaded : infoMap'[m] = infoMap[m]
    <3>1. ModuleOf[g] \in loaded
      BY <2>2 DEF JITCompilationStarted, ModuleInv
    <3>2. PICK i \in Info : infoMap' = [infoMap EXCEPT ![ModuleOf[g]] = i]
      BY <2>2, JitWrites
    <3>3. \A m \in Modules : m # ModuleOf[g] => infoMap'[m] = infoMap[m]
      BY <3>2 DEF TypeInv
    <3> QED
      BY <2>2, <3>1, <3>3, JitChanges
  <2>3. ASSUME NEW t \in Threads, NEW m \in Modules, ModuleLoadFinished(t, m)
        PROVE  /\ UNCHANGED il
               /\ \A x \in Modules \ loaded' : infoMap'[x] = infoMap[x]
    <3>1. m \in loaded' /\ UNCHANGED il
      BY <2>3 DEF ModuleLoadFinished
    <3>2. \A x \in Modules : x # m => infoMap'[x] = infoMap[x]
      BY <2>3 DEF ModuleLoadFinished, Track, TypeInv
    <3> QED
      BY <3>1, <3>2
  <2>4. ASSUME NEW t \in Threads, NEW d \in AppDomains, AssemblyLoadFinished(t, d)
        PROVE  UNCHANGED <<il, infoMap>>
    BY <2>4 DEF AssemblyLoadFinished
  <2>5. ASSUME \/ Initialize \/ Shutdown
               \/ \E t \in Threads, m \in Modules : ModuleLoadEnter(t, m)
               \/ \E t \in Threads, d \in AppDomains : AssemblyLoadEnter(t, d)
               \/ \E t \in Threads, g \in Methods : JitEnter(t, g)
               \/ \E t \in Threads : JitSkips(t)
               \/ \E d \in AppDomains : DomainUnloads(d) \/ DomainGone(d)
        PROVE  UNCHANGED <<il, infoMap>>
    BY <2>5 DEF Initialize, Shutdown, ModuleLoadEnter, AssemblyLoadEnter, JitEnter,
                JitSkips, DomainUnloads, DomainGone, profilerVars, runtimeVars
  <2> QED
    BY <2>1, <2>2, <2>3, <2>4, <2>5 DEF Next
<1> QED
  BY <1>1, InvariantHolds, PTL DEF Spec, NothingWrittenAfterUnload

\* The types of the state, as the runs check them.
LEMMA TypesHold == TypeInv => TypeOK
<1> SUFFICES ASSUME TypeInv
             PROVE  TypeOK
  OBVIOUS
<1>1. \A t \in Threads :
          thread[t] \in {Idle} \cup [op : {"module"}, module : Modules]
                       \cup [op : {"assembly"}, domain : AppDomains]
                       \cup [op : {"jit"}, method : Methods]
  BY DEF TypeInv, Calls
<1> QED
  BY <1>1 DEF TypeInv, TypeOK, Info, Body

\* Whatever unloads, a body only calls wrappers the runtime can resolve and the
\* configuration wants (ProcessReplacementCalls, GetWrapperMethodRef).
THEOREM ReplacementsHold == Spec => []ReplacementsSafe
<1>1. Init => ManagedInv
  BY InitHolds
<1>2. IInv /\ ManagedInv /\ [Next]_vars => ManagedInv'
  BY ManagedStep DEF IInv
<1>3. IInv /\ ManagedInv => ReplacementsSafe
  BY TypesHold DEF IInv, NeutralInv, ManagedInv, ReplacementsSafe
<1> QED
  BY <1>1, <1>2, <1>3, InvariantHolds, PTL DEF Spec
=============================================================================
