SPECIFICATION Spec
CONSTANTS
    Threads = {t1, t2}
    corlib = corlib
    gac = gac
    hosting = hosting
    plugin = plugin
    g = g
    f = f
    h = h
    shared = shared
    d1 = d1
    w = w
    first = first
    Modules = {corlib, gac, hosting, plugin}
    Methods = {g, f, h}
    AppDomains = {shared, d1}
    Wrappers = {w, first}
    Shared = shared
    DomainOf <- MCDomainOf
    Kind <- MCKind
    Collectible = {gac, plugin}
    ModuleOf <- MCModuleOf
    Targets <- MCTargets
    Disabled = {}
    InsertFirst = {first}
    MaxJits = 1
    MaxLives = 2
INVARIANTS
    ReplacementsSafe
    HookOncePerDomain
PROPERTIES
    NothingWrittenAfterUnload
SYMMETRY Sym
CHECK_DEADLOCK FALSE
