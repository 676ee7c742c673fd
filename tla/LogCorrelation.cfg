SPECIFICATION LogSpec
CONSTANTS
    Flows = {f1, f2, f3}
    FirstFlow = f1
    Scopes = {s1, s2}
    NoScope = NoScope
    MaxCloses = 2
    Providers = {"stack", "map"}
    MayThrow = TRUE
SYMMETRY Symmetry
INVARIANTS OnlyLateContextsLeft FlowsBalanced MapLogMatchesActive SerilogNestedMatchesActive
CHECK_DEADLOCK FALSE
