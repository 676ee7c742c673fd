SPECIFICATION Spec
CONSTANTS
    Threads = {a}
    Spans = {s1}
    NoSpan = NoSpan
    NoPriority = NoPriority
    ParentPriorities = {"AutoReject"}
    GlobalTagPriorities = {NoPriority}
    TagKeys = {k}
    MaxTagCalls = 1
CHECK_DEADLOCK FALSE
INVARIANTS PropagatedPriorityKept
