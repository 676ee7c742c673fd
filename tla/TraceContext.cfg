SPECIFICATION FairSpec
CONSTANTS
    Threads = {a, b}
    Spans = {s1, s2, s3}
    NoSpan = NoSpan
    NoPriority = NoPriority
    ParentPriorities = {NoPriority}
    GlobalTagPriorities = {NoPriority, "UserKeep"}
    TagKeys = {k}
    MaxTagCalls = 1
CHECK_DEADLOCK FALSE
INVARIANTS CountAndPriority WrittenWhole
PROPERTIES FinishedLeadsToWritten ImplementsWriting
