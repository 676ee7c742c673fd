SPECIFICATION FairSpec
CONSTANTS
    Threads = {t1, t2}
    Limit = 1
    Interval = 1
    MaxTime = 2
    c1 = c1
    c2 = c2
    s1 = s1
    s2 = s2
    CustomRules = {c1, c2}
    Global = global
    Default = default
    Spans = {s1, s2}
    Matches <- MCMatches
    Slow <- MCSlow
    Rate <- MCRate
    Hash <- MCHash
    MaxCalls = 2
INVARIANTS
    RulesDecide
    OvershootBounded
PROPERTIES
    CallsReturn
