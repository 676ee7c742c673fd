SPECIFICATION FairSpec
CONSTANTS
    Traces = {t1, t2}
    NoTrace = NoTrace
    MaxSize = 2
    RetryLimit = 2
    Writers = {w1}
    Loop = Loop
    Closers = {c1, c2}
    SendModes = {TRUE, FALSE}
    StatsdEnabled = TRUE
PROPERTIES EventuallySettled CloseReturns
