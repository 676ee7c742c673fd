SPECIFICATION Spec
CONSTANTS
    Traces = {t1, t2}
    NoTrace = NoTrace
    MaxSize = 2
    RetryLimit = 2
    Writers = {}
    Loop = Loop
    Closers = {c1, c2}
    SendModes = {FALSE}
    StatsdEnabled = FALSE
INVARIANTS FlushedBeforeExit
