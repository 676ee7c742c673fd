SPECIFICATION Spec
CONSTANTS
    Traces = {t1, t2, t3}
    NoTrace = NoTrace
    MaxSize = 2
    RetryLimit = 3
    Writers = {w1, w2}
    Loop = Loop
    Closers = {c1, c2}
    SendModes = {TRUE, FALSE}
    StatsdEnabled = TRUE
SYMMETRY Symmetry
INVARIANTS TypeOK OnePlace DeliveryBound LastFlushCoversExit
PROPERTIES ImplementsDelivery
