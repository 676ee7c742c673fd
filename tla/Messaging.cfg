SPECIFICATION Spec
CONSTANTS
    Flows = {f1, f2}
    Malformed = Malformed
    Null = Null
    Foreign <- MCForeign
    MaxSpans = 3
    MaxDepth = 2
SYMMETRY Sym
INVARIANTS FlowsRestored ReceiverContinuesTrace OneDecision OneSpanPerProduce
PROPERTIES SentWithContext
CHECK_DEADLOCK FALSE
