SPECIFICATION Spec
CONSTANTS
    Flows = {f1, f2}
    FirstFlow = f1
    Scopes = {s1, s2, s3}
    NoScope = NoScope
    MaxCloses = 1
    WebRequests = {web}
    Messages = {msg}
    Commands = {cmd}
    web = web
    msg = msg
    cmd = cmd
    u = u
    q = q
    Target <- MCTarget
    Untraced = {msg}
    Excluded = {}
    MaxDepth = 2
SYMMETRY Sym
INVARIANTS CallsNested OperationsTold OneClientOnThePath WireSpanRecorded
CHECK_DEADLOCK FALSE
