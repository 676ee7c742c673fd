SPECIFICATION Spec
CONSTANTS
    MaxScopes = 4
    MaxRequests <- MCMaxRequests
INVARIANTS RequestsEndClean FailureOnItsRequest ActionsEnd OneTracePerRequest
CHECK_DEADLOCK FALSE
