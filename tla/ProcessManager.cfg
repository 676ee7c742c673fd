SPECIFICATION Spec
CONSTANTS
    Tracers = {p1, p2}
    Ports = {a, b}
    Stopping = {p1}
    None = None
INVARIANTS TypeOK OneManagerUnlessTogether NoAgentAbandoned WatcherHasPort
PROPERTIES StoppedLoopEnds AgentRestarted
