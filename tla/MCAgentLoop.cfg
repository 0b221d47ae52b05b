SPECIFICATION AgentSpec
CONSTANTS
    MaxRuns = 1
    Tasks = {t1, t2}
    InvCap = 1
    LuksCap = 1
    MinHeartbeatInterval = 2
    MaxHeartbeatInterval = 5
    InitialInterval = 8
    Requested = {1, 7}
    MaxConnects = 2
    MaxAttempts = 3
    MaxTicks = 1
INVARIANTS
    LoopConsistent
PROPERTIES
    GoroutinesEnd
CHECK_DEADLOCK FALSE
