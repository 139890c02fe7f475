SPECIFICATION FairSpec
CONSTANTS
    w1 = w1
    w2 = w2
    r1 = r1
    r2 = r2
    r3 = r3
    ops = ops
    Tasks <- MCOneTask
    Agents = {ops}
    Registered = {ops}
    AgentOf <- MCAgentOf
    Workers = {w1, w2}
    Limit <- MCLimitOne
    BatchSize = 1
    MaxRetries = 2
    Threshold = 1
    Runs = {r1, r2}
    MaxFaults = 2
    MaxCount = 2
INVARIANTS
    TypeOK
    OneExecutionPerTask
    CallsBounded
    ExcessOnlyFromCleanup
PROPERTIES
    ImplementsWorkQueue
    OrphanRecovered
CHECK_DEADLOCK FALSE
