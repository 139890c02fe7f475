SPECIFICATION Spec
CONSTANTS
    w1 = w1
    w2 = w2
    r1 = r1
    r2 = r2
    r3 = r3
    ops = ops
    Tasks <- MCThreeTasks
    Agents = {ops}
    Registered = {ops}
    AgentOf <- MCAgentOf
    Workers = {w1}
    Limit <- MCLimitTwo
    BatchSize = 2
    MaxRetries = 2
    Threshold = 1
    Runs = {r1, r2, r3}
    MaxFaults = 0
    MaxCount = 1
INVARIANTS
    ActiveCountsExecutions
CHECK_DEADLOCK FALSE
