SPECIFICATION FairSpec
CONSTANTS
    a1 = a1
    a2 = a2
    w1 = w1
    w2 = w2
    Events <- MCEvents
    ApiEvents <- MCApiEvents
    WorkerEvents <- MCWorkerEvents
    NoticeEvents <- MCNoEvents
    Apis = {a1}
    Workers = {w1, w2}
    RedisEnabled = TRUE
    BatchSize = 1
    MaxRetry = 3
    MaxFaults = 1
    MaxCount = 1
PROPERTIES
    Settles
CHECK_DEADLOCK FALSE
