SPECIFICATION Spec
CONSTANTS
    a1 = a1
    a2 = a2
    w1 = w1
    w2 = w2
    Events <- MCThreeEvents
    ApiEvents <- MCNoEvents
    WorkerEvents <- MCTwoWorkerEvents
    NoticeEvents <- MCNotices
    Apis = {}
    Workers = {w1, w2}
    RedisEnabled = TRUE
    BatchSize = 2
    MaxRetry = 3
    MaxFaults = 2
    MaxCount = 3
SYMMETRY MCWorkerSymmetry
PROPERTIES
    ImplementsEventQueue
CHECK_DEADLOCK FALSE
