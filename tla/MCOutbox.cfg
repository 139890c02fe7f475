SPECIFICATION Spec
CONSTANTS
    a1 = a1
    a2 = a2
    w1 = w1
    w2 = w2
    Events <- MCEvents
    ApiEvents <- MCApiEvents
    WorkerEvents <- MCWorkerEvents
    NoticeEvents <- MCNotices
    Apis = {a1, a2}
    Workers = {w1, w2}
    RedisEnabled = TRUE
    BatchSize = 2
    MaxRetry = 3
    MaxFaults = 2
    MaxCount = 3
SYMMETRY MCSymmetry
INVARIANTS
    TypeOK
    TxRowsArePending
    DeadLetteredOnce
    DuplicateTaskOnlyIfUnrecorded
    RetryBelowLimit
    SharedEventNotLost
PROPERTIES
    NoResurrection
CHECK_DEADLOCK FALSE
