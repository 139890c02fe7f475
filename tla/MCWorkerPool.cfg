SPECIFICATION FairSpec
CONSTANTS
    t1 = t1
    t2 = t2
    m1 = m1
    m2 = m2
    Tasks = {t1, t2}
    Merchants = {m1, m2}
    MerchantOf <- MCMerchantOf
    Max = 3
    BatchSize = 2
    PollBatch = 2
    MaxChanges = 1
INVARIANTS
    TypeOK
    PoolSound
PROPERTIES
    DecidedByPlan
    NobodyWaitsForever
CHECK_DEADLOCK FALSE
