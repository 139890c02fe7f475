SPECIFICATION FairSpec
CONSTANTS
    v1 = v1
    r1 = r1
    r2 = r2
    o1 = o1
    a1 = a1
    NoRow = NoRow
    Variants = {v1}
    Reservations = {r1, r2}
    VariantOf <- MCVariantOf
    Orders = {o1}
    Candidates <- MCCandidates
    Apis = {a1}
    Initial <- MCInitial
    MaxRequests = 1
    MaxFaults = 1
INVARIANTS
    StockTypeOK
    ReservedMatchesActive
    StockAccounted
    PromisesCovered
    HeldWhileOpen
PROPERTIES
    ImplementsLedger
    LapsedEnds
    DriftCorrected
CHECK_DEADLOCK FALSE
