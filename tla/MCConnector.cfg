SPECIFICATION CFairSpec
CONSTANTS
    e1 = e1
    e2 = e2
    c1 = c1
    c2 = c2
    q1 = q1
    Events = {e1, e2}
    Bare = {e2}
    Calls = {c1, c2}
    Retries = {q1}
    BatchSize = 2
    MaxAttempts = 2
    MaxReplays = 2
    MaxErrors = 2
INVARIANTS
    ConnectorTypeOK
    ClaimIsExclusive
    StuckOnlyIfAbandoned
    DeadHasLetter
    AppliedOnce
    AttemptsBounded
PROPERTIES
    ImplementsWorkQueue
    ClaimSettles
CHECK_DEADLOCK FALSE
