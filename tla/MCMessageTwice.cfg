SPECIFICATION Spec
CONSTANTS
    a1 = a1
    a2 = a2
    Messages <- MCOneMessage
    Replies <- MCNoReplies
    Apis = {a1, a2}
    BatchSize = 2
    MaxRetries = 3
    MaxFaults = 0
    MaxCount = 2
INVARIANTS
    TwiceOnlyIfLost
CHECK_DEADLOCK FALSE
