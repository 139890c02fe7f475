SPECIFICATION FairSpec
CONSTANTS
    a1 = a1
    a2 = a2
    Messages <- MCThreeMessages
    Replies <- MCTwoReplies
    Apis = {a1}
    BatchSize = 2
    MaxRetries = 2
    MaxFaults = 1
    MaxCount = 2
INVARIANTS
    TypeOK
    TwiceOnlyIfLost
    SentWasAccepted
    SentNoMoreThanAccepted
PROPERTIES
    Attempted
CHECK_DEADLOCK FALSE
