CONSTANTS
    p1 = p1
    p2 = p2
    None = none
    Puts = {p1}
    Keyed = {}
    PartPuts = {}
    Tries <- MCTries
    Bytes <- MCBytes
    MaxMsgBytes = 4
    PageSize = 2
    MaxSlots = 1
    MaxIdle = 1
    MaxFaults = 1
SPECIFICATION FairSpec
CHECK_DEADLOCK FALSE
PROPERTIES
    EveryCommitIsAnswered
