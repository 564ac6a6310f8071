CONSTANTS
    p1 = p1
    p2 = p2
    None = none
    Puts = {p1, p2}
    Keyed = {p1}
    PartPuts = {p2}
    Tries <- MCTries
    Bytes <- MCBytes
    MaxMsgBytes = 4
    PageSize = 2
    MaxSlots = 1
    MaxIdle = 1
    MaxFaults = 1
SPECIFICATION Spec
CHECK_DEADLOCK FALSE
INVARIANTS
    TypeOK
    AnsweredAtMostOnce
    PendingAwaitsTheWrite
    CommitsItsOwnBytes
    OneOwnerPerSlot
    SlotIsUsable
    DoneIsDelivered
