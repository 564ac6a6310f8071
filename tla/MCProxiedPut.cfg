CONSTANTS
    p1 = p1
    p2 = p2
    p3 = p3
    Puts = {p1, p2, p3}
    Expected <- MCExpected
    Size <- MCSize
    MaxChunk = 2
    Tries = 2
    MaxFaults = 2
    None = None

SPECIFICATION Spec

INVARIANTS
    AckedIsReceived
    ReceivedWasOpened
    CompleteIsReceived

CHECK_DEADLOCK FALSE
