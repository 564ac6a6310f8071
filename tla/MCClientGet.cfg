CONSTANTS
    c1 = c1
    c2 = c2
    c3 = c3
    b1 = b1
    s1 = s1
    s2 = s2
    Calls = {c1, c2, c3}
    Async = {c2, c3}
    Ops <- MCOps
    Buffer <- MCBuffer
    Length <- MCLength
    Symbols = {s1, s2}
    Platforms <- MCPlatforms
    PutMax = 3
    Threshold = 2
    Chunks = 2
    PageSize = 2
    MaxFaults = 1
    None = None

SPECIFICATION Spec

INVARIANTS
    ReturnedIsRead
    CleanShutdownIsQuiet
    TokenIsPinned

CHECK_DEADLOCK FALSE
