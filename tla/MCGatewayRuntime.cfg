CONSTANTS
    w1 = w1
    w2 = w2
    t1 = t1
    t2 = t2
    None = none
    Workers = {w1, w2}
    Tasks = {t1, t2}
    Leases = {t1, t2}
    SizeClasses <- MCSizeClasses
    MaxPerClass = 1
    Lengths = {0, 2, 3}
    MaxChunk = 3
SPECIFICATION Spec
CHECK_DEADLOCK FALSE
INVARIANTS
    TypeOK
    NoBufferOutlivesServer
    NoSleepOnWork
PROPERTIES
    EveryChunkIsAnswered
    ShutdownEnds
