CONSTANTS
    i1 = i1
    i2 = i2
    k1 = k1
    g1 = g1
    g2 = g2
    None = none
    NCalls = 2
    MaxSessions = 2
    MaxCalls = 4
    Ids = {i1, i2}
    Keys = {k1}
    Targets = {g1, g2}
SPECIFICATION Spec
SYMMETRY Symmetry
CHECK_DEADLOCK FALSE
INVARIANTS
    
    OneLiveSessionPerKey
    IndexesAgree
    RetryFindsItsSession
PROPERTIES
    EndedStaysEnded
