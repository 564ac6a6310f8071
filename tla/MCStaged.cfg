CONSTANTS
    k1 = k1
    u1 = u1
    t1 = t1
    t2 = t2
    Keys = {k1}
    MCKey = k1
    Uploads = {u1}
    Parts = {1}
    Threads = {t1, t2}
    Capacity = 2
    Sweeper = sweeper
    Offsets = {0}
    Lengths = {1}
    MinPart = 1
    None = none
    KeyOf <- MCKeyOf
SPECIFICATION Spec
INVARIANT
    NothingStaysStaged
