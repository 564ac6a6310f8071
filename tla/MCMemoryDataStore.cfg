CONSTANTS
    Keys = {k1, k2}
    Uploads = {u1, u2}
    Parts = {p1, p2}
    Threads = {t1, t2}
    Capacity = 3
    MaxLength = 2
SPECIFICATION MCSpec
SYMMETRY Symmetry
INVARIANTS
    DSTypeOK
    ExactAccounting
    ReservedIsStaged
    WithinCapacity
