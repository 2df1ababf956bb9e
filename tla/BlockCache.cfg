SPECIFICATION Spec
CONSTANTS
    CacheKeys = {k1, k2, k3, k4}
    Blocks = {x, y}
    Nodes = {n1, n2, n3, n4}
    Null = Null
    Capacity = 3
    K = 3
    MaxAccess = 4
SYMMETRY CacheSymmetry
INVARIANTS
    TypeOK
    Bookkeeping
    Fresh
PROPERTY EvictsLruK
CHECK_DEADLOCK FALSE
