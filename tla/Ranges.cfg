CONSTANTS
    Keys = {1, 2, 3}
    Values = {v1, v2}
    Empty = Empty
    NoNode = NoNode
    PerMemLimit = 2
    TotMemLimit = 3
    NullSst = NullSst
    Failure = Failure
    OffsetRange = 8
    Throws = Throws
    MaxTrancId = 5
    MaxSst = 3
    Hangs = Hangs
SYMMETRY Symmetry
SPECIFICATION Spec
CHECK_DEADLOCK FALSE
INVARIANTS
    RangeOrdered
    RangeNewest
