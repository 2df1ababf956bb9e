SPECIFICATION FairSpec
CONSTANTS
    Empty = Empty
    NoNode = NoNode
    NullSst = NullSst
    Failure = Failure
    Keys <- TwoKeys
    Values = {a}
    PerMemLimit = 2
    TotMemLimit = 3
    IsolationLevel = "READ_UNCOMMITTED"
    MaxTrancId = 3
    MaxOps = 3
    MaxTran = 1
    MaxBatch = 2
    MaxFlush = 1
    MaxSst = 8
INVARIANT FrozenBytesExact
PROPERTY CallsReturn
CHECK_DEADLOCK FALSE
