SPECIFICATION Spec
CONSTANTS
    Empty = Empty
    NoNode = NoNode
    NullSst = NullSst
    Failure = Failure
    Keys <- TwoKeys
    Values = {a}
    PerMemLimit = 2
    TotMemLimit = 3
    IsolationLevel = "REPEATABLE_READ"
    MaxTrancId = 3
    MaxTran = 0
    MaxOps = 1
    MaxBatch = 0
    MaxFlush = 2
    MaxSst = 4
PROPERTY FlushKeepsReads
CHECK_DEADLOCK FALSE
