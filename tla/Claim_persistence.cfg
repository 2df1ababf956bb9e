SPECIFICATION RecoverySpec
CONSTANTS
    Empty = Empty
    NoNode = NoNode
    NullSst = {null}
    Failure = Failure
    Torn = {torn}
    Keys <- TwoKeys
    Values = {a}
    PerMemLimit = 1
    TotMemLimit = 2
    IsolationLevel = "REPEATABLE_READ"
    MaxTrancId = 3
    MaxTran = 0
    MaxOps = 2
    MaxBatch = 0
    MaxFlush = 2
    MaxSst = 3
    MaxSession = 2
INVARIANT Persistence
CHECK_DEADLOCK FALSE
