SPECIFICATION Spec
CONSTANTS
    Empty = Empty
    NoNode = NoNode
    NullSst = NullSst
    Failure = Failure
    Keys <- TwoKeys
    Values = {a}
    PerMemLimit = 2
    TotMemLimit = 3
    IsolationLevel = "REPEATABLE_READ"
    MaxTrancId = 3
    MaxOps = 3
    MaxTran = 2
    MaxBatch = 2
    MaxFlush = 1
    MaxSst = 8
INVARIANTS
    TypeOK
    Atomicity
    WalWhole
    WriteAhead
    DirectNewestFirst
CHECK_DEADLOCK FALSE
