SPECIFICATION SpecWithClear
CONSTANTS
    Empty = Empty
    NoNode = NoNode
    NullSst = NullSst
    Failure = Failure
    Keys <- OneKey
    Values = {a}
    PerMemLimit = 2
    TotMemLimit = 3
    IsolationLevel = "REPEATABLE_READ"
    MaxTrancId = 5
    MaxOps = 2
    MaxTran = 2
    MaxBatch = 0
    MaxFlush = 1
    MaxSst = 3
INVARIANTS
    VersionOrder
    ReadsNewest
    CommitOrder
PROPERTY ImplementsStore
CHECK_DEADLOCK FALSE
