SPECIFICATION RecoverySpec
CONSTANTS
    Empty = Empty
    NoNode = NoNode
    NullSst = {null}
    Failure = Failure
    Torn = {torn}
    Keys <- TwoKeys
    Values = {a}
    PerMemLimit = 1
    TotMemLimit = 2
    IsolationLevel = "REPEATABLE_READ"
    MaxTrancId = 3
    MaxTran = 2
    MaxOps = 3
    MaxBatch = 0
    MaxFlush = 1
    MaxSst = 3
    MaxSession = 2
INVARIANTS
    RecoveryTypeOK
    SessionDurable
    RecoversLog
    RecoveryOrdered
PROPERTY FoundNewestFirst
CHECK_DEADLOCK FALSE
