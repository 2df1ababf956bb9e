SPECIFICATION Spec
CONSTANTS
    None = None
    Writers = {w1, w2}
    Readers = {r}
    Committers = {c}
    Flushers = {}
    Closers = {cl}
    PerMemLimit = 1
    TotMemLimit = 3
    Word = 64
    LoneFlush = TRUE
    MaxTrancId = 4
    MaxSst = 3
SYMMETRY Symmetry
INVARIANTS
    TypeOK
    DeadlocksKnown
    Level0InOrder
PROPERTIES
    ReadsAdmissible
CHECK_DEADLOCK FALSE
