SPECIFICATION Spec
CONSTANTS
    None = None
    Writers = {w}
    Readers = {}
    Committers = {c}
    Flushers = {f}
    Closers = {}
    PerMemLimit = 2
    TotMemLimit = 3
    Word = 64
    LoneFlush = FALSE
    MaxTrancId = 4
    MaxSst = 3
PROPERTIES
    OnlyPutsMisstateBytes
    LossesKnown
CHECK_DEADLOCK FALSE
