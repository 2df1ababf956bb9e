CONSTANTS
    OffsetRange = 5
    Throws = Throws
    Keys = {1, 2, 3, 4}
    MaxId = 3
    MaxEntries = 9
    BlockSize = 3
    BlockSizes <- MCBlockSizes
    NoSst = NoSst
    NoKey = NoKey
    NoBlock = NoBlock
    Wild = Wild
SPECIFICATION Spec
CHECK_DEADLOCK FALSE
INVARIANTS
    NothingDropped
    SeekExact
    BinaryExact
    RangeExact
    WalkShows
    
