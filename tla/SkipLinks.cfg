CONSTANTS
    Keys = {1, 2, 3}
    Values = {1}
    Empty = 0
    NoNode = NoNode
    MaxLevel = 3
    Ids = {1, 2}
    MaxNodes = 4
    Overhead = 9
    Null = Null
    Throws = Throws
SPECIFICATION Spec
CHECK_DEADLOCK FALSE
INVARIANTS
    LinksAgree
    SizeExact
    RangesExact
    GetExact
PROPERTIES
    ImplementsTable
