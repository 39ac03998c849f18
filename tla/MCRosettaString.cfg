CONSTANTS
    levels_ = 3
    ByteBits = 1
    Pow2 <- MCPow2
    KeySets <- MCKeySets
    Spurious <- MCSpurious
    MaxKeys = 2
    MaxSpurious = 1
    Passings = {"value", "reference"}
SPECIFICATION FairSpec
INVARIANTS
    TypeOK
    NoFalseNegativeByValue
    AcceptedLeafInRange
    SeekStringNamesLeaf
PROPERTIES
    ImplementsIntegerSearch
    QueryEnds
CHECK_DEADLOCK FALSE
