CONSTANTS
    levels_ = 3
    Pow2 <- MCPow2
    KeySets <- MCKeySets
    Spurious <- MCSpurious
    MaxKeys = 2
    MaxSpurious = 1
SPECIFICATION FairSpec
INVARIANTS
    TypeOK
    NoFalseNegative
    SeekIsLowerBound
    AnswerIsLeastVouched
    UndefinedOnlyOnWholeRange
    SearchInvariant
PROPERTIES
    QueryEnds
    ImplementsRangeFilter
CHECK_DEADLOCK FALSE
