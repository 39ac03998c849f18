CONSTANTS
    levels_ = 4
    IntBits = 2
    Pow2 <- MCPow2
    KeySets <- MCKeySets
    Spurious <- MCSpurious
SPECIFICATION OldSpec
INVARIANT
    NoFalseNegative
CHECK_DEADLOCK FALSE
