CONSTANTS
    levels_ = 4
    ByteBits = 2
    Pow2 <- MCPow2
    KeySets <- MCKeySets
    Spurious <- MCSpurious
    MaxKeys = 1
    MaxSpurious = 0
    Passings = {"reference"}
SPECIFICATION Spec
INVARIANTS
    NoFalseNegative
CHECK_DEADLOCK FALSE
