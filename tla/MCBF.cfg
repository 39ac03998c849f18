CONSTANTS
    Keys = {k1, k2}
    BitsPerKey = {1, 2, 3}
    NumKeys = {0, 1, 2}
    Hashes <- MCHashes
    HashRange = 8
    none = none
SPECIFICATION Spec
INVARIANTS
    TypeOK
    NoFalseNegative
    AssertionInSet1Holds
CHECK_DEADLOCK FALSE
