CONSTANTS
    Keys = {k1, k2}
    Ids = {0, 1}
    KeyVectors <- MCKeyVectors
    MaxVector = 2
    LongVectors = {8, 15, 17}
    BitsPerKey = {0, 1, 3, 7, 13, 15}
    Hashes <- MCHashes
    HashRange = 8
    SizeRange = 4
    MaxInt = 7
    WordRange = 64
    MaxBytes = 8
    CharBits = 3
    MinBits = 3
    MaxProbes = 2
    Garbage = {0, 9}
    none = none
SPECIFICATION Spec
INVARIANTS
    TypeOK
    NoFalseNegative
    ReloadKeepsAnswers
PROPERTIES
    ImageIsStable
CHECK_DEADLOCK FALSE
