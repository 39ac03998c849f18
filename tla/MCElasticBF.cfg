CONSTANTS
    Keys = {k1}
    UnitSizes = {1, 4}
    MaxUnits = 2
    MaxImages = 2
    MaxInt = 4
    none = none
SPECIFICATION Spec
INVARIANTS
    TypeOK
    NoFalseNegative
    FewerUnitsDenyLess
    FirstFilterIsReadable
    ReaderOvershootsByHeader
CHECK_DEADLOCK FALSE
