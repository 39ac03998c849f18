CONSTANTS
    levels_ = 3
    Kinds = {"Rosetta", "Elastic_Rosetta", "old Rosetta", "old Elastic_Rosetta"}
    IntBits = 2
    MaxUnits = 2
    Pow2 <- MCPow2
    KeySets <- MCKeySets
    Spurious <- MCSpurious
    UnitSpurious <- MCUnitSpurious
    none = none
SPECIFICATION FairLifeSpec
INVARIANTS
    LifeTypeOK
    FewerUnitsAnswerMore
    ImageIsComplete
    NoFalseNegativeInNarrowRange
PROPERTIES
    ImplementsRangeFilterForLife
CHECK_DEADLOCK FALSE
