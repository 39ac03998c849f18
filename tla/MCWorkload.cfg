CONSTANTS
    levels_ = 5
    Pow2 <- MCPow2
    CeilExp <- MCCeilExp
    IntBits = 3
    bits_per_key = 8
    NaN = NaN
    Filters = {"Bloom", "ElasticBF", "SuRF", "Rosetta", "ElasticRosetta"}
    Queries = {"point", "range", "mix", "count-long", "count-short"}
    Percents = {0, 60, 100, 101}
    Keys = {1, 3, 10, 23}
    MaxLines = 3
    kNumIntRecords = 2
    kIntRangeSize = 9
    DigitBits = 2
SPECIFICATION Spec
INVARIANTS
    TypeOK
    BudgetFallsWithHeight
    UndefinedExactlyWithoutKeys
    AssertionHoldsAsBuilt
CHECK_DEADLOCK FALSE
