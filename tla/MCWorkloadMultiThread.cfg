CONSTANTS
    ThreadCounts <- MCThreadCounts
    Filters = {"SuRF", "Bloom"}
    QueryTypes = {"point", "range"}
    MaxTxns = 6
SPECIFICATION FairSpec
INVARIANTS
    TypeOK
    NoTxnExecutedTwice
    TotalIsWhatWasExecuted
    AssertionHoldsOnEvenSlices
PROPERTIES
    MainEnds
CHECK_DEADLOCK FALSE
