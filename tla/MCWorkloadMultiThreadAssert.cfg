CONSTANTS
    ThreadCounts = {3}
    Filters = {"SuRF"}
    QueryTypes = {"point", "range"}
    MaxTxns = 6
SPECIFICATION Spec
INVARIANT
    AssertionHolds
CHECK_DEADLOCK FALSE
