SPECIFICATION BlocksSpec
CONSTANTS
    EPart = {"1YEAR"}
    Series <- MCYearly
    Window <- MCFifteen
CHECK_DEADLOCK FALSE
INVARIANTS
    CenturyIsFound
