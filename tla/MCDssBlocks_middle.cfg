SPECIFICATION BlocksSpec
CONSTANTS
    EPart = {"1DAY"}
    Series <- MCMiddle
    Window <- MCWindow
CHECK_DEADLOCK FALSE
INVARIANTS
    ValuesAreInTheirBlocks
