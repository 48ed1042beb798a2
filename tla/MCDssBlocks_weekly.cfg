SPECIFICATION BlocksSpec
CONSTANTS
    EPart = {"1WEEK"}
    Series <- MCWeekly
    Window <- MCWindow
CHECK_DEADLOCK FALSE
INVARIANTS
    NoValueIsDropped
