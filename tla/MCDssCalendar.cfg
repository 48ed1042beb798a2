SPECIFICATION Spec
CONSTANTS
    Era <- MCEra
    Years = 8
CHECK_DEADLOCK FALSE
INVARIANTS
    DaysAreConsecutive
    InverseIsExact
    MonthsCarry
