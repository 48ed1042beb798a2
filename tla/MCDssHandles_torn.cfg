SPECIFICATION Spec
CONSTANTS
    p = p
    q = q
    x1 = x1
    x2 = x2
    Value = {x1, x2}
    Path <- MCPath
    MaxHash = 2
    TableHash <- MCHash
    PathHash <- MCPathHash
    BinSize = 2
    BinsPerBlock = 2
    Handle = {h1}
    Storable <- MCTexts
    MaxBins = 3
    MaxDeletes = 0
    MaxFaults = 1
    TornAt = {7}
SYMMETRY MCSymmetry
CHECK_DEADLOCK FALSE
INVARIANT
    CountedSlotsAreEntries

