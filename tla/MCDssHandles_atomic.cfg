SPECIFICATION Spec
CONSTANTS
    p = p
    q = q
    x1 = x1
    x2 = x2
    Value = {x1, x2}
    Path <- MCPath
    MaxHash = 2
    TableHash <- MCHash
    PathHash <- MCPathHash
    BinSize = 2
    BinsPerBlock = 2
    Handle = {h1}
    Storable <- MCStorable
    MaxBins = 3
    MaxDeletes = 1
    MaxFaults = 1
    TornAt = {1,2,3,4,5,6,8,9,10}
CHECK_DEADLOCK FALSE
INVARIANTS
    StoresAreDurable
    CountedSlotsAreEntries
    KeptAreListed
PROPERTIES
    ReadersSeeWhole
    ImplementsNativeDss
