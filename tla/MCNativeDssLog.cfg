SPECIFICATION LogSpec
CONSTANTS
    p = p
    q = q
    r = r
    Value = {v1}
    Path <- MCPath
    MaxHash = 2
    TableHash <- MCCollide
    PathHash <- MCPathHash
    BinSize = 2
    BinsPerBlock = 2
    Kind = {"text", "its"}
    MaxBins = 3
    MaxDeletes = 2
CHECK_DEADLOCK FALSE
INVARIANTS
    TypeOK
    Accounting
    RegionsApart
    LookupMatchesLog
PROPERTIES
    ImplementsLog
