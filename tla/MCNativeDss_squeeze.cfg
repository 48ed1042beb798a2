SPECIFICATION Spec
CONSTANTS
    p = p
    q = q
    r = r
    Value = {v1}
    Path <- MCTwo
    MaxHash = 2
    TableHash <- MCCollideTwo
    PathHash <- MCPathHashTwo
    BinSize = 2
    BinsPerBlock = 4
    Kind = {"text", "ts", "its", "pd", "array", "location", "grid"}
    MaxBins = 3
    MaxDeletes = 1
CHECK_DEADLOCK FALSE
INVARIANT
    RecordsIntact
    ScanFindsRecords
PROPERTIES
    SqueezeKeepsReadable
    SqueezeIsIdempotent
