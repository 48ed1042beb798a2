SPECIFICATION Spec
CONSTANTS
    p = p
    q = q
    r = r
    Value = {v1}
    Path <- MCPath
    MaxHash = 2
    TableHash <- MCCollide
    PathHash <- MCPathHash
    BinSize = 2
    BinsPerBlock = 4
    Kind = {"text"}
    MaxBins = 2
    MaxDeletes = 0
CHECK_DEADLOCK FALSE
INVARIANTS
    CatalogIsReadable
