SPECIFICATION Spec
CONSTANTS
    p = p
    q = q
    r = r
    Value = {v1, v2}
    Path <- MCTwo
    MaxHash = 2
    TableHash <- MCCollideTwo
    PathHash <- MCPathHashTwo
    BinSize = 2
    BinsPerBlock = 4
    Kind = {"text"}
    MaxBins = 2
    MaxDeletes = 0
CHECK_DEADLOCK FALSE
PROPERTIES
    ModifiedIsReported
