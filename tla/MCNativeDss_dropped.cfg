SPECIFICATION Spec
CONSTANTS
    p = p
    q = q
    r = r
    Value = {v1}
    Path <- MCTwo
    MaxHash = 2
    TableHash <- MCCollideTwo
    PathHash <- MCPathHashTwo
    BinSize = 2
    BinsPerBlock = 4
    Kind = {"text", "array"}
    MaxBins = 2
    MaxDeletes = 0
CHECK_DEADLOCK FALSE
PROPERTIES
    SqueezeCopiesAll
