SPECIFICATION Spec
CONSTANTS
    p = p
    q = q
    r = r
    Value = {v1}
    Path <- MCTwo
    MaxHash = 2
    TableHash <- MCCollideTwo
    PathHash <- MCPathHashTwo
    BinSize = 2
    BinsPerBlock = 2
    Kind = {"text"}
    MaxBins = 3
    MaxDeletes = 0
CHECK_DEADLOCK FALSE
INVARIANTS
    CheckFindsBadEntries
