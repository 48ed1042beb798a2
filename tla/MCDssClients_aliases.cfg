SPECIFICATION Spec
CONSTANTS
    p = p
    q = q
    x1 = x1
    x2 = x2
    t1 = t1
    t2 = t2
    Value = {x1, x2}
    Length <- MCLength
    Curves <- MCCurves
    Path <- MCPath
    MaxHash = 2
    TableHash <- MCHash
    PathHash <- MCPathHash
    BinSize = 2
    BinsPerBlock = 4
    Thread = {t1, t2}
    MaxRecords = 2
    MaxDeletes = 1
SYMMETRY MCSymmetry
INVARIANTS
    CountIncludesAliases
