SPECIFICATION Spec
CONSTANTS
    p = p
    q = q
    r = r
    x1 = x1
    x2 = x2
    Value = {x1, x2}
    Path <- MCPath
    MaxHash = 2
    TableHash <- MCHash
    PathHash <- MCPathHash
    BinSize = 2
    BinsPerBlock = 6
    Storable <- MCStorable
    Text = {x2}
    MaxBins = 2
    MaxDeletes = 1
    MaxListed = 2
CHECK_DEADLOCK FALSE
INVARIANTS
    CopyTypeOK
    FileIsCopied
    CopiedAreRecords
PROPERTY
    CopyKeepsTarget
