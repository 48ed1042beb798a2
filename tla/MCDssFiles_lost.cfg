SPECIFICATION Spec
CONSTANTS
    p = p
    q = q
    Value = {x1, x2}
    Path <- MCPath
    MaxHash = 2
    TableHash <- MCHash
    PathHash <- MCPathHash
    BinSize = 2
    BinsPerBlock = 4
    Handle = {h1, h2}
    Text = {x1}
    Faulty = {}
    Careful = TRUE
    MaxBins = 2
    MaxDeletes = 0
    MaxFaults = 0
PROPERTIES
    StoredIsOnPath
