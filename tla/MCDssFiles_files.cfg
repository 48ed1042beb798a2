SPECIFICATION FairSpec
CONSTANTS
    p = p
    q = q
    Value = {x1, x2}
    Path <- MCPath
    MaxHash = 2
    TableHash <- MCHash
    PathHash <- MCPathHash
    BinSize = 2
    BinsPerBlock = 4
    Handle = {h1}
    Text = {x1, x2}
    Faulty = {"crash", "error"}
    Careful = TRUE
    MaxBins = 3
    MaxDeletes = 1
    MaxFaults = 2
INVARIANTS
    FilesTypeOK
    KeptOnPath
    HandleIsOnPath
PROPERTIES
    SqueezeReclaims
    FilesImplementNativeDss
