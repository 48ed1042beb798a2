SPECIFICATION BlocksSpec
CONSTANTS
    EPart = {"1HOUR", "12HOUR", "1DAY"}
    Series <- MCAligned
    Window <- MCWindow
CHECK_DEADLOCK FALSE
INVARIANTS
    BlocksTypeOK
    SeriesIsWhole
    ChunksBeginWithTheirBlock
    WindowIsCovered
