SPECIFICATION FairSpec

CONSTANTS
    Lens = {1}
    SegmentWords = 6
    MaxWords = 16
    RemovesOpenFile = FALSE
    RenameReplaces = FALSE
    DiskFills = TRUE
    StaleSegments = {0}
    MaxRecord = 5
    MaxCrash = 2
    MaxTorn = 1
INVARIANTS NothingLost
PROPERTIES CallsReturn
