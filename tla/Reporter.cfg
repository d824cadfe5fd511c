SPECIFICATION ReporterFairSpec

CONSTANTS
    Lens = {1}
    SegmentWords = 6
    MaxWords = 12
    RemovesOpenFile = FALSE
    RenameReplaces = FALSE
    DiskFills = TRUE
    StaleSegments = {}
    MaxRecord = 5
    MaxCrash = 1
    MaxTorn = 1
    BatchSize = 2
    MaxAttempts = 2
INVARIANTS AckedDelivered
PROPERTIES DeliversAtLeastOnce DrainReturnsUnlessAtEnd
