SPECIFICATION ReporterFairSpec

CONSTANTS
    Lens = {1}
    SegmentWords = 6
    MaxWords = 16
    RemovesOpenFile = TRUE
    RenameReplaces = TRUE
    DiskFills = FALSE
    StaleSegments = {}
    MaxRecord = 3
    MaxCrash = 0
    MaxTorn = 0
    BatchSize = 2
    MaxAttempts = 2

PROPERTY DrainReturns
