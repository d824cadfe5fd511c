SPECIFICATION Spec

CONSTANTS
    Lens = {1}
    SegmentWords = 100
    MaxWords = 100
    RemovesOpenFile = TRUE
    RenameReplaces = TRUE
    DiskFills = FALSE
    StaleSegments = {}
    MaxRecord = 3
    MaxCrash = 1
    MaxTorn = 1

INVARIANT AcceptedReadable
