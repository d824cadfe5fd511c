SPECIFICATION Spec

CONSTANTS
    Lens = {1, 2}
    SegmentWords = 5
    MaxWords = 12
    RemovesOpenFile = TRUE
    RenameReplaces = TRUE
    DiskFills = TRUE
    StaleSegments = {0}
    MaxRecord = 4
    MaxCrash = 2
    MaxTorn = 1
INVARIANTS SegmentsListed StateNeverAhead NothingLost OnlyAckedReleased ActiveNotOverrun StatsBalance DiskBudget
PROPERTIES CursorForward AllOrNothing
