SPECIFICATION TransportFairSpec
CONSTANTS
    Backends = {"winhttp", "openssl", "none"}
    MaxBatches = 2
    MaxChanges = 2
    MaxAttempts = 5
    Timeout = 2
    Patience = 1
    BaseDelay = 1
    CapDelay = 3
    MaxExponent = 2
    MaxInt = 7
    HangTime = 0
INVARIANTS NoBodyUnpinned EveryWayOut
PROPERTIES DrainBounded KeepsContract CloudBackDrains
CHECK_DEADLOCK FALSE
