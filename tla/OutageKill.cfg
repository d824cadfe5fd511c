\* The defaults of main.cpp, transport.hpp and agent.hpp, in seconds.
SPECIFICATION TransportSpec
CONSTANTS
    Backends = {"winhttp"}
    MaxBatches = 1
    MaxChanges = 1
    MaxAttempts = 6
    Timeout = 15
    Patience = 1
    BaseDelay = 1
    CapDelay = 300
    MaxExponent = 20
    MaxInt = 536870911
    HangTime = 120
INVARIANT OutageCostsNothing
CHECK_DEADLOCK FALSE
