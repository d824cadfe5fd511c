CONSTANTS
    Worker = Worker
    NoOne = NoOne
    Watchdog = Watchdog
    Connections = 2
    Faults <- LiveFaults
    Commands <- LiveCommands
    HasDb = TRUE
    HangTicks = 2
    MaxWait = 2
    MaxTimer = 1
SPECIFICATION FairSpec
PROPERTIES RequestServed StopEnds WedgedEnds
