CONSTANTS
    Worker = Worker
    NoOne = NoOne
    Watchdog = Watchdog
    Connections = 2
    Faults <- MCFaults
    Commands <- MCCommands
    HasDb = TRUE
    HangTicks = 2
    MaxWait = 2
    MaxTimer = 1
SPECIFICATION Spec
INVARIANTS NeverBoth StatusPrompt DeliverySound WaitIsNoHang StoppedIsTrue CrashDumpWhole
PROPERTIES StoppedIsLast
