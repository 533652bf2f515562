\* Every I/O failure, and the process killed and restarted anywhere.
SPECIFICATION Spec
CONSTANTS
    dayTimeSeconds = 5
    closeWindowSeconds = 1
    openWindowSeconds = 3
    MARGIN = 0
    MaxClock = 8
    PollInterval = 1
    House = 1
    Outsides = {0, 2}
    Speeds = {0, 1}
    Job <- MCJob
    NoJob = NoJob
    NoFile = NoFile
    Partial = Partial
    IOFaults = {"read", "open", "close", "remove", "rename"}
INVARIANTS
    TypeOK
    NoSideEffectInQuiet
    QuietIsKept
    OneQuietAtATime
    DiskNeverAhead
PROPERTY
    QuietNeverShrinks
\* The clock stops at MaxClock.
CHECK_DEADLOCK FALSE
