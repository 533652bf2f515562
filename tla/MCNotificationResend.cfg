\* The process may die after the push was confirmed and before it is on disk.
SPECIFICATION Spec
CONSTANTS
    dayTimeSeconds = 5
    closeWindowSeconds = 1
    openWindowSeconds = 3
    MARGIN = 0
    MaxClock = 8
    PollInterval = 1
    House = 1
    Outsides = {0, 2}
    Speeds = {0, 1}
    Job <- MCJob
    NoJob = NoJob
    NoFile = NoFile
    Partial = Partial
    IOFaults = {}
INVARIANT
    NoResendAfterRestart
CHECK_DEADLOCK FALSE
