\* Two days in half hours with the windows of settings.h.
SPECIFICATION Spec
CONSTANTS
    dayTimeSeconds = 48
    closeWindowSeconds = 6
    openWindowSeconds = 30
    MARGIN = 0
    Temps = {70, 71, 72}
    MaxNow = 96
    Hour = 2
INVARIANTS
    QuietEndsAtNextWindow
    OneKindAtATime
    WindowsHoldNow
\* The clock stops at MaxNow.
CHECK_DEADLOCK FALSE
