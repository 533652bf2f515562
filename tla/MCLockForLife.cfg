\* The worker thread cannot be started.
SPECIFICATION LifeSpec
CONSTANTS
    Conn = {c1}
    Free = Free
    NavLinks = 2
    MayFail = {}
    Failures = 0
INVARIANT
    LockForLife
CHECK_DEADLOCK FALSE
