\* Two connections against starting, configuring and stopping; any step of the
\* start may fail, and one call of the set-up: either graph, a marker that
\* grows its array, a span, the Today panel; a second process.
SPECIFICATION LifeSpec
CONSTANTS
    Conn = {c1, c2}
    Free = Free
    NavLinks = 2
    MayFail = {1, 4, 5, 6, 13}
    Failures = 1
INVARIANTS
    TypeOK
    CountIsLive
    NoUseAfterFree
    NothingLeaks
    NavArrayStays
    ShowsWhatSucceeded
    PollsAlone
    ExitIsClean
PROPERTIES
    FailedStartExits
    ImplementsLife
\* The process ends.
CHECK_DEADLOCK FALSE
