\* Poller and worker against the trimmer and one browser, with a full disk, a
\* failing rename or reading, or a kill.
SPECIFICATION Spec
CONSTANTS
    Columns = {"Inside"}
    FanSpeed = "Fan Speed"
    LOGGER_WEB_DEFAULT_LOG_LIMIT = 2
    LOGGER_WEB_MAX_LOG_LIMIT = 3
    ULONG_MAX = 7
    Thread = {poller, worker}
    Poller = poller
    worker = worker
    Free = Free
    Rows <- RowsOfThreads
    retention_days = 1
    LOG_TRIM_INTERVAL_SECONDS = 2
    MaxMishaps = 1
    MaxNow = 2
    MaxRows = 3
    MaxRowsViewed = 2
INVARIANTS
    TypeOK
    LogKeepsRows
    RowsAreNewest
    TodayIsOneRow
    GraphIsFaithful
    NotModifiedIsTrue
PROPERTY
    BrowserCatchesUp
\* The bounds on the clock and the rows end every behaviour.
CHECK_DEADLOCK FALSE
