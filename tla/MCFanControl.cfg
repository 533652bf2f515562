\* Two browsers, the poller and the worker, with requests and answers lost.
SPECIFICATION FairSpec
CONSTANTS
    Client = {c1, c2}
    Nobody = Nobody
    DEF_FAN_SPEED = 1
    MaxSpeed = 2
    SENSOR_RETRY_COUNT = 2
    MaxLosses = 2
    MaxRequests = 2
    MaxPolls = 1
INVARIANTS
    TypeOK
    PowerDoesAsPressed
PROPERTIES
    WebRowsInOrder
    RequestsAnswered
\* The bounds on requests and polls end every behaviour.
CHECK_DEADLOCK FALSE
