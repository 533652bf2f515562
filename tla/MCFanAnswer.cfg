\* One browser, the poller and the worker, and no request is lost.
SPECIFICATION Spec
CONSTANTS
    Client = {c1}
    Nobody = Nobody
    DEF_FAN_SPEED = 2
    MaxSpeed = 3
    SENSOR_RETRY_COUNT = 2
    MaxLosses = 0
    MaxRequests = 2
    MaxPolls = 2
PROPERTY
    AnswersWithOwnRow
CHECK_DEADLOCK FALSE
