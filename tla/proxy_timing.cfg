\* One connection, one request, the timing option on.
SPECIFICATION Spec
CONSTANTS
    Conns = {c1}
    MaxRequests = 1
    CaptureStreamTiming = TRUE
CHECK_DEADLOCK FALSE
INVARIANT EveryRequestRecorded
