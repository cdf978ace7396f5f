\* Fair threads, one connection that is used again, the option off.
SPECIFICATION FairSpec
CONSTANTS
    Conns = {c1}
    MaxRequests = 2
    CaptureStreamTiming = FALSE
CHECK_DEADLOCK FALSE
PROPERTIES
    StopReturns
    HandlersFinish
    LogSpec
