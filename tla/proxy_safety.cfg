\* Two connections of one request each, with the option on that can lose an
\* event.
SPECIFICATION Spec
CONSTANTS
    Conns = {c1, c2}
    MaxRequests = 1
    CaptureStreamTiming = TRUE
SYMMETRY Symmetry
CHECK_DEADLOCK FALSE
INVARIANTS
    TypeOK
    LostOnlyByTiming
    EventAgreesWithAnswer
    OneAnswer
    WellFramed
    CleanMeansComplete
    OnlyUnseenRelaysOutliveStop
