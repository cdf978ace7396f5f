\* Texts of up to three pieces; any offer of up to four tools; every endpoint.
SPECIFICATION Spec
CONSTANTS
    MaxPieces = 3
    Cases <- MCCases
CHECK_DEADLOCK FALSE
INVARIANTS
    MutationsReachBackend
    OfferedAsRequested
    StripsAreExact
