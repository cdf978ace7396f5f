\* Two requests to a challenge of each kind.
CONSTANTS
    MaxRequests = 2
SPECIFICATION FairSpec
INVARIANT TypeOK
INVARIANT PassMeansFetched
INVARIANT LogKeepsEveryHit
PROPERTY FetchCounts
PROPERTY ServerIsClosed
CHECK_DEADLOCK FALSE
