\* Every mode, backend and kind of agent; two requests to each proxy.
SPECIFICATION FairSpec
CONSTANT MaxRequests = 2
CHECK_DEADLOCK FALSE
INVARIANTS
    TypeOK
    PassIsEvidenced
    EvidenceWins
    VerdictFollowsMatrix
    ProxiesStopped
PROPERTY CaseEnds
