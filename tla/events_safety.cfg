\* All lines, at most one transcript, four lines of output and artifacts.
SPECIFICATION Spec
CONSTANTS
    Tools = {"run"}
    Ids = {"c1", "c2"}
    Excerpts = {"t1", "t2"}
    Lines <- MCLines
    ProxyLines <- MCProxyLines
    MaxTranscripts = 1
    MaxLines = 4
CHECK_DEADLOCK FALSE
INVARIANTS
    TypeOK
    BestEvidenceIsKept
    InOrderOfSight
    ToolUseIsNotLost
    RetryLoopMeansRetries
