\* Two cases, one of them in two entries, two run directories; a suite stops
\* where it would need a third.
SPECIFICATION Spec
CONSTANTS
    k1 = k1
    k2 = k2
    Keys = {k1, k2}
    Web = {k1}
    Suite <- OverlappingSuite
    Evidence <- TwoOutcomes
    MaxRuns = 2
    Sanity = {k1}
CHECK_DEADLOCK FALSE
INVARIANTS
    TypeOK
    PassNeedsArtifact
    ScoresFollowLabels
    ManifestMeansComplete
PROPERTIES
    NoReexecution
    SkippedOnlyIfRecorded
    ResultsAreKept
    PublishedIsComplete
