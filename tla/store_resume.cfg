\* One case, two run directories.
SPECIFICATION Spec
CONSTANTS
    k1 = k1
    k2 = k2
    Keys = {k1}
    Web = {}
    Suite <- OneEntry
    Evidence <- FourOutcomes
    MaxRuns = 2
    Sanity = {k1}
CHECK_DEADLOCK FALSE
PROPERTY MissingCasesAreExecuted
