\* No request is needed.
SPECIFICATION Spec
CONSTANT MaxRequests = 1
CHECK_DEADLOCK FALSE
INVARIANT ForceIsStrict
