SPECIFICATION Spec
CONSTANTS
    Contents = {c1, c2}
    LowMemory = FALSE
    Garbage = {"Action"}
    MaxTime = 5
INVARIANT UnmodifiedMeansSaved
CHECK_DEADLOCK FALSE
