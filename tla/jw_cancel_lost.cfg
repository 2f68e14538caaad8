SPECIFICATION Spec
CONSTANTS
    NoJob = NoJob
    Jobs = {j1}
    MaxOut = 1
    Timed = TRUE
INVARIANT CancelReachesJob
