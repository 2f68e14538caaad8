SPECIFICATION BusySpec
CONSTANTS
    NoJob = NoJob
    Jobs = {j1, j2, j3}
    MaxOut = 1
    Timed = TRUE
INVARIANTS
    TypeOK
    NoJobLost
    IdleIsDormant
    CanceledWasAsked
PROPERTIES
    ImplementsExecutor
    CallsEnd
    EveryJobEnds
