SPECIFICATION FairSpec
CONSTANTS
    MaxRows = 3
    MaxCancels = 1
    MaxEvents = 1
INVARIANTS
    TypeOK
    RowsAgree
    FilesOwned
    CancelledNotUploaded
PROPERTIES
    FinalStateStays
    EveryRowEnds
