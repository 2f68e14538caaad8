SPECIFICATION FairSpec
CONSTANTS
    Drives = {d1}
    NoDrive = NoDrive
    MaxChanges = 3
CHECK_DEADLOCK FALSE
INVARIANTS
    TypeOK
    ChangesShown
PROPERTIES
    NoOlderList
    CallsReturn
