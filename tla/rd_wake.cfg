SPECIFICATION FairSpec
CONSTANTS
    Drives = {d1}
    NoDrive = NoDrive
    MaxChanges = 1
CHECK_DEADLOCK FALSE
PROPERTY DrivesKnown
