CONSTANTS
    LastObjectStep = 1
    LastStep = 2
    CleanupSteps <- MCCleanup
    Ctx = {c1, c2}
    NoCtx = NoCtx
    MaxEvents = 0
    Handlers = {"reslice", "update", "export", "upload", "cancel", "reset", "close"}
SPECIFICATION FairSpec
PROPERTIES
    UINeverStuck
    RunEnds
    DestinationStable
    ExportsCurrentGCode
