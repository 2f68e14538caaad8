CONSTANTS
    LastObjectStep = 1
    LastStep = 2
    CleanupSteps <- MCCleanup
    Ctx = {c1, c2}
    NoCtx = NoCtx
    MaxEvents = 1
    Handlers = {"reslice", "reslice_until", "update", "export", "cancel", "reset", "close"}
SPECIFICATION Spec
INVARIANTS TypeOK WriteExcludesWorker DoneIsCurrent StartedOnlyInRun CancelDoesNotLinger UITaskAlive LockContract ResultAnnounced
SYMMETRY Contexts
PROPERTIES ImplementsPipeline
