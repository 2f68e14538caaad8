CONSTANTS
    LastObjectStep = 1
    LastStep = 2
    CleanupSteps <- MCCleanup
    Ctx = {c1, c2}
    NoCtx = NoCtx
    MaxEvents = 1
    Handlers = {"reslice_until", "export"}
SPECIFICATION Spec
PROPERTIES ExportsCurrentGCode
SYMMETRY Contexts
