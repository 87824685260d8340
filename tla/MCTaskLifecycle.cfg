SPECIFICATION LifecycleSpec
CONSTANTS
    Runtimes = {r1, r2}
    First = r1
    Nobody = nobody
    NumSteps = 1
    Deps <- MCDeps
    MaxReplans = 1
    MaxExpiries = 1
    MaxFaults = 0
    MaxCancels = 1
    MaxOverlaps = 0
    Callers = {r2}
    MaxTokens = 2
INVARIANTS
    LifecycleTypeOK
    SuccessIsReal
PROPERTIES
    NeededIsRetained
    SuccessIsFinal
CONSTRAINT OneDetour
CHECK_DEADLOCK FALSE
