SPECIFICATION LifecycleSpec
CONSTANTS
    Runtimes = {r1, r2}
    First = r1
    Nobody = nobody
    NumSteps = 1
    Deps <- MCDeps
    MaxReplans = 0
    MaxExpiries = 0
    MaxFaults = 0
    MaxCancels = 0
    MaxOverlaps = 0
    Callers = {r2}
    MaxTokens = 2
PROPERTIES
    UnknownIsRetained
CHECK_DEADLOCK FALSE
