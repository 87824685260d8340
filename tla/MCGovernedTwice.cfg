SPECIFICATION Spec
CONSTANTS
    Runtimes = {r1, r2}
    First = r1
    Nobody = nobody
    NumSteps = 1
    Deps <- MCDeps
    MaxReplans = 0
    MaxExpiries = 0
    MaxFaults = 0
    MaxCancels = 0
    MaxOverlaps = 1
INVARIANT
    NeverTwice
CHECK_DEADLOCK FALSE
