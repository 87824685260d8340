SPECIFICATION Spec
CONSTANTS
    Runtimes = {r1, r2}
    First = r1
    Nobody = nobody
    NumSteps = 3
    Deps <- MCForked
    MaxReplans = 1
    MaxExpiries = 1
    MaxFaults = 0
    MaxCancels = 0
    MaxOverlaps = 0
INVARIANT
    NeverBlindlyRepeated
CHECK_DEADLOCK FALSE
