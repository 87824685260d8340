SPECIFICATION Spec
CONSTANTS
    Runtimes = {r1, r2}
    First = r1
    Nobody = nobody
    NumSteps = 1
    Deps <- MCDeps
    MaxReplans = 0
    MaxExpiries = 1
    MaxFaults = 0
    MaxCancels = 1
    MaxOverlaps = 1
INVARIANTS
    WriteAhead
    DurableSuccess
    AtMostOnce
PROPERTY
    KeepsPromise
CONSTRAINT NotAllAtOnce
CHECK_DEADLOCK FALSE
