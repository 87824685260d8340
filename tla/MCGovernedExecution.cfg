SPECIFICATION Spec
CONSTANTS
    Runtimes = {r1, r2, r3}
    First = r1
    Nobody = nobody
    NumSteps = 2
    Deps <- MCDeps
    MaxReplans = 1
    MaxExpiries = 1
    MaxFaults = 1
    MaxCancels = 1
    MaxOverlaps = 0
SYMMETRY Symmetric
INVARIANTS
    TypeOK
    CheckpointAhead
    AtMostOnce
    NoBlindRepeat
    LedgerUndisturbed
CONSTRAINT CancelAlone
CHECK_DEADLOCK FALSE
