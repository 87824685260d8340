SPECIFICATION Spec
CONSTANTS
    NumObligations = 3
    Callers = {c1}
    MaxObligations = 1
    MaxTotalRecords = 2
    ArchiveCapacity = 1
    EventWindow = 1
    Epochs <- MCEpochs
    MaxTime = 1
INVARIANT
    RefusedOnlyWhenSaturated
CHECK_DEADLOCK FALSE
