SPECIFICATION Spec
CONSTANTS
    NumObligations = 3
    Callers = {c1, c2}
    MaxObligations = 1
    MaxTotalRecords = 2
    ArchiveCapacity = 1
    EventWindow = 1
    Epochs <- MCEpochs
    MaxTime = 1
SYMMETRY Symmetric
INVARIANTS
    TypeOK
    StoreBounds
    ArchiveAgrees
    HistoryMoved
PROPERTY
    OutcomeIsForever
CHECK_DEADLOCK FALSE
