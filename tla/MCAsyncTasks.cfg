SPECIFICATION Spec
CONSTANTS
    TaskKinds = {look, act}
    Capacity = 2
    MaxSpawns = 3
    TimedKinds = {act}
INVARIANTS
    TypeOK
    NobodyLost
PROPERTIES
    CommitsInOrder
    CancelAnswered
    ErrorExitCloses
CHECK_DEADLOCK FALSE
