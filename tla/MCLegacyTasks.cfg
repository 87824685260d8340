SPECIFICATION Spec
CONSTANTS
    Threads = {worker, caller, other}
    Count = 3
INVARIANTS
    TypeOK
    CountIsHonest
PROPERTIES
    RecoveryIsEarned
    CancelHolds
    ClaimIsReleased
