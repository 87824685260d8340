SPECIFICATION Spec
CONSTANTS
    Callers = {c1, c2}
    Events = {e1, e2, e3}
    NoEvent = none
    Window = 2
    Capacity = 4
    MaxFaults = 2
    MaxDamages = 1
    MaxPowerCuts = 2
INVARIANTS
    TypeOK
    DurableAck
    AppliedOnce
    JournalRecovers
PROPERTIES
    KeepsPromise
SYMMETRY Symmetric
CHECK_DEADLOCK FALSE
