SPECIFICATION Spec
CONSTANTS
    Programs <- MCPrograms
    Authorities = {a1, a2}
    NoAuthority = none
    Resumers = {t1, t2}
    MaxSteps = 7
    MaxRevision = 12
    MaxRuntimes = 3
INVARIANTS
    TypeOK
    ContinuedOnce
    SuccessIsComplete
    AuthorityOnce
    OneEnding
PROPERTIES
    NeverBehind
    UnknownStops
SYMMETRY Symmetric
CHECK_DEADLOCK FALSE
