SPECIFICATION Spec
CONSTANTS
    alice = alice
    r1 = r1
    r2 = r2
    r3 = r3
    Requests = {r1, r2, r3}
    Users = {alice}
    Owner <- SameUser
    NoJob = NoJob
    MaxAttempts = 2
    MaxGathered = 1
SYMMETRY RequestSymmetry
INVARIANTS
    TypeOK
    ExecutesOnce
    OnlyClaimantsRun
PROPERTIES
    FinalStatusIsFinal
CHECK_DEADLOCK FALSE
