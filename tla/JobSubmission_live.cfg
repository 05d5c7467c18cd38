SPECIFICATION FairSpec
CONSTANTS
    alice = alice
    r1 = r1
    r2 = r2
    r3 = r3
    Requests = {r1, r2}
    Users = {alice}
    Owner <- SameUser
    NoJob = NoJob
    MaxAttempts = 3
    MaxGathered = 2
INVARIANTS
    SpendIsFenced
PROPERTIES
    SingleFlightSpec
    FinishedJobYields
CHECK_DEADLOCK FALSE
