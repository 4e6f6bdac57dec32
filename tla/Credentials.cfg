SPECIFICATION Spec
CONSTANTS
    Users = {alice}
    Requests = {r1, r2}
    MaxAttempts = 5
    MaxCode = 2
INVARIANTS
    TypeOK
    NeverLockedEarly
PROPERTIES
    GuessingLocks
    CodesAreSpent
