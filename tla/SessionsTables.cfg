SPECIFICATION Spec
CONSTANTS
    alice = alice
    a1 = a1
    a2 = a2
    a3 = a3
    Users = {alice}
    Tokens = {a1, a2, a3}
    Requests = {r1, r2}
    Owner <- MCOwner
    MaxPassword = 1
SYMMETRY Symmetry
INVARIANTS
    TypeOK
    OneLivePerLogin
    PasswordEndsSessions
    OnlyTheDeadAreDeleted
PROPERTIES
    LoginsEndOnce
