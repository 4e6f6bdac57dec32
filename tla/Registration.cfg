SPECIFICATION Spec
CONSTANTS
    Emails = {e1, e2}
    Names = {n1, n2}
    Rows = {u1, u2}
    Requests = {r1, r2}
    Nobody = Nobody
    Gone = Gone
    NoRow = NoRow
SYMMETRY Symmetry
INVARIANTS
    TypeOK
    UniqueIdentity
    LookUpStaysTrue
PROPERTIES
    NobodyFreesAnothersLock
