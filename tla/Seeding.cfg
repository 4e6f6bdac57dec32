SPECIFICATION SeedingSpec
CONSTANTS
    r1 = r1
    r2 = r2
    m1 = m1
    u1 = u1
    Seeders = {s1, s2}
    DefaultRoles = {r1}
    ApplicationRoles = {r2}
    SystemRole = r1
    MenuOrder <- OneMenu
    UserOrder <- OneUser
    Assignments <- OneGrant
    Administered = {r1, m1, u1}
SYMMETRY Symmetry
INVARIANTS
    RestIsComplete
PROPERTIES
    ChoicesStay
