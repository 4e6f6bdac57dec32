SPECIFICATION FairSpec
CONSTANTS
    Roles = {staff}
    Tenants = {acme}
    Menus = {menu}
    Columns = {name}
    Users = Users
    Requests = {r1, r2}
    Missing = Missing
    MaxWrites = 2
INVARIANTS
    TypeOK
    ServedIsCommitted
PROPERTIES
    CachesSettle
