SPECIFICATION Spec
CONSTANTS
    Warehouses = {w1, w2}
    Locations = {l1, l2}
    Stocks = {s1}
    Codes = {c1, c2}
    Requests = {r1, r2}
    Tenant = Tenant
    Unused = Unused
    Gone = Gone
    Nowhere = Nowhere
SYMMETRY Symmetry
INVARIANTS
    TypeOK
    CodesDiffer
    LocationsMatch
PROPERTIES
    CountedStocksStay
