SPECIFICATION FairSpec
CONSTANTS
    Requests = {r1, r2, r3}
    A = A
    B = B
    x = x
    y = y
    s1 = s1
    s2 = s2
    t1 = t1
    t2 = t2
    o1 = o1
    Keep = Keep
    Warehouses <- MCWarehouses
    Items <- MCItems
    SeedStocks <- MCSeedStocks
    SeedTransfers <- MCSeedTransfers
    SeedOpnames <- MCSeedOpnames
    InitStock <- MCInitStock
    InitTransfer <- MCInitTransfer
    InitOpname <- MCInitOpname
    Workload <- RacingWorkload
    Amounts = {1, 2}
    MaxQuantity = 3
    PoolSize = 2
INVARIANTS
    QuantityInRange
PROPERTIES
    AllOrNothing
    CompletionPays
    EveryRequestAnswered
CHECK_DEADLOCK FALSE
