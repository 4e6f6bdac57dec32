SPECIFICATION FairSpec
CONSTANTS
    Requests = {r1, r2}
    Handlers = {h1, h2, h3}
    MaxAttempts = 3
    MaxReady = 2
INVARIANTS
    TypeOK
    TransactionsFinish
    ClientsAreAnswered
PROPERTIES
    StartEnds
    StopsEventually
CHECK_DEADLOCK FALSE
