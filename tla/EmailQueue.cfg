SPECIFICATION FairSpec
CONSTANTS
    Jobs = {j1, j2}
    MaxRetries = 2
    Prefetch = 1
INVARIANTS
    TypeOK
    OneAttempt
    NoSilentLoss
    RetriedUntilExhausted
    MailedOnce
PROPERTIES
    JobsSettle
