SPECIFICATION FairSpec
CONSTANTS
    Mails = {m1}
    Attempts = 2
    MaxStalls = 1
    Workers = 1
    MaxRetries = 1
    MaxCrashes = 2
    MaxExits = 1
INVARIANTS
    DeliveriesBounded
    LogTrue
PROPERTY
    ImplementsPromise
CHECK_DEADLOCK FALSE
