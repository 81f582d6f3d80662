SPECIFICATION FairSpec
CONSTANTS
    Backoff <- Steady
    MaxAttempts = 2
    BatchLimit = 1
    Retention = 1
    Delays = {0}
    Past = 3
    MaxRows = 2
    MaxLag = 1
    MaxCrashes = 1
    MaxErrors = 1
INVARIANTS CountedCardsExist
PROPERTY Settles
CHECK_DEADLOCK FALSE
