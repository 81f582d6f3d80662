SPECIFICATION FairSpec
CONSTANTS
    c1 = c1
    c2 = c2
    Channels = {c1, c2}
    Events = {e1}
    Configs <- OneConfig
    MaxRows = 2
    BatchLimit = 1
    MaxAttempts = 2
    BackoffBase = 1
    BackoffCap = 2
    RateDefer = 1
    BreakerDefer = 1
    RateWindow = 1
    MaxPerMinute <- LimitFirst
    Threshold = 1
    Cooldown = 1
    MaxLag = 1
    MaxRetries = 1
    MaxCrashes = 1
    MaxErrors = 1
PROPERTIES Settles ImplementsOutbox
CHECK_DEADLOCK FALSE
