SPECIFICATION FairSpec
CONSTANTS
    Conditions = {disk_full, disk_slow}
    Rules = {{disk_full, disk_slow}}
    MaxInflight = 1
    ReuseWindow = 0
    RuleWindow = 0
    Budget = 0
    BudgetWindow = 0
    Retention = 0
    BootLimit = 1
    Past = 1
    MaxAlerts = 2
    MaxRows = 3
    MaxCrashes = 1
    MaxErrors = 1
    MaxUnreadable = 1
INVARIANTS NoAlertLost ArrivalOrder
PROPERTY EveryAlertJudged
CHECK_DEADLOCK FALSE
