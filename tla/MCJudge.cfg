SPECIFICATION Spec
CONSTANTS
    Conditions = {disk_full, disk_slow}
    Rules = {{disk_full, disk_slow}}
    MaxInflight = 2
    ReuseWindow = 2
    RuleWindow = 1
    Budget = 1
    BudgetWindow = 1
    Retention = 1
    BootLimit = 3
    Past = 3
    MaxAlerts = 3
    MaxRows = 3
    MaxCrashes = 0
    MaxErrors = 0
    MaxUnreadable = 0
INVARIANTS PaidOncePerWindow
CHECK_DEADLOCK FALSE
