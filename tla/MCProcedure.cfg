SPECIFICATION LiveSpec
CONSTANTS
    look = look
    fix = fix
    undo = undo
    repair = repair
    rollback = rollback
    None = None
    Commands = {look, fix, undo}
    Procedures = {repair, rollback}
    StepsOf <- MCSteps
    TargetOf <- MCTarget
    HighRisk = {fix}
    NeedsShell = {}
    Cooldown = 1
    ApprovalWindow = 1
    MaxTime = 2
    MaxProposals = 2
    MaxRewrites = 1
    MaxEdits = 1
    MaxCrashes = 1
    MaxFaults = 1
INVARIANTS ApprovedAsRead ReceiptsTruthful
PROPERTY ApprovedEnds
CHECK_DEADLOCK FALSE
