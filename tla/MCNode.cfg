SPECIFICATION NodeSpec
CONSTANTS
    db = db
    repair = repair
    Conditions = {db}
    Procedures = {repair}
    Keys = {{repair}}
    Cooldown = 1
    VerifyWindow = 1
    ApprovalWindow = 1
    CoalesceWindow = 1
    FixTime = 2
    MaxRuns = 2
    MaxTurns = 2
    MaxProposals = 2
    MaxCrashes = 1
    LostEvidence = 1
    AuditedCalls = {c1, c2}
    Days = 3
    ChainDays = 2
    FailedWrites = 1
    MaxEdits = 2
    Sessions = {s1, s2}
    ConsolidateAt = 2
    MaxCases = 2
    Keep = 2
    MaxDistills = 2
    MaxPaid = 1
    OperatorSaves = 1
    Nothing = Nothing
    Outdated = Outdated
    Unread = Unread
    MaxTargets = 2
    Turns = {t1, t2}
    NoId = NoId
    MaxCalls = 1
    MaxDeaths = 1
    Kinds = {refused, dropped}
    NoKind = NoKind
    RecurringAfter = 2
    RecurringQuiet = 2
    QuietWindow = 1
    PageRetries = 1
    OutageTime = 2
    MaxRestarts = 1
    MaxStreak = 2
    MaxHeld = 2
    ListedGrants = {rows}
    KubeGrants = {pods}
    AwsGrants = {instances}
    Undeclared = Undeclared
    Radii <- PinnedRadii
    Mounts <- SomeMounts
    Events <- ThreeAlerts
    Slots = {1}
    Preferred = "auto"
    DialectTtl = 1
    MaxRows = 3
    VerdictTime = 1
    MaxChanges = 1
    Writers = {w1, w2}
    Lines = {fact, guidance}
    Safe = {fact}
    PerRun = 2
    QueueCap = 2
    MaxReports = 2
    MaxAnswers = 2
    Revisions = 1
    MemoryStops = 1
INVARIANTS OvertakenNeverRuns ToldStands TamperShows OnePosture UngatedIsTheLast QuietIsEarned
    OnlyKnownSilencesPass QuietWasAnswered FactsAreKept
PROPERTIES NothingIsDestroyed
CHECK_DEADLOCK FALSE
