SPECIFICATION EntrySpec
CONSTANTS
    first = first
    copy = copy
    other = other
    sig = sig
    alert = alert
    Unsigned = Unsigned
    Requests = {first, copy, other}
    Signatures = {sig}
    Alerts = {alert}
    SignatureOf <- MCSignatures
    AlertOf <- MCAlerts
    Replay = 1
    Lease = 1
    DedupWindow = 2
    Threshold = 1
    HardMultiplier = 2
    StormWindow = 1
    MaxTime = 4
    MaxCrashes = 1
    MaxFaults = 1
    Documents <- Readings
    Edits <- Variants
    Keys = {"f", "g"}
    Stages <- MCStages
    RouteTable <- MCRoutes
    Doors = {"door"}
    Titles = {"old", "disk", "cpu"}
    Levels = {"low", "high"}
    Values = {"db", "web"}
    Sampled = {"cpu"}
    Slots = {1}
    WalkTime = 1
    WalkEvents = 1
    MaxSilences = 1
    Topics <- OneTopic
    ChatEvents = 5
    AlertDoors = {"relay"}
    Severities = {"high", "critical"}
    RunKinds = {"agent"}
    Coalesce = 1
    RefireWindow = 3
    MaxAnswers = 2
    AnswerWindow = 3
    RulingTtl = 2
    Reverify = 3
    RecoveryWindow = 3
    GateAgent = TRUE
    RefireTime = 4
    MaxRuns = 4
INVARIANTS OncePerSignature NamesAreReadable RoutedWasLetThrough ChatStaysInItsChain
    NoAnswerCitesAnAnswer
SYMMETRY Copies
CHECK_DEADLOCK FALSE
