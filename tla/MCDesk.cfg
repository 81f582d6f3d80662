SPECIFICATION DeskSpec
CONSTANTS
    c1 = c1
    c2 = c2
    Channels = {c1, c2}
    Events = {e1}
    Configs <- WithAndWithoutFirst
    MaxRows = 2
    BatchLimit = 2
    MaxAttempts = 2
    BackoffBase = 1
    BackoffCap = 2
    RateDefer = 1
    BreakerDefer = 1
    RateWindow = 1
    MaxPerMinute <- LimitFirst
    Threshold = 1
    Cooldown = 1
    MaxLag = 1
    MaxRetries = 1
    MaxCrashes = 0
    MaxErrors = 0
    Buttons = {"useful", "useless", "handoff", "silence", "followup"}
    KindOf <- KindItself
    Requests = {r1, r2}
    CardTtl = 1
    CardTime = 1
    CardRows = 2
    CardFaults = 1
    FoldWindow = 1
    FoldCeiling = 2
    Slots = {1, 2}
    FoldTime = 9
    MaxEvents = 3
    ColdAfter = 1
    Expected = 1
    VigilTime = 4
    MaxDeaths = 2
    Failures = {f1, f2, f3, f4}
    MinInterval = 2
    AlarmTime = 3
    Nobody = Nobody
    Feeds = {team, alerts}
    Batched = {alerts}
    Utterances = {"word"}
    PerChat = 1
    JiraPage = 2
    BatchFor = 1
    RunTimeout = 2
    RunCap = 2
    GiveUpAfter = 2
    MaxReplays = 1
    Renote = 1
    MaxNews = 2
    WatchFaults = 1
    Posts = {p1, p2, p3}
    Topics = {"word"}
    SignCeiling = 1
    SignWindow = 2
    SignTime = 2
    Unsaid = Unsaid
    ItemIds = {1, 2}
    MaxBatch = 3
    Hosts = {"site", "peer", "other"}
    ListedHosts = {"site"}
    Peers = {"peer"}
    Public = {"web", "web2"}
    Compose = {"bridge"}
    Elsewhere = {"meta"}
    MaxAddrs = 2
    Consumers = {"presses", "messages"}
    IdleRecycle = 3
    ThreadParts = 2
    WebhookMode = FALSE
INVARIANTS BatchStillOwed AcceptedWasActed LatestRulingStands OneActPerPress FiringIsTold SaidOnce
    NoneUncounted OnlyTheGapSlips CeilingHolds RowsTellWhatReached DialledWasVetted RecyclesFarApart
CHECK_DEADLOCK FALSE
