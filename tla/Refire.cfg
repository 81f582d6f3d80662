SPECIFICATION RefireSpec
CONSTANTS
    Sources = {"relay"}
    Levels = {"high", "critical"}
    Kinds = {"agent"}
    Coalesce = 0
    RefireWindow = 9
    MaxAnswers = 2
    AnswerWindow = 0
    RulingTtl = 0
    Reverify = 0
    RecoveryWindow = 9
    GateAgent = FALSE
    MaxTime = 5
    MaxRuns = 3
INVARIANT EndedIsANewEpisode
CHECK_DEADLOCK FALSE
