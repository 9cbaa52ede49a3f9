SPECIFICATION StatisticsSpec
CONSTANTS
    p = p
    q = q
    Difficulty <- MCDifficulty
    Bands <- MCBands
    Windows <- MCWindows
    Attempts <- MCAttempts
    PageSize = 2
    MaxPages = 2
    MaxSubmissions = 5
    MaxSecond = 2
    Contests = {0, 2}
    Ratings = {1, 2}
    Open <- MCOpen
    Slack = 1
    MaxRows = 1
    ListLife = 2
    Patience = 1
    Views = {v1, v2}
    None = None
    MaxNow = 4
SYMMETRY Symmetry
INVARIANTS
    OnlyTiesAreSkipped
    ChartsCountProblems
    SummaryAddsUp
    ListIsRecent
    EntriesAreShown
