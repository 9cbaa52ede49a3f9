\* Two submissions in a contest of two problems and one in a contest of one, three
\* handles: none, one or two merges, one with a handle that another has or that it has
\* twice; a minute and 40 seconds of contest.  And standings of up to seven rows without
\* submissions, broken into pages of three lines and then five, where a row with details
\* has three.  Standings that are not printed are the end of it.
SPECIFICATION FairSpec
CHECK_DEADLOCK FALSE
CONSTANTS
    NumContests = 2
    Handles = {1, 2, 3, 4, 5, 6, 7}
    Problems = {1, 2}
    Duration = 100
    FirstTimes = {40, 100, 101}
    SecondTimes = {100, 101}
    MaxFirst = 2
    MaxSecond = 1
    Answers <- MCAnswers
    MergeLists <- MCMergeLists
    Text <- MCText
    Details = {TRUE, FALSE}
    PdfRows = {1, 5, 6, 7}
    FirstPage = 3
    LaterPage = 5
    NoPage = NoPage
INVARIANTS
    AttemptIsIcpc
    ScoreIsIcpc
    ProblemsCountAsMerged
    StandingsAreFixed
    PagesHoldRankings
    RowsAreShownOnce
PROPERTIES
    DownloadEnds
