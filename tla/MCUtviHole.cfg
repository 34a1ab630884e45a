SPECIFICATION UtviFairSpec
CONSTANTS
    a = a
    b = b
    UtviRuns = {b}
    Contents = {a}
    NoRows = NoRows
    NoTotal = NoTotal
    Total <- MCTotal
    MaxSourceMoves = 1
    MaxDeaths = 1
PROPERTY CoveredIsPublished
