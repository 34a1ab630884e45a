SPECIFICATION Spec
CONSTANTS
    p1 = p1
    p2 = p2
    c1 = c1
    c2 = c2
    s1 = s1
    s2 = s2
    Requests = {p1}
    Sweepers = {c1}
    Subs = {s1}
    MaxRecords = 1
    MaxAccounts = 1
    ErasureRequired = FALSE
    StripeMoves <- MCPaidMoves
CHECK_DEADLOCK FALSE
PROPERTY TerminatedMeansNoneBills
