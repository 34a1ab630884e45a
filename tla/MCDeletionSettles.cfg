SPECIFICATION FairSpec
CONSTANTS
    p1 = p1
    p2 = p2
    c1 = c1
    c2 = c2
    s1 = s1
    s2 = s2
    Requests = {p1}
    Sweepers = {c1, c2}
    Subs = {s1}
    MaxRecords = 2
    MaxAccounts = 2
    ErasureRequired = TRUE
    StripeMoves <- MCPaidMoves
CHECK_DEADLOCK FALSE
PROPERTY ForgottenOnlyOnceErased
PROPERTY HeldIsSettled
