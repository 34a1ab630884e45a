SPECIFICATION Spec
CONSTANTS
    p1 = p1
    p2 = p2
    c1 = c1
    c2 = c2
    s1 = s1
    s2 = s2
    Requests = {p1, p2}
    Sweepers = {c1}
    Subs = {s1, s2}
    MaxRecords = 2
    MaxAccounts = 2
    ErasureRequired = TRUE
    StripeMoves <- MCMoves
CHECK_DEADLOCK FALSE
SYMMETRY MCSymmetry
INVARIANT VerdictBeforeTermination
PROPERTY RemovalFollowsBilling
PROPERTY StagesNeverRegress
PROPERTY TerminatedOnlyIfConfirmed
PROPERTY ImplementsWorkflow
