SPECIFICATION MCSpec
CONSTANTS
    p1 = p1
    p2 = p2
    h1 = h1
    h2 = h2
    r1 = r1
    s1 = s1
    NoSub = NoSub
    Requests = {p1, p2}
    Sweepers = {}
    Subs = {s1}
    MaxRecords = 1
    MaxAccounts = 2
    ErasureRequired = FALSE
    StripeMoves <- MCMoves
    Handlers = {h1}
    Reconcilers = {r1}
    TicksPerSecond = 1
    MaxClock = 0
    MaxEvents = 2
    Spaced = FALSE
CHECK_DEADLOCK FALSE
INVARIANT OrdinaryUntilTermination
INVARIANT NothingForDeletedAccount
PROPERTY LateGrantSawNoRecord
PROPERTY ImplementsDeletion
SYMMETRY MCSymmetry
