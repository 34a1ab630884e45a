SPECIFICATION Spec
CONSTANTS
    h1 = h1
    h2 = h2
    r1 = r1
    s1 = s1
    s2 = s2
    NoSub = NoSub
    Subs = {s1}
    Handlers = {h1}
    Reconcilers = {r1}
    TicksPerSecond = 2
    MaxClock = 4
    MaxEvents = 2
    Spaced = TRUE
    StripeMoves <- MCPaidMoves
INVARIANT DeletedIsFinal
