SPECIFICATION Spec
CONSTANTS
    h1 = h1
    h2 = h2
    r1 = r1
    s1 = s1
    s2 = s2
    NoSub = NoSub
    Subs = {s1, s2}
    Handlers = {h1}
    Reconcilers = {}
    TicksPerSecond = 1
    MaxClock = 3
    MaxEvents = 3
    Spaced = TRUE
    StripeMoves <- MCShortMoves
INVARIANT PaidMeansGranted
