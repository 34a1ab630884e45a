SPECIFICATION MCSpec
CONSTANTS
    one = one
    two = two
    three = three
    UtviRuns = {one, two}
    Contents = {one, two, three}
    NoRows = NoRows
    NoTotal = NoTotal
    Total <- MCTotal
    MaxSourceMoves = 2
    MaxDeaths = 1
    UmpiRuns = {one, two}
    NoRun = NoRun
    UmpiSeries = {three}
    Figures = {one, two, three}
    Levelless = {three}
    NoFigure = NoFigure
    MaxMonth = 2
    Lookback = 2
    MaxRevisions = 1
    MaxMishaps = 1
    UepiRuns = {one, two}
    Markets <- MCMarkets
    LastDay = 2
    Trailing = 1
    Attempts = 2
    Hours = 1
    MaxEditions = 2
    MaxDrops = 1
    QueueRuns = {one}
    NoQueueRun = NoQueueRun
    Sources <- MCSources
    Publishable = {1, 2}
    Continuous = {1}
    Archives = {2}
    Limit <- MCLimit
    Statements = {one, two}
    MaxArtifacts = 3
    MaxDeferrals = 1
    UcpiRuns = {one, two}
    Instruments <- MCInstruments
    Sellers = {one, two, three}
    CapacitySource <- MCCapacitySource
    MaxPrice = 2
    LastDate = 3
    MaxReads = 3
    MaxFailures = 1
    Checkouts = {one, two}
    Buyers = {one, two}
    MaxCustomers = 2
    MaxSessions = 2
    LegWindow = 1
    Heartbeat = 1
    MaxInstant = 3
    MaxLag = 1
    NoObservation = NoObservation
    UbwiRuns = {one, two}
    DayLength = 2
    LastInstant = 3
    Passing = {1, 3}
    MaxObservations = 2
    MaxUbwiDeaths = 1
    Ingesters = {one, two}
    Identities = {one, two}
    Artifacts <- MCArtifacts
    NoArtifact = NoArtifact
    MaxCorrections = 2
    Checkers = {one, two}
    Probed = TRUE
    Qualities = {"accepted", "suspect"}
    CheckInterval = 1
    LastMoment = 3
    MaxReleases = 2
    MaxChecks = 2
    FrontierRuns = {one, two}
    Results = {one, two}
    Bundles <- MCBundles
    NoBundle = NoBundle
    MaxBundles = 2
    MaxFrontierFailures = 1
    Verifiers = {one, two}
    Pages <- MCPages
    NoPage = NoPage
    MaxReviews = 3
    MaxTokenDeaths = 1
INVARIANT TypesOK
INVARIANT SettlementAgrees
PROPERTY ImplementsSeries
PROPERTY SettledOrphanIsRepointed
INVARIANT PointsRestOnCurrentVintages
PROPERTY HealthyMeansServed
PROPERTY LockIsFreed
INVARIANT ReleasedIsFinal
PROPERTY EveryDayAccountedFor
PROPERTY WholeDayIsReleased
INVARIANT ReadInOrderStaysInOrder
PROPERTY SelectedIsCovered
INVARIANT PointsRestOnReads
INVARIANT ChangeIsAgainstReleased
PROPERTY CoveredIsCalculated
INVARIANT SessionsOnMappedCustomer
PROPERTY AccessIsOwn
INVARIANT ObservationIsReal
INVARIANT PointsAreOfTheirDay
PROPERTY AnsweredWithAPoint
PROPERTY RestatesOnlyChanges
INVARIANT CurrentIsTheLatest
PROPERTY UnchangedIsServed
PROPERTY SettledBundleIsLive
INVARIANT AttestedAsRead
