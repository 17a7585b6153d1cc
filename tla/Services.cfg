SPECIFICATION Spec
CONSTANTS
    Legs = {"near", "far"}
    Ratio <- LegRatios
    Units = 2
    Receipts = {1, 2, 3, 4}
    FailureLimit = 2
    LockoutTicks = 2
    ChallengeTicks = 1
    SessionTicks = 1
    RecoveryCodes = {"r"}
    Tokens = {1, 2}
    MaxNow = 3
    MaxSessions = 1
    MaxVersion = 2
    Writers = {w1, w2}
    EventIds = {e1, e2}
    Keys = {k1, k2}
    Aggregates = {a1, a2}
    Bodies = {b1}
    MaxCalls = 3
    Scale = 2
    Intents = {1, 2}
    Requests <- TwoRequests
    MarketBars <- TwoBars
    Ratios = {1, 3}
    Payouts = {1}
    LatencyBars = 0
    FillCap = 1
    FlatFee = 1
    Slippage = 1
    QuantityLimit = 4
    PriceCollar = 3
    Headlines = {h1}
    Vectors = {v1}
    OpeningCash = 20
    MaxBars = 4
    MaxActions = 1
    PipeFrames = 1
    MaxRequests = 3
    Formats = {"PAPER", "LIVE", "OPERATIONS", "COMMERCIAL"}
    Owners = {p, q}
    Entries = {"e1", "e2", "e3"}
    Provisions <- Tenants
    MaxLines = 3
    MaxTears = 2
    Whole = 10
    Quantities = {5, 15}
    Prices = {20, 45}
    Fees = {4}
    SplitRatios = {5, 15}
    Dividends = {3}
    Settlements = {30}
    BorrowAvailable = 20
    BorrowRate = 1
    MarginRate = 5
    Deposit = 200
    MaxFills = 3
    MaxLifecycle = 1
    ParentQuantities = {0, 1, 4, 7}
    Bps = 4
    SliceCounts = {2, 3}
    Urgencies = {0, 4}
    Displays = {2}
    Interval = 5
    WeightCurves <- ThreeCurves
    VolumeCurves <- TwoVolumes
    Participations = {2}
    QuoteBooks <- Books
    Limits = {5, 9}
    MaxSlices = 3
    Quotes <- SevenTicks
    MaxArrivals = 3
    MaxRepairs = 2
    Lot = 2
    Shares <- FourShares
    Trades <- TwoTrades
    Actions <- ThreeActions
    Closes <- OneClose
    Bounds <- FourBounds
    Tickets <- ThreeTickets
    Strategies = {"s1", "s2"}
    Sheets <- ThreeSheets
    FirstSheet <- OpeningSheet
    Cash = 30
    MaxPosition = 2
    MaxShort = 1
    MaxGross = 9
    MaxNet = 7
    StrategyLimit = 8
    MaxDailyLoss = 3
    MaxDrawdown = 1
    MaxRate = 1
    Window = 1
    MaxOpen = 2
    DayLength = 1
    Scopes = {"y", "s2"}
    MaxClock = 1
    Documents <- SixDocuments
    Operators = {"x", "y"}
    Kinds = {"GAME_DAY", "COMPLETION"}
    DayTicks = 3
    Instants = {1, 2, 3, 4}
    MaxEntries = 2
    ClientOrders = {"a"}
    OrderIds = {1, 2}
    Sessions <- FiveSessions
    Inventory <- ThreeAssets
    FileContents = {"v1", "v2"}
    FirstContents = "v1"
    ErasureRequests <- OneErasure
    LatestInstant = 1
    MaxPlans = 2
    MaxDeletions = 2
    MaxEdits = 1
    Artifacts = {"cli"}
    Builds = {"b1", "b2"}
    FirstBuild = "b1"
    SigningKeys <- TwoKeys
    TrustedKey <- RetainedKey
    Commerce <- FourRecords
    Tenant = "t1"
    LatestAsOf = 1
    MaxRecords = 3
    MaxReleases = 2
    MaxRebuilds = 1
    Grants <- Roles
    CallOf <- Commands
    Scenarios <- NineScenarios
    RouteOrders = {"o1"}
    ScopeCovers <- OneScope
    SessionSeconds = 0
    MaxTime = 2
    MaxStarts = 2
INVARIANTS
    TypeOK
    CombosAgree
    AppendsAreHonest
    ReplayIsFaithful
    EvidenceSurvives
    MarginBooksAgree
    PlansAreSound
    GapsAreKnown
    WorkbenchIsHonest
    DeletionsAreReviewed
    CommandsAreAccountable
PROPERTIES
    AccountIsAttested
    AccountIsGuarded
    WorkersAnswerAndEnd
    LimitsRemember
    BridgeIsFaithful
    ReleasesAreEarned
    BooksSurvive
CHECK_DEADLOCK FALSE
