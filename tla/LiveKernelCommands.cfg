SPECIFICATION Spec
CONSTANTS
    o1 = o1
    o2 = o2
    o3 = o3
    a1 = a1
    a2 = a2
    a3 = a3
    NoOrder = NoOrder
    NoApproval = NoApproval
    Orders <- OneOrder
    Qty <- OneLot
    Approvals <- OneApproval
    Binds <- BindsInTurn
    MaxVersion = 2
    MaxPending = 1
    Replacement = TRUE
    VenueCloses = {}
    InitialCash = 1
    MaxDeployed = 1
    CanaryMaxOrders = 2
    MaxOpenOrders = 2
    Faults = {"JOURNAL", "TRANSPORT"}
INVARIANTS
    TypeOK
    JournalIsCurrent
    BooksAreAccounted
PROPERTIES
    JournalRulesCommands
    ImplementsCanaryLedger
