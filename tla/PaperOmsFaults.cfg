SPECIFICATION FaultsSpec
CONSTANTS
    o1 = o1
    o2 = o2
    NoOrder = NoOrder
    Orders <- OneOrder
    Qty <- QtyTwo
    MaxVersion = 2
    MaxPending = 1
    Replacement = FALSE
    VenueCloses = {"EXPIRED"}
    Sells = {}
    InitialCash = 2
    MaxPosition = 2
    MaxOpenOrders = 1
    RequiresClean = FALSE
    Faults = {"CRASH", "JOURNAL", "TRANSPORT"}
PROPERTIES
    SubmissionResolvesUnstopped
    ExecutionsReachJournal
CHECK_DEADLOCK FALSE
