SPECIFICATION Spec
CONSTANTS
    o1 = o1
    o2 = o2
    NoOrder = NoOrder
    Orders <- OneOrder
    Qty <- QtyTwo
    MaxVersion = 2
    MaxPending = 1
    Replacement = TRUE
    VenueCloses = {}
    Sells = {}
    InitialCash = 2
    MaxPosition = 2
    MaxOpenOrders = 1
    RequiresClean = TRUE
    Faults = {"CRASH", "JOURNAL", "DUPLICATE"}
INVARIANTS
    TypeOK
    JournalIsCurrent
    FillsAreFaithful
    SubmittedOnce
    NoOrphanAtVenue
    RestoresUnlessSoldOut
PROPERTIES
    ReopenedOnlyByExecution
    CommandsAreJournaled
    FailClosed
    ImplementsLedger
CHECK_DEADLOCK FALSE
