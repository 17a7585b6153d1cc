SPECIFICATION Spec
CONSTANTS
    o1 = o1
    o2 = o2
    NoOrder = NoOrder
    Orders <- TwoOrders
    Qty <- QtyTwoOne
    MaxVersion = 2
    MaxPending = 1
    Replacement = FALSE
    VenueCloses = {}
    Sells = {}
    InitialCash = 2
    MaxPosition = 2
    MaxOpenOrders = 2
    RequiresClean = FALSE
    Faults = {"CRASH", "TRANSPORT"}
INVARIANTS
    VenueWithinCash
PROPERTIES
    AcceptedOnlyWhenCleared
CHECK_DEADLOCK FALSE
