SPECIFICATION Spec
CONSTANTS
    o1 = o1
    o2 = o2
    NoOrder = NoOrder
    Orders <- TwoOrders
    Qty <- QtyTwoOne
    MaxVersion = 2
    MaxPending = 1
    Replacement = FALSE
    VenueCloses = {"EXPIRED"}
    Sells = {o2}
    InitialCash = 3
    MaxPosition = 2
    MaxOpenOrders = 2
    RequiresClean = FALSE
    Faults = {"CRASH", "BRIDGE_RESTART", "DUPLICATE"}
INVARIANTS
    SidesStayBooked
CHECK_DEADLOCK FALSE
