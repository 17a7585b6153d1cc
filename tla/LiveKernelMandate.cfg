SPECIFICATION Spec
CONSTANTS
    o1 = o1
    o2 = o2
    o3 = o3
    a1 = a1
    a2 = a2
    a3 = a3
    NoOrder = NoOrder
    NoApproval = NoApproval
    Orders <- ThreeOrders
    Qty <- OneLot
    Approvals <- ThreeApprovals
    Binds <- BindsInTurn
    MaxVersion = 1
    MaxPending = 1
    Replacement = FALSE
    VenueCloses = {}
    InitialCash = 1
    MaxDeployed = 1
    CanaryMaxOrders = 2
    MaxOpenOrders = 2
    Faults = {}
SYMMETRY Alike
INVARIANTS
    VenueWithinBudget
PROPERTIES
    IncidentsBind
