SPECIFICATION BridgeSpec
CONSTANTS
    Procs = {}
    Slots = {h1, h2}
    Ids = {i1, i2}
    Tokens = {t1, t2}
    Workspaces = {w1, w2}
    Names = {n1, n2}
    NoName = NoName
    None = None
    MaxRenames = 1
SYMMETRY SymBridge
INVARIANTS
    FailureHidesNoOther
    AccountKeepsItsWorkspace
    SendsToPickedWorkspace
PROPERTIES
    ForgetsOnlyRevoked
    RemovedStaysRemoved
