SPECIFICATION FreshSpec
CONSTANTS
    Procs = {daemon}
    SetTokenOnly = {}
    Ids = {i1, i2, i3}
    Tokens = {t1, t2}
    Names = {n1}
    NoName = NoName
    None = None
    Torn = Torn
    FailKinds = {"write", "remove"}
    MaxCrashes = 1
SYMMETRY SymStore
INVARIANTS
    AcknowledgedIsKept
PROPERTIES
    ImplementsAccountList
