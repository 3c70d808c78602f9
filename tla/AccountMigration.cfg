SPECIFICATION LegacySpec
CONSTANTS
    Procs = {daemon}
    SetTokenOnly = {}
    Ids = {i1, i2, i3}
    Tokens = {t1, t2}
    Names = {n1}
    NoName = NoName
    None = None
    Torn = Torn
    FailKinds = {"read", "write"}
    MaxCrashes = 1
SYMMETRY SymStore
INVARIANTS
    MigrationRunsOnce
