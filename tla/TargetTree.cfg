SPECIFICATION TreeSpec
CONSTANTS
    p1 = p1
    p2 = p2
    p3 = p3
    p4 = p4
    d = d
    Ids = {p1, p2, p3, p4, d}
    Databases = {d}
    Outside = Outside
    Shared <- MCShared
    TitleOf <- MCTitleOf
    PageSize = 2
    Limit = 4
    MaxDepth = 2
    MaxEdits = 1
INVARIANTS
    SearchMissesNothing
    EveryPageOnce
    RowsNestInOrder
