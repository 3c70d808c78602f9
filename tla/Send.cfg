SPECIFICATION SendSpec
CONSTANTS
    p1 = p1
    p2 = p2
    p3 = p3
    Numbers = {0, 1, 2, 3, 4}
    Malformed = Malformed
    Pages = {p1, p2, p3}
    Notebooks <- MCNotebooks
    Ranges <- MCRanges
    Requests <- MCRequests
    MaxSends = 2
INVARIANTS
    SelectsWhatItNames
    InOrderNamed
    SendsInOrder
    SuccessIsWhole
    NamesTellApart
