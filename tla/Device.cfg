SPECIFICATION FairDeviceSpec
CONSTANTS
    Accounts = {a}
    None = None
    Error = Error
    Conns = {c1, c2}
PROPERTIES
    SendsAsPressed
    NeverSendsToRemoved
    OverlayMovesOn
    CloseReturns
