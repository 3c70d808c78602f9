SPECIFICATION BrokerSpec
CONSTANTS
    IPs = {ip1}
    Burst = 2
    Cost = 1
    IdleLimit = 2
    MaxTime = 2
    DeviceCodes = {d1, d2}
    UserCodes = {u1, u2}
    Grants = {g1, g2}
    Slots = {r1, r2}
    TTL = 1
    MaxRestarts = 1
    Configured = TRUE
    None = None
SYMMETRY SymBroker
INVARIANTS
    TokenGoesToItsQR
    NothingLeftAfterHandoff
    ConnectedIsNotLost
PROPERTIES
    HandoffInWindow
    ImplementsContract
