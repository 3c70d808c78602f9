SPECIFICATION DurableSpec
CONSTANTS
    MaxTime = 2
    DeviceCodes = {d1, d2}
    UserCodes = {u1, u2}
    Grants = {g1, g2}
    Slots = {r1, r2}
    TTL = 1
    MaxCrashes = 1
    None = None
SYMMETRY SymDurable
INVARIANTS
    TokenGoesToItsDevice
    ConnectedHasToken
    QRLeadsToPairing
    LeftTokenIsUnreachable
PROPERTIES
    DurableImplementsContract
