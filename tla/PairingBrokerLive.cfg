SPECIFICATION FairBrokerSpec
CONSTANTS
    IPs = {ip1}
    Burst = 2
    Cost = 1
    IdleLimit = 2
    MaxTime = 3
    DeviceCodes = {d1}
    UserCodes = {u1}
    Grants = {g1, g2}
    Slots = {r1, r2}
    TTL = 1
    MaxRestarts = 1
    Configured = TRUE
    None = None
PROPERTIES
    ConnectedReachesPoller
