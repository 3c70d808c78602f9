SPECIFICATION EitherSpec
CONSTANTS
    IPs = {ip1, ip2}
    Burst = 5
    Cost = 2
    IdleLimit = 5
    MaxTime = 10
SYMMETRY SymIPs
INVARIANTS
    MintRateBounded
    WipedBucketIsFull
PROPERTIES
    OnlyMintsCost
