CONSTANTS
    p1 = p1
    p2 = p2
    Addrs <- MCAddrs
    Internal <- MCInternal
    RRClients = {}
    Prefixes <- MCPrefixes
SPECIFICATION Spec
INVARIANT AdvertisedOnlyEligible
