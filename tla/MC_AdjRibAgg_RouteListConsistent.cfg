CONSTANTS
    a = a
    g = g
    n1 = n1
    none = none
    Peers <- MCAggPeers
    Prefixes <- MCAggPrefixes
    NextHops <- MCAggNextHops
    NoNextHop = none
    Prefs <- MCAggPrefs
    Aggregates <- MCAggregates
    MaxPrefixes = 2
    MaxPaths = 3
    MaxDests = 3
    PageSize = 1
    RouterId = rid
    ConnPrefixes <- MCAggConnPrefixes
SPECIFICATION AggSpec
INVARIANT RouteListConsistent
