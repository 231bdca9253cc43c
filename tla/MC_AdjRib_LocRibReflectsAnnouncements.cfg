CONSTANTS
    a = a
    b = b
    n1 = n1
    n2 = n2
    none = none
    Peers <- MCPeers
    Prefixes <- MCPrefixes
    NextHops <- MCTwoNextHops
    NoNextHop = none
    Prefs <- MCPrefs
    MaxPrefixes = 1
    MaxPaths = 3
    MaxDests = 3
    PageSize = 1
    RouterId = rid
    ConnPrefixes <- MCConnPrefixes
SPECIFICATION Spec
INVARIANT LocRibReflectsAnnouncements
