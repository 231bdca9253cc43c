CONSTANTS
    a1 = a1
    a2 = a2
    a3 = a3
    g1 = g1
    none = none
    Addrs <- MCAddrs
    Groups <- MCGroups
    NoGroup = none
    MaxPeerObjects = 3
    PageCount = 1
    NumPrefixes = 2
SPECIFICATION Spec
INVARIANT NeighborPagingNoPanic
CHECK_DEADLOCK FALSE
