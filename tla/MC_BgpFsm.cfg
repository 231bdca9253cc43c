CONSTANTS
    BGPHoldTimeDefault = 9
    BGPIdleHoldTimeDefault = 5
    PeerHoldTimes <- MCPeerHoldTimes
    AutoStart = TRUE
    PassiveTcpEst = FALSE
    DampPeerOscl = TRUE
SPECIFICATION FairSpec
INVARIANT TypeOK ConnBoundToSession HoldTimerGuardsSession
PROPERTY SessionRefinement OpenSentBounded
CHECK_DEADLOCK FALSE
