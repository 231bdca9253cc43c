CONSTANTS
    BGPHoldTimeDefault = 9
    BGPIdleHoldTimeDefault = 5
    PeerHoldTimes <- MCPeerHoldTimes
    AutoStart = TRUE
    PassiveTcpEst = FALSE
    DampPeerOscl = TRUE
SPECIFICATION Spec
PROPERTY StaleExpiryHarmless
CHECK_DEADLOCK FALSE
