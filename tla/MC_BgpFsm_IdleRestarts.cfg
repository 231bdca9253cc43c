CONSTANTS
    BGPHoldTimeDefault = 9
    BGPIdleHoldTimeDefault = 5
    PeerHoldTimes <- MCLivenessHoldTimes
    AutoStart = TRUE
    PassiveTcpEst = FALSE
    DampPeerOscl = TRUE
SPECIFICATION FairSpec
PROPERTY IdleRestarts
CHECK_DEADLOCK FALSE
