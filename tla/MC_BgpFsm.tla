------------------------------ MODULE MC_BgpFsm ------------------------------
(***************************************************************************)
(* BgpFsm instantiated with NewFSM's configuration: autoStart, dampPeerOscl *)
(* and no passive TCP establishment, hold time 9 s, idle hold time 5 s.    *)
(* A peer's OPEN may carry hold time 0 (no keepalives), 2 (illegal per     *)
(* RFC4271), 3 (the smallest legal one) or 12 (above ours, so ignored).    *)
(***************************************************************************)
EXTENDS BgpFsm

MCPeerHoldTimes == {0, 2, 3, 12}

\* The idle-restart run needs only one legal hold time: the backoff does
\* not depend on it, and one value keeps the temporal check small.
MCLivenessHoldTimes == {3}

=============================================================================
