------------------------------ MODULE MC_BgpFanout ------------------------------
(***************************************************************************)
(* Three neighbours: 1 and 2 internal, neither a route-reflector client,  *)
(* and 3 external; two prefixes, so that one can be learned while the    *)
(* other is connected.                                                     *)
(***************************************************************************)
EXTENDS BgpFanout

CONSTANTS p1, p2

MCAddrs == {1, 2, 3}
MCInternal == {1, 2}
MCPrefixes == {p1, p2}

=============================================================================
