------------------------------ MODULE MC_AdjRib ------------------------------
(***************************************************************************)
(* AdjRib with two peers, two prefixes and one next hop the route manager *)
(* may learn late; a maximum-prefix limit of 1, so a peer's second prefix *)
(* is refused; three UPDATEs and three Destinations, enough to withdraw,   *)
(* re-announce and resolve a parked path, and to leave a hole during a     *)
(* bulk read that the timer then compacts.                                 *)
(***************************************************************************)
EXTENDS AdjRib

CONSTANTS a, b, n1, n2, none

MCPeers == {1, 2}
MCPrefixes == {a, b}
\* Either prefix may be a connected route.
MCConnPrefixes == MCPrefixes
MCNextHops == {n1}

\* Two next hops, so that a path can arrive with an unresolved next hop
\* after another one has been cached as reachable.
MCTwoNextHops == {n1, n2}
MCPrefs == {1, 2}

\* One preference: route-list bookkeeping and the connected routes' survival
\* depend on which paths a Destination holds, not on which one is best.
MCOnePref == {1}

=============================================================================
