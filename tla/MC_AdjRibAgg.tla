----------------------------- MODULE MC_AdjRibAgg -----------------------------
(***************************************************************************)
(* AdjRibAgg with one peer, one next hop, a prefix a and an aggregate      *)
(* prefix g that summarises it: enough to create the aggregate, withdraw  *)
(* its only contributor and take the aggregate route out again.           *)
(***************************************************************************)
EXTENDS AdjRibAgg

CONSTANTS a, g, n1, none

MCAggPeers == {1}
MCAggPrefixes == {a, g}
\* Only the contributing prefix may be connected: a connected route at g
\* would share the aggregate path's key (LocalSrc, path id 0).
MCAggConnPrefixes == {a}
MCAggNextHops == {n1}
MCAggPrefs == {1}
MCAggregates == {<<a, g>>}

=============================================================================
