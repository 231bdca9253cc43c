----------------------------- MODULE MC_BgpServer -----------------------------
(***************************************************************************)
(* BgpServer with three neighbour addresses, one peer group, three Peer    *)
(* objects and pages of one neighbour: enough for a removal to move the  *)
(* last neighbour behind the client's index, and for the list to shrink  *)
(* below that index; two prefixes per peer,                              *)
(* so that a withdrawal and a neighbour removal differ.                   *)
(***************************************************************************)
EXTENDS BgpServer

CONSTANTS a1, a2, a3, g1, none

MCAddrs == {a1, a2, a3}
MCGroups == {g1}

=============================================================================
