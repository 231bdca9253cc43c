------------------------------ MODULE BgpServer ------------------------------
(***************************************************************************)
(* The server coordinator of server.go: the StartServer select loop, the  *)
(* sole writer of the peer table (PeerMap), the neighbour list read by the *)
(* RPC goroutine (Neighbors, under NeighborMutex), the peer groups and,    *)
(* abstractly, the RIB; and BulkGetBGPNeighbors, the paginated neighbour   *)
(* read an RPC client drives with the index each page returns.            *)
(*                                                                         *)
(* A Peer is an object, not an address: peers[p] is the p-th Peer NewPeer  *)
(* ever allocated, PeerMap maps an address to one (0 is "absent"), and     *)
(* Neighbors holds the objects in list order.  The RIB is abstracted to    *)
(* how many prefixes it holds a path for from each address (ribFrom);     *)
(* AdjRib models the RIB                                                   *)
(* itself.  Peer.Cleanup/Init/Command/AcceptConn live in peer.go, which is *)
(* not in the tree; their effect on a session is BgpFsm's business, so     *)
(* here they change nothing but what the server itself records.            *)
(* A panic is recorded in crashed, as the handler that panicked; nothing  *)
(* runs after it.                                                          *)
(***************************************************************************)
EXTENDS Integers, Sequences, FiniteSets, Functions

CONSTANTS Addrs,          \* neighbour addresses
          Groups,         \* peer-group names
          NoGroup,        \* the empty group name "" / a nil group pointer
          MaxPeerObjects, \* bound on the Peers NewPeer allocates
          PageCount,      \* the count an RPC client asks for per page
          NumPrefixes     \* the prefixes a neighbour can announce

VARIABLES peerMap,   \* server.PeerMap
          peers,     \* the Peer objects allocated so far: address, group
          neighbors, \* server.Neighbors
          groups,    \* the keys of server.BgpConfig.PeerGroups
          ribFrom,   \* per address, the prefixes the RIB holds paths for
          cursor,    \* the index the RPC client passes to the next page
          crashed    \* the handlers that panicked ({} while the process runs)

vars == <<peerMap, peers, neighbors, groups, ribFrom, cursor, crashed>>

PeerIds == 1..MaxPeerObjects
PeerRec == [addr : Addrs, group : Groups \cup {NoGroup}]
Configured == {a \in Addrs : peerMap[a] # 0}
PanicSites == {"PeerCommand", "BulkGetBGPNeighbors"}
NoRoutes == [a \in Addrs |-> 0]

TypeOK ==
    /\ peerMap \in [Addrs -> 0..MaxPeerObjects]
    /\ peers \in Seq(PeerRec) /\ Len(peers) <= MaxPeerObjects
    /\ neighbors \in Seq(PeerIds)
    /\ groups \subseteq Groups
    /\ ribFrom \in [Addrs -> 0..NumPrefixes]
    /\ cursor \in 0..MaxPeerObjects
    /\ crashed \subseteq PanicSites

Init ==
    /\ peerMap = [a \in Addrs |-> 0]
    /\ peers = << >>
    /\ neighbors = << >>
    /\ groups = {}
    /\ ribFrom = NoRoutes
    /\ cursor = 0
    /\ crashed = {}

\* ProcessRemoveNeighbor: the RIB drops every path learned from peerIp.
ProcessRemoveNeighbor(rf, peerIp) == [rf EXCEPT ![peerIp] = 0]

addPeerToList(nb, p) == Append(nb, p)

\* Fault variant: the slot is refilled and the last one nilled, but the
\* slice is not shortened.
removePeerFromListNoShrink(nb, p) ==
    IF \E i \in DOMAIN nb : nb[i] = p
    THEN LET i == CHOOSE i \in DOMAIN nb : nb[i] = p /\ \A j \in 1..(i-1) : nb[j] # p
         IN  [[nb EXCEPT ![i] = nb[Len(nb)]] EXCEPT ![Len(nb)] = 0]
    ELSE nb

\* Swap-remove: the last Peer takes the slot of the first match.
removePeerFromList(nb, p) ==
    IF \E i \in DOMAIN nb : nb[i] = p
    THEN LET i == CHOOSE i \in DOMAIN nb : nb[i] = p /\ \A j \in 1..(i-1) : nb[j] # p
         IN  SubSeq([nb EXCEPT ![i] = nb[Len(nb)]], 1, Len(nb) - 1)
    ELSE nb

\* The addresses of the mapped peers StopPeersByGroup matches by group name.
GroupAddrs(g) == {a \in Configured : peers[peerMap[a]].group = g}

\* StopPeersByGroup, then UpdatePeerGroup(conf) and Init on each stopped
\* peer; conf is the group's name, or NoGroup for a nil pointer.
UpdatePeerGroupInPeers(g, conf) ==
    /\ ribFrom' = [a \in Addrs |-> IF a \in GroupAddrs(g) THEN 0 ELSE ribFrom[a]]
    /\ peers' = [p \in DOMAIN peers |->
                    IF \E a \in GroupAddrs(g) : peerMap[a] = p
                    THEN [peers[p] EXCEPT !.group = conf] ELSE peers[p]]

\* case <-GlobalConfigCh: Cleanup every peer, strip every neighbour path
\* from the RIB, then Init every peer again.
GlobalConfig ==
    /\ crashed = {}
    /\ ribFrom' = NoRoutes
    /\ UNCHANGED <<peerMap, peers, neighbors, groups, cursor, crashed>>

\* Fault variant: no refusal of an address that is already in use.
AddPeerNoDupCheck(a, g, hasOld) ==
    /\ crashed = {}
    /\ IF hasOld /\ peerMap[a] # 0
       THEN /\ ribFrom' = ProcessRemoveNeighbor(ribFrom, a)
            /\ UNCHANGED <<peerMap, peers, neighbors>>
       ELSE /\ Len(peers) < MaxPeerObjects
            /\ LET p == Len(peers) + 1
               IN  /\ peers' = Append(peers,
                          [addr |-> a, group |-> IF g \in groups THEN g ELSE NoGroup])
                   /\ peerMap' = [peerMap EXCEPT ![a] = p]
                   /\ neighbors' = addPeerToList(neighbors, p)
            /\ UNCHANGED ribFrom
    /\ UNCHANGED <<groups, cursor, crashed>>

\* case <-AddPeerCh.  hasOld: the request names the old address, which is
\* the neighbour's own (the key of a neighbour entry does not change).
\* Found: Cleanup, ProcessRemoveNeighbor, UpdateNeighborConf, Init.
\* Not found: refuse an address already in use, else NewPeer with the
\* group's config if the group exists, add to PeerMap and Neighbors, Init.
AddPeer(a, g, hasOld) ==
    /\ crashed = {}
    /\ IF hasOld /\ peerMap[a] # 0
       THEN /\ ribFrom' = ProcessRemoveNeighbor(ribFrom, a)
            /\ UNCHANGED <<peerMap, peers, neighbors>>
       ELSE /\ peerMap[a] = 0
            /\ Len(peers) < MaxPeerObjects
            /\ LET p == Len(peers) + 1
               IN  /\ peers' = Append(peers,
                          [addr |-> a, group |-> IF g \in groups THEN g ELSE NoGroup])
                   /\ peerMap' = [peerMap EXCEPT ![a] = p]
                   /\ neighbors' = addPeerToList(neighbors, p)
            /\ UNCHANGED ribFrom
    /\ UNCHANGED <<groups, cursor, crashed>>

\* Fault variant: the peer is deleted without ProcessRemoveNeighbor.
RemPeerKeepRoutes(a) ==
    /\ crashed = {}
    /\ peerMap[a] # 0
    /\ LET p == peerMap[a]
       IN  /\ neighbors' = removePeerFromList(neighbors, p)
           /\ peerMap' = [peerMap EXCEPT ![a] = 0]
    /\ UNCHANGED <<peers, groups, ribFrom, cursor, crashed>>

\* case <-RemPeerCh: removePeerFromList, delete from PeerMap, Cleanup,
\* ProcessRemoveNeighbor.
RemPeer(a) ==
    /\ crashed = {}
    /\ peerMap[a] # 0
    /\ LET p == peerMap[a]
       IN  /\ neighbors' = removePeerFromList(neighbors, p)
           /\ peerMap' = [peerMap EXCEPT ![a] = 0]
           /\ ribFrom' = ProcessRemoveNeighbor(ribFrom, a)
    /\ UNCHANGED <<peers, groups, cursor, crashed>>

\* case <-AddPeerGroupCh: refuse an unknown old name; add the new group if
\* absent; restart its peers with the new config.
AddPeerGroup(old, g) ==
    /\ crashed = {}
    /\ old = NoGroup \/ old \in groups
    /\ groups' = groups \cup {g}
    /\ UpdatePeerGroupInPeers(g, g)
    /\ UNCHANGED <<peerMap, neighbors, cursor, crashed>>

\* case <-RemPeerGroupCh: delete the group; its peers restart without one.
RemPeerGroup(g) ==
    /\ crashed = {}
    /\ g \in groups
    /\ groups' = groups \ {g}
    /\ UpdatePeerGroupInPeers(g, NoGroup)
    /\ UNCHANGED <<peerMap, neighbors, cursor, crashed>>

\* case <-PeerCommandCh: the lookup's miss is logged but not returned
\* from, so Command runs on a nil *Peer and the loop panics.
PeerCommand(a) ==
    /\ crashed = {}
    /\ crashed' = IF peerMap[a] = 0 THEN {"PeerCommand"} ELSE {}
    /\ UNCHANGED <<peerMap, peers, neighbors, groups, ribFrom, cursor>>

\* case <-PeerConnBrokenCh: drop the peer's paths if it is still mapped.
PeerConnBroken(a) ==
    /\ crashed = {}
    /\ peerMap[a] # 0
    /\ ribFrom' = ProcessRemoveNeighbor(ribFrom, a)
    /\ UNCHANGED <<peerMap, peers, neighbors, groups, cursor, crashed>>

\* case <-BGPPktSrc: ProcessUpdate drops a packet whose source is not in
\* PeerMap; otherwise the UPDATE announces one more prefix of the peer or
\* withdraws one.
ProcessUpdate(a, announced) ==
    /\ crashed = {}
    /\ peerMap[a] # 0
    /\ ribFrom' = [ribFrom EXCEPT ![a] = IF announced THEN @ + 1 ELSE @ - 1]
    /\ ribFrom'[a] \in 0..NumPrefixes
    /\ UNCHANGED <<peerMap, peers, neighbors, groups, cursor, crashed>>

\* BulkGetBGPNeighbors(cursor, PageCount), under the read lock.  The count
\* is clipped to len - index, which is negative once the list has shrunk
\* below the client's index, and make() then panics.  The index wraps to 0
\* after the last page.
BulkGetBGPNeighbors ==
    /\ crashed = {}
    /\ LET n     == Len(neighbors)
           count == IF cursor + PageCount > n THEN n - cursor ELSE PageCount
           next  == IF cursor + count >= n THEN 0 ELSE cursor + count
       IN  IF count < 0
           THEN /\ crashed' = {"BulkGetBGPNeighbors"}
                /\ UNCHANGED cursor
           ELSE /\ cursor' = next
                /\ UNCHANGED crashed
    /\ UNCHANGED <<peerMap, peers, neighbors, groups, ribFrom>>

Next ==
    \/ GlobalConfig
    \/ \E a \in Addrs, g \in Groups \cup {NoGroup}, hasOld \in BOOLEAN :
           AddPeer(a, g, hasOld)
    \/ \E a \in Addrs : RemPeer(a)
    \/ \E old \in Groups \cup {NoGroup}, g \in Groups : AddPeerGroup(old, g)
    \/ \E g \in Groups : RemPeerGroup(g)
    \/ \E a \in Addrs : PeerCommand(a)
    \/ \E a \in Addrs : PeerConnBroken(a)
    \/ \E a \in Addrs, announced \in BOOLEAN : ProcessUpdate(a, announced)
    \/ BulkGetBGPNeighbors

Spec == Init /\ [][Next]_vars

(***************************************************************************)
(* Properties                                                              *)
(***************************************************************************)

\* The neighbour list the RPC handlers page through and PeerMap, which the
\* loop looks peers up in, stay two views of the same peers: every mapped
\* Peer is listed exactly once, nothing else is listed, and a Peer is
\* mapped under its own address.  AddPeer's "already exists" refusal and
\* the swap-remove of RemPeer are what keep them together.
NeighborsMatchPeerMap ==
    /\ IsInjective(neighbors)
    /\ Range(neighbors) = {peerMap[a] : a \in Configured}
    /\ \A a \in Configured : peers[peerMap[a]].addr = a

\* The RIB holds paths only from configured neighbours: ProcessUpdate drops
\* packets from unmapped sources, and every path that removes a neighbour
\* or restarts it (RemPeer, AddPeer on an existing address, a peer-group
\* change, a global config change) strips its paths first (spec.md 3).
RoutesOnlyFromConfiguredPeers == \A a \in Addrs \ Configured : ribFrom[a] = 0

\* Neither the loop nor the RPC handler panics: a command for an unknown
\* address and a neighbour page whose index is past the end of a list that
\* shrank are both refused (spec.md 6: no failure is process-fatal).
ServerNoPanic == crashed = {}

\* The RPC handler BulkGetBGPNeighbors never panics, whatever the loop did
\* to the neighbour list since the client's last page: removals between
\* pages must not turn the index the previous page returned into a
\* negative count for make() (spec.md 7: no failure is process-fatal).
NeighborPagingNoPanic == "BulkGetBGPNeighbors" \notin crashed

=============================================================================
