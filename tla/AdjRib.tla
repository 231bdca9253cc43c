------------------------------- MODULE AdjRib -------------------------------
(***************************************************************************)
(* The Adj-RIB of src/bgp/rib/rib.go: UPDATE processing with next-hop      *)
(* resolution and the unreachablePaths parking area, neighbour teardown,   *)
(* and the flat routeList kept for paginated reads, with its compaction    *)
(* timer.  The server goroutine calls the RIB one operation at a time; the *)
(* bulk-read RPC and the compaction timer run on other goroutines and      *)
(* synchronise with it only through routeMutex.                           *)
(*                                                                         *)
(* Path and Destination objects are pointers in the code, and the RIB     *)
(* keys unreachablePaths by pointer, so the model keeps them as heaps:    *)
(* rib.paths[i] is the i-th Path the RIB created, rib.dests[j] the j-th    *)
(* Destination.  0 stands for nil.  Destination's own methods              *)
(* (AddOrUpdatePath, RemovePath, SelectRouteForLocRib, IsEmpty) live       *)
(* outside rib.go and follow the specification of section 4.3.            *)
(*                                                                         *)
(*   rib.paths            Path heap: peer, next hop, local pref, reachable *)
(*   rib.dests            Destination heap: prefix, the path of each peer, *)
(*                        LocRibPath, routeListIdx (0 for -1)              *)
(*   rib.destPathMap      prefix -> Destination (0: none)                  *)
(*   rib.reachabilityMap  next hops whose resolution is cached             *)
(*   rib.parked           unreachablePaths[nh][path] keys, as <<nh, path>> *)
(*   rib.pending          unreachablePaths[nh][path][dest] entries, as    *)
(*                        <<path, dest>> (one path id per peer)            *)
(*   rib.routeList        the flat list, 0 for a nil hole                  *)
(*   rib.dirty, rib.activeGet, rib.timerArmed  the list's flags and timer  *)
(*   rib.prefixCount      each neighbour's accepted-prefix counter         *)
(*   resolvable           next hops the route manager can resolve          *)
(*   ribIn                what each source currently announces per prefix  *)
(*                        (history, not program state)                     *)
(*   cursor               the index the bulk-read client resumes from      *)
(***************************************************************************)
EXTENDS Integers, Sequences, FiniteSets, FiniteSetsExt

CONSTANTS
    Peers,          \* neighbour addresses, as 1..n (n is also the tie-break)
    Prefixes,       \* destination prefixes
    NextHops,       \* next-hop addresses UPDATEs may carry
    NoNextHop,      \* GetNextHop() of an UPDATE with no NLRI
    Prefs,          \* local preferences a path may carry
    MaxPrefixes,    \* NeighborConf's maximum-prefix limit
    MaxPaths,       \* bound: UPDATEs processed (Paths created)
    MaxDests,       \* bound: Destinations created
    PageSize,       \* count passed to BulkGetBGPRoutes
    RouterId,       \* next hop of the connected-routes Path
    ConnPrefixes    \* the prefixes the route manager may report as connected

ASSUME Peers \subseteq Nat \ {0} /\ NoNextHop \notin NextHops
ASSUME RouterId \notin NextHops \cup {NoNextHop} /\ ConnPrefixes \subseteq Prefixes
ASSUME MaxPrefixes \in Nat /\ MaxPaths \in Nat /\ MaxDests \in Nat /\ PageSize \in Nat \ {0}

VARIABLES rib, resolvable, ribIn, cursor

vars == <<rib, resolvable, ribIn, cursor>>

\* The router's own source address (srcIP), under which the RIB keeps the
\* paths it originates itself, connected routes and aggregates; 0, so that it sorts
\* before every neighbour.
LocalSrc == 0
Sources == Peers \cup {LocalSrc}

PathIds == 0..MaxPaths
DestIds == 0..MaxDests

(***************************************************************************)
(* Destination methods (destination.go, not in this tree; spec 4.3).       *)
(* Selection ranks reachable paths by local preference, then by peer.      *)
(***************************************************************************)
DestPaths(r, d) == {r.dests[d].pathOf[q] : q \in {q \in Sources : r.dests[d].pathOf[q] # 0}}

Preferred(r, p, o) ==
    \/ r.paths[p].pref > r.paths[o].pref
    \/ r.paths[p].pref = r.paths[o].pref /\ r.paths[p].peer < r.paths[o].peer

BestPath(r, d) ==
    LET cand == {p \in DestPaths(r, d) : r.paths[p].reach}
    IN IF cand = {} THEN 0
       ELSE CHOOSE p \in cand : \A o \in cand \ {p} : Preferred(r, p, o)

\* The action SelectRouteForLocRib reports for d, and the selection itself.
SelectAction(r, d) ==
    LET old == r.dests[d].loc
        new == BestPath(r, d)
    IN CASE new # 0 /\ old = 0   -> "Add"
         [] new # 0 /\ new # old -> "Replace"
         [] new = 0 /\ old # 0   -> "Delete"
         [] OTHER                -> "None"
SelectRouteForLocRib(r, d) == [r EXCEPT !.dests[d].loc = BestPath(r, d)]

IsEmpty(r, d) == DestPaths(r, d) = {}

NewDestination(q) == [prefix |-> q, pathOf |-> [x \in Sources |-> 0], loc |-> 0, idx |-> 0]

(***************************************************************************)
(* routeList maintenance (rib.go:625-681).  Indices are 1-based here.     *)
(***************************************************************************)
addRoutesToRouteList(r, d) ==
    [r EXCEPT !.routeList = Append(@, d), !.dests[d].idx = Len(r.routeList) + 1]

\* Fault variant: the swapped-in entry keeps its old routeListIdx.
removeRoutesFromRouteListNoReindex(r, d) ==
    LET i    == r.dests[d].idx
        n    == Len(r.routeList)
    IN CASE i = 0 -> r
         [] ~r.activeGet ->
              [r EXCEPT !.routeList = SubSeq([@ EXCEPT ![i] = r.routeList[n]], 1, n - 1)]
         [] OTHER -> [r EXCEPT !.routeList[i] = 0, !.dirty = TRUE]

\* Outside a bulk read the last entry is swapped into the hole; during one
\* the slot is nilled and the list marked dirty.  The removed Destination
\* keeps its routeListIdx.
removeRoutesFromRouteList(r, d) ==
    LET i    == r.dests[d].idx
        n    == Len(r.routeList)
        last == r.routeList[n]
    IN CASE i = 0 -> r
         [] ~r.activeGet ->
              [r EXCEPT !.routeList = SubSeq([@ EXCEPT ![i] = last], 1, n - 1),
                        !.dests[last].idx = i]
         [] OTHER -> [r EXCEPT !.routeList[i] = 0, !.dirty = TRUE]

\* ResetRouteList's compaction loop: from the front, fill each hole with the
\* last non-nil entry behind it; stop at a hole with nothing behind it.
\* Returns the compacted list and the positions that received an entry.
RECURSIVE CompactFrom(_, _, _, _)
CompactFrom(rl, i, lastIdx, moved) ==
    IF i > Len(rl) THEN <<rl, moved>>
    ELSE IF rl[i] # 0 THEN CompactFrom(rl, i + 1, lastIdx, moved)
    ELSE LET behind == {j \in (i + 1)..lastIdx : rl[j] # 0}
         IN IF behind = {} THEN <<SubSeq(rl, 1, i - 1), moved>>
            ELSE LET m == CHOOSE j \in behind : \A k \in behind : k <= j
                 IN CompactFrom([rl EXCEPT ![i] = rl[m], ![m] = 0], i + 1, m,
                                moved \cup {i})

ResetRouteList(r) ==
    LET res == CompactFrom(r.routeList, 1, Len(r.routeList), {})
        rl  == res[1]
    IN IF ~r.dirty THEN [r EXCEPT !.activeGet = FALSE]
       ELSE [r EXCEPT !.activeGet = FALSE, !.dirty = FALSE, !.routeList = rl,
                      !.dests = [d \in DOMAIN @ |->
                                   IF \E i \in res[2] : rl[i] = d
                                   THEN [@[d] EXCEPT !.idx = CHOOSE i \in res[2] : rl[i] = d]
                                   ELSE @[d]]]

\* GetDest(nlri, true): look the prefix up, creating and listing it if new.
GetDest(r, q) ==
    IF r.destPathMap[q] # 0 THEN r
    ELSE LET d == Len(r.dests) + 1
         IN addRoutesToRouteList([r EXCEPT !.dests = Append(@, NewDestination(q)),
                                           !.destPathMap[q] = d], d)

(***************************************************************************)
(* ProcessRoutes (rib.go:174-303), one prefix at a time.                   *)
(***************************************************************************)
\* Withdraw loop body for prefix q: remove the peer's path, drop the
\* parked entry of an unreachable one, reselect, give back the prefix
\* count, and delete the Destination once a Delete leaves it empty.
WithdrawPrefix(r, peer, add, q) ==
    LET d   == r.destPathMap[q]
        old == r.dests[d].pathOf[peer]
        nh  == r.paths[old].nh
        r1  == [r EXCEPT !.dests[d].pathOf[peer] = 0]
        r2  == IF old # 0 /\ ~r.paths[old].reach
               THEN LET u == [r1 EXCEPT !.pending = @ \ {<<old, d>>}]
                    IN IF \E e \in u.pending : e[1] = old THEN u
                       ELSE [u EXCEPT !.parked = @ \ {<<nh, old>>}]
               ELSE r1
        act == SelectAction(r2, d)
        r3  == SelectRouteForLocRib(r2, d)
        r4  == IF old # 0 /\ peer \in Peers THEN [r3 EXCEPT !.prefixCount[peer] = @ - 1] ELSE r3
    IN CASE q \in add \/ d = 0 -> r
         [] act = "Delete" /\ IsEmpty(r4, d) ->
              [removeRoutesFromRouteList(r4, d) EXCEPT !.destPathMap[q] = 0]
         [] OTHER -> r4

\* Add loop body for prefix q with the UPDATE's path p: the Destination is
\* created before the maximum-prefix test; an unreachable path is parked
\* without reselection.  Only a path with a NeighborConf (a neighbour's,
\* not the RIB's own) is counted against a limit.
AddPrefix(r, peer, p, q) ==
    LET r1  == GetDest(r, q)
        d   == r1.destPathMap[q]
        old == r1.dests[d].pathOf[peer]
        new == old = 0 /\ peer \in Peers
        r2  == IF new THEN [r1 EXCEPT !.prefixCount[peer] = @ + 1] ELSE r1
        r3  == [r2 EXCEPT !.dests[d].pathOf[peer] = p]
    IN CASE new /\ r1.prefixCount[peer] >= MaxPrefixes -> r1
         [] ~r3.paths[p].reach -> [r3 EXCEPT !.pending = @ \cup {<<p, d>>}]
         [] OTHER -> SelectRouteForLocRib(r3, d)

ProcessRoutes(r, peer, add, p, rem) ==
    FoldSet(LAMBDA q, acc : AddPrefix(acc, peer, p, q),
            FoldSet(LAMBDA q, acc : WithdrawPrefix(acc, peer, add, q), r, rem),
            add)

(***************************************************************************)
(* ProcessRoutesForReachableRoutes (rib.go:305-338): every path parked     *)
(* under nh becomes reachable and is re-added to each Destination it was   *)
(* parked for; the entries stay.  Go's map order decides which of several *)
(* paths of one peer for one Destination is added last: pick[<<d, q>>].    *)
(***************************************************************************)
ParkedUnder(r, nh) == {e[2] : e \in {e \in r.parked : e[1] = nh}}
Readded(r, nh) == {e \in r.pending : e[1] \in ParkedUnder(r, nh)}
ReaddKeys(r, nh) == {<<e[2], r.paths[e[1]].peer>> : e \in Readded(r, nh)}
Candidates(r, nh, k) == {e[1] : e \in {e \in Readded(r, nh) : <<e[2], r.paths[e[1]].peer>> = k}}
ReaddOrders(r, nh) ==
    {f \in [ReaddKeys(r, nh) -> ParkedUnder(r, nh)] :
        \A k \in ReaddKeys(r, nh) : f[k] \in Candidates(r, nh, k)}

ProcessRoutesForReachableRoutes(r, nh, pick) ==
    LET ps == ParkedUnder(r, nh)
        ks == ReaddKeys(r, nh)
        ds == {k[1] : k \in ks}
        r1 == [r EXCEPT !.paths = [i \in DOMAIN @ |->
                                    IF i \in ps THEN [@[i] EXCEPT !.reach = TRUE] ELSE @[i]],
                        !.dests = [d \in DOMAIN @ |->
                                    [@[d] EXCEPT !.pathOf = [q \in Sources |->
                                        IF <<d, q>> \in ks THEN pick[<<d, q>>] ELSE @[q]]]]]
    IN [r1 EXCEPT !.dests = [d \in DOMAIN @ |->
                               IF d \in ds THEN [@[d] EXCEPT !.loc = BestPath(r1, d)]
                               ELSE @[d]]]

(***************************************************************************)
(* GetReachabilityInfo (rib.go:109-132): the cache first, then the route   *)
(* manager, whose answer is cached for good.                              *)
(***************************************************************************)
Reachable(r, nh) == nh \in r.reachabilityMap \/ nh \in resolvable
GetReachabilityInfo(r, nh) ==
    IF nh \notin r.reachabilityMap /\ nh \in resolvable
    THEN [r EXCEPT !.reachabilityMap = @ \cup {nh}] ELSE r

(***************************************************************************)
(* The operations.                                                         *)
(***************************************************************************)
\* Fault variant: the path is parked under the id of the previous Path.
ProcessUpdateParkPrev(peer, nh, pref, add, rem) ==
    LET p  == Len(rib.paths) + 1
        ok == Reachable(rib, nh)
        r0 == [GetReachabilityInfo(rib, nh) EXCEPT
                 !.paths = Append(@, [peer |-> peer, nh |-> nh, pref |-> pref, reach |-> ok]),
                 !.parked = IF ok THEN @ ELSE @ \cup {<<nh, p - 1>>}]
        r1 == ProcessRoutes(r0, peer, add, p, rem)
    IN /\ Len(rib.paths) < MaxPaths
       /\ Len(rib.dests) + Cardinality(add) <= MaxDests
       /\ IF ok THEN \E pick \in ReaddOrders(r1, nh) :
                        rib' = ProcessRoutesForReachableRoutes(r1, nh, pick)
          ELSE rib' = r1
       /\ ribIn' = [ribIn EXCEPT ![peer] = [q \in Prefixes |->
                        CASE q \in add -> p [] q \in rem -> 0 [] OTHER -> @[q]]]
       /\ UNCHANGED <<resolvable, cursor>>

\* ProcessUpdate (rib.go:340-385) for an UPDATE from peer announcing add
\* with next hop nh and local preference pref, and withdrawing rem.
ProcessUpdate(peer, nh, pref, add, rem) ==
    LET p  == Len(rib.paths) + 1
        ok == Reachable(rib, nh)
        r0 == [GetReachabilityInfo(rib, nh) EXCEPT
                 !.paths = Append(@, [peer |-> peer, nh |-> nh, pref |-> pref, reach |-> ok]),
                 !.parked = IF ok THEN @ ELSE @ \cup {<<nh, p>>}]
        r1 == ProcessRoutes(r0, peer, add, p, rem)
    IN /\ Len(rib.paths) < MaxPaths
       /\ Len(rib.dests) + Cardinality(add) <= MaxDests
       /\ IF ok THEN \E pick \in ReaddOrders(r1, nh) :
                        rib' = ProcessRoutesForReachableRoutes(r1, nh, pick)
          ELSE rib' = r1
       /\ ribIn' = [ribIn EXCEPT ![peer] = [q \in Prefixes |->
                        CASE q \in add -> p [] q \in rem -> 0 [] OTHER -> @[q]]]
       /\ UNCHANGED <<resolvable, cursor>>

\* ProcessConnectedRoutes (rib.go:387-402) with the server's one
\* connRoutesPath, made at StartServer with no NeighborConf and next hop
\* RouterId; the model puts it on the heap when first used.  The path is
\* taken as reachable: Path.IsReachable is outside the tree, and an
\* unreachable one would be parked under a nextHop entry ProcessRoutes
\* never creates.  The server passes either installed or withdrawn routes.
\* An aggregate of a connected route takes its next hop too, but only after
\* connRoutesPath exists: the first such Path is connRoutesPath.
ConnPath(r) == {i \in DOMAIN r.paths : r.paths[i].nh = RouterId}

\* ConstructPathAttrForConnRoutes (packet code, outside the tree) builds
\* fixed attributes, so the path's preference is one fixed value.
ConnPref == CHOOSE x \in Prefs : TRUE

ProcessConnectedRoutes(add, rem) ==
    LET made == ConnPath(rib) # {}
        p    == IF made THEN Min(ConnPath(rib)) ELSE Len(rib.paths) + 1
        r0   == IF made THEN rib
                ELSE [rib EXCEPT !.paths = Append(@, [peer |-> LocalSrc, nh |-> RouterId,
                                                     pref |-> ConnPref, reach |-> TRUE])]
    IN /\ made \/ Len(rib.paths) < MaxPaths
       /\ Len(rib.dests) + Cardinality(add) <= MaxDests
       /\ rib' = ProcessRoutes(r0, LocalSrc, add, p, rem)
       /\ ribIn' = [ribIn EXCEPT ![LocalSrc] = [q \in Prefixes |->
                        CASE q \in add -> p [] q \in rem -> 0 [] OTHER -> @[q]]]
       /\ UNCHANGED <<resolvable, cursor>>

\* RemoveUpdatesFromNeighbor (rib.go:404-438): strip the peer's path from
\* every Destination, reselect, delete emptied ones, reset its counter.
RemoveNeighborPaths(r, peer, q) ==
    LET d  == r.destPathMap[q]
        r1 == [r EXCEPT !.dests[d].pathOf[peer] = 0]
        r2 == SelectRouteForLocRib(r1, d)
    IN CASE d = 0 -> r
         [] SelectAction(r1, d) = "Delete" /\ IsEmpty(r2, d) ->
              [removeRoutesFromRouteList(r2, d) EXCEPT !.destPathMap[q] = 0]
         [] OTHER -> r2

RemoveUpdatesFromNeighbor(peer) ==
    /\ rib' = [FoldSet(LAMBDA q, acc : RemoveNeighborPaths(acc, peer, q), rib, Prefixes)
                 EXCEPT !.prefixCount[peer] = 0]
    /\ ribIn' = [ribIn EXCEPT ![peer] = [q \in Prefixes |-> 0]]
    /\ UNCHANGED <<resolvable, cursor>>

\* RemoveUpdatesFromAllNeighbors (rib.go:440-460), on a global config
\* change: strip every neighbour's path from each Destination, reselect
\* once, delete emptied ones; the RIB's own paths stay.  The neighbours'
\* prefix counters, kept in their NeighborConf, are not touched.
\* Fault variant: every path is stripped, the RIB's own included.
RemoveAllNeighborPathsAllSources(r, q) ==
    LET d  == r.destPathMap[q]
        r1 == [r EXCEPT !.dests[d].pathOf = [x \in Sources |-> 0]]
        r2 == SelectRouteForLocRib(r1, d)
    IN CASE d = 0 -> r
         [] SelectAction(r1, d) = "Delete" /\ IsEmpty(r2, d) ->
              [removeRoutesFromRouteList(r2, d) EXCEPT !.destPathMap[q] = 0]
         [] OTHER -> r2

RemoveAllNeighborPaths(r, q) ==
    LET d  == r.destPathMap[q]
        r1 == [r EXCEPT !.dests[d].pathOf = [x \in Sources |-> IF x \in Peers THEN 0 ELSE @[x]]]
        r2 == SelectRouteForLocRib(r1, d)
    IN CASE d = 0 -> r
         [] SelectAction(r1, d) = "Delete" /\ IsEmpty(r2, d) ->
              [removeRoutesFromRouteList(r2, d) EXCEPT !.destPathMap[q] = 0]
         [] OTHER -> r2

RemoveUpdatesFromAllNeighbors ==
    /\ rib' = FoldSet(LAMBDA q, acc : RemoveAllNeighborPaths(acc, q), rib, Prefixes)
    /\ ribIn' = [x \in Sources |-> IF x \in Peers THEN [q \in Prefixes |-> 0] ELSE ribIn[x]]
    /\ UNCHANGED <<resolvable, cursor>>

\* The route manager learns a route to nh (the environment).
NextHopResolved(nh) ==
    /\ nh \notin resolvable
    /\ resolvable' = resolvable \cup {nh}
    /\ UNCHANGED <<rib, ribIn, cursor>>

\* BulkGetBGPRoutes (rib.go:694-721) from the index the client holds:
\* a read from 0 while a pass is active compacts first; the read returns
\* up to PageSize non-empty Destinations and the index to resume from,
\* 0 once the list is exhausted; the compaction timer is re-armed.
RECURSIVE ScanEnd(_, _, _, _)
ScanEnd(r, rl, i, n) ==
    IF i >= Len(rl) \/ n >= PageSize THEN i
    ELSE ScanEnd(r, rl, i + 1, IF rl[i + 1] # 0 /\ ~IsEmpty(r, rl[i + 1]) THEN n + 1 ELSE n)

BulkGetBGPRoutes ==
    LET r1 == IF cursor = 0 /\ rib.activeGet THEN ResetRouteList(rib) ELSE rib
        i  == ScanEnd(r1, r1.routeList, cursor, 0)
    IN /\ rib' = [r1 EXCEPT !.activeGet = TRUE, !.timerArmed = TRUE]
       /\ cursor' = IF i >= Len(r1.routeList) THEN 0 ELSE i
       /\ UNCHANGED <<resolvable, ribIn>>

\* The AfterFunc timer fires ResetTime after the last read: ResetRouteList.
ResetTimerFires ==
    /\ rib.timerArmed
    /\ rib' = [ResetRouteList(rib) EXCEPT !.timerArmed = FALSE]
    /\ UNCHANGED <<resolvable, ribIn, cursor>>

(***************************************************************************)
(* NewAdjRib (rib.go:76-96): everything empty, the timer stopped.          *)
(***************************************************************************)
Init ==
    /\ rib = [paths |-> <<>>, dests |-> <<>>,
              destPathMap |-> [q \in Prefixes |-> 0],
              reachabilityMap |-> {}, parked |-> {}, pending |-> {},
              routeList |-> <<>>, dirty |-> FALSE, activeGet |-> FALSE,
              timerArmed |-> FALSE, prefixCount |-> [x \in Peers |-> 0]]
    /\ resolvable = {}
    /\ ribIn = [x \in Sources |-> [q \in Prefixes |-> 0]]
    /\ cursor = 0

\* The operations the server goroutine, the bulk-read RPC, the compaction
\* timer and the route manager perform.  An UPDATE with NLRI carries a
\* next hop; one that only withdraws does not.
Next ==
    \/ \E peer \in Peers, nh \in NextHops, pref \in Prefs,
          add \in SUBSET Prefixes \ {{}}, rem \in SUBSET Prefixes :
          ProcessUpdate(peer, nh, pref, add, rem)
    \/ \E peer \in Peers, rem \in SUBSET Prefixes \ {{}} :
          ProcessUpdate(peer, NoNextHop, CHOOSE x \in Prefs : TRUE, {}, rem)
    \/ \E peer \in Peers : RemoveUpdatesFromNeighbor(peer)
    \/ \E add \in SUBSET ConnPrefixes \ {{}} : ProcessConnectedRoutes(add, {})
    \/ \E rem \in SUBSET ConnPrefixes \ {{}} : ProcessConnectedRoutes({}, rem)
    \/ RemoveUpdatesFromAllNeighbors
    \/ \E nh \in NextHops : NextHopResolved(nh)
    \/ BulkGetBGPRoutes
    \/ ResetTimerFires

Spec == Init /\ [][Next]_vars

(***************************************************************************)
(* Properties.                                                             *)
(***************************************************************************)
LiveDests == {rib.destPathMap[q] : q \in {q \in Prefixes : rib.destPathMap[q] # 0}}

\* NeighborConf's prefix counter is a Go int: nothing stops it going
\* below zero.
TypeOK ==
    /\ \A i \in DOMAIN rib.paths :
          rib.paths[i] \in [peer : Sources, nh : NextHops \cup {NoNextHop, RouterId}, pref : Prefs,
                            reach : BOOLEAN]
    /\ \A d \in DOMAIN rib.dests :
          rib.dests[d] \in [prefix : Prefixes, pathOf : [Sources -> PathIds], loc : PathIds,
                            idx : Nat]
    /\ rib.destPathMap \in [Prefixes -> DestIds]
    /\ rib.parked \subseteq (NextHops \cup {NoNextHop, RouterId}) \X (1..MaxPaths)
    /\ rib.pending \subseteq (1..MaxPaths) \X (1..MaxDests)
    /\ \A i \in DOMAIN rib.routeList : rib.routeList[i] \in DestIds
    /\ rib.prefixCount \in [Peers -> Int]
    /\ cursor \in Nat

\* destPathMap and routeList stay consistent (spec 3): every Destination in
\* destPathMap sits exactly once in routeList, at its routeListIdx; every
\* non-nil entry is such a Destination; nil holes exist only while the
\* list is marked dirty.  The swap-remove of removeRoutesFromRouteList,
\* the holes left during a bulk read and ResetRouteList's compaction, run
\* from the timer's goroutine, must all preserve this.
RouteListConsistent ==
    /\ \A d \in LiveDests :
          /\ rib.dests[d].idx \in DOMAIN rib.routeList
          /\ rib.routeList[rib.dests[d].idx] = d
          /\ \A i \in DOMAIN rib.routeList : rib.routeList[i] = d => i = rib.dests[d].idx
    /\ \A i \in DOMAIN rib.routeList : rib.routeList[i] \in LiveDests \cup {0}
    /\ ~rib.dirty => \A i \in DOMAIN rib.routeList : rib.routeList[i] # 0

\* LocRib reflects what the peers currently announce (spec 3 and 8): each
\* Destination holds for a peer at most the path that peer last announced
\* for the prefix -- nothing it withdrew, replaced, or lost with its session
\* (RemoveUpdatesFromNeighbor) comes back through the parked-path re-add of
\* ProcessRoutesForReachableRoutes -- and its LocRibPath is the best
\* reachable path it holds, whatever order UPDATEs and next-hop resolution
\* arrive in.
LocRibReflectsAnnouncements ==
    /\ \A q \in Prefixes, peer \in Peers :
           rib.destPathMap[q] # 0 =>
               rib.dests[rib.destPathMap[q]].pathOf[peer] \in {0, ribIn[peer][q]}
    /\ \A d \in LiveDests : rib.dests[d].loc = BestPath(rib, d)

\* The router's own connected routes survive everything the neighbours do
\* (spec 3 and 7): while the route manager reports a prefix as connected,
\* its Destination exists and holds connRoutesPath -- no neighbour's
\* withdraw, RemoveUpdatesFromNeighbor or the global reset
\* RemoveUpdatesFromAllNeighbors strips it or deletes the Destination
\* under it, and no neighbour's maximum-prefix limit rejects it.
ConnectedRoutesKept ==
    \A q \in Prefixes :
        ribIn[LocalSrc][q] # 0 =>
            /\ rib.destPathMap[q] # 0
            /\ rib.dests[rib.destPathMap[q]].pathOf[LocalSrc] = ribIn[LocalSrc][q]

=============================================================================
