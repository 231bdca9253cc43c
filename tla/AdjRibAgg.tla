------------------------------ MODULE AdjRibAgg ------------------------------
(***************************************************************************)
(* Route aggregation in the Adj-RIB (rib.go:473-623), on top of AdjRib.   *)
(* The policy engine calls AddRouteToAggregate when a route matching an    *)
(* aggregate's policy reaches LocRib and RemoveRouteFromAggregate when it  *)
(* leaves; both run on the server goroutine like every RIB operation.     *)
(*                                                                         *)
(* The aggregate is a Path the RIB itself originates (source LocalSrc,     *)
(* AggregatePathId) at the Destination of the aggregate prefix; aggOf[p]   *)
(* is the set of prefixes aggregate Path p summarises                      *)
(* (addPathToAggregate / removePathFromAggregate / isAggregatePathEmpty,  *)
(* Path methods outside this tree).  Its attributes are built from the    *)
(* contributing path's, so it takes that path's next hop and preference.  *)
(***************************************************************************)
EXTENDS AdjRib

CONSTANTS Aggregates   \* pairs <<prefix, aggregate prefix>> the policy matches

VARIABLE aggOf

aggVars == <<rib, resolvable, ribIn, cursor, aggOf>>

\* AddRouteToAggregate(ip, aggIP, srcIP, nil, bgpAgg): look up the route's
\* Destination (return if none) and its LocRibPath, which the code
\* dereferences -- the policy engine calls this only for a route in LocRib.
\* GetDest(aggIP, true) creates and lists the aggregate Destination; an
\* existing aggregate path gains the prefix, otherwise a new one is made
\* and added.  Its reachability is looked up, an unreachable one parked,
\* the aggregate Destination reselected, and a reachable next hop releases
\* the paths parked under it.
AddRouteToAggregate(q, aggQ) ==
    LET d    == rib.destPathMap[q]
        path == rib.paths[rib.dests[d].loc]
        r1   == GetDest(rib, aggQ)
        ad   == r1.destPathMap[aggQ]
        old  == r1.dests[ad].pathOf[LocalSrc]
        ap   == IF old # 0 THEN old ELSE Len(rib.paths) + 1
        ok   == Reachable(r1, path.nh)
        r2   == IF old # 0 THEN r1
                ELSE [r1 EXCEPT !.paths = Append(@, [peer |-> LocalSrc, nh |-> path.nh,
                                                     pref |-> path.pref, reach |-> ok]),
                                !.dests[ad].pathOf[LocalSrc] = ap]
        r3   == [GetReachabilityInfo(r2, path.nh) EXCEPT
                   !.paths[ap].reach = ok,
                   !.parked = IF ok THEN @ ELSE @ \cup {<<path.nh, ap>>}]
        r4   == SelectRouteForLocRib(r3, ad)
    IN /\ d # 0
       /\ rib.dests[d].loc # 0
       /\ rib.destPathMap[aggQ] = 0 => Len(rib.dests) < MaxDests
       /\ old = 0 => Len(rib.paths) < MaxPaths
       /\ IF ok THEN \E pick \in ReaddOrders(r4, path.nh) :
                        rib' = ProcessRoutesForReachableRoutes(r4, path.nh, pick)
          ELSE rib' = r4
       /\ aggOf' = [aggOf EXCEPT ![ap] = @ \cup {q}]
       /\ UNCHANGED <<resolvable, ribIn, cursor>>

\* RemoveRouteFromAggregate(ip, aggIP, srcIP, bgpAgg, ipDest): the route's
\* Destination, or ipDest once it has been deleted (return if neither),
\* whose LocRibPathRoute the code dereferences -- the route must still have
\* a LocRib path, as for AddRouteToAggregate, or the call panics; return
\* unless the aggregate Destination and its aggregate path exist.
\* The prefix leaves the aggregate path, which is removed once empty; the
\* aggregate Destination is reselected, and when that deletes its last
\* route, removeRoutesFromRouteList is called with dest -- the route's
\* Destination -- while the aggregate prefix is deleted from destPathMap.
RemoveRouteFromAggregate(q, aggQ, ipDest) ==
    LET d    == IF rib.destPathMap[q] # 0 THEN rib.destPathMap[q] ELSE ipDest
        ad   == rib.destPathMap[aggQ]
        ap   == rib.dests[ad].pathOf[LocalSrc]
        rest == aggOf[ap] \ {q}
        r1   == IF rest = {} THEN [rib EXCEPT !.dests[ad].pathOf[LocalSrc] = 0] ELSE rib
        r2   == SelectRouteForLocRib(r1, ad)
    IN /\ d # 0
       /\ rib.dests[d].loc # 0
       /\ ad # 0
       /\ ap # 0
       /\ rib' = IF SelectAction(r1, ad) = "Delete" /\ IsEmpty(r2, ad)
                 THEN [removeRoutesFromRouteList(r2, d) EXCEPT !.destPathMap[aggQ] = 0]
                 ELSE r2
       /\ aggOf' = [aggOf EXCEPT ![ap] = rest]
       /\ UNCHANGED <<resolvable, ribIn, cursor>>

AggInit ==
    /\ Init
    /\ aggOf = [p \in PathIds |-> {}]

\* The RIB operations, and the policy engine's aggregation calls; ipDest is
\* nil or a Destination that held the route's prefix.
AggNext ==
    \/ Next /\ UNCHANGED aggOf
    \/ \E qa \in Aggregates : AddRouteToAggregate(qa[1], qa[2])
    \/ \E qa \in Aggregates :
          \E ipDest \in {0} \cup {j \in DOMAIN rib.dests : rib.dests[j].prefix = qa[1]} :
              RemoveRouteFromAggregate(qa[1], qa[2], ipDest)

AggSpec == AggInit /\ [][AggNext]_aggVars

=============================================================================
