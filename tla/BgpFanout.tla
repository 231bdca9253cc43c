------------------------------ MODULE BgpFanout ------------------------------
(***************************************************************************)
(* The server coordinator's route fan-out (server.go:174-254 and the      *)
(* select cases that call it), composed with the peers' sessions.  Every  *)
(* RIB-affecting event -- a packet, a broken or restarted session, a      *)
(* global config change, a connected-route notification -- is handled by *)
(* the one server goroutine, which then sends the LocRib changes to every *)
(* peer in PeerMap under the split-horizon rules of                       *)
(* sendUpdateMsgToAllPeers; a session that reaches Established is sent the *)
(* whole LocRib by SendAllRoutesToPeer.                                    *)
(*                                                                         *)
(* The RIB is reduced to the sources holding a path per prefix, and       *)
(* selection to "lowest source first" (AdjRib models both in full).  The  *)
(* sessions are reduced to what the server sees of them: up between its   *)
(* PeerConnEst and PeerConnBroken, and the one UPDATE the session's FSM   *)
(* goroutine may be blocked sending on the unbuffered BGPPktSrc channel   *)
(* (fsm.go:955).  Peer.SendUpdate, Cleanup and Init are in peer.go, not in *)
(* the tree: a session that is not up is taken to drop what it is sent,   *)
(* Cleanup to stop the session and return without waiting for its FSM    *)
(* goroutine, and a peer's PeerConnEst to come from that same goroutine,  *)
(* so never while it is blocked in the send.                              *)
(*                                                                         *)
(*   rib[q]       the sources holding a path for prefix q                  *)
(*   up[a]        a's session is established, as the server was told      *)
(*   inFlight[a]  the UPDATE a's FSM goroutine is blocked sending, if any  *)
(*   adjOut[a][q] the source of the route for q last advertised to a,     *)
(*                None if none or withdrawn (history, not program state)   *)
(***************************************************************************)
EXTENDS Integers, FiniteSets, FiniteSetsExt

CONSTANTS
    Addrs,      \* neighbour addresses, all configured, as 1..n
    Internal,   \* the iBGP neighbours (PeerAS = local AS)
    RRClients,  \* the neighbours configured as route-reflector clients
    Prefixes    \* destination prefixes

ASSUME Addrs \subseteq Nat \ {0} /\ Internal \subseteq Addrs /\ RRClients \subseteq Addrs

VARIABLES rib, up, inFlight, adjOut

vars == <<rib, up, inFlight, adjOut>>

\* connRoutesPath's source, the router itself (its peer is nil).
Local == 0
Sources == Addrs \cup {Local}
None == -1
Updates == [prefix : Prefixes, withdraw : BOOLEAN]

\* The LocRib path's source for q, or None once the Destination is gone.
Best(r, q) == IF r[q] = {} THEN None ELSE Min(r[q])

\* sendUpdateMsgToAllPeers's test for sending a path from src to peer p:
\* a path with a peer is not sent from one internal peer to another unless
\* one of them is a route-reflector client, nor back to the peer it came
\* from; connRoutesPath, with no peer, goes to everyone.
SendsTo(src, p) ==
    \/ src = Local
    \/ /\ ~(src \in Internal /\ p \in Internal /\ src \notin RRClients /\ p \notin RRClients)
       /\ p # src

\* What the peers are told for prefix q after a RIB operation took its
\* LocRib path from source old to new (updateRibOutInfo and SendUpdate):
\* an Add or Replace sends the new path, with the new path's source; a
\* Delete sends a withdrawal with the operation's withdraw path, whose
\* source is wsrc.  Only peers whose session is up (u) receive anything.
SendUpdate(ao, u, q, old, new, wsrc) ==
    [p \in Addrs |->
        CASE new # None /\ new # old /\ u[p] /\ SendsTo(new, p) ->
                 [ao[p] EXCEPT ![q] = new]
          [] new = None /\ old # None /\ u[p] /\ SendsTo(wsrc, p) ->
                 [ao[p] EXCEPT ![q] = None]
          [] OTHER -> ao[p]]

\* The fan-out after rib became r2, for every prefix.
SendAll(ao, u, r1, r2, wsrc) ==
    FoldSet(LAMBDA q, acc : SendUpdate(acc, u, q, Best(r1, q), Best(r2, q), wsrc),
            ao, Prefixes)

\* ProcessRemoveNeighbor: RemoveUpdatesFromNeighbor and its fan-out, the
\* withdraw path carrying the neighbour's address.
StripPeer(r, a) == [q \in Prefixes |-> r[q] \ {a}]
NoneSent == [q \in Prefixes |-> None]

(***************************************************************************)
(* The sessions.                                                           *)
(***************************************************************************)
\* The FSM goroutine of an established session hands a received UPDATE to
\* the server (ProcessUpdateMessage): the send on BGPPktSrc blocks until
\* the server's select takes it.
SessionSendsUpdate(a, m) ==
    /\ up[a]
    /\ inFlight[a] = {}
    /\ inFlight' = [inFlight EXCEPT ![a] = {m}]
    /\ UNCHANGED <<rib, up, adjOut>>

(***************************************************************************)
(* The server's select cases.                                              *)
(***************************************************************************)
\* GetLocRib: the prefixes whose Destination has a LocRib path.
GetLocRib(r) == {q \in Prefixes : Best(r, q) # None}

\* SendAllRoutesToPeer: each LocRib path is sent to the peer with
\* peer.SendUpdate directly, without sendUpdateMsgToAllPeers's tests.
SendAllRoutesToPeer(ao, r, a) ==
    [ao EXCEPT ![a] = [q \in Prefixes |-> IF q \in GetLocRib(r) THEN Best(r, q) ELSE @[q]]]

\* case <-PeerConnEstCh: the session is up; SendAllRoutesToPeer.
PeerConnEst(a) ==
    /\ ~up[a]
    /\ inFlight[a] = {}
    /\ up' = [up EXCEPT ![a] = TRUE]
    /\ adjOut' = SendAllRoutesToPeer(adjOut, rib, a)
    /\ UNCHANGED <<rib, inFlight>>

\* case <-PeerConnBrokenCh: ProcessRemoveNeighbor.  The FSM left
\* Established, so it is not blocked in a send.
PeerConnBroken(a) ==
    /\ up[a]
    /\ inFlight[a] = {}
    /\ LET u == [up EXCEPT ![a] = FALSE]
       IN /\ up' = u
          /\ rib' = StripPeer(rib, a)
          /\ adjOut' = [SendAll(adjOut, u, rib, StripPeer(rib, a), a) EXCEPT ![a] = NoneSent]
    /\ UNCHANGED inFlight

\* case <-BGPPktSrc: ProcessUpdate.  The packet's source is in PeerMap,
\* so AdjRib.ProcessUpdate applies it -- whether or not the session that
\* read it still exists -- and SendUpdate fans the result out; the
\* withdraw path carries the sender.
ProcessUpdate(a) ==
    LET m  == CHOOSE m \in inFlight[a] : TRUE
        r2 == [rib EXCEPT ![m.prefix] = IF m.withdraw THEN @ \ {a} ELSE @ \cup {a}]
    IN /\ inFlight[a] # {}
       /\ rib' = r2
       /\ adjOut' = SendAll(adjOut, up, rib, r2, a)
       /\ inFlight' = [inFlight EXCEPT ![a] = {}]
       /\ UNCHANGED up

\* case <-AddPeerCh for a configured address: Cleanup the session,
\* ProcessRemoveNeighbor, UpdateNeighborConf, Init (a new session starts).
RestartPeer(a) ==
    LET u == [up EXCEPT ![a] = FALSE]
    IN /\ up' = u
       /\ rib' = StripPeer(rib, a)
       /\ adjOut' = [SendAll(adjOut, u, rib, StripPeer(rib, a), a) EXCEPT ![a] = NoneSent]
       /\ UNCHANGED inFlight

\* case <-GlobalConfigCh: Cleanup every peer, yield, strip every
\* neighbour's path (RemoveUpdatesFromAllNeighbors, whose changes are not
\* sent), Init every peer.  A packet already in flight stays in flight.
GlobalConfig ==
    /\ up' = [a \in Addrs |-> FALSE]
    /\ rib' = [q \in Prefixes |-> rib[q] \cap {Local}]
    /\ adjOut' = [a \in Addrs |-> NoneSent]
    /\ UNCHANGED inFlight

\* case <-ribSubSocketCh: handleRibUpdates -> ProcessConnectedRoutes, one
\* route created or deleted; connRoutesPath has no peer, so its changes
\* go to every peer.
ProcessConnectedRoutes(q, created) ==
    LET r2 == [rib EXCEPT ![q] = IF created THEN @ \cup {Local} ELSE @ \ {Local}]
    IN /\ rib' = r2
       /\ adjOut' = SendAll(adjOut, up, rib, r2, Local)
       /\ UNCHANGED <<up, inFlight>>

Init ==
    /\ rib = [q \in Prefixes |-> {}]
    /\ up = [a \in Addrs |-> FALSE]
    /\ inFlight = [a \in Addrs |-> {}]
    /\ adjOut = [a \in Addrs |-> NoneSent]

Next ==
    \/ \E a \in Addrs, m \in Updates : SessionSendsUpdate(a, m)
    \/ \E a \in Addrs : PeerConnEst(a) \/ PeerConnBroken(a) \/ ProcessUpdate(a) \/ RestartPeer(a)
    \/ GlobalConfig
    \/ \E q \in Prefixes, created \in BOOLEAN : ProcessConnectedRoutes(q, created)

Spec == Init /\ [][Next]_vars

TypeOK ==
    /\ rib \in [Prefixes -> SUBSET Sources]
    /\ up \in [Addrs -> BOOLEAN]
    /\ \A a \in Addrs : inFlight[a] \subseteq Updates /\ Cardinality(inFlight[a]) <= 1
    /\ adjOut \in [Addrs -> [Prefixes -> Sources \cup {None}]]

\* Split horizon holds for everything a peer has been sent (spec 4.4):
\* no peer is advertised a route it announced itself, and no route learned
\* from an internal peer is advertised to another internal peer unless one
\* of the two is a route-reflector client -- whether it was sent by the
\* fan-out after a RIB event or by SendAllRoutesToPeer when the session
\* came up.
AdvertisedOnlyEligible ==
    \A p \in Addrs, q \in Prefixes :
        adjOut[p][q] # None => SendsTo(adjOut[p][q], p)

=============================================================================
