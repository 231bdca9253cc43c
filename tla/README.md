# TLA+ models of the opx-flxl3 BGP session FSM, Adj-RIB and server coordinator

This directory holds TLA+ specifications of the parts of `src/` that have
concurrent or stateful behaviour worth model checking, the TLC
configurations that check them, and `PROJECT.json`. `PROJECT.json` records:

- the components;
- the runs;
- the mutants;
- the map from each TLA+ definition to the Go lines it models;
- the findings;
- the hazards.

## 1. Inventory of the system

| Part | Source | State | Operations | Status |
|------|--------|-------|------------|--------|
| BGP peer FSM | `src/bgp/server/fsm.go` | `FSM` struct (683-726): current state, `peerConn`, `connInProgress`, retry counter, hold/keepalive/idle-hold times, four `*time.Timer`s | `StartFSM` select loop (768-807) receiving dial results, inbound connections, packets, operator events, timer expiries; six `processEvent` handlers; `enter`/`leave`; timer/counter setters; `ConnectToPeer`/`Connect` dialer goroutines (1054-1109) | modelled (`BgpFsm`) |
| FSM manager accept/reject | (not in tree) | accept flag | `AcceptPeerConn`, `RejectPeerConn` | from spec |
| Adj-RIB | `src/bgp/rib/rib.go` | `AdjRib` (62-74): `destPathMap`, `reachabilityMap`, `unreachablePaths`, `routeList`, `routeListDirty`, `activeGet`, reset timer; neighbour prefix counters | `ProcessUpdate`, `ProcessRoutes`, `ProcessRoutesForReachableRoutes`, `GetReachabilityInfo`, `GetDest`, `RemoveUpdatesFromNeighbor`, `RemoveUpdatesFromAllNeighbors`, `ProcessConnectedRoutes`, route-list add/remove/reset, `BulkGetBGPRoutes` | partly modelled (`AdjRib`) |
| Route aggregation | `rib.go` 473-623 | aggregate Destinations and their aggregate paths | `AddRouteToAggregate`, `RemoveRouteFromAggregate` | modelled (`AdjRibAgg`) |
| Destination / Path | (not in tree) | paths per peer, LocRib path | `AddOrUpdatePath`, `RemovePath`, `SelectRouteForLocRib` | from spec, reduced |
| Server coordinator | `src/bgp/server/server.go` | `PeerMap`, `Neighbors` (under `NeighborMutex`), peer groups | `StartServer` select loop, UPDATE fan-out, `BulkGetBGPNeighbors` | partly modelled (`BgpServer`, `BgpFanout`); `AcceptConn` not modelled |
| Policy packet utils, `main.go` | `src/bgp/policy`, `src/bgp/main.go` | none | pure transformation / start-up wiring | not modelled |
| VRRP, OSPF, OSPFv2, VXLAN | `src/vrrp`, `src/ospf*`, `src/tunnel` | config records | CRUD, packet encoding, empty interface methods | not modelled: their state machines are not in the tree |

### How the parts interact

- Each peer runs one FSM goroutine, and one `ConnectToPeer` goroutine per dial attempt.
- The two meet over unbuffered channels (`outConnCh`, `outConnErrCh`, `stopConnCh`), so every send is a rendezvous.
- The Go runtime delivers timer expiries through `t.C`.
  - `Stop` and `Reset` do not drain a value already sent.
- An Established FSM hands each UPDATE to the server goroutine (`BGPPktSrc`). The server calls `AdjRib.ProcessUpdate` and then fans out the result.
- When a peer goes down, or is removed or reconfigured, the server calls `RemoveUpdatesFromNeighbor`.
- The server's select loop is the only writer of `PeerMap` and `Neighbors`. A management RPC goroutine pages through `Neighbors` with `BulkGetBGPNeighbors`, under the read lock, resuming from the index the previous page returned.
- A management RPC pages through the route list with `BulkGetBGPRoutes`.
  - An `AfterFunc` timer compacts the list once reads stop.

### Hard behaviours

- **FSM:**
  - the random choice among ready select cases;
  - the dialer racing a stop request;
  - stale timer expiries;
  - hold-time edge values: 0, 1, 2 and an inherited value;
  - the idle-hold backoff table.
- **RIB:**
  - paths parked under an unresolved next hop and re-added later;
  - the reachability cache, which is never invalidated;
  - max-prefix accounting;
  - route-list holes left while a paged read is active, and compaction between pages.

## 2. Modules

### `BgpFsm.tla`: one peer's FSM, its timers and its dialer

The state is a single record `s`:

- the FSM fields: `state`, `retry`, `holdTime`, `keepAliveTime`, `idleHoldTime`, `peerConn`, `connInProgress`;
- the FSMManager's `accepting` flag;
- `timer[t]`, which holds `armed`, `fired` and `stale` for each of the four Go timers:
  - `fired` means a value waits in `t.C`;
  - `stale` means that value was sent before the FSM last stopped or reset the timer;
- the dialer goroutine (`dialer`, `dialStop`);
- `blocked` (the FSM goroutine is stuck on a send) and `crashed` (a handler panicked).

Each Go helper is an operator from record to record, named as in the code. Examples are `StartHoldTimer`, `SetHoldTime`, `ClearPeerConn`, `StopConnToPeer` and `ApplyAutomaticStart`.

Each `processEvent` is one operator (`IdleProcess` … `EstablishedProcess`). It calls the helpers in the code's order. `ChangeState` runs `leave` and `enter`, and Idle's `enter` feeds the automatic-start event back into the Idle handler, as the code does.

The actions are the cases of the `StartFSM` select:

- `ReceiveOutConn`, `ReceiveOutConnErr`, `ReceiveInConn`, `ReceivePacket`, `ReceiveOperatorEvent` and `ReceiveTimer(t)`;
- the runtime's `TimerExpires(t)`;
- the dialer's `DialConnected` and `DialFailed`.

A DialTimeout that times out only redials, so it adds no state.

Packets are abstracted to the event `ProcessPacket` raises. An OPEN carries a hold time from `PeerHoldTimes`.

### `AdjRib.tla`: the Adj-RIB

`rib` mirrors the `AdjRib` struct, with pointers as indices:

- `paths` and `dests` are heaps; index 0 is nil.
- `destPathMap` maps a prefix to a Destination.
- `reachabilityMap` is the cache.
- `parked` and `pending` are the keys of the nested `unreachablePaths` map.
- `routeList` uses 0 for a nil hole.
- `dirty`, `activeGet` and `timerArmed` are the list's flags and timer.
- `prefixCount` holds each neighbour's counter.

The loops of the code are written with `FoldSet`:

- `WithdrawPrefix` and `AddPrefix` are one iteration each of the two loops of `ProcessRoutes`.
- `ProcessRoutesForReachableRoutes` re-adds every parked path in an order chosen by `\E`, because Go map iteration order is random.
- `CompactFrom` (RECURSIVE) is the loop of `ResetRouteList`.
- `ScanEnd` (RECURSIVE) is the loop of `BulkGetBGPRoutes`.

`RemoveUpdatesFromNeighbor` and `RemoveUpdatesFromAllNeighbors` (the server's global config change) are one action each. The second strips every neighbour's path and leaves the prefix counters alone, as the code does.

The environment is modelled as two things:

- `resolvable`: the next hops RIBd can resolve;
- `cursor`: the index the bulk-read client resumes from.

The history variable `ribIn` records what each peer currently announces. It is used only by a property.

Best-path selection lives in `Destination`, which is not in the tree. It is modelled from spec.md and reduced to this: highest preference among reachable paths, then lowest peer.

Paths the RIB originates itself sit under the source `LocalSrc` (0, the router's `srcIP`) next to the neighbours' paths. These are connected routes and aggregates. `RemoveUpdatesFromAllNeighbors` leaves them in place.

`ProcessConnectedRoutes` hands the server's single `connRoutesPath` to `ProcessRoutes`. `StartServer` builds that path with next hop `RouterId` and no `NeighborConf`. The model puts it on the heap the first time it is used, with one fixed preference. `AddPrefix` and `WithdrawPrefix` count against a limit only for a path with a `NeighborConf`, as at rib.go:268 and 230.

The model takes the connected path as reachable. `Path.IsReachable` is not in the tree. Were the path unreachable, `ProcessRoutes` would write into an `unreachablePaths[nextHop]` map that `ProcessConnectedRoutes` never creates, and Go panics on that write.

The server passes either installed routes or withdrawn routes, never both. `ribIn[LocalSrc]` records which prefixes the route manager currently reports as connected.

**Two versions of the RIB.** `server.go` calls an older, server-package `AdjRib` that is not in the tree; its `ProcessUpdate` returns three values. `rib.go` is the newer `rib` package. `AdjRib.Next` is the set of calls `server.go` makes (server.go:207-240), and its actions translate `rib.go`. Likewise `BgpFanout`'s `GetLocRib` and `SendAll` translate `rib.go`'s `GetLocRib` and `updateRibOutInfo`. The two versions agree on what these operations do to the RIB and on the add/withdraw sets they return.

### `AdjRibAgg.tla`: route aggregation

This module `EXTENDS AdjRib`. It adds one variable, `aggOf[p]`: the prefixes that aggregate Path `p` summarises. It also adds the two entry points the policy engine calls, both running on the server goroutine:

- **`AddRouteToAggregate`:**
  1. look up the route's Destination and its LocRib path;
  2. `GetDest(aggIP, true)`;
  3. extend the aggregate path, or create one with the contributor's next hop and preference;
  4. look up reachability and park the path if unreachable;
  5. reselect;
  6. release the paths parked under a reachable next hop.
- **`RemoveRouteFromAggregate`:**
  1. find the route's Destination, or the `ipDest` the caller passes once it is deleted. The code dereferences its `LocRibPathRoute` (rib.go:497), so the action requires a LocRib path, the same contract as for `AddRouteToAggregate`; without one the call panics;
  2. drop the prefix, and drop the aggregate path once it is empty;
  3. reselect;
  4. when that deletes the aggregate's last route, call `removeRoutesFromRouteList` on `dest` and delete `aggIP` from `destPathMap`, as the code does.

`AggNext` is AdjRib's `Next` (with `aggOf` unchanged) plus these two actions, for each configured `<<prefix, aggregate>>` pair.

The aggregate path is keyed by `(srcIP, AggregatePathId = 0)`, and the model keeps it under `LocalSrc`, like connected routes. AdjRib's constant `ConnPrefixes` names the prefixes the route manager may report as connected. `MC_AdjRibAgg` sets it to `{a}`, so that no connected route ever sits at the aggregate prefix `g` and the two paths are never confused. `MC_AdjRib` lets every prefix be connected.

### `BgpSession.tla`: what a session promises

This is an abstract specification with two variables: `phase` (Idle, Connecting, OpenSent, OpenConfirm, Established) and `hold`.

- A session reaches Established only through a TCP connection, then the peer's OPEN, then its KEEPALIVE.
- Any phase may drop back to Idle or to Connecting.
- The hold time is reset to the configured value when TCP comes up. It only ever changes to a lower value advertised in the peer's OPEN.

`BgpFsm` instantiates it as `Session == INSTANCE BgpSession WITH phase <- SessionPhase, hold <- s.holdTime`. `SessionPhase` merges Connect and Active into Connecting. The `fsm_safety` run checks `SessionRefinement == Session!Spec` as a PROPERTY.

### `BgpServer.tla`: the server coordinator

Peers are objects: `peers[p]` is the p-th `Peer` that `NewPeer` allocated (its address and group).

- `peerMap` maps an address to a peer; 0 means absent.
- `neighbors` is `server.Neighbors` in list order.
- `groups` holds the keys of `BgpConfig.PeerGroups`.
- The RIB is reduced to `ribFrom`: per address, how many prefixes it holds a path for. `AdjRib` models the RIB itself.
- `cursor` is the index the RPC client of `BulkGetBGPNeighbors` passes to its next page.
- `crashed` is the set of handlers that panicked: `PeerCommand` or `BulkGetBGPNeighbors`.
- `crashed` means the loop or the RPC handler panicked.

There is one action per select case that changes server state: `GlobalConfig`, `AddPeer`, `RemPeer`, `AddPeerGroup`, `RemPeerGroup`, `PeerCommand`, `PeerConnBroken` and `ProcessUpdate` (the `BGPPktSrc` case). There is also one for the RPC handler, `BulkGetBGPNeighbors`.

The helpers keep the code's names:

- `removePeerFromList` (swap-remove);
- `addPeerToList`;
- `UpdatePeerGroupInPeers`, with `GroupAddrs` for `StopPeersByGroup`;
- `ProcessRemoveNeighbor`.

`Peer.Cleanup`, `Init`, `Command` and `AcceptConn` live in peer.go, which is not in the tree. The session side is `BgpFsm`'s business, so these calls change nothing here. An `AddPeer` for an existing address uses the neighbour's own address as the old one, because a neighbour's key does not change.

### `BgpFanout.tla`: the fan-out composed with the sessions

This module composes the server's RIB-affecting select cases with what the server sees of each session. It models the UPDATE fan-out of `sendUpdateMsgToAllPeers` and `SendUpdate` (server.go:174-205), and `SendAllRoutesToPeer` (server.go:243-250).

- `rib[q]` is the set of sources holding a path for prefix `q`; 0 (`Local`) is `connRoutesPath`. LocRib selection is reduced to "lowest source" (`Best`, from the spec).
- `up[a]` is true between the server's `PeerConnEst` and `PeerConnBroken` for `a`.
- `inFlight[a]` is the UPDATE that `a`'s FSM goroutine is blocked sending on the unbuffered `BGPPktSrc` (fsm.go:955), if any.
- `adjOut[a][q]` records the source of the route last advertised to `a` for `q`. It is history for the property, not program state.

Actions: `SessionSendsUpdate`, and one per select case: `PeerConnEst`, `PeerConnBroken`, `ProcessUpdate`, `RestartPeer` (`AddPeerCh` for a configured address), `GlobalConfig`, and `ProcessConnectedRoutes` (via `handleRibUpdates`).

`SendUpdate` applies the split-horizon test `SendsTo`:
- a path with a peer is not sent from one internal peer to another unless one end is a route-reflector client;
- a path is never sent back to its own source;
- `connRoutesPath` goes to everyone.

`Peer.SendUpdate`, `Cleanup` and `Init` are in peer.go, so three things are assumed:
- a session that is not up drops what it is sent;
- `Cleanup` returns without waiting for the FSM goroutine, so a blocked send completes later;
- `PeerConnEst` comes from the FSM goroutine, so never while it is blocked in the send.

The MC modules (`MC_BgpFsm`, `MC_AdjRib`, `MC_BgpServer`, `MC_AdjRibAgg`, `MC_BgpFanout`) fix the constants for TLC.

## 3. Runs

| Run | cfg | Expect | What it shows |
|-----|-----|--------|---------------|
| fsm_safety | `MC_BgpFsm.cfg` | pass | Every interleaving of dial results, inbound connections, packets (OPEN hold times 0, 2, 3, 12), operator events and timer expiries, including stale ones, keeps `peerConn` tied to OpenSent/OpenConfirm/Established (`ConnBoundToSession`). A live session with a non-zero hold time always has its hold timer running or fired (`HoldTimerGuardsSession`). The FSM implements `BgpSession` (`SessionRefinement`). The run uses `FairSpec`: with weak fairness on timers, the select's channel receives and the dialer, OpenSent is always left (`OpenSentBounded`). |
| fsm_goroutine_lives | `MC_BgpFsm_SessionGoroutineLives.cfg` | violation | `SessionGoroutineLives`: `StopConnToPeer` blocks forever when the dialer has already connected and waits to send on `outConnCh` (fsm.go:1050; this is the trace TLC reports). A wrong type assertion at fsm.go:509 and 636 panics on a header, OPEN or UPDATE error. |
| fsm_hold_time | `MC_BgpFsm_HoldTimeDisciplined.cfg` | violation | `HoldTimeDisciplined`: a peer hold time of 1 or 2 is adopted without validation and the keepalive interval becomes 0 (fsm.go:942); a negotiated hold time of 0 leaves the hold timer armed (fsm.go:895). |
| fsm_stale_timer | `MC_BgpFsm_StaleExpiryHarmless.cfg` | violation | An idle-hold expiry that is already in the channel aborts a later Connect. |
| fsm_idle_restart | `MC_BgpFsm_IdleRestarts.cfg` | violation | The backoff goes 5 → 10 → 30 → 0 (30 has no table entry), and the FSM stays in Idle forever. |
| rib_routelist | `MC_AdjRib.cfg` | pass | Through UPDATEs, neighbour removal, resolution, paged reads and the reset timer, every listed Destination is live and its `routeListIdx` is right, and every live Destination is listed once (`RouteListConsistent`). Connected-route changes are interleaved too. Nothing a neighbour does strips a connected route the route manager still reports, or deletes its Destination: not a withdraw, not `RemoveUpdatesFromNeighbor`, not the global `RemoveUpdatesFromAllNeighbors` (`ConnectedRoutesKept`). |
| rib_locrib | `MC_AdjRib_LocRibReflectsAnnouncements.cfg` | violation | `LocRibReflectsAnnouncements`: `unreachablePaths` is never drained, so a later UPDATE with the same next hop puts the old path back over the peer's newer announcement (rib.go:310). An unreachable replacement also skips reselection (rib.go:284). |
| rib_aggregate | `MC_AdjRibAgg_RouteListConsistent.cfg` | violation | `RouteListConsistent` under aggregation. Peer 1 announces `a`. `AddRouteToAggregate(a, g)` creates `g`'s Destination and aggregate path. `RemoveRouteFromAggregate(a, g)` is then called while `a` is still in LocRib. The aggregate's last route goes, and `RemoveRouteFromAggregate` deletes `g` from `destPathMap` but removes `a`'s Destination from `routeList` (rib.go:527). The result is `routeList = <<g's Destination>>`, deleted but still listed, while `a` is live and not listed. |
| server_table | `MC_BgpServer.cfg` | pass | Any sequence of peer and peer-group configuration, global config changes, packets, connection failures, commands and paged reads keeps `Neighbors` and `PeerMap` describing the same peers, each listed once under its own address (`NeighborsMatchPeerMap`). The RIB never holds paths from an unconfigured address (`RoutesOnlyFromConfiguredPeers`). |
| server_panic | `MC_BgpServer_ServerNoPanic.cfg` | violation | `ServerNoPanic`: a command for an unknown address calls `Command` on a nil peer (server.go:454, no `break`). The server goroutine panics at the first step. |
| fanout_split_horizon | `MC_BgpFanout_AdvertisedOnlyEligible.cfg` | violation | `AdvertisedOnlyEligible`: `SendAllRoutesToPeer` sends internal peer 1's route to internal peer 2 when 2's session comes up, skipping the split-horizon tests of the fan-out (server.go:247; 5 states). The trace TLC reports is this one. A second way to break the property, an UPDATE still in flight when `AddPeer` restarts its peer, is listed as a hazard (server.go:354); the run's shortest trace does not show it. |
| server_paging_panic | `MC_BgpServer_NeighborPagingNoPanic.cfg` | violation | `NeighborPagingNoPanic`: two neighbours are added, the client reads one page (index 1), and both neighbours are removed. The next page computes the count `0 - 1` and `make()` panics the RPC handler (server.go:516; 7 states). spec.md 7 says no failure is process-fatal. |

Each property of a passing run has a mutant in `PROJECT.json`: a plausible bug in the mapped code that TLC catches with that property. The mutants are:

- the OPEN hold time adopted unconditionally;
- the connection kept on a TCP failure in OpenSent;
- the hold timer started before the hold time is set;
- the hold-timer expiry in OpenSent re-arming the timer instead of aborting (caught by `OpenSentBounded`);
- a path parked under the wrong id;
- the swap-remove that does not re-index the moved Destination;
- the hold time not reset when TCP comes up (caught only by `SessionRefinement`);
- `removePeerFromList` without the reslice;
- `AddPeer` without the "already exists" refusal;
- `RemPeer` without `ProcessRemoveNeighbor`;
- the global reset that strips the RIB's own paths too (`ConnectedRoutesKept`).

### Bounds

**BgpFsm.**
- Hold time 9 and idle hold 5. These reach every branch of `SetHoldTime` (1-2 rejected) and the whole backoff table, 5 → 10 → 30 → missing.
- Peer hold times {0, 2, 3, 12}:
  - 0 disables the timer;
  - 2 is the invalid value;
  - 3 is the smallest valid value;
  - 12 is larger than the local value, so it is not adopted.
- The safety run also checks `OpenSentBounded` under `FairSpec`. With these hold times the temporal check takes under a minute.
- The state space is finite without a constraint. `retry` is the only counter, and the code keeps it small: every start from Idle resets it to 0 (`SetConnectRetryCounter(0)`), and every abort returns to Idle.

**AdjRib.**
- Two peers, two prefixes and one next hop. The LocRib run uses two next hops, because with one the cache makes a resolved next hop reachable for good.
- Two preferences in the LocRib run. The route-list run uses one: it asks which paths a Destination holds, not which one is best, and one preference keeps it under two minutes.
- `MaxPrefixes` = 1, `MaxPaths` = 3 UPDATEs, `MaxDests` = 3 and `PageSize` = 1.
- Three UPDATEs are enough for:
  - park, resolve, re-announce (stale re-add);
  - the max-prefix rejection;
  - a removal while a paged read is active, leaving a hole, followed by compaction.

**BgpServer.**
- Three addresses, one group and three `Peer` objects, so that an address can be removed and re-added with a fresh object.
- Pages of one neighbour, and two prefixes per neighbour.
- Three peers give the smallest list in which a swap-remove moves a neighbour behind the client's index, and in which the list can shrink below that index.

**BgpFanout.**
- Three addresses: 1 and 2 are internal and not route-reflector clients, and 3 is external. There are two prefixes.
- This is the smallest set with an internal-to-internal pair and an external peer that may be sent anything.

**AdjRibAgg.**
- One peer, one next hop, one preference, and prefixes `a` and `g` with `<<a, g>>` configured.
- At most 3 Paths and 3 Destinations. That is the route, the aggregate, and one re-announcement.

### Fairness

- Go's runtime fires an armed timer, and the select eventually takes a ready case: it chooses uniformly at random, which gives weak fairness per case.
- A dialer goroutine eventually gets its dial result, since `DialTimeout` has a timeout.
- The peer (packets), the operator and inbound connections get no fairness: they may stay silent.

`CHECK_DEADLOCK FALSE` is set on the FSM and server runs because a panicked server really stops, and because a blocked or panicked FSM really stops, and a stopped FSM with no inbound activity really waits. The RIB run checks deadlock.

## 4. Not modelled, and the plan

Modelled so far:
- the whole FSM with its dialer, refining an abstract session;
- the RIB's update, connected-route, reachability, neighbour-removal and route-list paths, and route aggregation;
- the server's peer table, peer groups, packet and failure handling, and neighbour paging;
- the server's fan-out with split horizon, and `SendAllRoutesToPeer`, composed with the sessions' phases and the blocking packet send.

All 12 run slots are used. New questions must either fit an existing passing run as another property, or replace a run.

Planned next:

1. **`RouteListPaging`:** the bulk-read client and compaction as separate steps, for the `activeGet` data race (rib.go:696).

Not modelled, with the reason:
- The nil `PeerGroup` dereference that `StopPeersByGroup` may hit (server.go:274). It depends on peer.go, which is not in the tree.
- A deadlock between the FSM goroutine blocked at fsm.go:955 and a server waiting on it. That could happen only if `Peer.Cleanup` (peer.go) waited for the goroutine. `BgpFanout` assumes it does not, and checks the late UPDATE instead.
- No withdrawal is sent to a peer when a prefix's best path changes to one that peer may not be sent (server.go:186). The peer keeps the earlier route. spec.md does not state the duty to withdraw, so no property is checked.
- `AddRouteToAggregate`'s dereference of a nil `LocRibPath` (rib.go:553). Its caller is the policy engine, which is not in the tree, so the model keeps to the caller's contract: the route is in LocRib.
- Which source address the policy engine passes for an aggregate. If it is the router id, the aggregate path (path id 0) and a connected path at the same prefix share one key of the Destination. The aggregation run keeps connected routes off the aggregate prefix, so this case is not explored.
- An `AddPeer` whose old and new neighbour addresses differ. The peer stays in `PeerMap` under the old key (server.go:351-355). The callers that build the update are outside the tree, so the model keeps a neighbour's address fixed.
- A paged neighbour read that skips a neighbour swapped behind the client's index by a removal (server.go:263). spec.md 8 promises a complete pass only with no concurrent mutation, so no property claims it. The panic the same interleaving can cause is checked (`server_paging_panic`).
- `ProcessRoutes` handles the announced prefixes in one fixed order (`FoldSet`), where the code follows the UPDATE's NLRI order. With `MaxPrefixes` = 1, only one choice of the accepted prefix is explored.
- `AcceptConn`. Its effect is inside peer.go.
- Packet encoding and policy rewriting, which are pure data transformation.
- VRRP, OSPF and VXLAN, whose state machines are not in this tree.
- Logging and the state DB.
- Message contents beyond the event they raise and the OPEN hold time.
