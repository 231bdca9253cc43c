------------------------------- MODULE BgpFsm -------------------------------
(***************************************************************************)
(* The per-peer BGP session of src/bgp/server/fsm.go: the RFC4271 state   *)
(* machine run by FSM.StartFSM, the four Go timers it selects on, and the  *)
(* ConnectToPeer goroutine that InitiateConnToPeer spawns.                 *)
(*                                                                         *)
(* One record variable s holds everything the session goroutine and its   *)
(* connect goroutine share:                                                *)
(*   state, retry, holdTime, keepAliveTime, idleHoldTime  FSM fields       *)
(*   peerConn        fsm.peerConn # nil                                    *)
(*   connInProgress  fsm.connInProgress                                    *)
(*   accepting       the FSMManager accepts inbound connections           *)
(*   timer[t]        a Go *time.Timer: armed (will fire), fired (a value   *)
(*                   waits in t.C), stale (that value was sent before the  *)
(*                   FSM last stopped or reset t)                          *)
(*   dialer          the ConnectToPeer goroutine: "none", "dialing" (in    *)
(*                   its select), "sendConn"/"sendErr" (blocked sending    *)
(*                   its result to the FSM); dialStop is its stopConn      *)
(*   blocked         the session goroutine is stuck in stopConnCh <- true  *)
(*   crashed         a handler panicked, which ends the process            *)
(* Handlers are pure operators from one such record to the next; the FSM   *)
(* runs one handler to completion per received channel value.              *)
(***************************************************************************)
EXTENDS Naturals, FiniteSets

CONSTANTS
    BGPHoldTimeDefault,      \* fsm.go:17
    BGPIdleHoldTimeDefault,  \* fsm.go:18
    PeerHoldTimes,           \* hold times a peer may put in its OPEN
    AutoStart,               \* fsm.autoStart, set by NewFSM
    PassiveTcpEst,           \* fsm.passiveTcpEst
    DampPeerOscl             \* fsm.dampPeerOscl

ASSUME PeerHoldTimes \subseteq Nat
ASSUME {AutoStart, PassiveTcpEst, DampPeerOscl} \subseteq BOOLEAN

VARIABLE s

vars == <<s>>

States == {"Idle", "Connect", "Active", "OpenSent", "OpenConfirm", "Established"}
Timers == {"ConnectRetry", "Hold", "KeepAlive", "IdleHold"}
DialerStates == {"none", "dialing", "sendConn", "sendErr"}

\* The IdleHoldTimeInterval map of fsm.go:20-29. A Go map yields the zero
\* value for a missing key.
IdleHoldTimeInterval ==
    [k \in {0, 5, 10, 60, 120, 180, 300, 500} |->
        CASE k = 0 -> 0 [] k = 5 -> 10 [] k = 10 -> 30 [] k = 60 -> 120
          [] k = 120 -> 180 [] k = 180 -> 300 [] k = 300 -> 500 [] k = 500 -> 0]
NextIdleHoldTime(k) ==
    IF k \in DOMAIN IdleHoldTimeInterval THEN IdleHoldTimeInterval[k] ELSE 0

\* The channel value each timer delivers to StartFSM's select.
TimerEvent == [t \in Timers |->
    CASE t = "ConnectRetry" -> "ConnRetryTimerExp"
      [] t = "Hold"         -> "HoldTimerExp"
      [] t = "KeepAlive"    -> "KeepAliveTimerExp"
      [] t = "IdleHold"     -> "IdleHoldTimerExp"]

(***************************************************************************)
(* Timer helpers.  Go's Timer.Stop and Timer.Reset do not drain t.C, so a  *)
(* value already sent stays there and becomes stale.                       *)
(***************************************************************************)
StopTimer(x, t) ==
    [x EXCEPT !.timer[t] = [armed |-> FALSE, fired |-> @.fired, stale |-> @.fired]]
ResetTimer(x, t) ==
    [x EXCEPT !.timer[t] = [armed |-> TRUE, fired |-> @.fired, stale |-> @.fired]]

StartConnectRetryTimer(x) == ResetTimer(x, "ConnectRetry")
StopConnectRetryTimer(x) == StopTimer(x, "ConnectRetry")
StartHoldTimer(x) == IF x.holdTime # 0 THEN ResetTimer(x, "Hold") ELSE x
StopHoldTimer(x) == StopTimer(x, "Hold")
StartKeepAliveTimer(x) == IF x.keepAliveTime # 0 THEN ResetTimer(x, "KeepAlive") ELSE x
StopKeepAliveTimer(x) == StopTimer(x, "KeepAlive")
StartIdleHoldTimer(x) ==
    IF x.idleHoldTime > 0 /\ x.idleHoldTime <= 300 THEN ResetTimer(x, "IdleHold") ELSE x
StopIdleHoldTimer(x) == StopTimer(x, "IdleHold")

(***************************************************************************)
(* Field setters and connection helpers of the FSM.                        *)
(***************************************************************************)
SetHoldTime(x, h) ==
    IF h > 0 /\ h < 3 THEN x
    ELSE [x EXCEPT !.holdTime = h, !.keepAliveTime = h \div 3]
SetConnectRetryCounter(x, v) == [x EXCEPT !.retry = v]
IncrConnectRetryCounter(x) == [x EXCEPT !.retry = @ + 1]
SetIdleHoldTime(x, v) == [x EXCEPT !.idleHoldTime = v]

\* Writes on fsm.peerConn.conn dereference peerConn: with none, the
\* goroutine panics.
WriteToPeer(x) == IF x.peerConn THEN x ELSE [x EXCEPT !.crashed = TRUE]
sendOpenMessage(x) == WriteToPeer(x)
sendKeepAliveMessage(x) == StartKeepAliveTimer(WriteToPeer(x))
SendNotificationMessage(x) == WriteToPeer(x)

\* Fault variant: the peer's hold time adopted without the "lower" test.
ProcessOpenMessageUnchecked(x, h) ==
    [x EXCEPT !.holdTime = h, !.keepAliveTime = h \div 3]

\* ProcessOpenMessage: the hold time becomes the peer's when lower; the
\* peer type and BGP identifier it records are not modelled.
ProcessOpenMessage(x, h) ==
    IF h < x.holdTime THEN [x EXCEPT !.holdTime = h, !.keepAliveTime = h \div 3]
    ELSE x

SetPeerConn(x) == IF x.peerConn THEN x ELSE [x EXCEPT !.peerConn = TRUE]
ClearPeerConn(x) ==
    IF ~x.peerConn THEN x
    ELSE [StopHoldTimer(StopKeepAliveTimer(x)) EXCEPT !.peerConn = FALSE]
AcceptPeerConn(x) == [x EXCEPT !.accepting = TRUE]
RejectPeerConn(x) == [x EXCEPT !.accepting = FALSE]

InitiateConnToPeer(x) ==
    IF x.connInProgress THEN x
    ELSE [x EXCEPT !.connInProgress = TRUE, !.dialer = "dialing", !.dialStop = FALSE]

\* stopConnCh is unbuffered: the send completes only if ConnectToPeer is
\* waiting in its select; otherwise the session goroutine blocks for good.
StopConnToPeer(x) ==
    IF ~x.connInProgress THEN x
    ELSE IF x.dialer = "dialing" THEN [x EXCEPT !.dialStop = TRUE]
    ELSE [x EXCEPT !.blocked = TRUE]

\* The teardown every state performs on its way back to Idle.
AbortSession(x) == StopConnToPeer(ClearPeerConn(StopConnectRetryTimer(x)))

(***************************************************************************)
(* ChangeState: leave the old state, enter the new one.  Only Idle has a   *)
(* leave action; Idle and Established have enter actions.  Idle's enter    *)
(* runs ApplyAutomaticStart, which feeds an automatic start event to the   *)
(* Idle handler; that handler can only move to Connect or Active, whose    *)
(* enter does nothing, so the recursion ends there.                        *)
(***************************************************************************)
LeaveIdleFor(x, st) == [StopIdleHoldTimer(x) EXCEPT !.state = st]

\* Idle.processEvent for the events that start the session.
IdleStart(x) ==
    LeaveIdleFor(AcceptPeerConn(InitiateConnToPeer(StartConnectRetryTimer(
        SetConnectRetryCounter(x, 0)))), "Connect")
IdleDamp(x) ==
    StartIdleHoldTimer(SetIdleHoldTime(x, NextIdleHoldTime(x.idleHoldTime)))

ApplyAutomaticStart(x) ==
    IF ~AutoStart THEN x
    ELSE IF DampPeerOscl THEN IdleDamp(x)
    ELSE IF PassiveTcpEst THEN LeaveIdleFor(x, "Active")
    ELSE IdleStart(x)

EnterIdle(x) ==
    ApplyAutomaticStart(RejectPeerConn(StopHoldTimer(StopKeepAliveTimer(
        [x EXCEPT !.state = "Idle"]))))

ChangeState(x, st) ==
    LET left == IF x.state = "Idle" THEN StopIdleHoldTimer(x) ELSE x
    IN CASE st = "Idle"        -> EnterIdle(left)
         [] st = "Established" -> [left EXCEPT !.state = st,
                                               !.idleHoldTime = BGPIdleHoldTimeDefault]
         [] OTHER              -> [left EXCEPT !.state = st]

\* Back to Idle after AbortSession, the retry counter incremented or reset.
AbortToIdle(x, incr) ==
    LET a == AbortSession(x)
    IN ChangeState(IF incr THEN IncrConnectRetryCounter(a) ELSE SetConnectRetryCounter(a, 0),
                   "Idle")

\* Fault variant: the hold timer started before the hold time is reset.
ConnectionUpSwapped(x) ==
    ChangeState(SetHoldTime(StartHoldTimer(sendOpenMessage(SetPeerConn(
        StopConnectRetryTimer(x)))), BGPHoldTimeDefault), "OpenSent")

\* Fault variant: the hold time is not reset to the configured value.
ConnectionUpNoReset(x) ==
    ChangeState(StartHoldTimer(sendOpenMessage(SetPeerConn(
        StopConnectRetryTimer(x)))), "OpenSent")

\* Connect/Active on TcpCrAcked or TcpConnConfirmed.
ConnectionUp(x) ==
    ChangeState(StartHoldTimer(SetHoldTime(sendOpenMessage(SetPeerConn(
        StopConnectRetryTimer(x))), BGPHoldTimeDefault)), "OpenSent")

(***************************************************************************)
(* Events that StartFSM's select can deliver.                              *)
(***************************************************************************)
TimerEvents == {TimerEvent[t] : t \in Timers}
TcpUp == {"TcpCrAcked", "TcpConnConfirmed"}
PacketEvents == {"BGPOpen", "UpdateMsg", "NotifMsg", "KeepAliveMsg",
                 "HeaderErr", "OpenMsgErr", "UpdateMsgErr"}
OperatorEvents == {"ManualStart", "ManualStop"}

\* IdleState.processEvent (fsm.go:124-148), for the events delivered here.
IdleProcess(x, ev) ==
    CASE ev \in {"ManualStart", "IdleHoldTimerExp"} -> IdleStart(x)
      [] OTHER -> x

\* ConnectState.processEvent (fsm.go:182-237).
ConnectProcess(x, ev) ==
    CASE ev = "ManualStop" ->
            ChangeState(StopConnectRetryTimer(SetConnectRetryCounter(StopConnToPeer(x), 0)), "Idle")
      [] ev = "ConnRetryTimerExp" ->
            InitiateConnToPeer(StartConnectRetryTimer(StopConnToPeer(x)))
      [] ev \in TcpUp -> ConnectionUp(x)
      [] ev = "TcpConnFails" ->
            ChangeState(StopConnToPeer(StopConnectRetryTimer(x)), "Idle")
      [] ev \in {"HoldTimerExp", "KeepAliveTimerExp", "IdleHoldTimerExp"} \cup PacketEvents ->
            ChangeState(IncrConnectRetryCounter(StopConnToPeer(StopConnectRetryTimer(x))), "Idle")
      [] OTHER -> x

\* ActiveState.processEvent (fsm.go:266-326).
ActiveProcess(x, ev) ==
    CASE ev = "ManualStop" ->
            ChangeState(StopConnectRetryTimer(SetConnectRetryCounter(StopConnToPeer(x), 0)), "Idle")
      [] ev = "ConnRetryTimerExp" ->
            ChangeState(InitiateConnToPeer(StartConnectRetryTimer(x)), "Connect")
      [] ev \in TcpUp -> ConnectionUp(x)
      [] ev = "TcpConnFails" ->
            ChangeState(IncrConnectRetryCounter(ClearPeerConn(StartConnectRetryTimer(x))), "Idle")
      [] ev \in {"HoldTimerExp", "KeepAliveTimerExp", "IdleHoldTimerExp"} \cup PacketEvents ->
            AbortToIdle(x, TRUE)
      [] OTHER -> x

\* Fault variants of OpenSent: TcpConnFails keeps the connection; the hold
\* timer's expiry re-arms the timer instead of aborting.
OpenSentProcessKeepConn(x, ev, h) ==
    CASE ev = "ManualStop" -> AbortToIdle(SendNotificationMessage(x), FALSE)
      [] ev \in {"HoldTimerExp", "HeaderErr", "OpenMsgErr"} ->
            AbortToIdle(SendNotificationMessage(x), TRUE)
      [] ev = "TcpConnFails" ->
            ChangeState(StartConnectRetryTimer(StopConnToPeer(x)), "Active")
      [] ev = "BGPOpen" ->
            ChangeState(StartHoldTimer(sendKeepAliveMessage(ProcessOpenMessage(
                StopConnectRetryTimer(x), h))), "OpenConfirm")
      [] ev \in {"ConnRetryTimerExp", "KeepAliveTimerExp", "IdleHoldTimerExp",
                 "NotifMsg", "KeepAliveMsg", "UpdateMsg", "UpdateMsgErr"} ->
            AbortToIdle(SendNotificationMessage(x), TRUE)
      [] OTHER -> x
OpenSentProcessRearmHold(x, ev, h) ==
    CASE ev = "ManualStop" -> AbortToIdle(SendNotificationMessage(x), FALSE)
      [] ev = "HoldTimerExp" -> StartHoldTimer(x)
      [] ev \in {"HeaderErr", "OpenMsgErr"} ->
            AbortToIdle(SendNotificationMessage(x), TRUE)
      [] ev = "TcpConnFails" ->
            ChangeState(StartConnectRetryTimer(StopConnToPeer(ClearPeerConn(x))), "Active")
      [] ev = "BGPOpen" ->
            ChangeState(StartHoldTimer(sendKeepAliveMessage(ProcessOpenMessage(
                StopConnectRetryTimer(x), h))), "OpenConfirm")
      [] ev \in {"ConnRetryTimerExp", "KeepAliveTimerExp", "IdleHoldTimerExp",
                 "NotifMsg", "KeepAliveMsg", "UpdateMsg", "UpdateMsgErr"} ->
            AbortToIdle(SendNotificationMessage(x), TRUE)
      [] OTHER -> x

\* OpenSentState.processEvent (fsm.go:355-434).
OpenSentProcess(x, ev, h) ==
    CASE ev = "ManualStop" -> AbortToIdle(SendNotificationMessage(x), FALSE)
      [] ev \in {"HoldTimerExp", "HeaderErr", "OpenMsgErr"} ->
            AbortToIdle(SendNotificationMessage(x), TRUE)
      [] ev = "TcpConnFails" ->
            ChangeState(StartConnectRetryTimer(StopConnToPeer(ClearPeerConn(x))), "Active")
      [] ev = "BGPOpen" ->
            ChangeState(StartHoldTimer(sendKeepAliveMessage(ProcessOpenMessage(
                StopConnectRetryTimer(x), h))), "OpenConfirm")
      [] ev \in {"ConnRetryTimerExp", "KeepAliveTimerExp", "IdleHoldTimerExp",
                 "NotifMsg", "KeepAliveMsg", "UpdateMsg", "UpdateMsgErr"} ->
            AbortToIdle(SendNotificationMessage(x), TRUE)
      [] OTHER -> x

\* OpenConfirmState.processEvent (fsm.go:464-544).  HeaderErr and
\* OpenMsgErr assert data.(packet.BGPMessageError) on the pointer that
\* ProcessPacket passes: the assertion panics.
OpenConfirmProcess(x, ev) ==
    CASE ev = "ManualStop" -> AbortToIdle(SendNotificationMessage(x), FALSE)
      [] ev = "HoldTimerExp" -> AbortToIdle(SendNotificationMessage(x), TRUE)
      [] ev = "KeepAliveTimerExp" -> sendKeepAliveMessage(x)
      [] ev \in {"TcpConnFails", "NotifMsg"} -> AbortToIdle(x, TRUE)
      [] ev \in {"HeaderErr", "OpenMsgErr"} -> [x EXCEPT !.crashed = TRUE]
      [] ev = "KeepAliveMsg" -> ChangeState(StartHoldTimer(x), "Established")
      [] ev \in {"ConnRetryTimerExp", "IdleHoldTimerExp", "UpdateMsg", "UpdateMsgErr"} ->
            AbortToIdle(SendNotificationMessage(x), TRUE)
      [] OTHER -> x

\* EstablishedState.processEvent (fsm.go:573-653).  An UPDATE is handed to
\* the server (ProcessUpdateMessage), which this module does not model;
\* UpdateMsgErr panics like OpenConfirm's HeaderErr.
EstablishedProcess(x, ev) ==
    CASE ev = "ManualStop" -> AbortToIdle(SendNotificationMessage(x), FALSE)
      [] ev = "HoldTimerExp" -> AbortToIdle(SendNotificationMessage(x), TRUE)
      [] ev = "KeepAliveTimerExp" -> sendKeepAliveMessage(x)
      [] ev \in {"TcpConnFails", "NotifMsg"} -> AbortToIdle(x, TRUE)
      [] ev \in {"KeepAliveMsg", "UpdateMsg"} -> StartHoldTimer(x)
      [] ev = "UpdateMsgErr" -> [x EXCEPT !.crashed = TRUE]
      [] ev \in {"ConnRetryTimerExp", "IdleHoldTimerExp", "OpenMsgErr", "HeaderErr"} ->
            AbortToIdle(SendNotificationMessage(x), TRUE)
      [] OTHER -> x

\* FSM.ProcessEvent: dispatch to the current state's handler.  A handler
\* that blocks or panics leaves the session frozen where it was.
ProcessEvent(x, ev, h) ==
    LET r == CASE x.state = "Idle"        -> IdleProcess(x, ev)
               [] x.state = "Connect"     -> ConnectProcess(x, ev)
               [] x.state = "Active"      -> ActiveProcess(x, ev)
               [] x.state = "OpenSent"    -> OpenSentProcess(x, ev, h)
               [] x.state = "OpenConfirm" -> OpenConfirmProcess(x, ev)
               [] x.state = "Established" -> EstablishedProcess(x, ev)
    IN CASE r.crashed -> [x EXCEPT !.crashed = TRUE]
         [] r.blocked -> [x EXCEPT !.blocked = TRUE]
         [] OTHER     -> r


(***************************************************************************)
(* The initial state: NewFSM's field values, then StartFSM enters the      *)
(* Idle state it is given.                                                 *)
(***************************************************************************)
NewFSM ==
    [state |-> "Idle", retry |-> 0,
     holdTime |-> BGPHoldTimeDefault, keepAliveTime |-> BGPHoldTimeDefault \div 3,
     idleHoldTime |-> BGPIdleHoldTimeDefault,
     peerConn |-> FALSE, connInProgress |-> FALSE, accepting |-> FALSE,
     timer |-> [t \in Timers |-> [armed |-> FALSE, fired |-> FALSE, stale |-> FALSE]],
     dialer |-> "none", dialStop |-> FALSE,
     blocked |-> FALSE, crashed |-> FALSE]

Init == s = EnterIdle(NewFSM)

Alive == ~s.blocked /\ ~s.crashed

(***************************************************************************)
(* The cases of StartFSM's select loop (fsm.go:773-806).                  *)
(***************************************************************************)
\* outConnCh: ConnectToPeer hands over its connection.
ReceiveOutConn ==
    /\ Alive /\ s.dialer = "sendConn"
    /\ s' = ProcessEvent([s EXCEPT !.dialer = "none", !.connInProgress = FALSE],
                         "TcpCrAcked", 0)

\* outConnErrCh: ConnectToPeer reports a hard dial failure.
ReceiveOutConnErr ==
    /\ Alive /\ s.dialer = "sendErr"
    /\ s' = ProcessEvent([s EXCEPT !.dialer = "none", !.connInProgress = FALSE],
                         "TcpConnFails", 0)

\* inConnCh: the manager passes on an accepted inbound connection.
ReceiveInConn ==
    /\ Alive /\ s.accepting
    /\ s' = ProcessEvent(s, "TcpConnConfirmed", 0)

\* pktRxCh: ProcessPacket maps a parsed message or parse error to an event;
\* h is the hold time of an OPEN.
ReceivePacket ==
    /\ Alive /\ s.peerConn
    /\ \/ \E ev \in PacketEvents \ {"BGPOpen"} : s' = ProcessEvent(s, ev, 0)
       \/ \E h \in PeerHoldTimes : s' = ProcessEvent(s, "BGPOpen", h)

\* eventRxCh: an operator command.
ReceiveOperatorEvent ==
    /\ Alive
    /\ \E ev \in OperatorEvents : s' = ProcessEvent(s, ev, 0)

\* t.C: a timer's expiry.
ReceiveTimer(t) ==
    /\ Alive /\ s.timer[t].fired
    /\ s' = ProcessEvent([s EXCEPT !.timer[t].fired = FALSE, !.timer[t].stale = FALSE],
                         TimerEvent[t], 0)

(***************************************************************************)
(* The other actors: the Go runtime firing timers, and ConnectToPeer       *)
(* (fsm.go:1064-1109) with its Connect child (fsm.go:1054-1062).           *)
(***************************************************************************)
\* An armed timer fires; t.C holds one value, a second send is dropped.
TimerExpires(t) ==
    /\ Alive /\ s.timer[t].armed
    /\ s' = [s EXCEPT !.timer[t] = [armed |-> FALSE, fired |-> TRUE,
                                    stale |-> @.fired /\ @.stale]]

\* DialTimeout succeeds: the connection goes to the FSM, or is closed if a
\* stop was received meanwhile.  A dial that times out is retried with a
\* 3 s timeout, which changes nothing visible, or, after a stop, ends the
\* goroutine just as this action does; it needs no action of its own.
DialConnected ==
    /\ Alive /\ s.dialer = "dialing"
    /\ s' = [s EXCEPT !.dialer = IF s.dialStop THEN "none" ELSE "sendConn"]

\* DialTimeout fails hard: report it to the FSM, unless stopped.
DialFailed ==
    /\ Alive /\ s.dialer = "dialing"
    /\ s' = [s EXCEPT !.dialer = IF s.dialStop THEN "none" ELSE "sendErr"]

Next ==
    \/ ReceiveOutConn
    \/ ReceiveOutConnErr
    \/ ReceiveInConn
    \/ ReceivePacket
    \/ ReceiveOperatorEvent
    \/ \E t \in Timers : ReceiveTimer(t)
    \/ \E t \in Timers : TimerExpires(t)
    \/ DialConnected
    \/ DialFailed

Spec == Init /\ [][Next]_vars

(***************************************************************************)
(* Fairness.  Time passes, so an armed timer eventually fires; Go's select *)
(* picks among ready cases at random, so a value waiting on a timer or     *)
(* connection channel is eventually received; a dial eventually returns.   *)
(* The peer, the operator and inbound connections get no fairness.         *)
(***************************************************************************)
Fairness ==
    /\ \A t \in Timers : WF_vars(TimerExpires(t)) /\ WF_vars(ReceiveTimer(t))
    /\ WF_vars(ReceiveOutConn) /\ WF_vars(ReceiveOutConnErr)
    /\ WF_vars(DialConnected \/ DialFailed)

FairSpec == Spec /\ Fairness

(***************************************************************************)
(* Refinement: the FSM implements the abstract session of BgpSession.     *)
(* Connect and Active map to the one "Connecting" phase; the hold time is *)
(* the FSM's holdTime.                                                     *)
(***************************************************************************)
SessionPhase == IF s.state \in {"Connect", "Active"} THEN "Connecting" ELSE s.state

Session == INSTANCE BgpSession WITH phase <- SessionPhase, hold <- s.holdTime,
                                    HoldDefault <- BGPHoldTimeDefault,
                                    PeerHolds <- PeerHoldTimes

(***************************************************************************)
(* Properties.                                                             *)
(***************************************************************************)
TypeOK ==
    /\ s.state \in States
    /\ s.retry \in Nat
    /\ s.holdTime \in 0..BGPHoldTimeDefault
    /\ s.keepAliveTime \in 0..(BGPHoldTimeDefault \div 3)
    /\ s.idleHoldTime \in Nat
    /\ s.timer \in [Timers -> [armed : BOOLEAN, fired : BOOLEAN, stale : BOOLEAN]]
    /\ s.dialer \in DialerStates
    /\ {s.peerConn, s.connInProgress, s.accepting, s.dialStop, s.blocked, s.crashed}
           \subseteq BOOLEAN

\* The session owns a connection exactly in the states that exchange BGP
\* messages: every handler that leaves OpenSent, OpenConfirm or Established
\* clears the connection, and only the TCP-up events set it.
ConnBoundToSession ==
    s.peerConn <=> s.state \in {"OpenSent", "OpenConfirm", "Established"}

\* Dead-peer detection: while a message-exchanging session has a non-zero
\* hold time, its hold timer is running or its expiry is waiting in the
\* channel (StartHoldTimer on OpenSent, OpenConfirm and every KEEPALIVE or
\* UPDATE; Stop only when the connection is cleared).  A hung session
\* goroutine reads no timer, so only a live one is constrained.
HoldTimerGuardsSession ==
    Alive /\ s.state \in {"OpenSent", "OpenConfirm", "Established"} /\ s.holdTime # 0
        => s.timer["Hold"].armed \/ s.timer["Hold"].fired

\* A session never waits forever for the peer's OPEN: the hold timer armed
\* when the connection comes up eventually moves it out of OpenSent, unless
\* the session goroutine has hung.
OpenSentBounded ==
    s.state = "OpenSent" ~> (s.state # "OpenSent" \/ s.blocked)

\* The session goroutine keeps serving its select for as long as the
\* process runs: it never blocks for good in StopConnToPeer's send on
\* stopConnCh (ConnectToPeer must be waiting to receive it), and no
\* message a peer sends or event makes it panic (spec 7: no failure in
\* this subsystem is process-fatal).
SessionGoroutineLives == ~s.blocked /\ ~s.crashed

\* A session left in Idle by the automatic start always leaves Idle again:
\* the idle-hold backoff re-arms the timer that restarts it.
IdleRestarts == s.state = "Idle" ~> s.state # "Idle"

\* A timer expiry that was already waiting when the FSM stopped or re-armed
\* that timer never changes the session's state.
StaleExpiryHarmless ==
    [][\A t \in Timers :
         s.timer[t].fired /\ ~s'.timer[t].fired /\ s.timer[t].stale
             => s'.state = s.state]_vars

\* The timers follow the negotiated hold time (spec 4.1: keepalive
\* interval = hold time / 3, hold time 0 disables both timers): a non-zero
\* hold time comes with a non-zero keepalive interval, and once the OPEN
\* has set a hold time of 0 no hold timer is running.  Covers
\* ProcessOpenMessage's unchecked assignment and StartHoldTimer's skip.
HoldTimeDisciplined ==
    /\ s.holdTime # 0 => s.keepAliveTime # 0
    /\ s.state \in {"OpenConfirm", "Established"} /\ s.holdTime = 0
           => ~s.timer["Hold"].armed


\* Every behaviour of the FSM is a behaviour of the abstract session: no
\* handler skips the TCP / OPEN / KEEPALIVE handshake on its way to
\* Established, and the hold time changes only when a connection comes up
\* (ConnectionUp's SetHoldTime) or is lowered by the peer's OPEN
\* (ProcessOpenMessage).
SessionRefinement == Session!Spec

=============================================================================
