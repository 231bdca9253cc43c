----------------------------- MODULE BgpSession -----------------------------
(***************************************************************************)
(* What a BGP session promises its peer, independent of timers, dialer     *)
(* goroutines and channels (spec.md 4.1): a session only reaches           *)
(* Established through a TCP connection, the peer's OPEN and the peer's    *)
(* KEEPALIVE, in that order; any phase can be dropped back to Idle or to   *)
(* connecting again; the hold time is reset to the configured value when   *)
(* a connection comes up and only ever lowered, to the peer's advertised   *)
(* value, when the OPEN arrives.                                           *)
(*                                                                         *)
(* Connect and Active are one phase here: both are "waiting for TCP".     *)
(***************************************************************************)
EXTENDS Naturals

CONSTANTS HoldDefault,   \* the configured hold time
          PeerHolds      \* the hold times a peer may advertise

VARIABLES phase, hold

Phases == {"Idle", "Connecting", "OpenSent", "OpenConfirm", "Established"}

Init ==
    /\ phase \in {"Idle", "Connecting"}
    /\ hold = HoldDefault

Start ==
    /\ phase = "Idle"
    /\ phase' = "Connecting"
    /\ UNCHANGED hold

TcpUp ==
    /\ phase = "Connecting"
    /\ phase' = "OpenSent"
    /\ hold' = HoldDefault

OpenReceived(h) ==
    /\ phase = "OpenSent"
    /\ phase' = "OpenConfirm"
    /\ hold' = IF h < hold THEN h ELSE hold

KeepAliveReceived ==
    /\ phase = "OpenConfirm"
    /\ phase' = "Established"
    /\ UNCHANGED hold

Drop ==
    /\ phase # "Idle"
    /\ phase' \in {"Idle", "Connecting"}
    /\ UNCHANGED hold

Next ==
    \/ Start
    \/ TcpUp
    \/ \E h \in PeerHolds : OpenReceived(h)
    \/ KeepAliveReceived
    \/ Drop

Spec == Init /\ [][Next]_<<phase, hold>>

=============================================================================
