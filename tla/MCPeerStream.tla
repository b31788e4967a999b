---------------------------- MODULE MCPeerStream ----------------------------
(***************************************************************************)
(* A small PeerStream for TLC: the peer sends at most MaxSent packets.     *)
(* Connections come and go without a bound; they leave no trace but in the *)
(* streams' names.                                                         *)
(***************************************************************************)
EXTENDS PeerStream

CONSTANT MaxSent    \* bound on the packets the peer sends

\* PeerStream's PeerNext with no PeerSend after MaxSent packets.
MCNext ==
    \/ /\ Len(sent) < MaxSent
       /\ \E p \in Packets : PeerSend(p)
    \/ Break
    \/ ClientIdle
    \/ ClientReadBuffered
    \/ ClientReadFrame
    \/ ClientReadPartial
    \/ ClientInvalidate
    \/ Reconnect

MCSpec == PeerInit /\ [][MCNext]_peerVars
=============================================================================
