----------------------------- MODULE PeerStream -----------------------------
(***************************************************************************)
(* The server-to-client direction on its own: a BackedReader and a peer    *)
(* that numbers its packets, writes them to the current TCP connection if  *)
(* it has one and, when the client comes back, resends all that follow the *)
(* sequence number the client names.  The connection may end at any byte,  *)
(* noticed by either side before the other.                                *)
(*                                                                         *)
(* The peer is external: it is what BackedReader, read() and revive(),     *)
(* need of a server.  Connection replaces Reconnect, one step here, by the *)
(* handshake the client goes through.                                      *)
(***************************************************************************)
EXTENDS BackedReader

VARIABLES
    sent,      \* the packets the peer's application has sent
    wire,      \* pieces of the current connection not yet read
    peer_up    \* the peer still writes to the current connection

peerVars == <<vars, sent, wire, peer_up>>

ASSUME NoStreamAssumption == NoStream \notin Streams

\* The k-th packet sent, as the peer encrypts it.
Frame(k) == [nonce |-> k, packet |-> sent[k]]

\* The frames after the k-th.
FramesAfter(k) == [i \in 1 .. Len(sent) - k |-> Frame(k + i)]

PeerInit ==
    /\ Init
    /\ sent = << >>
    /\ wire = << >>
    /\ peer_up = TRUE

-----------------------------------------------------------------------------
PeerSend(p) ==
    /\ sent' = Append(sent, p)
    /\ LET f == [nonce |-> Len(sent) + 1, packet |-> p] IN
       wire' = IF peer_up
               THEN wire \o <<[frame |-> f, part |-> 1], [frame |-> f, part |-> 2]>>
               ELSE wire
    /\ UNCHANGED <<vars, peer_up>>

\* The connection ends: what was written may be lost from some byte on.
Break ==
    /\ peer_up
    /\ peer_up' = FALSE
    /\ \E n \in 0 .. Len(wire) : wire' = SubSeq(wire, 1, n)
    /\ UNCHANGED <<vars, sent>>

ClientIdle == ReadIdle /\ UNCHANGED <<sent, wire, peer_up>>

ClientReadBuffered == ReadBuffered /\ UNCHANGED <<sent, wire, peer_up>>

\* A read() drains the wire or stops at the end of a frame.
ClientReadFrame ==
    \E n \in 0 .. Len(wire) :
        /\ ReadFrame(SubSeq(wire, 1, n))
        /\ wire' = SubSeq(wire, n + 1, Len(wire))
        /\ UNCHANGED <<sent, peer_up>>

ClientReadPartial ==
    /\ ReadPartial(wire)
    /\ wire' = << >>
    /\ UNCHANGED <<sent, peer_up>>

\* The client gives the connection up: read() found its end, a decryption
\* failed, a write failed, or a keepalive went unanswered.
ClientInvalidate == InvalidateSocket /\ UNCHANGED <<sent, wire, peer_up>>

\* The client has a new connection, on which it was resent what it lacks.
Reconnect ==
    /\ socket = NoStream
    /\ \E s \in Streams : Revive(s, FramesAfter(sequence_number))
    /\ wire' = << >>
    /\ peer_up' = TRUE
    /\ UNCHANGED sent

PeerNext ==
    \/ \E p \in Packets : PeerSend(p)
    \/ Break
    \/ ClientIdle
    \/ ClientReadBuffered
    \/ ClientReadFrame
    \/ ClientReadPartial
    \/ ClientInvalidate
    \/ Reconnect

PeerSpec == PeerInit /\ [][PeerNext]_peerVars

-----------------------------------------------------------------------------
\* The client hands over what the peer sent, in order and each packet once.
Pipe == INSTANCE EternalPipe
ImplementsEternalPipe == Pipe!Spec

PeerTypeOK ==
    /\ TypeOK
    /\ sent \in Seq(Packets)
    /\ wire \in Seq(Pieces)
    /\ peer_up \in BOOLEAN

\* No nonce is spent in vain: the next frame read() decrypts is the one after
\* the last packet returned, so every decryption succeeds.
NonceMatchesDelivery ==
    /\ Len(delivered) = nonce
    /\ \A i \in 1 .. nonce : delivered[i] = sent[i]

\* The sequence number the client will name in the next handshake counts what
\* has been returned and what waits in the catch-up, and nothing of the frame
\* being assembled; the catch-up is the peer's frames from there on.
SequenceCountsCatchup ==
    /\ sequence_number = nonce + Len(local_buffer)
    /\ sequence_number =< Len(sent)
    /\ \A i \in 1 .. Len(local_buffer) : local_buffer[i] = Frame(nonce + i)

\* The n-th piece of the peer's endless stream of frames.
StreamPiece(n) == [frame |-> Frame((n + 1) \div 2), part |-> IF n % 2 = 1 THEN 1 ELSE 2]

\* What a connected client has of an unfinished frame, followed by what is on
\* the wire, is the peer's stream from just after the sequence number on; and
\* all of it, as long as the peer still writes.
WireContinuesPartial ==
    socket # NoStream =>
        /\ Len(partial) < 2
        /\ 2 * sequence_number + Len(partial) + Len(wire) =< 2 * Len(sent)
        /\ peer_up => 2 * sequence_number + Len(partial) + Len(wire) = 2 * Len(sent)
        /\ \A i \in 1 .. Len(partial) + Len(wire) :
              (partial \o wire)[i] = StreamPiece(2 * sequence_number + i)
=============================================================================
