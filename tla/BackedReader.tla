---------------------------- MODULE BackedReader ----------------------------
(***************************************************************************)
(* The receiving half of an EternalTCP stream (src/src/backed.rs, struct   *)
(* BackedReader): it assembles frames from whatever bytes the socket has,  *)
(* decrypts them under the next nonce and counts them.  After an outage    *)
(* revive() is given the frames the peer resends; they are counted at once *)
(* and decrypted only when read() comes to them.                           *)
(*                                                                         *)
(* A frame travels as two pieces, part 1 (the length prefix) and part 2    *)
(* (the body), so that a connection can end in the middle of a frame and a *)
(* read() can return with half of one.  `delivered' is a history variable: *)
(* the packets read() has returned.  The module has no next-state relation *)
(* of its own: read() takes its input from the socket, which PeerStream    *)
(* and Connection supply.                                                  *)
(***************************************************************************)
EXTENDS Integers, Sequences

CONSTANTS
    Packets,
    Streams,     \* TCP connections
    NoStream     \* socket == None

VARIABLES
    socket,            \* the stream this half reads from, or NoStream
    sequence_number,   \* frames received, the unread catch-up included
    nonce,             \* the reader's CryptoHandler, as a count of increments
    partial,           \* the pieces of the frame being assembled
    local_buffer,      \* frames of the catch-up that read() has not come to
    delivered          \* history: the packets returned, oldest first

vars == <<socket, sequence_number, nonce, partial, local_buffer, delivered>>

Frames == [nonce : Nat, packet : Packets]
Pieces == [frame : Frames, part : 1 .. 2]

Init == \E s \in Streams :
    /\ socket = s
    /\ sequence_number = 0
    /\ nonce = 0
    /\ partial = << >>
    /\ local_buffer = << >>
    /\ delivered = << >>

-----------------------------------------------------------------------------
\* Packet::decrypt on frame f.  CryptoHandler::decrypt increments the nonce
\* before it tries, so that a frame that fails leaves it incremented.
Decrypts(f) == f.nonce = nonce + 1

\* A whole frame: what the length prefix announces followed by its body.
\* Anything else of that length decrypts to nothing.
IsWhole(b) == b[1].part = 1 /\ b[2].part = 2 /\ b[1].frame = b[2].frame

Return(p) == delivered' = Append(delivered, p)

\* read() finds neither a socket nor a catch-up.
ReadIdle ==
    /\ socket = NoStream
    /\ local_buffer = << >>
    /\ UNCHANGED vars

\* Mutant: the frame is looked at and left in the queue.
ReadBuffered_Peeks ==
    /\ local_buffer # << >>
    /\ LET f == Head(local_buffer) IN
       /\ IF Decrypts(f) THEN Return(f.packet) ELSE UNCHANGED delivered
       /\ UNCHANGED nonce
       /\ UNCHANGED local_buffer
    /\ UNCHANGED <<socket, sequence_number, partial>>

\* Mutant: it is counted when it is read.
ReadBuffered_Counts ==
    /\ local_buffer # << >>
    /\ LET f == Head(local_buffer) IN
       /\ IF Decrypts(f) THEN Return(f.packet) ELSE UNCHANGED delivered
       /\ nonce' = nonce + 1
       /\ local_buffer' = Tail(local_buffer)
    /\ sequence_number' = sequence_number + 1
    /\ UNCHANGED <<socket, partial>>

\* read() takes the next frame of the catch-up, socket or no socket.  Its
\* sequence number was counted by revive().
ReadBuffered ==
    /\ local_buffer # << >>
    /\ LET f == Head(local_buffer) IN
       /\ IF Decrypts(f) THEN Return(f.packet) ELSE UNCHANGED delivered
       /\ nonce' = nonce + 1
       /\ local_buffer' = Tail(local_buffer)
    /\ UNCHANGED <<socket, sequence_number, partial>>

\* read() gets to the socket, and takes the pieces `taken' from it.
FromSocket ==
    /\ socket # NoStream
    /\ local_buffer = << >>

\* They do not make a frame and the socket has no more for now: Ok(None).
ReadPartial(taken) ==
    /\ FromSocket
    /\ Len(partial) + Len(taken) < 2
    /\ partial' = partial \o taken
    /\ UNCHANGED <<socket, sequence_number, nonce, local_buffer, delivered>>

\* They complete one: it is decrypted and, if that succeeds, counted.
ReadFrame(taken) ==
    /\ FromSocket
    /\ Len(partial) + Len(taken) = 2
    /\ LET b == partial \o taken
           ok == IsWhole(b) /\ Decrypts(b[1].frame)
       IN  IF ok THEN /\ Return(b[1].frame.packet)
                      /\ sequence_number' = sequence_number + 1
                 ELSE UNCHANGED <<delivered, sequence_number>>
    /\ partial' = << >>
    /\ nonce' = nonce + 1
    /\ UNCHANGED <<socket, local_buffer>>

\* The socket ends or fails first: Err, with what was taken left in partial.
ReadClosed(taken) == ReadPartial(taken)

\* read() returned an error: the caller must reconnect.  A frame that does not
\* decrypt is gone and its nonce is spent.
ReadFails == nonce' # nonce /\ delivered' = delivered

InvalidateSocket ==
    /\ socket' = NoStream
    /\ UNCHANGED <<sequence_number, nonce, partial, local_buffer, delivered>>

\* Mutant: the unfinished frame of the old connection stays.
Revive_KeepsPartial(s, catchup) ==
    /\ UNCHANGED partial
    /\ local_buffer' = local_buffer \o catchup
    /\ sequence_number' = sequence_number + Len(catchup)
    /\ socket' = s
    /\ UNCHANGED <<nonce, delivered>>

\* Mutant: what read() had not come to is dropped.
Revive_Replaces(s, catchup) ==
    /\ partial' = << >>
    /\ local_buffer' = catchup
    /\ sequence_number' = sequence_number + Len(catchup)
    /\ socket' = s
    /\ UNCHANGED <<nonce, delivered>>

\* Mutant: the catch-up is counted and forgotten.
Revive_OnlyCounts(s, catchup) ==
    /\ partial' = << >>
    /\ UNCHANGED local_buffer
    /\ sequence_number' = sequence_number + Len(catchup)
    /\ socket' = s
    /\ UNCHANGED <<nonce, delivered>>

\* Mutant: the count goes the wrong way.
Revive_CountsDown(s, catchup) ==
    /\ partial' = << >>
    /\ local_buffer' = local_buffer \o catchup
    /\ sequence_number' = sequence_number - Len(catchup)
    /\ socket' = s
    /\ UNCHANGED <<nonce, delivered>>

Revive(s, catchup) ==
    /\ partial' = << >>
    /\ local_buffer' = local_buffer \o catchup
    /\ sequence_number' = sequence_number + Len(catchup)
    /\ socket' = s
    /\ UNCHANGED <<nonce, delivered>>

-----------------------------------------------------------------------------
TypeOK ==
    /\ socket \in Streams \cup {NoStream}
    /\ sequence_number \in Nat
    /\ nonce \in Nat
    /\ partial \in Seq(Pieces)
    /\ local_buffer \in Seq(Frames)
    /\ delivered \in Seq(Packets)
=============================================================================
