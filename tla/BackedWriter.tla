---------------------------- MODULE BackedWriter ----------------------------
(***************************************************************************)
(* The sending half of an EternalTCP stream (src/src/backed.rs, struct     *)
(* BackedWriter).  Every accepted packet is encrypted once, under the next *)
(* nonce, kept in a backup queue with the newest frame in front, and       *)
(* written to the socket if there is one.  After an outage the peer names  *)
(* the last sequence number it holds and recover() returns the frames that *)
(* follow it.                                                              *)
(*                                                                         *)
(* A packet is a member of Packets and Length[p] its Packet::length(), the *)
(* two header bytes included; encryption adds MAC_BYTES.  A frame records  *)
(* the nonce it was encrypted under and `at', the number of ciphertext     *)
(* bytes accepted before it, so that the size of a run of consecutive      *)
(* frames is a difference of two offsets.  `accepted' and `offset' are     *)
(* history variables: the program has no such state.                       *)
(***************************************************************************)
EXTENDS Integers, Sequences

CONSTANTS
    Packets,                  \* what callers hand to write()
    Length,                   \* Packet::length() of each, before encryption
    MAC_BYTES,                \* what encryption adds to a payload
    MAX_BACKUP_BYTES,         \* eviction threshold of a live writer
    DISCONNECT_BUFFER_BYTES,  \* what a dead writer may buffer
    Streams,                  \* TCP connections
    NoStream                  \* socket == None

ASSUME LengthAssumption == Length \in [Packets -> Nat]
ASSUME SizesAssumption == /\ MAC_BYTES \in Nat
                          /\ MAX_BACKUP_BYTES \in Nat
                          /\ DISCONNECT_BUFFER_BYTES \in Nat
ASSUME NoStreamAssumption == NoStream \notin Streams

VARIABLES
    socket,              \* the stream this half writes to, or NoStream
    backup,              \* VecDeque<Packet>: backup[1] is the newest frame
    backup_size,         \* the code's own count of the bytes in backup
    disconnected_bytes,  \* bytes buffered since the last revive()
    sequence_number,     \* frames ever accepted
    nonce,               \* the writer's CryptoHandler, as a count of increments
    accepted,            \* history: the packets accepted, oldest first
    offset               \* history: the ciphertext bytes accepted

vars == <<socket, backup, backup_size, disconnected_bytes, sequence_number,
          nonce, accepted, offset>>

Frames == [nonce : Nat, packet : Packets, at : Nat]

FrameLength(f) == Length[f.packet] + MAC_BYTES

\* The bytes of frames i .. j of b, which are consecutive with the newest first.
Bytes(b, i, j) == IF i > j THEN 0 ELSE (b[i].at + FrameLength(b[i])) - b[j].at

Init == \E s \in Streams :
    /\ socket = s
    /\ backup = << >>
    /\ backup_size = 0
    /\ disconnected_bytes = 0
    /\ sequence_number = 0
    /\ nonce = 0
    /\ accepted = << >>
    /\ offset = 0

-----------------------------------------------------------------------------
\* Mutant: the limit tested without the packet at hand.
BufferFull_IgnoresLength(p) ==
    /\ socket = NoStream
    /\ disconnected_bytes > DISCONNECT_BUFFER_BYTES

\* write() turns a packet away only while the socket is gone; the test is made
\* on the length before encryption.
BufferFull(p) ==
    /\ socket = NoStream
    /\ disconnected_bytes + Length[p] > DISCONNECT_BUFFER_BYTES

\* CryptoHandler::encrypt increments the nonce first and encrypts under it.
Encrypted(p) == [nonce |-> nonce + 1, packet |-> p, at |-> offset]

\* What remains of `size' bytes once all but the n newest frames of b are popped.
Left(b, size, n) == size - Bytes(b, n + 1, Len(b))

\* Mutant: eviction goes on at the threshold itself.
Kept_EvictsAtThreshold(b, size) ==
    {n \in 0 .. Len(b) :
        /\ Left(b, size, n) < MAX_BACKUP_BYTES
        /\ \A k \in n + 1 .. Len(b) : Left(b, size, k) >= MAX_BACKUP_BYTES}

\* How many of the newest frames of b survive the eviction loop, which pops the
\* oldest while the count of bytes is over the threshold.
Kept(b, size) ==
    {n \in 0 .. Len(b) :
        /\ Left(b, size, n) =< MAX_BACKUP_BYTES
        /\ \A k \in n + 1 .. Len(b) : Left(b, size, k) > MAX_BACKUP_BYTES}

\* Mutant: push_back.
Pushed_AtBack(p) == backup \o <<Encrypted(p)>>

\* The backup after push_front of p, before any eviction.
Pushed(p) == <<Encrypted(p)>> \o backup

\* Mutant: the length before encryption is counted.
Accept_CountsPlain(p) ==
    LET size == backup_size + Length[p] IN
    /\ nonce' = nonce + 1
    /\ sequence_number' = sequence_number + 1
    /\ accepted' = Append(accepted, p)
    /\ offset' = offset + FrameLength(Encrypted(p))
    /\ \E n \in IF socket = NoStream THEN {Len(Pushed(p))} ELSE Kept(Pushed(p), size) :
          /\ backup' = SubSeq(Pushed(p), 1, n)
          /\ backup_size' = Left(Pushed(p), size, n)

\* Mutant: an outage is no reason to keep more.
Accept_EvictsInOutage(p) ==
    LET size == backup_size + FrameLength(Encrypted(p)) IN
    /\ nonce' = nonce + 1
    /\ sequence_number' = sequence_number + 1
    /\ accepted' = Append(accepted, p)
    /\ offset' = offset + FrameLength(Encrypted(p))
    /\ \E n \in Kept(Pushed(p), size) :
          /\ backup' = SubSeq(Pushed(p), 1, n)
          /\ backup_size' = Left(Pushed(p), size, n)

\* The part every accepted packet goes through: encrypt, push_front, count, and
\* evict if the socket is there.
Accept(p) ==
    LET size == backup_size + FrameLength(Encrypted(p)) IN
    /\ nonce' = nonce + 1
    /\ sequence_number' = sequence_number + 1
    /\ accepted' = Append(accepted, p)
    /\ offset' = offset + FrameLength(Encrypted(p))
    /\ \E n \in IF socket = NoStream THEN {Len(Pushed(p))} ELSE Kept(Pushed(p), size) :
          /\ backup' = SubSeq(Pushed(p), 1, n)
          /\ backup_size' = Left(Pushed(p), size, n)

\* WriteState::Skipped
WriteSkipped(p) ==
    /\ BufferFull(p)
    /\ UNCHANGED vars

\* WriteState::BufferedOnly
WriteBuffered(p) ==
    /\ socket = NoStream
    /\ ~BufferFull(p)
    /\ Accept(p)
    /\ disconnected_bytes' = disconnected_bytes + FrameLength(Encrypted(p))
    /\ UNCHANGED socket

\* WriteState::Success: the kernel took every byte of the frame.
WriteSuccess(p) ==
    /\ socket # NoStream
    /\ Accept(p)
    /\ UNCHANGED <<socket, disconnected_bytes>>

\* WriteState::WroteWithFailure: the frame is already in the backup when the
\* write to the socket fails.
WriteFailed(p) ==
    /\ socket # NoStream
    /\ Accept(p)
    /\ socket' = NoStream
    /\ UNCHANGED disconnected_bytes

InvalidateSocket ==
    /\ socket' = NoStream
    /\ UNCHANGED <<backup, backup_size, disconnected_bytes, sequence_number,
                   nonce, accepted, offset>>

\* Mutant: the limit is taken off, not the count reset.
Revive_TakesLimitOff(s) ==
    /\ socket' = s
    /\ disconnected_bytes' = disconnected_bytes - DISCONNECT_BUFFER_BYTES
    /\ UNCHANGED <<backup, backup_size, sequence_number, nonce, accepted, offset>>

Revive(s) ==
    /\ socket' = s
    /\ disconnected_bytes' = 0
    /\ UNCHANGED <<backup, backup_size, sequence_number, nonce, accepted, offset>>

\* recover(last) succeeds ...
CanRecover(last) ==
    /\ socket = NoStream
    /\ sequence_number - last \in 0 .. Len(backup)

\* Mutants: newest first, as the queue has them; and one frame short.
Recovered_NewestFirst(last) == SubSeq(backup, 1, sequence_number - last)
Recovered_OneShort(last) ==
    LET n == sequence_number - last - 1 IN [i \in 1 .. n |-> backup[n + 1 - i]]

\* ... and returns the frames after `last', oldest first.
Recovered(last) ==
    LET n == sequence_number - last IN [i \in 1 .. n |-> backup[n + 1 - i]]

-----------------------------------------------------------------------------
\* The owner calls write() at any time and revive() on a dead writer only
\* (Connection shows that it does).
Next ==
    \/ \E p \in Packets : \/ WriteSkipped(p)
                          \/ WriteBuffered(p)
                          \/ WriteSuccess(p)
                          \/ WriteFailed(p)
    \/ InvalidateSocket
    \/ \E s \in Streams : socket = NoStream /\ Revive(s)

Spec == Init /\ [][Next]_vars

-----------------------------------------------------------------------------
TypeOK ==
    /\ socket \in Streams \cup {NoStream}
    /\ backup \in Seq(Frames)
    /\ backup_size \in Nat
    /\ disconnected_bytes \in Nat
    /\ sequence_number \in Nat
    /\ nonce \in Nat
    /\ accepted \in Seq(Packets)
    /\ offset \in Nat

\* The backup is the tail of the history, without a hole: its i-th newest frame
\* is the i-th newest packet accepted, under the nonce that is its sequence
\* number.  backed.rs relies on it to turn a sequence number into a position.
BackupIsRecentHistory ==
    /\ Len(accepted) = sequence_number
    /\ nonce = sequence_number
    /\ Len(backup) =< sequence_number
    /\ \A i \in 1 .. Len(backup) :
          /\ backup[i].nonce = sequence_number + 1 - i
          /\ backup[i].packet = accepted[sequence_number + 1 - i]

\* Whatever sequence number the peer names, a recover() that succeeds returns
\* every packet accepted after it, once and in order, each under the nonce the
\* peer's decryption has reached.
RecoverIsExact ==
    \A last \in 0 .. sequence_number :
        CanRecover(last) =>
            \A i \in 1 .. sequence_number - last :
                /\ Recovered(last)[i].nonce = last + i
                /\ Recovered(last)[i].packet = accepted[last + i]

\* backup_size is maintained by additions and saturating subtractions; it never
\* drifts from the bytes that are in the queue.
BackupSizeIsExact == backup_size = Bytes(backup, 1, Len(backup))

\* The limit on what a dead writer buffers is tested before encryption and
\* counted after it, so it can be passed by the MAC of one packet, no more, and
\* what is counted is still in the backup: nothing buffered in an outage has
\* been dropped.
OutageBufferBounded ==
    /\ disconnected_bytes =< DISCONNECT_BUFFER_BYTES + MAC_BYTES
    /\ disconnected_bytes =< backup_size
    /\ socket # NoStream => disconnected_bytes = 0

\* While the socket stays away no step makes a peer unrecoverable that could
\* have been recovered: a reconnect that fails may be tried again later.
OutageKeepsRecoverable ==
    [][\A last \in 0 .. sequence_number :
          (CanRecover(last) /\ socket' = NoStream) => CanRecover(last)']_vars

\* A live writer's eviction stops at the threshold and not before: a frame is
\* dropped only if the queue with it would be over MAX_BACKUP_BYTES.
EvictionIsMinimal ==
    [][LET pushed == Pushed(accepted'[sequence_number']) IN
       (sequence_number' # sequence_number /\ Len(backup') < Len(pushed)) =>
          /\ socket # NoStream
          /\ backup_size' =< MAX_BACKUP_BYTES
          /\ backup_size' + FrameLength(pushed[Len(backup') + 1]) > MAX_BACKUP_BYTES]_vars
=============================================================================
