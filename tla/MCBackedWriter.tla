--------------------------- MODULE MCBackedWriter ---------------------------
(***************************************************************************)
(* A small writer for TLC: two packet sizes, thresholds of a few frames,   *)
(* at most MaxSequence packets.                                            *)
(***************************************************************************)
EXTENDS BackedWriter, TLC

CONSTANTS
    Small, Big,    \* the two packets
    MaxSequence    \* bound on the packets accepted

MCPackets == {Small, Big}
MCLength == (Small :> 2) @@ (Big :> 5)

\* BackedWriter's Next with no write() after MaxSequence accepted packets.
MCNext ==
    \/ /\ sequence_number < MaxSequence
       /\ \E p \in Packets : \/ WriteSkipped(p)
                             \/ WriteBuffered(p)
                             \/ WriteSuccess(p)
                             \/ WriteFailed(p)
    \/ InvalidateSocket
    \/ \E s \in Streams : socket = NoStream /\ Revive(s)

MCSpec == Init /\ [][MCNext]_vars
=============================================================================
