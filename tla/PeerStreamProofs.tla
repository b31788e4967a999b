-------------------------- MODULE PeerStreamProofs --------------------------
(***************************************************************************)
(* The server-to-client direction for any packets, any number of them and  *)
(* any number of connections: its invariants, and that it implements the   *)
(* pipe that loses, repeats and reorders nothing.                          *)
(***************************************************************************)
EXTENDS PeerStream, TLAPS

USE NoStreamAssumption

\* The inductive invariant is the conjunction of the four that are checked: what
\* read() decrypts next comes out of the catch-up or off the wire, so that the
\* nonce rests on what is in both.
PInv ==
    /\ PeerTypeOK
    /\ NonceMatchesDelivery
    /\ SequenceCountsCatchup
    /\ WireContinuesPartial

-----------------------------------------------------------------------------
\* The two pieces of the frame after the k-th.
LEMMA PiecesOfFrame ==
    ASSUME NEW k \in Nat
    PROVE  /\ StreamPiece(2 * k + 1) = [frame |-> Frame(k + 1), part |-> 1]
           /\ StreamPiece(2 * k + 2) = [frame |-> Frame(k + 1), part |-> 2]
<1>1. /\ ((2 * k + 1) + 1) \div 2 = k + 1
      /\ ((2 * k + 2) + 1) \div 2 = k + 1
      /\ (2 * k + 1) % 2 = 1
      /\ (2 * k + 2) % 2 # 1
  OBVIOUS
<1> QED BY <1>1 DEF StreamPiece

\* A packet sent later changes no earlier frame, and no piece of one.
LEMMA EarlierPieces ==
    ASSUME sent \in Seq(Packets), NEW p \in Packets, sent' = Append(sent, p)
    PROVE  /\ \A k \in 1 .. Len(sent) : Frame(k)' = Frame(k)
           /\ \A n \in 1 .. 2 * Len(sent) : StreamPiece(n)' = StreamPiece(n)
<1>1. \A k \in 1 .. Len(sent) : Frame(k)' = Frame(k)
  BY DEF Frame
<1>2. ASSUME NEW n \in 1 .. 2 * Len(sent)
      PROVE  StreamPiece(n)' = StreamPiece(n)
  <2>1. (n + 1) \div 2 \in 1 .. Len(sent)
    OBVIOUS
  <2> QED BY <1>1, <2>1 DEF StreamPiece
<1> QED BY <1>1, <1>2

\* The frames the peer resends.
LEMMA ResentFrames ==
    ASSUME sent \in Seq(Packets), NEW k \in Nat, k =< Len(sent)
    PROVE  /\ FramesAfter(k) \in Seq(Frames)
           /\ Len(FramesAfter(k)) = Len(sent) - k
           /\ \A i \in 1 .. Len(sent) - k : FramesAfter(k)[i] = Frame(k + i)
<1>1. \A i \in 1 .. Len(sent) - k : Frame(k + i) \in Frames
  BY DEF Frame, Frames
<1> QED BY <1>1 DEF FramesAfter

\* The pieces read() takes from the wire with what it already has: together with
\* what is left they are what was there before.
LEMMA TakenPieces ==
    ASSUME PeerTypeOK, NEW n \in 0 .. Len(wire)
    PROVE  LET taken == SubSeq(wire, 1, n)
               left  == SubSeq(wire, n + 1, Len(wire))
           IN  /\ taken \in Seq(Pieces) /\ Len(taken) = n
               /\ left \in Seq(Pieces) /\ Len(left) = Len(wire) - n
               /\ partial \o taken \in Seq(Pieces)
               /\ Len(partial \o taken) = Len(partial) + n
               /\ \A i \in 1 .. Len(partial) + n :
                     (partial \o taken)[i] = (partial \o wire)[i]
               /\ \A i \in 1 .. Len(left) :
                     left[i] = (partial \o wire)[Len(partial) + n + i]
<1> DEFINE taken == SubSeq(wire, 1, n)
           left  == SubSeq(wire, n + 1, Len(wire))
<1>1. wire \in Seq(Pieces) /\ partial \in Seq(Pieces) /\ Len(wire) \in Nat /\ Len(partial) \in Nat
  BY DEF PeerTypeOK, TypeOK
<1>2. taken \in Seq(Pieces) /\ Len(taken) = n /\ \A i \in 1 .. n : taken[i] = wire[i]
  BY <1>1
<1>3. /\ left \in Seq(Pieces) /\ Len(left) = Len(wire) - n
      /\ \A i \in 1 .. Len(wire) - n : left[i] = wire[n + i]
  BY <1>1
<1> HIDE DEF taken, left
<1>4. partial \o taken \in Seq(Pieces) /\ Len(partial \o taken) = Len(partial) + n
  BY <1>1, <1>2
<1>5. \A i \in 1 .. Len(partial) + n : (partial \o taken)[i] = (partial \o wire)[i]
  BY <1>1, <1>2
<1>6. \A i \in 1 .. Len(left) : left[i] = (partial \o wire)[Len(partial) + n + i]
  BY <1>1, <1>3
<1> QED BY <1>2, <1>3, <1>4, <1>5, <1>6 DEF taken, left

\* read() that completes a frame from the socket has the peer's next frame, whole
\* and in its turn.
LEMMA ReadFrameDelivers ==
    ASSUME PInv, NEW n \in 0 .. Len(wire), ReadFrame(SubSeq(wire, 1, n))
    PROVE  /\ Len(partial) + n = 2
           /\ nonce = sequence_number
           /\ nonce < Len(sent)
           /\ delivered' = Append(delivered, sent[nonce + 1])
           /\ sequence_number' = sequence_number + 1
           /\ nonce' = nonce + 1
<1> DEFINE taken == SubSeq(wire, 1, n)
           b == partial \o taken
<1>1. /\ Len(partial) \in Nat /\ Len(wire) \in Nat /\ Len(sent) \in Nat
      /\ sequence_number \in Nat /\ nonce \in Nat
  BY DEF PInv, PeerTypeOK, TypeOK
<1>2. Len(taken) = n
  BY TakenPieces DEF PInv
<1>3. Len(partial) + n = 2
  BY <1>2 DEF ReadFrame
<1>4. nonce = sequence_number
  BY <1>1 DEF PInv, SequenceCountsCatchup, ReadFrame, FromSocket
<1>5. socket # NoStream
  BY DEF ReadFrame, FromSocket
<1>6. nonce < Len(sent)
  BY <1>1, <1>3, <1>4, <1>5 DEF PInv, WireContinuesPartial
<1>7. /\ b[1] = StreamPiece(2 * sequence_number + 1)
      /\ b[2] = StreamPiece(2 * sequence_number + 2)
  <2>1. b[1] = (partial \o wire)[1] /\ b[2] = (partial \o wire)[2]
    BY <1>3, TakenPieces DEF PInv
  <2>2. 1 \in 1 .. Len(partial) + Len(wire) /\ 2 \in 1 .. Len(partial) + Len(wire)
    BY <1>1, <1>3
  <2> QED BY <1>5, <2>1, <2>2 DEF PInv, WireContinuesPartial
<1>8. /\ b[1] = [frame |-> Frame(nonce + 1), part |-> 1]
      /\ b[2] = [frame |-> Frame(nonce + 1), part |-> 2]
  BY <1>1, <1>4, <1>7, PiecesOfFrame
<1> HIDE DEF b
<1>9. IsWhole(b) /\ Decrypts(b[1].frame) /\ b[1].frame.packet = sent[nonce + 1]
  BY <1>8 DEF IsWhole, Decrypts, Frame
<1>10. /\ Return(b[1].frame.packet)
       /\ sequence_number' = sequence_number + 1
       /\ nonce' = nonce + 1
  BY <1>9 DEF ReadFrame, b
<1> QED BY <1>3, <1>4, <1>6, <1>9, <1>10 DEF Return

\* read() that takes a frame of the catch-up has the peer's next one, too.
LEMMA ReadBufferedDelivers ==
    ASSUME PInv, ReadBuffered
    PROVE  /\ nonce < Len(sent)
           /\ delivered' = Append(delivered, sent[nonce + 1])
<1>1. /\ Len(local_buffer) \in Nat \ {0} /\ Len(sent) \in Nat /\ nonce \in Nat
      /\ Head(local_buffer) = local_buffer[1]
  BY DEF PInv, PeerTypeOK, TypeOK, ReadBuffered
<1>2. Head(local_buffer) = Frame(nonce + 1)
  BY <1>1 DEF PInv, SequenceCountsCatchup
<1>3. nonce < Len(sent)
  BY <1>1 DEF PInv, SequenceCountsCatchup
<1>4. Decrypts(Head(local_buffer)) /\ Head(local_buffer).packet = sent[nonce + 1]
  BY <1>2 DEF Decrypts, Frame
<1> QED BY <1>3, <1>4 DEF ReadBuffered, Return

-----------------------------------------------------------------------------
LEMMA PInvInit == PeerInit => PInv
BY DEF PeerInit, Init, PInv, PeerTypeOK, TypeOK, NonceMatchesDelivery,
       SequenceCountsCatchup, WireContinuesPartial

LEMMA PInvSend ==
    ASSUME PInv, NEW p \in Packets, PeerSend(p)
    PROVE  PInv'
<1> DEFINE f == [nonce |-> Len(sent) + 1, packet |-> p]
           new == <<[frame |-> f, part |-> 1], [frame |-> f, part |-> 2]>>
<1>1. /\ sent \in Seq(Packets) /\ wire \in Seq(Pieces) /\ partial \in Seq(Pieces)
      /\ Len(sent) \in Nat /\ Len(wire) \in Nat /\ Len(partial) \in Nat
      /\ sequence_number \in Nat /\ nonce \in Nat /\ Len(local_buffer) \in Nat
  BY DEF PInv, PeerTypeOK, TypeOK
<1>2. sent' = Append(sent, p) /\ UNCHANGED <<vars, peer_up>>
  BY DEF PeerSend
<1>3. /\ \A k \in 1 .. Len(sent) : Frame(k)' = Frame(k)
      /\ \A n \in 1 .. 2 * Len(sent) : StreamPiece(n)' = StreamPiece(n)
  BY <1>1, <1>2, EarlierPieces
<1>4. new \in Seq(Pieces) /\ Len(new) = 2
  BY <1>1 DEF Pieces, Frames
<1>5. PeerTypeOK'
  <2>1. sent' \in Seq(Packets)
    BY <1>1, <1>2
  <2>2. wire' \in Seq(Pieces)
    BY <1>1, <1>4 DEF PeerSend
  <2> QED BY <1>2, <2>1, <2>2 DEF PInv, PeerTypeOK, TypeOK, vars
<1>6. NonceMatchesDelivery'
  <2>1. nonce =< Len(sent)
    BY <1>1 DEF PInv, SequenceCountsCatchup
  <2>2. \A i \in 1 .. nonce : sent'[i] = sent[i]
    BY <1>1, <1>2, <2>1
  <2> QED BY <1>2, <2>2 DEF PInv, NonceMatchesDelivery, vars
<1>7. SequenceCountsCatchup'
  <2>1. \A i \in 1 .. Len(local_buffer) : Frame(nonce + i)' = Frame(nonce + i)
    <3>1. ASSUME NEW i \in 1 .. Len(local_buffer)
          PROVE  nonce + i \in 1 .. Len(sent)
      BY <1>1 DEF PInv, SequenceCountsCatchup
    <3> QED BY <1>2, <1>3, <3>1 DEF vars, Frame
  <2>2. Len(sent') = Len(sent) + 1
    BY <1>1, <1>2
  <2> QED BY <1>1, <1>2, <2>1, <2>2 DEF PInv, SequenceCountsCatchup, vars
<1>8. WireContinuesPartial'
  <2> SUFFICES ASSUME socket # NoStream
               PROVE  WireContinuesPartial'
    BY <1>2 DEF WireContinuesPartial, vars
  <2> DEFINE total == Len(partial) + Len(wire)
  <2>1. /\ Len(partial) < 2
        /\ 2 * sequence_number + total =< 2 * Len(sent)
        /\ peer_up => 2 * sequence_number + total = 2 * Len(sent)
        /\ \A i \in 1 .. total :
              (partial \o wire)[i] = StreamPiece(2 * sequence_number + i)
    BY <1>1 DEF PInv, WireContinuesPartial
  <2>2. Len(sent') = Len(sent) + 1
    BY <1>1, <1>2
  <2>3. \A i \in 1 .. total :
           (partial \o wire)[i] = StreamPiece(2 * sequence_number + i)'
    <3>1. ASSUME NEW i \in 1 .. total
          PROVE  2 * sequence_number + i \in 1 .. 2 * Len(sent)
      BY <1>1, <2>1
    <3>2. ASSUME NEW i \in 1 .. total
          PROVE  StreamPiece(2 * sequence_number + i)' = StreamPiece(2 * sequence_number + i)
      BY <1>2, <1>3, <3>1 DEF vars, StreamPiece, Frame
    <3> QED BY <2>1, <3>2
  <2>4. CASE ~peer_up
    <3>1. wire' = wire
      BY <2>4 DEF PeerSend
    <3> QED BY <1>1, <1>2, <2>1, <2>2, <2>3, <2>4, <3>1, SMTT(30) DEF WireContinuesPartial, vars
  <2>5. CASE peer_up
    <3>1. wire' = wire \o new
      BY <2>5 DEF PeerSend
    <3>2. Len(wire') = Len(wire) + 2
      BY <1>1, <1>4, <3>1
    <3>3. \A i \in 1 .. total : (partial \o wire')[i] = (partial \o wire)[i]
      BY <1>1, <1>4, <3>1
    <3>4. (partial \o wire')[total + 1] = new[1] /\ (partial \o wire')[total + 2] = new[2]
      BY <1>1, <1>4, <3>1
    <3>5. \A k \in Nat : StreamPiece(k)' =
             [frame |-> [nonce |-> (k + 1) \div 2, packet |-> sent'[(k + 1) \div 2]],
              part  |-> IF k % 2 = 1 THEN 1 ELSE 2]
      BY DEF StreamPiece, Frame
    <3>6. PICK m \in Nat : m = Len(sent)
      BY <1>1
    <3>7. sent'[m + 1] = p
      BY <1>1, <1>2, <3>6
    <3>8. /\ StreamPiece(2 * m + 1)' = new[1]
          /\ StreamPiece(2 * m + 2)' = new[2]
      <4>1. /\ ((2 * m + 1) + 1) \div 2 = m + 1
            /\ ((2 * m + 2) + 1) \div 2 = m + 1
            /\ (2 * m + 1) % 2 = 1
            /\ (2 * m + 2) % 2 # 1
            /\ 2 * m + 1 \in Nat /\ 2 * m + 2 \in Nat
        OBVIOUS
      <4> QED BY <3>5, <3>6, <3>7, <4>1
    <3>9. 2 * sequence_number + total = 2 * m
      BY <2>1, <2>5, <3>6
    <3>10. ASSUME NEW i \in 1 .. total + 2
           PROVE  (partial \o wire')[i] = StreamPiece(2 * sequence_number + i)'
      <4>1. i \in 1 .. total \/ i = total + 1 \/ i = total + 2
        BY <1>1, SMTT(30)
      <4>2. 2 * sequence_number + (total + 1) = 2 * m + 1
        BY <1>1, <3>6, <3>9
      <4>3. 2 * sequence_number + (total + 2) = 2 * m + 2
        BY <1>1, <3>6, <3>9, SMTT(30)
      <4>4. UNCHANGED sequence_number
        BY <1>2 DEF vars
      <4>5. CASE i \in 1 .. total
        BY <2>3, <3>3, <4>5
      <4>6. CASE i = total + 1
        BY <3>4, <3>8, <4>2, <4>4, <4>6
      <4>7. CASE i = total + 2
        BY <3>4, <3>8, <4>3, <4>4, <4>7
      <4> QED BY <4>1, <4>5, <4>6, <4>7
    <3>11. \A i \in 1 .. Len(partial) + Len(wire') :
              (partial \o wire')[i] = StreamPiece(2 * sequence_number + i)'
      BY <1>1, <3>2, <3>10
    <3>12. 2 * sequence_number + Len(partial) + Len(wire') = 2 * Len(sent')
      BY <1>1, <2>2, <3>2, <3>6, <3>9, SMTT(30)
    <3>13. UNCHANGED <<socket, sequence_number, partial, peer_up>>
      BY <1>2 DEF vars
    <3> QED BY <1>1, <2>1, <2>2, <3>2, <3>11, <3>12, <3>13, SMTT(30) DEF WireContinuesPartial
  <2> QED BY <2>4, <2>5
<1> QED BY <1>5, <1>6, <1>7, <1>8 DEF PInv

\* The connection ends: the wire is cut short.
LEMMA PInvBreak ==
    ASSUME PInv, Break
    PROVE  PInv'
<1>1. /\ wire \in Seq(Pieces) /\ partial \in Seq(Pieces)
      /\ Len(sent) \in Nat /\ Len(wire) \in Nat /\ Len(partial) \in Nat
      /\ sequence_number \in Nat
  BY DEF PInv, PeerTypeOK, TypeOK
<1>2. PICK n \in 0 .. Len(wire) : wire' = SubSeq(wire, 1, n)
  BY DEF Break
<1>3. peer_up' = FALSE /\ UNCHANGED <<vars, sent>>
  BY DEF Break
<1>4. wire' \in Seq(Pieces) /\ Len(wire') = n
  BY <1>1, <1>2
<1>5. \A i \in 1 .. Len(partial) + n : (partial \o wire')[i] = (partial \o wire)[i]
  BY <1>1, <1>2, <1>4
<1>6. PeerTypeOK' /\ NonceMatchesDelivery' /\ SequenceCountsCatchup'
  BY <1>3, <1>4 DEF PInv, PeerTypeOK, TypeOK, vars, NonceMatchesDelivery,
                    SequenceCountsCatchup, Frame
<1>7. WireContinuesPartial'
  <2>1. \A k : StreamPiece(k)' = StreamPiece(k)
    BY <1>3 DEF StreamPiece, Frame
  <2>2. UNCHANGED <<socket, sequence_number, partial, sent>>
    BY <1>3 DEF vars
  <2>3. ASSUME socket # NoStream, NEW i \in 1 .. Len(partial) + Len(wire')
        PROVE  (partial \o wire')[i] = StreamPiece(2 * sequence_number + i)
    <3>1. i \in 1 .. Len(partial) + n /\ i \in 1 .. Len(partial) + Len(wire)
      BY <1>1, <1>4
    <3> QED BY <1>5, <2>3, <3>1 DEF PInv, WireContinuesPartial
  <2>4. socket # NoStream => /\ Len(partial) < 2
                             /\ 2 * sequence_number + Len(partial) + Len(wire')
                                   =< 2 * Len(sent)
    BY <1>1, <1>4 DEF PInv, WireContinuesPartial
  <2> QED BY <1>3, <2>1, <2>2, <2>3, <2>4 DEF WireContinuesPartial
<1> QED BY <1>6, <1>7 DEF PInv

LEMMA PInvReadBuffered ==
    ASSUME PInv, ClientReadBuffered
    PROVE  PInv'
<1>1. /\ local_buffer \in Seq(Frames) /\ local_buffer # << >>
      /\ delivered \in Seq(Packets) /\ sent \in Seq(Packets)
      /\ Len(local_buffer) \in Nat \ {0} /\ Len(sent) \in Nat
      /\ nonce \in Nat /\ sequence_number \in Nat
  BY DEF PInv, PeerTypeOK, TypeOK, ClientReadBuffered, ReadBuffered
<1>2. /\ nonce' = nonce + 1 /\ local_buffer' = Tail(local_buffer)
      /\ UNCHANGED <<socket, sequence_number, partial, sent, wire, peer_up>>
  BY DEF ClientReadBuffered, ReadBuffered
<1>3. /\ nonce < Len(sent)
      /\ delivered' = Append(delivered, sent[nonce + 1])
  BY ReadBufferedDelivers DEF ClientReadBuffered
<1>4. /\ local_buffer' \in Seq(Frames)
      /\ Len(local_buffer') = Len(local_buffer) - 1
      /\ \A i \in 1 .. Len(local_buffer) - 1 : local_buffer'[i] = local_buffer[i + 1]
  BY <1>1, <1>2
<1>5. PeerTypeOK'
  <2>1. delivered' \in Seq(Packets)
    BY <1>1, <1>3
  <2> QED BY <1>1, <1>2, <1>4, <2>1 DEF PInv, PeerTypeOK, TypeOK
<1>6. NonceMatchesDelivery'
  BY <1>1, <1>2, <1>3 DEF PInv, NonceMatchesDelivery
<1>7. SequenceCountsCatchup'
  <2>1. \A i \in 1 .. Len(local_buffer) : local_buffer[i] = Frame(nonce + i)
    BY DEF PInv, SequenceCountsCatchup
  <2>2. ASSUME NEW i \in 1 .. Len(local_buffer')
        PROVE  local_buffer'[i] = Frame(nonce' + i)
    <3>1. i \in 1 .. Len(local_buffer) - 1 /\ i + 1 \in 1 .. Len(local_buffer)
      BY <1>1, <1>4
    <3>2. nonce' + i = nonce + (i + 1)
      BY <1>1, <1>2, <3>1
    <3> QED BY <1>4, <2>1, <3>1, <3>2
  <2>3. \A k : Frame(k)' = Frame(k)
    BY <1>2 DEF Frame
  <2>4. sequence_number' = nonce' + Len(local_buffer') /\ sequence_number' =< Len(sent')
    BY <1>1, <1>2, <1>4 DEF PInv, SequenceCountsCatchup
  <2> QED BY <1>2, <2>2, <2>4 DEF SequenceCountsCatchup, Frame
<1>8. WireContinuesPartial'
  BY <1>2 DEF PInv, WireContinuesPartial, StreamPiece, Frame
<1> QED BY <1>5, <1>6, <1>7, <1>8 DEF PInv

LEMMA PInvReadFrame ==
    ASSUME PInv, NEW n \in 0 .. Len(wire), ReadFrame(SubSeq(wire, 1, n)),
           wire' = SubSeq(wire, n + 1, Len(wire)), UNCHANGED <<sent, peer_up>>
    PROVE  PInv'
<1>1. /\ wire \in Seq(Pieces) /\ partial \in Seq(Pieces)
      /\ delivered \in Seq(Packets) /\ sent \in Seq(Packets)
      /\ Len(sent) \in Nat /\ Len(wire) \in Nat /\ Len(partial) \in Nat
      /\ nonce \in Nat /\ sequence_number \in Nat
  BY DEF PInv, PeerTypeOK, TypeOK
<1>2. /\ socket # NoStream /\ local_buffer = << >>
      /\ partial' = << >> /\ UNCHANGED <<socket, local_buffer>>
  BY DEF ReadFrame, FromSocket
<1>3. /\ Len(partial) + n = 2 /\ nonce = sequence_number /\ nonce < Len(sent)
      /\ delivered' = Append(delivered, sent[nonce + 1])
      /\ sequence_number' = sequence_number + 1 /\ nonce' = nonce + 1
  BY ReadFrameDelivers
<1>4. /\ wire' \in Seq(Pieces) /\ Len(wire') = Len(wire) - n
      /\ \A i \in 1 .. Len(wire') : wire'[i] = (partial \o wire)[Len(partial) + n + i]
  BY TakenPieces DEF PInv
<1>5. PeerTypeOK'
  <2>1. delivered' \in Seq(Packets)
    BY <1>1, <1>3
  <2> QED BY <1>1, <1>2, <1>3, <1>4, <2>1 DEF PInv, PeerTypeOK, TypeOK
<1>6. NonceMatchesDelivery'
  BY <1>1, <1>3 DEF PInv, NonceMatchesDelivery
<1>7. SequenceCountsCatchup'
  BY <1>1, <1>2, <1>3 DEF PInv, SequenceCountsCatchup
<1>8. WireContinuesPartial'
  <2>1. \A k : StreamPiece(k)' = StreamPiece(k)
    BY DEF StreamPiece, Frame
  <2>2. ASSUME NEW i \in 1 .. Len(wire')
        PROVE  (partial' \o wire')[i] = StreamPiece(2 * sequence_number' + i)
    <3>1. i + 2 \in 1 .. Len(partial) + Len(wire)
      BY <1>1, <1>3, <1>4
    <3>2. wire'[i] = (partial \o wire)[i + 2]
      <4>1. Len(partial) + n + i = i + 2
        BY <1>1, <1>3, SMTT(30)
      <4> QED BY <1>4, <4>1
    <3>3. (partial \o wire)[i + 2] = StreamPiece(2 * sequence_number + (i + 2))
      BY <1>2, <3>1 DEF PInv, WireContinuesPartial
    <3>4. 2 * sequence_number + (i + 2) = 2 * sequence_number' + i
      BY <1>1, <1>3
    <3>5. (partial' \o wire')[i] = wire'[i]
      BY <1>2, <1>4
    <3> QED BY <3>2, <3>3, <3>4, <3>5
  <2>3. /\ Len(partial') = 0
        /\ 2 * sequence_number + Len(partial) + Len(wire) =< 2 * Len(sent)
        /\ peer_up => 2 * sequence_number + Len(partial) + Len(wire) = 2 * Len(sent)
    BY <1>2 DEF PInv, WireContinuesPartial
  <2>4. 2 * sequence_number' + Len(partial') + Len(wire')
          = 2 * sequence_number + Len(partial) + Len(wire)
    <3>1. /\ sequence_number' = sequence_number + 1 /\ Len(partial') = 0
          /\ Len(wire') = Len(wire) - n /\ Len(partial) + n = 2
      BY <1>3, <1>4, <2>3
    <3>2. 2 * (sequence_number + 1) + 0 + (Len(wire) - n)
            = 2 * sequence_number + Len(partial) + Len(wire)
      <4>1. n \in Nat
        BY <1>1
      <4> QED BY <1>1, <3>1, <4>1, SMTT(30)
    <3> QED BY <3>1, <3>2
  <2>5. Len(partial') + Len(wire') = Len(wire')
    BY <1>4, <2>3
  <2>6. /\ 2 * sequence_number' + Len(partial') + Len(wire') =< 2 * Len(sent')
        /\ peer_up' => 2 * sequence_number' + Len(partial') + Len(wire') = 2 * Len(sent')
    BY <2>3, <2>4
  <2> QED BY <2>1, <2>2, <2>3, <2>5, <2>6 DEF WireContinuesPartial, StreamPiece, Frame
<1> QED BY <1>5, <1>6, <1>7, <1>8 DEF PInv

LEMMA PInvReadPartial ==
    ASSUME PInv, ClientReadPartial
    PROVE  PInv'
<1>1. wire \in Seq(Pieces) /\ partial \in Seq(Pieces)
  BY DEF PInv, PeerTypeOK, TypeOK
<1>2. /\ Len(partial) + Len(wire) < 2
      /\ partial' = partial \o wire /\ wire' = << >>
      /\ UNCHANGED <<socket, sequence_number, nonce, local_buffer, delivered,
                     sent, peer_up>>
  BY DEF ClientReadPartial, ReadPartial
<1>3. /\ partial' \in Seq(Pieces) /\ Len(partial') = Len(partial) + Len(wire)
      /\ Len(wire') = 0 /\ partial' \o wire' = partial \o wire
  BY <1>1, <1>2
<1>4. PeerTypeOK' /\ NonceMatchesDelivery' /\ SequenceCountsCatchup'
  BY <1>2, <1>3 DEF PInv, PeerTypeOK, TypeOK, NonceMatchesDelivery,
                    SequenceCountsCatchup, Frame
<1>5. WireContinuesPartial'
  <2>1. \A k : StreamPiece(k)' = StreamPiece(k)
    BY <1>2 DEF StreamPiece, Frame
  <2>2. /\ Len(partial') + Len(wire') = Len(partial) + Len(wire)
        /\ 2 * sequence_number + Len(partial') + Len(wire')
              = 2 * sequence_number + Len(partial) + Len(wire)
    BY <1>1, <1>3 DEF PInv, PeerTypeOK, TypeOK
  <2>3. UNCHANGED <<socket, sequence_number, sent, peer_up>> /\ Len(partial') < 2
    BY <1>2, <1>3
  <2>4. socket # NoStream =>
           \A i \in 1 .. Len(partial') + Len(wire') :
              (partial' \o wire')[i] = StreamPiece(2 * sequence_number + i)
    BY <1>3, <2>2 DEF PInv, WireContinuesPartial
  <2>5. socket # NoStream =>
           /\ 2 * sequence_number + Len(partial') + Len(wire') =< 2 * Len(sent)
           /\ peer_up => 2 * sequence_number + Len(partial') + Len(wire') = 2 * Len(sent)
    BY <2>2 DEF PInv, WireContinuesPartial
  <2>6. socket' # NoStream =>
           \A i \in 1 .. Len(partial') + Len(wire') :
              (partial' \o wire')[i] = StreamPiece(2 * sequence_number + i)'
    BY <2>1, <2>3, <2>4
  <2>7. socket' # NoStream =>
           /\ 2 * sequence_number' + Len(partial') + Len(wire') =< 2 * Len(sent')
           /\ peer_up' => 2 * sequence_number' + Len(partial') + Len(wire') = 2 * Len(sent')
    BY <2>3, <2>5
  <2> QED BY <2>3, <2>6, <2>7 DEF WireContinuesPartial
<1> QED BY <1>4, <1>5 DEF PInv

\* A new connection, on which the wire starts where the catch-up ends.
LEMMA PInvReconnect ==
    ASSUME PInv, Reconnect
    PROVE  PInv'
<1>1. /\ sent \in Seq(Packets) /\ local_buffer \in Seq(Frames)
      /\ Len(sent) \in Nat /\ Len(local_buffer) \in Nat
      /\ nonce \in Nat /\ sequence_number \in Nat
      /\ sequence_number = nonce + Len(local_buffer)
      /\ sequence_number =< Len(sent)
  BY DEF PInv, PeerTypeOK, TypeOK, SequenceCountsCatchup
<1> DEFINE catchup == FramesAfter(sequence_number)
<1>2. /\ catchup \in Seq(Frames) /\ Len(catchup) = Len(sent) - sequence_number
      /\ \A i \in 1 .. Len(sent) - sequence_number : catchup[i] = Frame(sequence_number + i)
  BY <1>1, ResentFrames
<1>3. PICK s \in Streams : Revive(s, catchup)
  BY DEF Reconnect
<1> HIDE DEF catchup
<1>4. /\ partial' = << >> /\ local_buffer' = local_buffer \o catchup
      /\ sequence_number' = sequence_number + Len(catchup) /\ socket' = s
      /\ UNCHANGED <<nonce, delivered, sent>>
      /\ wire' = << >> /\ peer_up' = TRUE
  BY <1>3 DEF Revive, Reconnect
<1>5. /\ local_buffer' \in Seq(Frames)
      /\ Len(local_buffer') = Len(local_buffer) + Len(catchup)
      /\ sequence_number' = Len(sent)
  BY <1>1, <1>2, <1>4
<1>6. PeerTypeOK' /\ NonceMatchesDelivery'
  BY <1>1, <1>4, <1>5 DEF PInv, PeerTypeOK, TypeOK, NonceMatchesDelivery
<1>7. SequenceCountsCatchup'
  <2>1. ASSUME NEW i \in 1 .. Len(local_buffer')
        PROVE  local_buffer'[i] = Frame(nonce + i)
    <3>1. CASE i =< Len(local_buffer)
      BY <1>1, <1>2, <1>4, <3>1 DEF PInv, SequenceCountsCatchup
    <3>2. CASE i > Len(local_buffer)
      <4> DEFINE j == i - Len(local_buffer)
      <4>1. j \in 1 .. Len(sent) - sequence_number
        BY <1>1, <1>2, <1>5, <3>2
      <4>2. local_buffer'[i] = catchup[j]
        BY <1>1, <1>2, <1>4, <1>5, <3>2
      <4>3. sequence_number + j = nonce + i
        BY <1>1, <1>5
      <4> QED BY <1>2, <4>1, <4>2, <4>3
    <3> QED BY <1>1, <1>5, <3>1, <3>2
  <2>2. sequence_number' = nonce' + Len(local_buffer') /\ sequence_number' =< Len(sent')
    BY <1>1, <1>2, <1>4, <1>5
  <2> QED BY <1>4, <2>1, <2>2 DEF SequenceCountsCatchup, Frame
<1>8. WireContinuesPartial'
  <2>1. Len(partial') = 0 /\ Len(wire') = 0
    BY <1>4
  <2>2. 2 * sequence_number' + 0 + 0 = 2 * Len(sent')
    BY <1>1, <1>4, <1>5
  <2>3. 1 .. 0 + 0 = {}
    OBVIOUS
  <2> QED BY <1>1, <1>4, <2>1, <2>2, <2>3 DEF WireContinuesPartial
<1> QED BY <1>6, <1>7, <1>8 DEF PInv

\* What is left changes nothing the invariant is about but the socket, which
\* goes away.
LEMMA PInvRest ==
    ASSUME PInv, \/ ClientIdle
                 \/ ClientInvalidate
                 \/ UNCHANGED peerVars
    PROVE  PInv'
<1>1. /\ socket' \in {socket, NoStream}
      /\ UNCHANGED <<sequence_number, nonce, partial, local_buffer, delivered,
                     sent, wire, peer_up>>
  BY DEF ClientIdle, ReadIdle, ClientInvalidate, InvalidateSocket, peerVars, vars
<1>2. PeerTypeOK' /\ NonceMatchesDelivery' /\ SequenceCountsCatchup'
  BY <1>1 DEF PInv, PeerTypeOK, TypeOK, NonceMatchesDelivery, SequenceCountsCatchup, Frame
<1>3. \A k : StreamPiece(k)' = StreamPiece(k)
  BY <1>1 DEF StreamPiece, Frame
<1>4. WireContinuesPartial'
  BY <1>1, <1>3 DEF PInv, WireContinuesPartial
<1> QED BY <1>2, <1>4 DEF PInv

LEMMA PInvNext == PInv /\ [PeerNext]_peerVars => PInv'
<1> SUFFICES ASSUME PInv, [PeerNext]_peerVars PROVE PInv'
  OBVIOUS
<1>1. CASE \E p \in Packets : PeerSend(p)
  BY <1>1, PInvSend
<1>2. CASE Break
  BY <1>2, PInvBreak
<1>3. CASE ClientReadBuffered
  BY <1>3, PInvReadBuffered
<1>4. CASE ClientReadFrame
  BY <1>4, PInvReadFrame DEF ClientReadFrame
<1>5. CASE ClientReadPartial
  BY <1>5, PInvReadPartial
<1>6. CASE Reconnect
  BY <1>6, PInvReconnect
<1>7. CASE ClientIdle \/ ClientInvalidate \/ UNCHANGED peerVars
  BY <1>7, PInvRest
<1> QED BY <1>1, <1>2, <1>3, <1>4, <1>5, <1>6, <1>7 DEF PeerNext

-----------------------------------------------------------------------------
\* Every step of the stream is one of the pipe, or none at all.
LEMMA StepPipe ==
    ASSUME PInv, [PeerNext]_peerVars
    PROVE  [Pipe!Next]_<<sent, delivered>>
<1>1. Len(delivered) = nonce
  BY DEF PInv, NonceMatchesDelivery
<1>2. CASE \E p \in Packets : PeerSend(p)
  BY <1>2 DEF PeerSend, vars, Pipe!Next, Pipe!Send
<1>3. CASE ClientReadBuffered
  <2>1. nonce < Len(sent) /\ delivered' = Append(delivered, sent[nonce + 1])
    BY <1>3, ReadBufferedDelivers DEF ClientReadBuffered
  <2> QED BY <1>1, <1>3, <2>1 DEF ClientReadBuffered, Pipe!Next, Pipe!Deliver
<1>4. CASE ClientReadFrame
  <2>1. nonce < Len(sent) /\ delivered' = Append(delivered, sent[nonce + 1])
    BY <1>4, ReadFrameDelivers DEF ClientReadFrame
  <2> QED BY <1>1, <1>4, <2>1 DEF ClientReadFrame, Pipe!Next, Pipe!Deliver
<1>5. CASE \/ Break \/ ClientReadPartial \/ Reconnect
           \/ ClientIdle \/ ClientInvalidate \/ UNCHANGED peerVars
  BY <1>5 DEF Break, ClientReadPartial, ReadPartial, Reconnect, Revive, ClientIdle,
              ReadIdle, ClientInvalidate, InvalidateSocket, peerVars, vars
<1> QED BY <1>2, <1>3, <1>4, <1>5 DEF PeerNext

\* The client hands over what the server sent, in order and each packet once,
\* however many connections it takes and wherever they break.
THEOREM PipeImplemented == PeerSpec => ImplementsEternalPipe
<1>1. PeerInit => PInv /\ Pipe!Init
  BY PInvInit DEF PeerInit, Init, Pipe!Init
<1>2. PInv /\ [PeerNext]_peerVars => PInv' /\ [Pipe!Next]_<<sent, delivered>>
  BY PInvNext, StepPipe
<1> QED BY <1>1, <1>2, PTL DEF PeerSpec, ImplementsEternalPipe, Pipe!Spec

\* The variables keep their types for any number of packets and connections.
THEOREM PeerTypeCorrect == PeerSpec => []PeerTypeOK
<1>1. PInv => PeerTypeOK
  BY DEF PInv
<1> QED BY <1>1, PInvInit, PInvNext, PTL DEF PeerSpec

\* No decryption fails: the reader's nonce is never ahead of what it returned,
\* so the next frame read() comes to is the one its nonce fits.
THEOREM NonceInStep == PeerSpec => []NonceMatchesDelivery
<1>1. PInv => NonceMatchesDelivery
  BY DEF PInv
<1> QED BY <1>1, PInvInit, PInvNext, PTL DEF PeerSpec

\* The number the client names when it comes back stands for the frames it has
\* returned and the catch-up it holds, whatever is left of a frame.
THEOREM SequenceIsExact == PeerSpec => []SequenceCountsCatchup
<1>1. PInv => SequenceCountsCatchup
  BY DEF PInv
<1> QED BY <1>1, PInvInit, PInvNext, PTL DEF PeerSpec

\* Bytes of an old connection and of a new one are never put together: what the
\* reader has of a frame continues on the wire.
THEOREM FramesNeverMixed == PeerSpec => []WireContinuesPartial
<1>1. PInv => WireContinuesPartial
  BY DEF PInv
<1> QED BY <1>1, PInvInit, PInvNext, PTL DEF PeerSpec
=============================================================================
