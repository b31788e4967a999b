------------------------- MODULE BackedWriterProofs -------------------------
(***************************************************************************)
(* The writer's invariants for any packets, sizes and thresholds, and any  *)
(* number of packets.                                                      *)
(***************************************************************************)
EXTENDS BackedWriter, TLAPS

USE LengthAssumption, SizesAssumption, NoStreamAssumption

\* A size is a natural number.
LEMMA FrameLengthNat ==
    ASSUME NEW f \in Frames
    PROVE  FrameLength(f) \in Nat
BY DEF FrameLength, Frames

\* The queue with the new frame in front of it.
LEMMA PushedProperties ==
    ASSUME TypeOK, NEW p \in Packets
    PROVE  /\ Encrypted(p) \in Frames
           /\ Pushed(p) \in Seq(Frames)
           /\ Len(Pushed(p)) = Len(backup) + 1
           /\ Pushed(p)[1] = Encrypted(p)
           /\ \A i \in 2 .. Len(backup) + 1 : Pushed(p)[i] = backup[i - 1]
<1>1. Encrypted(p) \in Frames
  BY DEF TypeOK, Encrypted, Frames
<1> QED BY <1>1 DEF TypeOK, Pushed

\* What accepting a packet does to the backup: some number of the newest frames
\* survive, all of them if the socket is gone, few enough if it is there.
LEMMA AcceptKeeps ==
    ASSUME TypeOK, NEW p \in Packets, Accept(p)
    PROVE  \E n \in 0 .. Len(backup) + 1 :
              /\ backup' = SubSeq(Pushed(p), 1, n)
              /\ backup_size' = Left(Pushed(p), backup_size + FrameLength(Encrypted(p)), n)
              /\ socket = NoStream => n = Len(backup) + 1
              /\ socket # NoStream => backup_size' =< MAX_BACKUP_BYTES
<1> DEFINE size == backup_size + FrameLength(Encrypted(p))
<1>1. PICK n \in IF socket = NoStream THEN {Len(Pushed(p))} ELSE Kept(Pushed(p), size) :
         /\ backup' = SubSeq(Pushed(p), 1, n)
         /\ backup_size' = Left(Pushed(p), size, n)
  BY DEF Accept
<1>2. n \in 0 .. Len(Pushed(p))
  BY <1>1, PushedProperties DEF Kept, TypeOK
<1>3. socket = NoStream => n = Len(Pushed(p))
  BY <1>1
<1>4. socket # NoStream => Left(Pushed(p), size, n) =< MAX_BACKUP_BYTES
  BY <1>1 DEF Kept
<1> QED BY <1>1, <1>2, <1>3, <1>4, PushedProperties

\* The frames of the backup after a packet has been accepted.
LEMMA AcceptedBackup ==
    ASSUME TypeOK, NEW p \in Packets, NEW n \in 0 .. Len(backup) + 1,
           backup' = SubSeq(Pushed(p), 1, n)
    PROVE  /\ backup' \in Seq(Frames)
           /\ Len(backup') = n
           /\ \A i \in 1 .. n : backup'[i] = Pushed(p)[i]
BY PushedProperties DEF TypeOK

-----------------------------------------------------------------------------
\* The offsets of neighbours telescope, so that Bytes, a difference of two of
\* them, is the size of a run of frames.
OffsetsTelescope ==
    /\ backup # << >> => backup[1].at + FrameLength(backup[1]) = offset
    /\ \A i \in 1 .. Len(backup) - 1 :
          backup[i + 1].at + FrameLength(backup[i + 1]) = backup[i].at

\* Of two frames of the backup the older one ends before the newer one starts.
\* OffsetsTelescope says it of neighbours; that it holds of any two would need
\* an induction on their distance, so it is an invariant of its own.
OffsetsOrdered ==
    \A i, j \in 1 .. Len(backup) :
        i < j => backup[j].at + FrameLength(backup[j]) =< backup[i].at

\* The inductive invariant.  backup_size \in Nat, a part of TypeOK, rests on the
\* size being exact, which rests on the offsets.
IInv == /\ TypeOK
        /\ BackupIsRecentHistory
        /\ OffsetsTelescope
        /\ OffsetsOrdered
        /\ BackupSizeIsExact
        /\ OutageBufferBounded

\* A new frame goes in front of the history and evictions take from its tail.
LEMMA AcceptHistory ==
    ASSUME IInv, NEW p \in Packets, Accept(p)
    PROVE  BackupIsRecentHistory'
<1>1. PICK n \in 0 .. Len(backup) + 1 : backup' = SubSeq(Pushed(p), 1, n)
  BY AcceptKeeps DEF IInv
<1>2. /\ Len(backup') = n
      /\ \A i \in 1 .. n : backup'[i] = Pushed(p)[i]
  BY <1>1, AcceptedBackup DEF IInv
<1>3. /\ nonce' = nonce + 1
      /\ sequence_number' = sequence_number + 1
      /\ accepted' = Append(accepted, p)
  BY DEF Accept
<1>4. Len(accepted') = sequence_number' /\ nonce' = sequence_number'
  BY <1>3 DEF IInv, TypeOK, BackupIsRecentHistory
<1>5. n =< sequence_number'
  BY <1>3 DEF IInv, TypeOK, BackupIsRecentHistory
<1>6. ASSUME NEW i \in 1 .. n
      PROVE  /\ backup'[i].nonce = sequence_number' + 1 - i
             /\ backup'[i].packet = accepted'[sequence_number' + 1 - i]
  <2>1. CASE i = 1
    <3>1. backup'[i] = Encrypted(p)
      BY <1>2, <2>1, PushedProperties DEF IInv
    <3>2. accepted'[sequence_number + 1] = p
      BY <1>3 DEF IInv, TypeOK, BackupIsRecentHistory
    <3>3. Encrypted(p).nonce = sequence_number + 1 /\ Encrypted(p).packet = p
      BY DEF IInv, BackupIsRecentHistory, Encrypted
    <3>4. sequence_number' + 1 - i = sequence_number + 1
      BY <1>3, <2>1 DEF IInv, TypeOK
    <3> QED BY <3>1, <3>2, <3>3, <3>4
  <2>2. CASE i # 1
    <3>1. i - 1 \in 1 .. Len(backup) /\ backup'[i] = backup[i - 1]
      <4>1. i \in 2 .. Len(backup) + 1
        BY <1>1, <2>2 DEF IInv, TypeOK
      <4> QED BY <1>2, <4>1, PushedProperties DEF IInv
    <3>2. /\ backup[i - 1].nonce = sequence_number + 1 - (i - 1)
          /\ backup[i - 1].packet = accepted[sequence_number + 1 - (i - 1)]
      BY <3>1 DEF IInv, BackupIsRecentHistory
    <3>3. sequence_number + 1 - (i - 1) \in 1 .. Len(accepted)
      BY <3>1 DEF IInv, TypeOK, BackupIsRecentHistory
    <3>4. accepted'[sequence_number + 1 - (i - 1)] = accepted[sequence_number + 1 - (i - 1)]
      BY <1>3, <3>3 DEF IInv, TypeOK
    <3>5. sequence_number' + 1 - i = sequence_number + 1 - (i - 1)
      BY <1>3 DEF IInv, TypeOK
    <3> QED BY <3>1, <3>2, <3>4, <3>5
  <2> QED BY <2>1, <2>2
<1> QED BY <1>2, <1>4, <1>5, <1>6 DEF BackupIsRecentHistory

\* The new frame starts where the last one ended.
LEMMA AcceptOffsets ==
    ASSUME IInv, NEW p \in Packets, Accept(p)
    PROVE  OffsetsTelescope' /\ OffsetsOrdered'
<1> USE DEF IInv
<1>1. PICK n \in 0 .. Len(backup) + 1 : backup' = SubSeq(Pushed(p), 1, n)
  BY AcceptKeeps
<1>2. /\ backup' \in Seq(Frames)
      /\ Len(backup') = n
      /\ \A i \in 1 .. n : backup'[i] = IF i = 1 THEN Encrypted(p) ELSE backup[i - 1]
  BY <1>1, AcceptedBackup, PushedProperties DEF TypeOK
<1>3. /\ Encrypted(p).at = offset
      /\ offset' = offset + FrameLength(Encrypted(p))
  BY DEF Accept, Encrypted
<1>4. \A j \in 1 .. Len(backup) :
         /\ backup[j] \in Frames
         /\ backup[j].at \in Nat
         /\ FrameLength(backup[j]) \in Nat
         /\ backup[j].at + FrameLength(backup[j]) =< offset
  <2> SUFFICES ASSUME NEW j \in 1 .. Len(backup)
               PROVE  /\ backup[j] \in Frames
                      /\ backup[j].at \in Nat
                      /\ FrameLength(backup[j]) \in Nat
                      /\ backup[j].at + FrameLength(backup[j]) =< offset
    OBVIOUS
  <2>1. backup[j] \in Frames /\ backup[1] \in Frames
    BY DEF TypeOK
  <2>2. /\ backup[j].at \in Nat
        /\ backup[1].at \in Nat
        /\ FrameLength(backup[j]) \in Nat
        /\ FrameLength(backup[1]) \in Nat
    BY <2>1, FrameLengthNat DEF Frames
  <2>3. backup[1].at + FrameLength(backup[1]) = offset
    BY DEF OffsetsTelescope, TypeOK
  <2>4. 1 < j => backup[j].at + FrameLength(backup[j]) =< backup[1].at
    BY DEF OffsetsOrdered, TypeOK
  <2> QED BY <2>1, <2>2, <2>3, <2>4
<1>5. backup' # << >> => backup'[1].at + FrameLength(backup'[1]) = offset'
  BY <1>2, <1>3
<1>6. ASSUME NEW i \in 1 .. n - 1
      PROVE  backup'[i + 1].at + FrameLength(backup'[i + 1]) = backup'[i].at
  <2>1. i \in 1 .. Len(backup) /\ backup'[i + 1] = backup[i]
    BY <1>2 DEF TypeOK
  <2>2. CASE i = 1
    <3>1. backup'[i] = Encrypted(p)
      BY <1>2, <2>2
    <3>2. backup[1].at + FrameLength(backup[1]) = offset
      BY <2>1 DEF OffsetsTelescope, TypeOK
    <3> QED BY <1>3, <2>1, <2>2, <3>1, <3>2
  <2>3. CASE i # 1
    <3>1. i - 1 \in 1 .. Len(backup) - 1 /\ backup'[i] = backup[i - 1] /\ (i - 1) + 1 = i
      BY <1>2, <2>1, <2>3 DEF TypeOK
    <3>2. backup[(i - 1) + 1].at + FrameLength(backup[(i - 1) + 1]) = backup[i - 1].at
      BY <3>1 DEF OffsetsTelescope
    <3> QED BY <2>1, <3>1, <3>2
  <2> QED BY <2>2, <2>3
<1>7. ASSUME NEW i \in 1 .. n, NEW j \in 1 .. n, i < j
      PROVE  backup'[j].at + FrameLength(backup'[j]) =< backup'[i].at
  <2>1. j - 1 \in 1 .. Len(backup) /\ backup'[j] = backup[j - 1]
    BY <1>2, <1>7 DEF TypeOK
  <2>2. CASE i = 1
    BY <1>2, <1>3, <1>4, <2>1, <2>2
  <2>3. CASE i # 1
    <3>1. i - 1 \in 1 .. Len(backup) /\ backup'[i] = backup[i - 1] /\ i - 1 < j - 1
      BY <1>2, <1>7, <2>1, <2>3 DEF TypeOK
    <3> QED BY <2>1, <3>1 DEF OffsetsOrdered
  <2> QED BY <2>2, <2>3
<1> QED BY <1>2, <1>5, <1>6, <1>7 DEF OffsetsTelescope, OffsetsOrdered

\* Neighbours in the queue with the new frame touch.
LEMMA PushedTelescopes ==
    ASSUME TypeOK, OffsetsTelescope, NEW p \in Packets, NEW i \in 1 .. Len(backup)
    PROVE  Pushed(p)[i + 1].at + FrameLength(Pushed(p)[i + 1]) = Pushed(p)[i].at
<1>1. Pushed(p)[i + 1] = backup[i]
  BY PushedProperties DEF TypeOK
<1>2. CASE i = 1
  <2>1. backup[1].at + FrameLength(backup[1]) = offset
    BY <1>2 DEF OffsetsTelescope, TypeOK
  <2>2. Pushed(p)[i] = Encrypted(p)
    BY <1>2, PushedProperties
  <2>3. Encrypted(p).at = offset
    BY DEF Encrypted
  <2> QED BY <1>1, <1>2, <2>1, <2>2, <2>3
<1>3. CASE i # 1
  <2>1. i - 1 \in 1 .. Len(backup) - 1 /\ Pushed(p)[i] = backup[i - 1] /\ (i - 1) + 1 = i
    BY <1>3, PushedProperties DEF TypeOK
  <2>2. backup[(i - 1) + 1].at + FrameLength(backup[(i - 1) + 1]) = backup[i - 1].at
    BY <2>1 DEF OffsetsTelescope
  <2> QED BY <1>1, <2>1, <2>2
<1> QED BY <1>2, <1>3

\* The count grows by the new frame and shrinks by the evicted ones, so it stays
\* the size of the queue.
LEMMA AcceptSize ==
    ASSUME IInv, NEW p \in Packets, Accept(p)
    PROVE  BackupSizeIsExact' /\ backup_size' \in Nat
<1>0. TypeOK /\ OffsetsTelescope /\ OffsetsOrdered /\ BackupSizeIsExact
  BY DEF IInv
<1> DEFINE pushed == Pushed(p)
           size == backup_size + FrameLength(Encrypted(p))
           L == Len(backup) + 1
<1>1. PICK n \in 0 .. L : backup' = SubSeq(pushed, 1, n) /\ backup_size' = Left(pushed, size, n)
  BY <1>0, AcceptKeeps
<1>2. /\ backup' \in Seq(Frames)
      /\ Len(backup') = n
      /\ \A i \in 1 .. n : backup'[i] = pushed[i]
  BY <1>0, <1>1, AcceptedBackup
<1>3. /\ pushed \in Seq(Frames)
      /\ Len(pushed) = L
      /\ pushed[1] = Encrypted(p)
      /\ \A i \in 2 .. L : pushed[i] = backup[i - 1]
  BY <1>0, PushedProperties
<1>4. L \in Nat \ {0}
  BY <1>0 DEF TypeOK
<1>5. \A i \in 1 .. L : pushed[i].at \in Nat /\ FrameLength(pushed[i]) \in Nat
  <2>1. ASSUME NEW i \in 1 .. L
        PROVE  pushed[i] \in Frames
    BY <1>3, <1>4
  <2> QED BY <2>1, FrameLengthNat DEF Frames
<1>6. \A i \in 1 .. L - 1 : pushed[i + 1].at + FrameLength(pushed[i + 1]) = pushed[i].at
  BY <1>0, PushedTelescopes
<1>7. size = (pushed[1].at + FrameLength(pushed[1])) - pushed[L].at
  <2>1. CASE Len(backup) = 0
    BY <1>0, <1>3, <1>5, <2>1 DEF BackupSizeIsExact, Bytes, TypeOK
  <2>2. CASE Len(backup) # 0
    <3>1. backup[1].at + FrameLength(backup[1]) = offset
      BY <1>0, <2>2 DEF OffsetsTelescope, TypeOK
    <3>2. pushed[L] = backup[Len(backup)]
      BY <1>0, <1>3, <2>2 DEF TypeOK
    <3>3. backup_size = offset - pushed[L].at
      BY <1>0, <2>2, <3>1, <3>2 DEF BackupSizeIsExact, Bytes, TypeOK
    <3>4. Encrypted(p).at = offset
      BY DEF Encrypted
    <3>5. FrameLength(Encrypted(p)) \in Nat /\ offset \in Nat /\ pushed[L].at \in Nat
      BY <1>0, <1>3, <1>4, <1>5 DEF TypeOK
    <3> HIDE DEF pushed
    <3> QED BY <1>3, <3>3, <3>4, <3>5
  <2> QED BY <1>0, <2>1, <2>2 DEF TypeOK
<1> HIDE DEF pushed, size, L
<1>8. backup_size' = Bytes(pushed, 1, n)
  <2>1. backup_size' = size - Bytes(pushed, n + 1, L)
    BY <1>1, <1>3 DEF Left
  <2>2. CASE n = 0
    BY <1>4, <1>5, <1>7, <2>1, <2>2 DEF Bytes
  <2>3. CASE n = L
    BY <1>4, <1>5, <1>7, <2>1, <2>3 DEF Bytes
  <2>4. CASE n \in 1 .. L - 1
    <3>1. Bytes(pushed, n + 1, L) = pushed[n].at - pushed[L].at
      <4>1. pushed[n + 1].at + FrameLength(pushed[n + 1]) = pushed[n].at
        BY <1>6, <2>4
      <4>2. ~(n + 1 > L)
        BY <1>4, <2>4
      <4> QED BY <4>1, <4>2 DEF Bytes
    <3>2. pushed[n].at \in Nat /\ pushed[L].at \in Nat /\ pushed[1].at \in Nat /\ FrameLength(pushed[1]) \in Nat
      BY <1>4, <1>5, <2>4
    <3>3. Bytes(pushed, 1, n) = (pushed[1].at + FrameLength(pushed[1])) - pushed[n].at
      BY <1>4, <2>4 DEF Bytes
    <3> QED BY <1>7, <2>1, <3>1, <3>2, <3>3
  <2> QED BY <1>1, <1>4, <2>2, <2>3, <2>4
<1>9. Bytes(pushed, 1, n) = Bytes(backup', 1, Len(backup'))
  BY <1>1, <1>2, <1>4 DEF Bytes
<1>10. Bytes(backup', 1, n) \in Nat
  <2>1. CASE n = 0
    BY <2>1 DEF Bytes
  <2>2. CASE n # 0
    <3>1. 1 \in 1 .. n /\ n \in 1 .. n
      BY <1>1, <1>4, <2>2
    <3>2. /\ backup'[1].at \in Nat /\ backup'[n].at \in Nat
          /\ FrameLength(backup'[1]) \in Nat /\ FrameLength(backup'[n]) \in Nat
      <4>1. backup'[1] \in Frames /\ backup'[n] \in Frames
        BY <1>2, <3>1
      <4> QED BY <4>1, FrameLengthNat DEF Frames
    <3>3. 1 < n => backup'[n].at + FrameLength(backup'[n]) =< backup'[1].at
      BY <1>0, <1>2, <3>1, AcceptOffsets DEF OffsetsOrdered
    <3> QED BY <1>4, <2>2, <3>1, <3>2, <3>3 DEF Bytes
  <2> QED BY <2>1, <2>2
<1> QED BY <1>0, <1>2, <1>8, <1>9, <1>10 DEF BackupSizeIsExact

\* The types of what a packet changes, whatever becomes of the socket.
LEMMA AcceptTypes ==
    ASSUME IInv, NEW p \in Packets, Accept(p)
    PROVE  /\ backup' \in Seq(Frames)
           /\ backup_size' \in Nat
           /\ sequence_number' \in Nat
           /\ nonce' \in Nat
           /\ accepted' \in Seq(Packets)
           /\ offset' \in Nat
<1>1. PICK n \in 0 .. Len(backup) + 1 : backup' = SubSeq(Pushed(p), 1, n)
  BY AcceptKeeps DEF IInv
<1>2. backup' \in Seq(Frames)
  BY <1>1, AcceptedBackup DEF IInv
<1>3. backup_size' \in Nat
  BY AcceptSize
<1>4. FrameLength(Encrypted(p)) \in Nat
  BY PushedProperties, FrameLengthNat DEF IInv
<1>5. offset' \in Nat
  BY <1>4 DEF Accept, IInv, TypeOK
<1>6. sequence_number' \in Nat /\ nonce' \in Nat /\ accepted' \in Seq(Packets)
  BY DEF Accept, IInv, TypeOK
<1> QED BY <1>2, <1>3, <1>5, <1>6

\* A dead writer evicts nothing: its queue grows by the new frame.
LEMMA DeadWriterKeepsAll ==
    ASSUME IInv, NEW p \in Packets, Accept(p), socket = NoStream
    PROVE  /\ backup' = Pushed(p)
           /\ backup_size' = backup_size + FrameLength(Encrypted(p))
<1> DEFINE size == backup_size + FrameLength(Encrypted(p))
<1>1. PICK n \in 0 .. Len(backup) + 1 :
         /\ backup' = SubSeq(Pushed(p), 1, n)
         /\ backup_size' = Left(Pushed(p), size, n)
         /\ n = Len(backup) + 1
  BY AcceptKeeps DEF IInv
<1>2. Pushed(p) \in Seq(Frames) /\ Len(Pushed(p)) = Len(backup) + 1 /\ Len(backup) \in Nat
  BY PushedProperties DEF IInv, TypeOK
<1>3. backup' = Pushed(p)
  BY <1>1, <1>2
<1>4. Bytes(Pushed(p), n + 1, Len(Pushed(p))) = 0
  BY <1>1, <1>2 DEF Bytes
<1>5. size \in Nat
  BY PushedProperties, FrameLengthNat DEF IInv, TypeOK
<1>6. backup_size' = size
  BY <1>1, <1>4, <1>5 DEF Left
<1> QED BY <1>3, <1>6

\* What an outage has buffered after one more packet.
LEMMA BufferedOutage ==
    ASSUME IInv, NEW p \in Packets, WriteBuffered(p)
    PROVE  OutageBufferBounded' /\ disconnected_bytes' \in Nat
<1>1. /\ Accept(p)
      /\ socket = NoStream
      /\ socket' = NoStream
      /\ disconnected_bytes' = disconnected_bytes + FrameLength(Encrypted(p))
  BY DEF WriteBuffered
<1>2. backup_size' = backup_size + FrameLength(Encrypted(p))
  BY <1>1, DeadWriterKeepsAll
<1>3. FrameLength(Encrypted(p)) = Length[p] + MAC_BYTES /\ Length[p] \in Nat
  BY DEF FrameLength, Encrypted
<1>4. disconnected_bytes + Length[p] =< DISCONNECT_BUFFER_BYTES
  BY <1>1, <1>3 DEF WriteBuffered, BufferFull, IInv, TypeOK
<1>5. disconnected_bytes =< backup_size /\ disconnected_bytes \in Nat /\ backup_size \in Nat
  BY DEF IInv, TypeOK, OutageBufferBounded
<1> QED BY <1>1, <1>2, <1>3, <1>4, <1>5 DEF OutageBufferBounded

-----------------------------------------------------------------------------
LEMMA InitIInv == Init => IInv
<1> SUFFICES ASSUME Init PROVE IInv
  OBVIOUS
<1>1. TypeOK
  BY DEF Init, TypeOK
<1>2. backup = << >> /\ Len(backup) = 0
  BY DEF Init
<1>3. BackupIsRecentHistory
  BY <1>2 DEF Init, BackupIsRecentHistory
<1>4. OffsetsTelescope /\ OffsetsOrdered
  BY <1>2 DEF OffsetsTelescope, OffsetsOrdered
<1>5. BackupSizeIsExact
  BY <1>2 DEF Init, BackupSizeIsExact, Bytes
<1>6. OutageBufferBounded
  BY DEF Init, OutageBufferBounded
<1> QED BY <1>1, <1>3, <1>4, <1>5, <1>6 DEF IInv

LEMMA NextIInv == IInv /\ [Next]_vars => IInv'
<1> SUFFICES ASSUME IInv, [Next]_vars
             PROVE  IInv'
  OBVIOUS
<1>1. ASSUME NEW p \in Packets, Accept(p), TypeOK', OutageBufferBounded'
      PROVE  IInv'
  BY <1>1, AcceptHistory, AcceptOffsets, AcceptSize DEF IInv
<1>2. ASSUME NEW p \in Packets, WriteBuffered(p)
      PROVE  IInv'
  <2>1. Accept(p) /\ socket' = socket
    BY <1>2 DEF WriteBuffered
  <2>2. TypeOK'
    BY <1>2, <2>1, AcceptTypes, BufferedOutage DEF IInv, TypeOK
  <2> QED BY <1>1, <1>2, <2>1, <2>2, BufferedOutage
<1>3. ASSUME NEW p \in Packets, WriteSuccess(p) \/ WriteFailed(p)
      PROVE  IInv'
  <2>1. /\ Accept(p)
        /\ socket' \in Streams \cup {NoStream}
        /\ disconnected_bytes = 0
        /\ disconnected_bytes' = 0
    BY <1>3 DEF WriteSuccess, WriteFailed, IInv, TypeOK, OutageBufferBounded
  <2>2. TypeOK'
    BY <2>1, AcceptTypes DEF TypeOK
  <2>3. OutageBufferBounded'
    BY <2>1, <2>2 DEF OutageBufferBounded, TypeOK
  <2> QED BY <1>1, <2>1, <2>2, <2>3
<1>4. ASSUME UNCHANGED <<backup, backup_size, sequence_number, nonce, accepted, offset>>,
             TypeOK', OutageBufferBounded'
      PROVE  IInv'
  BY <1>4 DEF IInv, BackupIsRecentHistory, OffsetsTelescope, OffsetsOrdered, BackupSizeIsExact
<1>5. CASE InvalidateSocket
  BY <1>4, <1>5 DEF InvalidateSocket, IInv, TypeOK, OutageBufferBounded
<1>6. ASSUME NEW s \in Streams, Revive(s)
      PROVE  IInv'
  BY <1>4, <1>6 DEF Revive, IInv, TypeOK, OutageBufferBounded
<1>7. CASE UNCHANGED vars
  BY <1>4, <1>7 DEF vars, IInv, TypeOK, OutageBufferBounded
<1>8. ASSUME NEW p \in Packets, WriteSkipped(p)
      PROVE  IInv'
  BY <1>7, <1>8 DEF WriteSkipped
<1> QED BY <1>2, <1>3, <1>5, <1>6, <1>7, <1>8 DEF Next

THEOREM Inductive == Spec => []IInv
<1> QED BY InitIInv, NextIInv, PTL DEF Spec

-----------------------------------------------------------------------------
\* Every variable keeps its type.
THEOREM Typing == Spec => []TypeOK
<1>1. IInv => TypeOK
  BY DEF IInv
<1> QED BY <1>1, Inductive, PTL

\* The backup is the unbroken tail of what was ever accepted.
THEOREM HistoryKept == Spec => []BackupIsRecentHistory
<1>1. IInv => BackupIsRecentHistory
  BY DEF IInv
<1> QED BY <1>1, Inductive, PTL

\* backup_size never drifts from the contents of the queue.
THEOREM SizeExact == Spec => []BackupSizeIsExact
<1>1. IInv => BackupSizeIsExact
  BY DEF IInv
<1> QED BY <1>1, Inductive, PTL

\* A dead writer buffers at most the limit and one MAC, and keeps all of it.
THEOREM OutageBounded == Spec => []OutageBufferBounded
<1>1. IInv => OutageBufferBounded
  BY DEF IInv
<1> QED BY <1>1, Inductive, PTL

\* A recover() that succeeds returns the accepted packets that follow the
\* sequence number it was given, in order and under their own nonces.
THEOREM RecoverExact == Spec => []RecoverIsExact
<1>1. ASSUME IInv PROVE RecoverIsExact
  <2> SUFFICES ASSUME NEW last \in 0 .. sequence_number, CanRecover(last),
                      NEW i \in 1 .. sequence_number - last
               PROVE  /\ Recovered(last)[i].nonce = last + i
                      /\ Recovered(last)[i].packet = accepted[last + i]
    BY DEF RecoverIsExact
  <2> DEFINE n == sequence_number - last
  <2>1. sequence_number \in Nat /\ Len(backup) \in Nat /\ n \in 0 .. Len(backup)
    BY <1>1 DEF IInv, TypeOK, CanRecover
  <2>2. Recovered(last)[i] = backup[n + 1 - i]
    BY DEF Recovered
  <2>3. n + 1 - i \in 1 .. Len(backup) /\ sequence_number + 1 - (n + 1 - i) = last + i
    BY <2>1
  <2>4. /\ backup[n + 1 - i].nonce = sequence_number + 1 - (n + 1 - i)
        /\ backup[n + 1 - i].packet = accepted[sequence_number + 1 - (n + 1 - i)]
    BY <1>1, <2>3 DEF IInv, BackupIsRecentHistory
  <2> QED BY <2>2, <2>3, <2>4
<1> QED BY <1>1, Inductive, PTL

\* A peer that could be recovered in an outage still can be, after any number of
\* packets buffered and of attempts that failed.
THEOREM OutageKeeps == Spec => OutageKeepsRecoverable
<1>1. ASSUME IInv, [Next]_vars, NEW last \in 0 .. sequence_number,
             CanRecover(last), socket' = NoStream
      PROVE  CanRecover(last)'
  <2>1. socket = NoStream /\ sequence_number - last \in 0 .. Len(backup)
    BY <1>1 DEF CanRecover
  <2>2. ASSUME NEW p \in Packets, Accept(p)
        PROVE  CanRecover(last)'
    <3>1. Len(backup') = Len(backup) + 1 /\ sequence_number' = sequence_number + 1
      BY <1>1, <2>1, <2>2, DeadWriterKeepsAll, PushedProperties DEF Accept, IInv
    <3>2. Len(backup) \in Nat /\ sequence_number \in Nat
      BY <1>1 DEF IInv, TypeOK
    <3>3. sequence_number' - last \in 0 .. Len(backup')
      BY <2>1, <3>1, <3>2
    <3> QED BY <1>1, <3>3 DEF CanRecover
  <2>3. ASSUME UNCHANGED <<backup, sequence_number>>
        PROVE  CanRecover(last)'
    BY <1>1, <2>1, <2>3 DEF CanRecover
  <2>4. ASSUME NEW p \in Packets, WriteSkipped(p)
        PROVE  CanRecover(last)'
    BY <2>3, <2>4 DEF WriteSkipped, vars
  <2>5. ASSUME NEW p \in Packets,
               WriteBuffered(p) \/ WriteSuccess(p) \/ WriteFailed(p)
        PROVE  CanRecover(last)'
    BY <2>2, <2>5 DEF WriteBuffered, WriteSuccess, WriteFailed
  <2>6. CASE InvalidateSocket
    BY <2>3, <2>6 DEF InvalidateSocket
  <2>7. ASSUME NEW s \in Streams, Revive(s)
        PROVE  CanRecover(last)'
    BY <2>3, <2>7 DEF Revive
  <2>8. CASE UNCHANGED vars
    BY <2>3, <2>8 DEF vars
  <2> QED BY <1>1, <2>4, <2>5, <2>6, <2>7, <2>8 DEF Next
<1>2. IInv /\ [Next]_vars =>
        [\A last \in 0 .. sequence_number :
            (CanRecover(last) /\ socket' = NoStream) => CanRecover(last)']_vars
  BY <1>1
<1> QED BY <1>2, Inductive, PTL DEF Spec, OutageKeepsRecoverable

\* One frame more would have been over the threshold: what the eviction loop pops
\* last is what it has to.
LEMMA OneMoreIsTooMany ==
    ASSUME IInv, NEW p \in Packets, socket # NoStream,
           NEW n \in 0 .. Len(backup),
           n \in Kept(Pushed(p), backup_size + FrameLength(Encrypted(p)))
    PROVE  Left(Pushed(p), backup_size + FrameLength(Encrypted(p)), n)
             + FrameLength(Pushed(p)[n + 1]) > MAX_BACKUP_BYTES
<1> DEFINE pushed == Pushed(p)
           size == backup_size + FrameLength(Encrypted(p))
           L == Len(backup) + 1
<1>1. /\ pushed \in Seq(Frames) /\ Len(pushed) = L /\ L \in Nat \ {0}
      /\ TypeOK /\ OffsetsTelescope
  BY PushedProperties DEF IInv, TypeOK
<1>2. \A i \in 1 .. L : pushed[i].at \in Nat /\ FrameLength(pushed[i]) \in Nat
  <2>1. ASSUME NEW i \in 1 .. L
        PROVE  pushed[i] \in Frames
    BY <1>1
  <2> QED BY <2>1, FrameLengthNat DEF Frames
<1>3. \A i \in 1 .. L - 1 : pushed[i + 1].at + FrameLength(pushed[i + 1]) = pushed[i].at
  BY <1>1, PushedTelescopes
<1>4. size \in Nat
  BY <1>1, PushedProperties, FrameLengthNat DEF TypeOK
<1>5. Left(pushed, size, n + 1) > MAX_BACKUP_BYTES
  <2>1. n + 1 \in n + 1 .. Len(pushed)
    BY <1>1
  <2> QED BY <2>1 DEF Kept
<1> HIDE DEF pushed, size
<1>6. Bytes(pushed, n + 1, L) = Bytes(pushed, n + 2, L) + FrameLength(pushed[n + 1])
  <2>1. n + 1 \in 1 .. L /\ L \in 1 .. L
    BY <1>1
  <2>2. CASE n + 1 = L
    BY <1>1, <1>2, <2>1, <2>2 DEF Bytes
  <2>3. CASE n + 1 # L
    <3>1. n + 1 \in 1 .. L - 1 /\ n + 2 \in 1 .. L /\ (n + 1) + 1 = n + 2
      BY <1>1, <2>1, <2>3
    <3>2. pushed[n + 2].at + FrameLength(pushed[n + 2]) = pushed[n + 1].at
      BY <1>3, <3>1
    <3>3. /\ Bytes(pushed, n + 1, L) = (pushed[n + 1].at + FrameLength(pushed[n + 1])) - pushed[L].at
          /\ Bytes(pushed, n + 2, L) = (pushed[n + 2].at + FrameLength(pushed[n + 2])) - pushed[L].at
      BY <1>1, <3>1 DEF Bytes
    <3>4. /\ pushed[n + 1].at \in Nat /\ FrameLength(pushed[n + 1]) \in Nat
          /\ pushed[n + 2].at \in Nat /\ FrameLength(pushed[n + 2]) \in Nat
          /\ pushed[L].at \in Nat
      BY <1>2, <2>1, <3>1
    <3> QED BY <3>2, <3>3, <3>4
  <2> QED BY <2>2, <2>3
<1>7. Left(pushed, size, n) + FrameLength(pushed[n + 1]) = Left(pushed, size, n + 1)
  <2>1. /\ Left(pushed, size, n) = size - Bytes(pushed, n + 1, L)
        /\ Left(pushed, size, n + 1) = size - Bytes(pushed, n + 2, L)
    BY <1>1 DEF Left
  <2>2. Bytes(pushed, n + 2, L) \in Int /\ FrameLength(pushed[n + 1]) \in Nat
    <3>1. n + 1 \in 1 .. L /\ L \in 1 .. L
      BY <1>1
    <3>2. CASE n + 2 > L
      BY <1>2, <3>1, <3>2 DEF Bytes
    <3>3. CASE ~(n + 2 > L)
      <4>1. n + 2 \in 1 .. L
        BY <1>1, <3>3
      <4> QED BY <1>2, <3>1, <3>3, <4>1 DEF Bytes
    <3> QED BY <3>2, <3>3
  <2> QED BY <1>4, <1>6, <2>1, <2>2
<1> QED BY <1>5, <1>7 DEF pushed, size

\* A live writer's eviction stops as soon as it may: a frame the peer could still
\* ask for is given up only when keeping it would pass the threshold.
THEOREM EvictionMinimal == Spec => EvictionIsMinimal
<1>1. ASSUME IInv, [Next]_vars,
             sequence_number' # sequence_number,
             Len(backup') < Len(Pushed(accepted'[sequence_number']))
      PROVE  LET pushed == Pushed(accepted'[sequence_number']) IN
             /\ socket # NoStream
             /\ backup_size' =< MAX_BACKUP_BYTES
             /\ backup_size' + FrameLength(pushed[Len(backup') + 1]) > MAX_BACKUP_BYTES
  <2>1. PICK p \in Packets : Accept(p)
    BY <1>1 DEF Next, vars, WriteSkipped, WriteBuffered, WriteSuccess, WriteFailed,
                InvalidateSocket, Revive
  <2>2. accepted'[sequence_number'] = p
    BY <1>1, <2>1 DEF Accept, IInv, TypeOK, BackupIsRecentHistory
  <2>3. TypeOK
    BY <1>1 DEF IInv
  <2>4. socket # NoStream
    BY <1>1, <2>1, <2>2, DeadWriterKeepsAll
  <2> DEFINE size == backup_size + FrameLength(Encrypted(p))
  <2>5. PICK n \in Kept(Pushed(p), size) :
           /\ backup' = SubSeq(Pushed(p), 1, n)
           /\ backup_size' = Left(Pushed(p), size, n)
    BY <2>1, <2>4 DEF Accept
  <2>6. n \in 0 .. Len(backup) + 1
    BY <2>3, <2>5, PushedProperties DEF Kept
  <2>7. Len(backup') = n
    BY <2>1, <2>3, <2>5, <2>6, AcceptedBackup
  <2>8. n \in 0 .. Len(backup)
    BY <1>1, <2>2, <2>3, <2>6, <2>7, PushedProperties DEF TypeOK
  <2>9. backup_size' =< MAX_BACKUP_BYTES
    BY <2>5 DEF Kept
  <2>10. backup_size' + FrameLength(Pushed(p)[n + 1]) > MAX_BACKUP_BYTES
    BY <1>1, <2>4, <2>5, <2>8, OneMoreIsTooMany
  <2> QED BY <2>2, <2>4, <2>7, <2>9, <2>10
<1>2. IInv /\ [Next]_vars =>
        [LET pushed == Pushed(accepted'[sequence_number']) IN
         (sequence_number' # sequence_number /\ Len(backup') < Len(pushed)) =>
            /\ socket # NoStream
            /\ backup_size' =< MAX_BACKUP_BYTES
            /\ backup_size' + FrameLength(pushed[Len(backup') + 1]) > MAX_BACKUP_BYTES]_vars
  BY <1>1
<1> QED BY <1>2, Inductive, PTL DEF Spec, EvictionIsMinimal
=============================================================================
