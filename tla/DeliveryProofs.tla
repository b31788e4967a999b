--------------------------- MODULE DeliveryProofs ---------------------------
(***************************************************************************)
(* What a Connection delivers, for any number of packets, connections and  *)
(* failures.                                                               *)
(*                                                                         *)
(* Client to server: what the server has received is what the session loop *)
(* handed over first, in order and without a hole.  The hypothesis is that *)
(* the backup never holds 2^32 frames: a sequence number travels as an     *)
(* i32, and as long as the backup is shorter than the numbers repeat,      *)
(* recover() takes no number for another.                                  *)
(*                                                                         *)
(* Server to client: every message is of the type the client expects where *)
(* it expects one, so that all its variables keep their types; and what    *)
(* read_packet hands over through all of this is what the server sent, in  *)
(* order and each packet once, if it sends fewer than 2^32.                *)
(***************************************************************************)
EXTENDS ConnectionProofs

-----------------------------------------------------------------------------
(* Client to server. *)

BackupBelowWrap == Len(w_backup) < 2 * I32_LIMIT

\* The frame is the one its nonce stands for.
AcceptedFrame(f) ==
    f.nonce \in 1 .. w_sequence_number /\ f.packet = w_accepted[f.nonce]

FramesTrue ==
    \A s \in Streams : \A i \in 1 .. Len(up[s]) :
        up[s][i].type = "frame" => AcceptedFrame(up[s][i].frame)

\* What follows the last packet the server has.
Resends(frames) ==
    \A j \in 1 .. Len(frames) : AcceptedFrame(frames[j]) /\ frames[j].nonce = srv.seq + j

\* While the server waits to be brought up to date, every number under way to
\* the client on its connection is the one it stopped at, and every catch-up
\* under way to it starts there.
NumberTrue ==
    Recovering => \A i \in 1 .. Len(down[srv.sock]) :
        down[srv.sock][i].type = "seq" => down[srv.sock][i].n = AsI32(srv.seq)

RemoteTrue ==
    (Recovering /\ rt.stream = srv.sock /\ rt.pc = "recover") => rt.remote = AsI32(srv.seq)

ResendsTrue ==
    Recovering => \A i \in 1 .. Len(up[srv.sock]) :
        up[srv.sock][i].type = "catchup" => Resends(up[srv.sock][i].frames)

GotTrue ==
    /\ Len(srv.got) = srv.seq /\ srv.seq =< w_sequence_number
    /\ \A i \in 1 .. srv.seq : srv.got[i] = w_accepted[i]

LastAccepted == IF w_sequence_number = 0 THEN 0 ELSE w_accepted[w_sequence_number]

\* What is accepted next is what was accepted last, again, or its successor.
InOrder ==
    \A i \in 1 .. w_sequence_number :
        LET previous == IF i = 1 THEN 0 ELSE w_accepted[i - 1] IN
        w_accepted[i] = previous + 1 \/ (i > 1 /\ w_accepted[i] = previous)

\* The call under way: while its packet may still be offered to the writer, the
\* writer is one packet behind or level, and it is level between two calls.
Underway ==
    /\ main.pc = "write" \/ (Offering /\ ~shutting_down) =>
          LastAccepted \in {submitted - 1, submitted}
    /\ ~Offering /\ ~shutting_down => LastAccepted = submitted
    /\ main.pc \in {"sd_join", "stopped"} => shutting_down

UpInv == FramesTrue /\ NumberTrue /\ RemoteTrue /\ ResendsTrue /\ GotTrue /\ InOrder /\ Underway

-----------------------------------------------------------------------------
(* The history. *)

\* One packet at a time is accepted, the one write_packet was called with.
Accepts ==
    /\ main.pc = "write" /\ submitted \in ClientPackets
    /\ w_sequence_number' = w_sequence_number + 1
    /\ w_accepted' = Append(w_accepted, submitted)
    /\ WriteKept \/ WriteSent \/ WriteFailed

LEMMA WriteAccepts ==
    ASSUME BaseInv, WriteKept \/ WriteSent \/ WriteFailed
    PROVE  Accepts
<1>1. main.pc = "write" /\ submitted \in ClientPackets
  BY DEF WriteKept, WriteSent, WriteFailed, BaseInv, MainTypes, Offering
<1>2. W!Accept(submitted)
  BY DEF WriteKept, WriteSent, WriteFailed, W!WriteBuffered, W!WriteSuccess, W!WriteFailed
<1>3. /\ w_sequence_number' = w_sequence_number + 1
      /\ w_accepted' = Append(w_accepted, submitted)
  BY <1>1, <1>2, AcceptEffect DEF BaseInv
<1> QED BY <1>1, <1>3 DEF Accepts

LEMMA HistoryStep ==
    ASSUME BaseInv, [Next]_vars
    PROVE  UNCHANGED <<w_sequence_number, w_accepted>> \/ Accepts
<1>1. CASE WriteKept \/ WriteSent \/ WriteFailed
  BY <1>1, WriteAccepts
<1>2. CASE SessionNext /\ ~(WriteKept \/ WriteSent \/ WriteFailed)
  BY <1>2 DEF SessionNext, WritePacket, WriteCheck, WriteTurnedAway, W!WriteSkipped, W!vars,
              ReadWithoutSocket, ReadFrame, ReadPartial, ReadClosed, ForceReconnect,
              CloseAndMaybeReconnect, Shutdown, ShutdownJoined, Stopped, vars, writer,
              InvalidateBoth, W!InvalidateSocket
<1>3. CASE ReconnectNext
  BY <1>3 DEF ReconnectNext, Leave, Dial, AwaitResponse, SendSequence, AwaitSequence,
              Recover, ReviveReader, ReviveWriter, W!Revive, Announce, AttemptBroken,
              AttemptTimesOut, writer
<1>4. CASE ServerNext \/ \E s \in Streams : Break(s)
  BY <1>4 DEF ServerNext, ServerRequest, ServerRefuse, ServerSequence, ServerCatchup,
              ServerReceive, ServerNotices, ServerSend, ServerEnds, Break, writer
<1>5. CASE UNCHANGED vars
  BY <1>5 DEF vars, writer
<1> QED BY <1>1, <1>2, <1>3, <1>4, <1>5 DEF Next

\* The history only grows.
LEMMA HistoryGrows ==
    ASSUME BaseInv, [Next]_vars
    PROVE  /\ w_sequence_number \in Nat /\ w_sequence_number' \in Nat
           /\ w_sequence_number =< w_sequence_number'
           /\ \A i \in 1 .. w_sequence_number : w_accepted'[i] = w_accepted[i]
           /\ Accepts => w_accepted'[w_sequence_number'] = submitted
<1>1. /\ w_sequence_number \in Nat /\ w_accepted \in Seq(ClientPackets)
      /\ Len(w_accepted) = w_sequence_number
  BY DEF BaseInv, WriterInv, W!TypeOK, W!BackupIsRecentHistory
<1>2. CASE UNCHANGED <<w_sequence_number, w_accepted>> /\ ~Accepts
  BY <1>1, <1>2
<1>3. CASE Accepts
  BY <1>1, <1>3, Appended DEF Accepts
<1> QED BY <1>2, <1>3, HistoryStep

\* The frame is the one its nonce stands for once the step is taken.
AcceptedAfter(f) ==
    f.nonce \in 1 .. w_sequence_number' /\ f.packet = w_accepted'[f.nonce]

LEMMA StaysAccepted ==
    ASSUME BaseInv, [Next]_vars, NEW f, AcceptedFrame(f)
    PROVE  AcceptedAfter(f)
BY HistoryGrows DEF AcceptedFrame, AcceptedAfter

\* The frame of the packet at hand.
LEMMA NewFrame ==
    ASSUME BaseInv, [Next]_vars, Accepts
    PROVE  AcceptedAfter(W!Encrypted(submitted))
<1>1. /\ w_nonce = w_sequence_number /\ w_sequence_number \in Nat
  BY DEF BaseInv, WriterInv, W!TypeOK, W!BackupIsRecentHistory
<1>2. /\ W!Encrypted(submitted).nonce = w_sequence_number'
      /\ W!Encrypted(submitted).packet = submitted
  BY <1>1 DEF Accepts, W!Encrypted
<1>3. w_accepted'[w_sequence_number'] = submitted
  BY HistoryGrows
<1>4. w_sequence_number' \in 1 .. w_sequence_number'
  BY <1>1 DEF Accepts
<1> DEFINE f == W!Encrypted(submitted)
<1> HIDE DEF f
<1>5. f.nonce = w_sequence_number' /\ f.packet = submitted
  BY <1>2 DEF f
<1>6. AcceptedAfter(f)
  BY <1>3, <1>4, <1>5 DEF AcceptedAfter
<1> QED BY <1>6 DEF f

LEMMA StepFrames == BaseInv /\ FramesTrue /\ [Next]_vars => FramesTrue'
<1> SUFFICES ASSUME BaseInv, FramesTrue, [Next]_vars,
                    NEW s \in Streams, NEW i \in 1 .. Len(up'[s]), up'[s][i].type = "frame"
             PROVE  AcceptedAfter(up'[s][i].frame)
  BY DEF FramesTrue, AcceptedFrame, AcceptedAfter
<1>1. CASE \E j \in 1 .. Len(up[s]) : up'[s][i] = up[s][j]
  <2>1. AcceptedFrame(up'[s][i].frame)
    BY <1>1 DEF FramesTrue
  <2> QED BY <2>1, StaysAccepted
<1>2. CASE WriteSent /\ up'[s][i] = [type |-> "frame", frame |-> W!Encrypted(submitted)]
  BY <1>2, WriteAccepts, NewFrame
<1> QED BY <1>1, <1>2, UpBefore

-----------------------------------------------------------------------------
(* The conversation. *)

LEMMA StepNumber == BaseInv /\ NumberTrue /\ [Next]_vars => NumberTrue'
<1> SUFFICES ASSUME BaseInv, NumberTrue, [Next]_vars, Recovering',
                    NEW i \in 1 .. Len(down'[srv'.sock]), down'[srv'.sock][i].type = "seq"
             PROVE  down'[srv'.sock][i].n = AsI32(srv'.seq)
  BY DEF NumberTrue, AsI32
<1>1. ASSUME NEW s \in Streams, srv'.sock = s, srv'.seq = srv.seq,
             Answered(s, <<Response("ReturningClient"), SeqMessage(AsI32(srv.seq))>>),
             Has(up, s, "request")
      PROVE  down'[s][i].n = AsI32(srv'.seq)
  BY <1>1, DownAtFirst DEF SeqMessage
<1>2. ASSUME Recovering, srv'.sock = srv.sock, srv'.seq = srv.seq, srv.sock \in Streams
      PROVE  down'[srv.sock][i].n = AsI32(srv'.seq)
  BY <1>2, DownBefore DEF NumberTrue
<1> QED BY <1>1, <1>2, RecoveringStep

LEMMA StepRemote == BaseInv /\ NumberTrue /\ RemoteTrue /\ [Next]_vars => RemoteTrue'
<1> SUFFICES ASSUME BaseInv, NumberTrue, RemoteTrue, [Next]_vars,
                    Recovering', rt'.stream = srv'.sock, rt'.pc = "recover"
             PROVE  rt'.remote = AsI32(srv'.seq)
  BY DEF RemoteTrue, AsI32
<1>1. \/ rt' = rt
      \/ AwaitSequence
  <2>1. CASE ReconnectNext
    <3>1. ASSUME NEW pc \in {"none", "loop", "done"}, rt' = Thread(pc) PROVE FALSE
      BY <3>1, ThreadTypes
    <3>2. CASE AttemptBroken \/ AttemptTimesOut \/ Leave \/ Announce \/ AwaitResponse
      BY <3>1, <3>2 DEF AttemptBroken, AttemptTimesOut, Leave, Announce, AwaitResponse,
                        AttemptOver, BaseInv, NetTypes
    <3>3. CASE Dial \/ SendSequence \/ Recover \/ ReviveReader \/ ReviveWriter
      BY <3>1, <3>3 DEF Dial, SendSequence, Recover, ReviveReader, ReviveWriter, AttemptOver,
                        BaseInv, NetTypes
    <3> QED BY <2>1, <3>2, <3>3 DEF ReconnectNext
  <2>2. CASE SessionNext
    <3>1. ASSUME NEW pc \in {"none", "loop", "done"}, rt' = Thread(pc) PROVE FALSE
      BY <3>1, ThreadTypes
    <3> QED BY <2>2, <3>1
            DEF SessionNext, WritePacket, WriteCheck, WriteTurnedAway, WriteKept, WriteSent,
                WriteFailed, ReadWithoutSocket, ReadFrame, ReadPartial, ReadClosed,
                ForceReconnect, CloseAndMaybeReconnect, Shutdown, ShutdownJoined, Stopped, vars
  <2>3. CASE ServerNext \/ (\E s \in Streams : Break(s)) \/ UNCHANGED vars
    BY <2>3 DEF ServerNext, ServerRequest, ServerRefuse, ServerSequence, ServerCatchup,
                ServerReceive, ServerNotices, ServerSend, ServerEnds, Break, vars
  <2> QED BY <2>1, <2>2, <2>3 DEF Next
<1>2. CASE AwaitSequence
  <2>1. /\ rt.pc = "header" /\ Has(down, rt.stream, "seq")
        /\ rt'.stream = rt.stream /\ rt'.remote = Head(down[rt.stream]).n /\ srv' = srv
    BY <1>2 DEF AwaitSequence, BaseInv, NetTypes
  <2>2. rt.stream \in Streams
    BY <2>1, NoStreamAssumption
       DEF BaseInv, HalvesInv, NetTypes, Ends, Handshaking, ServerHold, HoldInv, Recovering
  <2>3. /\ Head(down[rt.stream]) = down[rt.stream][1] /\ 1 \in 1 .. Len(down[rt.stream])
        /\ down[rt.stream][1].type = "seq"
    BY <2>1, <2>2, HeadOfDown DEF BaseInv
  <2>4. Recovering /\ rt.stream = srv.sock
    BY <2>1 DEF Recovering
  <2> QED BY <2>1, <2>3, <2>4 DEF NumberTrue
<1>3. CASE rt' = rt
  <2>1. CASE Recovering /\ srv'.sock = srv.sock /\ srv'.seq = srv.seq
    BY <1>3, <2>1 DEF RemoteTrue
  <2>2. ASSUME NEW s \in Streams, srv'.sock = s, Has(up, s, "request") PROVE FALSE
    <3>1. s # NoStream
      BY <2>2, RequestTaken
    <3>2. ClientHolds(s)
      BY <1>3, <2>2, <3>1 DEF ClientHolds
    <3> QED BY <1>3, <2>2, <3>2, RequestTaken
  <2> QED BY <2>1, <2>2, RecoveringStep
<1> QED BY <1>1, <1>2, <1>3

\* The position recover() makes of the number the server named is the server's,
\* as long as the backup is shorter than the numbers repeat.
LEMMA RecoverFromThere ==
    ASSUME BaseInv, BackupBelowWrap, GotTrue, W!CanRecover(AsI32(srv.seq))
    PROVE  /\ AsI32(srv.seq) = srv.seq
           /\ Resends(W!Recovered(srv.seq))
           /\ srv.seq + Len(W!Recovered(srv.seq)) = w_sequence_number
<1>1. /\ w_sequence_number \in Nat /\ srv.seq \in Nat /\ Len(w_backup) \in Nat
      /\ I32_LIMIT \in Nat /\ srv.seq =< w_sequence_number
      /\ w_accepted \in Seq(ClientPackets)
  BY BoundsAssumption DEF BaseInv, WriterInv, W!TypeOK, NetTypes, GotTrue
<1> DEFINE remote == AsI32(srv.seq)
<1>2. remote \in Int /\ (remote = srv.seq \/ remote =< srv.seq - 2 * I32_LIMIT)
  BY <1>1, Wrapped
<1>3. w_sequence_number - remote \in 0 .. Len(w_backup)
  BY DEF W!CanRecover
<1> HIDE DEF remote
<1>4. remote = srv.seq
  BY <1>1, <1>2, <1>3 DEF BackupBelowWrap
<1> DEFINE n == w_sequence_number - srv.seq
<1>5. n \in Nat /\ n =< Len(w_backup) /\ srv.seq + n = w_sequence_number
  BY <1>1, <1>3, <1>4
<1>6. W!Recovered(srv.seq) = [i \in 1 .. n |-> w_backup[n + 1 - i]]
  BY DEF W!Recovered
<1> HIDE DEF n
<1>7. Len(W!Recovered(srv.seq)) = n
  BY <1>5, <1>6
<1>8. ASSUME NEW j \in 1 .. n
      PROVE  LET f == W!Recovered(srv.seq)[j] IN AcceptedFrame(f) /\ f.nonce = srv.seq + j
  <2> DEFINE k == n + 1 - j
             f == w_backup[k]
  <2>1. k \in 1 .. Len(w_backup) /\ w_sequence_number + 1 - k = srv.seq + j
    BY <1>1, <1>5
  <2>2. f.nonce = w_sequence_number + 1 - k /\ f.packet = w_accepted[w_sequence_number + 1 - k]
    BY <2>1 DEF BaseInv, WriterInv, W!BackupIsRecentHistory
  <2>3. srv.seq + j \in 1 .. w_sequence_number
    BY <1>1, <1>5, SMTT(30)
  <2>4. W!Recovered(srv.seq)[j] = f
    BY <1>6
  <2> HIDE DEF f, k
  <2> QED BY <2>1, <2>2, <2>3, <2>4 DEF AcceptedFrame
<1> QED BY <1>4, <1>5, <1>7, <1>8 DEF Resends, remote

\* What a catch-up resends stays what follows the server's last packet.
ResendsAfter(frames) ==
    \A j \in 1 .. Len(frames) : AcceptedAfter(frames[j]) /\ frames[j].nonce = srv'.seq + j

LEMMA StepResends ==
    BaseInv /\ BackupBelowWrap /\ GotTrue /\ RemoteTrue /\ ResendsTrue /\ [Next]_vars
        => ResendsTrue'
<1> SUFFICES ASSUME BaseInv, BackupBelowWrap, GotTrue, RemoteTrue, ResendsTrue, [Next]_vars,
                    Recovering', NEW i \in 1 .. Len(up'[srv'.sock]),
                    up'[srv'.sock][i].type = "catchup"
             PROVE  ResendsAfter(up'[srv'.sock][i].frames)
  BY DEF ResendsTrue, Resends, ResendsAfter, AcceptedFrame, AcceptedAfter
<1>1. ASSUME NEW frames, Resends(frames), srv'.seq = srv.seq PROVE ResendsAfter(frames)
  BY <1>1, StaysAccepted DEF Resends, ResendsAfter
<1>2. ASSUME NEW s \in Streams, srv'.sock = s,
             Answered(s, <<Response("ReturningClient"), SeqMessage(AsI32(srv.seq))>>)
      PROVE  FALSE
  <2>1. Len(up'[s]) = 0
    BY <1>2 DEF Answered
  <2> QED BY <1>2, <2>1
<1>3. ASSUME Recovering, srv'.sock = srv.sock, srv'.seq = srv.seq, srv.sock \in Streams
      PROVE  ResendsAfter(up'[srv.sock][i].frames)
  <2>1. CASE \E j \in 1 .. Len(up[srv.sock]) : up'[srv.sock][i] = up[srv.sock][j]
    <3>1. Resends(up'[srv.sock][i].frames)
      BY <1>3, <2>1 DEF ResendsTrue
    <3> QED BY <1>1, <1>3, <3>1
  <2>2. CASE /\ Recover /\ rt.stream = srv.sock /\ W!CanRecover(rt.remote)
             /\ up'[srv.sock][i] = [type |-> "catchup", frames |-> W!Recovered(rt.remote)]
    <3>1. rt.remote = AsI32(srv.seq)
      BY <1>3, <2>2 DEF RemoteTrue, Recover
    <3>2. Resends(W!Recovered(rt.remote))
      BY <2>2, <3>1, RecoverFromThere
    <3> QED BY <1>1, <1>3, <2>2, <3>2
  <2> QED BY <1>3, <2>1, <2>2, UpBefore
<1> QED BY <1>2, <1>3, RecoveringStep

\* What the server takes is what comes next in the history.
LEMMA StepGot == BaseInv /\ FramesTrue /\ ResendsTrue /\ GotTrue /\ [Next]_vars => GotTrue'
<1> SUFFICES ASSUME BaseInv, FramesTrue, ResendsTrue, GotTrue, [Next]_vars PROVE GotTrue'
  OBVIOUS
<1>1. /\ w_sequence_number \in Nat /\ w_sequence_number' \in Nat
      /\ w_sequence_number =< w_sequence_number'
      /\ \A i \in 1 .. w_sequence_number : w_accepted'[i] = w_accepted[i]
      /\ srv.seq \in Nat /\ srv.got \in Seq(ClientPackets)
  BY HistoryGrows DEF BaseInv, NetTypes
<1>2. CASE srv'.seq = srv.seq /\ srv'.got = srv.got
  <2>1. \A i \in 1 .. srv.seq : i \in 1 .. w_sequence_number
    BY <1>1 DEF GotTrue
  <2> QED BY <1>1, <1>2, <2>1 DEF GotTrue
<1>3. CASE ServerCatchup
  <2> DEFINE frames == up[srv.sock][1].frames
             packets == [i \in 1 .. Len(frames) |-> frames[i].packet]
  <2>1. /\ srv.phase = "catchup" /\ TakenByServer
        /\ up[srv.sock][1] \in UpMessages /\ up[srv.sock][1].type = "catchup"
        /\ srv' = [srv EXCEPT !.phase = "live", !.seq = @ + Len(frames), !.got = @ \o packets]
    BY <1>3, CatchupEffect, SMTT(30)
  <2>2. srv'.seq = srv.seq + Len(frames) /\ srv'.got = srv.got \o packets
    BY <2>1 DEF BaseInv, NetTypes
  <2>3. 1 \in 1 .. Len(up[srv.sock])
    BY <2>1 DEF TakenByServer, BaseInv, NetTypes
  <2>4. Resends(frames)
    BY <2>1, <2>3 DEF ResendsTrue, Recovering
  <2>5. frames \in Seq(W!Frames) /\ Len(frames) \in Nat
    BY <2>1, MessageTypes
  <2>6. packets \in Seq(ClientPackets) /\ Len(packets) = Len(frames)
    BY <2>5, PacketsOf
  <2>7. \A j \in 1 .. Len(frames) : packets[j] = frames[j].packet
    OBVIOUS
  <2> HIDE DEF frames, packets
  <2>8. \A j \in 1 .. Len(frames) :
           srv.seq + j \in 1 .. w_sequence_number /\ packets[j] = w_accepted'[srv.seq + j]
    BY <2>4, <2>7, StaysAccepted, <1>1 DEF Resends, AcceptedFrame
  <2>9. srv.seq + Len(frames) =< w_sequence_number
    <3>1. CASE Len(frames) = 0
      BY <1>1, <3>1 DEF GotTrue
    <3>2. CASE Len(frames) # 0
      <4>1. Len(frames) \in 1 .. Len(frames)
        BY <2>5, <3>2
      <4> QED BY <1>1, <2>8, <4>1
    <3> QED BY <3>1, <3>2
  <2>10. /\ Len(srv.got \o packets) = srv.seq + Len(frames)
         /\ \A i \in 1 .. srv.seq : (srv.got \o packets)[i] = srv.got[i]
         /\ \A j \in 1 .. Len(frames) : (srv.got \o packets)[srv.seq + j] = packets[j]
    <3>1. Len(srv.got) = srv.seq
      BY DEF GotTrue
    <3>2. srv.got \in Seq(ClientPackets)
      BY <1>1
    <3>3. packets \in Seq(ClientPackets)
      BY <2>6
    <3>4. /\ Len(srv.got \o packets) = Len(srv.got) + Len(packets)
          /\ \A i \in 1 .. Len(srv.got) : (srv.got \o packets)[i] = srv.got[i]
          /\ \A j \in 1 .. Len(packets) : (srv.got \o packets)[Len(srv.got) + j] = packets[j]
      BY <3>2, <3>3, Joined
    <3> QED BY <2>6, <3>1, <3>4
  <2>11. ASSUME NEW i \in 1 .. srv.seq + Len(frames) PROVE (srv.got \o packets)[i] = w_accepted'[i]
    <3>1. CASE i \in 1 .. srv.seq
      <4>1. i \in 1 .. w_sequence_number
        BY <1>1, <3>1 DEF GotTrue
      <4> QED BY <1>1, <2>10, <3>1, <4>1 DEF GotTrue
    <3>2. CASE i \notin 1 .. srv.seq
      <4>1. i - srv.seq \in 1 .. Len(frames) /\ srv.seq + (i - srv.seq) = i
        BY <1>1, <2>5, <3>2
      <4> QED BY <2>8, <2>10, <4>1
    <3> QED BY <3>1, <3>2
  <2>12. srv.seq + Len(frames) =< w_sequence_number'
    BY <1>1, <2>5, <2>9
  <2> QED BY <2>2, <2>10, <2>11, <2>12 DEF GotTrue
<1>4. CASE ServerReceive /\ ~(srv'.seq = srv.seq /\ srv'.got = srv.got)
  <2> DEFINE f == up[srv.sock][1].frame
  <2>1. /\ srv.sock \in Streams /\ up[srv.sock] # << >>
        /\ up[srv.sock][1] \in UpMessages /\ up[srv.sock][1].type = "frame"
        /\ f.nonce = srv.seq + 1
        /\ srv' = [srv EXCEPT !.seq = @ + 1, !.got = Append(@, f.packet)]
    BY <1>4, ReceiveEffect DEF BaseInv, NetTypes
  <2>2. 1 \in 1 .. Len(up[srv.sock])
    BY <2>1 DEF BaseInv, NetTypes
  <2>3. AcceptedFrame(f)
    BY <2>1, <2>2 DEF FramesTrue
  <2>4. f \in W!Frames
    BY <2>1, MessageTypes
  <2>5. f.packet \in ClientPackets
    BY <2>4 DEF W!Frames
  <2> HIDE DEF f
  <2>6. srv'.seq = srv.seq + 1 /\ srv'.got = Append(srv.got, f.packet)
    BY <2>1 DEF BaseInv, NetTypes
  <2>7. srv.seq + 1 \in 1 .. w_sequence_number /\ f.packet = w_accepted[srv.seq + 1]
    BY <2>1, <2>3 DEF AcceptedFrame
  <2>8. Len(srv.got) = srv.seq /\ \A i \in 1 .. srv.seq : srv.got[i] = w_accepted[i]
    BY DEF GotTrue
  <2>9. /\ Len(srv'.got) = srv.seq + 1
        /\ \A i \in 1 .. srv.seq : srv'.got[i] = srv.got[i]
        /\ srv'.got[srv.seq + 1] = f.packet
    BY <1>1, <2>5, <2>6, <2>8, Appended
  <2>10. ASSUME NEW i \in 1 .. srv.seq + 1 PROVE srv'.got[i] = w_accepted'[i]
    <3>1. i \in 1 .. w_sequence_number
      BY <1>1, <2>7
    <3>2. i \in 1 .. srv.seq \/ i = srv.seq + 1
      BY <1>1
    <3> QED BY <1>1, <2>7, <2>8, <2>9, <3>1, <3>2
  <2>11. srv.seq + 1 =< w_sequence_number'
    BY <1>1, <2>7
  <2> QED BY <2>6, <2>9, <2>10, <2>11 DEF GotTrue
<1>5. ASSUME NEW s \in Streams, ServerRequest(s) \/ ServerRefuse(s)
      PROVE  srv'.seq = srv.seq /\ srv'.got = srv.got
  BY <1>5, RequestEffect, RefuseEffect DEF BaseInv, NetTypes
<1>6. CASE ServerSequence \/ ServerNotices \/ ServerSend \/ ServerEnds
  BY <1>2, <1>6 DEF ServerSequence, ServerNotices, ServerSend, ServerEnds, BaseInv, NetTypes
<1>7. CASE SessionNext \/ ReconnectNext \/ (\E s \in Streams : Break(s)) \/ UNCHANGED vars
  <2>1. srv' = srv
    BY <1>7 DEF SessionNext, WritePacket, WriteCheck, WriteTurnedAway, WriteKept, WriteSent,
                WriteFailed, ReadWithoutSocket, ReadFrame, ReadPartial, ReadClosed,
                ForceReconnect, CloseAndMaybeReconnect, Shutdown, ShutdownJoined, Stopped,
                ReconnectNext, Leave, Dial, AwaitResponse, SendSequence, AwaitSequence, Recover,
                ReviveReader, ReviveWriter, Announce, AttemptBroken, AttemptTimesOut, Break, vars
  <2> QED BY <1>2, <2>1
<1> QED BY <1>2, <1>3, <1>4, <1>5, <1>6, <1>7 DEF Next, ServerNext

-----------------------------------------------------------------------------
(* The packets write_packet is called with. *)

\* Once the connection is shutting down it stays so.
LEMMA ShuttingDownStays == [Next]_vars => (shutting_down => shutting_down')
BY DEF Next, SessionNext, WritePacket, WriteCheck, WriteTurnedAway, WriteKept, WriteSent,
       WriteFailed, ReadWithoutSocket, ReadFrame, ReadPartial, ReadClosed,
       ForceReconnect, CloseAndMaybeReconnect, Shutdown, ShutdownJoined, Stopped,
       ReconnectNext, Leave, Dial, AwaitResponse, SendSequence, AwaitSequence, Recover,
       ReviveReader, ReviveWriter, Announce, AttemptBroken, AttemptTimesOut, ServerNext,
       ServerRequest, ServerRefuse, ServerSequence, ServerCatchup, ServerReceive,
       ServerNotices, ServerSend, ServerEnds, Break, vars, flags

LEMMA StepAccepted ==
    ASSUME BaseInv, InOrder, Underway, [Next]_vars, Accepts
    PROVE  InOrder' /\ LastAccepted' = submitted
<1>1. /\ w_sequence_number \in Nat /\ w_sequence_number' = w_sequence_number + 1
      /\ \A i \in 1 .. w_sequence_number : w_accepted'[i] = w_accepted[i]
      /\ w_accepted'[w_sequence_number + 1] = submitted
      /\ submitted \in Nat /\ submitted > 0
  <2>1. /\ w_sequence_number \in Nat
        /\ \A i \in 1 .. w_sequence_number : w_accepted'[i] = w_accepted[i]
        /\ w_accepted'[w_sequence_number'] = submitted
    BY HistoryGrows
  <2>2. w_sequence_number' = w_sequence_number + 1 /\ submitted \in ClientPackets
    BY DEF Accepts
  <2>3. submitted \in Nat /\ submitted > 0
    BY <2>2, BoundsAssumption DEF ClientPackets
  <2> QED BY <2>1, <2>2, <2>3
<1>2. LastAccepted \in {submitted - 1, submitted}
  BY DEF Underway, Accepts
<1>3. LastAccepted' = submitted
  BY <1>1 DEF LastAccepted
<1>4. ASSUME NEW i \in 1 .. w_sequence_number + 1
      PROVE  LET previous == IF i = 1 THEN 0 ELSE w_accepted'[i - 1] IN
             w_accepted'[i] = previous + 1 \/ (i > 1 /\ w_accepted'[i] = previous)
  <2>1. CASE i \in 1 .. w_sequence_number
    <3>1. i # 1 => i - 1 \in 1 .. w_sequence_number
      BY <1>1, <2>1
    <3> QED BY <1>1, <2>1, <3>1 DEF InOrder
  <2>2. CASE i = w_sequence_number + 1
    <3>1. CASE w_sequence_number = 0
      <4>1. LastAccepted = 0 /\ i = 1
        BY <2>2, <3>1 DEF LastAccepted
      <4>2. submitted = 1
        BY <1>1, <1>2, <4>1
      <4> QED BY <1>1, <2>2, <4>1, <4>2
    <3>2. CASE w_sequence_number # 0
      <4>1. /\ w_sequence_number \in 1 .. w_sequence_number /\ i # 1 /\ i > 1
            /\ i - 1 = w_sequence_number
        BY <1>1, <2>2, <3>2
      <4>2. w_accepted'[i - 1] = LastAccepted
        BY <1>1, <3>2, <4>1 DEF LastAccepted
      <4>3. submitted = LastAccepted + 1 \/ submitted = LastAccepted
        BY <1>1, <1>2
      <4> QED BY <1>1, <2>2, <4>1, <4>2, <4>3
    <3> QED BY <3>1, <3>2
  <2> QED BY <1>1, <2>1, <2>2
<1> QED BY <1>1, <1>3, <1>4 DEF InOrder

LEMMA StepOffer == BaseInv /\ InOrder /\ Underway /\ [Next]_vars => InOrder' /\ Underway'
<1> SUFFICES ASSUME BaseInv, InOrder, Underway, [Next]_vars PROVE InOrder' /\ Underway'
  OBVIOUS
<1>0. /\ submitted \in Nat /\ main.pc \in {"idle", "check", "write", "join", "sd_join", "stopped"}
      /\ shutting_down => shutting_down'
      /\ \A pc : [main EXCEPT !.pc = pc].pc = pc /\ [main EXCEPT !.pc = pc].then = main.then
  BY BoundsAssumption, ShuttingDownStays DEF BaseInv, MainTypes, LinkInv
<1>1. CASE Accepts
  <2>1. InOrder' /\ LastAccepted' = submitted
    BY <1>1, StepAccepted
  <2>2. submitted' = submitted /\ main'.pc \in {"idle", "join"}
    <3>1. submitted' = submitted /\ (Goto("idle") \/ CallClose("check"))
      BY <1>1 DEF Accepts, WriteKept, WriteSent, WriteFailed
    <3>2. CallClose("check") => main'.pc = "join"
      BY DEF CallClose
    <3>3. Goto("idle") => main'.pc = "idle"
      BY <1>0 DEF Goto
    <3> QED BY <3>1, <3>2, <3>3
  <2> QED BY <1>0, <2>1, <2>2 DEF Underway
<1>2. CASE UNCHANGED <<w_sequence_number, w_accepted>>
  <2>1. InOrder' /\ LastAccepted' = LastAccepted
    BY <1>2 DEF InOrder, LastAccepted
  <2>2. CASE UNCHANGED <<main, submitted>>
    BY <1>0, <2>1, <2>2 DEF Underway, Offering
  <2>3. CASE WritePacket
    <3>1. /\ main.pc = "idle" /\ main'.pc = "check" /\ submitted' = submitted + 1
          /\ shutting_down' = shutting_down
      BY <1>0, <2>3 DEF WritePacket, Goto, flags
    <3> QED BY <1>0, <2>1, <3>1 DEF Underway, Offering
  <2>4. CASE WriteCheck
    <3>1. /\ main.pc = "check" /\ main'.pc = (IF shutting_down THEN "idle" ELSE "write")
          /\ submitted' = submitted /\ shutting_down' = shutting_down
      BY <1>0, <2>4 DEF WriteCheck, Goto, flags
    <3> QED BY <1>0, <2>1, <3>1 DEF Underway, Offering
  <2>5. CASE WriteTurnedAway
    <3>1. main.pc = "write" /\ main'.pc = "check" /\ UNCHANGED <<submitted, shutting_down>>
      BY <1>0, <2>5 DEF WriteTurnedAway, Goto, flags
    <3> QED BY <1>0, <2>1, <3>1 DEF Underway, Offering
  <2>6. CASE CloseAndMaybeReconnect
    <3>1. /\ main.pc = "join" /\ main'.pc = main.then /\ main.then \in {"idle", "check"}
          /\ UNCHANGED <<submitted, shutting_down>>
      BY <1>0, <2>6 DEF CloseAndMaybeReconnect, Goto, BaseInv, MainTypes
    <3> QED BY <1>0, <2>1, <3>1 DEF Underway, Offering
  <2>7. CASE main' = [pc |-> "join", then |-> "idle"] /\ main.pc = "idle"
             /\ UNCHANGED <<submitted, shutting_down>>
    <3>1. main'.pc = "join" /\ main'.then = "idle"
      BY <2>7
    <3> QED BY <1>0, <2>1, <2>7, <3>1 DEF Underway, Offering
  <2>8. CASE Shutdown
    <3>1. main'.pc = "sd_join" /\ shutting_down' = TRUE
      BY <1>0, <2>8 DEF Shutdown, Goto
    <3> QED BY <1>0, <2>1, <3>1 DEF Underway, Offering
  <2>9. CASE ShutdownJoined
    <3>1. main.pc = "sd_join" /\ main'.pc = "stopped"
      BY <1>0, <2>9 DEF ShutdownJoined, Goto
    <3> QED BY <1>0, <2>1, <3>1 DEF Underway, Offering
  <2>10. CASE ReadWithoutSocket \/ ReadFrame \/ ReadPartial \/ ReadClosed \/ ForceReconnect
    <3>1. /\ UNCHANGED <<submitted, shutting_down>> /\ main.pc = "idle"
          /\ main' = main \/ CallClose("idle")
      BY <2>10 DEF ReadWithoutSocket, ReadFrame, ReadPartial, ReadClosed, ForceReconnect, flags
    <3> QED BY <2>2, <2>7, <3>1 DEF CallClose
  <2>11. ~(WriteKept \/ WriteSent \/ WriteFailed)
    <3>1. ~Accepts
      BY <1>2 DEF Accepts, BaseInv, WriterInv, W!TypeOK
    <3> QED BY <3>1, WriteAccepts
  <2>12. CASE ReconnectNext
    <3>1. UNCHANGED <<main, submitted>>
      BY <2>12 DEF ReconnectNext, Leave, Dial, AwaitResponse, SendSequence, AwaitSequence, Recover,
                   ReviveReader, ReviveWriter, Announce, AttemptBroken, AttemptTimesOut
    <3> QED BY <2>2, <3>1
  <2>13. CASE ServerNext \/ (\E s \in Streams : Break(s)) \/ Stopped \/ UNCHANGED vars
    <3>1. UNCHANGED <<main, submitted>>
      BY <2>13 DEF ServerNext, ServerRequest, ServerRefuse, ServerSequence, ServerCatchup,
                   ServerReceive, ServerNotices, ServerSend, ServerEnds, Break, Stopped, vars
    <3> QED BY <2>2, <3>1
  <2> QED BY <2>3, <2>4, <2>5, <2>6, <2>8, <2>9, <2>10, <2>11, <2>12, <2>13 DEF Next, SessionNext
<1> QED BY <1>1, <1>2, HistoryStep

-----------------------------------------------------------------------------
LEMMA InitUp == Init => UpInv
<1> SUFFICES ASSUME Init PROVE UpInv
  OBVIOUS
<1>1. /\ w_sequence_number = 0 /\ w_accepted = << >>
      /\ main.pc = "idle" /\ submitted = 0 /\ rt.pc = "none"
      /\ \A s \in Streams : up[s] = << >>
      /\ srv.seq = 0 /\ srv.got = << >> /\ srv.phase = "live"
  BY DEF Init, W!Init, Thread
<1>2. Len(<< >>) = 0
  OBVIOUS
<1>3. FramesTrue
  BY <1>1, <1>2 DEF FramesTrue
<1>4. NumberTrue /\ RemoteTrue /\ ResendsTrue
  BY <1>1 DEF NumberTrue, RemoteTrue, ResendsTrue, Recovering
<1>5. GotTrue
  BY <1>1, <1>2 DEF GotTrue
<1>6. InOrder /\ Underway
  BY <1>1 DEF InOrder, Underway, LastAccepted, Offering
<1> QED BY <1>3, <1>4, <1>5, <1>6 DEF UpInv

LEMMA StepUp == BaseInv /\ BackupBelowWrap /\ UpInv /\ [Next]_vars => UpInv'
BY StepFrames, StepNumber, StepRemote, StepResends, StepGot, StepOffer DEF UpInv

LEMMA UpAlways == Spec /\ []BackupBelowWrap => []UpInv
BY InitUp, StepUp, BaseAlways, PTL DEF Spec

LEMMA UpstreamFollows == BaseInv /\ UpInv => UpstreamAtLeastOnce
<1> SUFFICES ASSUME BaseInv, UpInv PROVE UpstreamAtLeastOnce
  OBVIOUS
<1>1. /\ w_accepted \in Seq(ClientPackets) /\ Len(w_accepted) = w_sequence_number
      /\ w_sequence_number \in Nat /\ srv.seq \in Nat /\ srv.got \in Seq(ClientPackets)
  BY DEF BaseInv, WriterInv, W!TypeOK, W!BackupIsRecentHistory, NetTypes
<1>2. ASSUME main.pc = "idle", ~shutting_down
      PROVE  submitted = IF w_accepted = << >> THEN 0 ELSE w_accepted[w_sequence_number]
  <2>1. LastAccepted = submitted
    BY <1>2 DEF UpInv, Underway, Offering
  <2>2. w_accepted = << >> <=> w_sequence_number = 0
    BY <1>1
  <2> QED BY <2>1, <2>2 DEF LastAccepted
<1>3. srv.got = SubSeq(w_accepted, 1, srv.seq)
  <2> DEFINE first == SubSeq(w_accepted, 1, srv.seq)
  <2>1. /\ Len(srv.got) = srv.seq /\ srv.seq =< w_sequence_number
        /\ \A i \in 1 .. srv.seq : srv.got[i] = w_accepted[i]
    BY DEF UpInv, GotTrue
  <2>2. /\ first \in Seq(ClientPackets) /\ Len(first) = srv.seq
        /\ \A i \in 1 .. srv.seq : first[i] = w_accepted[i]
    BY <1>1, <2>1
  <2> HIDE DEF first
  <2>3. srv.got = first
    BY <1>1, <2>1, <2>2
  <2> QED BY <2>3 DEF first
<1>4. InOrder
  BY DEF UpInv
<1> QED BY <1>1, <1>2, <1>3, <1>4 DEF UpstreamAtLeastOnce, InOrder

\* Client to server, each packet is accepted once or twice in a row and none is
\* left out, and what the server received is what was accepted first: through
\* write failures, full buffers, reconnects and a server that is behind, for as
\* long as the backup holds fewer than 2^32 frames (write_packet, write,
\* recover and the SequenceHeader together).
THEOREM UpstreamTheorem == Spec /\ []BackupBelowWrap => []UpstreamAtLeastOnce
BY UpAlways, BaseAlways, UpstreamFollows, PTL

-----------------------------------------------------------------------------
(* What is under way to the server, message by message. *)

\* The catch-up that ends where recover() found the history to end.
Closing(m, seq, upto) == m.type = "catchup" /\ seq + Len(m.frames) = upto

\* The thread's conversation with the server, as far as it has got: ch is what
\* the client has said and the server not yet heard.
Talk(ch, phase, seq, pc, upto) ==
    /\ phase = "seq" =>
          /\ pc # "revive_writer"
          /\ pc \in {"response", "sample"} => Len(ch) = 0
          /\ pc \in {"header", "recover"} => Len(ch) = 1 /\ ch[1].type = "seq"
          /\ pc = "catchup" => Len(ch) = 2 /\ ch[1].type = "seq" /\ Closing(ch[2], seq, upto)
    /\ phase = "catchup" =>
          /\ pc \notin {"response", "sample"}
          /\ pc \in {"header", "recover"} => Len(ch) = 0
          /\ pc \in {"catchup", "revive_writer"} => Len(ch) = 1 /\ Closing(ch[1], seq, upto)
    /\ phase = "live" =>
          /\ pc \in {"catchup", "revive_writer"}
          /\ Len(ch) = 0 /\ seq = upto

Talking == srv.sock # NoStream /\ srv.sock = rt.stream /\ rt.pc # "announce"

TalkInv == Talking => Talk(up[srv.sock], srv.phase, srv.seq, rt.pc, rt.upto)

\* From the from-th message of ch on there are frames, those after the first-th
\* up to the last-th accepted.
Sent(ch, from, first, last) ==
    /\ first + (Len(ch) + 1 - from) = last
    /\ \A i \in from .. Len(ch) :
          ch[i].type = "frame" /\ ch[i].frame.nonce = first + (i + 1 - from)

\* What is on the connection of a live writer that strands nothing: all the
\* server lacks.
Live(ch, phase, seq, last) ==
    /\ phase = "catchup" =>
          /\ Len(ch) >= 1 /\ ch[1].type = "catchup"
          /\ Sent(ch, 2, seq + Len(ch[1].frames), last)
    /\ phase = "live" => Sent(ch, 1, seq, last)

Streaming == w_socket # NoStream /\ w_socket = srv.sock /\ ~stranded

LiveInv == Streaming => Live(up[w_socket], srv.phase, srv.seq, w_sequence_number)

LEMMA SentMore ==
    ASSUME NEW M, NEW ch \in Seq(M), NEW m \in M, NEW from \in 1 .. 2, from =< Len(ch) + 1,
           NEW first \in Nat, NEW last \in Nat, Sent(ch, from, first, last),
           m.type = "frame", m.frame.nonce = last + 1
    PROVE  Sent(Append(ch, m), from, first, last + 1)
<1> DEFINE q == Append(ch, m)
<1>1. /\ Len(q) = Len(ch) + 1 /\ Len(ch) \in Nat
      /\ \A i \in 1 .. Len(ch) : q[i] = ch[i]
      /\ q[Len(ch) + 1] = m
  BY Appended
<1> HIDE DEF q
<1>2. first + (Len(ch) + 1 - from) = last
  BY DEF Sent
<1>3. ASSUME NEW i \in from .. Len(q)
      PROVE  q[i].type = "frame" /\ q[i].frame.nonce = first + (i + 1 - from)
  <2>1. CASE i = Len(ch) + 1
    <3>1. q[i] = m
      BY <1>1, <2>1
    <3>2. first + (i + 1 - from) = last + 1
      BY <1>1, <1>2, <2>1
    <3> QED BY <3>1, <3>2
  <2>2. CASE i # Len(ch) + 1
    <3>1. i \in from .. Len(ch) /\ i \in 1 .. Len(ch)
      BY <1>1, <2>2
    <3> QED BY <1>1, <3>1 DEF Sent
  <2> QED BY <2>1, <2>2
<1>4. first + (Len(q) + 1 - from) = last + 1
  BY <1>1, <1>2
<1> QED BY <1>3, <1>4 DEF Sent, q

\* What the server takes is the next, and what stays is what follows it.
LEMMA SentLess ==
    ASSUME NEW M, NEW ch \in Seq(M), ch # << >>, NEW from \in 1 .. 2,
           NEW first \in Nat, NEW last \in Nat, Sent(ch, from, first, last)
    PROVE  /\ from = 1 => /\ ch[1].type = "frame" /\ ch[1].frame.nonce = first + 1
                          /\ Sent(Tail(ch), 1, first + 1, last)
           /\ from = 2 => Sent(Tail(ch), 1, first, last)
<1> DEFINE q == Tail(ch)
           next == IF from = 1 THEN first + 1 ELSE first
<1>1. /\ Len(ch) \in Nat /\ Len(ch) > 0 /\ Len(q) = Len(ch) - 1
      /\ \A i \in 1 .. Len(ch) - 1 : q[i] = ch[i + 1]
  BY Tailed
<1>2. next + Len(q) = last /\ next \in Nat
  BY <1>1 DEF Sent
<1> HIDE DEF q
<1>3. ASSUME NEW i \in 1 .. Len(q)
      PROVE  q[i].type = "frame" /\ q[i].frame.nonce = next + i
  <2>1. q[i] = ch[i + 1] /\ i + 1 \in from .. Len(ch)
    BY <1>1
  <2>2. ch[i + 1].type = "frame" /\ ch[i + 1].frame.nonce = first + (i + 2 - from)
    BY <2>1 DEF Sent
  <2> QED BY <2>1, <2>2, SMTT(30)
<1>4. Sent(q, 1, next, last)
  <2>1. next + (Len(q) + 1 - 1) = last
    BY <1>1, <1>2
  <2>2. \A i \in 1 .. Len(q) : next + (i + 1 - 1) = next + i
    BY <1>2
  <2> HIDE DEF next
  <2> QED BY <1>3, <2>1, <2>2 DEF Sent
<1>5. from = 1 => ch[1].type = "frame" /\ ch[1].frame.nonce = first + 1
  <2> SUFFICES ASSUME from = 1 PROVE ch[1].type = "frame" /\ ch[1].frame.nonce = first + 1
    OBVIOUS
  <2>1. 1 \in from .. Len(ch)
    BY <1>1
  <2>2. ch[1].type = "frame" /\ ch[1].frame.nonce = first + (1 + 1 - from)
    BY <2>1 DEF Sent
  <2> QED BY <2>2
<1> QED BY <1>4, <1>5 DEF q

\* While the thread is in an attempt the session loop writes to no connection,
\* and nothing else touches what the thread has written.
LEMMA QueueKept ==
    ASSUME BaseInv, SessionNext, rt'.stream # NoStream, rt' = rt, rt.pc # "announce"
    PROVE  up' = up
<1>1. w_socket = NoStream
  BY DEF BaseInv, HoldInv, HalvesInv, BothOn
<1>2. ASSUME \E pc \in {"none", "loop"} : rt' = Thread(pc) PROVE FALSE
  BY <1>2, ThreadTypes
<1> QED BY <1>1, <1>2 DEF SessionNext, WritePacket, WriteCheck, WriteTurnedAway, WriteKept,
           WriteSent, W!WriteSuccess,
           WriteFailed, ReadWithoutSocket, ReadFrame, ReadPartial, ReadClosed, ForceReconnect,
           CloseAndMaybeReconnect, Shutdown, ShutdownJoined, Stopped, vars, network

LEMMA StepTalk ==
    BaseInv /\ BackupBelowWrap /\ UpInv /\ NotYetRevived /\ TalkInv /\ [Next]_vars => TalkInv'
<1> SUFFICES ASSUME BaseInv, BackupBelowWrap, UpInv, NotYetRevived, TalkInv, [Next]_vars,
                    srv'.sock # NoStream, srv'.sock = rt'.stream, rt'.pc # "announce"
             PROVE  Talk(up'[srv'.sock], srv'.phase, srv'.seq, rt'.pc, rt'.upto)
  BY DEF TalkInv, Talking, Talk, Closing
<1>0. /\ srv.sock # NoStream => srv.sock \in Streams /\ srv.phase \in {"seq", "catchup", "live"}
      /\ srv.phase \in {"seq", "catchup", "live"} => srv.sock \in Streams /\ srv.sock # NoStream
      /\ srv.seq \in Nat /\ NetTypes
  BY NoStreamAssumption DEF BaseInv, HoldInv, ServerHold, NetTypes, Ends
<1> DEFINE ch == up[srv.sock]
<1>1. CASE rt' = rt /\ up' = up /\ srv'.sock = srv.sock /\ srv'.phase = srv.phase /\ srv'.seq = srv.seq
  BY <1>1 DEF TalkInv, Talking
<1>2. CASE rt' = rt /\ ~ReconnectNext
  <2>1. CASE SessionNext
    <3>1. up' = up /\ srv' = srv
      BY <1>2, <2>1, QueueKept
         DEF SessionNext, WritePacket, WriteCheck, WriteTurnedAway, WriteKept, WriteSent,
             WriteFailed, ReadWithoutSocket, ReadFrame, ReadPartial, ReadClosed, ForceReconnect,
             CloseAndMaybeReconnect, Shutdown, ShutdownJoined, Stopped, vars
    <3> QED BY <1>1, <1>2, <3>1
  <2>2. CASE ServerSend \/ (\E s \in Streams : Break(s)) \/ UNCHANGED vars
    <3>1. up' = up /\ srv'.sock = srv.sock /\ srv'.phase = srv.phase /\ srv'.seq = srv.seq
      BY <2>2 DEF ServerSend, Break, vars, network, BaseInv, NetTypes
    <3> QED BY <1>1, <1>2, <3>1
  <2>3. ASSUME NEW s \in Streams, ServerRefuse(s)
        PROVE  Talk(up'[srv'.sock], srv'.phase, srv'.seq, rt'.pc, rt'.upto)
    <3>1. srv' = srv /\ s # srv.sock /\ up' = Take(up, s)
      BY <2>3, RequestTaken DEF ServerRefuse, Dialled
    <3>2. srv.sock \in Streams
      BY <1>0, <3>1
    <3>3. up'[srv.sock] = up[srv.sock]
      BY <3>1, <3>2 DEF Take, BaseInv, NetTypes
    <3> QED BY <1>2, <3>1, <3>3 DEF TalkInv, Talking
  <2>4. ASSUME NEW s \in Streams, ServerRequest(s)
        PROVE  Talk(up'[srv'.sock], srv'.phase, srv'.seq, rt'.pc, rt'.upto)
    <3>1. srv.phase # "ended"
      BY <1>0, <2>4, RequestEffect
    <3>2. /\ srv'.phase = "seq" /\ srv'.sock = s
          /\ Answered(s, <<Response("ReturningClient"), SeqMessage(AsI32(srv.seq))>>)
      BY <2>4, <3>1, RequestEffect DEF BaseInv, NetTypes
    <3>3. Len(up'[s]) = 0
      BY <3>2 DEF Answered
    <3>4. rt.pc = "response"
      <4>1. Has(up, s, "request")
        BY <2>4 DEF ServerRequest
      <4>2. rt.stream = s /\ s # NoStream
        BY <1>2, <3>2
      <4> QED BY <4>1, <4>2, RequestTaken DEF ClientHolds
    <3> QED BY <1>2, <3>2, <3>3, <3>4 DEF Talk
  <2>5. CASE ServerSequence
    <3>1. /\ srv.phase = "seq" /\ srv' = [srv EXCEPT !.phase = "catchup"] /\ TakenByServer
      BY <2>5, SequenceEffect
    <3>2. srv'.phase = "catchup" /\ srv'.sock = srv.sock /\ srv'.seq = srv.seq
      BY <3>1 DEF BaseInv, NetTypes
    <3>3. /\ ch \in Seq(UpMessages) /\ ch # << >> /\ up'[srv.sock] = Tail(ch)
      BY <3>1 DEF TakenByServer, BaseInv, NetTypes
    <3>4. /\ Len(Tail(ch)) = Len(ch) - 1 /\ \A i \in 1 .. Len(ch) - 1 : Tail(ch)[i] = ch[i + 1]
          /\ Len(ch) > 0 /\ Len(ch) \in Nat
      BY <3>3, Tailed
    <3>5. Talk(ch, "seq", srv.seq, rt.pc, rt.upto)
      BY <1>2, <3>1, <3>2 DEF TalkInv, Talking
    <3>6. rt.pc \in {"response", "sample", "header", "recover", "catchup", "revive_writer"}
      BY <1>2 DEF BaseInv, HoldInv, Handshaking
    <3> HIDE DEF ch
    <3>7. CASE rt.pc \in {"header", "recover"}
      <4>1. Len(Tail(ch)) = 0
        BY <3>4, <3>5, <3>7 DEF Talk
      <4> QED BY <1>2, <3>2, <3>3, <3>7, <4>1 DEF Talk
    <3>8. CASE rt.pc = "catchup"
      <4>1. Len(ch) = 2 /\ Closing(ch[2], srv.seq, rt.upto)
        BY <3>5, <3>8 DEF Talk
      <4>2. Len(Tail(ch)) = 1 /\ 1 \in 1 .. Len(ch) - 1 /\ 1 + 1 = 2
        BY <3>4, <4>1
      <4>3. Tail(ch)[1] = ch[2]
        BY <3>4, <4>2
      <4> QED BY <1>2, <3>2, <3>3, <3>8, <4>1, <4>2, <4>3 DEF Talk
    <3>9. rt.pc \notin {"response", "sample", "revive_writer"}
      BY <3>4, <3>5 DEF Talk
    <3> QED BY <3>6, <3>7, <3>8, <3>9
  <2>6. CASE ServerCatchup
    <3>1. /\ srv.phase = "catchup" /\ TakenByServer /\ srv'.phase = "live"
          /\ srv'.sock = srv.sock /\ srv'.seq = srv.seq + Len(ch[1].frames)
      BY <2>6, CatchupEffect DEF BaseInv, NetTypes
    <3>2. ch \in Seq(UpMessages) /\ ch # << >> /\ up'[srv.sock] = Tail(ch)
      BY <3>1 DEF TakenByServer, BaseInv, NetTypes
    <3>3. Len(Tail(ch)) = Len(ch) - 1 /\ Len(ch) > 0 /\ Len(ch) \in Nat
      BY <3>2, Tailed
    <3>4. Talk(ch, "catchup", srv.seq, rt.pc, rt.upto)
      BY <1>2, <3>1 DEF TalkInv, Talking
    <3>5. rt.pc \in {"response", "sample", "header", "recover", "catchup", "revive_writer"}
      BY <1>2 DEF BaseInv, HoldInv, Handshaking
    <3> HIDE DEF ch
    <3>6. /\ rt.pc \in {"catchup", "revive_writer"} /\ Len(ch) = 1
          /\ srv.seq + Len(ch[1].frames) = rt.upto
      BY <3>3, <3>4, <3>5 DEF Talk, Closing
    <3>7. Len(Tail(ch)) = 0
      BY <3>3, <3>6
    <3> QED BY <1>2, <3>1, <3>2, <3>6, <3>7 DEF Talk
  <2>7. CASE ServerReceive
    <3>1. srv.phase = "live" /\ ch # << >> /\ srv.sock \in Streams /\ srv'.sock \in {srv.sock, NoStream}
      BY <2>7, ReceiveEffect DEF BaseInv, NetTypes
    <3>2. Len(ch) = 0 /\ ch \in Seq(UpMessages)
      BY <1>0, <1>2, <3>1 DEF TalkInv, Talking, Talk, NetTypes
    <3> QED BY <3>1, <3>2, NothingLeft
  <2>8. ~(ServerNotices \/ ServerEnds)
    BY DEF ServerNotices, ServerEnds, BaseInv, NetTypes
  <2> QED BY <1>2, <2>1, <2>2, <2>3, <2>4, <2>5, <2>6, <2>7, <2>8 DEF Next, ServerNext
<1>3. CASE \E s \in Streams : Fresh(s) /\ rt'.stream = s /\ UNCHANGED srv
  BY <1>3 DEF Fresh
<1>4. CASE AwaitResponse /\ rt.pc = "response" /\ rt' = [rt EXCEPT !.pc = "sample"]
           /\ UNCHANGED <<up, srv>>
  <2>1. rt'.pc = "sample" /\ rt'.stream = rt.stream
    BY <1>4 DEF BaseInv, NetTypes
  <2> QED BY <1>4, <2>1 DEF TalkInv, Talking, Talk
<1>5. CASE AwaitSequence /\ UNCHANGED <<up, srv>>
  <2>1. rt.pc = "header" /\ rt'.pc = "recover" /\ rt'.stream = rt.stream
    BY <1>5 DEF AwaitSequence, BaseInv, NetTypes
  <2> QED BY <1>5, <2>1 DEF TalkInv, Talking, Talk
<1>6. CASE SendSequence
  <2> DEFINE m == [type |-> "seq", n |-> AsI32(r_sequence_number)]
  <2>1. /\ rt.pc = "sample" /\ rt'.pc = "header" /\ rt'.stream = rt.stream
        /\ up' = Put(up, rt.stream, m) /\ srv' = srv
    BY <1>6 DEF SendSequence, BaseInv, NetTypes
  <2>2. m \in UpMessages /\ m.type = "seq"
    BY ClientMessages
  <2> HIDE DEF m
  <2>3. srv.sock \in Streams /\ rt.stream = srv.sock /\ up \in [Streams -> Seq(UpMessages)]
    BY <1>0, <2>1 DEF NetTypes
  <2>4. up'[srv.sock] = Append(ch, m) /\ ch \in Seq(UpMessages)
    BY <2>1, <2>2, <2>3, PutAt
  <2>5. Talk(ch, srv.phase, srv.seq, "sample", rt.upto)
    BY <2>1 DEF TalkInv, Talking
  <2>6. srv.phase = "seq" /\ Len(ch) = 0
    BY <1>0, <2>1, <2>5 DEF Talk
  <2>7. Len(Append(ch, m)) = 1 /\ Append(ch, m)[1] = m
    BY <2>2, <2>4, <2>6
  <2> QED BY <2>1, <2>2, <2>4, <2>6, <2>7 DEF Talk
<1>7. CASE Recover /\ W!CanRecover(rt.remote)
  <2> DEFINE m == [type |-> "catchup", frames |-> W!Recovered(rt.remote)]
  <2>1. /\ rt.pc = "recover" /\ rt'.pc = "catchup" /\ rt'.stream = rt.stream
        /\ rt'.upto = w_sequence_number
        /\ up' = Put(up, rt.stream, m) /\ srv' = srv
    BY <1>7 DEF Recover, BaseInv, NetTypes
  <2>2. srv.sock \in Streams /\ rt.stream = srv.sock /\ up \in [Streams -> Seq(UpMessages)]
    BY <1>0, <2>1 DEF NetTypes
  <2>3. Talk(ch, srv.phase, srv.seq, "recover", rt.upto)
    BY <2>1 DEF TalkInv, Talking
  <2>4. srv.phase \in {"seq", "catchup"}
    BY <1>0, <2>1, <2>3 DEF Talk
  <2>5. rt.remote = AsI32(srv.seq)
    BY <2>1, <2>2, <2>4 DEF UpInv, RemoteTrue, Recovering
  <2>6. srv.seq + Len(W!Recovered(rt.remote)) = w_sequence_number
    BY <1>7, <2>5, RecoverFromThere DEF UpInv
  <2>7. m \in UpMessages /\ Closing(m, srv.seq, w_sequence_number)
    BY <1>7, <2>6, ClientMessages DEF Closing
  <2> HIDE DEF m
  <2>8. up'[srv.sock] = Append(ch, m) /\ ch \in Seq(UpMessages)
    BY <2>1, <2>2, <2>7, PutAt
  <2>9. /\ Len(Append(ch, m)) = Len(ch) + 1 /\ Append(ch, m)[Len(ch) + 1] = m
        /\ \A i \in 1 .. Len(ch) : Append(ch, m)[i] = ch[i]
    BY <2>7, <2>8, Appended
  <2> HIDE DEF ch
  <2>10. CASE srv.phase = "seq"
    <3>1. Len(ch) = 1 /\ ch[1].type = "seq"
      BY <2>3, <2>10 DEF Talk
    <3>2. Len(Append(ch, m)) = 2 /\ Append(ch, m)[1] = ch[1] /\ Append(ch, m)[2] = m
      BY <2>9, <3>1
    <3> QED BY <2>1, <2>7, <2>8, <2>10, <3>1, <3>2 DEF Talk
  <2>11. CASE srv.phase = "catchup"
    <3>1. Len(ch) = 0
      BY <2>3, <2>11 DEF Talk
    <3>2. Len(Append(ch, m)) = 1 /\ Append(ch, m)[1] = m
      BY <2>9, <3>1
    <3> QED BY <2>1, <2>7, <2>8, <2>11, <3>1, <3>2 DEF Talk
  <2> QED BY <2>4, <2>10, <2>11
<1>8. CASE ReviveReader /\ UNCHANGED <<up, srv>>
  <2>1. /\ rt.pc = "catchup" /\ rt'.pc = "revive_writer" /\ rt'.stream = rt.stream
        /\ rt'.upto = rt.upto /\ Has(down, rt.stream, "catchup")
    BY <1>8 DEF ReviveReader, BaseInv, NetTypes
  <2>2. srv.phase # "seq"
    BY <1>0, <1>8, <2>1, HeadOfDown DEF NotYetRevived
  <2> QED BY <1>8, <2>1, <2>2 DEF TalkInv, Talking, Talk
<1>9. ~ReviveWriter
  BY DEF ReviveWriter, BaseInv, NetTypes
<1> QED BY <1>2, <1>3, <1>4, <1>5, <1>6, <1>7, <1>8, <1>9, ThreadStep

LEMMA StepLive ==
    BaseInv /\ UpInv /\ NotYetRevived /\ TalkInv /\ LiveInv /\ [Next]_vars => LiveInv'
<1> SUFFICES ASSUME BaseInv, UpInv, NotYetRevived, TalkInv, LiveInv, [Next]_vars,
                    w_socket' # NoStream, w_socket' = srv'.sock, ~stranded'
             PROVE  Live(up'[w_socket'], srv'.phase, srv'.seq, w_sequence_number')
  BY DEF LiveInv, Streaming, Live, Sent
<1>0. /\ srv.sock # NoStream => srv.sock \in Streams /\ srv.phase \in {"seq", "catchup", "live"}
      /\ srv.phase \in {"seq", "catchup", "live"} => srv.sock \in Streams /\ srv.sock # NoStream
      /\ srv.seq \in Nat /\ NetTypes /\ up \in [Streams -> Seq(UpMessages)]
      /\ w_socket \in {NoStream, r_socket} /\ w_sequence_number \in Nat
      /\ srv.phase = "seq" => srv.sock # w_socket
  BY NoStreamAssumption
     DEF BaseInv, HoldInv, ServerHold, NetTypes, Ends, WriterInv, W!TypeOK, NotYetRevived
<1> DEFINE ch == up[w_socket]
<1>1. CASE UNCHANGED <<w_socket, w_sequence_number, stranded>> /\ up'[w_socket] = up[w_socket]
           /\ srv'.sock = srv.sock /\ srv'.phase = srv.phase /\ srv'.seq = srv.seq
  BY <1>1 DEF LiveInv, Streaming
<1>2. CASE SessionNext
  <2>1. srv' = srv /\ stranded' = stranded
    BY <1>2 DEF SessionNext, WritePacket, WriteCheck, WriteTurnedAway, WriteKept, WriteSent,
             WriteFailed, ReadWithoutSocket, ReadFrame, ReadPartial, ReadClosed, ForceReconnect,
             CloseAndMaybeReconnect, Shutdown, ShutdownJoined, Stopped, vars
  <2>2. CASE WriteKept
    BY <2>2 DEF WriteKept, W!WriteBuffered
  <2>3. CASE WriteFailed
    BY <2>3 DEF WriteFailed, W!WriteFailed
  <2>4. CASE CloseAndMaybeReconnect \/ ShutdownJoined
    BY <2>4 DEF CloseAndMaybeReconnect, ShutdownJoined, InvalidateBoth, W!InvalidateSocket
  <2>5. CASE WriteSent
    <3> DEFINE f == W!Encrypted(submitted)
               m == [type |-> "frame", frame |-> f]
    <3>1. /\ w_socket' = w_socket /\ w_socket # NoStream /\ w_socket = srv.sock
          /\ up' = Put(up, w_socket, m)
      BY <2>1, <2>5 DEF WriteSent, W!WriteSuccess
    <3>2. m \in UpMessages
      BY <2>5, ClientMessages DEF WriteSent
    <3>3. f.nonce = w_sequence_number + 1
      BY DEF BaseInv, WriterInv, W!BackupIsRecentHistory, W!Encrypted
    <3>4. m.type = "frame" /\ m.frame.nonce = w_sequence_number + 1
      BY <3>3
    <3>5. w_sequence_number' = w_sequence_number + 1
      BY <2>5, WriteAccepts DEF Accepts
    <3> HIDE DEF m
    <3>6. up'[w_socket] = Append(ch, m) /\ ch \in Seq(UpMessages) /\ Len(ch) \in Nat
      BY <1>0, <3>1, <3>2, PutAt
    <3>7. Live(ch, srv.phase, srv.seq, w_sequence_number)
      BY <2>1, <3>1 DEF LiveInv, Streaming
    <3>8. \A i \in 1 .. Len(ch) : Append(ch, m)[i] = ch[i]
      BY <3>2, <3>6, Appended
    <3>9. Len(Append(ch, m)) = Len(ch) + 1
      BY <3>2, <3>6, Appended
    <3> HIDE DEF ch
    <3>10. CASE srv.phase = "catchup"
      <4>1. /\ Len(ch) >= 1 /\ ch[1].type = "catchup"
            /\ Sent(ch, 2, srv.seq + Len(ch[1].frames), w_sequence_number)
        BY <3>7, <3>10 DEF Live
      <4>2. 1 \in 1 .. Len(ch) /\ 2 =< Len(ch) + 1
        BY <3>6, <4>1
      <4>3. ch[1] \in UpMessages
        BY <3>6, <4>2
      <4>4. ch[1].frames \in Seq(W!Frames)
        BY <4>1, <4>3, MessageTypes
      <4>5. srv.seq + Len(ch[1].frames) \in Nat
        BY <1>0, <4>4
      <4> DEFINE first == srv.seq + Len(ch[1].frames)
      <4> HIDE DEF first
      <4>6. Sent(ch, 2, first, w_sequence_number) /\ first \in Nat
        BY <4>1, <4>5 DEF first
      <4>7. Sent(Append(ch, m), 2, first, w_sequence_number + 1)
        <5>1. 2 \in 1 .. 2 /\ w_sequence_number \in Nat
          BY <1>0
        <5> QED BY <3>2, <3>4, <3>6, <4>2, <4>6, <5>1, SentMore
      <4>8. Append(ch, m)[1] = ch[1] /\ Len(Append(ch, m)) >= 1
        BY <3>6, <3>8, <3>9, <4>2
      <4> QED BY <2>1, <3>1, <3>5, <3>6, <3>10, <4>1, <4>7, <4>8 DEF Live, first
    <3>11. CASE srv.phase = "live"
      <4>1. Sent(ch, 1, srv.seq, w_sequence_number)
        BY <3>7, <3>11 DEF Live
      <4>2. 1 \in 1 .. 2 /\ 1 =< Len(ch) + 1
        BY <3>6
      <4>3. Sent(Append(ch, m), 1, srv.seq, w_sequence_number + 1)
        BY <1>0, <3>2, <3>4, <3>6, <4>1, <4>2, SentMore
      <4> QED BY <2>1, <3>1, <3>5, <3>6, <3>11, <4>3 DEF Live
    <3> QED BY <1>0, <3>1, <3>10, <3>11
  <2>6. CASE WritePacket \/ WriteCheck \/ WriteTurnedAway \/ ReadWithoutSocket \/ ReadFrame
             \/ ReadPartial \/ ReadClosed \/ ForceReconnect \/ Shutdown \/ Stopped
    <3>1. UNCHANGED <<w_socket, w_sequence_number, up>>
      BY <2>6 DEF WritePacket, WriteCheck, WriteTurnedAway, W!WriteSkipped, W!vars,
             ReadWithoutSocket, ReadFrame, ReadPartial, ReadClosed, ForceReconnect, Shutdown,
             Stopped, vars, writer, network
    <3> QED BY <1>1, <2>1, <3>1
  <2> QED BY <1>2, <2>2, <2>3, <2>4, <2>5, <2>6 DEF SessionNext
<1>3. CASE ReconnectNext
  <2>1. srv' = srv /\ w_sequence_number' = w_sequence_number
    BY <1>3 DEF ReconnectNext, Leave, Dial, AwaitResponse, SendSequence, AwaitSequence, Recover,
             ReviveReader, ReviveWriter, W!Revive, Announce, AttemptBroken, AttemptTimesOut, writer
  <2>2. CASE ReviveWriter
    <3>1. /\ rt.pc = "revive_writer" /\ w_socket' = rt.stream /\ up' = up
          /\ w_sequence_number = rt.upto
      BY <2>2 DEF ReviveWriter, W!Revive, network
    <3>2. Talk(up[srv.sock], srv.phase, srv.seq, "revive_writer", w_sequence_number)
      BY <2>1, <3>1 DEF TalkInv, Talking
    <3>3. srv.sock \in Streams /\ srv.phase \in {"seq", "catchup", "live"}
      BY <1>0, <2>1
    <3> DEFINE q == up[srv.sock]
    <3>4. q \in Seq(UpMessages) /\ Len(q) \in Nat
      BY <1>0, <3>3
    <3> HIDE DEF q
    <3>5. CASE srv.phase = "catchup"
      <4>1. /\ Len(q) = 1 /\ q[1].type = "catchup"
            /\ srv.seq + Len(q[1].frames) = w_sequence_number
        BY <3>2, <3>5 DEF Talk, Closing, q
      <4>2. Sent(q, 2, w_sequence_number, w_sequence_number)
        BY <1>0, <4>1 DEF Sent
      <4> QED BY <2>1, <3>1, <3>5, <4>1, <4>2 DEF Live, q
    <3>6. CASE srv.phase = "live"
      <4>1. Len(q) = 0 /\ srv.seq = w_sequence_number
        BY <3>2, <3>6 DEF Talk, q
      <4>2. Sent(q, 1, srv.seq, w_sequence_number)
        BY <1>0, <4>1 DEF Sent
      <4> QED BY <2>1, <3>1, <3>6, <4>2 DEF Live, q
    <3>7. srv.phase # "seq"
      BY <3>2 DEF Talk
    <3> QED BY <3>3, <3>5, <3>6, <3>7
  <2>3. CASE Leave \/ Announce
    <3>1. UNCHANGED <<w_socket, stranded, up>>
      BY <2>3 DEF Leave, Announce, writer, network
    <3> QED BY <1>1, <2>1, <3>1
  <2>4. CASE Dial \/ AwaitResponse \/ SendSequence \/ AwaitSequence \/ Recover
             \/ ReviveReader \/ AttemptBroken \/ AttemptTimesOut
    <3>1. w_socket' = w_socket /\ (rt.pc = "loop" \/ Handshaking)
      BY <2>4 DEF Dial, AwaitResponse, SendSequence, AwaitSequence, Recover, ReviveReader,
             AttemptBroken, AttemptTimesOut, Handshaking, writer
    <3> QED BY <3>1 DEF BaseInv, HalvesInv, BothOn
  <2> QED BY <1>3, <2>2, <2>3, <2>4 DEF ReconnectNext
<1>4. CASE ServerNext \/ (\E s \in Streams : Break(s)) \/ UNCHANGED vars
  <2>1. UNCHANGED <<w_socket, w_sequence_number, stranded>>
    BY <1>4 DEF ServerNext, ServerRequest, ServerRefuse, ServerSequence, ServerCatchup,
                ServerReceive, ServerNotices, ServerSend, ServerEnds, Break, vars, writer
  <2>2. CASE ServerSend \/ (\E s \in Streams : Break(s)) \/ UNCHANGED vars
    <3>1. up' = up /\ srv'.sock = srv.sock /\ srv'.phase = srv.phase /\ srv'.seq = srv.seq
      BY <2>2 DEF ServerSend, Break, vars, network, BaseInv, NetTypes
    <3> QED BY <1>1, <2>1, <3>1
  <2>3. ASSUME NEW s \in Streams, ServerRefuse(s)
        PROVE  Live(up'[w_socket'], srv'.phase, srv'.seq, w_sequence_number')
    <3>1. srv' = srv /\ s # srv.sock /\ up' = Take(up, s)
      BY <2>3, RequestTaken DEF ServerRefuse, Dialled
    <3>2. up'[w_socket] = up[w_socket]
      BY <1>0, <2>1, <3>1 DEF Take
    <3> QED BY <1>1, <2>1, <3>1, <3>2
  <2>4. ASSUME NEW s \in Streams, ServerRequest(s) PROVE FALSE
    <3>1. srv.phase # "ended"
      BY <1>0, <2>1, <2>4, RequestEffect
    <3>2. srv'.sock = s
      BY <2>4, <3>1, RequestEffect DEF BaseInv, NetTypes
    <3>3. s # r_socket
      BY <2>4, RequestTaken DEF ServerRequest, Dialled
    <3> QED BY <1>0, <2>1, <3>2, <3>3
  <2>5. ~ServerSequence
    <3> SUFFICES ASSUME ServerSequence PROVE FALSE
      OBVIOUS
    <3>1. srv.phase = "seq" /\ srv'.sock = srv.sock
      BY SequenceEffect DEF BaseInv, NetTypes
    <3> QED BY <1>0, <2>1, <3>1
  <2>6. CASE ServerCatchup
    <3>1. /\ srv.phase = "catchup" /\ TakenByServer /\ srv'.phase = "live"
          /\ srv'.sock = srv.sock /\ srv'.seq = srv.seq + Len(ch[1].frames)
          /\ ch[1] \in UpMessages /\ ch[1].type = "catchup" /\ srv.sock = w_socket
      <4>1. srv'.sock = srv.sock
        BY <2>6, CatchupEffect DEF BaseInv, NetTypes
      <4>2. srv.sock = w_socket
        BY <2>1, <4>1
      <4> QED BY <2>6, <4>1, <4>2, CatchupEffect DEF BaseInv, NetTypes
    <3>2. ch \in Seq(UpMessages) /\ ch # << >> /\ up'[w_socket] = Tail(ch)
      BY <1>0, <3>1 DEF TakenByServer
    <3>3. Sent(ch, 2, srv.seq + Len(ch[1].frames), w_sequence_number)
      BY <2>1, <3>1 DEF LiveInv, Streaming, Live
    <3>4. ch[1].frames \in Seq(W!Frames)
      BY <3>1, MessageTypes
    <3>5. srv.seq + Len(ch[1].frames) \in Nat
      BY <1>0, <3>4
    <3> DEFINE first == srv.seq + Len(ch[1].frames)
    <3>6. first \in Nat /\ Sent(ch, 2, first, w_sequence_number)
      BY <3>3, <3>5
    <3> HIDE DEF first, ch
    <3>7. Sent(Tail(ch), 1, first, w_sequence_number)
      <4>1. 2 \in 1 .. 2 /\ w_sequence_number \in Nat
        BY <1>0
      <4> QED BY <3>2, <3>6, <4>1, SentLess
    <3> QED BY <2>1, <3>1, <3>2, <3>7 DEF Live, first
  <2>7. CASE ServerReceive
    <3>1. /\ srv.phase = "live" /\ srv.sock \in Streams
          /\ srv'.sock \in {srv.sock, NoStream}
      BY <2>7, ReceiveEffect DEF BaseInv, NetTypes
    <3>2. srv.sock = w_socket /\ srv'.sock # NoStream
      BY <2>1, <3>1
    <3>3. /\ TakenByServer /\ ch # << >> /\ srv'.phase = "live" /\ srv'.seq = srv.seq + 1
      BY <2>7, <3>2, ReceiveEffect DEF BaseInv, NetTypes
    <3>4. ch \in Seq(UpMessages) /\ up'[w_socket] = Tail(ch)
      BY <1>0, <3>1, <3>2, <3>3 DEF TakenByServer
    <3>5. Sent(ch, 1, srv.seq, w_sequence_number)
      BY <2>1, <3>1, <3>2 DEF LiveInv, Streaming, Live
    <3> HIDE DEF ch
    <3>6. Sent(Tail(ch), 1, srv.seq + 1, w_sequence_number)
      <4>1. 1 \in 1 .. 2
        OBVIOUS
      <4> QED BY <1>0, <3>3, <3>4, <3>5, <4>1, SentLess
    <3> QED BY <2>1, <3>3, <3>4, <3>6 DEF Live
  <2>8. ~(ServerNotices \/ ServerEnds)
    BY <2>1 DEF ServerNotices, ServerEnds, BaseInv, NetTypes
  <2> QED BY <1>4, <2>2, <2>3, <2>4, <2>5, <2>6, <2>7, <2>8 DEF ServerNext
<1> QED BY <1>2, <1>3, <1>4 DEF Next

LEMMA InitTalk == Init => NotYetRevived /\ TalkInv /\ LiveInv
<1> SUFFICES ASSUME Init PROVE NotYetRevived /\ TalkInv /\ LiveInv
  OBVIOUS
<1>1. /\ srv.phase = "live" /\ srv.sock = w_socket /\ srv.seq = 0 /\ w_socket \in Streams
      /\ rt.stream = NoStream /\ w_sequence_number = 0
  BY DEF Init, W!Init, Thread
<1>2. up[w_socket] = << >>
  BY <1>1 DEF Init
<1>3. Len(up[w_socket]) = 0
  BY <1>2
<1>4. Sent(up[w_socket], 1, 0, 0)
  BY <1>3 DEF Sent
<1> QED BY <1>1, <1>4 DEF NotYetRevived, TalkInv, Talking, LiveInv, Streaming, Live

LEMMA TalkAlways == Spec /\ []BackupBelowWrap => [](NotYetRevived /\ TalkInv /\ LiveInv)
<1>1. /\ BaseInv /\ BackupBelowWrap /\ UpInv /\ NotYetRevived /\ TalkInv /\ LiveInv /\ [Next]_vars
         => (NotYetRevived /\ TalkInv /\ LiveInv)'
  BY StepNotYet, StepTalk, StepLive
<1> QED BY <1>1, InitTalk, BaseAlways, UpAlways, PTL DEF Spec

\* A queue of frames, as the sequence of them.
LEMMA FramesOnly ==
    ASSUME NEW ms \in Seq(UpMessages), NEW first \in Nat, NEW last \in Nat,
           Sent(ms, 1, first, last)
    PROVE  LET q == [i \in 1 .. Len(ms) |-> ms[i].frame] IN
           /\ q \in Seq(W!Frames) /\ Len(q) = Len(ms) /\ first + Len(q) = last
           /\ \A i \in 1 .. Len(q) : q[i].nonce = first + i
<1>1. Len(ms) \in Nat /\ first + Len(ms) = last
  BY DEF Sent
<1>2. ASSUME NEW i \in 1 .. Len(ms)
      PROVE  ms[i].frame \in W!Frames /\ ms[i].frame.nonce = first + i
  <2>1. ms[i] \in UpMessages
    OBVIOUS
  <2>2. ms[i].type = "frame" /\ ms[i].frame.nonce = first + (i + 1 - 1)
    BY DEF Sent
  <2>3. first + (i + 1 - 1) = first + i
    BY <1>1
  <2> QED BY <2>1, <2>2, <2>3, MessageTypes
<1> QED BY <1>1, <1>2

LEMMA NothingStrandedFollows ==
    BaseInv /\ UpInv /\ NotYetRevived /\ LiveInv => StrandedOnlyByTheWindow
<1> SUFFICES ASSUME BaseInv, UpInv, LiveInv, ~stranded, w_socket # NoStream,
                    w_socket = srv.sock, srv.phase \in {"catchup", "live"}
             PROVE  /\ Len(Pending(w_socket)) = w_sequence_number - srv.seq
                    /\ \A i \in 1 .. Len(Pending(w_socket)) :
                          Pending(w_socket)[i].nonce = srv.seq + i
  BY DEF StrandedOnlyByTheWindow, NothingStranded
<1> DEFINE ch == up[w_socket]
<1>1. /\ w_socket \in Streams /\ ch \in Seq(UpMessages) /\ Len(ch) \in Nat
      /\ srv.seq \in Nat /\ w_sequence_number \in Nat
  BY DEF BaseInv, NetTypes, WriterInv, W!TypeOK
<1>2. Live(ch, srv.phase, srv.seq, w_sequence_number)
  BY DEF LiveInv, Streaming
<1>3. CASE srv.phase = "catchup"
  <2> DEFINE F == ch[1].frames
             ms == Tail(ch)
             first == srv.seq + Len(F)
             q == [i \in 1 .. Len(ms) |-> ms[i].frame]
  <2>1. /\ Len(ch) >= 1 /\ ch[1].type = "catchup" /\ Sent(ch, 2, first, w_sequence_number)
    BY <1>2, <1>3 DEF Live
  <2>2. /\ ch # << >> /\ 1 \in 1 .. Len(ch) /\ ch[1] \in UpMessages
    BY <1>1, <2>1
  <2>3. F \in Seq(W!Frames) /\ Len(F) \in Nat
    BY <2>1, <2>2, MessageTypes
  <2>4. Has(up, w_socket, "catchup") /\ Head(ch) = ch[1] /\ ms \in Seq(UpMessages)
    BY <1>1, <2>1, <2>2, Tailed DEF Has
  <2>5. Pending(w_socket) = F \o q
    BY <2>4 DEF Pending, Resent, SentSince
  <2>6. Resends(F)
    BY <1>3, <2>1, <2>2 DEF UpInv, ResendsTrue, Recovering
  <2>7. first \in Nat
    BY <1>1, <2>3
  <2> HIDE DEF F, ch
  <2>8. Sent(ms, 1, first, w_sequence_number)
    <3> HIDE DEF first
    <3>1. 2 \in 1 .. 2
      OBVIOUS
    <3>2. ch \in Seq(UpMessages) /\ ch # << >> /\ Sent(ch, 2, first, w_sequence_number)
      BY <1>1, <2>1, <2>2
    <3> QED BY <1>1, <2>7, <3>1, <3>2, SentLess
  <2> HIDE DEF ms
  <2>9. /\ q \in Seq(W!Frames) /\ first + Len(q) = w_sequence_number
        /\ \A i \in 1 .. Len(q) : q[i].nonce = first + i
    <3> HIDE DEF first
    <3> QED BY <1>1, <2>4, <2>7, <2>8, FramesOnly
  <2> HIDE DEF q
  <2>10. /\ Len(F \o q) = Len(F) + Len(q) /\ Len(q) \in Nat
         /\ \A i \in 1 .. Len(F) : (F \o q)[i] = F[i]
         /\ \A i \in 1 .. Len(q) : (F \o q)[Len(F) + i] = q[i]
    <3>1. q \in Seq(W!Frames) /\ Len(q) \in Nat
      BY <2>9
    <3>2. F \in Seq(W!Frames)
      BY <2>3
    <3> QED BY <3>1, <3>2, Joined
  <2>11. ASSUME NEW i \in 1 .. Len(F) + Len(q) PROVE (F \o q)[i].nonce = srv.seq + i
    <3>1. CASE i \in 1 .. Len(F)
      BY <2>6, <2>10, <3>1 DEF Resends
    <3>2. CASE i \notin 1 .. Len(F)
      <4> DEFINE j == i - Len(F)
      <4>1. j \in 1 .. Len(q) /\ Len(F) + j = i
        BY <2>3, <2>10, <3>2
      <4>2. first + j = srv.seq + i
        BY <1>1, <2>3, <4>1
      <4> HIDE DEF j, first
      <4>3. (F \o q)[i] = q[j] /\ q[j].nonce = first + j
        BY <2>9, <2>10, <4>1
      <4> QED BY <4>2, <4>3
    <3> QED BY <3>1, <3>2
  <2>12. Len(F) + Len(q) = w_sequence_number - srv.seq
    BY <1>1, <2>3, <2>9, <2>10
  <2> QED BY <2>5, <2>10, <2>11, <2>12
<1>4. CASE srv.phase = "live"
  <2> DEFINE q == [i \in 1 .. Len(ch) |-> ch[i].frame]
  <2>1. Sent(ch, 1, srv.seq, w_sequence_number)
    BY <1>2, <1>4 DEF Live
  <2>2. ~Has(up, w_socket, "catchup")
    <3>1. CASE ch = << >>
      BY <3>1 DEF Has
    <3>2. CASE ch # << >>
      <4>1. Head(ch) = ch[1] /\ 1 \in 1 .. Len(ch)
        BY <1>1, <3>2
      <4>2. ch[1].type = "frame"
        BY <2>1, <4>1 DEF Sent
      <4> QED BY <4>1, <4>2 DEF Has
    <3> QED BY <3>1, <3>2
  <2>3. /\ q \in Seq(W!Frames) /\ srv.seq + Len(q) = w_sequence_number
        /\ \A i \in 1 .. Len(q) : q[i].nonce = srv.seq + i
    <3> HIDE DEF ch
    <3> QED BY <1>1, <2>1, FramesOnly, ZenonT(40)
  <2>4. Pending(w_socket) = << >> \o q
    BY <2>2 DEF Pending, Resent, SentSince
  <2> HIDE DEF q
  <2>5. << >> \o q = q /\ Len(q) \in Nat
    BY <2>3
  <2>6. Len(q) = w_sequence_number - srv.seq
    BY <1>1, <2>3, <2>5
  <2> QED BY <2>3, <2>4, <2>5, <2>6
<1> QED BY <1>3, <1>4

\* Frames are stranded in one way only: the session loop had them buffered
\* between recover() and revive() of the writer.  Otherwise a live writer on the
\* server's connection has put on it, once and in order, every frame the server
\* lacks (recover, revive and write together).
THEOREM StrandedTheorem == Spec /\ []BackupBelowWrap => []StrandedOnlyByTheWindow
BY TalkAlways, UpAlways, BaseAlways, NothingStrandedFollows, PTL

-----------------------------------------------------------------------------
(* Server to client. *)

(* What steps there are, as the queues to the client see them. *)

\* The messages of its conversation the reconnect thread has taken so far ...
Read == IF rt.pc = "response" THEN 0 ELSE IF rt.pc \in {"sample", "header"} THEN 1 ELSE 2

\* ... and the type of the n-th one.
Due(n) == IF n = 1 THEN "response"
          ELSE IF n = 2 THEN "seq" ELSE IF n = 3 THEN "catchup" ELSE "piece"

\* The session loop reads from its connection, or from the catch-up it holds, or
\* does something else that changes no queue to the client.
SessionStep ==
    /\ rt' = rt /\ srv' = srv /\ r_socket' = r_socket
    /\ \/ down' = down
       \/ /\ r_socket \in Streams
          /\ ReadFrame \/ ReadPartial
          /\ \A s \in Streams \ {r_socket} : down'[s] = down[s]

\* An attempt is over, or none was under way; the reader may have let go.
NoAttempt ==
    /\ ~Handshaking' /\ srv' = srv
    /\ \/ r_socket' = NoStream
       \/ r_socket' = r_socket /\ (r_socket \in Streams => down'[r_socket] = down[r_socket])

\* An attempt begins, says something, or hears something.
Begins ==
    /\ Handshaking' /\ Read' = 0 /\ rt'.stream \in Streams
    /\ down[rt'.stream] = << >> /\ rt'.stream # srv.sock
    /\ srv' = srv /\ r_socket' = r_socket /\ down' = down

Says ==
    /\ Handshaking /\ Handshaking' /\ Read' = Read /\ rt'.stream = rt.stream
    /\ srv' = srv /\ r_socket' = r_socket /\ down' = down

HearsAt(s) ==
    /\ down[s] # << >> /\ down'[s] = Tail(down[s])
    /\ \A t \in Streams \ {s} : down'[t] = down[t]

Hears ==
    /\ Handshaking /\ Handshaking' /\ Read' = Read + 1 /\ rt'.stream = rt.stream
    /\ srv' = srv /\ r_socket' = r_socket /\ HearsAt(rt.stream)

Revives ==
    /\ rt.pc = "catchup" /\ ~Handshaking' /\ srv' = srv
    /\ r_socket' = rt.stream /\ HearsAt(rt.stream)
    /\ down[rt.stream][1].type = "catchup"

\* The server says nothing, or answers a request, or sends what was missed, or
\* something new.
Silent ==
    /\ srv'.sock \in {srv.sock, NoStream} /\ srv'.log = srv.log
    /\ srv'.phase = srv.phase \/ (srv.phase # "seq" /\ srv'.phase # "seq") \/ srv'.sock = NoStream
    /\ rt' = rt /\ r_socket' = r_socket /\ down' = down

Replies(s) ==
    /\ rt' = rt /\ r_socket' = r_socket /\ s # srv.sock /\ s # r_socket /\ srv'.log = srv.log
    /\ rt.stream = s => rt.pc = "response"
    /\ \/ srv' = srv /\ \E status : Answered(s, <<Response(status)>>)
       \/ /\ srv' = [srv EXCEPT !.phase = "seq", !.sock = s]
          /\ Answered(s, <<Response("ReturningClient"), SeqMessage(AsI32(srv.seq))>>)

LEMMA SessionDown ==
    ASSUME BaseInv, SessionNext
    PROVE  SessionStep \/ NoAttempt
<1>1. down \in [Streams -> Seq(DownMessages)]
  BY DEF BaseInv, NetTypes
<1>2. CASE CloseAndMaybeReconnect \/ ShutdownJoined
  <2>1. \E pc \in {"none", "loop", "done"} : rt' = Thread(pc)
    BY <1>2 DEF CloseAndMaybeReconnect, ShutdownJoined
  <2>2. ~Handshaking'
    BY <2>1, ThreadTypes DEF Handshaking
  <2> QED BY <1>2, <2>2 DEF CloseAndMaybeReconnect, ShutdownJoined, InvalidateBoth,
                            R!InvalidateSocket, NoAttempt
<1>3. CASE ReadFrame \/ ReadPartial
  <2>1. r_socket \in Streams /\ \A s \in Streams \ {r_socket} : down'[s] = down[s]
    BY <1>1, <1>3 DEF ReadFrame, ReadPartial, BaseInv, NetTypes, Ends
  <2> QED BY <1>3, <2>1 DEF ReadFrame, ReadPartial, R!ReadFrame, R!ReadPartial, SessionStep
<1>4. CASE ReadWithoutSocket \/ ReadClosed
  BY <1>4 DEF ReadWithoutSocket, ReadClosed, R!ReadIdle, R!ReadBuffered, R!ReadClosed,
              R!ReadPartial, R!vars, network, SessionStep
<1>5. CASE \/ WritePacket \/ WriteCheck \/ WriteTurnedAway \/ WriteKept \/ WriteSent \/ WriteFailed
           \/ ForceReconnect \/ Shutdown \/ Stopped
  BY <1>5 DEF WritePacket, WriteCheck, WriteTurnedAway, WriteKept, WriteSent, WriteFailed,
              ForceReconnect, Shutdown, Stopped, vars, reader, network, SessionStep
<1> QED BY <1>2, <1>3, <1>4, <1>5 DEF SessionNext

LEMMA ReconnectDown ==
    ASSUME BaseInv, ReconnectNext
    PROVE  NoAttempt \/ Begins \/ Says \/ Hears \/ Revives
<1>1. /\ down \in [Streams -> Seq(DownMessages)] /\ NetTypes /\ rt.stream \in Ends
      /\ {rt.stream} \in SUBSET Ends
  BY DEF BaseInv, NetTypes
<1>2. ASSUME NEW pc \in {"none", "loop", "done"}, rt' = Thread(pc) PROVE ~Handshaking'
  BY <1>2, ThreadTypes DEF Handshaking
<1>3. ASSUME Drop({rt.stream}), UNCHANGED <<srv, r_socket>>, Handshaking, ~Handshaking'
      PROVE  NoAttempt
  <2>1. r_socket = NoStream
    BY <1>3 DEF BaseInv, HalvesInv, BothOn
  <2> QED BY <1>3, <2>1 DEF NoAttempt
<1>4. CASE AttemptBroken \/ AttemptTimesOut
  BY <1>2, <1>3, <1>4 DEF AttemptBroken, AttemptTimesOut, AttemptOver, reader
<1>5. CASE Leave \/ Announce
  BY <1>2, <1>5 DEF Leave, Announce, reader, network, NoAttempt
<1>6. CASE ReviveWriter
  BY <1>6 DEF ReviveWriter, reader, network, NoAttempt, Handshaking, BaseInv, NetTypes
<1>7. CASE Dial
  <2>1. PICK s \in Streams :
           Fresh(s) /\ rt' = [rt EXCEPT !.pc = "response", !.stream = s]
    BY <1>7 DEF Dial
  <2>2. rt'.pc = "response" /\ rt'.stream = s
    BY <1>1, <2>1 DEF NetTypes
  <2>3. down[s] = << >> /\ s # srv.sock
    BY <2>1 DEF Fresh, BaseInv, HoldInv
  <2> QED BY <1>7, <2>2, <2>3 DEF Dial, reader, Begins, Read, Handshaking
<1>8. ASSUME Handshaking, down[rt.stream] # << >>, down' = Take(down, rt.stream)
      PROVE  HearsAt(rt.stream)
  <2>1. rt.stream \in Streams
    BY <1>8 DEF BaseInv, HalvesInv, NetTypes, Ends
  <2> QED BY <1>1, <1>8, <2>1, TakeAt DEF HearsAt
<1>9. CASE AwaitResponse
  <2>1. /\ Handshaking /\ rt.pc = "response" /\ down[rt.stream] # << >>
        /\ UNCHANGED <<srv, r_socket>>
    BY <1>9 DEF AwaitResponse, Has, Handshaking, reader
  <2>2. \/ rt' = Thread("done") /\ Drop({rt.stream})
        \/ rt' = Thread("loop") /\ Drop({rt.stream})
        \/ rt' = [rt EXCEPT !.pc = "sample"] /\ down' = Take(down, rt.stream)
    BY <1>9 DEF AwaitResponse, AttemptOver
  <2>3. ASSUME rt' = [rt EXCEPT !.pc = "sample"], down' = Take(down, rt.stream)
        PROVE  Hears
    <3>1. rt'.pc = "sample" /\ rt'.stream = rt.stream
      BY <1>1, <2>3 DEF NetTypes
    <3> QED BY <1>8, <2>1, <2>3, <3>1 DEF Hears, Read, Handshaking
  <2> QED BY <1>2, <1>3, <2>1, <2>2, <2>3
<1>10. CASE AwaitSequence
  <2>1. /\ Handshaking /\ rt.pc = "header" /\ down[rt.stream] # << >>
        /\ UNCHANGED <<srv, r_socket>> /\ down' = Take(down, rt.stream)
        /\ rt' = [rt EXCEPT !.pc = "recover", !.remote = Head(down[rt.stream]).n]
    BY <1>10 DEF AwaitSequence, Has, Handshaking, reader
  <2>2. rt'.pc = "recover" /\ rt'.stream = rt.stream
    BY <1>1, <2>1 DEF NetTypes
  <2> QED BY <1>8, <2>1, <2>2 DEF Hears, Read, Handshaking
<1>11. CASE SendSequence
  <2>1. /\ rt.pc = "sample" /\ UNCHANGED <<srv, r_socket, down>>
        /\ rt' = [rt EXCEPT !.pc = "header", !.sample = r_sequence_number]
    BY <1>11 DEF SendSequence, reader
  <2>2. rt'.pc = "header" /\ rt'.stream = rt.stream
    BY <1>1, <2>1 DEF NetTypes
  <2> QED BY <2>1, <2>2 DEF Says, Read, Handshaking
<1>12. CASE Recover
  <2>1. rt.pc = "recover" /\ UNCHANGED <<srv, r_socket>> /\ Handshaking
    BY <1>12 DEF Recover, reader, Handshaking
  <2>2. \/ rt' = Thread("loop") /\ Drop({rt.stream})
        \/ rt' = [rt EXCEPT !.pc = "catchup", !.upto = w_sequence_number] /\ down' = down
    BY <1>12 DEF Recover, AttemptOver
  <2>3. ASSUME rt' = [rt EXCEPT !.pc = "catchup", !.upto = w_sequence_number], down' = down
        PROVE  Says
    <3>1. rt'.pc = "catchup" /\ rt'.stream = rt.stream
      BY <1>1, <2>3 DEF NetTypes
    <3> QED BY <2>1, <2>3, <3>1 DEF Says, Read, Handshaking
  <2> QED BY <1>2, <1>3, <2>1, <2>2, <2>3
<1>13. CASE ReviveReader
  <2>1. /\ rt.pc = "catchup" /\ Handshaking /\ Has(down, rt.stream, "catchup")
        /\ down' = Take(down, rt.stream) /\ rt' = [rt EXCEPT !.pc = "revive_writer"]
        /\ srv' = srv /\ r_socket' = rt.stream
    BY <1>13 DEF ReviveReader, Handshaking, R!Revive
  <2>2. rt'.pc = "revive_writer" /\ rt.stream \in Streams
    BY <1>1, <2>1 DEF NetTypes, BaseInv, HalvesInv, Ends
  <2>3. down[rt.stream] # << >> /\ down[rt.stream][1].type = "catchup"
    BY <1>1, <2>1, <2>2, HeadOfDown
  <2> QED BY <1>8, <2>1, <2>2, <2>3 DEF Revives, Handshaking
<1> QED BY <1>4, <1>5, <1>6, <1>7, <1>9, <1>10, <1>11, <1>12, <1>13 DEF ReconnectNext

LEMMA ServerDown ==
    ASSUME BaseInv, ServerNext \/ (\E s \in Streams : Break(s)) \/ UNCHANGED vars
    PROVE  \/ Silent \/ (\E s \in Streams : Replies(s))
           \/ ServerSequence \/ ServerSend
<1>1. UNCHANGED <<rt, reader>> /\ r_socket' = r_socket
  BY DEF ServerNext, ServerRequest, ServerRefuse, ServerSequence, ServerCatchup,
         ServerReceive, ServerNotices, ServerSend, ServerEnds, Break, vars, reader
<1>2. NetTypes
  BY DEF BaseInv
<1>3. CASE ServerCatchup
  <2>1. srv.phase = "catchup" /\ down' = down
    BY <1>3 DEF ServerCatchup
  <2>2. srv'.sock = srv.sock /\ srv'.phase = "live" /\ srv'.log = srv.log
    BY <1>2, <1>3 DEF ServerCatchup, NetTypes
  <2> QED BY <1>1, <2>1, <2>2 DEF Silent
<1>4. CASE ServerReceive
  <2>1. srv.phase = "live" /\ down' = down /\ srv'.log = srv.log
    BY <1>2, <1>4 DEF ServerReceive, NetTypes
  <2>2. \/ srv'.sock = srv.sock /\ srv'.phase = srv.phase
        \/ srv'.sock = NoStream
    BY <1>2, <1>4 DEF ServerReceive, NetTypes
  <2> QED BY <1>1, <2>1, <2>2 DEF Silent
<1>5. CASE ServerNotices \/ ServerEnds
  <2>1. down' = down /\ srv'.log = srv.log /\ srv'.sock = NoStream
    BY <1>2, <1>5 DEF ServerNotices, ServerEnds, NetTypes
  <2> QED BY <1>1, <2>1 DEF Silent
<1>6. CASE (\E s \in Streams : Break(s)) \/ UNCHANGED vars
  BY <1>1, <1>6 DEF Break, vars, network, Silent
<1>7. ASSUME NEW s \in Streams, ServerRequest(s) \/ ServerRefuse(s) PROVE Replies(s)
  <2>1. Has(up, s, "request")
    BY <1>7 DEF ServerRequest, ServerRefuse
  <2>2. Dialled(s)
    BY <2>1, RequestTaken
  <2>3. \/ srv' = srv /\ \E status : Answered(s, <<Response(status)>>)
        \/ /\ srv' = [srv EXCEPT !.phase = "seq", !.sock = s]
           /\ Answered(s, <<Response("ReturningClient"), SeqMessage(AsI32(srv.seq))>>)
    BY <1>7, RequestEffect, RefuseEffect
  <2>4. srv'.log = srv.log
    BY <1>2, <2>3 DEF NetTypes
  <2> QED BY <1>1, <2>2, <2>3, <2>4 DEF Replies, Dialled
<1> QED BY <1>3, <1>4, <1>5, <1>6, <1>7 DEF ServerNext

-----------------------------------------------------------------------------
(* Message types. *)

Shaped(ch, read) == \A i \in 1 .. Len(ch) : ch[i].type = Due(read + i)
OnlyPieces(ch) == \A i \in 1 .. Len(ch) : ch[i].type = "piece"

\* How far a server that is on the thread's connection has got.
Stage(ch, read, phase) ==
    IF phase = "seq" THEN read + Len(ch) = 2 ELSE read + Len(ch) >= 3

\* What is under way to the thread is the rest of its conversation, and to the
\* reader nothing but pieces of frames.
ShapeInv ==
    /\ Handshaking => Shaped(down[rt.stream], Read)
    /\ (Handshaking /\ srv.sock = rt.stream) => Stage(down[rt.stream], Read, srv.phase)
    /\ r_socket # NoStream => OnlyPieces(down[r_socket])

LEMMA ShapeTail ==
    ASSUME NEW ch \in Seq(DownMessages), ch # << >>, NEW n \in 0 .. 2, Shaped(ch, n)
    PROVE  /\ Shaped(Tail(ch), n + 1) /\ ch[1].type = Due(n + 1)
           /\ n + 1 + Len(Tail(ch)) = n + Len(ch)
<1>1. /\ Len(ch) \in Nat /\ Len(ch) > 0 /\ Len(Tail(ch)) = Len(ch) - 1
      /\ \A i \in 1 .. Len(ch) - 1 : Tail(ch)[i] = ch[i + 1]
  BY Tailed
<1>2. ASSUME NEW i \in 1 .. Len(Tail(ch)) PROVE Tail(ch)[i].type = Due(n + 1 + i)
  <2>1. i + 1 \in 1 .. Len(ch) /\ n + (i + 1) = n + 1 + i
    BY <1>1
  <2>2. Tail(ch)[i] = ch[i + 1]
    BY <1>1
  <2>3. ch[i + 1].type = Due(n + (i + 1))
    BY <2>1 DEF Shaped
  <2> QED BY <2>1, <2>2, <2>3
<1>3. ch[1].type = Due(n + 1)
  BY <1>1 DEF Shaped
<1>4. n + 1 + Len(Tail(ch)) = n + Len(ch)
  BY <1>1
<1> QED BY <1>2, <1>3, <1>4 DEF Shaped

LEMMA ShapeJoined ==
    ASSUME NEW ch \in Seq(DownMessages), NEW ms \in Seq(DownMessages), NEW n \in 0 .. 2,
           Shaped(ch, n), Shaped(ms, n + Len(ch))
    PROVE  Shaped(ch \o ms, n) /\ n + Len(ch \o ms) = n + Len(ch) + Len(ms)
<1>1. /\ Len(ch \o ms) = Len(ch) + Len(ms) /\ Len(ch) \in Nat /\ Len(ms) \in Nat
      /\ \A i \in 1 .. Len(ch) : (ch \o ms)[i] = ch[i]
      /\ \A i \in 1 .. Len(ms) : (ch \o ms)[Len(ch) + i] = ms[i]
  BY Joined
<1>2. ASSUME NEW i \in 1 .. Len(ch \o ms) PROVE (ch \o ms)[i].type = Due(n + i)
  <2>1. CASE i \in 1 .. Len(ch)
    BY <1>1, <2>1 DEF Shaped
  <2>2. CASE i \notin 1 .. Len(ch)
    <3> DEFINE j == i - Len(ch)
    <3>1. j \in 1 .. Len(ms) /\ Len(ch) + j = i /\ n + Len(ch) + j = n + i
      BY <1>1, <2>2
    <3> HIDE DEF j
    <3>2. (ch \o ms)[Len(ch) + j] = ms[j]
      BY <1>1, <3>1
    <3>3. ms[j].type = Due(n + Len(ch) + j)
      BY <3>1 DEF Shaped
    <3> QED BY <3>1, <3>2, <3>3
  <2> QED BY <2>1, <2>2
<1>3. n + Len(ch \o ms) = n + Len(ch) + Len(ms)
  BY <1>1
<1> QED BY <1>2, <1>3 DEF Shaped

\* What is read off a queue of pieces leaves pieces.
LEMMA StillPieces ==
    ASSUME BaseInv, SessionNext \/ ReconnectNext, NEW s \in Streams, OnlyPieces(down[s])
    PROVE  OnlyPieces(down'[s])
BY ClientReads DEF OnlyPieces

LEMMA PiecesJoined ==
    ASSUME NEW ch \in Seq(DownMessages), NEW ms \in Seq(DownMessages),
           OnlyPieces(ch), OnlyPieces(ms)
    PROVE  OnlyPieces(ch \o ms)
<1>1. /\ Len(ch \o ms) = Len(ch) + Len(ms) /\ Len(ch) \in Nat /\ Len(ms) \in Nat
      /\ \A i \in 1 .. Len(ch) : (ch \o ms)[i] = ch[i]
      /\ \A i \in 1 .. Len(ms) : (ch \o ms)[Len(ch) + i] = ms[i]
  BY Joined
<1>2. ASSUME NEW i \in 1 .. Len(ch \o ms) PROVE (ch \o ms)[i].type = "piece"
  <2>1. CASE i \in 1 .. Len(ch)
    BY <1>1, <2>1 DEF OnlyPieces
  <2>2. CASE i \notin 1 .. Len(ch)
    <3>1. i - Len(ch) \in 1 .. Len(ms) /\ Len(ch) + (i - Len(ch)) = i
      BY <1>1, <2>2
    <3> QED BY <1>1, <3>1 DEF OnlyPieces
  <2> QED BY <2>1, <2>2
<1> QED BY <1>2 DEF OnlyPieces

LEMMA InAttempt ==
    ASSUME BaseInv, Handshaking
    PROVE  /\ rt.stream \in Streams /\ r_socket = NoStream /\ w_socket = NoStream
           /\ rt.stream # NoStream
           /\ srv.sock = rt.stream => srv.phase \in {"seq", "catchup", "live"}
           /\ down[rt.stream] \in Seq(DownMessages) /\ Len(down[rt.stream]) \in Nat
           /\ Read \in 0 .. 2
<1>1. rt.stream \in Streams /\ rt.stream # NoStream
  BY DEF BaseInv, HalvesInv, NetTypes, Ends
<1>2. r_socket = NoStream /\ w_socket = NoStream
  BY DEF BaseInv, HalvesInv, BothOn
<1>3. srv.sock = rt.stream => srv.phase \in {"seq", "catchup", "live"}
  BY <1>1 DEF BaseInv, HoldInv, ServerHold
<1>4. down[rt.stream] \in Seq(DownMessages) /\ Len(down[rt.stream]) \in Nat
  BY <1>1 DEF BaseInv, NetTypes
<1> QED BY <1>1, <1>2, <1>3, <1>4 DEF Read

LEMMA SessionShape ==
    ASSUME BaseInv, ShapeInv, SessionNext
    PROVE  ShapeInv'
<1>1. CASE SessionStep
  <2>1. Handshaking' = Handshaking /\ Read' = Read /\ srv' = srv /\ rt' = rt /\ r_socket' = r_socket
    BY <1>1 DEF SessionStep, Handshaking, Read
  <2>2. Handshaking => down' = down
    BY <1>1, InAttempt, NoStreamAssumption DEF SessionStep
  <2>3. r_socket # NoStream => OnlyPieces(down'[r_socket])
    BY StillPieces DEF ShapeInv, BaseInv, NetTypes, Ends
  <2>4. Handshaking' => Shaped(down'[rt'.stream], Read')
    BY <2>1, <2>2 DEF ShapeInv
  <2>5. (Handshaking' /\ srv'.sock = rt'.stream) => Stage(down'[rt'.stream], Read', srv'.phase)
    BY <2>1, <2>2 DEF ShapeInv
  <2> QED BY <2>1, <2>3, <2>4, <2>5 DEF ShapeInv, Shaped, Stage, OnlyPieces, Due
<1>2. CASE NoAttempt
  <2>1. r_socket' # NoStream => OnlyPieces(down'[r_socket'])
    BY <1>2 DEF NoAttempt, ShapeInv, BaseInv, NetTypes, Ends
  <2> QED BY <1>2, <2>1 DEF NoAttempt, ShapeInv, OnlyPieces
<1> QED BY <1>1, <1>2, SessionDown

LEMMA ReconnectShape ==
    ASSUME BaseInv, NotYetRevived, ShapeInv, ReconnectNext
    PROVE  ShapeInv'
<1>1. ASSUME Handshaking' => Shaped(down'[rt'.stream], Read'),
             (Handshaking' /\ srv'.sock = rt'.stream) => Stage(down'[rt'.stream], Read', srv'.phase),
             r_socket' # NoStream => OnlyPieces(down'[r_socket'])
      PROVE  ShapeInv'
  BY <1>1 DEF ShapeInv, Shaped, Stage, OnlyPieces, Due
<1>2. CASE NoAttempt
  <2>1. r_socket' # NoStream => OnlyPieces(down'[r_socket'])
    BY <1>2 DEF NoAttempt, ShapeInv, BaseInv, NetTypes, Ends
  <2> QED BY <1>1, <1>2, <2>1 DEF NoAttempt
<1>3. CASE Begins
  <2>1. /\ Len(<< >>) = 0 /\ srv'.sock # rt'.stream
        /\ down'[rt'.stream] = << >> /\ r_socket' = r_socket /\ down' = down
    BY <1>3 DEF Begins
  <2>2. Shaped(down'[rt'.stream], Read')
    BY <2>1 DEF Shaped
  <2> QED BY <1>1, <2>1, <2>2 DEF ShapeInv
<1>4. CASE Says
  BY <1>1, <1>4 DEF Says, ShapeInv
<1>5. CASE Hears
  <2>1. /\ Handshaking /\ Read' = Read + 1 /\ rt'.stream = rt.stream /\ srv' = srv
        /\ r_socket' = r_socket /\ down[rt.stream] # << >>
        /\ down'[rt.stream] = Tail(down[rt.stream])
    BY <1>5 DEF Hears, HearsAt
  <2>2. /\ Shaped(down'[rt.stream], Read + 1)
        /\ Read + 1 + Len(down'[rt.stream]) = Read + Len(down[rt.stream])
    BY <2>1, InAttempt, ShapeTail DEF ShapeInv
  <2>3. srv.sock = rt.stream => Stage(down'[rt.stream], Read + 1, srv.phase)
    BY <2>1, <2>2 DEF ShapeInv, Stage
  <2>4. r_socket = NoStream
    BY <2>1, InAttempt
  <2> QED BY <1>1, <2>1, <2>2, <2>3, <2>4
<1>6. CASE Revives
  <2>1. Handshaking /\ Read = 2 /\ rt.stream \in Streams
    BY <1>6, InAttempt DEF Revives, Handshaking, Read
  <2>2. /\ r_socket' = rt.stream /\ down[rt.stream] # << >>
        /\ down'[rt.stream] = Tail(down[rt.stream]) /\ ~Handshaking'
    BY <1>6 DEF Revives, HearsAt
  <2>3. Shaped(down'[rt.stream], 3)
    BY <2>1, <2>2, InAttempt, ShapeTail DEF ShapeInv
  <2>4. \A i \in 1 .. Len(down'[rt.stream]) : Due(3 + i) = "piece"
    BY DEF Due
  <2>5. OnlyPieces(down'[rt.stream])
    BY <2>3, <2>4 DEF Shaped, OnlyPieces
  <2> QED BY <1>1, <2>2, <2>5
<1> QED BY <1>2, <1>3, <1>4, <1>5, <1>6, ReconnectDown

\* What the server adds to the connection it is on.
LEMMA AddedTo ==
    ASSUME BaseInv, NEW ms \in Seq(DownMessages), AnsweredBy(ms), NEW s \in Streams
    PROVE  /\ s = srv.sock /\ ((Handshaking /\ s = rt.stream) \/ s = r_socket) =>
                 down'[s] = down[s] \o ms
           /\ s # srv.sock => down'[s] = down[s]
           /\ down[s] \in Seq(DownMessages)
<1>1. s # NoStream
  BY NoStreamAssumption
<1>2. (Handshaking /\ s = rt.stream) \/ s = r_socket => ClientHolds(s)
  BY <1>1 DEF ClientHolds
<1> QED BY <1>2 DEF AnsweredBy, BaseInv, NetTypes

LEMMA ServerShape ==
    ASSUME BaseInv, NotYetRevived, ShapeInv,
           ServerNext \/ (\E s \in Streams : Break(s)) \/ UNCHANGED vars
    PROVE  ShapeInv'
<1>0. /\ NetTypes /\ UNCHANGED <<rt, r_socket>>
  <2>1. UNCHANGED <<rt, r_socket>>
    BY DEF ServerNext, ServerRequest, ServerRefuse, ServerSequence, ServerCatchup,
           ServerReceive, ServerNotices, ServerSend, ServerEnds, Break, vars, reader
  <2> QED BY <2>1 DEF BaseInv
<1>1. ASSUME Handshaking => Shaped(down'[rt.stream], Read),
             (Handshaking /\ srv'.sock = rt.stream) => Stage(down'[rt.stream], Read, srv'.phase),
             r_socket # NoStream => OnlyPieces(down'[r_socket])
      PROVE  ShapeInv'
  <2>1. Handshaking' = Handshaking /\ Read' = Read
    BY <1>0 DEF Handshaking, Read
  <2> QED BY <1>0, <1>1, <2>1 DEF ShapeInv, Shaped, Stage, OnlyPieces, Due
<1>2. CASE Silent
  <2>1. (Handshaking /\ srv'.sock = rt.stream) => Stage(down'[rt.stream], Read, srv'.phase)
    BY <1>2, InAttempt DEF Silent, ShapeInv, Stage
  <2> QED BY <1>1, <1>2, <2>1 DEF Silent, ShapeInv
<1>3. ASSUME NEW s \in Streams, Replies(s) PROVE ShapeInv'
  <2>1. r_socket # NoStream => OnlyPieces(down'[r_socket])
    BY <1>3, <1>0 DEF Replies, Answered, ShapeInv, NetTypes, Ends
  <2>2. CASE ~(Handshaking /\ s = rt.stream)
    <3>2. Handshaking => down'[rt.stream] = down[rt.stream]
      BY <1>3, <2>2, InAttempt DEF Replies, Answered
    <3>3. Handshaking /\ srv'.sock = rt.stream => srv' = srv
      BY <1>0, <1>3, <2>2 DEF Replies, NetTypes
    <3> QED BY <1>1, <2>1, <3>2, <3>3 DEF ShapeInv
  <2>3. CASE Handshaking /\ s = rt.stream
    <3>1. rt.pc = "response" /\ Read = 0 /\ ClientHolds(s) /\ s # srv.sock
      BY <1>3, <2>3, InAttempt DEF Replies, Read, ClientHolds
    <3>2. CASE srv' = srv
      <4>1. PICK status : down'[s] = <<Response(status)>>
        BY <1>3, <3>1, <3>2, <1>0 DEF Replies, Answered, NetTypes
      <4>2. Len(down'[s]) = 1 /\ down'[s][1].type = "response"
        BY <4>1 DEF Response
      <4>3. Shaped(down'[s], 0)
        BY <4>2 DEF Shaped, Due
      <4> QED BY <1>1, <2>1, <2>3, <3>1, <3>2, <4>3
    <3>3. CASE srv' = [srv EXCEPT !.phase = "seq", !.sock = s]
               /\ Answered(s, <<Response("ReturningClient"), SeqMessage(AsI32(srv.seq))>>)
      <4>1. down'[s] = <<Response("ReturningClient"), SeqMessage(AsI32(srv.seq))>>
        BY <3>1, <3>3 DEF Answered
      <4>2. /\ Len(down'[s]) = 2
            /\ down'[s][1].type = "response" /\ down'[s][2].type = "seq"
        BY <4>1 DEF Response, SeqMessage
      <4>3. Shaped(down'[s], 0)
        <5> SUFFICES ASSUME NEW i \in 1 .. 2 PROVE down'[s][i].type = Due(0 + i)
          BY <4>2 DEF Shaped
        <5>1. i = 1 \/ i = 2
          OBVIOUS
        <5> QED BY <4>2, <5>1 DEF Due
      <4>4. srv'.phase = "seq"
        BY <1>0, <3>3 DEF NetTypes
      <4>5. Stage(down'[s], 0, "seq")
        BY <4>2 DEF Stage
      <4> QED BY <1>1, <2>1, <2>3, <3>1, <4>3, <4>4, <4>5
    <3> QED BY <1>3, <3>2, <3>3 DEF Replies
  <2> QED BY <2>2, <2>3
<1>4. CASE ServerSequence
  <2> DEFINE m == CatchupMessage(LogAfter(up[srv.sock][1].n))
  <2>1. /\ srv.phase = "seq" /\ srv' = [srv EXCEPT !.phase = "catchup"] /\ AnsweredBy(<<m>>)
        /\ up[srv.sock][1].n \in 0 .. Len(srv.log)
    BY <1>4, SequenceEffect
  <2>2. m \in DownMessages /\ m.type = "catchup"
    BY <1>0, <2>1, ServerMessages DEF CatchupMessage, LogAfter
  <2> HIDE DEF m
  <2>3. <<m>> \in Seq(DownMessages) /\ Len(<<m>>) = 1 /\ <<m>>[1].type = "catchup"
    BY <2>2
  <2>4. srv'.sock = srv.sock /\ srv'.phase = "catchup"
    BY <1>0, <2>1 DEF NetTypes
  <2>5. r_socket # NoStream => OnlyPieces(down'[r_socket])
    <3>1. r_socket # NoStream => r_socket \in Streams /\ r_socket # srv.sock
      BY <1>0, <2>1 DEF NotYetRevived, NetTypes, Ends
    <3> QED BY <2>1, <2>3, <3>1, AddedTo DEF ShapeInv
  <2>6. CASE Handshaking /\ rt.stream = srv.sock
    <3>1. Read + Len(down[rt.stream]) = 2 /\ Shaped(down[rt.stream], Read)
      BY <2>1, <2>6 DEF ShapeInv, Stage
    <3>2. Shaped(<<m>>, 2)
      BY <2>3 DEF Shaped, Due
    <3>3. down'[rt.stream] = down[rt.stream] \o <<m>>
      BY <2>1, <2>3, <2>6, InAttempt, AddedTo
    <3>4. Shaped(<<m>>, Read + Len(down[rt.stream]))
      BY <3>1, <3>2
    <3>5. Shaped(down'[rt.stream], Read) /\ Read + Len(down'[rt.stream]) = 3
      <4>1. /\ Shaped(down[rt.stream] \o <<m>>, Read)
            /\ Read + Len(down[rt.stream] \o <<m>>) = Read + Len(down[rt.stream]) + Len(<<m>>)
        BY <2>3, <2>6, <3>1, <3>4, InAttempt, ShapeJoined
      <4> QED BY <2>3, <3>1, <3>3, <4>1
    <3>6. Stage(down'[rt.stream], Read, "catchup")
      BY <3>5 DEF Stage
    <3> QED BY <1>1, <2>4, <2>5, <3>5, <3>6
  <2>7. CASE ~(Handshaking /\ rt.stream = srv.sock)
    <3>1. Handshaking => down'[rt.stream] = down[rt.stream]
      BY <2>1, <2>3, <2>7, InAttempt, AddedTo
    <3> QED BY <1>1, <2>4, <2>5, <2>7, <3>1 DEF ShapeInv
  <2> QED BY <2>6, <2>7
<1>5. CASE ServerSend
  <2> DEFINE k == Len(srv.log) + 1
             f == [nonce |-> k, packet |-> k]
             m1 == PieceMessage(f, 1)
             m2 == PieceMessage(f, 2)
  <2>1. /\ srv.phase \in {"down", "live"} /\ AnsweredBy(<<m1, m2>>) /\ k \in ServerPackets
        /\ srv' = [srv EXCEPT !.log = Append(@, k)]
    BY <1>5, SendEffect
  <2>2. f \in R!Frames
    BY <1>0, <2>1 DEF R!Frames, NetTypes, ServerPackets
  <2>3. /\ m1 \in DownMessages /\ m1.type = "piece"
        /\ m2 \in DownMessages /\ m2.type = "piece"
    <3> HIDE DEF f
    <3> QED BY <1>0, <2>2, ServerMessages DEF PieceMessage
  <2>4. srv'.sock = srv.sock /\ srv'.phase = srv.phase
    BY <1>0, <2>1 DEF NetTypes
  <2> HIDE DEF m1, m2
  <2> DEFINE ms == <<m1, m2>>
  <2>5. /\ ms \in Seq(DownMessages) /\ Len(ms) = 2 /\ OnlyPieces(ms)
    <3>1. ms \in Seq(DownMessages) /\ Len(ms) = 2
      BY <2>3
    <3>2. ms[1].type = "piece" /\ ms[2].type = "piece"
      BY <2>3
    <3>3. \A i \in 1 .. 2 : i = 1 \/ i = 2
      OBVIOUS
    <3> QED BY <3>1, <3>2, <3>3 DEF OnlyPieces
  <2>6. AnsweredBy(ms)
    BY <2>1
  <2> HIDE DEF ms
  <2>7. r_socket # NoStream => OnlyPieces(down'[r_socket])
    <3>1. r_socket # NoStream => r_socket \in Streams
      BY <1>0 DEF NetTypes, Ends
    <3>2. ASSUME r_socket # NoStream PROVE OnlyPieces(down'[r_socket])
      <4>1. /\ down[r_socket] \in Seq(DownMessages)
            /\ down'[r_socket] = down[r_socket] \/ down'[r_socket] = down[r_socket] \o ms
        BY <2>5, <2>6, <3>1, <3>2, AddedTo
      <4>2. OnlyPieces(down[r_socket])
        BY <3>2 DEF ShapeInv
      <4> QED BY <2>5, <4>1, <4>2, PiecesJoined
    <3> QED BY <3>2
  <2>8. CASE Handshaking /\ rt.stream = srv.sock
    <3>1. /\ Read + Len(down[rt.stream]) >= 3 /\ Shaped(down[rt.stream], Read)
          /\ Read \in Nat /\ Len(down[rt.stream]) \in Nat /\ srv.phase # "seq"
      BY <2>1, <2>8, InAttempt DEF ShapeInv, Stage
    <3>2. Shaped(ms, Read + Len(down[rt.stream]))
      <4>1. ASSUME NEW i \in 1 .. 2 PROVE Due(Read + Len(down[rt.stream]) + i) = "piece"
        <5> DEFINE n == Read + Len(down[rt.stream]) + i
        <5>1. n \in Nat /\ n > 3
          BY <3>1, SMTT(30)
        <5> QED BY <5>1 DEF Due
      <4> QED BY <2>5, <4>1 DEF Shaped, OnlyPieces
    <3>3. down'[rt.stream] = down[rt.stream] \o ms
      BY <2>5, <2>6, <2>8, InAttempt, AddedTo
    <3>4. /\ Shaped(down[rt.stream] \o ms, Read)
          /\ Read + Len(down[rt.stream] \o ms) = Read + Len(down[rt.stream]) + Len(ms)
      BY <2>5, <2>8, <3>1, <3>2, InAttempt, ShapeJoined
    <3>5. Read + Len(down'[rt.stream]) >= 3
      BY <2>5, <3>1, <3>3, <3>4
    <3>6. Stage(down'[rt.stream], Read, srv.phase)
      BY <3>1, <3>5 DEF Stage
    <3> QED BY <1>1, <2>4, <2>7, <3>3, <3>4, <3>6
  <2>9. CASE ~(Handshaking /\ rt.stream = srv.sock)
    <3>1. Handshaking => down'[rt.stream] = down[rt.stream]
      BY <2>5, <2>6, <2>9, InAttempt, AddedTo
    <3> QED BY <1>1, <2>4, <2>7, <2>9, <3>1 DEF ShapeInv
  <2> QED BY <2>8, <2>9
<1> QED BY <1>2, <1>3, <1>4, <1>5, ServerDown

LEMMA StepShape == BaseInv /\ NotYetRevived /\ ShapeInv /\ [Next]_vars => ShapeInv'
BY SessionShape, ReconnectShape, ServerShape DEF Next

\* The bytes the reader may take are pieces of frames.
LEMMA PiecesAtHand ==
    ASSUME BaseInv, ShapeInv, r_socket \in Streams, NEW n \in 0 .. Len(down[r_socket])
    PROVE  /\ Pieces(n) \in Seq(R!Pieces) /\ Len(Pieces(n)) = n
           /\ \A i \in 1 .. n : Pieces(n)[i] = down[r_socket][i].piece
<1>1. down[r_socket] \in Seq(DownMessages) /\ Len(down[r_socket]) \in Nat
  BY DEF BaseInv, NetTypes
<1>2. \A i \in 1 .. n : down[r_socket][i] \in DownMessages /\ down[r_socket][i].type = "piece"
  <2>1. OnlyPieces(down[r_socket])
    BY NoStreamAssumption DEF ShapeInv
  <2>2. \A i \in 1 .. n : i \in 1 .. Len(down[r_socket])
    BY <1>1
  <2> QED BY <1>1, <2>1, <2>2 DEF OnlyPieces
<1>3. \A i \in 1 .. n : down[r_socket][i].piece \in R!Pieces
  BY <1>2, MessageTypes
<1> QED BY <1>1, <1>3 DEF Pieces

LEMMA ReaderStays ==
    ASSUME R!TypeOK, r_socket' \in Ends,
           UNCHANGED <<r_sequence_number, r_nonce, r_partial, r_local_buffer, r_delivered>>
    PROVE  R!TypeOK'
BY DEF R!TypeOK, Ends

LEMMA Member == ASSUME NEW M, NEW q \in Seq(M), NEW i \in 1 .. Len(q) PROVE q[i] \in M
OBVIOUS

LEMMA FrameTypes ==
    ASSUME BaseInv, ShapeInv, R!TypeOK, r_socket \in Streams,
           NEW n \in 0 .. Len(down[r_socket]), R!ReadFrame(Pieces(n))
    PROVE  R!TypeOK'
<1>1. /\ r_partial \in Seq(R!Pieces) /\ r_delivered \in Seq(ServerPackets)
      /\ r_sequence_number \in Nat /\ r_nonce \in Nat /\ r_local_buffer \in Seq(R!Frames)
      /\ r_socket \in Ends
  BY DEF R!TypeOK, Ends
<1> DEFINE b == r_partial \o Pieces(n)
<1>2. Pieces(n) \in Seq(R!Pieces)
  BY PiecesAtHand
<1>3. b \in Seq(R!Pieces) /\ Len(b) = 2
  <2>1. b \in Seq(R!Pieces) /\ Len(b) = Len(r_partial) + Len(Pieces(n))
    BY <1>1, <1>2, Joined
  <2> QED BY <2>1 DEF R!ReadFrame
<1>4. /\ \/ r_delivered' = Append(r_delivered, b[1].frame.packet)
            /\ r_sequence_number' = r_sequence_number + 1
         \/ UNCHANGED <<r_delivered, r_sequence_number>>
      /\ r_partial' = << >> /\ r_nonce' = r_nonce + 1
      /\ UNCHANGED <<r_socket, r_local_buffer>>
  BY DEF R!ReadFrame, R!Return
<1> HIDE DEF b
<1>5. b[1] \in R!Pieces
  <2>1. 1 \in 1 .. Len(b)
    BY <1>3
  <2> QED BY <1>3, <2>1, Member
<1>6. b[1].frame.packet \in ServerPackets
  BY <1>5 DEF R!Pieces, R!Frames
<1>7. r_delivered' \in Seq(ServerPackets)
  BY <1>1, <1>4, <1>6, Appended
<1>8. r_partial' \in Seq(R!Pieces)
  BY <1>4
<1> QED BY <1>1, <1>4, <1>7, <1>8 DEF R!TypeOK, Ends

LEMMA SessionReader ==
    ASSUME BaseInv, ShapeInv, R!TypeOK, SessionNext
    PROVE  R!TypeOK'
<1>1. /\ r_partial \in Seq(R!Pieces) /\ r_delivered \in Seq(ServerPackets)
      /\ r_sequence_number \in Nat /\ r_nonce \in Nat /\ r_local_buffer \in Seq(R!Frames)
      /\ r_socket \in Ends /\ NoStream \in Ends
  BY DEF R!TypeOK, Ends
<1>2. ASSUME R!ReadBuffered PROVE R!TypeOK'
  <2>1. r_local_buffer # << >>
    BY <1>2 DEF R!ReadBuffered
  <2>2. /\ Tail(r_local_buffer) \in Seq(R!Frames) /\ Head(r_local_buffer) \in R!Frames
    BY <1>1, <2>1, Tailed
  <2>3. Head(r_local_buffer).packet \in ServerPackets
    BY <2>2 DEF R!Frames
  <2>4. Append(r_delivered, Head(r_local_buffer).packet) \in Seq(ServerPackets)
    BY <1>1, <2>3, Appended
  <2>5. /\ r_delivered' = r_delivered
           \/ r_delivered' = Append(r_delivered, Head(r_local_buffer).packet)
        /\ r_nonce' = r_nonce + 1 /\ r_local_buffer' = Tail(r_local_buffer)
        /\ UNCHANGED <<r_socket, r_sequence_number, r_partial>>
    BY <1>2 DEF R!ReadBuffered, R!Return
  <2> QED BY <1>1, <2>2, <2>4, <2>5, SMTT(30) DEF R!TypeOK, Ends
<1>3. ASSUME r_socket \in Streams, NEW n \in 0 .. Len(down[r_socket]), R!ReadPartial(Pieces(n))
      PROVE  R!TypeOK'
  <2>1. r_partial \o Pieces(n) \in Seq(R!Pieces)
    BY <1>1, <1>3, PiecesAtHand, Joined
  <2> QED BY <1>1, <1>3, <2>1 DEF R!ReadPartial, R!TypeOK, Ends
<1>4. CASE ReadWithoutSocket
  <2>1. CASE R!ReadIdle
    BY <1>1, <2>1, ReaderStays DEF R!ReadIdle, R!vars
  <2> QED BY <1>2, <1>4, <2>1 DEF ReadWithoutSocket
<1>5. CASE ReadFrame
  <2>1. r_socket \in Streams
    BY <1>1, <1>5 DEF ReadFrame, Ends
  <2>2. PICK n \in 0 .. Len(down[r_socket]) : R!ReadFrame(Pieces(n))
    BY <1>5 DEF ReadFrame
  <2> QED BY <2>1, <2>2, FrameTypes
<1>6. CASE ReadPartial
  <2>1. r_socket \in Streams
    BY <1>1, <1>6 DEF ReadPartial, Ends
  <2>2. Len(down[r_socket]) \in 0 .. Len(down[r_socket])
    BY <2>1 DEF BaseInv, NetTypes
  <2> QED BY <1>3, <1>6, <2>1, <2>2 DEF ReadPartial
<1>7. CASE ReadClosed
  <2>1. r_socket \in Streams
    BY <1>7 DEF ReadClosed, BaseInv, NetTypes
  <2>2. PICK n \in 0 .. Len(down[r_socket]) : R!ReadClosed(Pieces(n))
    BY <1>7 DEF ReadClosed
  <2> QED BY <1>3, <2>1, <2>2 DEF R!ReadClosed
<1>8. CASE CloseAndMaybeReconnect \/ ShutdownJoined
  BY <1>1, <1>8, ReaderStays DEF CloseAndMaybeReconnect, ShutdownJoined, InvalidateBoth,
                                 R!InvalidateSocket
<1>9. CASE \/ WritePacket \/ WriteCheck \/ WriteTurnedAway \/ WriteKept \/ WriteSent \/ WriteFailed
           \/ ForceReconnect \/ Shutdown \/ Stopped
  <2>1. UNCHANGED reader
    BY <1>9 DEF WritePacket, WriteCheck, WriteTurnedAway, WriteKept, WriteSent, WriteFailed,
                ForceReconnect, Shutdown, Stopped, vars
  <2> QED BY <1>1, <2>1, ReaderStays DEF reader
<1> QED BY <1>4, <1>5, <1>6, <1>7, <1>8, <1>9 DEF SessionNext

LEMMA StepReader == BaseInv /\ ShapeInv /\ R!TypeOK /\ [Next]_vars => R!TypeOK'
<1> SUFFICES ASSUME BaseInv, ShapeInv, R!TypeOK, [Next]_vars PROVE R!TypeOK'
  OBVIOUS
<1>1. r_socket \in Ends
  BY DEF R!TypeOK, Ends
<1>2. CASE ReviveReader
  <2> DEFINE frames == Head(down[rt.stream]).frames
  <2>1. rt.stream \in Streams
    BY <1>2, InAttempt DEF ReviveReader, Handshaking
  <2>2. frames \in Seq(R!Frames)
    BY <1>2, <2>1, HeadOfDown, MessageTypes DEF ReviveReader, BaseInv
  <2>3. R!Revive(rt.stream, frames)
    BY <1>2 DEF ReviveReader
  <2> HIDE DEF frames
  <2>4. r_local_buffer \in Seq(R!Frames) /\ Len(frames) \in Nat
    BY <2>2 DEF R!TypeOK
  <2>5. r_local_buffer \o frames \in Seq(R!Frames)
    BY <2>2, <2>4, Joined
  <2> QED BY <2>1, <2>3, <2>4, <2>5 DEF R!Revive, R!TypeOK
<1>3. CASE UNCHANGED reader
  BY <1>1, <1>3, ReaderStays DEF reader
<1>4. UNCHANGED reader \/ ReviveReader \/ SessionNext
  BY DEF Next, ReconnectNext, Leave, Dial, AwaitResponse, SendSequence, AwaitSequence, Recover,
         ReviveWriter, Announce, AttemptBroken, AttemptTimesOut,
         ServerNext, ServerRequest, ServerRefuse, ServerSequence, ServerCatchup,
         ServerReceive, ServerNotices, ServerSend, ServerEnds, Break, vars
<1> QED BY <1>2, <1>3, <1>4, SessionReader

LEMMA InitShape == Init => NotYetRevived /\ ShapeInv /\ R!TypeOK
<1> SUFFICES ASSUME Init PROVE NotYetRevived /\ ShapeInv /\ R!TypeOK
  OBVIOUS
<1>1. /\ srv.phase = "live" /\ rt.pc = "none" /\ r_socket \in Streams
      /\ down = [s \in Streams |-> << >>]
  BY DEF Init, Thread, R!Init
<1>2. Len(down[r_socket]) = 0
  BY <1>1
<1>3. R!TypeOK
  BY DEF Init, R!Init, R!TypeOK
<1> QED BY <1>1, <1>2, <1>3 DEF NotYetRevived, ShapeInv, Handshaking, OnlyPieces

LEMMA ShapeAlways == Spec => [](BaseInv /\ NotYetRevived /\ ShapeInv /\ R!TypeOK)
<1>1. BaseInv /\ NotYetRevived /\ ShapeInv /\ R!TypeOK /\ [Next]_vars
         => (NotYetRevived /\ ShapeInv /\ R!TypeOK)'
  BY StepNotYet, StepShape, StepReader
<1> QED BY <1>1, InitShape, BaseAlways, PTL DEF Spec

\* Every variable of the connection keeps its type, whatever is lost and however
\* often it reconnects: above all, what the reader assembles is made of pieces of
\* frames, because on every connection the server's answers come first and the
\* thread takes each as what it is.
THEOREM ConnectionTyping == Spec => []TypeOK
<1>1. BaseInv /\ R!TypeOK => TypeOK
  <2> SUFFICES ASSUME BaseInv, R!TypeOK PROVE TypeOK
    OBVIOUS
  <2>1. /\ main \in [pc : {"idle", "check", "write", "join", "sd_join", "stopped"},
                     then : {"idle", "check"}]
        /\ submitted \in 0 .. MaxUp /\ stranded \in BOOLEAN
        /\ faults \in 0 .. MaxFaults /\ forced \in 0 .. MaxForced
    <3>1. main = [pc |-> main.pc, then |-> main.then]
      BY DEF BaseInv, LinkInv
    <3> QED BY <3>1 DEF BaseInv, MainTypes
  <2>2. socket_alive \in BOOLEAN /\ shutting_down \in BOOLEAN /\ W!TypeOK
    BY DEF BaseInv, LinkInv, WriterInv
  <2>3. /\ rt \in [pc : {"none", "loop", "response", "sample", "header", "recover",
                         "catchup", "revive_writer", "announce", "done"},
                   stream : Streams \cup {NoStream}, sample : Nat, remote : Int, upto : Nat]
        /\ DOMAIN up = Streams /\ DOMAIN down = Streams /\ broken \subseteq Streams
    BY DEF BaseInv, NetTypes, Ends
  <2>4. /\ srv.phase \in {"down", "seq", "catchup", "live", "ended"}
        /\ srv.sock \in Streams \cup {NoStream}
        /\ srv.seq \in Nat /\ srv.log \in Seq(ServerPackets) /\ srv.got \in Seq(ClientPackets)
    BY DEF BaseInv, NetTypes, Ends
  <2> QED BY <2>1, <2>2, <2>3, <2>4 DEF TypeOK
<1> QED BY <1>1, ShapeAlways, PTL

-----------------------------------------------------------------------------
(* The stream of frames. *)

\* The k-th frame the server sends, and the n-th piece of what it sends.
Frame(k) == [nonce |-> k, packet |-> k]
StreamPiece(n) == [frame |-> Frame((n + 1) \div 2), part |-> IF n % 2 = 1 THEN 1 ELSE 2]

\* From its from-th message on the queue ch carries the stream after the n-th
\* piece, no further than `total' packets reach; just as far if `all' is so.
Flow(ch, from, n) ==
    \A i \in from .. Len(ch) : ch[i].piece = StreamPiece(n + (i + 1 - from))
Reach(ch, from, n) == n + (Len(ch) + 1 - from)
Carries(ch, from, n, total, all) ==
    /\ Flow(ch, from, n)
    /\ Reach(ch, from, n) =< 2 * total
    /\ all => Reach(ch, from, n) = 2 * total

LogInv == \A k \in 1 .. Len(srv.log) : srv.log[k] = k

\* What is returned is the beginning of the log, and the catch-up what follows;
\* the sequence number counts both.
ReadInv ==
    /\ Len(r_delivered) = r_nonce
    /\ r_sequence_number = r_nonce + Len(r_local_buffer)
    /\ r_sequence_number =< Len(srv.log)
    /\ \A i \in 1 .. r_nonce : r_delivered[i] = i
    /\ \A i \in 1 .. Len(r_local_buffer) : r_local_buffer[i] = Frame(r_nonce + i)

\* The pieces at hand and those under way are what follows that number, all of
\* it while the server is on the connection.  Only a read that has failed leaves
\* it otherwise, and then the connection is given up.
Wired(ch, pieces, seq, total, all) ==
    /\ Len(pieces) < 2
    /\ \A i \in 1 .. Len(pieces) : pieces[i] = StreamPiece(2 * seq + i)
    /\ Carries(ch, 1, 2 * seq + Len(pieces), total, all)

WireInv ==
    (r_socket # NoStream /\ main.pc # "join") =>
        Wired(down[r_socket], r_partial, r_sequence_number, Len(srv.log), srv.sock = r_socket)

\* In a handshake the number named is the reader's ...
AskInv ==
    Handshaking => \A i \in 1 .. Len(up[rt.stream]) :
        up[rt.stream][i].type = "seq" =>
            /\ rt.pc \in {"header", "recover", "catchup"}
            /\ up[rt.stream][i].n = AsI32(r_sequence_number)

\* ... and the catch-up, once it is there, what follows that number, with the
\* rest of the stream behind it.
Missed(ch, c, seq, total, all) ==
    /\ \A i \in 1 .. Len(ch[c].frames) : ch[c].frames[i] = Frame(seq + i)
    /\ Carries(ch, c + 1, 2 * (seq + Len(ch[c].frames)), total, all)

CatchupInv ==
    (Handshaking /\ Len(down[rt.stream]) >= 3 - Read) =>
        Missed(down[rt.stream], 3 - Read, r_sequence_number, Len(srv.log),
               srv.sock = rt.stream)

DownInv == LogInv /\ ReadInv /\ WireInv /\ AskInv /\ CatchupInv

\* The two pieces of the frame after the k-th.
LEMMA PiecesOfFrame ==
    ASSUME NEW k \in Nat
    PROVE  /\ StreamPiece(2 * k + 1) = [frame |-> Frame(k + 1), part |-> 1]
           /\ StreamPiece(2 * k + 2) = [frame |-> Frame(k + 1), part |-> 2]
<1>1. /\ ((2 * k + 1) + 1) \div 2 = k + 1
      /\ ((2 * k + 2) + 1) \div 2 = k + 1
      /\ (2 * k + 1) % 2 = 1
      /\ (2 * k + 2) % 2 # 1
  OBVIOUS
<1> QED BY <1>1 DEF StreamPiece

\* The server sends one more packet on the connection ...
LEMMA CarriesMore ==
    ASSUME NEW ch \in Seq(DownMessages), NEW from \in 1 .. 4, from =< Len(ch) + 1,
           NEW n \in Nat, NEW total \in Nat, Carries(ch, from, n, total, TRUE),
           NEW m1 \in DownMessages, NEW m2 \in DownMessages,
           m1.piece = StreamPiece(2 * total + 1), m2.piece = StreamPiece(2 * total + 2)
    PROVE  Carries(ch \o <<m1, m2>>, from, n, total + 1, TRUE)
<1> DEFINE q == ch \o <<m1, m2>>
<1>1. /\ Len(ch) \in Nat /\ Len(q) = Len(ch) + 2
      /\ \A i \in 1 .. Len(ch) : q[i] = ch[i]
      /\ q[Len(ch) + 1] = m1 /\ q[Len(ch) + 2] = m2
  OBVIOUS
<1> HIDE DEF q
<1>2. n + (Len(ch) + 1 - from) = 2 * total
  BY DEF Carries, Reach
<1>3. ASSUME NEW i \in from .. Len(q) PROVE q[i].piece = StreamPiece(n + (i + 1 - from))
  <2>1. CASE i = Len(ch) + 1
    <3>1. n + (i + 1 - from) = 2 * total + 1 /\ q[i] = m1
      BY <1>1, <1>2, <2>1
    <3> QED BY <3>1
  <2>2. CASE i = Len(ch) + 2
    <3>1. n + (i + 1 - from) = 2 * total + 2 /\ q[i] = m2
      BY <1>1, <1>2, <2>2, SMTT(30)
    <3> QED BY <3>1
  <2>3. CASE i \in from .. Len(ch)
    <3>1. i \in 1 .. Len(ch)
      BY <2>3
    <3> QED BY <1>1, <2>3, <3>1 DEF Carries, Flow
  <2> QED BY <1>1, <2>1, <2>2, <2>3
<1>4. n + (Len(q) + 1 - from) = 2 * (total + 1)
  <2>1. Len(q) = Len(ch) + 2 /\ Len(ch) \in Nat
    BY <1>1
  <2>2. n + ((Len(ch) + 2) + 1 - from) = 2 * (total + 1)
    BY <1>2, <2>1
  <2> QED BY <2>1, <2>2
<1>5. 2 * (total + 1) =< 2 * (total + 1)
  OBVIOUS
<1> QED BY <1>3, <1>4, <1>5 DEF Carries, Flow, Reach, q

\* ... or on another, or to nobody.
LEMMA CarriesOn ==
    ASSUME NEW ch, Len(ch) \in Nat, NEW from \in 1 .. 4, NEW n \in Nat, NEW total \in Nat,
           NEW all \in BOOLEAN, Carries(ch, from, n, total, all)
    PROVE  Carries(ch, from, n, total + 1, FALSE)
<1>1. Flow(ch, from, n) /\ n + (Len(ch) + 1 - from) =< 2 * total
  BY DEF Carries, Reach
<1>2. n + (Len(ch) + 1 - from) =< 2 * (total + 1)
  BY <1>1
<1> QED BY <1>1, <1>2 DEF Carries, Reach

\* The client takes a message in front of the stream ...
LEMMA CarriesTail ==
    ASSUME NEW ch \in Seq(DownMessages), ch # << >>, NEW from \in 2 .. 4,
           NEW n \in Nat, NEW total \in Nat, NEW all \in BOOLEAN,
           Carries(ch, from, n, total, all)
    PROVE  Carries(Tail(ch), from - 1, n, total, all)
<1>1. /\ Len(ch) \in Nat /\ Len(ch) > 0 /\ Len(Tail(ch)) = Len(ch) - 1
      /\ \A i \in 1 .. Len(ch) - 1 : Tail(ch)[i] = ch[i + 1]
  BY Tailed
<1>2. Reach(Tail(ch), from - 1, n) = Reach(ch, from, n)
  BY <1>1 DEF Reach
<1>3. ASSUME NEW i \in from - 1 .. Len(Tail(ch))
      PROVE  Tail(ch)[i].piece = StreamPiece(n + (i + 1 - (from - 1)))
  <2>1. i + 1 \in from .. Len(ch) /\ i \in 1 .. Len(ch) - 1
    BY <1>1
  <2>2. (i + 1) + 1 - from = i + 1 - (from - 1)
    BY <2>1
  <2>3. ch[i + 1].piece = StreamPiece(n + ((i + 1) + 1 - from))
    BY <2>1 DEF Carries, Flow
  <2> QED BY <1>1, <2>1, <2>2, <2>3
<1> QED BY <1>2, <1>3 DEF Carries, Flow

\* ... or the first k pieces of it.
LEMMA CarriesLess ==
    ASSUME NEW ch \in Seq(DownMessages), NEW k \in 0 .. Len(ch),
           NEW n \in Nat, NEW total \in Nat, NEW all \in BOOLEAN,
           Carries(ch, 1, n, total, all)
    PROVE  Carries(SubSeq(ch, k + 1, Len(ch)), 1, n + k, total, all)
<1> DEFINE q == SubSeq(ch, k + 1, Len(ch))
<1>1. /\ Len(ch) \in Nat /\ k \in Nat /\ Len(q) = Len(ch) - k
      /\ \A i \in 1 .. Len(ch) - k : q[i] = ch[k + i]
  OBVIOUS
<1> HIDE DEF q
<1>2. Reach(q, 1, n + k) = Reach(ch, 1, n)
  BY <1>1 DEF Reach
<1>3. ASSUME NEW i \in 1 .. Len(q)
      PROVE  q[i].piece = StreamPiece((n + k) + (i + 1 - 1))
  <2>1. k + i \in 1 .. Len(ch) /\ i \in 1 .. Len(ch) - k
    BY <1>1
  <2>2. n + ((k + i) + 1 - 1) = (n + k) + (i + 1 - 1)
    BY <1>1
  <2>3. ch[k + i].piece = StreamPiece(n + ((k + i) + 1 - 1))
    BY <2>1 DEF Carries, Flow
  <2> QED BY <1>1, <2>1, <2>2, <2>3
<1> QED BY <1>2, <1>3 DEF Carries, Flow, q

-----------------------------------------------------------------------------
(* Reads. *)

SameReader ==
    UNCHANGED <<r_sequence_number, r_nonce, r_partial, r_local_buffer, r_delivered>>

NumberTypes ==
    /\ r_sequence_number \in Nat /\ r_nonce \in Nat
    /\ r_partial \in Seq(R!Pieces) /\ Len(r_partial) \in Nat
    /\ r_local_buffer \in Seq(R!Frames) /\ Len(r_local_buffer) \in Nat
    /\ r_delivered \in Seq(ServerPackets) /\ srv.log \in Seq(ServerPackets)
    /\ Len(srv.log) \in Nat /\ r_socket \in Ends

LEMMA Numbers ==
    ASSUME BaseInv, R!TypeOK
    PROVE  NumberTypes
BY SMTT(30) DEF BaseInv, NetTypes, R!TypeOK, NumberTypes, Ends

\* read() that takes a frame of the catch-up has the server's next one.
LEMMA BufferedDelivers ==
    ASSUME BaseInv, R!TypeOK, ReadInv, R!ReadBuffered
    PROVE  /\ r_nonce < Len(srv.log)
           /\ r_delivered' = Append(r_delivered, r_nonce + 1)
           /\ r_nonce' = r_nonce + 1 /\ r_local_buffer' = Tail(r_local_buffer)
           /\ r_local_buffer # << >>
           /\ UNCHANGED <<r_socket, r_sequence_number, r_partial>>
<1>1. NumberTypes
  BY Numbers
<1>2. r_local_buffer # << >>
  BY DEF R!ReadBuffered
<1>3. Head(r_local_buffer) = r_local_buffer[1] /\ Len(r_local_buffer) > 0
  BY <1>1, <1>2, Tailed DEF NumberTypes
<1>4. Head(r_local_buffer) = Frame(r_nonce + 1)
  BY <1>1, <1>3 DEF ReadInv, NumberTypes
<1>5. r_nonce < Len(srv.log)
  BY <1>1, <1>3 DEF ReadInv, NumberTypes
<1>6. R!Decrypts(Head(r_local_buffer)) /\ Head(r_local_buffer).packet = r_nonce + 1
  BY <1>4 DEF R!Decrypts, Frame
<1> QED BY <1>2, <1>5, <1>6 DEF R!ReadBuffered, R!Return

\* read() that completes a frame from the socket has the server's next one, whole
\* and in its turn.
LEMMA FrameDelivers ==
    ASSUME BaseInv, R!TypeOK, ShapeInv, ReadInv, WireInv, main.pc # "join",
           r_socket \in Streams,
           NEW n \in 0 .. Len(down[r_socket]), R!ReadFrame(Pieces(n))
    PROVE  /\ Len(r_partial) + n = 2 /\ r_local_buffer = << >>
           /\ r_nonce = r_sequence_number /\ r_nonce < Len(srv.log)
           /\ r_delivered' = Append(r_delivered, r_nonce + 1)
           /\ r_nonce' = r_nonce + 1 /\ r_sequence_number' = r_sequence_number + 1
           /\ r_partial' = << >> /\ UNCHANGED <<r_socket, r_local_buffer>>
<1> DEFINE b == r_partial \o Pieces(n)
           ch == down[r_socket]
           seq == r_sequence_number
<1>1. NumberTypes /\ ch \in Seq(DownMessages) /\ Len(ch) \in Nat /\ n \in Nat
  BY Numbers DEF BaseInv, NetTypes
<1>2. /\ Pieces(n) \in Seq(R!Pieces) /\ Len(Pieces(n)) = n
      /\ \A i \in 1 .. n : Pieces(n)[i] = ch[i].piece
  BY PiecesAtHand
<1>3. /\ Len(r_partial) + n = 2 /\ r_local_buffer = << >> /\ r_partial' = << >>
      /\ UNCHANGED <<r_socket, r_local_buffer>> /\ r_nonce' = r_nonce + 1
  BY <1>2 DEF R!ReadFrame, R!FromSocket
<1>4. r_nonce = seq /\ seq \in Nat
  <2>1. Len(r_local_buffer) = 0
    BY <1>3
  <2> QED BY <1>1, <2>1 DEF ReadInv, NumberTypes
<1>5. /\ Len(r_partial) < 2 /\ Len(r_partial) \in Nat
      /\ \A i \in 1 .. Len(r_partial) : r_partial[i] = StreamPiece(2 * seq + i)
      /\ \A i \in 1 .. Len(ch) : ch[i].piece = StreamPiece((2 * seq + Len(r_partial)) + (i + 1 - 1))
      /\ (2 * seq + Len(r_partial)) + (Len(ch) + 1 - 1) =< 2 * Len(srv.log)
  BY <1>1, NoStreamAssumption DEF WireInv, Wired, Carries, Flow, Reach, NumberTypes
<1>6. r_nonce < Len(srv.log)
  <2>1. n =< Len(ch) /\ Len(srv.log) \in Nat
    BY <1>1 DEF NumberTypes
  <2>2. Len(r_partial) + n = 2
    BY <1>3
  <2>3. (2 * seq + Len(r_partial)) + (Len(ch) + 1 - 1) =< 2 * Len(srv.log)
    BY <1>5
  <2>4. Len(r_partial) \in Nat /\ Len(ch) \in Nat /\ seq \in Nat
    BY <1>1, <1>4, <1>5
  <2> HIDE DEF ch, seq
  <2>5. seq < Len(srv.log)
    BY <1>1, <2>1, <2>2, <2>3, <2>4
  <2> QED BY <1>4, <2>5
<1>7. /\ Len(b) = Len(r_partial) + n
      /\ \A i \in 1 .. Len(r_partial) : b[i] = r_partial[i]
      /\ \A i \in 1 .. n : b[Len(r_partial) + i] = Pieces(n)[i]
  <2> DEFINE taken == Pieces(n)
  <2>1. taken \in Seq(R!Pieces) /\ r_partial \in Seq(R!Pieces) /\ Len(taken) = n
    BY <1>1, <1>2 DEF NumberTypes
  <2> HIDE DEF taken
  <2>2. /\ Len(r_partial \o taken) = Len(r_partial) + Len(taken)
        /\ \A i \in 1 .. Len(r_partial) : (r_partial \o taken)[i] = r_partial[i]
        /\ \A i \in 1 .. Len(taken) : (r_partial \o taken)[Len(r_partial) + i] = taken[i]
    <3> DEFINE M == R!Pieces
    <3>1. taken \in Seq(M) /\ r_partial \in Seq(M)
      BY <2>1
    <3> HIDE DEF M
    <3> QED BY <3>1, Joined
  <2> QED BY <2>1, <2>2 DEF taken, b
<1> HIDE DEF b, ch, seq
<1>8. ASSUME NEW j \in 1 .. 2 PROVE b[j] = StreamPiece(2 * seq + j)
  <2>1. CASE j \in 1 .. Len(r_partial)
    BY <1>5, <1>7, <2>1
  <2>2. CASE j \notin 1 .. Len(r_partial)
    <3> DEFINE i == j - Len(r_partial)
    <3>1. /\ i \in 1 .. n /\ i \in 1 .. Len(ch) /\ Len(r_partial) + i = j
          /\ (2 * seq + Len(r_partial)) + (i + 1 - 1) = 2 * seq + j
      <4>1. Len(r_partial) \in Nat /\ Len(r_partial) + n = 2 /\ n \in 0 .. Len(ch) /\ Len(ch) \in Nat
        BY <1>1, <1>3, <1>5 DEF ch
      <4> QED BY <1>4, <2>2, <4>1
    <3> HIDE DEF i
    <3>2. b[Len(r_partial) + i] = ch[i].piece
      BY <1>2, <1>7, <3>1
    <3>3. ch[i].piece = StreamPiece((2 * seq + Len(r_partial)) + (i + 1 - 1))
      BY <1>5, <3>1
    <3> QED BY <3>1, <3>2, <3>3
  <2> QED BY <2>1, <2>2
<1>9. /\ b[1] = [frame |-> Frame(r_nonce + 1), part |-> 1]
      /\ b[2] = [frame |-> Frame(r_nonce + 1), part |-> 2]
  <2>1. b[1] = StreamPiece(2 * seq + 1) /\ b[2] = StreamPiece(2 * seq + 2)
    BY <1>8
  <2> QED BY <1>4, <2>1, PiecesOfFrame
<1>10. R!IsWhole(b) /\ R!Decrypts(b[1].frame) /\ b[1].frame.packet = r_nonce + 1
  BY <1>9 DEF R!IsWhole, R!Decrypts, Frame
<1>11. R!Return(b[1].frame.packet) /\ r_sequence_number' = r_sequence_number + 1
  BY <1>10 DEF R!ReadFrame, b
<1> QED BY <1>3, <1>4, <1>6, <1>10, <1>11 DEF R!Return, seq

\* What a step of the session loop may do to the reader.
LEMMA SessionReads ==
    ASSUME BaseInv, SessionNext
    PROVE  \/ /\ SameReader /\ UNCHANGED <<r_socket, down, rt, srv>>
              /\ main'.pc = "join" \/ main.pc # "join"
           \/ /\ R!ReadBuffered /\ UNCHANGED <<down, rt, srv>> /\ main.pc = "idle"
           \/ ReadFrame
           \/ ReadPartial
           \/ /\ main'.pc = "join" /\ UNCHANGED <<r_sequence_number, r_nonce, r_local_buffer,
                                                  r_delivered, r_socket, down, rt, srv>>
           \/ SameReader /\ r_socket' = NoStream /\ ~Handshaking' /\ srv' = srv
<1>0. main = [pc |-> main.pc, then |-> main.then]
  BY DEF BaseInv, LinkInv
<1>1. CASE CloseAndMaybeReconnect \/ ShutdownJoined
  <2>1. \E pc \in {"none", "loop", "done"} : rt' = Thread(pc)
    BY <1>1 DEF CloseAndMaybeReconnect, ShutdownJoined
  <2>2. ~Handshaking'
    BY <2>1, ThreadTypes DEF Handshaking
  <2> QED BY <1>1, <2>2 DEF CloseAndMaybeReconnect, ShutdownJoined, InvalidateBoth,
                            R!InvalidateSocket, SameReader
<1>2. CASE ReadWithoutSocket
  BY <1>2 DEF ReadWithoutSocket, R!ReadIdle, R!vars, network, SameReader
<1>3. CASE ReadClosed
  BY <1>3 DEF ReadClosed, R!ReadClosed, R!ReadPartial, network, CallClose
<1>4. CASE WriteFailed \/ ForceReconnect
  BY <1>4 DEF WriteFailed, ForceReconnect, reader, network, CallClose, SameReader
<1>5. CASE \/ WritePacket \/ WriteCheck \/ WriteTurnedAway \/ WriteKept \/ WriteSent
           \/ Shutdown \/ Stopped
  <2>1. main.pc # "join"
    BY <1>5 DEF WritePacket, WriteCheck, WriteTurnedAway, WriteKept, WriteSent, Shutdown, Stopped
  <2> QED BY <1>5, <2>1 DEF WritePacket, WriteCheck, WriteTurnedAway, WriteKept, WriteSent,
              Shutdown, Stopped, vars, reader, network, SameReader
<1> QED BY <1>1, <1>2, <1>3, <1>4, <1>5 DEF SessionNext

\* In an attempt the number stays what it is, and once it is named the thread is
\* past naming it.
LEMMA AttemptStep ==
    ASSUME BaseInv, [Next]_vars, Handshaking'
    PROVE  \/ Dial
           \/ /\ Handshaking /\ rt'.stream = rt.stream
              /\ r_sequence_number' = r_sequence_number
              /\ rt.pc \in {"header", "recover", "catchup"} =>
                    rt'.pc \in {"header", "recover", "catchup"}
              /\ SendSequence => rt'.pc = "header"
<1>0. NetTypes
  BY DEF BaseInv
<1>1. ASSUME NEW pc \in {"none", "loop", "done"}, rt' = Thread(pc) PROVE FALSE
  BY <1>1, ThreadTypes DEF Handshaking
<1>2. CASE ReconnectNext
  <2>1. ~(Leave \/ Announce \/ AttemptBroken \/ AttemptTimesOut)
    BY <1>1 DEF Leave, Announce, AttemptBroken, AttemptTimesOut, AttemptOver
  <2>2. ~(ReviveReader \/ ReviveWriter)
    BY <1>0 DEF ReviveReader, ReviveWriter, NetTypes, Handshaking
  <2>3. CASE AwaitResponse
    <3>1. rt.pc = "response" /\ rt' = [rt EXCEPT !.pc = "sample"]
      BY <1>1, <2>3 DEF AwaitResponse, AttemptOver
    <3>2. ~SendSequence
      BY <3>1 DEF SendSequence
    <3> QED BY <1>0, <2>3, <3>1, <3>2 DEF AwaitResponse, NetTypes, Handshaking, reader
  <2>4. CASE SendSequence
    BY <1>0, <2>4 DEF SendSequence, NetTypes, Handshaking, reader
  <2>5. CASE AwaitSequence
    <3>1. ~SendSequence
      BY <2>5 DEF AwaitSequence, SendSequence
    <3> QED BY <1>0, <2>5, <3>1 DEF AwaitSequence, NetTypes, Handshaking, reader
  <2>6. CASE Recover
    <3>1. /\ rt.pc = "recover"
          /\ rt' = [rt EXCEPT !.pc = "catchup", !.upto = w_sequence_number]
      BY <1>1, <2>6 DEF Recover, AttemptOver
    <3>2. ~SendSequence
      BY <3>1 DEF SendSequence
    <3> QED BY <1>0, <2>6, <3>1, <3>2 DEF Recover, NetTypes, Handshaking, reader
  <2> QED BY <1>2, <2>1, <2>2, <2>3, <2>4, <2>5, <2>6 DEF ReconnectNext
<1>3. CASE SessionNext
  <2>1. rt' = rt
    BY <1>3, <1>1
       DEF SessionNext, WritePacket, WriteCheck, WriteTurnedAway, WriteKept, WriteSent,
           WriteFailed, ReadWithoutSocket, ReadFrame, ReadPartial, ReadClosed,
           ForceReconnect, CloseAndMaybeReconnect, Shutdown, ShutdownJoined, Stopped, vars
  <2>2. Handshaking /\ ~SendSequence
    BY <1>0, <2>1 DEF Handshaking, SendSequence, NetTypes
  <2>3. r_socket = NoStream
    BY <2>2, InAttempt
  <2>4. r_sequence_number' = r_sequence_number
    BY <1>3, <2>3, SessionReads DEF SameReader, ReadFrame, ReadPartial, R!ReadBuffered
  <2> QED BY <2>1, <2>2, <2>4
<1>4. CASE ServerNext \/ (\E s \in Streams : Break(s)) \/ UNCHANGED vars
  <2>1. rt' = rt /\ r_sequence_number' = r_sequence_number
    BY <1>4 DEF ServerNext, ServerRequest, ServerRefuse, ServerSequence, ServerCatchup,
                ServerReceive, ServerNotices, ServerSend, ServerEnds, Break, vars, reader
  <2>2. Handshaking /\ ~SendSequence
    BY <1>0, <2>1 DEF Handshaking, SendSequence, NetTypes
  <2> QED BY <2>1, <2>2
<1> QED BY <1>2, <1>3, <1>4 DEF Next

LEMMA StepAsk == BaseInv /\ AskInv /\ [Next]_vars => AskInv'
<1> SUFFICES ASSUME BaseInv, AskInv, [Next]_vars, Handshaking',
                    NEW i \in 1 .. Len(up'[rt'.stream]), up'[rt'.stream][i].type = "seq"
             PROVE  /\ rt'.pc \in {"header", "recover", "catchup"}
                    /\ up'[rt'.stream][i].n = AsI32(r_sequence_number')
  BY DEF AskInv, AsI32
<1>1. CASE Dial
  <2>1. PICK s \in Streams : /\ rt' = [rt EXCEPT !.pc = "response", !.stream = s]
                             /\ up' = [up EXCEPT ![s] = <<[type |-> "request"]>>]
    BY <1>1 DEF Dial
  <2>2. rt'.stream = s /\ up'[s] = <<[type |-> "request"]>>
    BY <2>1 DEF BaseInv, NetTypes
  <2>3. Len(up'[s]) = 1 /\ up'[s][1].type = "request"
    BY <2>2
  <2>4. i = 1
    BY <2>2, <2>3
  <2> QED BY <2>2, <2>3, <2>4
<1>2. CASE /\ Handshaking /\ rt'.stream = rt.stream
           /\ r_sequence_number' = r_sequence_number
           /\ rt.pc \in {"header", "recover", "catchup"} =>
                 rt'.pc \in {"header", "recover", "catchup"}
           /\ SendSequence => rt'.pc = "header"
  <2>1. rt.stream \in Streams
    BY <1>2, InAttempt
  <2>2. CASE \E j \in 1 .. Len(up[rt.stream]) : up'[rt.stream][i] = up[rt.stream][j]
    BY <1>2, <2>2 DEF AskInv
  <2>3. CASE /\ SendSequence
             /\ up'[rt.stream][i] = [type |-> "seq", n |-> AsI32(r_sequence_number)]
    BY <1>2, <2>3
  <2> QED BY <1>2, <2>1, <2>2, <2>3, UpBefore
<1> QED BY <1>1, <1>2, AttemptStep

\* The log grows by the next packet, or stays.
LEMMA LogStep ==
    ASSUME BaseInv, [Next]_vars
    PROVE  srv'.log = srv.log \/ (ServerSend /\ srv'.log = Append(srv.log, Len(srv.log) + 1))
<1>1. NetTypes
  BY DEF BaseInv
<1>2. CASE SessionNext
  BY <1>2, SessionDown DEF SessionStep, NoAttempt
<1>3. CASE ReconnectNext
  BY <1>3, ReconnectDown DEF NoAttempt, Begins, Says, Hears, Revives
<1>4. CASE ServerSend
  BY <1>1, <1>4, SendEffect DEF NetTypes
<1>5. CASE ServerSequence
  BY <1>1, <1>5 DEF ServerSequence, NetTypes
<1>6. CASE (ServerNext \/ (\E s \in Streams : Break(s)) \/ UNCHANGED vars)
           /\ ~ServerSend /\ ~ServerSequence
  BY <1>6, ServerDown DEF Silent, Replies
<1> QED BY <1>2, <1>3, <1>4, <1>5, <1>6 DEF Next

LEMMA LogGrows ==
    ASSUME BaseInv, LogInv, [Next]_vars
    PROVE  /\ Len(srv.log) \in Nat /\ Len(srv'.log) \in Nat
           /\ Len(srv.log) =< Len(srv'.log)
           /\ LogInv'
<1>1. srv.log \in Seq(ServerPackets) /\ Len(srv.log) \in Nat
  BY DEF BaseInv, NetTypes
<1>2. CASE srv'.log = srv.log
  BY <1>1, <1>2 DEF LogInv
<1>3. CASE ServerSend /\ srv'.log = Append(srv.log, Len(srv.log) + 1)
  <2>1. Len(srv.log) + 1 \in ServerPackets
    BY <1>3, SendEffect
  <2>2. /\ Len(srv'.log) = Len(srv.log) + 1
        /\ \A i \in 1 .. Len(srv.log) : srv'.log[i] = srv.log[i]
        /\ srv'.log[Len(srv.log) + 1] = Len(srv.log) + 1
    BY <1>1, <1>3, <2>1, Appended
  <2>3. ASSUME NEW i \in 1 .. Len(srv'.log) PROVE srv'.log[i] = i
    <3>1. i \in 1 .. Len(srv.log) \/ i = Len(srv.log) + 1
      BY <1>1, <2>2
    <3> QED BY <2>2, <3>1 DEF LogInv
  <2> QED BY <1>1, <2>2, <2>3 DEF LogInv
<1> QED BY <1>2, <1>3, LogStep

LEMMA ReaderStep ==
    ASSUME BaseInv, [Next]_vars
    PROVE  \/ UNCHANGED <<r_sequence_number, r_nonce, r_local_buffer, r_delivered>>
           \/ R!ReadBuffered \/ ReadFrame \/ ReviveReader
<1>1. CASE SessionNext
  BY <1>1, SessionReads DEF SameReader, ReadPartial, R!ReadPartial
<1>2. CASE ~SessionNext /\ ~ReviveReader
  <2>1. UNCHANGED reader
    BY <1>2 DEF Next, ReconnectNext, Leave, Dial, AwaitResponse, SendSequence, AwaitSequence,
         Recover, ReviveWriter, Announce, AttemptBroken, AttemptTimesOut,
         ServerNext, ServerRequest, ServerRefuse, ServerSequence, ServerCatchup,
         ServerReceive, ServerNotices, ServerSend, ServerEnds, Break, vars
  <2> QED BY <2>1 DEF reader
<1> QED BY <1>1, <1>2

\* One more packet returned, the next one.
LEMMA OneMore ==
    ASSUME r_delivered \in Seq(ServerPackets), r_nonce \in Nat, Len(r_delivered) = r_nonce,
           \A i \in 1 .. r_nonce : r_delivered[i] = i, r_nonce' = r_nonce + 1,
           r_nonce + 1 \in ServerPackets, r_delivered' = Append(r_delivered, r_nonce + 1)
    PROVE  Len(r_delivered') = r_nonce' /\ \A i \in 1 .. r_nonce' : r_delivered'[i] = i
<1>1. /\ Len(r_delivered') = r_nonce + 1
      /\ \A i \in 1 .. r_nonce : r_delivered'[i] = r_delivered[i]
      /\ r_delivered'[r_nonce + 1] = r_nonce + 1
  BY Appended
<1>2. ASSUME NEW i \in 1 .. r_nonce + 1 PROVE r_delivered'[i] = i
  <2>1. i \in 1 .. r_nonce \/ i = r_nonce + 1
    OBVIOUS
  <2> QED BY <1>1, <2>1
<1> QED BY <1>1, <1>2

LEMMA InLog ==
    ASSUME BaseInv, LogInv, NEW k \in 1 .. Len(srv.log)
    PROVE  k \in ServerPackets
<1>1. srv.log \in Seq(ServerPackets)
  BY DEF BaseInv, NetTypes
<1>2. srv.log[k] \in ServerPackets
  BY <1>1, Member
<1> QED BY <1>2 DEF LogInv

\* The catch-up the thread has in hand is what the reader lacks.
LEMMA CatchupInHand ==
    ASSUME BaseInv, R!TypeOK, ShapeInv, CatchupInv, ReviveReader
    PROVE  LET ch == down[rt.stream]
               frames == ch[1].frames
           IN  /\ rt.stream \in Streams /\ ch \in Seq(DownMessages) /\ ch # << >>
               /\ Head(ch) = ch[1] /\ frames \in Seq(R!Frames) /\ Len(frames) \in Nat
               /\ Missed(ch, 1, r_sequence_number, Len(srv.log), srv.sock = rt.stream)
               /\ R!Revive(rt.stream, frames)
               /\ down'[rt.stream] = Tail(ch) /\ srv' = srv
               /\ r_sequence_number + Len(frames) =< Len(srv.log)
<1> DEFINE ch == down[rt.stream]
           frames == ch[1].frames
<1>1. /\ rt.pc = "catchup" /\ Handshaking /\ Read = 2 /\ Has(down, rt.stream, "catchup")
      /\ rt.stream \in Streams /\ NetTypes /\ srv' = srv /\ down' = Take(down, rt.stream)
  BY InAttempt DEF ReviveReader, Handshaking, Read, BaseInv
<1>2. /\ ch \in Seq(DownMessages) /\ ch # << >> /\ Head(ch) = ch[1] /\ 1 \in 1 .. Len(ch)
      /\ ch[1] \in DownMessages /\ ch[1].type = "catchup"
  BY <1>1, HeadOfDown
<1>3. frames \in Seq(R!Frames) /\ Len(frames) \in Nat
  BY <1>2, MessageTypes
<1>4. R!Revive(rt.stream, frames)
  BY <1>2 DEF ReviveReader
<1>5. down'[rt.stream] = Tail(ch)
  <2>1. down \in [Streams -> Seq(DownMessages)]
    BY <1>1 DEF NetTypes
  <2> QED BY <1>1, <2>1 DEF Take
<1>6. Len(ch) >= 3 - Read /\ 3 - Read = 1 /\ Len(ch) \in Nat
  BY <1>1, <1>2
<1>7. Missed(ch, 1, r_sequence_number, Len(srv.log), srv.sock = rt.stream)
  BY <1>1, <1>6 DEF CatchupInv
<1>8. r_sequence_number + Len(frames) =< Len(srv.log)
  <2>1. 2 * (r_sequence_number + Len(frames)) + (Len(ch) + 1 - 2) =< 2 * Len(srv.log)
    BY <1>7 DEF Missed, Carries, Reach
  <2>2. r_sequence_number \in Nat /\ Len(srv.log) \in Nat /\ Len(ch) \in Nat /\ Len(ch) >= 1
    BY <1>2, <1>6 DEF BaseInv, NetTypes
  <2> HIDE DEF ch, frames
  <2> QED BY <1>3, <2>1, <2>2
<1> QED BY <1>1, <1>2, <1>3, <1>4, <1>5, <1>7, <1>8

\* The frames of the catch-up go on where those already in hand end.
LEMMA FramesJoined ==
    ASSUME NEW k \in Nat, NEW b \in Seq(R!Frames), NEW frames \in Seq(R!Frames),
           \A i \in 1 .. Len(b) : b[i] = Frame(k + i),
           \A i \in 1 .. Len(frames) : frames[i] = Frame((k + Len(b)) + i)
    PROVE  /\ Len(b \o frames) = Len(b) + Len(frames)
           /\ \A i \in 1 .. Len(b \o frames) : (b \o frames)[i] = Frame(k + i)
<1>1. /\ Len(b \o frames) = Len(b) + Len(frames) /\ Len(b) \in Nat /\ Len(frames) \in Nat
      /\ \A i \in 1 .. Len(b) : (b \o frames)[i] = b[i]
      /\ \A i \in 1 .. Len(frames) : (b \o frames)[Len(b) + i] = frames[i]
  <2> DEFINE M == R!Frames
  <2>1. b \in Seq(M) /\ frames \in Seq(M)
    OBVIOUS
  <2> HIDE DEF M
  <2> QED BY <2>1, Joined
<1>2. ASSUME NEW i \in 1 .. Len(b \o frames) PROVE (b \o frames)[i] = Frame(k + i)
  <2>1. CASE i \in 1 .. Len(b)
    BY <1>1, <2>1
  <2>2. CASE i \notin 1 .. Len(b)
    <3> DEFINE j == i - Len(b)
    <3>1. j \in 1 .. Len(frames) /\ Len(b) + j = i /\ (k + Len(b)) + j = k + i
      BY <1>1, <2>2
    <3> HIDE DEF j
    <3>2. (b \o frames)[Len(b) + j] = frames[j] /\ frames[j] = Frame((k + Len(b)) + j)
      BY <1>1, <3>1
    <3> QED BY <3>1, <3>2
  <2> QED BY <2>1, <2>2
<1> QED BY <1>1, <1>2

LEMMA StepRead ==
    ASSUME BaseInv, R!TypeOK, ShapeInv, DownInv, [Next]_vars
    PROVE  ReadInv'
<1>1. NumberTypes
  BY Numbers
<1>2. Len(srv.log) =< Len(srv'.log) /\ Len(srv'.log) \in Nat /\ Len(srv.log) \in Nat
  BY LogGrows DEF DownInv
<1>3. CASE UNCHANGED <<r_sequence_number, r_nonce, r_local_buffer, r_delivered>>
  <2>1. r_sequence_number =< Len(srv'.log)
    BY <1>1, <1>2 DEF DownInv, ReadInv, NumberTypes
  <2> QED BY <1>3, <2>1 DEF DownInv, ReadInv, Frame
<1>4. CASE R!ReadBuffered
  <2>1. /\ r_nonce < Len(srv.log) /\ r_delivered' = Append(r_delivered, r_nonce + 1)
        /\ r_nonce' = r_nonce + 1 /\ r_local_buffer' = Tail(r_local_buffer)
        /\ r_local_buffer # << >> /\ r_sequence_number' = r_sequence_number
    BY <1>4, BufferedDelivers DEF DownInv
  <2>2. r_nonce + 1 \in ServerPackets
    BY <1>1, <2>1, InLog DEF NumberTypes, DownInv
  <2>3. Len(r_delivered') = r_nonce' /\ \A i \in 1 .. r_nonce' : r_delivered'[i] = i
    BY <1>1, <2>1, <2>2, OneMore DEF NumberTypes, DownInv, ReadInv
  <2>4. /\ Len(r_local_buffer) \in Nat /\ Len(r_local_buffer') = Len(r_local_buffer) - 1
        /\ \A i \in 1 .. Len(r_local_buffer) - 1 : r_local_buffer'[i] = r_local_buffer[i + 1]
    BY <1>1, <2>1, Tailed DEF NumberTypes
  <2>5. ASSUME NEW i \in 1 .. Len(r_local_buffer')
        PROVE  r_local_buffer'[i] = Frame(r_nonce' + i)
    <3>1. /\ i \in 1 .. Len(r_local_buffer) - 1 /\ i + 1 \in 1 .. Len(r_local_buffer)
          /\ r_nonce' + i = r_nonce + (i + 1)
      BY <1>1, <2>1, <2>4 DEF NumberTypes
    <3>2. r_local_buffer[i + 1] = Frame(r_nonce + (i + 1))
      BY <3>1 DEF DownInv, ReadInv
    <3> QED BY <2>4, <3>1, <3>2
  <2>6. /\ r_sequence_number = r_nonce + Len(r_local_buffer) /\ r_sequence_number =< Len(srv.log)
        /\ r_sequence_number \in Nat /\ r_nonce \in Nat /\ Len(r_local_buffer) \in Nat
    BY <1>1 DEF DownInv, ReadInv, NumberTypes
  <2>7. /\ r_sequence_number' = r_nonce' + Len(r_local_buffer')
        /\ r_sequence_number' =< Len(srv'.log)
    <3>1. Len(r_local_buffer') = Len(r_local_buffer) - 1
      BY <2>4
    <3> QED BY <1>2, <2>1, <2>6, <3>1
  <2> QED BY <2>3, <2>5, <2>7 DEF ReadInv, Frame
<1>5. CASE ReadFrame
  <2>1. r_socket \in Streams /\ main.pc # "join"
    BY <1>1, <1>5 DEF ReadFrame, NumberTypes, Ends
  <2>2. PICK n \in 0 .. Len(down[r_socket]) : R!ReadFrame(Pieces(n))
    BY <1>5 DEF ReadFrame
  <2>3. /\ r_local_buffer = << >> /\ r_nonce = r_sequence_number /\ r_nonce < Len(srv.log)
        /\ r_delivered' = Append(r_delivered, r_nonce + 1)
        /\ r_nonce' = r_nonce + 1 /\ r_sequence_number' = r_sequence_number + 1
        /\ r_local_buffer' = r_local_buffer
    BY <2>1, <2>2, FrameDelivers DEF DownInv
  <2>4. r_nonce + 1 \in ServerPackets
    BY <1>1, <2>3, InLog DEF NumberTypes, DownInv
  <2>5. Len(r_delivered') = r_nonce' /\ \A i \in 1 .. r_nonce' : r_delivered'[i] = i
    BY <1>1, <2>3, <2>4, OneMore DEF NumberTypes, DownInv, ReadInv
  <2>6. Len(r_local_buffer') = 0
    BY <2>3
  <2>7. /\ r_sequence_number' = r_nonce' + Len(r_local_buffer')
        /\ r_sequence_number' =< Len(srv'.log)
    BY <1>1, <1>2, <2>3, <2>6 DEF NumberTypes
  <2>8. \A i \in 1 .. Len(r_local_buffer') : r_local_buffer'[i] = Frame(r_nonce' + i)
    BY <2>6
  <2> QED BY <2>5, <2>7, <2>8 DEF ReadInv, Frame
<1>6. CASE ReviveReader
  <2> DEFINE frames == down[rt.stream][1].frames
             seq == r_sequence_number
  <2>1. /\ frames \in Seq(R!Frames) /\ Len(frames) \in Nat
        /\ Missed(down[rt.stream], 1, seq, Len(srv.log), srv.sock = rt.stream)
        /\ R!Revive(rt.stream, frames) /\ srv' = srv /\ seq + Len(frames) =< Len(srv.log)
    BY <1>6, CatchupInHand DEF DownInv
  <2>2. \A i \in 1 .. Len(frames) : frames[i] = Frame(seq + i)
    BY <2>1 DEF Missed
  <2> HIDE DEF frames
  <2>3. /\ r_local_buffer' = r_local_buffer \o frames
        /\ r_sequence_number' = seq + Len(frames)
        /\ UNCHANGED <<r_nonce, r_delivered>>
    BY <2>1 DEF R!Revive
  <2>4. seq = r_nonce + Len(r_local_buffer)
    BY DEF DownInv, ReadInv
  <2>5. \A i \in 1 .. Len(frames) : frames[i] = Frame((r_nonce + Len(r_local_buffer)) + i)
    BY <2>2, <2>4
  <2> HIDE DEF seq
  <2>6. \A i \in 1 .. Len(r_local_buffer) : r_local_buffer[i] = Frame(r_nonce + i)
    BY DEF DownInv, ReadInv
  <2>7. r_nonce \in Nat /\ r_local_buffer \in Seq(R!Frames) /\ Len(r_local_buffer) \in Nat
    BY <1>1 DEF NumberTypes
  <2>8. /\ Len(r_local_buffer') = Len(r_local_buffer) + Len(frames)
        /\ \A i \in 1 .. Len(r_local_buffer') : r_local_buffer'[i] = Frame(r_nonce + i)
    BY <2>1, <2>3, <2>5, <2>6, <2>7, FramesJoined
  <2>9. /\ r_sequence_number' = r_nonce' + Len(r_local_buffer')
        /\ r_sequence_number' =< Len(srv'.log)
    <3>1. Len(r_local_buffer') = Len(r_local_buffer) + Len(frames)
      BY <2>8
    <3> QED BY <2>1, <2>3, <2>4, <2>7, <3>1
  <2> QED BY <2>3, <2>8, <2>9 DEF DownInv, ReadInv, Frame
<1> QED BY <1>3, <1>4, <1>5, <1>6, ReaderStep

-----------------------------------------------------------------------------
(* What is under way to the reader. *)

LEMMA WireKept ==
    ASSUME WireInv, UNCHANGED <<r_socket, r_sequence_number, r_partial>>, srv'.log = srv.log,
           r_socket # NoStream => down'[r_socket] = down[r_socket],
           (r_socket # NoStream /\ srv'.sock = r_socket) => srv.sock = r_socket,
           main.pc = "join" => main'.pc = "join"
    PROVE  WireInv'
<1> SUFFICES ASSUME r_socket # NoStream, main'.pc # "join"
             PROVE  Wired(down[r_socket], r_partial, r_sequence_number, Len(srv.log),
                          srv'.sock = r_socket)
  BY DEF WireInv, Wired, Carries, Flow, Reach, StreamPiece, Frame
<1>1. Wired(down[r_socket], r_partial, r_sequence_number, Len(srv.log), srv.sock = r_socket)
  BY DEF WireInv
<1> QED BY <1>1 DEF Wired, Carries

LEMMA WireFrame ==
    ASSUME BaseInv, R!TypeOK, ShapeInv, DownInv, ReadFrame
    PROVE  WireInv'
<1> DEFINE ch == down[r_socket]
           seq == r_sequence_number
<1>1. NumberTypes /\ srv' = srv /\ main.pc # "join" /\ r_socket \in Streams /\ r_socket # NoStream
  BY Numbers, NoStreamAssumption DEF ReadFrame, NumberTypes, Ends
<1>2. down \in [Streams -> Seq(DownMessages)]
  BY DEF BaseInv, NetTypes
<1>3. PICK n \in 0 .. Len(ch) :
        R!ReadFrame(Pieces(n)) /\ down' = [down EXCEPT ![r_socket] = SubSeq(@, n + 1, Len(@))]
  BY DEF ReadFrame
<1>4. /\ Len(r_partial) + n = 2 /\ seq' = seq + 1 /\ r_partial' = << >> /\ r_socket' = r_socket
  BY <1>1, <1>3, FrameDelivers DEF DownInv
<1>5. down'[r_socket] = SubSeq(ch, n + 1, Len(ch)) /\ ch \in Seq(DownMessages) /\ Len(ch) \in Nat
  BY <1>1, <1>2, <1>3
<1>6. Carries(ch, 1, 2 * seq + Len(r_partial), Len(srv.log), srv.sock = r_socket)
  BY <1>1 DEF DownInv, WireInv, Wired
<1>7. 2 * seq + Len(r_partial) \in Nat /\ Len(srv.log) \in Nat /\ (srv.sock = r_socket) \in BOOLEAN
  BY <1>1 DEF NumberTypes
<1>8. (2 * seq + Len(r_partial)) + n = 2 * (seq + 1)
  <2>1. Len(r_partial) \in Nat /\ seq \in Nat /\ n \in Nat
    BY <1>1, <1>5 DEF NumberTypes
  <2> HIDE DEF seq, ch
  <2> QED BY <1>4, <2>1
<1>9. Carries(down'[r_socket], 1, 2 * (seq + 1), Len(srv.log), srv.sock = r_socket)
  <2> DEFINE k == 2 * seq + Len(r_partial)
  <2>1. k \in Nat /\ Carries(ch, 1, k, Len(srv.log), srv.sock = r_socket) /\ k + n = 2 * (seq + 1)
    BY <1>6, <1>7, <1>8
  <2> HIDE DEF k, ch, seq
  <2>2. Carries(SubSeq(ch, n + 1, Len(ch)), 1, k + n, Len(srv.log), srv.sock = r_socket)
    BY <1>5, <1>7, <2>1, CarriesLess
  <2> QED BY <1>5, <2>1, <2>2
<1>10. Len(r_partial') = 0
  BY <1>4
<1>11. 2 * seq' + Len(r_partial') = 2 * (seq + 1)
  BY <1>1, <1>4, <1>10 DEF NumberTypes
<1>12. Wired(down'[r_socket'], r_partial', seq', Len(srv'.log), srv'.sock = r_socket')
  BY <1>1, <1>4, <1>9, <1>10, <1>11 DEF Wired
<1> QED BY <1>12 DEF WireInv, Wired, Carries, Flow, Reach, StreamPiece, Frame

LEMMA WirePartial ==
    ASSUME BaseInv, R!TypeOK, ShapeInv, DownInv, ReadPartial
    PROVE  WireInv'
<1> DEFINE ch == down[r_socket]
           seq == r_sequence_number
           b == r_partial \o Pieces(Len(ch))
<1>1. NumberTypes /\ srv' = srv /\ main.pc # "join" /\ r_socket \in Streams /\ r_socket # NoStream
  BY Numbers, NoStreamAssumption DEF ReadPartial, NumberTypes, Ends
<1>2. down \in [Streams -> Seq(DownMessages)]
  BY DEF BaseInv, NetTypes
<1>3. /\ Len(r_partial) + Len(Pieces(Len(ch))) < 2 /\ r_partial' = b
      /\ seq' = seq /\ r_socket' = r_socket /\ down'[r_socket] = << >>
  BY <1>1, <1>2 DEF ReadPartial, R!ReadPartial
<1>4. ch \in Seq(DownMessages) /\ Len(ch) \in Nat /\ Len(ch) \in 0 .. Len(ch)
  BY <1>1, <1>2
<1>5. /\ Pieces(Len(ch)) \in Seq(R!Pieces) /\ Len(Pieces(Len(ch))) = Len(ch)
      /\ \A i \in 1 .. Len(ch) : Pieces(Len(ch))[i] = ch[i].piece
  BY <1>1, <1>4, PiecesAtHand
<1>6. /\ Len(b) = Len(r_partial) + Len(ch)
      /\ \A i \in 1 .. Len(r_partial) : b[i] = r_partial[i]
      /\ \A i \in 1 .. Len(ch) : b[Len(r_partial) + i] = ch[i].piece
  <2> DEFINE taken == Pieces(Len(ch))
             M == R!Pieces
  <2>1. /\ taken \in Seq(M) /\ r_partial \in Seq(M) /\ Len(taken) = Len(ch)
        /\ \A i \in 1 .. Len(ch) : taken[i] = ch[i].piece
    BY <1>1, <1>5 DEF NumberTypes
  <2> HIDE DEF taken, M
  <2>2. taken \in Seq(M) /\ r_partial \in Seq(M)
    BY <2>1
  <2>3. /\ Len(r_partial \o taken) = Len(r_partial) + Len(taken)
        /\ \A i \in 1 .. Len(r_partial) : (r_partial \o taken)[i] = r_partial[i]
        /\ \A i \in 1 .. Len(taken) : (r_partial \o taken)[Len(r_partial) + i] = taken[i]
    BY <2>2, Joined
  <2> QED BY <2>1, <2>3 DEF taken
<1>7. /\ \A i \in 1 .. Len(r_partial) : r_partial[i] = StreamPiece(2 * seq + i)
      /\ \A i \in 1 .. Len(ch) : ch[i].piece = StreamPiece((2 * seq + Len(r_partial)) + (i + 1 - 1))
      /\ (2 * seq + Len(r_partial)) + (Len(ch) + 1 - 1) =< 2 * Len(srv.log)
      /\ (srv.sock = r_socket) =>
            (2 * seq + Len(r_partial)) + (Len(ch) + 1 - 1) = 2 * Len(srv.log)
  BY <1>1 DEF DownInv, WireInv, Wired, Carries, Flow, Reach
<1>8. Len(r_partial) \in Nat /\ seq \in Nat /\ Len(srv.log) \in Nat
  BY <1>1 DEF NumberTypes
<1>9. Len(b) < 2 /\ Len(b) = Len(r_partial) + Len(ch)
  BY <1>3, <1>5, <1>6
<1> HIDE DEF b, ch, seq
<1>10. ASSUME NEW j \in 1 .. Len(b) PROVE b[j] = StreamPiece(2 * seq + j)
  <2>1. CASE j \in 1 .. Len(r_partial)
    BY <1>6, <1>7, <2>1
  <2>2. CASE j \notin 1 .. Len(r_partial)
    <3> DEFINE i == j - Len(r_partial)
    <3>1. /\ i \in 1 .. Len(ch) /\ Len(r_partial) + i = j
          /\ (2 * seq + Len(r_partial)) + (i + 1 - 1) = 2 * seq + j
      BY <1>4, <1>8, <1>9, <2>2
    <3> HIDE DEF i
    <3>2. b[Len(r_partial) + i] = ch[i].piece
      BY <1>6, <3>1
    <3>3. ch[i].piece = StreamPiece((2 * seq + Len(r_partial)) + (i + 1 - 1))
      BY <1>7, <3>1
    <3> QED BY <3>1, <3>2, <3>3
  <2> QED BY <2>1, <2>2
<1>11. Len(down'[r_socket]) = 0
  BY <1>3
<1>12. Carries(down'[r_socket], 1, 2 * seq + Len(b), Len(srv.log), srv.sock = r_socket)
  <2> DEFINE q == down'[r_socket]
  <2>1. Len(q) = 0
    BY <1>11
  <2> HIDE DEF q
  <2>2. Flow(q, 1, 2 * seq + Len(b))
    BY <2>1 DEF Flow
  <2>3. Reach(q, 1, 2 * seq + Len(b)) = (2 * seq + Len(r_partial)) + (Len(ch) + 1 - 1)
    BY <1>4, <1>8, <1>9, <2>1 DEF Reach
  <2>4. Carries(q, 1, 2 * seq + Len(b), Len(srv.log), srv.sock = r_socket)
    BY <1>7, <2>2, <2>3 DEF Carries
  <2> QED BY <2>4 DEF q
<1>13. Wired(down'[r_socket'], r_partial', seq', Len(srv'.log), srv'.sock = r_socket')
  BY <1>1, <1>3, <1>9, <1>10, <1>12 DEF Wired, b, seq
<1> QED BY <1>13 DEF WireInv, Wired, Carries, Flow, Reach, StreamPiece, Frame, seq

LEMMA WireRevived ==
    ASSUME BaseInv, R!TypeOK, ShapeInv, DownInv, ReviveReader
    PROVE  WireInv'
<1> DEFINE s == rt.stream
           ch == down[s]
           frames == ch[1].frames
           seq == r_sequence_number
<1>1. /\ s \in Streams /\ ch \in Seq(DownMessages) /\ ch # << >>
      /\ frames \in Seq(R!Frames) /\ Len(frames) \in Nat
      /\ Missed(ch, 1, seq, Len(srv.log), srv.sock = s)
      /\ R!Revive(s, frames) /\ down'[s] = Tail(ch) /\ srv' = srv
  BY CatchupInHand DEF DownInv
<1>2. /\ r_partial' = << >> /\ seq' = seq + Len(frames) /\ r_socket' = s
  BY <1>1 DEF R!Revive
<1>3. seq \in Nat /\ Len(srv.log) \in Nat /\ (srv.sock = s) \in BOOLEAN
  BY Numbers DEF NumberTypes
<1>4. Carries(ch, 1 + 1, 2 * (seq + Len(frames)), Len(srv.log), srv.sock = s)
  BY <1>1 DEF Missed
<1>5. Carries(Tail(ch), 1, 2 * (seq + Len(frames)), Len(srv.log), srv.sock = s)
  <2> DEFINE k == 2 * (seq + Len(frames))
  <2>1. k \in Nat /\ Carries(ch, 2, k, Len(srv.log), srv.sock = s)
    <3>1. k \in Nat
      BY <1>1, <1>3, SMTT(30)
    <3> QED BY <1>4, <3>1
  <2> HIDE DEF k, ch, frames, seq, s
  <2> DEFINE all == srv.sock = s
             total == Len(srv.log)
  <2>2. ch \in Seq(DownMessages) /\ ch # << >> /\ total \in Nat /\ all \in BOOLEAN
    BY <1>1, <1>3
  <2>3. Carries(ch, 2, k, total, all) /\ k \in Nat
    BY <2>1
  <2> HIDE DEF all, total
  <2>4. Carries(Tail(ch), 2 - 1, k, total, all)
    BY <2>2, <2>3, CarriesTail
  <2> QED BY <2>4 DEF k, all, total
<1>6. Len(r_partial') = 0
  BY <1>2
<1>7. 2 * seq' + Len(r_partial') = 2 * (seq + Len(frames))
  <2> HIDE DEF frames, seq
  <2> QED BY <1>1, <1>2, <1>3, <1>6
<1>8. Wired(down'[r_socket'], r_partial', seq', Len(srv'.log), srv'.sock = r_socket')
  <2> DEFINE k == 2 * (seq + Len(frames))
  <2>1. Carries(down'[s], 1, k, Len(srv.log), srv.sock = s) /\ 2 * seq' + Len(r_partial') = k
    BY <1>1, <1>5, <1>7
  <2> HIDE DEF k
  <2>2. /\ Carries(down'[s], 1, 2 * seq' + Len(r_partial'), Len(srv.log), srv.sock = s)
        /\ Len(r_partial') < 2 /\ \A i \in 1 .. Len(r_partial') : FALSE
    BY <1>6, <2>1
  <2>3. Wired(down'[s], r_partial', seq', Len(srv.log), srv.sock = s)
    BY <2>2 DEF Wired
  <2>4. r_socket' = s /\ srv' = srv
    BY <1>1, <1>2
  <2> HIDE DEF seq, s
  <2> QED BY <2>3, <2>4
<1> QED BY <1>8 DEF WireInv, Wired, Carries, Flow, Reach, StreamPiece, Frame

\* A packet the server sends goes on where the stream ends.
LEMMA NextPieces ==
    ASSUME BaseInv, ServerSend
    PROVE  \E m1, m2 \in DownMessages :
              /\ AnsweredBy(<<m1, m2>>)
              /\ m1.piece = StreamPiece(2 * Len(srv.log) + 1)
              /\ m2.piece = StreamPiece(2 * Len(srv.log) + 2)
              /\ srv' = [srv EXCEPT !.log = Append(@, Len(srv.log) + 1)]
              /\ srv.phase # "seq" /\ srv'.sock = srv.sock
              /\ Len(srv'.log) = Len(srv.log) + 1 /\ Len(srv.log) \in Nat
<1> DEFINE k == Len(srv.log) + 1
           f == [nonce |-> k, packet |-> k]
           m1 == PieceMessage(f, 1)
           m2 == PieceMessage(f, 2)
<1>1. /\ srv.phase \in {"down", "live"} /\ AnsweredBy(<<m1, m2>>) /\ k \in ServerPackets
      /\ srv' = [srv EXCEPT !.log = Append(@, k)]
  BY SendEffect
<1>2. NetTypes /\ srv.log \in Seq(ServerPackets) /\ Len(srv.log) \in Nat
  BY DEF BaseInv, NetTypes
<1>3. f \in R!Frames
  BY <1>2, <1>1 DEF R!Frames, ServerPackets
<1>4. /\ m1 \in DownMessages /\ m1.piece = [frame |-> f, part |-> 1]
      /\ m2 \in DownMessages /\ m2.piece = [frame |-> f, part |-> 2]
  <2> HIDE DEF f
  <2> QED BY <1>2, <1>3, ServerMessages DEF PieceMessage
<1>5. /\ StreamPiece(2 * Len(srv.log) + 1) = [frame |-> f, part |-> 1]
      /\ StreamPiece(2 * Len(srv.log) + 2) = [frame |-> f, part |-> 2]
  BY <1>2, PiecesOfFrame DEF Frame
<1>6. srv'.sock = srv.sock /\ srv'.log = Append(srv.log, k)
  BY <1>1, <1>2 DEF NetTypes
<1>7. Len(srv'.log) = Len(srv.log) + 1
  BY <1>1, <1>2, <1>6, Appended
<1>8. /\ m1.piece = StreamPiece(2 * Len(srv.log) + 1)
      /\ m2.piece = StreamPiece(2 * Len(srv.log) + 2)
  BY <1>4, <1>5
<1> HIDE DEF m1, m2
<1>9. m1 \in DownMessages /\ m2 \in DownMessages /\ AnsweredBy(<<m1, m2>>)
  BY <1>1, <1>4
<1> QED BY <1>1, <1>2, <1>6, <1>7, <1>8, <1>9

LEMMA WireSent ==
    ASSUME BaseInv, R!TypeOK, DownInv, ServerSend
    PROVE  WireInv'
<1> DEFINE total == Len(srv.log)
           ch == down[r_socket]
           n == 2 * r_sequence_number + Len(r_partial)
<1>1. main' = main /\ UNCHANGED <<r_socket, r_sequence_number, r_partial>>
  BY DEF ServerSend, reader
<1>2. PICK m1, m2 \in DownMessages :
         /\ AnsweredBy(<<m1, m2>>)
         /\ m1.piece = StreamPiece(2 * total + 1) /\ m2.piece = StreamPiece(2 * total + 2)
         /\ srv'.sock = srv.sock /\ Len(srv'.log) = total + 1 /\ total \in Nat
  BY NextPieces
<1> SUFFICES ASSUME r_socket # NoStream, main.pc # "join"
             PROVE  Wired(down'[r_socket], r_partial, r_sequence_number, total + 1,
                          srv.sock = r_socket)
  BY <1>1, <1>2 DEF WireInv, Wired, Carries, Flow, Reach, StreamPiece, Frame
<1>3. Wired(ch, r_partial, r_sequence_number, total, srv.sock = r_socket)
  BY DEF DownInv, WireInv
<1>4. /\ r_socket \in Streams /\ n \in Nat
      /\ (srv.sock = r_socket) \in BOOLEAN
  <2>1. r_sequence_number \in Nat /\ Len(r_partial) \in Nat /\ r_socket \in Ends
    BY Numbers DEF NumberTypes
  <2> QED BY <2>1 DEF Ends
<1>5. ch \in Seq(DownMessages) /\ Len(ch) \in Nat
  BY <1>4 DEF BaseInv, NetTypes
<1>6. Carries(ch, 1, n, total, srv.sock = r_socket)
  BY <1>3 DEF Wired
<1>7. Carries(down'[r_socket], 1, n, total + 1, srv.sock = r_socket)
  <2> DEFINE ms == <<m1, m2>>
             all == srv.sock = r_socket
  <2>1. /\ ms \in Seq(DownMessages) /\ AnsweredBy(ms)
        /\ r_socket = srv.sock => down'[r_socket] = down[r_socket] \o ms
        /\ r_socket # srv.sock => down'[r_socket] = down[r_socket]
    <3>1. ms \in Seq(DownMessages) /\ AnsweredBy(ms)
      BY <1>2
    <3> HIDE DEF ms
    <3> QED BY <1>4, <3>1, AddedTo
  <2>2. Carries(ch, 1, n, total, all) /\ all \in BOOLEAN /\ (all <=> r_socket = srv.sock)
    BY <1>4, <1>6
  <2>3. /\ all => down'[r_socket] = ch \o <<m1, m2>>
        /\ ~all => down'[r_socket] = ch
    BY <2>1
  <2>4. n \in Nat /\ total \in Nat /\ ch \in Seq(DownMessages) /\ Len(ch) \in Nat
    BY <1>2, <1>4, <1>5
  <2> HIDE DEF ch, n, total, ms, all
  <2>5. CASE all
    <3>1. Carries(ch, 1, n, total, TRUE)
      BY <2>2, <2>5 DEF Carries
    <3>2. 1 \in 1 .. 4 /\ 1 =< Len(ch) + 1
      BY <2>4
    <3>3. m1.piece = StreamPiece(2 * total + 1) /\ m2.piece = StreamPiece(2 * total + 2)
      BY <1>2
    <3>4. Carries(ch \o <<m1, m2>>, 1, n, total + 1, TRUE)
      BY <2>4, <3>1, <3>2, <3>3, CarriesMore
    <3>5. Carries(ch \o <<m1, m2>>, 1, n, total + 1, all)
      BY <2>5, <3>4 DEF Carries
    <3> QED BY <2>3, <2>5, <3>5 DEF all
  <2>6. CASE ~all
    <3>0. 1 \in 1 .. 4
      OBVIOUS
    <3>1. Carries(ch, 1, n, total + 1, FALSE)
      BY <2>2, <2>4, <3>0, CarriesOn
    <3>2. Carries(ch, 1, n, total + 1, all)
      BY <2>6, <3>1 DEF Carries
    <3> QED BY <2>3, <2>6, <3>2 DEF all
  <2> QED BY <2>5, <2>6
<1> QED BY <1>3, <1>7 DEF Wired

LEMMA StepWire ==
    ASSUME BaseInv, R!TypeOK, NotYetRevived, ShapeInv, DownInv, [Next]_vars
    PROVE  WireInv'
<1>0. NetTypes /\ WireInv
  BY DEF BaseInv, DownInv
<1>1. CASE SessionNext
  <2>1. CASE /\ SameReader /\ UNCHANGED <<r_socket, down, rt, srv>>
             /\ main'.pc = "join" \/ main.pc # "join"
    BY <1>0, <2>1, WireKept DEF SameReader
  <2>2. CASE R!ReadBuffered /\ UNCHANGED <<down, rt, srv>> /\ main.pc = "idle"
    BY <1>0, <2>2, WireKept DEF R!ReadBuffered
  <2>3. CASE main'.pc = "join" \/ r_socket' = NoStream
    BY <2>3 DEF WireInv
  <2> QED BY <1>1, <2>1, <2>2, <2>3, SessionReads, WireFrame, WirePartial
<1>2. CASE ReviveReader
  BY <1>2, WireRevived
<1>3. CASE ReconnectNext /\ ~ReviveReader
  <2>1. UNCHANGED <<main, r_socket, r_sequence_number, r_partial>>
    BY <1>3 DEF ReconnectNext, Leave, Dial, AwaitResponse, SendSequence, AwaitSequence,
                Recover, ReviveWriter, Announce, AttemptBroken, AttemptTimesOut, reader
  <2>2. srv' = srv /\ (r_socket # NoStream => down'[r_socket] = down[r_socket])
    <3>1. r_socket # NoStream => ~Handshaking /\ r_socket \in Streams
      BY <1>0, InAttempt DEF NetTypes, Ends
    <3>2. ~Revives
      BY <2>1, InAttempt DEF Revives, Handshaking
    <3> QED BY <1>3, <2>1, <3>1, <3>2, ReconnectDown DEF NoAttempt, Begins, Says, Hears
  <2> QED BY <1>0, <2>1, <2>2, WireKept
<1>4. CASE ServerSend
  BY <1>4, WireSent
<1>5. CASE (ServerNext \/ (\E s \in Streams : Break(s)) \/ UNCHANGED vars) /\ ~ServerSend
  <2>1. UNCHANGED <<main, r_socket, r_sequence_number, r_partial>>
    BY <1>5 DEF ServerNext, ServerRequest, ServerRefuse, ServerSequence, ServerCatchup,
                ServerReceive, ServerNotices, ServerEnds, Break, vars, reader
  <2>2. CASE Silent
    BY <1>0, <2>1, <2>2, WireKept DEF Silent
  <2>3. ASSUME NEW s \in Streams, Replies(s) PROVE WireInv'
    <3>1. r_socket # NoStream => down'[r_socket] = down[r_socket]
      BY <1>0, <2>3 DEF Replies, Answered, NetTypes, Ends
    <3>2. srv'.sock = srv.sock \/ srv'.sock = s
      BY <1>0, <2>3 DEF Replies, NetTypes
    <3>3. srv'.log = srv.log /\ s # r_socket
      BY <2>3 DEF Replies
    <3> QED BY <1>0, <2>1, <3>1, <3>2, <3>3, WireKept
  <2>4. CASE ServerSequence
    <3> DEFINE m == CatchupMessage(LogAfter(up[srv.sock][1].n))
    <3>1. /\ srv.phase = "seq" /\ srv' = [srv EXCEPT !.phase = "catchup"] /\ AnsweredBy(<<m>>)
          /\ up[srv.sock][1].n \in 0 .. Len(srv.log)
      BY <2>4, SequenceEffect
    <3>2. m \in DownMessages
      BY <1>0, <3>1, ServerMessages DEF CatchupMessage, LogAfter
    <3> HIDE DEF m
    <3>3. srv'.sock = srv.sock /\ srv'.log = srv.log /\ <<m>> \in Seq(DownMessages)
      BY <1>0, <3>1, <3>2 DEF NetTypes
    <3>4. r_socket # NoStream => r_socket \in Streams /\ r_socket # srv.sock
      BY <1>0, <3>1 DEF NotYetRevived, NetTypes, Ends
    <3>5. r_socket # NoStream => down'[r_socket] = down[r_socket]
      BY <3>1, <3>3, <3>4, AddedTo
    <3> QED BY <1>0, <2>1, <3>3, <3>5, WireKept
  <2> QED BY <1>5, <2>2, <2>3, <2>4, ServerDown
<1> QED BY <1>1, <1>2, <1>3, <1>4, <1>5 DEF Next

-----------------------------------------------------------------------------
(* What is under way to the thread. *)

\* A sequence number arrives as itself if it is below 2^32, and is refused if it
\* is not below 2^31.  Past 2^32 it would arrive as another.
ServerBelowWrap == MaxDown < 2 * I32_LIMIT

LEMMA MissedTail ==
    ASSUME NEW ch \in Seq(DownMessages), ch # << >>, NEW c \in 2 .. 3, c =< Len(ch),
           NEW seq \in Nat, NEW total \in Nat, NEW all \in BOOLEAN,
           Len(ch[c].frames) \in Nat, Missed(ch, c, seq, total, all)
    PROVE  Missed(Tail(ch), c - 1, seq, total, all)
<1> DEFINE frames == ch[c].frames
           n == 2 * (seq + Len(frames))
<1>1. Tail(ch)[c - 1] = ch[c]
  <2>1. /\ Len(ch) \in Nat /\ \A i \in 1 .. Len(ch) - 1 : Tail(ch)[i] = ch[i + 1]
    BY Tailed
  <2>2. c - 1 \in 1 .. Len(ch) - 1 /\ (c - 1) + 1 = c
    BY <2>1
  <2> QED BY <2>1, <2>2
<1>2. /\ \A i \in 1 .. Len(frames) : frames[i] = Frame(seq + i)
      /\ Carries(ch, c + 1, n, total, all)
  BY DEF Missed
<1>3. n \in Nat /\ c + 1 \in 2 .. 4 /\ (c + 1) - 1 = c /\ (c - 1) + 1 = c
  <2> HIDE DEF frames
  <2>1. Len(frames) \in Nat
    BY DEF frames
  <2> QED BY <2>1
<1>4. Carries(Tail(ch), c, n, total, all)
  <2> DEFINE from == c + 1
  <2>1. from \in 2 .. 4 /\ n \in Nat /\ Carries(ch, from, n, total, all) /\ from - 1 = c
    BY <1>2, <1>3
  <2> HIDE DEF n, from
  <2>2. Carries(Tail(ch), from - 1, n, total, all)
    BY <2>1, CarriesTail
  <2> QED BY <2>1, <2>2
<1> HIDE DEF n, frames
<1>5. Tail(ch)[c - 1].frames = frames
  BY <1>1 DEF frames
<1>6. Carries(Tail(ch), (c - 1) + 1, n, total, all)
  BY <1>3, <1>4
<1> QED BY <1>2, <1>5, <1>6 DEF Missed, n

\* As a step that changes the thread's connection leaves it.
LEMMA CatchupFrom ==
    ASSUME UNCHANGED r_sequence_number,
           Len(down'[rt'.stream]) >= 3 - Read' =>
               Missed(down'[rt'.stream], 3 - Read', r_sequence_number, Len(srv'.log),
                      srv'.sock = rt'.stream)
    PROVE  CatchupInv'
BY DEF CatchupInv, Missed, Carries, Flow, Reach, StreamPiece, Frame

LEMMA CatchupKept ==
    ASSUME CatchupInv, Handshaking, UNCHANGED r_sequence_number,
           Read' = Read, rt'.stream = rt.stream, srv'.log = srv.log,
           down'[rt.stream] = down[rt.stream],
           srv'.sock = rt.stream => srv.sock = rt.stream
    PROVE  CatchupInv'
<1> DEFINE c == 3 - Read
           ch == down[rt.stream]
<1>1. Len(ch) >= c => Missed(ch, c, r_sequence_number, Len(srv.log), srv.sock = rt.stream)
  BY DEF CatchupInv
<1>2. Len(ch) >= c => Missed(ch, c, r_sequence_number, Len(srv.log), srv'.sock = rt.stream)
  BY <1>1 DEF Missed, Carries
<1> QED BY <1>2, CatchupFrom

LEMMA CatchupHeard ==
    ASSUME BaseInv, R!TypeOK, ShapeInv, CatchupInv, Hears, UNCHANGED r_sequence_number
    PROVE  CatchupInv'
<1> DEFINE s == rt.stream
           ch == down[s]
           c == 3 - Read
           all == srv.sock = s
           total == Len(srv.log)
           seq == r_sequence_number
<1>1. /\ Handshaking /\ Handshaking' /\ Read' = Read + 1 /\ rt'.stream = s
      /\ srv' = srv /\ ch # << >> /\ down'[s] = Tail(ch)
  BY DEF Hears, HearsAt
<1>2. /\ ch \in Seq(DownMessages) /\ Len(ch) \in Nat /\ Read \in 0 .. 2 /\ Shaped(ch, Read)
  BY <1>1, InAttempt DEF ShapeInv
<1>3. Read' \in 0 .. 2
  BY DEF Read
<1>4. c \in 2 .. 3 /\ 3 - Read' = c - 1 /\ 3 - Read = c /\ Read + c = 3
  BY <1>1, <1>2, <1>3
<1>5. Len(Tail(ch)) = Len(ch) - 1
  BY <1>1, <1>2, Tailed
<1>6. seq \in Nat /\ total \in Nat /\ all \in BOOLEAN
  BY Numbers DEF NumberTypes
<1>7. Len(ch) >= c => Missed(ch, c, seq, total, all)
  BY <1>1 DEF CatchupInv
<1>8. ASSUME Len(ch) >= c PROVE ch[c].frames \in Seq(R!Frames) /\ Len(ch[c].frames) \in Nat
  <2>1. c \in 1 .. Len(ch)
    BY <1>2, <1>4, <1>8
  <2>2. ch[c].type = Due(Read + c) /\ ch[c] \in DownMessages
    BY <1>2, <2>1, Member DEF Shaped
  <2>3. ch[c].type = "catchup"
    BY <1>4, <2>2 DEF Due
  <2> HIDE DEF ch, c
  <2>4. ch[c].frames \in Seq(R!Frames)
    BY <2>2, <2>3, MessageTypes
  <2> QED BY <2>4
<1>9. Len(Tail(ch)) >= c - 1 => Missed(Tail(ch), c - 1, seq, total, all)
  <2> HIDE DEF ch, c, seq, total, all, s
  <2>1. Len(Tail(ch)) >= c - 1 => Len(ch) >= c
    BY <1>2, <1>4, <1>5
  <2> QED BY <1>1, <1>2, <1>4, <1>6, <1>7, <1>8, <2>1, MissedTail
<1>10. Len(down'[rt'.stream]) >= 3 - Read' =>
           Missed(down'[rt'.stream], 3 - Read', seq, Len(srv'.log), srv'.sock = rt'.stream)
  BY <1>1, <1>4, <1>9
<1> QED BY <1>10, CatchupFrom

\* The server's answer to the SequenceHeader.
LEMMA CatchupAnswered ==
    ASSUME ServerBelowWrap, BaseInv, R!TypeOK, ShapeInv, DownInv, Handshaking,
           ServerSequence, rt.stream = srv.sock
    PROVE  CatchupInv'
<1> DEFINE s == rt.stream
           ch == down[s]
           n == up[s][1].n
           frames == LogAfter(n)
           m == CatchupMessage(frames)
           total == Len(srv.log)
           seq == r_sequence_number
<1>1. /\ srv.phase = "seq" /\ srv' = [srv EXCEPT !.phase = "catchup"] /\ AnsweredBy(<<m>>)
      /\ n \in 0 .. total /\ up[s][1].type = "seq" /\ up[s] # << >>
  BY SequenceEffect DEF TakenByServer
<1>2. /\ NetTypes /\ s \in Streams /\ ch \in Seq(DownMessages) /\ Len(ch) \in Nat
      /\ Read \in 0 .. 2 /\ Read + Len(ch) = 2 /\ UNCHANGED <<rt, r_sequence_number>>
  BY <1>1, InAttempt DEF ShapeInv, Stage, BaseInv, ServerSequence, reader
<1>3. srv'.sock = s /\ srv'.log = srv.log
  BY <1>1, <1>2 DEF NetTypes
<1>4. seq \in Nat /\ total \in Nat /\ seq =< total /\ total =< MaxDown
  <2>1. seq \in Nat /\ total \in Nat /\ seq =< total
    BY Numbers DEF NumberTypes, DownInv, ReadInv
  <2>2. total = 0 \/ total \in ServerPackets
    BY <2>1, InLog DEF DownInv
  <2> QED BY <2>1, <2>2, BoundsAssumption DEF ServerPackets
<1>5. n = seq
  <2>1. up[s] \in Seq(UpMessages) /\ 1 \in 1 .. Len(up[s])
    BY <1>1, <1>2, Tailed DEF NetTypes
  <2>2. n = AsI32(seq)
    BY <1>1, <2>1 DEF DownInv, AskInv
  <2>3. AsI32(seq) = seq \/ AsI32(seq) =< seq - 2 * I32_LIMIT
    BY <1>4, Wrapped
  <2>4. seq < 2 * I32_LIMIT /\ I32_LIMIT \in Nat /\ MaxDown \in Nat /\ n >= 0 /\ n \in Nat
    BY <1>1, <1>4, BoundsAssumption, SMTT(30) DEF ServerBelowWrap
  <2> HIDE DEF n, seq
  <2> QED BY <1>4, <2>2, <2>3, <2>4
<1>6. m \in DownMessages /\ m.frames = frames
  BY <1>1, <1>2, ServerMessages DEF CatchupMessage, LogAfter
<1>7. /\ Len(frames) = total - seq
      /\ \A i \in 1 .. Len(frames) : frames[i] = Frame(seq + i)
  <2>1. /\ Len(frames) = total - n
        /\ \A i \in 1 .. total - n : frames[i] = ServerFrame(n + i)
    BY <1>1, <1>4 DEF LogAfter
  <2>2. ASSUME NEW i \in 1 .. total - n PROVE ServerFrame(n + i) = Frame(n + i)
    <3>1. n + i \in 1 .. total
      BY <1>1, <1>4
    <3> QED BY <3>1 DEF DownInv, LogInv, ServerFrame, Frame
  <2> HIDE DEF n, frames, total, seq
  <2> QED BY <1>5, <2>1, <2>2
<1> HIDE DEF frames
<1> DEFINE q == ch \o <<m>>
<1>8. down'[s] = q
  <2>1. <<m>> \in Seq(DownMessages)
    BY <1>6
  <2> HIDE DEF m
  <2> QED BY <1>1, <1>2, <2>1, AddedTo
<1>9. Len(q) = Len(ch) + 1 /\ q[Len(ch) + 1] = m
  <2> HIDE DEF m, ch
  <2> QED BY <1>2, <1>6
<1>10. 3 - Read' = Len(ch) + 1 /\ 3 - Read = Len(ch) + 1
  <2>1. Read' = Read
    BY <1>2 DEF Read
  <2> HIDE DEF ch
  <2> QED BY <1>2, <2>1
<1>11. Carries(q, (Len(ch) + 1) + 1, 2 * (seq + Len(frames)), total, TRUE)
  <2> HIDE DEF q, ch, total, seq
  <2>1. seq + Len(frames) = total
    BY <1>4, <1>7
  <2>2. Flow(q, (Len(ch) + 1) + 1, 2 * (seq + Len(frames)))
    BY <1>2, <1>9 DEF Flow
  <2>3. Reach(q, (Len(ch) + 1) + 1, 2 * (seq + Len(frames))) = 2 * total
    <3>1. 2 * (seq + Len(frames)) = 2 * total
      BY <2>1
    <3>2. 2 * total + (Len(q) + 1 - ((Len(ch) + 1) + 1)) = 2 * total
      BY <1>2, <1>4, <1>9
    <3> QED BY <3>1, <3>2 DEF Reach
  <2>4. 2 * total =< 2 * total
    BY <1>4
  <2> QED BY <2>2, <2>3, <2>4 DEF Carries
<1>12. Missed(q, Len(ch) + 1, seq, total, TRUE)
  <2> HIDE DEF q, ch, total, seq
  <2>1. q[Len(ch) + 1].frames = frames
    BY <1>6, <1>9
  <2> QED BY <1>7, <1>11, <2>1 DEF Missed
<1>13. Missed(down'[rt'.stream], 3 - Read', seq, Len(srv'.log), srv'.sock = rt'.stream)
  <2> HIDE DEF q, ch, seq
  <2>1. srv'.sock = rt'.stream /\ rt'.stream = s /\ Len(srv'.log) = total
    BY <1>2, <1>3
  <2>2. Missed(q, 3 - Read', seq, total, TRUE)
    BY <1>10, <1>12
  <2>3. Missed(q, 3 - Read', seq, total, srv'.sock = rt'.stream)
    BY <2>1, <2>2 DEF Missed, Carries
  <2> QED BY <1>8, <2>1, <2>3
<1> QED BY <1>2, <1>13, CatchupFrom

\* What the server sends once it has answered goes behind the catch-up.
LEMMA MissedMore ==
    ASSUME NEW ch \in Seq(DownMessages), NEW c \in 1 .. 3, c =< Len(ch),
           NEW seq \in Nat, NEW total \in Nat, Len(ch[c].frames) \in Nat,
           Missed(ch, c, seq, total, TRUE),
           NEW m1 \in DownMessages, NEW m2 \in DownMessages,
           m1.piece = StreamPiece(2 * total + 1), m2.piece = StreamPiece(2 * total + 2)
    PROVE  Missed(ch \o <<m1, m2>>, c, seq, total + 1, TRUE)
<1> DEFINE q == ch \o <<m1, m2>>
           frames == ch[c].frames
           n == 2 * (seq + Len(frames))
<1>1. q[c] = ch[c]
  OBVIOUS
<1>2. /\ \A i \in 1 .. Len(frames) : frames[i] = Frame(seq + i)
      /\ Carries(ch, c + 1, n, total, TRUE)
  BY DEF Missed
<1>3. n \in Nat
  <2>1. Len(frames) \in Nat
    OBVIOUS
  <2> HIDE DEF frames
  <2> QED BY <2>1
<1>4. Carries(q, c + 1, n, total + 1, TRUE)
  <2> DEFINE from == c + 1
  <2> HIDE DEF n
  <2>0. Len(ch) \in Nat
    OBVIOUS
  <2>1. from \in 1 .. 4 /\ from =< Len(ch) + 1
    BY <2>0
  <2>2. Carries(ch, from, n, total, TRUE)
    BY <1>2
  <2> HIDE DEF from
  <2> QED BY <1>3, <2>1, <2>2, CarriesMore DEF from
<1> HIDE DEF n, frames, q
<1>5. q[c].frames = frames
  BY <1>1 DEF frames
<1> QED BY <1>2, <1>4, <1>5 DEF Missed, n, q

\* The message the thread waits for at the end of its attempt.
LEMMA CatchupDue ==
    ASSUME BaseInv, ShapeInv, Handshaking, Len(down[rt.stream]) >= 3 - Read
    PROVE  /\ 3 - Read \in 1 .. 3
           /\ down[rt.stream][3 - Read].frames \in Seq(R!Frames)
           /\ Len(down[rt.stream][3 - Read].frames) \in Nat
<1> DEFINE ch == down[rt.stream]
           c == 3 - Read
<1>1. /\ ch \in Seq(DownMessages) /\ Len(ch) \in Nat /\ Read \in 0 .. 2 /\ Shaped(ch, Read)
  BY InAttempt DEF ShapeInv
<1>2. c \in 1 .. 3 /\ c \in 1 .. Len(ch) /\ Read + c = 3
  BY <1>1
<1>3. ch[c].type = Due(Read + c) /\ ch[c] \in DownMessages
  BY <1>1, <1>2, Member DEF Shaped
<1>4. ch[c].type = "catchup"
  BY <1>2, <1>3 DEF Due
<1> HIDE DEF ch, c
<1>5. ch[c].frames \in Seq(R!Frames)
  BY <1>3, <1>4, MessageTypes
<1>6. Len(ch[c].frames) \in Nat
  BY <1>5
<1> QED BY <1>2, <1>5, <1>6 DEF ch, c

LEMMA CatchupSent ==
    ASSUME BaseInv, R!TypeOK, ShapeInv, CatchupInv, Handshaking, ServerSend
    PROVE  CatchupInv'
<1> DEFINE s == rt.stream
           ch == down[s]
           c == 3 - Read
           total == Len(srv.log)
           seq == r_sequence_number
           all == srv.sock = s
<1>1. PICK m1, m2 \in DownMessages :
         /\ AnsweredBy(<<m1, m2>>)
         /\ m1.piece = StreamPiece(2 * total + 1) /\ m2.piece = StreamPiece(2 * total + 2)
         /\ srv.phase # "seq"
         /\ srv'.sock = srv.sock /\ Len(srv'.log) = total + 1 /\ total \in Nat
  BY NextPieces
<1>2. /\ s \in Streams /\ ch \in Seq(DownMessages) /\ Len(ch) \in Nat /\ Read \in 0 .. 2
      /\ UNCHANGED <<rt, r_sequence_number>>
  BY InAttempt DEF ServerSend, reader
<1>3. Read' = Read /\ rt'.stream = s
  BY <1>2 DEF Read
<1>4. seq \in Nat /\ all \in BOOLEAN
  BY Numbers DEF NumberTypes
<1>5. Len(ch) >= c => Missed(ch, c, seq, total, all)
  BY DEF CatchupInv
<1>6. Len(ch) >= c => c \in 1 .. 3 /\ Len(ch[c].frames) \in Nat
  BY CatchupDue
<1>7. all => Len(ch) >= c
  <2>1. all => Read + Len(ch) >= 3
    BY <1>1 DEF ShapeInv, Stage
  <2> HIDE DEF ch
  <2> QED BY <1>2, <2>1
<1>8. /\ all => down'[s] = ch \o <<m1, m2>>
      /\ ~all => down'[s] = ch
  <2> DEFINE ms == <<m1, m2>>
  <2>1. ms \in Seq(DownMessages) /\ AnsweredBy(ms)
    BY <1>1
  <2> HIDE DEF ms
  <2>2. /\ all => down'[s] = ch \o ms
        /\ ~all => down'[s] = ch
    BY <1>2, <2>1, AddedTo
  <2> QED BY <2>2 DEF ms
<1>9. Len(down'[s]) >= c => Missed(down'[s], c, seq, total + 1, all)
  <2> HIDE DEF ch, c, seq, total, all, s
  <2>1. CASE all
    <3>1. Missed(ch, c, seq, total, TRUE)
      BY <1>5, <1>7, <2>1 DEF Missed, Carries
    <3>2. c \in 1 .. 3 /\ c =< Len(ch) /\ Len(ch[c].frames) \in Nat
      BY <1>2, <1>6, <1>7, <2>1
    <3>3. m1.piece = StreamPiece(2 * total + 1) /\ m2.piece = StreamPiece(2 * total + 2)
          /\ total \in Nat
      BY <1>1
    <3>4. Missed(ch \o <<m1, m2>>, c, seq, total + 1, TRUE)
      BY <1>2, <1>4, <3>1, <3>2, <3>3, MissedMore
    <3>5. Missed(ch \o <<m1, m2>>, c, seq, total + 1, all)
      BY <2>1, <3>4 DEF Missed, Carries
    <3> QED BY <1>8, <2>1, <3>5
  <2>2. CASE ~all
    <3>1. down'[s] = ch
      BY <1>8, <2>2
    <3>2. ASSUME Len(ch) >= c PROVE Missed(ch, c, seq, total + 1, all)
      <4> DEFINE frames == ch[c].frames
                 n == 2 * (seq + Len(frames))
                 from == c + 1
      <4>1. /\ \A i \in 1 .. Len(frames) : frames[i] = Frame(seq + i)
            /\ Carries(ch, from, n, total, all)
        BY <1>5, <3>2 DEF Missed
      <4>2. Len(frames) \in Nat /\ from \in 1 .. 4
        BY <1>6, <3>2
      <4> HIDE DEF frames, from
      <4>3. n \in Nat /\ total \in Nat
        BY <1>1, <1>4, <4>2
      <4> HIDE DEF n
      <4>4. Carries(ch, from, n, total + 1, FALSE)
        BY <1>2, <1>4, <4>1, <4>2, <4>3, CarriesOn
      <4>5. Carries(ch, from, n, total + 1, all)
        BY <2>2, <4>4 DEF Carries
      <4> QED BY <4>1, <4>5 DEF Missed, n, frames, from
    <3> QED BY <3>1, <3>2
  <2> QED BY <2>1, <2>2
<1>10. Len(down'[rt'.stream]) >= 3 - Read' =>
           Missed(down'[rt'.stream], 3 - Read', seq, Len(srv'.log), srv'.sock = rt'.stream)
  BY <1>1, <1>3, <1>9
<1> QED BY <1>2, <1>10, CatchupFrom

LEMMA StepCatchup ==
    ASSUME ServerBelowWrap, BaseInv, R!TypeOK, NotYetRevived, ShapeInv, DownInv, [Next]_vars
    PROVE  CatchupInv'
<1> SUFFICES ASSUME Handshaking' PROVE CatchupInv'
  BY DEF CatchupInv
<1>0. NetTypes /\ CatchupInv
  BY DEF BaseInv, DownInv
<1>1. CASE Begins
  <2>1. Read' = 0 /\ Len(down'[rt'.stream]) = 0
    BY <1>1 DEF Begins
  <2>2. ~(Len(down'[rt'.stream]) >= 3 - Read')
    BY <2>1
  <2> QED BY <2>2 DEF CatchupInv
<1>2. CASE Dial
  <2>1. rt.pc = "loop" /\ ReconnectNext
    BY <1>2 DEF Dial, ReconnectNext
  <2>2. Begins
    BY <2>1, ReconnectDown DEF NoAttempt, Says, Hears, Revives, Handshaking
  <2> QED BY <1>1, <2>2
<1> SUFFICES ASSUME ~Dial, ~Begins PROVE CatchupInv'
  BY <1>1, <1>2
<1>3. Handshaking /\ rt'.stream = rt.stream /\ UNCHANGED r_sequence_number
  BY AttemptStep
<1>4. rt.stream \in Streams /\ r_socket = NoStream /\ r_socket \notin Streams
  BY <1>3, InAttempt, NoStreamAssumption
<1>5. CASE SessionNext
  <2>1. rt' = rt /\ srv' = srv /\ down' = down
    BY <1>4, <1>5, SessionDown DEF SessionStep, NoAttempt
  <2>2. Read' = Read
    BY <2>1 DEF Read
  <2> QED BY <1>0, <1>3, <2>1, <2>2, CatchupKept
<1>6. CASE ReconnectNext
  <2>1. CASE Says
    BY <1>0, <1>3, <2>1, CatchupKept DEF Says
  <2> QED BY <1>0, <1>3, <1>6, <2>1, ReconnectDown, CatchupHeard DEF NoAttempt, Revives
<1>7. CASE ServerSend
  BY <1>0, <1>3, <1>7, CatchupSent
<1>8. CASE (ServerNext \/ (\E s \in Streams : Break(s)) \/ UNCHANGED vars) /\ ~ServerSend
  <2>1. rt' = rt
    BY <1>8 DEF ServerNext, ServerRequest, ServerRefuse, ServerSequence, ServerCatchup,
                ServerReceive, ServerNotices, ServerEnds, Break, vars
  <2>2. Read' = Read
    BY <2>1 DEF Read
  <2>3. CASE Silent
    <3>1. srv'.sock = rt.stream => srv.sock = rt.stream
      BY <1>4, <2>3, NoStreamAssumption DEF Silent
    <3> QED BY <1>0, <1>3, <2>2, <2>3, <3>1, CatchupKept DEF Silent
  <2>4. ASSUME NEW s \in Streams, Replies(s) PROVE CatchupInv'
    <3>1. CASE s = rt.stream
      <4>1. rt.pc = "response" /\ Read = 0 /\ ClientHolds(s)
        BY <1>4, <2>4, <3>1, NoStreamAssumption DEF Replies, Read, ClientHolds
      <4>2. Len(down'[s]) =< 2
        <5>1. CASE \E status : Answered(s, <<Response(status)>>)
          <6>1. PICK status : down'[s] = <<Response(status)>>
            BY <4>1, <5>1 DEF Answered
          <6>2. Len(down'[s]) = 1
            BY <6>1
          <6> QED BY <6>2
        <5>2. CASE Answered(s, <<Response("ReturningClient"), SeqMessage(AsI32(srv.seq))>>)
          <6>1. down'[s] = <<Response("ReturningClient"), SeqMessage(AsI32(srv.seq))>>
            BY <4>1, <5>2 DEF Answered
          <6>2. Len(down'[s]) = 2
            BY <6>1
          <6> QED BY <6>2
        <5> QED BY <2>4, <5>1, <5>2 DEF Replies
      <4>3. down'[s] \in Seq(DownMessages)
        BY <2>4 DEF Replies, Answered
      <4>4. Len(down'[s]) \in Nat
        BY <4>3
      <4>5. ~(Len(down'[rt'.stream]) >= 3 - Read')
        BY <1>3, <2>2, <3>1, <4>1, <4>2, <4>4
      <4> QED BY <4>5 DEF CatchupInv
    <3>2. CASE s # rt.stream
      <4>1. down'[rt.stream] = down[rt.stream] /\ srv'.log = srv.log
        BY <1>4, <2>4, <3>2 DEF Replies, Answered
      <4>2. srv'.sock = srv.sock \/ srv'.sock = s
        BY <1>0, <2>4 DEF Replies, NetTypes
      <4> QED BY <1>0, <1>3, <2>2, <3>2, <4>1, <4>2, CatchupKept
    <3> QED BY <3>1, <3>2
  <2>5. CASE ServerSequence /\ rt.stream = srv.sock
    BY <1>3, <2>5, CatchupAnswered
  <2>6. CASE ServerSequence /\ rt.stream # srv.sock
    <3> DEFINE m == CatchupMessage(LogAfter(up[srv.sock][1].n))
    <3>1. /\ srv' = [srv EXCEPT !.phase = "catchup"] /\ AnsweredBy(<<m>>)
          /\ up[srv.sock][1].n \in 0 .. Len(srv.log)
      BY <2>6, SequenceEffect
    <3>2. m \in DownMessages
      BY <1>0, <3>1, ServerMessages DEF CatchupMessage, LogAfter
    <3> HIDE DEF m
    <3>3. srv'.sock = srv.sock /\ srv'.log = srv.log /\ <<m>> \in Seq(DownMessages)
      BY <1>0, <3>1, <3>2 DEF NetTypes
    <3>4. down'[rt.stream] = down[rt.stream]
      BY <1>4, <2>6, <3>1, <3>3, AddedTo
    <3> QED BY <1>0, <1>3, <2>2, <3>3, <3>4, CatchupKept
  <2> QED BY <1>8, <2>3, <2>4, <2>5, <2>6, ServerDown
<1> QED BY <1>5, <1>6, <1>7, <1>8 DEF Next

-----------------------------------------------------------------------------
(* The pipe. *)

LEMMA InitDown == Init => DownInv
<1> SUFFICES ASSUME Init PROVE DownInv
  OBVIOUS
<1>1. /\ r_socket \in Streams /\ r_sequence_number = 0 /\ r_nonce = 0 /\ r_partial = << >>
      /\ r_local_buffer = << >> /\ r_delivered = << >> /\ rt.pc = "none"
      /\ down = [s \in Streams |-> << >>] /\ srv.log = << >>
  BY DEF Init, Thread, R!Init
<1>2. ~Handshaking
  BY <1>1 DEF Handshaking
<1>3. /\ Len(r_partial) = 0 /\ Len(r_local_buffer) = 0 /\ Len(r_delivered) = 0
      /\ Len(srv.log) = 0 /\ Len(down[r_socket]) = 0
  BY <1>1
<1>4. LogInv /\ ReadInv
  BY <1>1, <1>3 DEF LogInv, ReadInv
<1>5. Wired(down[r_socket], r_partial, 0, 0, srv.sock = r_socket)
  <2>1. Flow(down[r_socket], 1, 2 * 0 + Len(r_partial))
    BY <1>3 DEF Flow
  <2>2. Reach(down[r_socket], 1, 2 * 0 + Len(r_partial)) = 0
    BY <1>3 DEF Reach
  <2>3. Carries(down[r_socket], 1, 2 * 0 + Len(r_partial), 0, srv.sock = r_socket)
    BY <2>1, <2>2 DEF Carries
  <2> QED BY <1>3, <2>3 DEF Wired
<1>6. WireInv
  BY <1>1, <1>3, <1>5 DEF WireInv
<1> QED BY <1>2, <1>4, <1>6 DEF DownInv, AskInv, CatchupInv

LEMMA StepDown ==
    ASSUME ServerBelowWrap, BaseInv, R!TypeOK, NotYetRevived, ShapeInv, DownInv, [Next]_vars
    PROVE  DownInv'
BY LogGrows, StepRead, StepWire, StepAsk, StepCatchup DEF DownInv

LEMMA StepPipe ==
    ASSUME BaseInv, R!TypeOK, ShapeInv, DownInv, [Next]_vars
    PROVE  [Pipe!Next]_<<srv.log, r_delivered>>
<1>1. NumberTypes /\ Len(r_delivered) = r_nonce
  BY Numbers DEF DownInv, ReadInv
<1>2. CASE ServerSend /\ srv'.log = Append(srv.log, Len(srv.log) + 1)
  <2>1. Len(srv.log) + 1 \in ServerPackets /\ r_delivered' = r_delivered
    BY <1>2, SendEffect DEF ServerSend, reader
  <2> QED BY <1>2, <2>1 DEF Pipe!Next, Pipe!Send
<1>3. ASSUME srv'.log = srv.log, r_nonce < Len(srv.log),
             r_delivered' = Append(r_delivered, r_nonce + 1)
      PROVE  Pipe!Deliver
  <2>1. r_nonce + 1 \in 1 .. Len(srv.log)
    BY <1>1, <1>3 DEF NumberTypes
  <2>2. srv.log[r_nonce + 1] = r_nonce + 1
    BY <2>1 DEF DownInv, LogInv
  <2> QED BY <1>1, <1>3, <2>2 DEF Pipe!Deliver
<1>4. CASE srv'.log = srv.log
  <2>1. CASE ReadFrame
    <3>1. r_socket \in Streams /\ main.pc # "join"
      BY <1>1, <2>1 DEF ReadFrame, NumberTypes, Ends
    <3>2. PICK n \in 0 .. Len(down[r_socket]) : R!ReadFrame(Pieces(n))
      BY <2>1 DEF ReadFrame
    <3>3. r_nonce < Len(srv.log) /\ r_delivered' = Append(r_delivered, r_nonce + 1)
      BY <3>1, <3>2, FrameDelivers DEF DownInv
    <3> QED BY <1>3, <1>4, <3>3 DEF Pipe!Next
  <2>2. CASE R!ReadBuffered
    <3>1. r_nonce < Len(srv.log) /\ r_delivered' = Append(r_delivered, r_nonce + 1)
      BY <2>2, BufferedDelivers DEF DownInv
    <3> QED BY <1>3, <1>4, <3>1 DEF Pipe!Next
  <2>3. CASE r_delivered' = r_delivered
    BY <1>4, <2>3
  <2> QED BY <2>1, <2>2, <2>3, ReaderStep DEF ReviveReader, R!Revive
<1> QED BY <1>2, <1>4, LogStep

\* Through every reconnect, and whatever the connections lose or cut short, the
\* session loop is handed what the server sent, in order and each packet once:
\* revive(), read() and the sequence number the thread names add up.  That is so
\* for a server that sends fewer than 2^32 packets: beyond, `local_seq as i32'
\* names another number than the reader's, the server resends from there, and
\* what holds the frames back is no longer the count but the nonce alone.
THEOREM PipeTheorem == ServerBelowWrap => (Spec => ImplementsEternalPipe)
<1> SUFFICES ASSUME ServerBelowWrap PROVE Spec => ImplementsEternalPipe
  OBVIOUS
<1>1. Init => Pipe!Init
  BY DEF Init, R!Init, Pipe!Init
<1>2. BaseInv /\ NotYetRevived /\ ShapeInv /\ R!TypeOK /\ DownInv /\ [Next]_vars
         => DownInv' /\ [Pipe!Next]_<<srv.log, r_delivered>>
  BY StepDown, StepPipe
<1> QED BY <1>1, <1>2, InitDown, ShapeAlways, PTL DEF Spec, ImplementsEternalPipe, Pipe!Spec
=============================================================================
