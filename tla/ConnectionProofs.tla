-------------------------- MODULE ConnectionProofs --------------------------
(***************************************************************************)
(* Connection implements Link, for any number of packets, connections and  *)
(* failures: whatever the session loop, the reconnect thread and the       *)
(* server do, the two flags and the thread change as Link allows.          *)
(*                                                                         *)
(* Then what every proof about its packets rests on: the types of the      *)
(* messages under way, which connection each party holds, the writer's     *)
(* half as BackedWriter specifies it, and what each step does to the       *)
(* conversation of a handshake.                                            *)
(***************************************************************************)
EXTENDS Connection, TLAPS

AtWork == rt.pc \notin {"none", "done"}

IsThread(t) == t = [pc |-> t.pc, stream |-> t.stream, sample |-> t.sample,
                    remote |-> t.remote, upto |-> t.upto]

\* What the refinement rests on.  While a thread is at work the link is down:
\* it is joined before the flag is looked at, and sets the flag as it leaves.
\* shutdown() sets its flag before it waits.
LinkInv ==
    /\ IsThread(rt)
    /\ main = [pc |-> main.pc, then |-> main.then]
    /\ socket_alive \in BOOLEAN /\ shutting_down \in BOOLEAN
    /\ AtWork => ~socket_alive
    /\ main.pc = "sd_join" => shutting_down
    /\ main.pc = "join" => main.then \in {"idle", "check"}
    /\ SomeoneReconnects

LEMMA InitLinkInv == Init => LinkInv /\ L!Init
<1> SUFFICES ASSUME Init PROVE LinkInv /\ L!Init
  OBVIOUS
<1>1. main = [pc |-> "idle", then |-> "idle"] /\ rt = Thread("none")
  BY DEF Init
<1>2. socket_alive = TRUE /\ shutting_down = FALSE
  BY DEF Init
<1>3. IsThread(rt)
  BY <1>1 DEF IsThread, Thread
<1>4. main.pc = "idle" /\ main = [pc |-> main.pc, then |-> main.then]
  BY <1>1
<1>5. ~AtWork
  BY <1>1 DEF AtWork, Thread
<1>6. L!Init
  BY <1>1, <1>2 DEF L!Init, Joinable, Thread
<1> QED BY <1>2, <1>3, <1>4, <1>5, <1>6 DEF LinkInv, SomeoneReconnects

-----------------------------------------------------------------------------
(* Steps that change neither the flags nor whether a thread is at work.    *)

\* The session loop moves on, within the session or into a call that waits.
LEMMA MainMoves ==
    ASSUME LinkInv, UNCHANGED <<rt, flags>>,
           \/ UNCHANGED main
           \/ InSession /\ \E p \in {"idle", "check", "write"} : Goto(p)
           \/ \E t \in {"idle", "check"} : CallClose(t)
    PROVE  LinkInv' /\ UNCHANGED L!link
<1>1. UNCHANGED L!link
  BY DEF flags, L!link, Joinable
<1>2. /\ main' = [pc |-> main'.pc, then |-> main'.then]
      /\ main'.pc = "sd_join" => main.pc = "sd_join"
      /\ main'.pc = "join" => main'.then \in {"idle", "check"}
      /\ InSession' => InSession
  BY DEF LinkInv, Goto, CallClose, InSession
<1>3. SomeoneReconnects'
  BY <1>2 DEF LinkInv, SomeoneReconnects, flags
<1> QED BY <1>1, <1>2, <1>3 DEF LinkInv, IsThread, AtWork, flags

\* The thread moves on with its attempt, or to the next one.
LEMMA ThreadMoves ==
    ASSUME LinkInv, AtWork, AtWork', IsThread(rt)', UNCHANGED <<main, flags>>
    PROVE  LinkInv' /\ UNCHANGED L!link
<1>1. UNCHANGED L!link
  BY DEF AtWork, flags, L!link, Joinable
<1> QED BY <1>1 DEF LinkInv, IsThread, AtWork, SomeoneReconnects, InSession, flags

LEMMA SessionMoves ==
    ASSUME LinkInv,
           \/ WritePacket \/ WriteCheck \/ WriteTurnedAway \/ WriteKept
           \/ WriteSent \/ WriteFailed \/ ReadWithoutSocket \/ ReadFrame
           \/ ReadPartial \/ ReadClosed \/ ForceReconnect \/ Stopped
    PROVE  LinkInv' /\ UNCHANGED L!link
<1>1. UNCHANGED <<rt, flags>>
  BY DEF WritePacket, WriteCheck, WriteTurnedAway, WriteKept, WriteSent, WriteFailed,
         ReadWithoutSocket, ReadFrame, ReadPartial, ReadClosed, ForceReconnect, Stopped, vars
<1>2. \/ UNCHANGED main
      \/ InSession /\ \E p \in {"idle", "check", "write"} : Goto(p)
      \/ \E t \in {"idle", "check"} : CallClose(t)
  <2>1. CASE \/ WritePacket \/ WriteCheck \/ WriteTurnedAway \/ WriteKept \/ WriteSent
    BY <2>1 DEF WritePacket, WriteCheck, WriteTurnedAway, WriteKept, WriteSent, InSession
  <2>2. CASE WriteFailed \/ ReadClosed \/ ForceReconnect
    BY <2>2 DEF WriteFailed, ReadClosed, ForceReconnect
  <2>3. CASE ReadWithoutSocket \/ ReadFrame
    BY <2>3 DEF ReadWithoutSocket, ReadFrame
  <2>4. CASE ReadPartial \/ Stopped
    BY <2>4 DEF ReadPartial, Stopped, vars
  <2> QED BY <2>1, <2>2, <2>3, <2>4
<1> QED BY <1>1, <1>2, MainMoves

LEMMA ServerMoves ==
    ASSUME LinkInv, ServerNext \/ \E s \in Streams : Break(s)
    PROVE  LinkInv' /\ UNCHANGED L!link
<1>1. UNCHANGED <<main, rt, flags>>
  BY DEF ServerNext, ServerRequest, ServerRefuse, ServerSequence, ServerCatchup,
         ServerReceive, ServerNotices, ServerSend, ServerEnds, Break
<1> QED BY <1>1, MainMoves

LEMMA AttemptMoves ==
    ASSUME LinkInv,
           \/ Dial \/ SendSequence \/ AwaitSequence \/ Recover \/ ReviveReader
           \/ ReviveWriter \/ AttemptBroken \/ AttemptTimesOut
    PROVE  LinkInv' /\ UNCHANGED L!link
<1>1. UNCHANGED <<main, flags>>
  BY DEF Dial, SendSequence, AwaitSequence, Recover, ReviveReader, ReviveWriter,
         AttemptBroken, AttemptTimesOut
<1>2. AtWork
  BY DEF Dial, SendSequence, AwaitSequence, Recover, ReviveReader, ReviveWriter,
         AttemptBroken, AttemptTimesOut, Handshaking, AtWork
<1>3. AtWork' /\ IsThread(rt)'
  <2>1. CASE Dial \/ SendSequence \/ AwaitSequence
    BY <2>1 DEF Dial, SendSequence, AwaitSequence, LinkInv, IsThread, AtWork
  <2>2. CASE Recover
    <3>1. \/ rt' = [rt EXCEPT !.pc = "catchup", !.upto = w_sequence_number]
          \/ rt' = Thread("loop")
      BY <2>2 DEF Recover, AttemptOver
    <3>2. CASE rt' = Thread("loop")
      BY <3>2 DEF Thread, IsThread, AtWork
    <3>3. CASE rt' = [rt EXCEPT !.pc = "catchup", !.upto = w_sequence_number]
      BY <3>3 DEF LinkInv, IsThread, AtWork
    <3> QED BY <3>1, <3>2, <3>3
  <2>3. CASE ReviveReader \/ ReviveWriter
    BY <2>3 DEF ReviveReader, ReviveWriter, LinkInv, IsThread, AtWork
  <2>4. CASE AttemptBroken \/ AttemptTimesOut
    BY <2>4 DEF AttemptBroken, AttemptTimesOut, AttemptOver, Thread, IsThread, AtWork
  <2> QED BY <2>1, <2>2, <2>3, <2>4
<1> QED BY <1>1, <1>2, <1>3, ThreadMoves

-----------------------------------------------------------------------------
(* Steps that Link has an action for.                                      *)

LEMMA LeaveLink ==
    ASSUME LinkInv, Leave
    PROVE  LinkInv' /\ L!GiveUp
<1>1. AtWork /\ rt' = Thread("done") /\ UNCHANGED <<main, flags>> /\ shutting_down
  BY DEF LinkInv, Leave, AtWork
<1>2. LinkInv'
  BY <1>1 DEF LinkInv, IsThread, Thread, AtWork, SomeoneReconnects, flags
<1> QED BY <1>1, <1>2 DEF L!GiveUp, Joinable, Thread, AtWork, flags

LEMMA AnnounceLink ==
    ASSUME LinkInv, Announce
    PROVE  LinkInv' /\ L!Reconnect
<1>1. /\ AtWork /\ ~socket_alive
      /\ rt' = Thread("done") /\ socket_alive' = TRUE
      /\ UNCHANGED <<main, shutting_down>>
  BY DEF LinkInv, Announce, AtWork
<1>2. LinkInv'
  BY <1>1 DEF LinkInv, IsThread, Thread, AtWork, SomeoneReconnects, InSession
<1> QED BY <1>1, <1>2 DEF L!Reconnect, Joinable, Thread, AtWork

LEMMA ResponseLink ==
    ASSUME LinkInv, AwaitResponse
    PROVE  LinkInv' /\ [L!Next]_(L!link)
<1>1. AtWork /\ UNCHANGED <<main, socket_alive>>
  BY DEF AwaitResponse, AtWork
<1>2. CASE shutting_down' = TRUE /\ rt' = Thread("done")
  <2>1. LinkInv'
    BY <1>1, <1>2 DEF LinkInv, IsThread, Thread, AtWork, SomeoneReconnects
  <2>2. L!Refuse
    BY <1>1, <1>2 DEF L!Refuse, Joinable, Thread, AtWork
  <2> QED BY <2>1, <2>2 DEF L!Next
<1>3. CASE UNCHANGED shutting_down /\ (rt' = [rt EXCEPT !.pc = "sample"] \/ rt' = Thread("loop"))
  <2>1. AtWork' /\ IsThread(rt)'
    BY <1>3 DEF LinkInv, IsThread, Thread, AtWork
  <2> QED BY <1>1, <1>3, <2>1, ThreadMoves DEF flags
<1> QED BY <1>2, <1>3 DEF AwaitResponse, AttemptOver

LEMMA CloseLink ==
    ASSUME LinkInv, CloseAndMaybeReconnect
    PROVE  LinkInv' /\ L!Close
<1>1. /\ main.pc = "join" /\ Joinable
      /\ socket_alive' = FALSE /\ UNCHANGED shutting_down
      /\ rt' = Thread(IF shutting_down THEN "none" ELSE "loop")
      /\ main' = [main EXCEPT !.pc = main.then]
  BY DEF CloseAndMaybeReconnect, Goto
<1>2. LinkInv'
  BY <1>1 DEF LinkInv, IsThread, Thread, AtWork, SomeoneReconnects, InSession
<1> QED BY <1>1, <1>2 DEF LinkInv, L!Close, L!Idle, Joinable, Thread

LEMMA ShutdownLink ==
    ASSUME LinkInv, Shutdown
    PROVE  LinkInv' /\ L!BeginShutdown
<1>1. /\ shutting_down' = TRUE /\ UNCHANGED <<socket_alive, rt>>
      /\ main' = [main EXCEPT !.pc = "sd_join"]
  BY DEF Shutdown, Goto
<1>2. LinkInv'
  BY <1>1 DEF LinkInv, IsThread, AtWork, SomeoneReconnects
<1> QED BY <1>1, <1>2 DEF L!BeginShutdown, Joinable

LEMMA StopLink ==
    ASSUME LinkInv, ShutdownJoined
    PROVE  LinkInv' /\ L!EndShutdown
<1>1. /\ shutting_down /\ Joinable
      /\ socket_alive' = FALSE /\ UNCHANGED shutting_down
      /\ rt' = Thread("none")
      /\ main' = [main EXCEPT !.pc = "stopped"]
  BY DEF LinkInv, ShutdownJoined, Goto
<1>2. LinkInv'
  BY <1>1 DEF LinkInv, IsThread, Thread, AtWork, SomeoneReconnects, InSession
<1> QED BY <1>1, <1>2 DEF L!EndShutdown, L!Idle, Joinable, Thread

LEMMA StepLink == LinkInv /\ [Next]_vars => LinkInv' /\ [L!Next]_(L!link)
<1> SUFFICES ASSUME LinkInv, [Next]_vars PROVE LinkInv' /\ [L!Next]_(L!link)
  OBVIOUS
<1>1. CASE UNCHANGED vars
  BY <1>1, MainMoves DEF vars
<1>2. CASE SessionNext
  BY <1>2, SessionMoves, CloseLink, ShutdownLink, StopLink DEF SessionNext, L!Next
<1>3. CASE ReconnectNext
  BY <1>3, LeaveLink, AttemptMoves, ResponseLink, AnnounceLink DEF ReconnectNext, L!Next
<1>4. CASE ServerNext \/ \E s \in Streams : Break(s)
  BY <1>4, ServerMoves
<1> QED BY <1>1, <1>2, <1>3, <1>4 DEF Next

\* The session loop may rely on ClientConnection as a Link: the flags and the
\* reconnect thread of connection.rs behave as Session assumes they do.
THEOREM LinkImplemented == Spec => ImplementsLink
<1>1. Init => LinkInv /\ L!Init
  BY InitLinkInv
<1>2. LinkInv /\ [Next]_vars => LinkInv' /\ [L!Next]_(L!link)
  BY StepLink
<1> QED BY <1>1, <1>2, PTL DEF Spec, ImplementsLink, L!Spec

\* A session that has lost its connection always has a thread at work on a new
\* one: no order of the session loop's calls and the thread's steps loses it.
THEOREM NeverAbandoned == Spec => []SomeoneReconnects
<1>1. Init => LinkInv
  BY InitLinkInv
<1>2. LinkInv /\ [Next]_vars => LinkInv'
  BY StepLink
<1>3. LinkInv => SomeoneReconnects
  BY DEF LinkInv
<1> QED BY <1>1, <1>2, <1>3, PTL DEF Spec

-----------------------------------------------------------------------------
(* The two halves and the flag. *)

BothOn(s) == r_socket = s /\ w_socket = s

\* Who has which connection at each step of the reconnect thread.  Neither half
\* has one until the thread gives it the new one, so nothing is read that would
\* make the number sampled for the server wrong.  While the main thread is in the
\* join a write that failed has taken the writer's; any later use of the flag is
\* behind that join.
HalvesInv ==
    /\ (socket_alive /\ main.pc # "join") => w_socket = r_socket /\ w_socket # NoStream
    /\ (rt.pc = "loop" \/ Handshaking) => BothOn(NoStream)
    /\ rt.pc = "revive_writer" => r_socket = rt.stream /\ w_socket = NoStream
    /\ (rt.pc = "announce" /\ main.pc # "join") => BothOn(rt.stream)
    /\ (Handshaking \/ rt.pc \in {"revive_writer", "announce"}) => rt.stream # NoStream
    /\ SampleStaysCurrent
    /\ StoppedIsQuiet

LEMMA InitHalves == Init => HalvesInv
<1> SUFFICES ASSUME Init PROVE HalvesInv
  OBVIOUS
<1>1. main.pc = "idle" /\ rt.pc = "none"
  BY DEF Init, Thread
<1>2. w_socket = r_socket /\ w_socket # NoStream
  BY NoStreamAssumption DEF Init, W!Init
<1> QED BY <1>1, <1>2 DEF HalvesInv, Handshaking, SampleStaysCurrent, StoppedIsQuiet

\* What a write does to the writer's socket.
LEMMA WriteSockets ==
    ASSUME NEW p,
           W!WriteSkipped(p) \/ W!WriteBuffered(p) \/ W!WriteSuccess(p)
    PROVE  UNCHANGED w_socket
BY DEF W!WriteSkipped, W!WriteBuffered, W!WriteSuccess, W!vars

\* Steps that leave the sockets as they are, and what a session that is going on
\* needs to be true of the main thread.
LEMMA MainHalves ==
    ASSUME LinkInv, HalvesInv,
           UNCHANGED <<rt, flags, r_socket, w_socket>>,
           r_sequence_number' = r_sequence_number \/ r_socket # NoStream,
           main.pc = "join" => main'.pc = "join",
           main'.pc = "stopped" => main.pc = "stopped"
    PROVE  HalvesInv'
<1>1. SampleStaysCurrent'
  BY DEF HalvesInv, SampleStaysCurrent, Handshaking, BothOn
<1> QED BY <1>1 DEF HalvesInv, BothOn, Handshaking, StoppedIsQuiet, flags

LEMMA SessionHalves ==
    ASSUME LinkInv, HalvesInv,
           \/ WritePacket \/ WriteCheck \/ WriteTurnedAway \/ WriteKept
           \/ WriteSent \/ ReadWithoutSocket \/ ReadFrame
           \/ ReadPartial \/ ReadClosed \/ ForceReconnect \/ Stopped
    PROVE  HalvesInv'
<1>1. CASE WritePacket \/ WriteCheck \/ ForceReconnect \/ Stopped
  <2>1. UNCHANGED <<rt, flags, reader, writer>>
    BY <1>1 DEF WritePacket, WriteCheck, ForceReconnect, Stopped, vars
  <2>2. /\ main.pc = "join" => main'.pc = "join"
        /\ main'.pc = "stopped" => main.pc = "stopped"
    BY <1>1 DEF LinkInv, WritePacket, WriteCheck, ForceReconnect, Stopped, Goto, CallClose, vars
  <2> QED BY <2>1, <2>2, MainHalves DEF reader, writer
<1>2. CASE WriteTurnedAway \/ WriteKept \/ WriteSent
  <2>1. UNCHANGED <<rt, flags, reader>>
    BY <1>2 DEF WriteTurnedAway, WriteKept, WriteSent
  <2>2. UNCHANGED w_socket
    BY <1>2, WriteSockets DEF WriteTurnedAway, WriteKept, WriteSent
  <2>3. main.pc # "join" /\ main'.pc # "stopped"
    BY <1>2 DEF LinkInv, WriteTurnedAway, WriteKept, WriteSent, Goto
  <2> QED BY <2>1, <2>2, <2>3, MainHalves DEF reader
<1>3. CASE ReadWithoutSocket \/ ReadFrame \/ ReadPartial \/ ReadClosed
  <2>1. UNCHANGED <<rt, flags, writer>> /\ main.pc = "idle"
    BY <1>3 DEF ReadWithoutSocket, ReadFrame, ReadPartial, ReadClosed
  <2>2. UNCHANGED r_socket /\ (r_sequence_number' = r_sequence_number \/ r_socket # NoStream)
    BY <1>3 DEF ReadWithoutSocket, ReadFrame, ReadPartial, ReadClosed,
                R!ReadIdle, R!ReadBuffered, R!ReadFrame, R!ReadPartial, R!ReadClosed,
                R!FromSocket, R!vars
  <2>3. main'.pc # "stopped"
    BY <1>3, <2>1 DEF ReadWithoutSocket, ReadFrame, ReadPartial, ReadClosed, CallClose
  <2> QED BY <2>1, <2>2, <2>3, MainHalves DEF writer
<1> QED BY <1>1, <1>2, <1>3

\* A failed write takes the writer's socket, and with it the main thread to the
\* join.  The reconnect thread has not come to a half it could not have revived.
LEMMA WriteFailedHalves ==
    ASSUME LinkInv, HalvesInv, WriteFailed
    PROVE  HalvesInv'
<1>1. /\ w_socket # NoStream /\ w_socket' = NoStream
      /\ UNCHANGED <<rt, flags, reader>>
      /\ main'.pc = "join"
  BY DEF WriteFailed, W!WriteFailed, CallClose
<1>2. ~Handshaking /\ rt.pc # "loop" /\ rt.pc # "revive_writer"
  BY <1>1 DEF HalvesInv, BothOn
<1> QED BY <1>1, <1>2 DEF HalvesInv, BothOn, Handshaking, SampleStaysCurrent, StoppedIsQuiet,
                          flags, reader

LEMMA CloseHalves ==
    ASSUME LinkInv, HalvesInv, CloseAndMaybeReconnect
    PROVE  HalvesInv'
<1>1. /\ BothOn(NoStream)' /\ ~socket_alive'
      /\ rt'.pc \in {"none", "loop"}
      /\ main'.pc \in {"idle", "check"}
  BY DEF LinkInv, CloseAndMaybeReconnect, InvalidateBoth, R!InvalidateSocket,
         W!InvalidateSocket, Thread, Goto, BothOn
<1> QED BY <1>1 DEF HalvesInv, BothOn, Handshaking, SampleStaysCurrent, StoppedIsQuiet

LEMMA ShutdownHalves ==
    ASSUME LinkInv, HalvesInv, Shutdown \/ ShutdownJoined
    PROVE  HalvesInv'
<1>1. CASE Shutdown
  <2>1. /\ main.pc = "idle" /\ main'.pc = "sd_join"
        /\ UNCHANGED <<rt, socket_alive, reader, writer>>
    BY <1>1 DEF LinkInv, Shutdown, Goto
  <2> QED BY <2>1 DEF HalvesInv, BothOn, Handshaking, SampleStaysCurrent, StoppedIsQuiet,
                      reader, writer
<1>2. CASE ShutdownJoined
  <2>1. /\ BothOn(NoStream)' /\ ~socket_alive'
        /\ rt'.pc = "none"
        /\ main'.pc = "stopped"
    BY <1>2 DEF LinkInv, ShutdownJoined, InvalidateBoth, R!InvalidateSocket,
           W!InvalidateSocket, Thread, Goto, BothOn
  <2> QED BY <2>1 DEF HalvesInv, BothOn, Handshaking, SampleStaysCurrent, StoppedIsQuiet
<1> QED BY <1>1, <1>2

LEMMA ServerHalves ==
    ASSUME LinkInv, HalvesInv, ServerNext \/ \E s \in Streams : Break(s)
    PROVE  HalvesInv'
<1>1. UNCHANGED <<main, rt, flags, reader, writer>>
  BY DEF ServerNext, ServerRequest, ServerRefuse, ServerSequence, ServerCatchup,
         ServerReceive, ServerNotices, ServerSend, ServerEnds, Break
<1> QED BY <1>1, MainHalves DEF reader, writer

\* An attempt that goes on, ends or fails before the reader is revived.
LEMMA AttemptHalves ==
    ASSUME LinkInv, HalvesInv,
           \/ Leave \/ Dial \/ AwaitResponse \/ SendSequence \/ AwaitSequence \/ Recover
           \/ AttemptBroken \/ AttemptTimesOut
    PROVE  HalvesInv'
<1>1. UNCHANGED <<main, socket_alive, reader, writer>>
  BY DEF Leave, Dial, AwaitResponse, SendSequence, AwaitSequence, Recover,
         AttemptBroken, AttemptTimesOut, flags
<1>2. rt.pc = "loop" \/ Handshaking
  BY DEF Leave, Dial, AwaitResponse, SendSequence, AwaitSequence, Recover,
         AttemptBroken, AttemptTimesOut, Handshaking
<1>3. BothOn(NoStream) /\ ~socket_alive /\ main.pc # "stopped"
  BY <1>2 DEF HalvesInv, LinkInv, AtWork, Handshaking, StoppedIsQuiet
<1>4. CASE rt'.pc \in {"loop", "done"}
  BY <1>1, <1>3, <1>4 DEF HalvesInv, BothOn, Handshaking, SampleStaysCurrent, StoppedIsQuiet,
                          reader, writer
<1>5. CASE /\ Handshaking'
           /\ rt'.stream # NoStream
           /\ rt'.pc \in {"header", "recover", "catchup"} => rt'.sample = r_sequence_number
  BY <1>1, <1>3, <1>5 DEF HalvesInv, BothOn, Handshaking, SampleStaysCurrent, StoppedIsQuiet,
                          reader, writer
<1>6. CASE Leave \/ AttemptBroken \/ AttemptTimesOut
  BY <1>4, <1>6 DEF Leave, AttemptBroken, AttemptTimesOut, AttemptOver, Thread
<1>7. CASE Dial
  <2>1. PICK s \in Streams : rt' = [rt EXCEPT !.pc = "response", !.stream = s]
    BY <1>7 DEF Dial
  <2>2. rt'.pc = "response" /\ rt'.stream = s
    BY <2>1 DEF LinkInv, IsThread
  <2> QED BY <1>5, <2>2, NoStreamAssumption DEF Handshaking
<1>8. CASE AwaitResponse
  <2>1. rt'.pc \in {"loop", "done"} \/ rt' = [rt EXCEPT !.pc = "sample"]
    BY <1>8 DEF AwaitResponse, AttemptOver, Thread
  <2>2. CASE rt' = [rt EXCEPT !.pc = "sample"]
    <3>1. rt'.pc = "sample" /\ rt'.stream = rt.stream
      BY <2>2 DEF LinkInv, IsThread
    <3>2. rt.stream # NoStream
      BY <1>8 DEF AwaitResponse, HalvesInv, Handshaking
    <3> QED BY <1>5, <3>1, <3>2 DEF Handshaking
  <2> QED BY <1>4, <2>1, <2>2
<1>9. CASE SendSequence
  <2>1. rt.pc = "sample" /\ rt' = [rt EXCEPT !.pc = "header", !.sample = r_sequence_number]
    BY <1>9 DEF SendSequence
  <2>2. rt'.pc = "header" /\ rt'.stream = rt.stream /\ rt'.sample = r_sequence_number
    BY <2>1 DEF LinkInv, IsThread
  <2>3. rt.stream # NoStream
    BY <2>1 DEF HalvesInv, Handshaking
  <2> QED BY <1>5, <2>2, <2>3 DEF Handshaking
<1>10. CASE AwaitSequence
  <2>1. rt.pc = "header" /\ rt' = [rt EXCEPT !.pc = "recover", !.remote = Head(down[rt.stream]).n]
    BY <1>10 DEF AwaitSequence
  <2>2. rt'.pc = "recover" /\ rt'.stream = rt.stream /\ rt'.sample = rt.sample
    BY <2>1 DEF LinkInv, IsThread
  <2>3. rt.stream # NoStream /\ rt.sample = r_sequence_number
    BY <2>1 DEF HalvesInv, Handshaking, SampleStaysCurrent
  <2> QED BY <1>5, <2>2, <2>3 DEF Handshaking
<1>11. CASE Recover
  <2>1. /\ rt.pc = "recover"
        /\ rt' = Thread("loop") \/ rt' = [rt EXCEPT !.pc = "catchup", !.upto = w_sequence_number]
    BY <1>11 DEF Recover, AttemptOver
  <2>2. CASE rt' = Thread("loop")
    BY <1>4, <2>2 DEF Thread
  <2>3. CASE rt' = [rt EXCEPT !.pc = "catchup", !.upto = w_sequence_number]
    <3>1. rt'.pc = "catchup" /\ rt'.stream = rt.stream /\ rt'.sample = rt.sample
      BY <2>3 DEF LinkInv, IsThread
    <3>2. rt.stream # NoStream /\ rt.sample = r_sequence_number
      BY <2>1 DEF HalvesInv, Handshaking, SampleStaysCurrent
    <3> QED BY <1>5, <3>1, <3>2 DEF Handshaking
  <2> QED BY <2>1, <2>2, <2>3
<1> QED BY <1>6, <1>7, <1>8, <1>9, <1>10, <1>11

\* The reader, the writer and the flag, one after the other.
LEMMA ReviveHalves ==
    ASSUME LinkInv, HalvesInv, ReviveReader \/ ReviveWriter \/ Announce
    PROVE  HalvesInv'
<1>1. UNCHANGED main /\ AtWork
  BY DEF ReviveReader, ReviveWriter, Announce, AtWork
<1>2. main.pc # "stopped" /\ ~socket_alive
  BY <1>1 DEF HalvesInv, StoppedIsQuiet, AtWork, LinkInv
<1>3. CASE ReviveReader
  <2>1. /\ rt.pc = "catchup" /\ r_socket' = rt.stream
        /\ rt' = [rt EXCEPT !.pc = "revive_writer"]
        /\ UNCHANGED <<w_socket, socket_alive>>
    BY <1>3 DEF ReviveReader, R!Revive, writer, flags
  <2>2. rt'.pc = "revive_writer" /\ rt'.stream = rt.stream
    BY <2>1 DEF LinkInv, IsThread
  <2>3. w_socket = NoStream /\ rt.stream # NoStream
    BY <2>1 DEF HalvesInv, Handshaking, BothOn
  <2> QED BY <1>1, <1>2, <2>1, <2>2, <2>3
          DEF HalvesInv, BothOn, Handshaking, SampleStaysCurrent, StoppedIsQuiet
<1>4. CASE ReviveWriter
  <2>1. /\ rt.pc = "revive_writer" /\ w_socket' = rt.stream
        /\ rt' = [rt EXCEPT !.pc = "announce"]
        /\ UNCHANGED <<r_socket, socket_alive>>
    BY <1>4 DEF ReviveWriter, W!Revive, reader, flags
  <2>2. rt'.pc = "announce" /\ rt'.stream = rt.stream
    BY <2>1 DEF LinkInv, IsThread
  <2>3. r_socket = rt.stream /\ rt.stream # NoStream
    BY <2>1 DEF HalvesInv
  <2> QED BY <1>1, <1>2, <2>1, <2>2, <2>3
          DEF HalvesInv, BothOn, Handshaking, SampleStaysCurrent, StoppedIsQuiet
<1>5. CASE Announce
  <2>1. /\ rt.pc = "announce" /\ rt'.pc = "done"
        /\ UNCHANGED <<r_socket, w_socket>>
    BY <1>5 DEF Announce, Thread, reader, writer
  <2>2. main.pc # "join" => w_socket = r_socket /\ w_socket # NoStream
    BY <2>1 DEF HalvesInv, BothOn
  <2> QED BY <1>1, <1>2, <2>1, <2>2
          DEF HalvesInv, BothOn, Handshaking, SampleStaysCurrent, StoppedIsQuiet
<1> QED BY <1>3, <1>4, <1>5

LEMMA StepHalves == LinkInv /\ HalvesInv /\ [Next]_vars => HalvesInv'
<1> SUFFICES ASSUME LinkInv, HalvesInv, [Next]_vars PROVE HalvesInv'
  OBVIOUS
<1>1. CASE UNCHANGED vars
  BY <1>1, MainHalves DEF vars, reader, writer
<1>2. CASE SessionNext
  BY <1>2, SessionHalves, WriteFailedHalves, CloseHalves, ShutdownHalves DEF SessionNext
<1>3. CASE ReconnectNext
  BY <1>3, AttemptHalves, ReviveHalves DEF ReconnectNext
<1>4. CASE ServerNext \/ \E s \in Streams : Break(s)
  BY <1>4, ServerHalves
<1> QED BY <1>1, <1>2, <1>3, <1>4 DEF Next

LEMMA HalvesAlways == Spec => [](LinkInv /\ HalvesInv)
<1>1. Init => LinkInv /\ HalvesInv
  BY InitLinkInv, InitHalves
<1>2. LinkInv /\ HalvesInv /\ [Next]_vars => (LinkInv /\ HalvesInv)'
  BY StepLink, StepHalves
<1> QED BY <1>1, <1>2, PTL DEF Spec

\* Whenever the session loop looks at the flag and finds it set, reader and
\* writer are on one and the same connection, in whatever order the two threads
\* took their locks.
THEOREM AliveConnected == Spec => []AliveMeansConnected
<1>1. HalvesInv => AliveMeansConnected
  BY DEF HalvesInv, AliveMeansConnected, InSession
<1> QED BY <1>1, HalvesAlways, PTL

\* The sequence number the server was told is still the reader's when the reader
\* is revived, though it was looked up under a lock that was released since.
THEOREM SampleCurrent == Spec => []SampleStaysCurrent
<1>1. HalvesInv => SampleStaysCurrent
  BY DEF HalvesInv
<1> QED BY <1>1, HalvesAlways, PTL

\* shutdown() leaves no thread and no connection behind.
THEOREM StoppedQuiet == Spec => []StoppedIsQuiet
<1>1. HalvesInv => StoppedIsQuiet
  BY DEF HalvesInv
<1> QED BY <1>1, HalvesAlways, PTL

-----------------------------------------------------------------------------
(* The messages under way. *)

UpMessages ==
    [type : {"request"}] \cup [type : {"seq"}, n : Int]
        \cup [type : {"catchup"}, frames : Seq(W!Frames)]
        \cup [type : {"frame"}, frame : W!Frames]

DownMessages ==
    [type : {"response"}, status : {"InvalidKey", "ReturningClient", "Other"}]
        \cup [type : {"seq"}, n : Int]
        \cup [type : {"catchup"}, frames : Seq(R!Frames)]
        \cup [type : {"piece"}, piece : R!Pieces]

-----------------------------------------------------------------------------
(* Channels. *)

\* What Append and Tail do to a queue.
LEMMA Appended ==
    ASSUME NEW M, NEW q \in Seq(M), NEW m \in M
    PROVE  /\ Append(q, m) \in Seq(M)
           /\ Len(Append(q, m)) = Len(q) + 1
           /\ \A i \in 1 .. Len(q) : Append(q, m)[i] = q[i]
           /\ Append(q, m)[Len(q) + 1] = m
OBVIOUS

LEMMA Tailed ==
    ASSUME NEW M, NEW q \in Seq(M), q # << >>
    PROVE  /\ Tail(q) \in Seq(M) /\ Head(q) = q[1] /\ Head(q) \in M
           /\ Len(q) \in Nat /\ Len(q) > 0 /\ Len(Tail(q)) = Len(q) - 1
           /\ \A i \in 1 .. Len(q) - 1 : Tail(q)[i] = q[i + 1]
OBVIOUS

LEMMA NothingLeft ==
    ASSUME NEW M, NEW q \in Seq(M), Len(q) = 0 PROVE q = << >>
OBVIOUS

LEMMA Joined ==
    ASSUME NEW M, NEW q \in Seq(M), NEW r \in Seq(M)
    PROVE  /\ q \o r \in Seq(M)
           /\ Len(q \o r) = Len(q) + Len(r)
           /\ \A i \in 1 .. Len(q) : (q \o r)[i] = q[i]
           /\ \A i \in 1 .. Len(r) : (q \o r)[Len(q) + i] = r[i]
OBVIOUS

\* Put and Take change the queue of one connection.
LEMMA PutAt ==
    ASSUME NEW M, NEW ch \in [Streams -> Seq(M)], NEW s \in Streams, NEW m \in M
    PROVE  /\ Put(ch, s, m) \in [Streams -> Seq(M)]
           /\ Put(ch, s, m)[s] = Append(ch[s], m)
           /\ \A t \in Streams : t # s => Put(ch, s, m)[t] = ch[t]
<1>1. Append(ch[s], m) \in Seq(M)
  BY Appended
<1> QED BY <1>1 DEF Put

LEMMA TakeAt ==
    ASSUME NEW M, NEW ch \in [Streams -> Seq(M)], NEW s \in Streams, ch[s] # << >>
    PROVE  /\ Take(ch, s) \in [Streams -> Seq(M)]
           /\ Take(ch, s)[s] = Tail(ch[s])
           /\ \A t \in Streams : t # s => Take(ch, s)[t] = ch[t]
<1>1. Tail(ch[s]) \in Seq(M)
  BY Tailed
<1> QED BY <1>1 DEF Take

-----------------------------------------------------------------------------
(* The numbers a handshake names. *)

LEMMA Multiple == ASSUME NEW d \in Nat, NEW q \in Nat PROVE q = 0 \/ d * q >= d
OBVIOUS

\* A sequence number travels as itself as long as it fits 32 bits, and less a
\* multiple of 2^32 when it does not.
LEMMA Wrapped ==
    ASSUME NEW n \in Nat
    PROVE  AsI32(n) \in Int /\ (AsI32(n) = n \/ AsI32(n) =< n - 2 * I32_LIMIT)
<1> DEFINE d == 2 * I32_LIMIT
           a == n + I32_LIMIT
<1>1. d \in Nat /\ d > 0 /\ a \in Nat /\ I32_LIMIT \in Nat
  BY BoundsAssumption
<1>2. PICK q \in Nat : a = d * q + (a % d) /\ a % d \in 0 .. d - 1
  <2>1. a % d \in 0 .. d - 1
    BY <1>1
  <2>2. a = d * (a \div d) + (a % d)
    BY <1>1
  <2>3. a \div d \in Nat
    BY <1>1
  <2> QED BY <2>1, <2>2, <2>3
<1>3. q = 0 \/ d * q >= d
  BY <1>1, Multiple
<1>4. d * q \in Nat
  BY <1>1
<1> HIDE DEF d, a
<1>5. a % d = a \/ a % d =< a - d
  BY <1>1, <1>2, <1>3, <1>4
<1>6. AsI32(n) = (a % d) - I32_LIMIT /\ I32_LIMIT \in Nat
  BY BoundsAssumption DEF AsI32, a, d
<1> QED BY <1>1, <1>2, <1>5, <1>6 DEF a, d

-----------------------------------------------------------------------------
(* The writer. *)

\* Every frame of a client packet has the same length.
frame_length == PacketLength + MAC_BYTES

\* The bytes accepted before each frame of the backup, and the count of those
\* in it.
SizesInv ==
    /\ w_backup # << >> => w_offset = w_backup[1].at + frame_length
    /\ \A i \in 1 .. Len(w_backup) - 1 :
          w_backup[i].at = w_backup[i + 1].at + frame_length
    /\ \A i, j \in 1 .. Len(w_backup) : i =< j => w_backup[j].at =< w_backup[i].at
    /\ w_backup_size = W!Bytes(w_backup, 1, Len(w_backup))

WriterInv ==
    /\ W!TypeOK
    /\ W!BackupIsRecentHistory
    /\ SizesInv

LEMMA LengthOfFrame ==
    /\ frame_length \in Nat
    /\ \A f \in W!Frames : W!FrameLength(f) = frame_length
    /\ \A p \in ClientPackets : W!FrameLength(W!Encrypted(p)) = frame_length
BY BoundsAssumption DEF frame_length, W!Frames, W!FrameLength, W!Encrypted

\* The backup with a new frame in front.
LEMMA PushedFrame ==
    ASSUME WriterInv, NEW p \in ClientPackets
    PROVE  LET b == W!Pushed(p) IN
           /\ b \in Seq(W!Frames) /\ Len(b) = Len(w_backup) + 1
           /\ \A i \in 1 .. Len(b) : b[i].nonce = w_sequence_number + 2 - i
           /\ b[1].packet = p
           /\ \A i \in 2 .. Len(b) : b[i] = w_backup[i - 1]
           /\ b[1].at = w_offset
           /\ \A i \in 1 .. Len(b) - 1 : b[i].at = b[i + 1].at + frame_length
           /\ \A i, j \in 1 .. Len(b) : i =< j => b[j].at =< b[i].at
           /\ w_backup_size + frame_length = W!Bytes(b, 1, Len(b))
<1> DEFINE b == W!Pushed(p)
<1>1. /\ w_backup \in Seq(W!Frames) /\ Len(w_backup) \in Nat
      /\ w_sequence_number \in Nat /\ w_offset \in Nat /\ w_nonce = w_sequence_number
      /\ frame_length \in Nat
  BY LengthOfFrame DEF WriterInv, W!TypeOK, W!BackupIsRecentHistory
<1>2. W!Encrypted(p) \in W!Frames
  BY <1>1 DEF W!Encrypted, W!Frames
<1>3. /\ b \in Seq(W!Frames) /\ Len(b) = Len(w_backup) + 1
      /\ b[1] = W!Encrypted(p)
      /\ \A i \in 1 .. Len(w_backup) : b[i + 1] = w_backup[i]
  BY <1>1, <1>2 DEF W!Pushed
<1> HIDE DEF b
<1>4. \A i \in 2 .. Len(b) : i - 1 \in 1 .. Len(w_backup) /\ b[i] = w_backup[i - 1]
  <2> SUFFICES ASSUME NEW i \in 2 .. Len(b)
               PROVE  i - 1 \in 1 .. Len(w_backup) /\ b[i] = w_backup[i - 1]
    OBVIOUS
  <2>1. i - 1 \in 1 .. Len(w_backup) /\ (i - 1) + 1 = i
    BY <1>1, <1>3
  <2> QED BY <1>3, <2>1
<1>5. b[1].packet = p /\ b[1].at = w_offset /\ b[1].nonce = w_sequence_number + 1
  BY <1>1, <1>3 DEF W!Encrypted
<1>6. \A i \in 1 .. Len(b) : b[i].nonce = w_sequence_number + 2 - i
  <2> SUFFICES ASSUME NEW i \in 1 .. Len(b) PROVE b[i].nonce = w_sequence_number + 2 - i
    OBVIOUS
  <2>1. CASE i = 1
    BY <1>1, <1>5, <2>1
  <2>2. CASE i \in 2 .. Len(b)
    <3>1. i - 1 \in 1 .. Len(w_backup) /\ b[i] = w_backup[i - 1]
      BY <1>4, <2>2
    <3>2. b[i].nonce = w_sequence_number + 1 - (i - 1)
      BY <3>1 DEF WriterInv, W!BackupIsRecentHistory
    <3> QED BY <1>1, <3>2
  <2> QED BY <1>1, <1>3, <2>1, <2>2
<1>7. \A i \in 1 .. Len(b) - 1 : b[i].at = b[i + 1].at + frame_length
  <2> SUFFICES ASSUME NEW i \in 1 .. Len(b) - 1 PROVE b[i].at = b[i + 1].at + frame_length
    OBVIOUS
  <2>1. i \in 1 .. Len(w_backup) /\ b[i + 1] = w_backup[i]
    BY <1>1, <1>3
  <2>2. CASE i = 1
    BY <1>1, <1>5, <2>1, <2>2 DEF WriterInv, SizesInv
  <2>3. CASE i # 1
    <3>1. i - 1 \in 1 .. Len(w_backup) - 1 /\ b[i] = w_backup[i - 1] /\ (i - 1) + 1 = i
      BY <1>1, <1>3, <1>4, <2>1, <2>3
    <3> QED BY <2>1, <3>1 DEF WriterInv, SizesInv
  <2> QED BY <2>2, <2>3
<1>8. \A i \in 1 .. Len(w_backup) : w_backup[i].at \in Nat /\ w_backup[i].at =< w_offset
  <2> SUFFICES ASSUME NEW i \in 1 .. Len(w_backup)
               PROVE  w_backup[i].at \in Nat /\ w_backup[i].at =< w_offset
    OBVIOUS
  <2>1. w_backup[i] \in W!Frames /\ w_backup[1] \in W!Frames
    BY <1>1
  <2>2. 1 \in 1 .. Len(w_backup) /\ 1 =< i /\ w_backup # << >>
    BY <1>1
  <2>3. w_backup[i].at =< w_backup[1].at
    BY <2>2 DEF WriterInv, SizesInv
  <2>4. w_offset = w_backup[1].at + frame_length
    BY <2>2 DEF WriterInv, SizesInv
  <2> QED BY <1>1, <2>1, <2>3, <2>4 DEF W!Frames
<1>9. \A i, j \in 1 .. Len(b) : i =< j => b[j].at =< b[i].at
  <2> SUFFICES ASSUME NEW i \in 1 .. Len(b), NEW j \in 1 .. Len(b), i =< j
               PROVE  b[j].at =< b[i].at
    OBVIOUS
  <2>1. CASE j = 1
    BY <1>1, <1>5, <2>1
  <2>2. CASE j # 1
    <3>1. j - 1 \in 1 .. Len(w_backup) /\ b[j] = w_backup[j - 1]
      BY <1>1, <1>3, <1>4, <2>2
    <3>2. CASE i = 1
      BY <1>5, <1>8, <3>1, <3>2
    <3>3. CASE i # 1
      <4>1. i - 1 \in 1 .. Len(w_backup) /\ b[i] = w_backup[i - 1] /\ i - 1 =< j - 1
        BY <1>1, <1>3, <1>4, <3>3
      <4> QED BY <3>1, <4>1 DEF WriterInv, SizesInv
    <3> QED BY <3>2, <3>3
  <2> QED BY <2>1, <2>2
<1>10. w_backup_size + frame_length = W!Bytes(b, 1, Len(b))
  <2>1. W!Bytes(b, 1, Len(b)) = (w_offset + frame_length) - b[Len(b)].at
    <3>1. W!FrameLength(b[1]) = frame_length
      BY <1>2, <1>3, LengthOfFrame
    <3> QED BY <1>1, <1>3, <1>5, <3>1 DEF W!Bytes
  <2>2. CASE w_backup = << >>
    <3>1. w_backup_size = 0 /\ Len(b) = 1
      BY <1>3, <2>2 DEF WriterInv, SizesInv, W!Bytes
    <3> QED BY <1>1, <1>5, <2>1, <3>1
  <2>3. CASE w_backup # << >>
    <3>1. Len(w_backup) \in 1 .. Len(w_backup) /\ 1 \in 1 .. Len(w_backup)
      BY <1>1, <2>3
    <3>2. W!FrameLength(w_backup[1]) = frame_length
      BY <1>1, <3>1, LengthOfFrame
    <3>3. w_backup_size = w_offset - w_backup[Len(w_backup)].at
      BY <1>1, <2>3, <3>1, <3>2 DEF WriterInv, SizesInv, W!Bytes
    <3>4. b[Len(b)] = w_backup[Len(w_backup)]
      BY <1>1, <1>3, <3>1
    <3> QED BY <1>1, <1>8, <2>1, <3>1, <3>3, <3>4
  <2> QED BY <2>2, <2>3
<1> QED BY <1>3, <1>4, <1>5, <1>6, <1>7, <1>9, <1>10 DEF b

\* What is left of the count is what the frames that stay take.
LEMMA LeftIsExact ==
    ASSUME WriterInv, NEW p \in ClientPackets, NEW n \in 0 .. Len(w_backup) + 1
    PROVE  LET b == W!Pushed(p) IN
           /\ W!Left(b, w_backup_size + frame_length, n) = W!Bytes(b, 1, n)
           /\ W!Bytes(b, 1, n) \in Nat
<1> DEFINE b == W!Pushed(p)
           size == w_backup_size + frame_length
<1>1. /\ b \in Seq(W!Frames) /\ Len(b) \in Nat /\ Len(b) = Len(w_backup) + 1
      /\ \A i \in 1 .. Len(b) - 1 : b[i].at = b[i + 1].at + frame_length
      /\ \A i, j \in 1 .. Len(b) : i =< j => b[j].at =< b[i].at
      /\ size = W!Bytes(b, 1, Len(b))
  BY PushedFrame
<1>2. /\ frame_length \in Nat
      /\ \A i \in 1 .. Len(b) : b[i].at \in Nat /\ W!FrameLength(b[i]) = frame_length
  <2>1. \A i \in 1 .. Len(b) : b[i] \in W!Frames
    BY <1>1
  <2>2. \A f \in W!Frames : f.at \in Nat
    BY DEF W!Frames
  <2> QED BY <2>1, <2>2, LengthOfFrame
<1> SUFFICES W!Left(b, size, n) = W!Bytes(b, 1, n) /\ W!Bytes(b, 1, n) \in Nat
  OBVIOUS
<1> HIDE DEF b, size
<1>3. /\ Len(w_backup) \in Nat
      /\ 1 \in 1 .. Len(b) /\ Len(b) \in 1 .. Len(b)
  BY <1>1 DEF WriterInv, W!TypeOK
<1>4. size = b[1].at + frame_length - b[Len(b)].at
  BY <1>1, <1>2, <1>3 DEF W!Bytes
<1>5. CASE n = Len(b)
  <2>1. W!Bytes(b, n + 1, Len(b)) = 0
    BY <1>1, <1>5 DEF W!Bytes
  <2>2. b[Len(b)].at =< b[1].at /\ b[Len(b)].at \in Nat /\ b[1].at \in Nat
    BY <1>1, <1>2, <1>3
  <2> QED BY <1>1, <1>2, <1>4, <1>5, <2>1, <2>2 DEF W!Left, W!Bytes
<1>6. CASE n # Len(b)
  <2>1. n + 1 \in 1 .. Len(b)
    BY <1>1, <1>3, <1>6
  <2>2. W!Bytes(b, n + 1, Len(b)) = b[n + 1].at + frame_length - b[Len(b)].at
    BY <1>2, <2>1 DEF W!Bytes
  <2>3. W!Left(b, size, n) = b[1].at - b[n + 1].at
    <3>1. b[1].at \in Nat /\ b[n + 1].at \in Nat /\ b[Len(b)].at \in Nat
      BY <1>2, <1>3, <2>1
    <3>2. W!Left(b, size, n) = size - W!Bytes(b, n + 1, Len(b))
      BY DEF W!Left
    <3>3. W!Left(b, size, n)
            = (b[1].at + frame_length - b[Len(b)].at)
                - (b[n + 1].at + frame_length - b[Len(b)].at)
      BY <1>4, <2>2, <3>2
    <3>4. frame_length \in Nat
      BY <1>2
    <3>5. b[1].at - b[n + 1].at
            = (b[1].at + frame_length - b[Len(b)].at)
                - (b[n + 1].at + frame_length - b[Len(b)].at)
      BY <3>1, <3>4, SMTT(30)
    <3> QED BY <3>3, <3>5
  <2>4. CASE n = 0
    BY <1>2, <1>3, <2>3, <2>4 DEF W!Bytes
  <2>5. CASE n # 0
    <3>1. n \in 1 .. Len(b) - 1 /\ n \in 1 .. Len(b) /\ 1 =< n
      BY <1>1, <1>3, <2>1, <2>5
    <3>2. b[n].at = b[n + 1].at + frame_length /\ b[n].at =< b[1].at
      BY <1>1, <1>3, <3>1
    <3>3. W!Bytes(b, 1, n) = b[1].at + frame_length - b[n].at
      BY <1>2, <1>3, <3>1 DEF W!Bytes
    <3> QED BY <1>2, <1>3, <2>1, <2>3, <3>1, <3>2, <3>3, SMTT(30)
  <2> QED BY <2>4, <2>5
<1> QED BY <1>5, <1>6

\* A packet accepted, whatever is evicted for it.
LEMMA AcceptEffect ==
    ASSUME WriterInv, NEW p \in ClientPackets, W!Accept(p)
    PROVE  /\ w_sequence_number' = w_sequence_number + 1
           /\ w_nonce' = w_nonce + 1
           /\ w_accepted' = Append(w_accepted, p)
           /\ w_offset' = w_offset + frame_length
           /\ \E n \in 0 .. Len(w_backup) + 1 :
                 /\ w_backup' = SubSeq(W!Pushed(p), 1, n)
                 /\ w_backup_size' = W!Bytes(W!Pushed(p), 1, n)
                 /\ w_backup_size' \in Nat
<1>1. /\ w_sequence_number' = w_sequence_number + 1
      /\ w_nonce' = w_nonce + 1
      /\ w_accepted' = Append(w_accepted, p)
      /\ w_offset' = w_offset + frame_length
  BY LengthOfFrame DEF W!Accept
<1>2. Len(W!Pushed(p)) = Len(w_backup) + 1 /\ Len(w_backup) \in Nat
  BY PushedFrame DEF WriterInv, W!TypeOK
<1>3. PICK n \in 0 .. Len(w_backup) + 1 :
         /\ w_backup' = SubSeq(W!Pushed(p), 1, n)
         /\ w_backup_size' = W!Left(W!Pushed(p), w_backup_size + frame_length, n)
  BY <1>2, LengthOfFrame, SMTT(30) DEF W!Accept, W!Kept
<1> QED BY <1>1, <1>3, LeftIsExact

LEMMA AcceptWriter ==
    ASSUME WriterInv, NEW p \in ClientPackets, W!Accept(p),
           w_socket' \in Streams \cup {NoStream}, w_disconnected_bytes' \in Nat
    PROVE  WriterInv'
<1> DEFINE b == W!Pushed(p)
<1>1. PICK n \in 0 .. Len(w_backup) + 1 :
         /\ w_backup' = SubSeq(b, 1, n)
         /\ w_backup_size' = W!Bytes(b, 1, n)
         /\ w_backup_size' \in Nat
  BY AcceptEffect
<1>2. /\ w_sequence_number' = w_sequence_number + 1
      /\ w_nonce' = w_nonce + 1
      /\ w_accepted' = Append(w_accepted, p)
      /\ w_offset' = w_offset + frame_length
  BY AcceptEffect
<1>3. /\ b \in Seq(W!Frames) /\ Len(b) = Len(w_backup) + 1
      /\ \A i \in 1 .. Len(b) : b[i].nonce = w_sequence_number + 2 - i
      /\ b[1].packet = p
      /\ \A i \in 2 .. Len(b) : b[i] = w_backup[i - 1]
      /\ b[1].at = w_offset
      /\ \A i \in 1 .. Len(b) - 1 : b[i].at = b[i + 1].at + frame_length
      /\ \A i, j \in 1 .. Len(b) : i =< j => b[j].at =< b[i].at
  BY PushedFrame
<1> HIDE DEF b
<1>4. /\ w_accepted \in Seq(ClientPackets) /\ Len(w_accepted) = w_sequence_number
      /\ w_sequence_number \in Nat /\ w_nonce = w_sequence_number /\ w_offset \in Nat
      /\ Len(w_backup) \in Nat /\ Len(w_backup) =< w_sequence_number
      /\ frame_length \in Nat
  BY LengthOfFrame DEF WriterInv, W!TypeOK, W!BackupIsRecentHistory
<1>5. /\ w_backup' \in Seq(W!Frames) /\ Len(w_backup') = n
      /\ \A i \in 1 .. n : w_backup'[i] = b[i]
  BY <1>1, <1>3, <1>4
<1>6. /\ w_accepted' \in Seq(ClientPackets) /\ Len(w_accepted') = w_sequence_number + 1
      /\ \A i \in 1 .. w_sequence_number : w_accepted'[i] = w_accepted[i]
      /\ w_accepted'[w_sequence_number + 1] = p
  BY <1>2, <1>4, SMTT(30)
<1>7. W!TypeOK'
  BY <1>1, <1>2, <1>4, <1>5, <1>6, SMTT(30) DEF W!TypeOK, W!Frames
<1>8. W!BackupIsRecentHistory'
  <2>1. ASSUME NEW i \in 1 .. n
        PROVE  /\ b[i].nonce = w_sequence_number + 2 - i
               /\ b[i].packet = w_accepted'[w_sequence_number + 2 - i]
    <3>1. i \in 1 .. Len(b)
      BY <1>3, <1>4
    <3>2. CASE i = 1
      <4>1. w_sequence_number + 2 - i = w_sequence_number + 1
        BY <1>4, <3>2
      <4> QED BY <1>3, <1>6, <3>1, <3>2, <4>1
    <3>3. CASE i # 1
      <4>1. i \in 2 .. Len(b) /\ i - 1 \in 1 .. Len(w_backup)
        BY <1>3, <1>4, <3>1, <3>3
      <4>2. b[i].packet = w_accepted[w_sequence_number + 1 - (i - 1)]
        BY <1>3, <4>1 DEF WriterInv, W!BackupIsRecentHistory
      <4>3. /\ w_sequence_number + 1 - (i - 1) = w_sequence_number + 2 - i
            /\ w_sequence_number + 2 - i \in 1 .. w_sequence_number
        BY <1>4, <3>1, <4>1
      <4> QED BY <1>3, <1>6, <3>1, <4>2, <4>3
    <3> QED BY <3>2, <3>3
  <2>2. (w_sequence_number + 1) + 1 = w_sequence_number + 2
    BY <1>4
  <2> QED BY <1>1, <1>2, <1>4, <1>5, <1>6, <2>1, <2>2 DEF W!BackupIsRecentHistory
<1>9. SizesInv'
  <2>0. frame_length' = frame_length
    BY DEF frame_length
  <2>1. \A i \in 1 .. n : i \in 1 .. Len(b)
    BY <1>3, <1>4
  <2>2. \A i \in 1 .. n - 1 : i \in 1 .. n /\ i + 1 \in 1 .. n /\ i \in 1 .. Len(b) - 1
    BY <1>3, <1>4
  <2>3. w_backup' # << >> => w_offset' = w_backup'[1].at + frame_length
    <3> SUFFICES ASSUME w_backup' # << >> PROVE w_offset' = w_backup'[1].at + frame_length
      OBVIOUS
    <3>1. 1 \in 1 .. n
      BY <1>5
    <3> QED BY <1>2, <1>3, <1>5, <3>1
  <2>4. \A i \in 1 .. n - 1 : w_backup'[i].at = w_backup'[i + 1].at + frame_length
    BY <1>3, <1>5, <2>2
  <2>5. \A i, j \in 1 .. n : i =< j => w_backup'[j].at =< w_backup'[i].at
    BY <1>3, <1>5, <2>1
  <2>6. w_backup_size' = W!Bytes(w_backup', 1, Len(w_backup'))
    BY <1>1, <1>5 DEF W!Bytes
  <2> QED BY <1>5, <2>0, <2>3, <2>4, <2>5, <2>6 DEF SizesInv, W!Bytes, W!FrameLength
<1> QED BY <1>7, <1>8, <1>9 DEF WriterInv

-----------------------------------------------------------------------------
(* The session loop and the counters. *)

\* write_packet has not returned: the packet may be offered to the writer again.
Offering ==
    main.pc \in {"check", "write"} \/ (main.pc = "join" /\ main.then = "check")

MainTypes ==
    /\ main.pc \in {"idle", "check", "write", "join", "sd_join", "stopped"}
    /\ main.then \in {"idle", "check"}
    /\ submitted \in 0 .. MaxUp
    /\ Offering => submitted \in ClientPackets
    /\ stranded \in BOOLEAN
    /\ faults \in 0 .. MaxFaults /\ forced \in 0 .. MaxForced

LEMMA InitMain == Init => MainTypes
<1> SUFFICES ASSUME Init PROVE MainTypes
  OBVIOUS
<1>1. main.pc = "idle" /\ main.then = "idle"
  BY DEF Init
<1>2. stranded \in BOOLEAN
  BY DEF Init
<1>3. submitted = 0 /\ faults = 0 /\ forced = 0
  BY DEF Init
<1>4. MaxUp \in Nat /\ MaxFaults \in Nat /\ MaxForced \in Nat
  BY BoundsAssumption
<1> QED BY <1>1, <1>2, <1>3, <1>4 DEF MainTypes, Offering

\* The main thread moves on, or nothing of it changes.
LEMMA StepMain == LinkInv /\ MainTypes /\ [Next]_vars => MainTypes'
<1> SUFFICES ASSUME LinkInv, MainTypes, [Next]_vars PROVE MainTypes'
  OBVIOUS
<1> USE BoundsAssumption DEF MainTypes
<1>1. /\ main = [pc |-> main.pc, then |-> main.then]
      /\ main.pc = "join" => main.then \in {"idle", "check"}
  BY DEF LinkInv
<1>2. ASSUME UNCHANGED <<main, submitted>>,
             stranded' \in BOOLEAN,
             faults' \in 0 .. MaxFaults, forced' \in 0 .. MaxForced
      PROVE  MainTypes'
  BY <1>2 DEF Offering
<1>3. CASE WritePacket
  <2>1. main' = [main EXCEPT !.pc = "check"] /\ submitted' = submitted + 1
        /\ submitted < MaxUp /\ UNCHANGED <<stranded, faults, forced>>
    BY <1>3 DEF WritePacket, Goto, budgets
  <2>2. submitted' \in ClientPackets /\ submitted' \in 0 .. MaxUp
    BY <2>1 DEF ClientPackets
  <2> QED BY <1>1, <2>1, <2>2 DEF Offering
<1>4. CASE WriteCheck \/ WriteTurnedAway \/ WriteKept \/ WriteSent
  <2>1. /\ \E p \in {"idle", "check", "write"} : main' = [main EXCEPT !.pc = p]
        /\ main.pc \in {"check", "write"}
        /\ UNCHANGED <<submitted, stranded, faults, forced>>
    BY <1>4 DEF WriteCheck, WriteTurnedAway, WriteKept, WriteSent, Goto, budgets
  <2> QED BY <1>1, <2>1 DEF Offering
<1>5. CASE WriteFailed \/ ReadClosed \/ ForceReconnect
  <2>1. /\ \/ main' = [pc |-> "join", then |-> "idle"]
           \/ main' = [pc |-> "join", then |-> "check"] /\ main.pc = "write"
        /\ UNCHANGED <<submitted, stranded, faults>>
        /\ forced' = forced \/ (forced' = forced + 1 /\ forced < MaxForced)
    BY <1>5 DEF WriteFailed, ReadClosed, ForceReconnect, CallClose, budgets
  <2> QED BY <2>1 DEF Offering
<1>6. CASE ReadWithoutSocket \/ ReadFrame \/ ReadPartial
  <2>1. /\ main' = main \/ main' = [pc |-> "join", then |-> "idle"]
        /\ UNCHANGED <<submitted, stranded, faults, forced>>
    BY <1>6 DEF ReadWithoutSocket, ReadFrame, ReadPartial, CallClose, budgets
  <2> QED BY <2>1 DEF Offering
<1>7. CASE CloseAndMaybeReconnect
  <2>1. /\ main' = [main EXCEPT !.pc = main.then] /\ main.pc = "join"
        /\ UNCHANGED <<submitted, stranded, faults, forced>>
    BY <1>7 DEF CloseAndMaybeReconnect, Goto, budgets
  <2> QED BY <1>1, <2>1 DEF Offering
<1>8. CASE Shutdown \/ ShutdownJoined
  <2>1. /\ \E p \in {"sd_join", "stopped"} : main' = [main EXCEPT !.pc = p]
        /\ UNCHANGED <<submitted, stranded, faults, forced>>
    BY <1>8 DEF Shutdown, ShutdownJoined, Goto, budgets
  <2> QED BY <1>1, <2>1 DEF Offering
<1>9. CASE Stopped \/ UNCHANGED vars
  BY <1>2, <1>9 DEF Stopped, vars, budgets
<1>10. CASE ReconnectNext
  <2>1. UNCHANGED <<main, submitted>> /\ stranded' \in BOOLEAN /\ forced' = forced
    BY <1>10 DEF ReconnectNext, Leave, Dial, AwaitResponse, SendSequence, AwaitSequence,
                 Recover, ReviveReader, ReviveWriter, Announce, AttemptBroken,
                 AttemptTimesOut, budgets
  <2>2. faults' = faults \/ (faults' = faults + 1 /\ faults < MaxFaults)
    BY <1>10 DEF ReconnectNext, Leave, Dial, AwaitResponse, SendSequence, AwaitSequence,
                 Recover, ReviveReader, ReviveWriter, Announce, AttemptBroken,
                 AttemptTimesOut, budgets
  <2> QED BY <1>2, <2>1, <2>2
<1>11. CASE ServerNext \/ \E s \in Streams : Break(s)
  <2>1. UNCHANGED <<main, submitted, stranded, forced>>
    BY <1>11 DEF ServerNext, ServerRequest, ServerRefuse, ServerSequence, ServerCatchup,
                 ServerReceive, ServerNotices, ServerSend, ServerEnds, Break, budgets
  <2>2. faults' = faults \/ (faults' = faults + 1 /\ faults < MaxFaults)
    BY <1>11 DEF ServerNext, ServerRequest, ServerRefuse, ServerSequence, ServerCatchup,
                 ServerReceive, ServerNotices, ServerSend, ServerEnds, Break, budgets
  <2> QED BY <1>2, <2>1, <2>2
<1> QED BY <1>3, <1>4, <1>5, <1>6, <1>7, <1>8, <1>9, <1>10, <1>11 DEF Next, SessionNext

-----------------------------------------------------------------------------
(* The network, the reconnect thread and the server. *)

Ends == Streams \cup {NoStream}

NetTypes ==
    /\ rt \in [pc : {"none", "loop", "response", "sample", "header", "recover",
                     "catchup", "revive_writer", "announce", "done"},
               stream : Ends, sample : Nat, remote : Int, upto : Nat]
    /\ r_socket \in Ends /\ r_sequence_number \in Nat
    /\ up \in [Streams -> Seq(UpMessages)]
    /\ down \in [Streams -> Seq(DownMessages)]
    /\ broken \subseteq Streams
    /\ srv \in [phase : {"down", "seq", "catchup", "live", "ended"}, sock : Ends,
                seq : Nat, log : Seq(ServerPackets), got : Seq(ClientPackets)]

\* The server is on a connection exactly while it exchanges messages on one, and
\* a connection that still carries a request is nobody's but the dialling
\* thread's: the request is all there is on it.
ServerHold == srv.sock # NoStream <=> srv.phase \in {"seq", "catchup", "live"}

Requested(s) == \E i \in 1 .. Len(up[s]) : up[s][i].type = "request"

Dialled(s) ==
    /\ Len(up[s]) = 1 /\ down[s] = << >>
    /\ s # srv.sock /\ s # r_socket
    /\ rt.stream = s => rt.pc = "response"

\* Who holds which connection.  What the client has let go of, nobody will read.
HoldInv ==
    /\ w_socket \in {NoStream, r_socket}
    /\ rt.stream # NoStream => Handshaking \/ rt.pc \in {"revive_writer", "announce"}
    /\ rt.pc = "announce" => r_socket = rt.stream
    /\ \A s \in Streams : ~ClientHolds(s) => down[s] = << >>
    /\ ServerHold
    /\ \A s \in Streams : Requested(s) => Dialled(s)

\* Everything but what the reader has in hand, whose type rests on what the
\* server may send when.
BaseInv ==
    /\ LinkInv /\ HalvesInv
    /\ MainTypes /\ WriterInv /\ NetTypes /\ HoldInv

LEMMA DropEffect ==
    ASSUME NetTypes, NEW S \in SUBSET Ends, Drop(S)
    PROVE  /\ up' \in [Streams -> Seq(UpMessages)]
           /\ down' \in [Streams -> Seq(DownMessages)]
           /\ broken' \subseteq Streams
           /\ \A s \in Streams : down'[s] = IF s \in S THEN << >> ELSE down[s]
           /\ \A s \in Streams : up'[s] = up[s] \/ (up'[s] = << >> /\ s \in S \ {srv.sock})
<1>1. << >> \in Seq(UpMessages) /\ << >> \in Seq(DownMessages)
  OBVIOUS
<1>2. broken' \subseteq Streams
  BY DEF Drop, NetTypes, Ends
<1>3. /\ down' \in [Streams -> Seq(DownMessages)]
      /\ \A s \in Streams : down'[s] = IF s \in S THEN << >> ELSE down[s]
  BY <1>1 DEF Drop, NetTypes
<1>4. /\ up' \in [Streams -> Seq(UpMessages)]
      /\ \A s \in Streams : up'[s] = up[s] \/ (up'[s] = << >> /\ s \in S \ {srv.sock})
  <2> DEFINE gone(s) == s \in S \ {srv.sock} /\ ~Has(up, s, "request")
  <2>1. up' = [s \in Streams |-> IF gone(s) THEN << >> ELSE up[s]]
    BY DEF Drop
  <2>2. \A s \in Streams : gone(s) => s \in S \ {srv.sock}
    OBVIOUS
  <2> HIDE DEF gone
  <2> QED BY <1>1, <2>1, <2>2 DEF NetTypes
<1> QED BY <1>2, <1>3, <1>4

LEMMA AnswerEffect ==
    ASSUME NetTypes, NEW s \in Ends, NEW ms \in Seq(DownMessages), Answer(s, ms)
    PROVE  /\ down' \in [Streams -> Seq(DownMessages)]
           /\ ClientHolds(s) => s \in Streams /\ down'[s] = down[s] \o ms
           /\ \A t \in Streams : (t # s \/ ~ClientHolds(s)) => down'[t] = down[t]
<1>1. ClientHolds(s) => s \in Streams
  BY DEF ClientHolds, Ends
<1>2. s \in Streams => down[s] \o ms \in Seq(DownMessages)
  BY Joined DEF NetTypes
<1> QED BY <1>1, <1>2 DEF Answer, NetTypes

LEMMA LeavesEffect ==
    ASSUME NetTypes, NEW M, NEW ch \in [Streams -> Seq(M)]
    PROVE  /\ ServerLeaves(ch) \in [Streams -> Seq(M)]
           /\ \A s \in Streams : \/ ServerLeaves(ch)[s] = ch[s]
                                 \/ ServerLeaves(ch)[s] = << >> /\ s = srv.sock
<1>1. << >> \in Seq(M)
  OBVIOUS
<1> QED BY <1>1 DEF ServerLeaves, NetTypes, Ends

\* A record of the thread that is not in an attempt.
LEMMA ThreadTypes ==
    ASSUME NEW pc \in {"none", "loop", "done"}
    PROVE  /\ Thread(pc) \in [pc : {"none", "loop", "response", "sample", "header", "recover",
                                    "catchup", "revive_writer", "announce", "done"},
                              stream : Ends, sample : Nat, remote : Int, upto : Nat]
           /\ Thread(pc).pc = pc /\ Thread(pc).stream = NoStream
BY DEF Thread, Ends

\* What a type of message carries.
LEMMA MessageTypes ==
    /\ \A m \in UpMessages : /\ m.type = "seq" => m.n \in Int
                             /\ m.type = "catchup" => m.frames \in Seq(W!Frames)
                             /\ m.type = "frame" => m.frame \in W!Frames
    /\ \A m \in DownMessages : /\ m.type = "seq" => m.n \in Int
                               /\ m.type = "catchup" => m.frames \in Seq(R!Frames)
                               /\ m.type = "piece" => m.piece \in R!Pieces
BY DEF UpMessages, DownMessages

\* What the client writes is a message.
LEMMA ClientMessages ==
    ASSUME BaseInv
    PROVE  /\ [type |-> "request"] \in UpMessages
           /\ [type |-> "seq", n |-> AsI32(r_sequence_number)] \in UpMessages
           /\ main.pc = "write" =>
                 [type |-> "frame", frame |-> W!Encrypted(submitted)] \in UpMessages
           /\ W!CanRecover(rt.remote) =>
                 [type |-> "catchup", frames |-> W!Recovered(rt.remote)] \in UpMessages
<1>1. AsI32(r_sequence_number) \in Int
  BY Wrapped DEF BaseInv, NetTypes
<1>2. ASSUME main.pc = "write" PROVE W!Encrypted(submitted) \in W!Frames
  BY <1>2 DEF BaseInv, MainTypes, Offering, WriterInv, W!TypeOK, W!Encrypted, W!Frames
<1>3. ASSUME W!CanRecover(rt.remote) PROVE W!Recovered(rt.remote) \in Seq(W!Frames)
  <2> DEFINE n == w_sequence_number - rt.remote
  <2>1. n \in Nat /\ n =< Len(w_backup) /\ w_backup \in Seq(W!Frames) /\ Len(w_backup) \in Nat
    BY <1>3 DEF BaseInv, WriterInv, W!TypeOK, W!CanRecover
  <2> HIDE DEF n
  <2>2. \A i \in 1 .. n : w_backup[n + 1 - i] \in W!Frames
    <3> SUFFICES ASSUME NEW i \in 1 .. n PROVE w_backup[n + 1 - i] \in W!Frames
      OBVIOUS
    <3>1. n + 1 - i \in 1 .. Len(w_backup)
      BY <2>1
    <3> QED BY <2>1, <3>1
  <2>3. W!Recovered(rt.remote) = [i \in 1 .. n |-> w_backup[n + 1 - i]]
    BY DEF W!Recovered, n
  <2> QED BY <2>1, <2>2, <2>3
<1> QED BY <1>1, <1>2, <1>3 DEF UpMessages

\* What the server writes is one, too.
LEMMA ServerMessages ==
    ASSUME NetTypes
    PROVE  /\ \A st \in {"InvalidKey", "ReturningClient", "Other"} :
                 [type |-> "response", status |-> st] \in DownMessages
           /\ [type |-> "seq", n |-> AsI32(srv.seq)] \in DownMessages
           /\ \A n \in 0 .. Len(srv.log) :
                 [type |-> "catchup",
                  frames |-> [i \in 1 .. Len(srv.log) - n |-> ServerFrame(n + i)]] \in DownMessages
           /\ \A f \in R!Frames, part \in 1 .. 2 :
                 [type |-> "piece", piece |-> [frame |-> f, part |-> part]] \in DownMessages
<1>1. srv.seq \in Nat /\ srv.log \in Seq(ServerPackets) /\ Len(srv.log) \in Nat
  BY DEF NetTypes
<1>2. AsI32(srv.seq) \in Int
  BY <1>1, Wrapped
<1>3. \A k \in 1 .. Len(srv.log) : ServerFrame(k) \in R!Frames
  BY <1>1 DEF ServerFrame, R!Frames
<1>4. ASSUME NEW n \in 0 .. Len(srv.log)
      PROVE  [i \in 1 .. Len(srv.log) - n |-> ServerFrame(n + i)] \in Seq(R!Frames)
  <2>1. \A i \in 1 .. Len(srv.log) - n : n + i \in 1 .. Len(srv.log)
    BY <1>1
  <2>2. Len(srv.log) - n \in Nat
    BY <1>1
  <2> QED BY <1>3, <2>1, <2>2
<1>5. \A f \in R!Frames, part \in 1 .. 2 : [frame |-> f, part |-> part] \in R!Pieces
  BY DEF R!Pieces
<1> QED BY <1>2, <1>4, <1>5 DEF DownMessages

\* What the client's own steps do to the queue up[s] ...
ClientUpStep(s) ==
    \/ up'[s] = up[s]
    \/ up'[s] = << >>
    \/ /\ Dial /\ rt'.stream = s /\ Fresh(s)
       /\ up'[s] = <<[type |-> "request"]>>
    \/ /\ SendSequence /\ rt.stream = s
       /\ up'[s] = Append(up[s], [type |-> "seq", n |-> AsI32(r_sequence_number)])
    \/ /\ Recover /\ rt.stream = s /\ W!CanRecover(rt.remote)
       /\ up'[s] = Append(up[s], [type |-> "catchup", frames |-> W!Recovered(rt.remote)])
    \/ /\ WriteSent /\ w_socket = s
       /\ up'[s] = Append(up[s], [type |-> "frame", frame |-> W!Encrypted(submitted)])

\* ... and the server's: it takes the first message, or loses them all.
ServerUpStep(s) ==
    \/ up'[s] = up[s]
    \/ up'[s] = << >>
    \/ up[s] # << >> /\ up'[s] = Tail(up[s])

LEMMA SessionNet ==
    ASSUME BaseInv, SessionNext
    PROVE  NetTypes' /\ \A s \in Streams : ClientUpStep(s)
<1>1. CASE \/ WritePacket \/ WriteCheck \/ WriteTurnedAway \/ WriteKept \/ WriteFailed
           \/ ForceReconnect \/ Shutdown \/ Stopped
  <2>1. UNCHANGED <<rt, r_socket, r_sequence_number, up, down, broken, srv>>
    BY <1>1 DEF WritePacket, WriteCheck, WriteTurnedAway, WriteKept, WriteFailed,
                ForceReconnect, Shutdown, Stopped, vars, reader, network
  <2> QED BY <2>1 DEF BaseInv, NetTypes, ClientUpStep
<1>2. CASE WriteSent
  <2> DEFINE m == [type |-> "frame", frame |-> W!Encrypted(submitted)]
  <2>1. /\ UNCHANGED <<rt, r_socket, r_sequence_number, down, broken, srv>>
        /\ main.pc = "write" /\ w_socket # NoStream
        /\ up' = Put(up, w_socket, m)
    BY <1>2 DEF WriteSent, W!WriteSuccess, reader
  <2>2. w_socket \in Streams
    BY <2>1 DEF BaseInv, WriterInv, W!TypeOK
  <2>3. m \in UpMessages
    BY <2>1, ClientMessages
  <2>4. up \in [Streams -> Seq(UpMessages)]
    BY DEF BaseInv, NetTypes
  <2> HIDE DEF m
  <2>5. /\ up' \in [Streams -> Seq(UpMessages)]
        /\ up'[w_socket] = Append(up[w_socket], m)
        /\ \A t \in Streams : t # w_socket => up'[t] = up[t]
    BY <2>1, <2>2, <2>3, <2>4, PutAt
  <2>6. ASSUME NEW s \in Streams PROVE ClientUpStep(s)
    BY <1>2, <2>5 DEF ClientUpStep, m
  <2> QED BY <2>1, <2>5, <2>6 DEF BaseInv, NetTypes
<1>3. CASE ReadWithoutSocket \/ ReadClosed
  <2>1. UNCHANGED <<rt, r_socket, r_sequence_number, up, down, broken, srv>>
    BY <1>3 DEF ReadWithoutSocket, ReadClosed, R!ReadIdle, R!ReadBuffered, R!ReadClosed,
                R!ReadPartial, R!vars, network
  <2> QED BY <2>1 DEF BaseInv, NetTypes, ClientUpStep
<1>4. CASE ReadFrame \/ ReadPartial
  <2>1. UNCHANGED <<rt, r_socket, up, broken, srv>> /\ r_socket \in Streams
    BY <1>4 DEF ReadFrame, ReadPartial, R!ReadFrame, R!ReadPartial, BaseInv, NetTypes, Ends
  <2>2. r_sequence_number' \in Nat
    BY <1>4, SMTT(30) DEF ReadFrame, ReadPartial, R!ReadFrame, R!ReadPartial, BaseInv, NetTypes
  <2>3. down' \in [Streams -> Seq(DownMessages)]
    <3>1. CASE ReadPartial
      <4>1. << >> \in Seq(DownMessages)
        OBVIOUS
      <4> QED BY <2>1, <3>1, <4>1 DEF ReadPartial, BaseInv, NetTypes
    <3>2. CASE ReadFrame
      <4>1. PICK n \in 0 .. Len(down[r_socket]) :
               down' = [down EXCEPT ![r_socket] = SubSeq(@, n + 1, Len(@))]
        BY <3>2 DEF ReadFrame
      <4>2. down[r_socket] \in Seq(DownMessages)
        BY <2>1 DEF BaseInv, NetTypes
      <4>3. SubSeq(down[r_socket], n + 1, Len(down[r_socket])) \in Seq(DownMessages)
        BY <4>2
      <4> QED BY <2>1, <4>1, <4>3 DEF BaseInv, NetTypes
    <3> QED BY <1>4, <3>1, <3>2
  <2> QED BY <2>1, <2>2, <2>3 DEF BaseInv, NetTypes, ClientUpStep
<1>5. CASE CloseAndMaybeReconnect \/ ShutdownJoined
  <2>1. /\ r_socket' = NoStream /\ UNCHANGED <<r_sequence_number, srv>>
        /\ Drop({r_socket, w_socket})
        /\ \E pc \in {"none", "loop"} : rt' = Thread(pc)
    BY <1>5 DEF CloseAndMaybeReconnect, ShutdownJoined, InvalidateBoth, R!InvalidateSocket
  <2>2. {r_socket, w_socket} \in SUBSET Ends
    BY DEF BaseInv, NetTypes, WriterInv, W!TypeOK, Ends
  <2>3. /\ up' \in [Streams -> Seq(UpMessages)]
        /\ down' \in [Streams -> Seq(DownMessages)]
        /\ broken' \subseteq Streams
        /\ \A s \in Streams : up'[s] = up[s] \/ up'[s] = << >>
    BY <2>1, <2>2, DropEffect DEF BaseInv
  <2> QED BY <2>1, <2>3, ThreadTypes DEF BaseInv, NetTypes, ClientUpStep, Ends
<1> QED BY <1>1, <1>2, <1>3, <1>4, <1>5 DEF SessionNext

LEMMA ReconnectNet ==
    ASSUME BaseInv, ReconnectNext
    PROVE  NetTypes' /\ \A s \in Streams : ClientUpStep(s)
<1>0. /\ up \in [Streams -> Seq(UpMessages)] /\ down \in [Streams -> Seq(DownMessages)]
      /\ r_sequence_number \in Nat /\ w_sequence_number \in Nat
      /\ Handshaking => rt.stream \in Streams
      /\ UNCHANGED srv
  BY DEF BaseInv, NetTypes, HalvesInv, WriterInv, W!TypeOK, Ends, ReconnectNext, Leave, Dial,
         AwaitResponse, SendSequence, AwaitSequence, Recover, ReviveReader, ReviveWriter,
         Announce, AttemptBroken, AttemptTimesOut
<1>1. CASE Leave \/ Announce
  <2>1. rt' = Thread("done") /\ UNCHANGED <<r_socket, r_sequence_number, up, down, broken>>
    BY <1>1 DEF Leave, Announce, reader, network
  <2> QED BY <1>0, <2>1, ThreadTypes DEF BaseInv, NetTypes, ClientUpStep
<1>2. ASSUME Drop({rt.stream}), UNCHANGED <<r_socket, r_sequence_number>>,
             \E pc \in {"loop", "done"} : rt' = Thread(pc)
      PROVE  NetTypes' /\ \A s \in Streams : ClientUpStep(s)
  <2>1. {rt.stream} \in SUBSET Ends
    BY DEF BaseInv, NetTypes
  <2>2. /\ up' \in [Streams -> Seq(UpMessages)]
        /\ down' \in [Streams -> Seq(DownMessages)]
        /\ broken' \subseteq Streams
        /\ \A s \in Streams : up'[s] = up[s] \/ up'[s] = << >>
    BY <1>2, <2>1, DropEffect DEF BaseInv
  <2> QED BY <1>0, <1>2, <2>2, ThreadTypes DEF BaseInv, NetTypes, ClientUpStep
<1>3. CASE AttemptBroken \/ AttemptTimesOut
  BY <1>2, <1>3 DEF AttemptBroken, AttemptTimesOut, AttemptOver, reader
<1>4. CASE Dial
  <2>1. PICK s \in Streams :
           /\ Fresh(s) /\ rt' = [rt EXCEPT !.pc = "response", !.stream = s]
           /\ up' = [up EXCEPT ![s] = <<[type |-> "request"]>>]
           /\ broken' = broken \ {s}
           /\ UNCHANGED <<r_socket, r_sequence_number, down>>
    BY <1>4 DEF Dial, reader
  <2>2. [type |-> "request"] \in UpMessages
    BY ClientMessages
  <2>3. <<[type |-> "request"]>> \in Seq(UpMessages)
    BY <2>2
  <2>4. /\ up' \in [Streams -> Seq(UpMessages)] /\ up'[s] = <<[type |-> "request"]>>
        /\ \A t \in Streams : t # s => up'[t] = up[t]
    BY <1>0, <2>1, <2>3
  <2>5. rt'.stream = s
    BY <2>1 DEF BaseInv, NetTypes
  <2>6. ASSUME NEW t \in Streams PROVE ClientUpStep(t)
    BY <1>4, <2>1, <2>4, <2>5 DEF ClientUpStep
  <2> QED BY <1>0, <2>1, <2>4, <2>6 DEF BaseInv, NetTypes, Ends
<1>5. CASE AwaitResponse
  <2>1. CASE Drop({rt.stream}) /\ \E pc \in {"loop", "done"} : rt' = Thread(pc)
    BY <1>2, <1>5, <2>1 DEF AwaitResponse, reader
  <2>2. CASE rt' = [rt EXCEPT !.pc = "sample"] /\ down' = Take(down, rt.stream)
             /\ UNCHANGED <<up, broken>>
    <3>1. down[rt.stream] # << >> /\ rt.stream \in Streams
      BY <1>0, <1>5 DEF AwaitResponse, Has, Handshaking
    <3>2. down' \in [Streams -> Seq(DownMessages)]
      BY <1>0, <2>2, <3>1, TakeAt
    <3> QED BY <1>0, <1>5, <2>2, <3>2 DEF AwaitResponse, BaseInv, NetTypes, ClientUpStep, reader
  <2> QED BY <1>5, <2>1, <2>2 DEF AwaitResponse, AttemptOver
<1>6. CASE SendSequence
  <2> DEFINE m == [type |-> "seq", n |-> AsI32(r_sequence_number)]
  <2>1. /\ rt' = [rt EXCEPT !.pc = "header", !.sample = r_sequence_number]
        /\ up' = Put(up, rt.stream, m)
        /\ UNCHANGED <<r_socket, r_sequence_number, down, broken>>
        /\ rt.stream \in Streams
    BY <1>0, <1>6 DEF SendSequence, reader, Handshaking
  <2>2. m \in UpMessages
    BY ClientMessages
  <2> HIDE DEF m
  <2>3. /\ up' \in [Streams -> Seq(UpMessages)]
        /\ up'[rt.stream] = Append(up[rt.stream], m)
        /\ \A t \in Streams : t # rt.stream => up'[t] = up[t]
    <3>1. up' = Put(up, rt.stream, m) /\ rt.stream \in Streams
      BY <2>1
    <3>2. up \in [Streams -> Seq(UpMessages)]
      BY <1>0
    <3> QED BY <2>2, <3>1, <3>2, PutAt
  <2>4. ASSUME NEW t \in Streams PROVE ClientUpStep(t)
    BY <1>6, <2>3 DEF ClientUpStep, m
  <2> QED BY <1>0, <2>1, <2>3, <2>4 DEF BaseInv, NetTypes
<1>7. CASE AwaitSequence
  <2>1. /\ rt' = [rt EXCEPT !.pc = "recover", !.remote = Head(down[rt.stream]).n]
        /\ down' = Take(down, rt.stream)
        /\ UNCHANGED <<r_socket, r_sequence_number, up, broken>>
        /\ rt.stream \in Streams /\ down[rt.stream] # << >>
        /\ Head(down[rt.stream]).type = "seq"
    BY <1>0, <1>7 DEF AwaitSequence, reader, Handshaking, Has
  <2>2. Head(down[rt.stream]) \in DownMessages
    BY <1>0, <2>1, Tailed
  <2>3. Head(down[rt.stream]).n \in Int
    BY <2>1, <2>2, MessageTypes
  <2>4. down' \in [Streams -> Seq(DownMessages)]
    BY <1>0, <2>1, TakeAt
  <2> QED BY <1>0, <2>1, <2>3, <2>4 DEF BaseInv, NetTypes, ClientUpStep
<1>8. CASE Recover
  <2> DEFINE m == [type |-> "catchup", frames |-> W!Recovered(rt.remote)]
  <2>1. rt.stream \in Streams /\ UNCHANGED <<r_socket, r_sequence_number>>
    BY <1>0, <1>8 DEF Recover, reader, Handshaking
  <2>2. CASE W!CanRecover(rt.remote)
    <3>1. /\ rt' = [rt EXCEPT !.pc = "catchup", !.upto = w_sequence_number]
          /\ up' = Put(up, rt.stream, m)
          /\ UNCHANGED <<down, broken>>
      BY <1>8, <2>2 DEF Recover
    <3>2. m \in UpMessages
      BY <2>2, ClientMessages
    <3> HIDE DEF m
    <3>3. /\ up' \in [Streams -> Seq(UpMessages)]
          /\ up'[rt.stream] = Append(up[rt.stream], m)
          /\ \A t \in Streams : t # rt.stream => up'[t] = up[t]
      <4>1. up' = Put(up, rt.stream, m)
        BY <3>1
      <4>2. up \in [Streams -> Seq(UpMessages)] /\ rt.stream \in Streams
        BY <1>0, <2>1
      <4> QED BY <3>2, <4>1, <4>2, PutAt
    <3>4. ASSUME NEW t \in Streams PROVE ClientUpStep(t)
      BY <1>8, <2>2, <3>3 DEF ClientUpStep, m
    <3> QED BY <1>0, <2>1, <3>1, <3>3, <3>4 DEF BaseInv, NetTypes
  <2>3. CASE ~W!CanRecover(rt.remote)
    BY <1>2, <1>8, <2>1, <2>3 DEF Recover, AttemptOver
  <2> QED BY <2>2, <2>3
<1>9. CASE ReviveReader
  <2>1. /\ rt' = [rt EXCEPT !.pc = "revive_writer"]
        /\ down' = Take(down, rt.stream)
        /\ r_socket' = rt.stream
        /\ r_sequence_number' = r_sequence_number + Len(Head(down[rt.stream]).frames)
        /\ UNCHANGED <<up, broken>>
        /\ rt.stream \in Streams /\ down[rt.stream] # << >>
        /\ Head(down[rt.stream]).type = "catchup"
    BY <1>0, <1>9 DEF ReviveReader, R!Revive, Handshaking, Has
  <2>2. Head(down[rt.stream]) \in DownMessages
    BY <1>0, <2>1, Tailed
  <2>3. Head(down[rt.stream]).frames \in Seq(R!Frames)
    BY <2>1, <2>2, MessageTypes
  <2>4. r_sequence_number' \in Nat
    BY <1>0, <2>1, <2>3, SMTT(30)
  <2>5. down' \in [Streams -> Seq(DownMessages)]
    BY <1>0, <2>1, TakeAt
  <2> QED BY <1>0, <2>1, <2>4, <2>5 DEF BaseInv, NetTypes, ClientUpStep, Ends
<1>10. CASE ReviveWriter
  <2>1. rt' = [rt EXCEPT !.pc = "announce"]
        /\ UNCHANGED <<r_socket, r_sequence_number, up, down, broken>>
    BY <1>10 DEF ReviveWriter, reader, network
  <2> QED BY <1>0, <2>1 DEF BaseInv, NetTypes, ClientUpStep
<1> QED BY <1>1, <1>3, <1>4, <1>5, <1>6, <1>7, <1>8, <1>9, <1>10 DEF ReconnectNext

\* The server takes the first message of a queue, and may leave its connection.
LEMMA TakenUp ==
    ASSUME NetTypes, NEW s \in Streams, up[s] # << >>, up' = Take(up, s)
    PROVE  up' \in [Streams -> Seq(UpMessages)] /\ \A t \in Streams : ServerUpStep(t)
<1>1. up \in [Streams -> Seq(UpMessages)]
  BY DEF NetTypes
<1>2. /\ up' \in [Streams -> Seq(UpMessages)]
      /\ up'[s] = Tail(up[s])
      /\ \A t \in Streams : t # s => up'[t] = up[t]
  BY <1>1, TakeAt
<1> QED BY <1>2 DEF ServerUpStep

LEMMA LeftUp ==
    ASSUME NetTypes, up' = ServerLeaves(up)
    PROVE  up' \in [Streams -> Seq(UpMessages)] /\ \A t \in Streams : ServerUpStep(t)
<1>1. up \in [Streams -> Seq(UpMessages)]
  BY DEF NetTypes
<1> QED BY <1>1, LeavesEffect DEF ServerUpStep

\* The new connection's request is taken and the old connection left.
LEMMA RequestedUp ==
    ASSUME NetTypes, NEW s \in Streams, up[s] # << >>, s # srv.sock,
           up' = Take(ServerLeaves(up), s)
    PROVE  /\ up' \in [Streams -> Seq(UpMessages)]
           /\ up'[s] = Tail(up[s])
           /\ \A t \in Streams : t # s => up'[t] = up[t] \/ (up'[t] = << >> /\ t = srv.sock)
<1> DEFINE ch == ServerLeaves(up)
<1>1. up \in [Streams -> Seq(UpMessages)]
  BY DEF NetTypes
<1>2. /\ ch \in [Streams -> Seq(UpMessages)]
      /\ \A t \in Streams : ch[t] = up[t] \/ (ch[t] = << >> /\ t = srv.sock)
  BY <1>1, LeavesEffect
<1>3. ch[s] = up[s]
  BY <1>2
<1> HIDE DEF ch
<1>4. /\ Take(ch, s) \in [Streams -> Seq(UpMessages)]
      /\ Take(ch, s)[s] = Tail(ch[s])
      /\ \A t \in Streams : t # s => Take(ch, s)[t] = ch[t]
  BY <1>2, <1>3, TakeAt
<1> QED BY <1>2, <1>3, <1>4 DEF ch

\* A message at the head of a queue.
LEMMA HeadOfUp ==
    ASSUME NetTypes, NEW s \in Streams, NEW type, Has(up, s, type)
    PROVE  /\ up[s] # << >> /\ up[s] \in Seq(UpMessages)
           /\ Head(up[s]) \in UpMessages /\ Head(up[s]).type = type
           /\ Head(up[s]) = up[s][1] /\ 1 \in 1 .. Len(up[s])
BY Tailed DEF Has, NetTypes

LEMMA HeadOfDown ==
    ASSUME NetTypes, NEW s \in Streams, NEW type, Has(down, s, type)
    PROVE  /\ down[s] # << >> /\ down[s] \in Seq(DownMessages)
           /\ Head(down[s]) \in DownMessages /\ Head(down[s]).type = type
           /\ Head(down[s]) = down[s][1] /\ 1 \in 1 .. Len(down[s])
BY Tailed DEF Has, NetTypes

\* A request is alone on its connection: once it is taken, nothing is left.
LEMMA RequestTaken ==
    ASSUME BaseInv, NEW s \in Streams, Has(up, s, "request")
    PROVE  /\ Dialled(s) /\ up[s] # << >> /\ Tail(up[s]) = << >> /\ s # NoStream
           /\ ClientHolds(s) => rt.stream = s /\ rt.pc = "response"
<1>1. /\ up[s] # << >> /\ up[s] \in Seq(UpMessages)
      /\ up[s][1].type = "request" /\ 1 \in 1 .. Len(up[s])
  BY HeadOfUp DEF BaseInv
<1>2. Dialled(s)
  BY <1>1 DEF BaseInv, HoldInv, Requested
<1>3. Tail(up[s]) = << >>
  <2>1. Tail(up[s]) \in Seq(UpMessages) /\ Len(Tail(up[s])) = 0
    BY <1>1, <1>2, Tailed DEF Dialled
  <2> QED BY <2>1, NothingLeft
<1>4. ClientHolds(s) => rt.stream = s
  BY <1>2 DEF Dialled, ClientHolds, BaseInv, HoldInv
<1> QED BY <1>1, <1>2, <1>3, <1>4, NoStreamAssumption DEF Dialled

Response(status) == [type |-> "response", status |-> status]
SeqMessage(n) == [type |-> "seq", n |-> n]

\* The queues after the server has answered a request with ms.
Answered(s, ms) ==
    /\ up' \in [Streams -> Seq(UpMessages)] /\ down' \in [Streams -> Seq(DownMessages)]
    /\ up'[s] = << >>
    /\ \A t \in Streams : t # s => up'[t] = up[t] \/ (up'[t] = << >> /\ t = srv.sock)
    /\ \A t \in Streams : down'[t] = IF t = s /\ ClientHolds(s) THEN ms ELSE down[t]

LEMMA AnswerRequest ==
    ASSUME BaseInv, NEW s \in Streams, Has(up, s, "request"), NEW ms \in Seq(DownMessages),
           Answer(s, ms), up' = Take(up, s) \/ up' = Take(ServerLeaves(up), s)
    PROVE  Answered(s, ms)
<1>1. /\ s # srv.sock /\ up[s] # << >> /\ Tail(up[s]) = << >> /\ down[s] = << >>
  BY RequestTaken DEF Dialled
<1>2. NetTypes /\ up \in [Streams -> Seq(UpMessages)]
  BY DEF BaseInv, NetTypes
<1>3. /\ up' \in [Streams -> Seq(UpMessages)] /\ up'[s] = << >>
      /\ \A t \in Streams : t # s => up'[t] = up[t] \/ (up'[t] = << >> /\ t = srv.sock)
  <2>1. CASE up' = Take(up, s)
    BY <1>1, <1>2, <2>1, TakeAt
  <2>2. CASE up' = Take(ServerLeaves(up), s)
    BY <1>1, <1>2, <2>2, RequestedUp
  <2> QED BY <2>1, <2>2
<1>4. s \in Ends /\ << >> \o ms = ms
  BY DEF Ends
<1>5. /\ down' \in [Streams -> Seq(DownMessages)]
      /\ ClientHolds(s) => down'[s] = ms
      /\ \A t \in Streams : (t # s \/ ~ClientHolds(s)) => down'[t] = down[t]
  BY <1>1, <1>2, <1>4, AnswerEffect
<1> QED BY <1>3, <1>5 DEF Answered

LEMMA RequestEffect ==
    ASSUME BaseInv, NEW s \in Streams, ServerRequest(s)
    PROVE  \/ /\ srv.phase = "ended" /\ UNCHANGED <<srv, broken>>
              /\ Answered(s, <<Response("InvalidKey")>>)
           \/ /\ srv.phase # "ended"
              /\ srv' = [srv EXCEPT !.phase = "seq", !.sock = s]
              /\ broken' = broken \cup ({srv.sock} \ {NoStream})
              /\ Answered(s, <<Response("ReturningClient"), SeqMessage(AsI32(srv.seq))>>)
<1>1. /\ Response("InvalidKey") \in DownMessages /\ Response("ReturningClient") \in DownMessages
      /\ SeqMessage(AsI32(srv.seq)) \in DownMessages
  BY ServerMessages DEF BaseInv, Response, SeqMessage
<1> DEFINE refusal == <<Response("InvalidKey")>>
           welcome == <<Response("ReturningClient"), SeqMessage(AsI32(srv.seq))>>
<1>2. refusal \in Seq(DownMessages) /\ welcome \in Seq(DownMessages)
  BY <1>1
<1>3. Has(up, s, "request")
  BY DEF ServerRequest
<1>4. CASE srv.phase = "ended"
  <2>1. Answer(s, refusal) /\ up' = Take(up, s) /\ UNCHANGED <<srv, broken>>
    BY <1>4 DEF ServerRequest, Response
  <2> HIDE DEF refusal
  <2>2. Answered(s, refusal)
    BY <1>2, <1>3, <2>1, AnswerRequest
  <2> QED BY <1>4, <2>1, <2>2 DEF refusal
<1>5. CASE srv.phase # "ended"
  <2>1. /\ Answer(s, welcome) /\ up' = Take(ServerLeaves(up), s)
        /\ srv' = [srv EXCEPT !.phase = "seq", !.sock = s]
        /\ broken' = broken \cup ({srv.sock} \ {NoStream})
    BY <1>5 DEF ServerRequest, Response, SeqMessage
  <2> HIDE DEF welcome
  <2>2. Answered(s, welcome)
    BY <1>2, <1>3, <2>1, AnswerRequest
  <2> QED BY <1>5, <2>1, <2>2 DEF welcome
<1> QED BY <1>4, <1>5

LEMMA RefuseEffect ==
    ASSUME BaseInv, NEW s \in Streams, ServerRefuse(s)
    PROVE  Answered(s, <<Response("Other")>>) /\ UNCHANGED <<srv, broken>>
<1> DEFINE refusal == <<Response("Other")>>
<1>1. Response("Other") \in DownMessages
  BY ServerMessages DEF BaseInv, Response
<1>2. refusal \in Seq(DownMessages)
  BY <1>1
<1>3. /\ Has(up, s, "request") /\ Answer(s, refusal) /\ up' = Take(up, s)
      /\ UNCHANGED <<srv, broken>>
  BY DEF ServerRefuse, Response
<1> HIDE DEF refusal
<1>4. Answered(s, refusal)
  BY <1>2, <1>3, AnswerRequest
<1> QED BY <1>3, <1>4 DEF refusal

CatchupMessage(frames) == [type |-> "catchup", frames |-> frames]
PieceMessage(f, part) == [type |-> "piece", piece |-> [frame |-> f, part |-> part]]

\* The frames of the server's log after the n-th.
LogAfter(n) == [i \in 1 .. Len(srv.log) - n |-> ServerFrame(n + i)]

\* The server takes the head of the queue of the connection it is on ...
TakenByServer ==
    /\ srv.sock \in Streams /\ up[srv.sock] # << >>
    /\ up' \in [Streams -> Seq(UpMessages)]
    /\ up'[srv.sock] = Tail(up[srv.sock])
    /\ \A t \in Streams : t # srv.sock => up'[t] = up[t]

\* ... or leaves that connection.
LeftByServer ==
    /\ up' \in [Streams -> Seq(UpMessages)]
    /\ \A t \in Streams : up'[t] = up[t] \/ (up'[t] = << >> /\ t = srv.sock)

\* What it writes to the connection it is on.
AnsweredBy(ms) ==
    /\ down' \in [Streams -> Seq(DownMessages)]
    /\ \A t \in Streams :
          down'[t] = IF t = srv.sock /\ ClientHolds(t) THEN down[t] \o ms ELSE down[t]

LEMMA AnswerHere ==
    ASSUME NetTypes, NEW ms \in Seq(DownMessages), Answer(srv.sock, ms)
    PROVE  AnsweredBy(ms)
<1>1. srv.sock \in Ends
  BY DEF NetTypes
<1>2. /\ down' \in [Streams -> Seq(DownMessages)]
      /\ ClientHolds(srv.sock) => srv.sock \in Streams /\ down'[srv.sock] = down[srv.sock] \o ms
      /\ \A t \in Streams : (t # srv.sock \/ ~ClientHolds(srv.sock)) => down'[t] = down[t]
  BY <1>1, AnswerEffect
<1> QED BY <1>2 DEF AnsweredBy

LEMMA TakeHere ==
    ASSUME NetTypes, ServerHold, srv.phase \in {"seq", "catchup", "live"},
           up[srv.sock] # << >>, up' = Take(up, srv.sock)
    PROVE  TakenByServer
<1>1. srv.sock \in Streams /\ up \in [Streams -> Seq(UpMessages)]
  BY DEF NetTypes, ServerHold, Ends
<1> QED BY <1>1, TakeAt DEF TakenByServer

LEMMA SequenceEffect ==
    ASSUME BaseInv, ServerSequence
    PROVE  /\ srv.phase = "seq" /\ srv' = [srv EXCEPT !.phase = "catchup"]
           /\ TakenByServer /\ up[srv.sock][1].type = "seq"
           /\ up[srv.sock][1].n \in 0 .. Len(srv.log)
           /\ AnsweredBy(<<CatchupMessage(LogAfter(up[srv.sock][1].n))>>)
           /\ broken' = broken
<1>1. /\ NetTypes /\ ServerHold /\ srv.phase = "seq" /\ Has(up, srv.sock, "seq")
      /\ srv' = [srv EXCEPT !.phase = "catchup"] /\ broken' = broken
      /\ up' = Take(up, srv.sock)
  BY DEF BaseInv, HoldInv, ServerSequence
<1>2. srv.sock \in Streams
  BY <1>1 DEF NetTypes, ServerHold, Ends
<1>3. /\ up[srv.sock] # << >> /\ up[srv.sock][1].type = "seq"
      /\ Head(up[srv.sock]) = up[srv.sock][1]
  BY <1>1, <1>2, HeadOfUp
<1>4. TakenByServer
  BY <1>1, <1>3, TakeHere
<1> DEFINE n == up[srv.sock][1].n
           m == CatchupMessage(LogAfter(n))
<1>5. n \in 0 .. Len(srv.log) /\ Answer(srv.sock, <<m>>)
  BY <1>3 DEF ServerSequence, CatchupMessage, LogAfter
<1>6. m \in DownMessages
  BY <1>1, <1>5, ServerMessages DEF CatchupMessage, LogAfter
<1> HIDE DEF m
<1>7. <<m>> \in Seq(DownMessages)
  BY <1>6
<1>8. AnsweredBy(<<m>>)
  BY <1>1, <1>5, <1>7, AnswerHere
<1> QED BY <1>1, <1>3, <1>4, <1>5, <1>8 DEF m

LEMMA CatchupEffect ==
    ASSUME BaseInv, ServerCatchup
    PROVE  /\ srv.phase = "catchup" /\ TakenByServer
           /\ up[srv.sock][1] \in UpMessages /\ up[srv.sock][1].type = "catchup"
           /\ LET frames == up[srv.sock][1].frames IN
              srv' = [srv EXCEPT !.phase = "live", !.seq = @ + Len(frames),
                                 !.got = @ \o [i \in 1 .. Len(frames) |-> frames[i].packet]]
           /\ UNCHANGED <<down, broken>>
<1>1. /\ NetTypes /\ ServerHold /\ srv.phase = "catchup" /\ Has(up, srv.sock, "catchup")
      /\ up' = Take(up, srv.sock) /\ UNCHANGED <<down, broken>>
  BY DEF BaseInv, HoldInv, ServerCatchup
<1>2. srv.sock \in Streams
  BY <1>1 DEF NetTypes, ServerHold, Ends
<1>3. /\ up[srv.sock] # << >> /\ up[srv.sock][1].type = "catchup"
      /\ up[srv.sock][1] \in UpMessages
      /\ Head(up[srv.sock]) = up[srv.sock][1]
  BY <1>1, <1>2, HeadOfUp
<1>4. TakenByServer
  BY <1>1, <1>3, TakeHere
<1> QED BY <1>1, <1>3, <1>4 DEF ServerCatchup

LEMMA ReceiveEffect ==
    ASSUME BaseInv, ServerReceive
    PROVE  /\ srv.phase = "live" /\ srv.sock \in Streams /\ up[srv.sock] # << >>
           /\ up[srv.sock][1] \in UpMessages /\ up[srv.sock][1].type = "frame"
           /\ LET f == up[srv.sock][1].frame IN
              \/ /\ f.nonce = srv.seq + 1 /\ TakenByServer /\ broken' = broken
                 /\ srv' = [srv EXCEPT !.seq = @ + 1, !.got = Append(@, f.packet)]
              \/ /\ f.nonce # srv.seq + 1 /\ LeftByServer
                 /\ broken' = broken \cup {srv.sock}
                 /\ srv' = [srv EXCEPT !.phase = "down", !.sock = NoStream]
           /\ down' = down
<1>1. /\ NetTypes /\ ServerHold /\ srv.phase = "live" /\ Has(up, srv.sock, "frame")
      /\ down' = down
  BY DEF BaseInv, HoldInv, ServerReceive
<1>2. srv.sock \in Streams
  BY <1>1 DEF NetTypes, ServerHold, Ends
<1>3. /\ up[srv.sock] # << >> /\ up[srv.sock][1].type = "frame"
      /\ up[srv.sock][1] \in UpMessages
      /\ Head(up[srv.sock]) = up[srv.sock][1]
  BY <1>1, <1>2, HeadOfUp
<1>4. CASE up[srv.sock][1].frame.nonce = srv.seq + 1
  <2>1. /\ up' = Take(up, srv.sock) /\ broken' = broken
        /\ srv' = [srv EXCEPT !.seq = @ + 1, !.got = Append(@, up[srv.sock][1].frame.packet)]
    BY <1>3, <1>4 DEF ServerReceive
  <2>2. TakenByServer
    BY <1>1, <1>3, <2>1, TakeHere
  <2> QED BY <1>1, <1>2, <1>3, <1>4, <2>1, <2>2
<1>5. CASE up[srv.sock][1].frame.nonce # srv.seq + 1
  <2>1. /\ up' = ServerLeaves(up) /\ broken' = broken \cup {srv.sock}
        /\ srv' = [srv EXCEPT !.phase = "down", !.sock = NoStream]
    BY <1>3, <1>5 DEF ServerReceive
  <2>2. up \in [Streams -> Seq(UpMessages)]
    BY <1>1 DEF NetTypes
  <2>3. LeftByServer
    BY <1>1, <2>1, <2>2, LeavesEffect DEF LeftByServer
  <2> QED BY <1>1, <1>2, <1>3, <1>5, <2>1, <2>3
<1> QED BY <1>4, <1>5

LEMMA LeaveEffect ==
    ASSUME BaseInv, ServerNotices \/ ServerEnds
    PROVE  /\ LeftByServer /\ down' = down
           /\ \E phase \in {"down", "ended"} : srv' = [srv EXCEPT !.phase = phase, !.sock = NoStream]
           /\ broken \subseteq broken' /\ broken' \subseteq Streams
<1>1. up \in [Streams -> Seq(UpMessages)] /\ NetTypes
  BY DEF BaseInv, NetTypes
<1>2. up' = ServerLeaves(up) /\ down' = down
  BY DEF ServerNotices, ServerEnds
<1>3. LeftByServer
  BY <1>1, <1>2, LeavesEffect DEF LeftByServer
<1> QED BY <1>1, <1>2, <1>3 DEF ServerNotices, ServerEnds, NetTypes, Ends

LEMMA SendEffect ==
    ASSUME BaseInv, ServerSend
    PROVE  LET k == Len(srv.log) + 1
               f == [nonce |-> k, packet |-> k]
           IN  /\ srv.phase \in {"down", "live"} /\ k \in ServerPackets
               /\ srv' = [srv EXCEPT !.log = Append(@, k)]
               /\ AnsweredBy(<<PieceMessage(f, 1), PieceMessage(f, 2)>>)
               /\ UNCHANGED <<up, broken>>
<1> DEFINE k == Len(srv.log) + 1
           f == [nonce |-> k, packet |-> k]
           m1 == PieceMessage(f, 1)
           m2 == PieceMessage(f, 2)
<1>1. NetTypes /\ Len(srv.log) \in Nat
  BY DEF BaseInv, NetTypes
<1>2. k \in ServerPackets /\ k \in Nat
  BY <1>1, BoundsAssumption, SMTT(30) DEF ServerSend, ServerPackets
<1>3. f \in R!Frames
  BY <1>2 DEF R!Frames
<1>4. m1 \in DownMessages /\ m2 \in DownMessages
  <2> HIDE DEF f
  <2> QED BY <1>1, <1>3, ServerMessages DEF PieceMessage
<1>5. Answer(srv.sock, <<m1, m2>>)
  BY DEF ServerSend, PieceMessage
<1>6. /\ srv.phase \in {"down", "live"} /\ srv' = [srv EXCEPT !.log = Append(@, k)]
      /\ UNCHANGED <<up, broken>>
  BY DEF ServerSend
<1> SUFFICES AnsweredBy(<<m1, m2>>)
  BY <1>2, <1>6
<1> HIDE DEF m1, m2
<1>7. <<m1, m2>> \in Seq(DownMessages)
  BY <1>4
<1> QED BY <1>1, <1>5, <1>7, AnswerHere

LEMMA PacketsOf ==
    ASSUME NEW frames \in Seq(W!Frames)
    PROVE  LET packets == [i \in 1 .. Len(frames) |-> frames[i].packet] IN
           /\ packets \in Seq(ClientPackets) /\ Len(packets) = Len(frames)
           /\ Len(frames) \in Nat
<1>1. \A f \in W!Frames : f.packet \in ClientPackets
  BY DEF W!Frames
<1>2. \A i \in 1 .. Len(frames) : frames[i] \in W!Frames
  OBVIOUS
<1>3. \A i \in 1 .. Len(frames) : frames[i].packet \in ClientPackets
  BY <1>1, <1>2
<1> QED BY <1>3

LEMMA ServerNet ==
    ASSUME BaseInv, ServerNext \/ \E s \in Streams : Break(s)
    PROVE  NetTypes' /\ \A s \in Streams : ServerUpStep(s)
<1>1. UNCHANGED <<rt, r_socket, r_sequence_number>>
  BY DEF ServerNext, ServerRequest, ServerRefuse, ServerSequence, ServerCatchup,
         ServerReceive, ServerNotices, ServerSend, ServerEnds, Break, reader
<1>2. ASSUME up' \in [Streams -> Seq(UpMessages)], down' \in [Streams -> Seq(DownMessages)],
             broken' \subseteq Streams,
             srv' \in [phase : {"down", "seq", "catchup", "live", "ended"}, sock : Ends,
                       seq : Nat, log : Seq(ServerPackets), got : Seq(ClientPackets)]
      PROVE  NetTypes'
  BY <1>1, <1>2 DEF BaseInv, NetTypes
<1>3. NetTypes
  BY DEF BaseInv
<1>4. ASSUME NEW s \in Streams, ServerRequest(s) \/ ServerRefuse(s)
      PROVE  NetTypes' /\ \A t \in Streams : ServerUpStep(t)
  <2>1. \E ms : Answered(s, ms)
    BY <1>4, RequestEffect, RefuseEffect
  <2>2. \/ UNCHANGED <<srv, broken>>
        \/ /\ srv' = [srv EXCEPT !.phase = "seq", !.sock = s]
           /\ broken' = broken \cup ({srv.sock} \ {NoStream})
    BY <1>4, RequestEffect, RefuseEffect
  <2> QED BY <1>2, <1>3, <2>1, <2>2, ZenonT(40) DEF NetTypes, Answered, ServerUpStep, Ends
<1>5. CASE ServerSequence
  <2>1. /\ srv' = [srv EXCEPT !.phase = "catchup"] /\ TakenByServer /\ broken' = broken
        /\ \E ms : AnsweredBy(ms)
    BY <1>5, SequenceEffect
  <2> QED BY <1>2, <1>3, <2>1 DEF NetTypes, TakenByServer, AnsweredBy, ServerUpStep
<1>6. CASE ServerCatchup
  <2> DEFINE frames == up[srv.sock][1].frames
             packets == [i \in 1 .. Len(frames) |-> frames[i].packet]
  <2>1. /\ TakenByServer /\ UNCHANGED <<down, broken>>
        /\ up[srv.sock][1] \in UpMessages /\ up[srv.sock][1].type = "catchup"
        /\ srv' = [srv EXCEPT !.phase = "live", !.seq = @ + Len(frames), !.got = @ \o packets]
    BY <1>6, CatchupEffect
  <2>2. frames \in Seq(W!Frames)
    BY <2>1, MessageTypes
  <2>3. packets \in Seq(ClientPackets) /\ Len(frames) \in Nat
    BY <2>2, PacketsOf
  <2> HIDE DEF packets, frames
  <2>4. /\ srv.got \o packets \in Seq(ClientPackets)
        /\ srv.seq + Len(frames) \in Nat
    BY <1>3, <2>3, Joined DEF NetTypes
  <2> QED BY <1>2, <1>3, <2>1, <2>4 DEF NetTypes, TakenByServer, ServerUpStep
<1>7. CASE ServerReceive
  <2> DEFINE f == up[srv.sock][1].frame
  <2>1. /\ down' = down /\ srv.sock \in Streams
        /\ up[srv.sock][1] \in UpMessages /\ up[srv.sock][1].type = "frame"
        /\ \/ /\ TakenByServer /\ broken' = broken
              /\ srv' = [srv EXCEPT !.seq = @ + 1, !.got = Append(@, f.packet)]
           \/ /\ LeftByServer /\ broken' = broken \cup {srv.sock}
              /\ srv' = [srv EXCEPT !.phase = "down", !.sock = NoStream]
    BY <1>7, ReceiveEffect
  <2>2. f \in W!Frames
    BY <2>1, MessageTypes
  <2>3. f.packet \in ClientPackets
    BY <2>2 DEF W!Frames
  <2> HIDE DEF f
  <2>4. Append(srv.got, f.packet) \in Seq(ClientPackets) /\ srv.seq + 1 \in Nat
    BY <1>3, <2>3, Appended DEF NetTypes
  <2> QED BY <1>2, <1>3, <2>1, <2>4
          DEF NetTypes, TakenByServer, LeftByServer, ServerUpStep, Ends
<1>8. CASE ServerNotices \/ ServerEnds
  BY <1>2, <1>3, <1>8, LeaveEffect DEF NetTypes, LeftByServer, ServerUpStep, Ends
<1>9. CASE ServerSend
  <2>1. PICK k \in ServerPackets : srv' = [srv EXCEPT !.log = Append(@, k)]
    BY <1>9, SendEffect
  <2>2. Append(srv.log, k) \in Seq(ServerPackets)
    BY <1>3, Appended DEF NetTypes
  <2>3. (\E ms : AnsweredBy(ms)) /\ UNCHANGED <<up, broken>>
    BY <1>9, SendEffect
  <2> QED BY <1>2, <1>3, <2>1, <2>2, <2>3 DEF NetTypes, AnsweredBy, ServerUpStep
<1>10. CASE \E s \in Streams : Break(s)
  BY <1>2, <1>3, <1>10 DEF Break, NetTypes, ServerUpStep
<1> QED BY <1>4, <1>5, <1>6, <1>7, <1>8, <1>9, <1>10 DEF ServerNext

LEMMA InitNet == Init => NetTypes
<1> SUFFICES ASSUME Init PROVE NetTypes
  OBVIOUS
<1>1. /\ << >> \in Seq(UpMessages) /\ << >> \in Seq(DownMessages)
      /\ << >> \in Seq(ServerPackets) /\ << >> \in Seq(ClientPackets)
  OBVIOUS
<1>2. /\ up \in [Streams -> Seq(UpMessages)] /\ down \in [Streams -> Seq(DownMessages)]
      /\ broken = {}
  BY <1>1 DEF Init
<1>3. r_socket \in Streams /\ r_socket = w_socket /\ r_sequence_number = 0
  BY DEF Init, R!Init
<1>4. srv = [phase |-> "live", sock |-> w_socket, seq |-> 0, log |-> << >>, got |-> << >>]
  BY DEF Init
<1>5. rt = Thread("none")
  BY DEF Init
<1> QED BY <1>1, <1>2, <1>3, <1>4, <1>5, ThreadTypes DEF NetTypes, Ends

LEMMA StepNet == BaseInv /\ [Next]_vars => NetTypes'
<1> SUFFICES ASSUME BaseInv, [Next]_vars PROVE NetTypes'
  OBVIOUS
<1>1. CASE UNCHANGED vars
  BY <1>1 DEF BaseInv, NetTypes, vars, reader, network
<1> QED BY <1>1, SessionNet, ReconnectNet, ServerNet DEF Next

-----------------------------------------------------------------------------
(* Who holds which connection. *)

LEMMA InitHold == Init => HoldInv
<1> SUFFICES ASSUME Init PROVE HoldInv
  OBVIOUS
<1>1. /\ r_socket = w_socket /\ w_socket \in Streams /\ w_socket # NoStream
      /\ rt.pc = "none" /\ rt.stream = NoStream
  BY NoStreamAssumption DEF Init, W!Init, Thread
<1>2. /\ \A s \in Streams : up[s] = << >> /\ down[s] = << >>
      /\ srv.sock = w_socket /\ srv.phase = "live"
  BY DEF Init
<1>3. ASSUME NEW s \in Streams PROVE ~Requested(s)
  <2>1. Len(up[s]) = 0
    BY <1>2
  <2> QED BY <2>1 DEF Requested
<1> QED BY <1>1, <1>2, <1>3 DEF HoldInv, ServerHold

\* A queue that gains no request has none, if it had none or is emptied.
LEMMA RequestedBefore ==
    ASSUME BaseInv, NEW s \in Streams, Requested(s)', ClientUpStep(s) \/ ServerUpStep(s)
    PROVE  \/ up'[s] = up[s] /\ Requested(s)
           \/ Dial /\ rt'.stream = s /\ Fresh(s) /\ up'[s] = <<[type |-> "request"]>>
<1>1. up[s] \in Seq(UpMessages) /\ Len(up[s]) \in Nat
  BY DEF BaseInv, NetTypes
<1>2. PICK i \in 1 .. Len(up'[s]) : up'[s][i].type = "request"
  BY DEF Requested
<1>3. CASE up'[s] = up[s]
  BY <1>3 DEF Requested
<1>4. CASE up'[s] = << >>
  BY <1>2, <1>4
<1>5. ASSUME NEW m, m.type # "request", up'[s] = Append(up[s], m), ~Requested(s)
      PROVE  FALSE
  <2>1. /\ Len(up'[s]) = Len(up[s]) + 1 /\ up'[s][Len(up[s]) + 1] = m
        /\ \A j \in 1 .. Len(up[s]) : up'[s][j] = up[s][j]
    BY <1>1, <1>5
  <2>2. i \in 1 .. Len(up[s]) \/ i = Len(up[s]) + 1
    BY <1>1, <1>2, <2>1
  <2> QED BY <1>2, <1>5, <2>1, <2>2 DEF Requested
<1>6. CASE up[s] # << >> /\ up'[s] = Tail(up[s])
  <2>1. /\ Len(up'[s]) = Len(up[s]) - 1
        /\ \A j \in 1 .. Len(up[s]) - 1 : up'[s][j] = up[s][j + 1]
    BY <1>1, <1>6, Tailed
  <2>2. i + 1 \in 1 .. Len(up[s]) /\ i \in 1 .. Len(up[s]) - 1
    BY <1>1, <1>2, <2>1
  <2>3. up[s][i + 1].type = "request"
    BY <1>2, <2>1, <2>2
  <2>4. Len(up[s]) = 1
    BY <2>2, <2>3 DEF BaseInv, HoldInv, Requested, Dialled
  <2> QED BY <1>1, <2>2, <2>4
<1>7. CASE SendSequence /\ rt.stream = s
           /\ up'[s] = Append(up[s], [type |-> "seq", n |-> AsI32(r_sequence_number)])
  <2>1. ~Requested(s)
    BY <1>7 DEF SendSequence, BaseInv, HoldInv, Dialled
  <2> QED BY <1>5, <1>7, <2>1
<1>8. CASE Recover /\ rt.stream = s
           /\ up'[s] = Append(up[s], [type |-> "catchup", frames |-> W!Recovered(rt.remote)])
  <2>1. ~Requested(s)
    BY <1>8 DEF Recover, BaseInv, HoldInv, Dialled
  <2> QED BY <1>5, <1>8, <2>1
<1>9. CASE WriteSent /\ w_socket = s
           /\ up'[s] = Append(up[s], [type |-> "frame", frame |-> W!Encrypted(submitted)])
  <2>1. ~Requested(s)
    <3>1. s = r_socket
      BY <1>9, NoStreamAssumption DEF BaseInv, HoldInv
    <3> QED BY <3>1 DEF BaseInv, HoldInv, Dialled
  <2> QED BY <1>5, <1>9, <2>1
<1> QED BY <1>3, <1>4, <1>6, <1>7, <1>8, <1>9 DEF ClientUpStep, ServerUpStep

\* Steps in which nobody comes to a connection, and the client lets go of none it
\* does not drop.
LEMMA HoldKept ==
    ASSUME BaseInv, ~Dial,
           \A s \in Streams : ClientUpStep(s) \/ ServerUpStep(s),
           \A s \in Streams : Requested(s) /\ up'[s] = up[s] => Dialled(s)',
           w_socket' \in {NoStream, r_socket'},
           rt'.stream # NoStream => Handshaking' \/ rt'.pc \in {"revive_writer", "announce"},
           rt'.pc = "announce" => r_socket' = rt'.stream,
           \A s \in Streams : ~ClientHolds(s)' => down'[s] = << >>,
           ServerHold'
    PROVE  HoldInv'
<1>1. \A s \in Streams : Requested(s)' => Dialled(s)'
  BY RequestedBefore
<1> QED BY <1>1 DEF HoldInv

LEMMA SessionHold ==
    ASSUME BaseInv, SessionNext, \A s \in Streams : ClientUpStep(s)
    PROVE  HoldInv'
<1>0. ~Dial /\ UNCHANGED srv /\ w_socket \in {NoStream, r_socket}
  <2>1. UNCHANGED srv
    BY DEF SessionNext, WritePacket, WriteCheck, WriteTurnedAway, WriteKept,
           WriteSent, WriteFailed, ReadWithoutSocket, ReadFrame, ReadPartial, ReadClosed,
           ForceReconnect, CloseAndMaybeReconnect, Shutdown, ShutdownJoined, Stopped, vars
  <2>2. UNCHANGED rt \/ \E pc \in {"none", "loop"} : rt' = Thread(pc)
    BY DEF SessionNext, WritePacket, WriteCheck, WriteTurnedAway, WriteKept,
           WriteSent, WriteFailed, ReadWithoutSocket, ReadFrame, ReadPartial, ReadClosed,
           ForceReconnect, CloseAndMaybeReconnect, Shutdown, ShutdownJoined, Stopped, vars
  <2>3. Dial => rt.pc = "loop" /\ rt'.pc = "response"
    BY DEF Dial, BaseInv, NetTypes
  <2>4. ~Dial
    BY <2>2, <2>3, ThreadTypes
  <2> QED BY <2>1, <2>4 DEF BaseInv, HoldInv
<1>1. ASSUME UNCHANGED <<rt, r_socket>>, w_socket' \in {NoStream, w_socket},
             \A s \in Streams : down'[s] = down[s] \/ s = r_socket
      PROVE  HoldInv'
  <2>1. ASSUME NEW s \in Streams, Requested(s), up'[s] = up[s] PROVE Dialled(s)'
    BY <1>0, <1>1, <2>1 DEF BaseInv, HoldInv, Dialled
  <2>2. ASSUME NEW s \in Streams, ~ClientHolds(s)' PROVE down'[s] = << >>
    <3>1. ~ClientHolds(s) /\ s # r_socket
      BY <1>0, <1>1, <2>2, NoStreamAssumption DEF ClientHolds
    <3> QED BY <1>1, <3>1 DEF BaseInv, HoldInv
  <2>3. ServerHold'
    BY <1>0 DEF BaseInv, HoldInv, ServerHold
  <2> QED BY <1>0, <1>1, <2>1, <2>2, <2>3, HoldKept DEF BaseInv, HoldInv, Handshaking
<1>2. CASE WritePacket \/ WriteCheck \/ ForceReconnect \/ Shutdown \/ Stopped
  BY <1>1, <1>2 DEF WritePacket, WriteCheck, ForceReconnect, Shutdown, Stopped, vars,
                    reader, writer, network
<1>3. CASE WriteTurnedAway \/ WriteKept \/ WriteSent
  <2>1. UNCHANGED w_socket
    BY <1>3, WriteSockets DEF WriteTurnedAway, WriteKept, WriteSent
  <2> QED BY <1>1, <1>3, <2>1 DEF WriteTurnedAway, WriteKept, WriteSent, reader, network
<1>4. CASE WriteFailed
  BY <1>1, <1>4 DEF WriteFailed, W!WriteFailed, reader, network
<1>5. CASE ReadWithoutSocket \/ ReadClosed
  BY <1>1, <1>5 DEF ReadWithoutSocket, ReadClosed, R!ReadIdle, R!ReadBuffered,
                    R!ReadClosed, R!ReadPartial, R!vars, writer, network
<1>6. CASE ReadFrame \/ ReadPartial
  <2>1. UNCHANGED <<rt, r_socket, w_socket>>
    BY <1>6 DEF ReadFrame, ReadPartial, R!ReadFrame, R!ReadPartial, writer
  <2>2. \A s \in Streams : down'[s] = down[s] \/ s = r_socket
    BY <1>6 DEF ReadFrame, ReadPartial, BaseInv, NetTypes
  <2> QED BY <1>1, <2>1, <2>2
<1>7. CASE CloseAndMaybeReconnect \/ ShutdownJoined
  <2>1. /\ r_socket' = NoStream /\ w_socket' = NoStream
        /\ Drop({r_socket, w_socket}) /\ Joinable
        /\ \E pc \in {"none", "loop"} : rt' = Thread(pc)
    BY <1>7 DEF CloseAndMaybeReconnect, ShutdownJoined, InvalidateBoth, R!InvalidateSocket,
                W!InvalidateSocket
  <2>2. {r_socket, w_socket} \in SUBSET Ends
    BY DEF BaseInv, NetTypes, WriterInv, W!TypeOK, Ends
  <2>3. \A s \in Streams : down'[s] = IF s \in {r_socket, w_socket} THEN << >> ELSE down[s]
    BY <2>1, <2>2, DropEffect DEF BaseInv
  <2>4. rt.stream = NoStream /\ rt'.stream = NoStream /\ rt'.pc # "announce"
    BY <2>1, ThreadTypes DEF Joinable, BaseInv, HoldInv, Handshaking
  <2>5. ASSUME NEW s \in Streams PROVE down'[s] = << >>
    <3>1. CASE s \in {r_socket, w_socket}
      BY <2>3, <3>1
    <3>2. CASE s \notin {r_socket, w_socket}
      <4>1. ~ClientHolds(s)
        BY <2>4, <3>2 DEF ClientHolds
      <4> QED BY <2>3, <3>2, <4>1 DEF BaseInv, HoldInv
    <3> QED BY <3>1, <3>2
  <2>6. ASSUME NEW s \in Streams, Requested(s), up'[s] = up[s] PROVE Dialled(s)'
    BY <1>0, <2>1, <2>4, <2>5, <2>6, NoStreamAssumption DEF BaseInv, HoldInv, Dialled
  <2>7. ServerHold'
    BY <1>0 DEF BaseInv, HoldInv, ServerHold
  <2> QED BY <1>0, <2>1, <2>4, <2>5, <2>6, <2>7, HoldKept
<1> QED BY <1>2, <1>3, <1>4, <1>5, <1>6, <1>7 DEF SessionNext

LEMMA ReconnectHold ==
    ASSUME BaseInv, ReconnectNext, \A s \in Streams : ClientUpStep(s)
    PROVE  HoldInv'
<1>0. UNCHANGED srv
  BY DEF ReconnectNext, Leave, Dial, AwaitResponse, SendSequence, AwaitSequence, Recover,
         ReviveReader, ReviveWriter, Announce, AttemptBroken, AttemptTimesOut
<1>1. ServerHold'
  BY <1>0 DEF BaseInv, HoldInv, ServerHold
<1>2. Handshaking => /\ rt.stream \in Streams /\ rt.stream # NoStream
                     /\ r_socket = NoStream /\ w_socket = NoStream
  BY DEF BaseInv, HalvesInv, BothOn, NetTypes, Ends
<1>3. ASSUME Leave \/ Announce PROVE HoldInv'
  <2>1. /\ rt' = Thread("done") /\ UNCHANGED <<r_socket, w_socket, up, down>>
        /\ rt.pc \in {"loop", "announce"}
    BY <1>3 DEF Leave, Announce, reader, writer, network
  <2>2. rt'.pc = "done" /\ rt'.stream = NoStream /\ rt.stream \in {NoStream, r_socket}
    BY <2>1, ThreadTypes DEF BaseInv, HoldInv, Handshaking
  <2>3. ~Dial
    BY <2>2 DEF Dial, BaseInv, NetTypes
  <2>4. ASSUME NEW s \in Streams, Requested(s) PROVE Dialled(s)'
    BY <1>0, <2>1, <2>2, <2>4, NoStreamAssumption DEF BaseInv, HoldInv, Dialled
  <2>5. ASSUME NEW s \in Streams, ~ClientHolds(s)' PROVE down'[s] = << >>
    <3>1. ~ClientHolds(s)
      BY <2>1, <2>2, <2>5 DEF ClientHolds
    <3> QED BY <2>1, <3>1 DEF BaseInv, HoldInv
  <2> QED BY <1>1, <2>1, <2>2, <2>3, <2>4, <2>5, HoldKept DEF BaseInv, HoldInv
<1>4. ASSUME Handshaking, Drop({rt.stream}), UNCHANGED <<r_socket, w_socket>>,
             \E pc \in {"loop", "done"} : rt' = Thread(pc)
      PROVE  HoldInv'
  <2>1. {rt.stream} \in SUBSET Ends
    BY DEF BaseInv, NetTypes
  <2>2. \A s \in Streams : down'[s] = IF s = rt.stream THEN << >> ELSE down[s]
    BY <1>4, <2>1, DropEffect DEF BaseInv
  <2>3. rt'.pc \in {"loop", "done"} /\ rt'.stream = NoStream
    BY <1>4, ThreadTypes
  <2>4. ~Dial
    BY <2>3 DEF Dial, BaseInv, NetTypes
  <2>5. ASSUME NEW s \in Streams PROVE down'[s] = << >>
    BY <1>2, <1>4, <2>2, NoStreamAssumption DEF BaseInv, HoldInv, ClientHolds
  <2>6. ASSUME NEW s \in Streams, Requested(s), up'[s] = up[s] PROVE Dialled(s)'
    BY <1>0, <1>4, <2>3, <2>5, <2>6, NoStreamAssumption DEF BaseInv, HoldInv, Dialled
  <2> QED BY <1>1, <1>2, <1>4, <2>3, <2>4, <2>5, <2>6, HoldKept
<1>5. ASSUME Handshaking, UNCHANGED <<r_socket, w_socket>>, ~Dial, Handshaking',
             rt'.stream = rt.stream, ~Requested(rt.stream),
             \A s \in Streams : down'[s] = down[s] \/ s = rt.stream
      PROVE  HoldInv'
  <2>1. rt'.pc # "announce"
    BY <1>5 DEF Handshaking
  <2>2. ASSUME NEW s \in Streams, Requested(s), up'[s] = up[s] PROVE Dialled(s)'
    BY <1>0, <1>5, <2>2 DEF BaseInv, HoldInv, Dialled
  <2>3. ASSUME NEW s \in Streams, ~ClientHolds(s)' PROVE down'[s] = << >>
    <3>1. ~ClientHolds(s) /\ s # rt.stream
      BY <1>2, <1>5, <2>3, NoStreamAssumption DEF ClientHolds
    <3> QED BY <1>5, <3>1 DEF BaseInv, HoldInv
  <2> QED BY <1>1, <1>2, <1>5, <2>1, <2>2, <2>3, HoldKept
<1>6. CASE AttemptBroken \/ AttemptTimesOut
  BY <1>4, <1>6 DEF AttemptBroken, AttemptTimesOut, AttemptOver, reader, writer
<1>7. CASE Dial
  <2>1. PICK s \in Streams :
           /\ Fresh(s) /\ rt' = [rt EXCEPT !.pc = "response", !.stream = s]
           /\ up' = [up EXCEPT ![s] = <<[type |-> "request"]>>]
           /\ UNCHANGED <<r_socket, w_socket, down>> /\ rt.pc = "loop"
    BY <1>7 DEF Dial, reader, writer
  <2>2. rt'.pc = "response" /\ rt'.stream = s
    BY <2>1 DEF BaseInv, NetTypes
  <2>3. /\ r_socket = NoStream /\ w_socket = NoStream /\ rt.stream = NoStream
    BY <2>1 DEF BaseInv, HalvesInv, BothOn, HoldInv, Handshaking
  <2>4. down[s] = << >> /\ s # srv.sock /\ s # r_socket /\ s # NoStream
    BY <2>1, <2>3, NoStreamAssumption DEF Fresh, BaseInv, HoldInv
  <2>5. up'[s] = <<[type |-> "request"]>> /\ \A t \in Streams : t # s => up'[t] = up[t]
    BY <2>1 DEF BaseInv, NetTypes
  <2>6. ASSUME NEW t \in Streams, Requested(t)' PROVE Dialled(t)'
    <3>1. CASE t = s
      <4>1. Len(up'[s]) = 1
        BY <2>5
      <4> QED BY <1>0, <2>1, <2>2, <2>4, <3>1, <4>1 DEF Dialled
    <3>2. CASE t # s
      <4>1. Requested(t) /\ up'[t] = up[t]
        BY <2>5, <2>6, <3>2 DEF Requested
      <4> QED BY <1>0, <2>1, <2>2, <3>2, <4>1 DEF BaseInv, HoldInv, Dialled
    <3> QED BY <3>1, <3>2
  <2>7. ASSUME NEW t \in Streams, ~ClientHolds(t)' PROVE down'[t] = << >>
    <3>1. ~ClientHolds(t)
      BY <2>1, <2>3, <2>7, NoStreamAssumption DEF ClientHolds
    <3> QED BY <2>1, <3>1 DEF BaseInv, HoldInv
  <2> QED BY <1>1, <2>1, <2>2, <2>3, <2>6, <2>7 DEF HoldInv, Handshaking
<1>8. CASE AwaitResponse
  <2>1. /\ Handshaking /\ rt.pc = "response" /\ down[rt.stream] # << >>
        /\ UNCHANGED <<r_socket, w_socket>>
    BY <1>8 DEF AwaitResponse, Handshaking, Has, reader, writer
  <2>2. CASE Drop({rt.stream}) /\ \E pc \in {"loop", "done"} : rt' = Thread(pc)
    BY <1>4, <2>1, <2>2
  <2>3. CASE rt' = [rt EXCEPT !.pc = "sample"] /\ down' = Take(down, rt.stream)
    <3>1. rt'.pc = "sample" /\ rt'.stream = rt.stream
      BY <2>3 DEF BaseInv, NetTypes
    <3>2. ~Dial
      BY <3>1 DEF Dial, BaseInv, NetTypes
    <3>3. ~Requested(rt.stream)
      BY <1>2, <2>1 DEF BaseInv, HoldInv, Dialled
    <3>4. \A s \in Streams : down'[s] = down[s] \/ s = rt.stream
      BY <2>3 DEF Take, BaseInv, NetTypes
    <3> QED BY <1>5, <2>1, <3>1, <3>2, <3>3, <3>4 DEF Handshaking
  <2> QED BY <1>8, <2>2, <2>3 DEF AwaitResponse, AttemptOver
<1>9. CASE SendSequence \/ AwaitSequence
  <2>1. /\ rt'.pc \in {"header", "recover"} /\ rt'.stream = rt.stream
        /\ rt.pc \in {"sample", "header"} /\ UNCHANGED <<r_socket, w_socket>>
    BY <1>9 DEF SendSequence, AwaitSequence, BaseInv, NetTypes, reader, writer
  <2>2. ~Dial
    BY <2>1 DEF Dial, BaseInv, NetTypes
  <2>3. ~Requested(rt.stream)
    BY <1>2, <2>1 DEF BaseInv, HoldInv, Dialled, Handshaking
  <2>4. \A s \in Streams : down'[s] = down[s] \/ s = rt.stream
    BY <1>9 DEF SendSequence, AwaitSequence, Take, BaseInv, NetTypes
  <2> QED BY <1>5, <2>1, <2>2, <2>3, <2>4 DEF Handshaking
<1>10. CASE Recover
  <2>1. Handshaking /\ rt.pc = "recover" /\ UNCHANGED <<r_socket, w_socket>>
    BY <1>10 DEF Recover, Handshaking, reader, writer
  <2>2. CASE AttemptOver
    BY <1>4, <2>1, <2>2 DEF AttemptOver
  <2>3. CASE rt' = [rt EXCEPT !.pc = "catchup", !.upto = w_sequence_number] /\ down' = down
    <3>1. rt'.pc = "catchup" /\ rt'.stream = rt.stream
      BY <2>3 DEF BaseInv, NetTypes
    <3>2. ~Dial
      BY <3>1 DEF Dial, BaseInv, NetTypes
    <3>3. ~Requested(rt.stream)
      BY <1>2, <2>1 DEF BaseInv, HoldInv, Dialled
    <3> QED BY <1>5, <2>1, <2>3, <3>1, <3>2, <3>3 DEF Handshaking
  <2> QED BY <1>10, <2>2, <2>3 DEF Recover
<1>11. CASE ReviveReader \/ ReviveWriter
  <2>1. /\ rt'.stream = rt.stream /\ rt.stream \in Streams /\ rt.stream # NoStream
        /\ rt.pc \in {"catchup", "revive_writer"}
        /\ rt'.pc \in {"revive_writer", "announce"}
        /\ r_socket' = rt.stream /\ w_socket' \in {NoStream, rt.stream}
    <3>1. CASE ReviveReader
      BY <1>2, <3>1 DEF ReviveReader, R!Revive, Handshaking, BaseInv, NetTypes, writer
    <3>2. CASE ReviveWriter
      BY <3>2 DEF ReviveWriter, W!Revive, BaseInv, NetTypes, HalvesInv, Ends, reader
    <3> QED BY <1>11, <3>1, <3>2
  <2>2. ~Dial
    BY <2>1 DEF Dial
  <2>3. \A s \in Streams : down'[s] = down[s] \/ s = rt.stream
    BY <1>11 DEF ReviveReader, ReviveWriter, Take, network, BaseInv, NetTypes
  <2>4. ASSUME NEW s \in Streams, Requested(s) PROVE Dialled(s) /\ s # rt.stream
    BY <2>1, <2>4 DEF BaseInv, HoldInv, Dialled
  <2>5. ASSUME NEW s \in Streams, Requested(s), up'[s] = up[s] PROVE Dialled(s)'
    BY <1>0, <2>1, <2>3, <2>4, <2>5 DEF Dialled
  <2>6. ASSUME NEW s \in Streams, ~ClientHolds(s)' PROVE down'[s] = << >>
    <3>1. s # rt.stream
      BY <2>1, <2>6 DEF ClientHolds
    <3>2. ~ClientHolds(s)
      <4>1. r_socket \in {NoStream, rt.stream} /\ w_socket \in {NoStream, r_socket}
        BY <1>2, <2>1 DEF BaseInv, HoldInv, HalvesInv, Handshaking
      <4> QED BY <3>1, <4>1 DEF ClientHolds
    <3> QED BY <2>3, <3>1, <3>2 DEF BaseInv, HoldInv
  <2> QED BY <1>1, <2>1, <2>2, <2>5, <2>6, HoldKept
<1> QED BY <1>3, <1>6, <1>7, <1>8, <1>9, <1>10, <1>11 DEF ReconnectNext

LEMMA ServerHolds ==
    ASSUME BaseInv, ServerNext \/ \E s \in Streams : Break(s),
           \A s \in Streams : ServerUpStep(s)
    PROVE  HoldInv'
<1>0. UNCHANGED <<rt, r_socket, w_socket>>
  BY DEF ServerNext, ServerRequest, ServerRefuse, ServerSequence, ServerCatchup,
         ServerReceive, ServerNotices, ServerSend, ServerEnds, Break, reader, writer
<1>1. /\ ~Dial /\ w_socket' \in {NoStream, r_socket'}
      /\ rt'.stream # NoStream => Handshaking' \/ rt'.pc \in {"revive_writer", "announce"}
      /\ rt'.pc = "announce" => r_socket' = rt'.stream
  BY <1>0 DEF Dial, BaseInv, NetTypes, HoldInv, Handshaking
<1>2. \A s : ClientHolds(s)' <=> ClientHolds(s)
  BY <1>0 DEF ClientHolds
<1>3. ASSUME \A s \in Streams : ~ClientHolds(s) => down'[s] = down[s],
             \A s \in Streams : Requested(s) /\ up'[s] = up[s] =>
                                    down'[s] = down[s] /\ s # srv'.sock,
             ServerHold'
      PROVE  HoldInv'
  <2>1. ASSUME NEW s \in Streams, Requested(s), up'[s] = up[s] PROVE Dialled(s)'
    BY <1>0, <1>3, <2>1 DEF BaseInv, HoldInv, Dialled
  <2>2. \A s \in Streams : ~ClientHolds(s)' => down'[s] = << >>
    BY <1>2, <1>3 DEF BaseInv, HoldInv
  <2> QED BY <1>1, <1>3, <2>1, <2>2, HoldKept
<1>4. /\ ServerHold /\ srv.sock \in Ends
      /\ \A s \in Streams : Requested(s) => s # srv.sock
  BY DEF BaseInv, HoldInv, Dialled, NetTypes
<1>5. \A phase, sock : LET r == [srv EXCEPT !.phase = phase, !.sock = sock]
                       IN  r.phase = phase /\ r.sock = sock
  BY DEF BaseInv, NetTypes
<1>6. ASSUME NEW s \in Streams, ServerRequest(s) \/ ServerRefuse(s)
      PROVE  HoldInv'
  <2>1. PICK ms : Answered(s, ms)
    BY <1>6, RequestEffect, RefuseEffect
  <2>2. srv' = srv \/ (srv' = [srv EXCEPT !.phase = "seq", !.sock = s] /\ s # NoStream)
    BY <1>6, RequestEffect, RefuseEffect, NoStreamAssumption
  <2>3. ServerHold' /\ srv'.sock \in {srv.sock, s}
    <3>1. CASE srv' = srv
      BY <1>4, <3>1 DEF ServerHold
    <3>2. CASE srv' = [srv EXCEPT !.phase = "seq", !.sock = s] /\ s # NoStream
      <4>1. srv'.phase = "seq" /\ srv'.sock = s
        BY <3>2 DEF BaseInv, NetTypes
      <4> QED BY <3>2, <4>1 DEF ServerHold
    <3> QED BY <2>2, <3>1, <3>2
  <2>4. ~Requested(s)'
    <3>1. Len(up'[s]) = 0
      BY <2>1 DEF Answered
    <3> QED BY <3>1 DEF Requested
  <2>5. ASSUME NEW t \in Streams, Requested(t), up'[t] = up[t]
        PROVE  down'[t] = down[t] /\ t # srv'.sock
    <3>1. t # s
      BY <2>4, <2>5 DEF Requested
    <3> QED BY <1>4, <2>1, <2>3, <2>5, <3>1 DEF Answered
  <2>6. \A t \in Streams : ~ClientHolds(t) => down'[t] = down[t]
    BY <2>1 DEF Answered
  <2> QED BY <1>3, <2>3, <2>5, <2>6
<1>7. ASSUME down' = down \/ \E ms : AnsweredBy(ms),
             \/ srv' = srv
             \/ srv'.sock = srv.sock /\ srv'.phase \in {"catchup", "live"} /\ srv.sock # NoStream
             \/ srv'.sock = srv.sock /\ srv'.phase = srv.phase
             \/ srv'.sock = NoStream /\ srv'.phase \in {"down", "ended"}
      PROVE  HoldInv'
  <2>1. ServerHold' /\ srv'.sock \in {srv.sock, NoStream}
    BY <1>4, <1>7 DEF ServerHold
  <2>2. \A t \in Streams : ~ClientHolds(t) \/ t # srv.sock => down'[t] = down[t]
    BY <1>7 DEF AnsweredBy
  <2>3. \A t \in Streams : Requested(t) => t # srv'.sock
    BY <1>4, <2>1, NoStreamAssumption
  <2> QED BY <1>3, <1>4, <2>1, <2>2, <2>3
<1>8. CASE ServerSequence
  <2>1. srv' = [srv EXCEPT !.phase = "catchup"] /\ srv.phase = "seq" /\ \E ms : AnsweredBy(ms)
    BY <1>8, SequenceEffect
  <2>2. srv'.sock = srv.sock /\ srv'.phase = "catchup"
    BY <2>1 DEF BaseInv, NetTypes
  <2> QED BY <1>4, <1>7, <2>1, <2>2 DEF ServerHold
<1>9. CASE ServerCatchup
  <2>1. /\ srv.phase = "catchup" /\ down' = down
        /\ srv'.sock = srv.sock /\ srv'.phase = "live"
    BY <1>9, CatchupEffect DEF BaseInv, NetTypes
  <2> QED BY <1>4, <1>7, <2>1 DEF ServerHold
<1>10. CASE ServerReceive
  <2>1. /\ srv.phase = "live" /\ down' = down
        /\ \/ srv'.sock = srv.sock /\ srv'.phase = srv.phase
           \/ srv'.sock = NoStream /\ srv'.phase = "down"
    BY <1>10, ReceiveEffect DEF BaseInv, NetTypes
  <2> QED BY <1>7, <2>1
<1>11. CASE ServerNotices \/ ServerEnds
  <2>1. PICK phase \in {"down", "ended"} : srv' = [srv EXCEPT !.phase = phase, !.sock = NoStream]
    BY <1>11, LeaveEffect
  <2>2. srv'.sock = NoStream /\ srv'.phase \in {"down", "ended"} /\ down' = down
    BY <1>5, <1>11, <2>1, LeaveEffect
  <2> QED BY <1>7, <2>2
<1>12. CASE ServerSend
  <2>1. (\E ms : AnsweredBy(ms)) /\ \E k : srv' = [srv EXCEPT !.log = Append(@, k)]
    BY <1>12, SendEffect
  <2>2. srv'.sock = srv.sock /\ srv'.phase = srv.phase
    BY <2>1 DEF BaseInv, NetTypes
  <2> QED BY <1>7, <2>1, <2>2
<1>13. CASE \E s \in Streams : Break(s)
  BY <1>7, <1>13 DEF Break
<1> QED BY <1>6, <1>8, <1>9, <1>10, <1>11, <1>12, <1>13 DEF ServerNext

LEMMA StepHold == BaseInv /\ [Next]_vars => HoldInv'
<1> SUFFICES ASSUME BaseInv, [Next]_vars PROVE HoldInv'
  OBVIOUS
<1>1. CASE UNCHANGED vars
  BY <1>1 DEF BaseInv, HoldInv, ServerHold, Requested, Dialled, ClientHolds, Handshaking, vars,
              reader, writer, network
<1> QED BY <1>1, SessionNet, SessionHold, ReconnectNet, ReconnectHold, ServerNet, ServerHolds
        DEF Next

-----------------------------------------------------------------------------
(* The writer's half is a BackedWriter. *)

LEMMA InitWriter == Init => WriterInv
<1> SUFFICES ASSUME Init PROVE WriterInv
  OBVIOUS
<1>1. /\ w_socket \in Streams /\ w_backup = << >> /\ w_backup_size = 0
      /\ w_disconnected_bytes = 0 /\ w_sequence_number = 0 /\ w_nonce = 0
      /\ w_accepted = << >> /\ w_offset = 0
  BY DEF Init, W!Init
<1>2. Len(w_backup) = 0 /\ Len(w_accepted) = 0
  BY <1>1
<1>3. W!TypeOK
  BY <1>1 DEF W!TypeOK
<1> QED BY <1>1, <1>2, <1>3 DEF WriterInv, W!BackupIsRecentHistory, SizesInv, W!Bytes

\* What the client does with the writer, of all that BackedWriter allows: it
\* revives it only when its socket is gone.
LEMMA StepWriter == BaseInv /\ [Next]_vars => WriterInv' /\ [W!Next]_(W!vars)
<1> SUFFICES ASSUME BaseInv, [Next]_vars PROVE WriterInv' /\ [W!Next]_(W!vars)
  OBVIOUS
<1>1. ASSUME UNCHANGED writer PROVE WriterInv' /\ UNCHANGED W!vars
  <2>1. W!TypeOK'
    BY <1>1 DEF writer, BaseInv, WriterInv, W!TypeOK, W!Frames
  <2>2. W!BackupIsRecentHistory'
    BY <1>1 DEF writer, BaseInv, WriterInv, W!BackupIsRecentHistory
  <2>3. SizesInv'
    BY <1>1 DEF writer, BaseInv, WriterInv, SizesInv, frame_length, W!Bytes, W!FrameLength
  <2> QED BY <1>1, <2>1, <2>2, <2>3 DEF WriterInv, writer, W!vars
<1>2. CASE \/ WritePacket \/ WriteCheck \/ ReadWithoutSocket \/ ReadFrame \/ ReadPartial
           \/ ReadClosed \/ ForceReconnect \/ Shutdown \/ Stopped \/ UNCHANGED vars
  BY <1>1, <1>2 DEF WritePacket, WriteCheck, ReadWithoutSocket, ReadFrame, ReadPartial,
                    ReadClosed, ForceReconnect, Shutdown, Stopped, vars
<1>3. main.pc = "write" => submitted \in ClientPackets
  BY DEF BaseInv, MainTypes, Offering
<1>4. CASE WriteTurnedAway
  <2>1. W!WriteSkipped(submitted)
    BY <1>4 DEF WriteTurnedAway
  <2>2. UNCHANGED writer
    BY <2>1 DEF W!WriteSkipped, W!vars, writer
  <2> QED BY <1>1, <2>2
<1>5. CASE WriteKept \/ WriteSent \/ WriteFailed
  <2>1. /\ submitted \in ClientPackets
        /\ W!WriteBuffered(submitted) \/ W!WriteSuccess(submitted) \/ W!WriteFailed(submitted)
    BY <1>3, <1>5 DEF WriteKept, WriteSent, WriteFailed
  <2>2. W!Next
    BY <2>1 DEF W!Next
  <2>3. W!Accept(submitted)
    BY <2>1 DEF W!WriteBuffered, W!WriteSuccess, W!WriteFailed
  <2>4. w_socket' \in Streams \cup {NoStream}
    BY <2>1 DEF W!WriteBuffered, W!WriteSuccess, W!WriteFailed, BaseInv, WriterInv, W!TypeOK
  <2>5. w_disconnected_bytes' \in Nat
    <3>1. W!FrameLength(W!Encrypted(submitted)) \in Nat /\ w_disconnected_bytes \in Nat
      BY <2>1, LengthOfFrame DEF BaseInv, WriterInv, W!TypeOK
    <3> QED BY <2>1, <3>1 DEF W!WriteBuffered, W!WriteSuccess, W!WriteFailed
  <2> QED BY <2>1, <2>2, <2>3, <2>4, <2>5, AcceptWriter DEF BaseInv
<1>6. ASSUME w_socket' \in Streams \cup {NoStream}, w_disconnected_bytes' \in Nat,
             UNCHANGED <<w_backup, w_backup_size, w_sequence_number, w_nonce, w_accepted, w_offset>>
      PROVE  WriterInv'
  <2>1. W!TypeOK'
    BY <1>6 DEF BaseInv, WriterInv, W!TypeOK, W!Frames
  <2>2. W!BackupIsRecentHistory'
    BY <1>6 DEF BaseInv, WriterInv, W!BackupIsRecentHistory
  <2>3. SizesInv'
    BY <1>6 DEF BaseInv, WriterInv, SizesInv, frame_length, W!Bytes, W!FrameLength
  <2> QED BY <2>1, <2>2, <2>3 DEF WriterInv
<1>7. CASE CloseAndMaybeReconnect \/ ShutdownJoined
  <2>1. W!InvalidateSocket
    BY <1>7 DEF CloseAndMaybeReconnect, ShutdownJoined, InvalidateBoth
  <2> QED BY <1>6, <2>1 DEF W!InvalidateSocket, W!Next, BaseInv, WriterInv, W!TypeOK
<1>8. CASE ReviveWriter
  <2>1. W!Revive(rt.stream) /\ w_socket = NoStream /\ rt.stream \in Streams
    BY <1>8 DEF ReviveWriter, BaseInv, HalvesInv, NetTypes, Ends
  <2> QED BY <1>6, <2>1 DEF W!Revive, W!Next
<1>9. CASE ReconnectNext /\ ~ReviveWriter
  BY <1>1, <1>9 DEF ReconnectNext, Leave, Dial, AwaitResponse, SendSequence, AwaitSequence,
                    Recover, ReviveReader, Announce, AttemptBroken, AttemptTimesOut
<1>10. CASE ServerNext \/ \E s \in Streams : Break(s)
  BY <1>1, <1>10 DEF ServerNext, ServerRequest, ServerRefuse, ServerSequence, ServerCatchup,
                    ServerReceive, ServerNotices, ServerSend, ServerEnds, Break
<1> QED BY <1>2, <1>4, <1>5, <1>7, <1>8, <1>9, <1>10 DEF Next, SessionNext

-----------------------------------------------------------------------------
LEMMA InitBase == Init => BaseInv
BY InitLinkInv, InitHalves, InitMain, InitWriter, InitNet, InitHold DEF BaseInv

LEMMA StepBase == BaseInv /\ [Next]_vars => BaseInv'
<1> SUFFICES ASSUME BaseInv, [Next]_vars PROVE BaseInv'
  OBVIOUS
<1>1. LinkInv' /\ HalvesInv' /\ MainTypes'
  BY StepLink, StepHalves, StepMain DEF BaseInv
<1> QED BY <1>1, StepNet, StepHold, StepWriter DEF BaseInv

LEMMA BaseAlways == Spec => []BaseInv
<1> QED BY InitBase, StepBase, PTL DEF Spec

\* The session loop and the reconnect thread use their BackedWriter as its module
\* says its owner does: it is revived only while its socket is gone, and what
\* is written is a packet.  What BackedWriter promises is true of this one.
THEOREM WriterImplemented == Spec => W!Spec
<1>1. Init => W!Init
  BY DEF Init
<1> QED BY <1>1, BaseAlways, StepWriter, PTL DEF Spec, W!Spec

-----------------------------------------------------------------------------
(* The conversation. *)

LEMMA UpStep ==
    ASSUME BaseInv, [Next]_vars, NEW s \in Streams
    PROVE  ClientUpStep(s) \/ ServerUpStep(s)
<1>1. CASE UNCHANGED vars
  BY <1>1 DEF vars, network, ClientUpStep
<1> QED BY <1>1, SessionNet, ReconnectNet, ServerNet DEF Next

\* What a queue to the server holds after a step was in it before, or is the
\* message just written.
LEMMA UpBefore ==
    ASSUME BaseInv, [Next]_vars, NEW s \in Streams, NEW i \in 1 .. Len(up'[s])
    PROVE  \/ \E j \in 1 .. Len(up[s]) : up'[s][i] = up[s][j]
           \/ up'[s][i] = [type |-> "request"]
           \/ /\ SendSequence /\ rt.stream = s
              /\ up'[s][i] = [type |-> "seq", n |-> AsI32(r_sequence_number)]
           \/ /\ Recover /\ rt.stream = s /\ W!CanRecover(rt.remote)
              /\ up'[s][i] = [type |-> "catchup", frames |-> W!Recovered(rt.remote)]
           \/ /\ WriteSent /\ w_socket = s
              /\ up'[s][i] = [type |-> "frame", frame |-> W!Encrypted(submitted)]
<1>1. up[s] \in Seq(UpMessages) /\ Len(up[s]) \in Nat
  BY DEF BaseInv, NetTypes
<1>2. ASSUME NEW m \in UpMessages, up'[s] = Append(up[s], m)
      PROVE  up'[s][i] = m \/ \E j \in 1 .. Len(up[s]) : up'[s][i] = up[s][j]
  BY <1>1, <1>2, Appended
<1>3. CASE up'[s] = << >>
  <2>1. Len(up'[s]) = 0
    BY <1>3
  <2> QED BY <2>1
<1>4. CASE up'[s] = up[s]
  BY <1>4
<1>5. CASE up'[s] = <<[type |-> "request"]>>
  <2>1. Len(up'[s]) = 1 /\ up'[s][1] = [type |-> "request"]
    BY <1>5
  <2> QED BY <2>1
<1>6. CASE /\ SendSequence /\ rt.stream = s
           /\ up'[s] = Append(up[s], [type |-> "seq", n |-> AsI32(r_sequence_number)])
  <2> DEFINE m == [type |-> "seq", n |-> AsI32(r_sequence_number)]
  <2>1. m \in UpMessages
    BY ClientMessages
  <2> HIDE DEF m
  <2>2. up'[s] = Append(up[s], m)
    BY <1>6 DEF m
  <2>3. up'[s][i] = m \/ \E j \in 1 .. Len(up[s]) : up'[s][i] = up[s][j]
    BY <1>2, <2>1, <2>2
  <2> QED BY <1>6, <2>3 DEF m
<1>7. CASE /\ Recover /\ rt.stream = s /\ W!CanRecover(rt.remote)
           /\ up'[s] = Append(up[s], [type |-> "catchup", frames |-> W!Recovered(rt.remote)])
  <2> DEFINE m == [type |-> "catchup", frames |-> W!Recovered(rt.remote)]
  <2>1. m \in UpMessages
    BY <1>7, ClientMessages
  <2>2. up'[s] = Append(up[s], m)
    BY <1>7
  <2> HIDE DEF m
  <2>3. up'[s][i] = m \/ \E j \in 1 .. Len(up[s]) : up'[s][i] = up[s][j]
    BY <1>2, <2>1, <2>2
  <2> QED BY <1>7, <2>3 DEF m
<1>8. CASE /\ WriteSent /\ w_socket = s
           /\ up'[s] = Append(up[s], [type |-> "frame", frame |-> W!Encrypted(submitted)])
  <2> DEFINE m == [type |-> "frame", frame |-> W!Encrypted(submitted)]
  <2>1. m \in UpMessages
    BY <1>8, ClientMessages DEF WriteSent
  <2>2. up'[s] = Append(up[s], m)
    BY <1>8
  <2> HIDE DEF m
  <2>3. up'[s][i] = m \/ \E j \in 1 .. Len(up[s]) : up'[s][i] = up[s][j]
    BY <1>2, <2>1, <2>2
  <2> QED BY <1>8, <2>3 DEF m
<1>9. CASE up[s] # << >> /\ up'[s] = Tail(up[s])
  <2>1. Len(up'[s]) = Len(up[s]) - 1 /\ \A j \in 1 .. Len(up[s]) - 1 : up'[s][j] = up[s][j + 1]
    BY <1>1, <1>9, Tailed
  <2>2. i + 1 \in 1 .. Len(up[s]) /\ i \in 1 .. Len(up[s]) - 1
    BY <1>1, <2>1
  <2> QED BY <2>1, <2>2
<1> QED BY <1>3, <1>4, <1>5, <1>6, <1>7, <1>8, <1>9, UpStep DEF ClientUpStep, ServerUpStep

\* The server waits to be brought up to date.
Recovering == srv.phase \in {"seq", "catchup"}

\* The client only takes from the queues to it.
LEMMA ClientReads ==
    ASSUME BaseInv, SessionNext \/ ReconnectNext, NEW s \in Streams,
           NEW i \in 1 .. Len(down'[s])
    PROVE  \E j \in 1 .. Len(down[s]) : down'[s][i] = down[s][j]
<1>1. down \in [Streams -> Seq(DownMessages)] /\ down[s] \in Seq(DownMessages)
  BY DEF BaseInv, NetTypes
<1>2. CASE down'[s] = down[s]
  BY <1>2
<1>3. CASE down'[s] = << >>
  <2>1. Len(down'[s]) = 0
    BY <1>3
  <2> QED BY <2>1
<1>4. ASSUME NEW n \in 0 .. Len(down[s]), down'[s] = SubSeq(down[s], n + 1, Len(down[s]))
      PROVE  \E j \in 1 .. Len(down[s]) : down'[s][i] = down[s][j]
  <2>1. Len(down'[s]) = Len(down[s]) - n /\ Len(down[s]) \in Nat
    BY <1>1, <1>4
  <2>2. n + i \in 1 .. Len(down[s])
    BY <2>1
  <2>3. down'[s][i] = down[s][n + i]
    BY <1>1, <1>4, <2>1, <2>2
  <2> QED BY <2>2, <2>3
<1>5. CASE down[s] # << >> /\ down'[s] = Tail(down[s])
  <2>1. /\ Len(down'[s]) = Len(down[s]) - 1 /\ Len(down[s]) \in Nat
        /\ \A j \in 1 .. Len(down[s]) - 1 : down'[s][j] = down[s][j + 1]
    BY <1>1, <1>5, Tailed
  <2>2. i + 1 \in 1 .. Len(down[s]) /\ i \in 1 .. Len(down[s]) - 1
    BY <2>1
  <2> QED BY <2>1, <2>2
<1>6. ASSUME NEW S \in SUBSET Ends, Drop(S) PROVE down'[s] \in {down[s], << >>}
  BY <1>6, DropEffect DEF BaseInv
<1>7. CASE SessionNext
  <2>1. CASE CloseAndMaybeReconnect \/ ShutdownJoined
    <3>1. {r_socket, w_socket} \in SUBSET Ends
      BY DEF BaseInv, NetTypes, WriterInv, W!TypeOK, Ends
    <3> QED BY <1>2, <1>3, <1>6, <2>1, <3>1 DEF CloseAndMaybeReconnect, ShutdownJoined, InvalidateBoth
  <2>2. CASE ReadFrame
    <3>1. PICK n \in 0 .. Len(down[r_socket]) :
             down' = [down EXCEPT ![r_socket] = SubSeq(@, n + 1, Len(@))]
      BY <2>2 DEF ReadFrame
    <3> QED BY <1>1, <1>2, <1>4, <3>1
  <2>3. CASE ReadPartial
    <3>1. down'[s] \in {down[s], << >>}
      BY <1>1, <2>3 DEF ReadPartial
    <3> QED BY <1>2, <1>3, <3>1
  <2>4. CASE UNCHANGED down
    BY <1>2, <2>4
  <2>5. down' = down \/ ReadFrame \/ ReadPartial \/ CloseAndMaybeReconnect \/ ShutdownJoined
    BY <1>7 DEF SessionNext, WritePacket, WriteCheck, WriteTurnedAway, WriteKept, WriteSent,
                WriteFailed, ReadWithoutSocket, ReadClosed, ForceReconnect, Shutdown, Stopped,
                vars, network
  <2> QED BY <2>1, <2>2, <2>3, <2>4, <2>5
<1>8. CASE ReconnectNext
  <2>1. \/ down' = down
        \/ Drop({rt.stream})
        \/ down' = Take(down, rt.stream) /\ down[rt.stream] # << >>
    BY <1>8 DEF ReconnectNext, Leave, Dial, AwaitResponse, SendSequence, AwaitSequence, Recover,
                ReviveReader, ReviveWriter, Announce, AttemptBroken, AttemptTimesOut,
                AttemptOver, network, Has
  <2>2. {rt.stream} \in SUBSET Ends
    BY DEF BaseInv, NetTypes
  <2>3. ASSUME down' = Take(down, rt.stream), down[rt.stream] # << >>
        PROVE  down'[s] = down[s] \/ (down[s] # << >> /\ down'[s] = Tail(down[s]))
    BY <1>1, <2>3 DEF Take
  <2> QED BY <1>2, <1>3, <1>5, <1>6, <2>1, <2>2, <2>3
<1> QED BY <1>7, <1>8

\* The conversation the server is in is the one it was in, and its number the
\* same, or it has just begun with the thread that dialled.
LEMMA RecoveringStep ==
    ASSUME BaseInv, [Next]_vars, Recovering'
    PROVE  \/ /\ Recovering /\ srv'.sock = srv.sock /\ srv'.seq = srv.seq
              /\ srv.sock \in Streams
           \/ \E s \in Streams :
                 /\ ServerRequest(s) /\ srv'.sock = s /\ srv'.seq = srv.seq
                 /\ Answered(s, <<Response("ReturningClient"), SeqMessage(AsI32(srv.seq))>>)
                 /\ Has(up, s, "request")
<1>1. CASE srv' = srv
  BY <1>1 DEF BaseInv, HoldInv, ServerHold, NetTypes, Ends, Recovering
<1>2. ASSUME NEW s \in Streams, ServerRequest(s) \/ ServerRefuse(s)
      PROVE  \/ srv' = srv
             \/ /\ srv'.sock = s /\ srv'.seq = srv.seq /\ ServerRequest(s)
                /\ Answered(s, <<Response("ReturningClient"), SeqMessage(AsI32(srv.seq))>>)
                /\ Has(up, s, "request")
  <2>1. CASE ServerRefuse(s)
    BY <2>1, RefuseEffect
  <2>2. CASE ServerRequest(s)
    <3>1. Has(up, s, "request")
      BY <2>2 DEF ServerRequest
    <3> QED BY <2>2, <3>1, RequestEffect, ZenonT(40) DEF BaseInv, NetTypes
  <2> QED BY <1>2, <2>1, <2>2
<1>3. CASE ServerSequence
  <2>1. srv.phase = "seq" /\ srv'.sock = srv.sock /\ srv'.seq = srv.seq
    BY <1>3 DEF ServerSequence, BaseInv, NetTypes
  <2> QED BY <2>1 DEF BaseInv, HoldInv, ServerHold, NetTypes, Ends, Recovering
<1>4. CASE ServerCatchup \/ ServerReceive
  <2>1. srv'.phase \in {"live", "down"}
    BY <1>4 DEF ServerCatchup, ServerReceive, BaseInv, NetTypes
  <2> QED BY <2>1 DEF Recovering
<1>5. CASE ServerNotices \/ ServerEnds
  <2>1. srv'.phase \in {"down", "ended"}
    BY <1>5 DEF ServerNotices, ServerEnds, BaseInv, NetTypes
  <2> QED BY <2>1 DEF Recovering
<1>6. CASE ServerSend
  <2>1. srv'.phase = srv.phase /\ srv.phase \in {"down", "live"}
    BY <1>6 DEF ServerSend, BaseInv, NetTypes
  <2> QED BY <2>1 DEF Recovering
<1>7. CASE SessionNext \/ ReconnectNext \/ (\E s \in Streams : Break(s)) \/ UNCHANGED vars
  <2>1. srv' = srv
    BY <1>7 DEF SessionNext, WritePacket, WriteCheck, WriteTurnedAway, WriteKept, WriteSent,
                WriteFailed, ReadWithoutSocket, ReadFrame, ReadPartial, ReadClosed,
                ForceReconnect, CloseAndMaybeReconnect, Shutdown, ShutdownJoined, Stopped,
                ReconnectNext, Leave, Dial, AwaitResponse, SendSequence, AwaitSequence, Recover,
                ReviveReader, ReviveWriter, Announce, AttemptBroken, AttemptTimesOut, Break, vars
  <2> QED BY <1>1, <2>1
<1> QED BY <1>1, <1>2, <1>3, <1>4, <1>5, <1>6, <1>7 DEF Next, ServerNext

\* In the course of it the queue to the client gains nothing but a catch-up.
LEMMA DownBefore ==
    ASSUME BaseInv, [Next]_vars, Recovering, srv.sock \in Streams,
           NEW i \in 1 .. Len(down'[srv.sock])
    PROVE  \/ \E j \in 1 .. Len(down[srv.sock]) : down'[srv.sock][i] = down[srv.sock][j]
           \/ ServerSequence /\ down'[srv.sock][i].type = "catchup"
<1>1. CASE down'[srv.sock] = down[srv.sock]
  BY <1>1
<1>2. CASE SessionNext \/ ReconnectNext
  BY <1>2, ClientReads
<1>3. CASE ServerSequence
  <2> DEFINE m == CatchupMessage(LogAfter(up[srv.sock][1].n))
  <2>1. AnsweredBy(<<m>>) /\ m.type = "catchup"
    BY <1>3, SequenceEffect DEF CatchupMessage
  <2> HIDE DEF m
  <2>2. down'[srv.sock] = down[srv.sock] \/ down'[srv.sock] = down[srv.sock] \o <<m>>
    BY <2>1 DEF AnsweredBy
  <2>3. ASSUME down'[srv.sock] = down[srv.sock] \o <<m>>, down'[srv.sock][i].type # "catchup"
        PROVE  \E j \in 1 .. Len(down[srv.sock]) : down'[srv.sock][i] = down[srv.sock][j]
    <3>1. down[srv.sock] \in Seq(DownMessages) /\ Len(down[srv.sock]) \in Nat
      BY DEF BaseInv, NetTypes
    <3>2. Len(down'[srv.sock]) = Len(down[srv.sock]) + 1
      BY <2>3, <3>1
    <3>3. down'[srv.sock][Len(down[srv.sock]) + 1] = m
      BY <2>3, <3>1
    <3>4. i # Len(down[srv.sock]) + 1
      BY <2>1, <2>3, <3>3
    <3>5. i \in 1 .. Len(down[srv.sock])
      BY <3>1, <3>2, <3>4
    <3> QED BY <2>3, <3>1, <3>5
  <2> QED BY <1>1, <1>3, <2>2, <2>3
<1>4. ASSUME NEW s \in Streams, ServerRequest(s) \/ ServerRefuse(s)
      PROVE  down'[srv.sock] = down[srv.sock]
  <2>1. PICK ms : Answered(s, ms)
    BY <1>4, RequestEffect, RefuseEffect
  <2>2. s # srv.sock
    BY <1>4, RequestTaken DEF ServerRequest, ServerRefuse, Dialled
  <2> QED BY <2>1, <2>2 DEF Answered
<1>5. CASE ServerCatchup \/ ServerReceive \/ ServerNotices \/ ServerEnds
           \/ (\E s \in Streams : Break(s)) \/ UNCHANGED vars
  BY <1>1, <1>5 DEF ServerCatchup, ServerReceive, ServerNotices, ServerEnds, Break, vars, network
<1>6. ~ServerSend
  BY DEF ServerSend, Recovering
<1> QED BY <1>1, <1>2, <1>3, <1>4, <1>5, <1>6 DEF Next, ServerNext

\* It begins with the answer to the request.
LEMMA DownAtFirst ==
    ASSUME BaseInv, [Next]_vars, NEW s \in Streams, Has(up, s, "request"),
           Answered(s, <<Response("ReturningClient"), SeqMessage(AsI32(srv.seq))>>),
           NEW i \in 1 .. Len(down'[s])
    PROVE  down'[s][i].type = "response" \/ down'[s][i] = SeqMessage(AsI32(srv.seq))
<1> DEFINE ms == <<Response("ReturningClient"), SeqMessage(AsI32(srv.seq))>>
<1>1. down'[s] = ms \/ down'[s] = << >>
  BY RequestTaken DEF Answered, Dialled
<1>2. Len(ms) = 2 /\ ms[1].type = "response" /\ ms[2] = SeqMessage(AsI32(srv.seq))
  BY DEF Response
<1>3. Len(<< >>) = 0
  OBVIOUS
<1>4. i \in 1 .. 2 /\ down'[s] = ms
  BY <1>1, <1>2, <1>3
<1> HIDE DEF ms
<1>5. i = 1 \/ i = 2
  BY <1>4
<1> QED BY <1>2, <1>4, <1>5

\* The server has not answered with a catch-up before it was asked for one, and
\* until it has the client reads from no connection to it.
NotYetRevived ==
    srv.phase = "seq" =>
        /\ srv.sock # r_socket
        /\ \A i \in 1 .. Len(down[srv.sock]) : down[srv.sock][i].type # "catchup"

LEMMA StepNotYet == BaseInv /\ NotYetRevived /\ [Next]_vars => NotYetRevived'
<1> SUFFICES ASSUME BaseInv, NotYetRevived, [Next]_vars, srv'.phase = "seq"
             PROVE  /\ srv'.sock # r_socket'
                    /\ \A i \in 1 .. Len(down'[srv'.sock]) : down'[srv'.sock][i].type # "catchup"
  BY DEF NotYetRevived
<1>0. Recovering'
  BY DEF Recovering
<1>1. ASSUME NEW s \in Streams, ServerRequest(s), srv'.sock = s, Has(up, s, "request"),
             Answered(s, <<Response("ReturningClient"), SeqMessage(AsI32(srv.seq))>>)
      PROVE  /\ s # r_socket'
             /\ \A i \in 1 .. Len(down'[s]) : down'[s][i].type # "catchup"
  <2>1. r_socket' = r_socket /\ s # r_socket
    BY <1>1, RequestTaken DEF ServerRequest, reader, Dialled
  <2> QED BY <1>1, <2>1, DownAtFirst DEF SeqMessage
<1>2. ASSUME Recovering, srv'.sock = srv.sock, srv.sock \in Streams
      PROVE  /\ srv.sock # r_socket'
             /\ \A i \in 1 .. Len(down'[srv.sock]) : down'[srv.sock][i].type # "catchup"
  <2>1. srv.phase = "seq" /\ ~ServerSequence
    <3>1. ~ServerSequence
      BY DEF ServerSequence, BaseInv, NetTypes
    <3>2. srv.phase = "catchup" => srv'.phase # "seq" \/ \E s \in Streams : ServerRequest(s)
      BY <3>1 DEF Next, ServerNext, ServerRefuse, ServerCatchup, ServerReceive, ServerNotices,
             ServerSend, ServerEnds, Break, BaseInv, NetTypes, vars,
             SessionNext, WritePacket, WriteCheck, WriteTurnedAway, WriteKept, WriteSent,
             WriteFailed, ReadWithoutSocket, ReadFrame, ReadPartial, ReadClosed,
             ForceReconnect, CloseAndMaybeReconnect, Shutdown, ShutdownJoined, Stopped,
             ReconnectNext, Leave, Dial, AwaitResponse, SendSequence, AwaitSequence, Recover,
             ReviveReader, ReviveWriter, Announce, AttemptBroken, AttemptTimesOut
    <3>3. ASSUME NEW s \in Streams, ServerRequest(s) PROVE FALSE
      <4>1. Has(up, s, "request")
        BY <3>3 DEF ServerRequest
      <4>2. s # srv.sock
        BY <4>1, RequestTaken DEF Dialled
      <4>3. srv'.sock = s \/ srv'.phase = "ended"
        BY <3>3 DEF ServerRequest, BaseInv, NetTypes
      <4> QED BY <1>2, <4>2, <4>3
    <3> QED BY <1>2, <3>1, <3>2, <3>3 DEF Recovering
  <2>2. ASSUME ReviveReader PROVE srv.sock # rt.stream
    <3>1. Has(down, rt.stream, "catchup")
      BY <2>2 DEF ReviveReader
    <3> QED BY <1>2, <2>1, <3>1, HeadOfDown DEF NotYetRevived, BaseInv
  <2>3. r_socket' \in {r_socket, NoStream, rt.stream} /\ (r_socket' = rt.stream => ReviveReader \/ r_socket' = r_socket \/ r_socket' = NoStream)
    BY DEF Next, ServerNext, ServerRequest, ServerRefuse, ServerSequence, ServerCatchup, ServerReceive, ServerNotices,
             ServerSend, ServerEnds, Break, vars, reader,
             SessionNext, WritePacket, WriteCheck, WriteTurnedAway, WriteKept, WriteSent,
             WriteFailed, ReadWithoutSocket, ReadFrame, ReadPartial, ReadClosed,
             ForceReconnect, CloseAndMaybeReconnect, Shutdown, ShutdownJoined, Stopped,
             ReconnectNext, Leave, Dial, AwaitResponse, SendSequence, AwaitSequence, Recover,
             ReviveReader, ReviveWriter, Announce, AttemptBroken, AttemptTimesOut,
             R!ReadIdle, R!ReadBuffered, R!ReadFrame, R!ReadPartial, R!ReadClosed, R!vars,
             InvalidateBoth, R!InvalidateSocket, R!Revive
  <2>4. srv.sock # r_socket'
    BY <1>2, <2>1, <2>2, <2>3, NoStreamAssumption DEF NotYetRevived
  <2> QED BY <1>2, <2>1, <2>4, DownBefore DEF NotYetRevived
<1> QED BY <1>0, <1>1, <1>2, RecoveringStep

\* What a step does to the thread: nothing, unless it is the thread's own or
\* ends an attempt.
LEMMA ThreadStep ==
    ASSUME BaseInv, [Next]_vars
    PROVE  \/ rt' = rt /\ ~ReconnectNext
           \/ rt'.stream = NoStream
           \/ \E s \in Streams : Fresh(s) /\ rt'.stream = s /\ UNCHANGED srv
           \/ /\ AwaitResponse /\ rt.pc = "response" /\ rt' = [rt EXCEPT !.pc = "sample"]
              /\ UNCHANGED <<up, srv>>
           \/ SendSequence
           \/ /\ AwaitSequence /\ UNCHANGED <<up, srv>>
           \/ /\ Recover /\ W!CanRecover(rt.remote)
           \/ /\ ReviveReader /\ UNCHANGED <<up, srv>>
           \/ /\ ReviveWriter /\ UNCHANGED <<up, srv>>
<1>1. ASSUME \E pc \in {"none", "loop", "done"} : rt' = Thread(pc) PROVE rt'.stream = NoStream
  BY <1>1, ThreadTypes
<1>2. CASE ReconnectNext
  <2>1. CASE Leave \/ Announce \/ AttemptBroken \/ AttemptTimesOut
    BY <1>1, <2>1 DEF Leave, Announce, AttemptBroken, AttemptTimesOut, AttemptOver
  <2>2. CASE Dial
    BY <2>2 DEF Dial, BaseInv, NetTypes
  <2>3. CASE AwaitResponse
    BY <1>1, <2>3 DEF AwaitResponse, AttemptOver
  <2>4. CASE Recover
    BY <1>1, <2>4 DEF Recover, AttemptOver
  <2>5. CASE AwaitSequence \/ ReviveReader \/ ReviveWriter
    BY <2>5 DEF AwaitSequence, ReviveReader, ReviveWriter, network
  <2> QED BY <1>2, <2>1, <2>2, <2>3, <2>4, <2>5 DEF ReconnectNext
<1>3. CASE SessionNext
  <2>1. rt' = rt \/ \E pc \in {"none", "loop", "done"} : rt' = Thread(pc)
    BY <1>3
       DEF SessionNext, WritePacket, WriteCheck, WriteTurnedAway, WriteKept, WriteSent,
           WriteFailed, ReadWithoutSocket, ReadFrame, ReadPartial, ReadClosed,
           ForceReconnect, CloseAndMaybeReconnect, Shutdown, ShutdownJoined, Stopped, vars
  <2> QED BY <1>1, <1>2, <2>1
<1>4. CASE ServerNext \/ (\E s \in Streams : Break(s)) \/ UNCHANGED vars
  <2>1. rt' = rt
    BY <1>4 DEF ServerNext, ServerRequest, ServerRefuse, ServerSequence, ServerCatchup,
                ServerReceive, ServerNotices, ServerSend, ServerEnds, Break, vars
  <2> QED BY <1>2, <2>1
<1> QED BY <1>2, <1>3, <1>4 DEF Next
=============================================================================
