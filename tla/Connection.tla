----------------------------- MODULE Connection -----------------------------
(***************************************************************************)
(* ClientConnection after a successful connect() (src/src/connection.rs):  *)
(* the thread of the session loop, which writes, reads, gives a connection *)
(* up and finally shuts down; the reconnect thread it spawns when a        *)
(* connection is lost; the BackedReader and BackedWriter they share, each  *)
(* behind a mutex; and the two flags they share without one.               *)
(*                                                                         *)
(* One action is what a thread does under one lock, or between two points  *)
(* where it may wait.  What it does between a join() and its next such     *)
(* point is one action too: the other thread does not exist then.          *)
(*                                                                         *)
(* The server and the network are external.  Every TCP connection is a     *)
(* member of Streams with a FIFO in each direction; in a broken one either *)
(* end may notice at any moment, which loses what it has not read, and a   *)
(* write may fail or still be taken by the kernel.  Names of connections   *)
(* nobody uses any more are used again.                                    *)
(***************************************************************************)
EXTENDS Integers, Sequences

CONSTANTS
    Streams, NoStream,
    PacketLength,             \* Packet::length() of a client packet
    MAC_BYTES, MAX_BACKUP_BYTES, DISCONNECT_BUFFER_BYTES,
    I32_LIMIT,                \* 2^31: SequenceHeader carries an i32
    Window,                   \* unread messages the kernels hold per direction
    MaxUp, MaxDown,           \* bounds: packets of the client, of the server
    MaxFaults,                \* bound: connections and handshakes that fail
    MaxForced                 \* bound: connections the session loop gives up

VARIABLES
    main,                     \* the session loop's thread: pc and continuation
    submitted,                \* packets handed to write_packet so far
    socket_alive, shutting_down,
    w_socket, w_backup, w_backup_size, w_disconnected_bytes,
    w_sequence_number, w_nonce, w_accepted, w_offset,
    r_socket, r_sequence_number, r_nonce, r_partial, r_local_buffer,
    r_delivered,
    rt,                       \* the reconnect thread: pc and locals
    stranded,                 \* history: see ReviveWriter
    up, down, broken,         \* the network
    srv,                      \* the server
    faults, forced            \* counters of MaxFaults and MaxForced

ASSUME BoundsAssumption ==
    /\ {PacketLength, MAC_BYTES, MAX_BACKUP_BYTES, DISCONNECT_BUFFER_BYTES} \subseteq Nat
    /\ {I32_LIMIT, Window, MaxUp, MaxDown, MaxFaults, MaxForced} \subseteq Nat
    /\ I32_LIMIT > 0 /\ Window > 0
ASSUME NoStreamAssumption == NoStream \notin Streams

\* The n-th packet handed to write_packet is n, so that a packet written twice
\* can be told from two packets; so are the server's.
ClientPackets == 1 .. MaxUp
ServerPackets == 1 .. MaxDown

W == INSTANCE BackedWriter WITH
        Packets <- ClientPackets, Length <- [p \in ClientPackets |-> PacketLength],
        socket <- w_socket, backup <- w_backup, backup_size <- w_backup_size,
        disconnected_bytes <- w_disconnected_bytes,
        sequence_number <- w_sequence_number, nonce <- w_nonce,
        accepted <- w_accepted, offset <- w_offset

R == INSTANCE BackedReader WITH
        Packets <- ServerPackets,
        socket <- r_socket, sequence_number <- r_sequence_number,
        nonce <- r_nonce, partial <- r_partial, local_buffer <- r_local_buffer,
        delivered <- r_delivered

flags == <<socket_alive, shutting_down>>
writer == <<w_socket, w_backup, w_backup_size, w_disconnected_bytes,
            w_sequence_number, w_nonce, w_accepted, w_offset>>
reader == <<r_socket, r_sequence_number, r_nonce, r_partial, r_local_buffer,
            r_delivered>>
network == <<up, down, broken>>
budgets == <<faults, forced>>
vars == <<main, submitted, flags, writer, reader, rt, stranded, network, srv,
          budgets>>

-----------------------------------------------------------------------------
(* The network. *)

Put(channel, s, m) == [channel EXCEPT ![s] = Append(@, m)]
Take(channel, s) == [channel EXCEPT ![s] = Tail(@)]
Has(channel, s, type) == channel[s] # << >> /\ Head(channel[s]).type = type

\* `local_seq as i32', sign-extended again on arrival.
AsI32(n) == ((n + I32_LIMIT) % (2 * I32_LIMIT)) - I32_LIMIT

ClientHolds(s) == s \in {w_socket, r_socket, rt.stream} \ {NoStream}

\* A name nobody uses: no end holds it and nothing is under way on it.
Fresh(s) ==
    /\ ~ClientHolds(s) /\ s # srv.sock
    /\ up[s] = << >>

\* The server writes ms to s; nobody will read them if the client has dropped s.
Answer(s, ms) == down' = IF ClientHolds(s) THEN [down EXCEPT ![s] = @ \o ms] ELSE down

\* The client drops its handles on the connections S.  The server may still
\* read what was written if it is on that connection, or comes to it.
Drop(S) ==
    /\ broken' = broken \cup (S \ {NoStream})
    /\ down' = [s \in Streams |-> IF s \in S THEN << >> ELSE down[s]]
    /\ up' = [s \in Streams |->
                IF s \in S \ {srv.sock} /\ ~Has(up, s, "request") THEN << >> ELSE up[s]]

\* A connection breaks.
Break(s) ==
    /\ faults < MaxFaults
    /\ ClientHolds(s) /\ s \notin broken
    /\ broken' = broken \cup {s}
    /\ faults' = faults + 1
    /\ UNCHANGED <<main, submitted, flags, writer, reader, rt, stranded, up, down,
                   srv, forced>>

-----------------------------------------------------------------------------
(* The session loop's thread.                                              *)
(*   idle     between two calls of ClientConnection                        *)
(*   check    in write_packet, at the top of its loop                      *)
(*   write    in write_packet, about to lock the writer                    *)
(*   join     in close_and_maybe_reconnect, waiting for the old thread     *)
(*   sd_join  in shutdown, likewise                                        *)
(*   stopped  after shutdown                                               *)

Goto(pc) == main' = [main EXCEPT !.pc = pc]

\* close_and_maybe_reconnect is called, to return to `then'.
CallClose(then) == main' = [pc |-> "join", then |-> then]

WritePacket ==
    /\ main.pc = "idle" /\ submitted < MaxUp
    /\ submitted' = submitted + 1
    /\ Goto("check")
    /\ UNCHANGED <<flags, writer, reader, rt, stranded, network, srv, budgets>>

\* Mutant: write_packet does not look at shutting_down.
WriteCheck_Never ==
    /\ main.pc = "check"
    /\ Goto("write")
    /\ UNCHANGED <<submitted, flags, writer, reader, rt, stranded, network, srv, budgets>>

\* The packet is given up if the connection is shutting down.
WriteCheck ==
    /\ main.pc = "check"
    /\ Goto(IF shutting_down THEN "idle" ELSE "write")
    /\ UNCHANGED <<submitted, flags, writer, reader, rt, stranded, network, srv, budgets>>

\* The writer turned the packet away: sleep and try again.
WriteTurnedAway ==
    /\ main.pc = "write"
    /\ W!WriteSkipped(submitted)
    /\ Goto("check")
    /\ UNCHANGED <<submitted, flags, reader, rt, stranded, network, srv, budgets>>

WriteKept ==
    /\ main.pc = "write"
    /\ W!WriteBuffered(submitted)
    /\ Goto("idle")
    /\ UNCHANGED <<submitted, flags, reader, rt, stranded, network, srv, budgets>>

\* The whole frame reached the kernel; write_all_retry waits for room.
WriteSent ==
    /\ main.pc = "write"
    /\ W!WriteSuccess(submitted)
    /\ Len(up[w_socket]) < Window
    /\ up' = Put(up, w_socket, [type |-> "frame", frame |-> W!Encrypted(submitted)])
    /\ Goto("idle")
    /\ UNCHANGED <<submitted, flags, reader, rt, stranded, down, broken, srv, budgets>>

\* The socket failed.  write_packet will offer the same packet again, although
\* the writer has accepted it.
WriteFailed ==
    /\ main.pc = "write"
    /\ w_socket \in broken
    /\ W!WriteFailed(submitted)
    /\ CallClose("check")
    /\ UNCHANGED <<submitted, flags, reader, rt, stranded, network, srv, budgets>>

\* read_packet with nothing to read, or with a frame of the catch-up.
ReadWithoutSocket ==
    /\ main.pc = "idle"
    /\ R!ReadIdle \/ R!ReadBuffered
    /\ IF R!ReadFails THEN CallClose("idle") ELSE UNCHANGED main
    /\ UNCHANGED <<submitted, flags, writer, rt, stranded, network, srv, budgets>>

\* The bytes at hand on the reader's connection, n pieces of them.
Pieces(n) == [i \in 1 .. n |-> down[r_socket][i].piece]

ReadFrame ==
    /\ main.pc = "idle" /\ r_socket # NoStream
    /\ \E n \in 0 .. Len(down[r_socket]) :
          /\ R!ReadFrame(Pieces(n))
          /\ down' = [down EXCEPT ![r_socket] = SubSeq(@, n + 1, Len(@))]
    /\ IF R!ReadFails THEN CallClose("idle") ELSE UNCHANGED main
    /\ UNCHANGED <<submitted, flags, writer, rt, stranded, up, broken, srv, budgets>>

ReadPartial ==
    /\ main.pc = "idle" /\ r_socket # NoStream
    /\ R!ReadPartial(Pieces(Len(down[r_socket])))
    /\ down' = [down EXCEPT ![r_socket] = << >>]
    /\ UNCHANGED <<main, submitted, flags, writer, rt, stranded, up, broken, srv, budgets>>

\* The connection turns out to be closed, after some of the bytes or none.
ReadClosed ==
    /\ main.pc = "idle" /\ r_socket \in broken
    /\ \E n \in 0 .. Len(down[r_socket]) : R!ReadClosed(Pieces(n))
    /\ CallClose("idle")
    /\ UNCHANGED <<submitted, flags, writer, rt, stranded, network, srv, budgets>>

\* A keepalive went unanswered.
ForceReconnect ==
    /\ main.pc = "idle" /\ forced < MaxForced
    /\ forced' = forced + 1
    /\ CallClose("idle")
    /\ UNCHANGED <<submitted, flags, writer, reader, rt, stranded, network, srv, faults>>

\* Both halves lose their socket, and the server sees the connection close.
InvalidateBoth ==
    /\ R!InvalidateSocket
    /\ W!InvalidateSocket
    /\ Drop({r_socket, w_socket})

Joinable == rt.pc \in {"none", "done"}

\* The reconnect thread at pc, none of its locals in use.
Thread(pc) == [pc |-> pc, stream |-> NoStream, sample |-> 0, remote |-> 0, upto |-> 0]

\* Mutant: no thread is spawned while the handle of the last one is there.
CloseAndMaybeReconnect_OneThread ==
    /\ main.pc = "join" /\ Joinable
    /\ InvalidateBoth
    /\ socket_alive' = FALSE
    /\ rt' = Thread(IF rt.pc = "done" \/ shutting_down THEN "none" ELSE "loop")
    /\ Goto(main.then)
    /\ UNCHANGED <<submitted, shutting_down, stranded, srv, budgets>>

\* close_and_maybe_reconnect from its join() on.
CloseAndMaybeReconnect ==
    /\ main.pc = "join" /\ Joinable
    /\ InvalidateBoth
    /\ socket_alive' = FALSE
    /\ rt' = Thread(IF shutting_down THEN "none" ELSE "loop")
    /\ Goto(main.then)
    /\ UNCHANGED <<submitted, shutting_down, stranded, srv, budgets>>

\* shutdown(): the flag first, then the join, then the rest.
Shutdown ==
    /\ main.pc = "idle"
    /\ shutting_down' = TRUE
    /\ Goto("sd_join")
    /\ UNCHANGED <<submitted, socket_alive, writer, reader, rt, stranded, network, srv, budgets>>

\* Mutant: shutdown() leaves the thread running.
ShutdownJoined_NoJoin ==
    /\ main.pc = "sd_join"
    /\ InvalidateBoth
    /\ socket_alive' = FALSE
    /\ Goto("stopped")
    /\ UNCHANGED <<submitted, shutting_down, rt, stranded, srv, budgets>>

\* Reader and writer are set to None, which nobody looks at any more.
ShutdownJoined ==
    /\ main.pc = "sd_join" /\ Joinable
    /\ InvalidateBoth
    /\ socket_alive' = FALSE
    /\ rt' = Thread("none")
    /\ Goto("stopped")
    /\ UNCHANGED <<submitted, shutting_down, stranded, srv, budgets>>

-----------------------------------------------------------------------------
(* The reconnect thread.                                                   *)
(*   loop           at the top of reconnect_loop                           *)
(*   response       has sent ConnectRequest, awaits ConnectResponse        *)
(*   sample         about to lock the reader for its sequence number       *)
(*   header         has sent its SequenceHeader, awaits the server's       *)
(*   recover        about to lock the writer for what to resend            *)
(*   catchup        has sent its CatchupBuffer, awaits the server's        *)
(*   revive_writer  has revived the reader, about to lock the writer       *)
(*   announce       has revived both, about to set socket_alive            *)
(*   done           has returned, not joined yet                           *)

\* Mutant: the thread returns when an attempt fails.
AttemptOver_Returns == rt' = Thread("done") /\ Drop({rt.stream})

\* The attempt failed: its connection is dropped, the thread sleeps and loops.
AttemptOver == rt' = Thread("loop") /\ Drop({rt.stream})

\* Mutant: reconnect_loop does not look at shutting_down.
Leave_OnlyAlive ==
    /\ rt.pc = "loop"
    /\ socket_alive
    /\ rt' = Thread("done")
    /\ UNCHANGED <<main, submitted, flags, writer, reader, stranded, network, srv, budgets>>

\* reconnect_loop leaves, or goes on to try_recover: TCP connect and request.
Leave ==
    /\ rt.pc = "loop"
    /\ socket_alive \/ shutting_down
    /\ rt' = Thread("done")
    /\ UNCHANGED <<main, submitted, flags, writer, reader, stranded, network, srv, budgets>>

Dial ==
    /\ rt.pc = "loop" /\ ~socket_alive /\ ~shutting_down
    /\ \E s \in Streams :
          /\ Fresh(s)
          /\ rt' = [rt EXCEPT !.pc = "response", !.stream = s]
          /\ up' = [up EXCEPT ![s] = <<[type |-> "request"]>>]
          /\ broken' = broken \ {s}
    /\ UNCHANGED <<main, submitted, flags, writer, reader, stranded, down, srv, budgets>>

AwaitResponse ==
    /\ rt.pc = "response" /\ Has(down, rt.stream, "response")
    /\ LET status == Head(down[rt.stream]).status IN
       \/ /\ status = "InvalidKey"
          /\ shutting_down' = TRUE
          /\ rt' = Thread("done")
          /\ Drop({rt.stream})
       \/ /\ status = "ReturningClient"
          /\ rt' = [rt EXCEPT !.pc = "sample"]
          /\ down' = Take(down, rt.stream)
          /\ UNCHANGED <<shutting_down, up, broken>>
       \/ /\ status = "Other"
          /\ AttemptOver
          /\ UNCHANGED shutting_down
    /\ UNCHANGED <<main, submitted, socket_alive, writer, reader, stranded, srv, budgets>>

\* The sequence number is read under the reader's lock and used after it.
SendSequence ==
    /\ rt.pc = "sample"
    /\ rt' = [rt EXCEPT !.pc = "header", !.sample = r_sequence_number]
    /\ up' = Put(up, rt.stream, [type |-> "seq", n |-> AsI32(r_sequence_number)])
    /\ UNCHANGED <<main, submitted, flags, writer, reader, stranded, down, broken, srv, budgets>>

AwaitSequence ==
    /\ rt.pc = "header" /\ Has(down, rt.stream, "seq")
    /\ rt' = [rt EXCEPT !.pc = "recover", !.remote = Head(down[rt.stream]).n]
    /\ down' = Take(down, rt.stream)
    /\ UNCHANGED <<main, submitted, flags, writer, reader, stranded, up, broken, srv, budgets>>

\* recover() under the writer's lock, which is released before the frames are
\* sent; `upto' remembers where they end.
Recover ==
    /\ rt.pc = "recover"
    /\ IF W!CanRecover(rt.remote)
       THEN /\ rt' = [rt EXCEPT !.pc = "catchup", !.upto = w_sequence_number]
            /\ up' = Put(up, rt.stream, [type |-> "catchup", frames |-> W!Recovered(rt.remote)])
            /\ UNCHANGED <<down, broken>>
       ELSE AttemptOver
    /\ UNCHANGED <<main, submitted, flags, writer, reader, stranded, srv, budgets>>

\* Mutant: the writer's revive() is left out.
ReviveReader_Announces ==
    /\ rt.pc = "catchup" /\ Has(down, rt.stream, "catchup")
    /\ R!Revive(rt.stream, Head(down[rt.stream]).frames)
    /\ down' = Take(down, rt.stream)
    /\ rt' = [rt EXCEPT !.pc = "announce"]
    /\ UNCHANGED <<main, submitted, flags, writer, stranded, up, broken, srv, budgets>>

ReviveReader ==
    /\ rt.pc = "catchup" /\ Has(down, rt.stream, "catchup")
    /\ R!Revive(rt.stream, Head(down[rt.stream]).frames)
    /\ down' = Take(down, rt.stream)
    /\ rt' = [rt EXCEPT !.pc = "revive_writer"]
    /\ UNCHANGED <<main, submitted, flags, writer, stranded, up, broken, srv, budgets>>

\* Packets the session loop had buffered since recover() are neither in the
\* catch-up nor sent by revive(): the new connection strands them.
ReviveWriter ==
    /\ rt.pc = "revive_writer"
    /\ W!Revive(rt.stream)
    /\ stranded' = (w_sequence_number # rt.upto)
    /\ rt' = [rt EXCEPT !.pc = "announce"]
    /\ UNCHANGED <<main, submitted, flags, reader, network, srv, budgets>>

Announce ==
    /\ rt.pc = "announce"
    /\ socket_alive' = TRUE
    /\ rt' = Thread("done")
    /\ UNCHANGED <<main, submitted, shutting_down, writer, reader, stranded, network, srv, budgets>>

Handshaking == rt.pc \in {"response", "sample", "header", "recover", "catchup"}

\* try_recover finds its connection broken ...
AttemptBroken ==
    /\ Handshaking /\ rt.stream \in broken
    /\ AttemptOver
    /\ UNCHANGED <<main, submitted, flags, writer, reader, stranded, srv, budgets>>

\* ... or gives up waiting for an answer.
AttemptTimesOut ==
    /\ Handshaking /\ faults < MaxFaults
    /\ faults' = faults + 1
    /\ AttemptOver
    /\ UNCHANGED <<main, submitted, flags, writer, reader, stranded, srv, forced>>

-----------------------------------------------------------------------------
(* The server, as the client needs it: it holds a session through any      *)
(* number of connections, checks every frame's nonce, and does not write   *)
(* between the catch-up it sends and the one it awaits.                    *)
(*   down      no connection          seq      awaits the SequenceHeader   *)
(*   catchup   awaits the catch-up    live     exchanges frames            *)
(*   ended     the session is over: any request is answered InvalidKey     *)

ServerFrame(k) == [nonce |-> k, packet |-> srv.log[k]]

\* The server closes its connection: what it has not read is lost, though it
\* still fills the kernel's buffer of a client that writes on.
ServerLeaves(ch) ==
    IF srv.sock = NoStream \/ ClientHolds(srv.sock) THEN ch
    ELSE [ch EXCEPT ![srv.sock] = << >>]

ServerRequest(s) ==
    /\ Has(up, s, "request")
    /\ LET status == IF srv.phase = "ended" THEN "InvalidKey" ELSE "ReturningClient"
           answer == [type |-> "response", status |-> status]
       IN  IF srv.phase = "ended"
           THEN /\ up' = Take(up, s)
                /\ Answer(s, <<answer>>)
                /\ UNCHANGED <<srv, broken>>
           ELSE /\ up' = Take(ServerLeaves(up), s)
                /\ Answer(s, <<answer, [type |-> "seq", n |-> AsI32(srv.seq)]>>)
                /\ broken' = broken \cup ({srv.sock} \ {NoStream})
                /\ srv' = [srv EXCEPT !.phase = "seq", !.sock = s]
    /\ UNCHANGED <<main, submitted, flags, writer, reader, rt, stranded, budgets>>

\* A server that does not know the session, or not yet again.
ServerRefuse(s) ==
    /\ Has(up, s, "request") /\ faults < MaxFaults
    /\ faults' = faults + 1
    /\ up' = Take(up, s)
    /\ Answer(s, <<[type |-> "response", status |-> "Other"]>>)
    /\ UNCHANGED <<main, submitted, flags, writer, reader, rt, stranded, broken, srv, forced>>

ServerSequence ==
    /\ srv.phase = "seq" /\ Has(up, srv.sock, "seq")
    /\ LET n == Head(up[srv.sock]).n IN
       /\ n \in 0 .. Len(srv.log)
       /\ Answer(srv.sock, <<[type |-> "catchup",
                              frames |-> [i \in 1 .. Len(srv.log) - n |-> ServerFrame(n + i)]]>>)
    /\ up' = Take(up, srv.sock)
    /\ srv' = [srv EXCEPT !.phase = "catchup"]
    /\ UNCHANGED <<main, submitted, flags, writer, reader, rt, stranded, broken, budgets>>

ServerCatchup ==
    /\ srv.phase = "catchup" /\ Has(up, srv.sock, "catchup")
    /\ LET frames == Head(up[srv.sock]).frames IN
       srv' = [srv EXCEPT !.phase = "live", !.seq = @ + Len(frames),
                          !.got = @ \o [i \in 1 .. Len(frames) |-> frames[i].packet]]
    /\ up' = Take(up, srv.sock)
    /\ UNCHANGED <<main, submitted, flags, writer, reader, rt, stranded, down, broken, budgets>>

\* A frame that is not the next one does not decrypt: the server hangs up.
ServerReceive ==
    /\ srv.phase = "live" /\ Has(up, srv.sock, "frame")
    /\ LET f == Head(up[srv.sock]).frame IN
       IF f.nonce = srv.seq + 1
       THEN /\ srv' = [srv EXCEPT !.seq = @ + 1, !.got = Append(@, f.packet)]
            /\ up' = Take(up, srv.sock)
            /\ UNCHANGED broken
       ELSE /\ srv' = [srv EXCEPT !.phase = "down", !.sock = NoStream]
            /\ up' = ServerLeaves(up)
            /\ broken' = broken \cup {srv.sock}
    /\ UNCHANGED <<main, submitted, flags, writer, reader, rt, stranded, down, budgets>>

ServerNotices ==
    /\ srv.sock \in broken
    /\ srv' = [srv EXCEPT !.phase = "down", !.sock = NoStream]
    /\ up' = ServerLeaves(up)
    /\ UNCHANGED <<main, submitted, flags, writer, reader, rt, stranded, down, broken, budgets>>

ServerSend ==
    /\ srv.phase \in {"down", "live"} /\ Len(srv.log) < MaxDown
    /\ LET f == [nonce |-> Len(srv.log) + 1, packet |-> Len(srv.log) + 1]
           piece(part) == [type |-> "piece", piece |-> [frame |-> f, part |-> part]]
       IN  /\ srv' = [srv EXCEPT !.log = Append(@, f.packet)]
           /\ Answer(srv.sock, <<piece(1), piece(2)>>)
    /\ UNCHANGED <<main, submitted, flags, writer, reader, rt, stranded, up, broken, budgets>>

\* The shell on the server exits.
ServerEnds ==
    /\ srv.phase # "ended"
    /\ srv' = [srv EXCEPT !.phase = "ended", !.sock = NoStream]
    /\ up' = ServerLeaves(up)
    /\ broken' = broken \cup ({srv.sock} \ {NoStream})
    /\ UNCHANGED <<main, submitted, flags, writer, reader, rt, stranded, down, budgets>>

-----------------------------------------------------------------------------
Init ==
    /\ main = [pc |-> "idle", then |-> "idle"]
    /\ submitted = 0
    /\ socket_alive = TRUE
    /\ shutting_down = FALSE
    /\ W!Init /\ R!Init /\ r_socket = w_socket
    /\ rt = Thread("none")
    /\ stranded = FALSE
    /\ up = [s \in Streams |-> << >>]
    /\ down = [s \in Streams |-> << >>]
    /\ broken = {}
    /\ srv = [phase |-> "live", sock |-> w_socket, seq |-> 0, log |-> << >>, got |-> << >>]
    /\ faults = 0
    /\ forced = 0

\* The session loop is over, the process about to exit.
Stopped == main.pc = "stopped" /\ UNCHANGED vars

SessionNext ==
    \/ WritePacket \/ WriteCheck \/ WriteTurnedAway \/ WriteKept \/ WriteSent \/ WriteFailed
    \/ ReadWithoutSocket \/ ReadFrame \/ ReadPartial \/ ReadClosed
    \/ ForceReconnect \/ CloseAndMaybeReconnect \/ Shutdown \/ ShutdownJoined \/ Stopped

ReconnectNext ==
    \/ Leave \/ Dial \/ AwaitResponse \/ SendSequence \/ AwaitSequence \/ Recover
    \/ ReviveReader \/ ReviveWriter \/ Announce \/ AttemptBroken \/ AttemptTimesOut

ServerNext ==
    \/ \E s \in Streams : ServerRequest(s) \/ ServerRefuse(s)
    \/ ServerSequence \/ ServerCatchup \/ ServerReceive \/ ServerNotices
    \/ ServerSend \/ ServerEnds

Next == SessionNext \/ ReconnectNext \/ ServerNext \/ \E s \in Streams : Break(s)

Spec == Init /\ [][Next]_vars

\* Each thread runs: the session loop carries every call through, keeps reading
\* and leaves once the connection is shutting down; the reconnect thread goes on
\* whenever what it waits for is there.  It need not time out, nor does anybody
\* have to write, give up a connection or quit.
ReadPacket == ReadWithoutSocket \/ ReadFrame \/ ReadPartial \/ ReadClosed
SessionProgress ==
    \/ WriteCheck \/ WriteTurnedAway \/ WriteKept \/ WriteSent \/ WriteFailed
    \/ CloseAndMaybeReconnect \/ ShutdownJoined
    \/ shutting_down /\ Shutdown
ReconnectProgress ==
    \/ Leave \/ Dial \/ AwaitResponse \/ SendSequence \/ AwaitSequence \/ Recover
    \/ ReviveReader \/ ReviveWriter \/ Announce \/ AttemptBroken

\* The server answers and reads, which the client cannot do without.
ServerProgress ==
    \/ \E s \in Streams : ServerRequest(s)
    \/ ServerSequence \/ ServerCatchup \/ ServerReceive \/ ServerNotices

Fairness ==
    /\ WF_vars(ReadPacket)
    /\ WF_vars(SessionProgress)
    /\ WF_vars(ReconnectProgress)
    /\ WF_vars(ServerProgress)

FairSpec == Spec /\ Fairness

-----------------------------------------------------------------------------
TypeOK ==
    /\ main \in [pc : {"idle", "check", "write", "join", "sd_join", "stopped"},
                 then : {"idle", "check"}]
    /\ submitted \in 0 .. MaxUp
    /\ socket_alive \in BOOLEAN /\ shutting_down \in BOOLEAN
    /\ W!TypeOK /\ R!TypeOK
    /\ rt \in [pc : {"none", "loop", "response", "sample", "header", "recover",
                     "catchup", "revive_writer", "announce", "done"},
               stream : Streams \cup {NoStream}, sample : Nat, remote : Int, upto : Nat]
    /\ stranded \in BOOLEAN
    /\ DOMAIN up = Streams /\ DOMAIN down = Streams /\ broken \subseteq Streams
    /\ srv.phase \in {"down", "seq", "catchup", "live", "ended"}
    /\ srv.sock \in Streams \cup {NoStream}
    /\ srv.seq \in Nat /\ srv.log \in Seq(ServerPackets) /\ srv.got \in Seq(ClientPackets)
    /\ faults \in 0 .. MaxFaults /\ forced \in 0 .. MaxForced

(* Server to client. *)

\* Through every reconnect the client hands over what the server sent, in order
\* and each packet once (read_packet, revive and the SequenceHeader together).
Pipe == INSTANCE EternalPipe WITH
            Packets <- ServerPackets, sent <- srv.log, delivered <- r_delivered
ImplementsEternalPipe == Pipe!Spec

\* Between the moment the reconnect thread looks up the reader's sequence number
\* and the moment it revives the reader, the session loop may call read_packet,
\* but the number stays what the server was told.
SampleStaysCurrent ==
    rt.pc \in {"header", "recover", "catchup"} => rt.sample = r_sequence_number

(* Client to server. *)

\* What the session loop hands over is accepted in order, nothing left out; a
\* packet may be accepted again right after itself, when write_packet offers it
\* again; and what the server received is what was accepted first.
UpstreamAtLeastOnce ==
    /\ \A i \in 1 .. Len(w_accepted) :
          LET previous == IF i = 1 THEN 0 ELSE w_accepted[i - 1] IN
          w_accepted[i] = previous + 1 \/ (i > 1 /\ w_accepted[i] = previous)
    /\ (main.pc = "idle" /\ ~shutting_down) =>
          submitted = IF w_accepted = << >> THEN 0 ELSE w_accepted[w_sequence_number]
    /\ srv.got = SubSeq(w_accepted, 1, srv.seq)

\* README, `automatically reconnects without interrupting the session', and the
\* pipe the other direction is: no packet reaches the server twice.
AtMostOnce == \A i, j \in 1 .. Len(srv.got) : i # j => srv.got[i] # srv.got[j]

\* The frames under way to the server on connection s, once it has the client's
\* sequence number: what is resent, and what was sent after it.
Resent(s) == IF Has(up, s, "catchup") THEN Head(up[s]).frames ELSE << >>
SentSince(s) ==
    LET ms == IF Has(up, s, "catchup") THEN Tail(up[s]) ELSE up[s]
    IN  [i \in 1 .. Len(ms) |-> ms[i].frame]
Pending(s) == Resent(s) \o SentSince(s)

\* A live writer on the connection the server is on has put on it every frame
\* the server lacks, each once and in order.
NothingStranded ==
    (w_socket # NoStream /\ w_socket = srv.sock /\ srv.phase \in {"catchup", "live"}) =>
        LET pending == Pending(w_socket) IN
        /\ Len(pending) = w_sequence_number - srv.seq
        /\ \A i \in 1 .. Len(pending) : pending[i].nonce = srv.seq + i

\* It fails only on a connection whose writer was revived after the session loop
\* had buffered packets behind recover()'s back.
StrandedOnlyByTheWindow == stranded \/ NothingStranded

\* README, `automatically reconnects': recover() is never asked for what the
\* backup no longer has.
RecoverSucceeds == rt.pc = "recover" => W!CanRecover(rt.remote)

(* The two threads. *)

\* All the session loop sees of them: Session is built on it.
L == INSTANCE Link WITH
        alive <- socket_alive, over <- shutting_down,
        thread <- IF Joinable THEN rt.pc ELSE "working"
ImplementsLink == L!Spec

InSession == main.pc \in {"idle", "check", "write"}

\* When the session loop finds socket_alive set, both halves are on the same
\* connection: no half-revived state shows behind the flag.
AliveMeansConnected ==
    (InSession /\ socket_alive) => w_socket = r_socket /\ w_socket # NoStream

\* A session without a connection always has a thread at work on a new one.
SomeoneReconnects ==
    (InSession /\ ~socket_alive /\ ~shutting_down) => rt.pc \notin {"none", "done"}

\* After shutdown() no thread is left that could bring a connection back, even
\* if it was about to when the flag was set.
StoppedIsQuiet ==
    main.pc = "stopped" =>
        /\ rt.pc = "none"
        /\ w_socket = NoStream /\ r_socket = NoStream
        /\ ~socket_alive

(* Liveness. *)

\* A lost connection is replaced, unless the session ends.
Reconnects == ~socket_alive ~> (socket_alive \/ shutting_down)

\* write_packet returns, through outages, full buffers and failed writes.
WriteReturns == main.pc = "check" ~> main.pc = "idle"

\* shutdown() returns, whatever the reconnect thread is doing.
ShutdownCompletes == main.pc = "sd_join" ~> main.pc = "stopped"

\* What the server sent is handed over, unless the session ends first.
ServerIsHeard ==
    \A n \in 1 .. MaxDown :
        Len(srv.log) >= n ~> (Len(r_delivered) >= n \/ shutting_down \/ srv.phase = "ended")
=============================================================================
