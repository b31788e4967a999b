------------------------------- MODULE Session -------------------------------
(***************************************************************************)
(* The client's main thread: the connection attempts of real_main          *)
(* (src/src/main.rs), then run_session (src/src/client.rs): the initial    *)
(* payload and its response, and the loop that reads the network, watches  *)
(* the keepalive deadline and passes the user's input on; and the final    *)
(* shutdown().  Every write_packet and close_and_maybe_reconnect may wait: *)
(* the thread is then at "write" or "close", with `call' what it is to do  *)
(* afterwards.  ClientConnection is a Link, which Connection implements.   *)
(*                                                                         *)
(* What a connection loses the next one resends, with one gap: a packet    *)
(* that is buffered between the reconnect thread's recover() and the       *)
(* writer's revive() is on no connection until the one after.  A           *)
(* connection may fall silent, when nothing passes and nothing fails, or   *)
(* break, when calls on it may fail.  Time is a count of ticks to the next *)
(* deadline; a tick is longer than a round trip, so that on a good         *)
(* connection time waits for what is under way, and never for the thread.  *)
(***************************************************************************)
EXTENDS Link, Integers, Sequences

CONSTANTS
    Interval,       \* keepalive_duration, in ticks
    ResponseWait,   \* how long INITIAL_RESPONSE is waited for, in ticks
    MaxAttempts,    \* initial connection attempts
    OutageRoom,     \* packets the writer buffers while there is no socket
    SendRoom,       \* packets the kernel takes on a connection before any is delivered
    MaxLosses,      \* bound: connections that fail, in use or in the making
    MaxExtras       \* bound: packets the shell prints, and connections that leave one behind

VARIABLES
    pc, call,       \* where the main thread is, and what its call is for, if any
    attempts,       \* connection attempts that failed, until one succeeds
    left,           \* ticks to the deadline; 0 when it has passed
    waiting,        \* waiting_on_keepalive
    coalesced,      \* there is drained output to print
    console,        \* there is one: the program runs without --no-terminal
    quit,           \* the flag the Ctrl-C handler sets
    held,           \* packets buffered since there is no socket
    path,           \* the connection: good, silent, broken or none; or one in the making:
                    \* handshake (recover() done), reading (the reader has it already)
    up,             \* headers on their way to the server
    stranded,       \* headers buffered since recover(): not on the connection
    late,           \* headers sent behind those: the server cannot decrypt them
    inbox,          \* headers sent back on this connection and not read yet
    down,           \* headers of the server that this connection will not deliver
    caughtUp,       \* headers of the server's catch-ups, not read yet: kept in memory
    losses, extras    \* counters of the bounds

ASSUME ConstantsAssumption ==
    /\ {Interval, ResponseWait, MaxAttempts, OutageRoom, SendRoom, MaxLosses, MaxExtras}
         \subseteq Nat
    /\ Interval > 0 /\ ResponseWait > 0 /\ MaxAttempts > 0 /\ OutageRoom > 0

loop == <<pc, call, left, waiting, coalesced>>
toServer == <<up, stranded, late>>
fromServer == <<down, inbox, caughtUp>>
network == <<path, toServer, fromServer>>
budgets == <<losses, extras>>
vars == <<link, loop, attempts, quit, console, held, network, budgets>>

\* TERMINAL is TERMINAL_BUFFER, in both directions, or TERMINAL_INFO.
Headers == {"INITIAL_PAYLOAD", "INITIAL_RESPONSE", "TERMINAL", "KEEP_ALIVE"}

Extra == extras < MaxExtras /\ extras' = extras + 1

Goto(label) == pc' = label /\ call' = "none" /\ UNCHANGED <<left, waiting, coalesced>>

-----------------------------------------------------------------------------
(* Calls of ClientConnection.                                              *)

\* What each call of write_packet writes, and where the thread goes after it.
Header == [payload |-> "INITIAL_PAYLOAD", command |-> "TERMINAL",
           keepalive |-> "KEEP_ALIVE", input |-> "TERMINAL",
           resize |-> "TERMINAL"]
Then == [payload |-> "response", command |-> "top", keepalive |-> "input",
         input |-> "resize", resize |-> "top"]

\* The thread at the call of write_packet for c.
Write(c) == pc' = "write" /\ call' = c /\ UNCHANGED <<left, waiting, coalesced>>

\* write_packet returns: only the payload's result is looked at.  The deadline
\* is set again after the calls for payload, command and input, and before the
\* one for a keepalive.
Return(ok) ==
    /\ pc' = IF call = "payload" /\ ~ok THEN "leave" ELSE Then[call]
    /\ waiting' = (call = "keepalive" \/ waiting)
    /\ left' = CASE call = "payload" -> ResponseWait
                 [] call \in {"command", "input"} -> Interval
                 [] OTHER -> left
    /\ call' = "none"
    /\ UNCHANGED coalesced

\* The writer keeps the packet in its backup: it is on the connection, or will be
\* on the next, unless the next one's catch-up has been put together already.
Catching == path \in {"handshake", "reading"}

Buffer ==
    \/ /\ ~Catching
       /\ up' = Append(up, Header[call])
       /\ UNCHANGED <<stranded, late, extras>>
    \/ /\ Catching
       /\ IF stranded = << >> THEN Extra ELSE UNCHANGED extras
       /\ stranded' = Append(stranded, Header[call])
       /\ UNCHANGED <<up, late>>

\* The frame is written on the connection; behind stranded ones its nonce is not
\* the one the server expects.
Send ==
    IF stranded = << >> THEN up' = Append(up, Header[call]) /\ UNCHANGED <<stranded, late>>
                        ELSE late' = Append(late, Header[call]) /\ UNCHANGED <<up, stranded>>

\* Mutant: write_packet looks at shutting_down only with a socket.
WriteRefused_OnlyAlive ==
    /\ pc = "write" /\ over /\ alive
    /\ Return(FALSE)
    /\ UNCHANGED <<link, attempts, quit, console, held, network, budgets>>

WriteRefused ==
    /\ pc = "write" /\ over
    /\ Return(FALSE)
    /\ UNCHANGED <<link, attempts, quit, console, held, network, budgets>>

\* The kernel takes frames as long as it has room; then write_all_retry sleeps a
\* millisecond and tries again, with the writer locked.
SendBufferFull == Len(up \o late) >= SendRoom

\* On a silent connection that is for ever.
Blocked == pc = "write" /\ alive /\ path = "silent" /\ SendBufferFull

WriteSent ==
    /\ pc = "write" /\ alive /\ ~SendBufferFull
    /\ Send
    /\ Return(TRUE)
    /\ UNCHANGED <<link, attempts, quit, console, held, path, fromServer, budgets>>

WriteRetried == pc = "write" /\ alive /\ SendBufferFull /\ UNCHANGED vars

\* Mutant: the writer buffers whatever comes.
WriteBuffered_Unbounded ==
    /\ pc = "write" /\ ~alive
    /\ Buffer
    /\ held' = held + 1
    /\ Return(TRUE)
    /\ UNCHANGED <<link, attempts, quit, console, path, fromServer, losses>>

\* With no room left write_packet sleeps and tries again.
WriteBuffered ==
    /\ pc = "write" /\ ~alive /\ held < OutageRoom
    /\ Buffer
    /\ held' = held + 1
    /\ Return(TRUE)
    /\ UNCHANGED <<link, attempts, quit, console, path, fromServer, losses>>

\* The write fails on the socket, with the packet in the backup already.
WriteFailed ==
    /\ pc = "write" /\ alive /\ path = "broken"
    /\ Send
    /\ pc' = "close"
    /\ UNCHANGED <<link, call, left, waiting, coalesced, attempts, quit, console, held, path,
                   fromServer, budgets>>

\* close_and_maybe_reconnect, called by write_packet (which tries again), by
\* read_packet (which returns nothing) or for a missed keepalive.  What has
\* arrived and was not read will be sent again, except for a catch-up, which stays
\* in memory; and recover(), when it next succeeds, offers all the server lacks.
AfterClose == CASE call = "reading" -> "print"
                [] call = "awaiting" -> "response"
                [] call = "forcing" -> "input"
                [] OTHER -> "write"

CloseJoined ==
    /\ pc = "close"
    /\ Close
    /\ pc' = AfterClose
    /\ call' = IF AfterClose = "write" THEN call ELSE "none"
    /\ waiting' = (waiting /\ call # "forcing")
    /\ path' = "none"
    /\ up' = up \o stranded \o late /\ stranded' = << >> /\ late' = << >>
    /\ down' = inbox \o down /\ inbox' = << >>
    /\ UNCHANGED <<left, coalesced, attempts, quit, console, held, caughtUp, budgets>>

\* read_packet returns the next packet: of a catch-up, with a connection or
\* without, before anything that arrived.
Readable == caughtUp \o inbox

Read ==
    /\ Readable # << >>
    /\ IF caughtUp # << >> THEN caughtUp' = Tail(caughtUp) /\ UNCHANGED inbox
                            ELSE inbox' = Tail(inbox) /\ UNCHANGED caughtUp
    /\ UNCHANGED <<path, toServer, down>>

\* read_packet fails, and goes on to close the connection.
ReadFails(c) ==
    /\ caughtUp = << >> /\ alive /\ path = "broken"
    /\ pc' = "close" /\ call' = c
    /\ UNCHANGED <<link, left, waiting, coalesced, attempts, quit, console, held, network,
                   budgets>>

-----------------------------------------------------------------------------
(* real_main and the start of run_session. *)

\* connect() succeeds, and the initial payload is next.
ConnectSucceeds ==
    /\ pc = "connect"
    /\ Connect
    /\ path' = "good"
    /\ attempts' = 0
    /\ Write("payload")
    /\ UNCHANGED <<quit, console, held, toServer, fromServer, budgets>>

ConnectFails ==
    /\ pc = "connect"
    /\ attempts' = attempts + 1
    /\ Goto(IF attempts' >= MaxAttempts THEN "leave" ELSE "connect")
    /\ UNCHANGED <<link, quit, console, held, network, budgets>>

\* While the deadline has not passed: the response, and then the command if
\* there is one, once the console is set up.  Any other packet ends the session,
\* as do a response with an error and a console that cannot be set up.
ReadResponse ==
    /\ pc = "response" /\ left > 0
    /\ Read
    /\ IF Head(Readable) = "INITIAL_RESPONSE"
       THEN \/ Write("command")
            \/ pc' = "top" /\ call' = "none" /\ left' = Interval /\ UNCHANGED <<waiting, coalesced>>
            \/ Goto("leave")
       ELSE Goto("leave")
    /\ UNCHANGED <<link, attempts, quit, console, held, budgets>>

ResponseReadFails == pc = "response" /\ left > 0 /\ ReadFails("awaiting")

ResponseTimesOut ==
    /\ pc = "response" /\ left = 0
    /\ Goto("leave")
    /\ UNCHANGED <<link, attempts, quit, console, held, network, budgets>>

-----------------------------------------------------------------------------
(* The loop of run_session. *)

\* Mutant: the loop does not look at the Ctrl-C flag.
Top_NoQuit ==
    /\ pc = "top"
    /\ pc' = IF over THEN "leave" ELSE IF alive THEN "drain" ELSE "input"
    /\ waiting' = (waiting /\ pc' # "input")
    /\ UNCHANGED <<call, left, coalesced, link, attempts, quit, console, held, network, budgets>>

\* Its condition, and has_socket().
Top ==
    /\ pc = "top"
    /\ pc' = IF over \/ quit THEN "leave" ELSE IF alive THEN "drain" ELSE "input"
    /\ waiting' = (waiting /\ pc' # "input")
    /\ UNCHANGED <<call, left, coalesced, link, attempts, quit, console, held, network, budgets>>

\* Mutant: a keepalive read does not end the wait.
Drain_KeepsWaiting ==
    /\ pc = "drain"
    /\ Read
    /\ LET header == Head(Readable)
           output == header = "TERMINAL" /\ console
       IN  /\ left' = IF output THEN Interval ELSE left
           /\ coalesced' = (coalesced \/ output)
           /\ UNCHANGED waiting
    /\ UNCHANGED <<pc, call, link, attempts, quit, console, held, budgets>>

Drain ==
    /\ pc = "drain"
    /\ Read
    /\ LET header == Head(Readable)
           output == header = "TERMINAL" /\ console
       IN  /\ left' = IF output THEN Interval ELSE left
           /\ coalesced' = (coalesced \/ output)
           /\ waiting' = (waiting /\ header # "KEEP_ALIVE")
    /\ UNCHANGED <<pc, call, link, attempts, quit, console, held, budgets>>

DrainEnds ==
    /\ pc = "drain" /\ Readable = << >>
    /\ Goto("print")
    /\ UNCHANGED <<link, attempts, quit, console, held, network, budgets>>

DrainFails == pc = "drain" /\ ReadFails("reading")

\* What was drained is printed; the console takes as long as it likes, and if
\* it fails run_session returns the error.
PrintCoalesced ==
    /\ pc = "print"
    /\ pc' \in {"keepalive"} \cup (IF coalesced THEN {"leave"} ELSE {})
    /\ coalesced' = FALSE
    /\ UNCHANGED <<call, left, waiting, link, attempts, quit, console, held, network, budgets>>

KeepaliveNotDue ==
    /\ pc = "keepalive" /\ left > 0
    /\ Goto("input")
    /\ UNCHANGED <<link, attempts, quit, console, held, network, budgets>>

\* Mutant: an unanswered keepalive only moves the deadline.
KeepaliveDue_NeverForces ==
    /\ pc = "keepalive" /\ left = 0
    /\ left' = Interval
    /\ IF waiting THEN pc' = "input" /\ call' = "none"
                  ELSE pc' = "write" /\ call' = "keepalive"
    /\ UNCHANGED <<waiting, coalesced, link, attempts, quit, console, held, network, budgets>>

\* The deadline has passed: write a keepalive, or give up the connection if the
\* last one is still unanswered.
KeepaliveDue ==
    /\ pc = "keepalive" /\ left = 0
    /\ left' = Interval
    /\ IF waiting THEN pc' = "close" /\ call' = "forcing"
                  ELSE pc' = "write" /\ call' = "keepalive"
    /\ UNCHANGED <<waiting, coalesced, link, attempts, quit, console, held, network, budgets>>

\* poll_input returns bytes, nothing or an error.
Input ==
    /\ pc = "input" /\ console
    /\ Write("input") \/ Goto("resize") \/ Goto("leave")
    /\ UNCHANGED <<link, attempts, quit, console, held, network, budgets>>

Resize ==
    /\ pc = "resize"
    /\ Write("resize") \/ Goto("top")
    /\ UNCHANGED <<link, attempts, quit, console, held, network, budgets>>

\* Without a console the loop only sleeps.
Sleep ==
    /\ pc = "input" /\ ~console
    /\ Goto("top")
    /\ UNCHANGED <<link, attempts, quit, console, held, network, budgets>>

\* run_session has returned, or the connection attempts have failed: shutdown()
\* of the connection, or of its Drop.
Leave ==
    /\ pc = "leave"
    /\ BeginShutdown
    /\ Goto("join")
    /\ UNCHANGED <<attempts, quit, console, held, network, budgets>>

Exit ==
    /\ pc = "join"
    /\ EndShutdown
    /\ pc' = "exited"
    /\ path' = "none"
    /\ up' = << >> /\ stranded' = << >> /\ late' = << >>
    /\ down' = << >> /\ inbox' = << >> /\ caughtUp' = << >>
    /\ UNCHANGED <<call, left, waiting, coalesced, attempts, quit, console, held, budgets>>

Exited == pc = "exited" /\ UNCHANGED vars

-----------------------------------------------------------------------------
(* The rest of the world. *)

\* Ctrl-C, while there is somebody to look at the flag.
CtrlC ==
    /\ ~quit /\ pc \notin {"connect", "leave", "join", "exited"}
    /\ quit' = TRUE
    /\ UNCHANGED <<link, loop, attempts, console, held, network, budgets>>

\* Time passes, but not while a good connection has something under way.
Tick ==
    /\ left > 0 /\ pc \notin {"leave", "join", "exited"}
    /\ path = "good" => up \o late = << >>
    /\ left' = left - 1
    /\ UNCHANGED <<link, pc, call, waiting, coalesced, attempts, quit, console, held, network,
                   budgets>>

\* What the server sent is delivered up to some point, and read_packet can still
\* return that.
CutOff(to) ==
    /\ path' = to
    /\ \E n \in 0 .. Len(inbox) :
          inbox' = SubSeq(inbox, 1, n) /\ down' = SubSeq(inbox, n + 1, Len(inbox)) \o down

Fail(to) ==
    /\ losses < MaxLosses
    /\ losses' = losses + 1
    /\ CutOff(to)
    /\ UNCHANGED <<link, loop, attempts, quit, console, held, toServer, caughtUp, extras>>

GoesSilent == path = "good" /\ Fail("silent")

Breaks == path \in {"good", "silent"} /\ Fail("broken")

\* The server's packet is on the connection, if it can deliver it, or waits for
\* the next.
ServerSends(packets) ==
    IF path \in {"good", "reading"} THEN inbox' = inbox \o packets /\ UNCHANGED down
                                    ELSE down' = down \o packets /\ UNCHANGED inbox

\* The server takes the next packet, and answers some.
ServerReceives ==
    /\ path \in {"good", "reading"} /\ up # << >>
    /\ up' = Tail(up)
    /\ ServerSends(CASE Head(up) = "INITIAL_PAYLOAD" -> <<"INITIAL_RESPONSE">>
                     [] Head(up) = "KEEP_ALIVE" -> <<"KEEP_ALIVE">>
                     [] OTHER -> << >>)
    /\ UNCHANGED <<link, loop, attempts, quit, console, held, path, stranded, late, caughtUp,
                   budgets>>

\* It hangs up on a frame it cannot decrypt.
ServerHangsUp ==
    /\ path = "good" /\ up = << >> /\ late # << >>
    /\ CutOff("broken")
    /\ UNCHANGED <<link, loop, attempts, quit, console, held, toServer, caughtUp, budgets>>

\* The shell is there once the response is.
ServerPrints ==
    /\ pc \notin {"connect", "response", "exited"} /\ call \notin {"payload", "awaiting"}
    /\ Extra
    /\ ServerSends(<<"TERMINAL">>)
    /\ UNCHANGED <<link, loop, attempts, quit, console, held, path, toServer, caughtUp, losses>>

\* The reconnect thread has taken the catch-up from the writer, and goes on to
\* exchange it for the server's.
LinkRecovers ==
    /\ thread = "working" /\ ~alive /\ path = "none"
    /\ path' = "handshake"
    /\ UNCHANGED <<link, loop, attempts, quit, console, held, toServer, fromServer, budgets>>

\* The exchange fails: what was buffered meanwhile is in the next catch-up.
HandshakeFails ==
    /\ path = "handshake" /\ losses < MaxLosses
    /\ losses' = losses + 1
    /\ path' = "none"
    /\ up' = up \o stranded /\ stranded' = << >>
    /\ UNCHANGED <<link, loop, attempts, quit, console, held, late, fromServer, extras>>

\* The reader has the connection, and what the server sent since is there to be
\* read.
ReaderRevived ==
    /\ path = "handshake"
    /\ path' = "reading"
    /\ caughtUp' = caughtUp \o down /\ down' = << >>
    /\ UNCHANGED <<link, loop, attempts, quit, console, held, toServer, inbox, budgets>>

\* So has the writer, and socket_alive says so.
LinkReconnects ==
    /\ path = "reading"
    /\ Reconnect
    /\ path' = "good"
    /\ held' = 0
    /\ UNCHANGED <<loop, attempts, quit, console, toServer, fromServer, budgets>>

\* Refused before recover(), or between two attempts.
LinkOver ==
    /\ path = "none"
    /\ Refuse \/ GiveUp
    /\ UNCHANGED <<loop, attempts, quit, console, held, network, budgets>>

-----------------------------------------------------------------------------
SessionInit ==
    /\ Init /\ ~alive
    /\ pc = "connect" /\ call = "none"
    /\ console \in BOOLEAN
    /\ attempts = 0 /\ left = 0
    /\ waiting = FALSE /\ coalesced = FALSE /\ quit = FALSE
    /\ held = 0 /\ path = "none"
    /\ up = << >> /\ stranded = << >> /\ late = << >>
    /\ down = << >> /\ inbox = << >> /\ caughtUp = << >>
    /\ losses = 0 /\ extras = 0

MainThread ==
    \/ ConnectSucceeds \/ ConnectFails
    \/ WriteRefused \/ WriteSent \/ WriteRetried \/ WriteBuffered \/ WriteFailed \/ CloseJoined
    \/ ReadResponse \/ ResponseReadFails \/ ResponseTimesOut
    \/ Top \/ Drain \/ DrainEnds \/ DrainFails \/ PrintCoalesced \/ KeepaliveNotDue \/ KeepaliveDue
    \/ Input \/ Resize \/ Sleep \/ Leave \/ Exit

World ==
    \/ CtrlC \/ Tick \/ GoesSilent \/ Breaks
    \/ ServerReceives \/ ServerHangsUp \/ ServerPrints
    \/ LinkRecovers \/ HandshakeFails \/ ReaderRevived \/ LinkReconnects \/ LinkOver

SessionNext == MainThread \/ World \/ Exited

SessionSpec == SessionInit /\ [][SessionNext]_vars

\* The main thread is never suspended for good, time passes, a good connection
\* delivers, and the server hangs up on what it cannot decrypt.  The reads of a
\* handshake time out, so it ends one way or the other.  Between any two attempts
\* the reconnect thread looks at shutting_down: strongly fair, as it does not look
\* while an attempt is under way.  Nothing says that it ever finds the server, or
\* that anybody types or prints.
Fairness ==
    /\ WF_vars(MainThread)
    /\ WF_vars(Tick)
    /\ WF_vars(ServerReceives) /\ WF_vars(ServerHangsUp)
    /\ WF_vars(HandshakeFails \/ ReaderRevived \/ LinkReconnects)
    /\ SF_vars(GiveUp /\ LinkOver)

FairSpec == SessionSpec /\ Fairness

-----------------------------------------------------------------------------
SessionTypeOK ==
    /\ alive \in BOOLEAN /\ over \in BOOLEAN /\ thread \in {"none", "working", "done"}
    /\ pc \in {"connect", "write", "close", "response", "top", "drain", "print",
               "keepalive", "input", "resize", "leave", "join", "exited"}
    /\ call \in DOMAIN Header \cup {"reading", "awaiting", "forcing", "none"}
    /\ attempts \in 0 .. MaxAttempts
    /\ left \in 0 .. Interval \cup 0 .. ResponseWait
    /\ waiting \in BOOLEAN /\ coalesced \in BOOLEAN
    /\ console \in BOOLEAN /\ quit \in BOOLEAN
    /\ held \in 0 .. OutageRoom
    /\ path \in {"good", "silent", "broken", "none", "handshake", "reading"}
    /\ up \in Seq(Headers) /\ stranded \in Seq(Headers) /\ late \in Seq(Headers)
    /\ down \in Seq(Headers) /\ inbox \in Seq(Headers) /\ caughtUp \in Seq(Headers)

KeepaliveIn(s) == \E i \in 1 .. Len(s) : s[i] = "KEEP_ALIVE"

\* While the session loop waits for an answer, one is owed: its keepalive is on
\* its way to the server, or the server's on its way back.  Or the keepalive is
\* in the backup only, caught in the gap of a reconnect: then no answer comes on
\* this connection, but giving it up, as the loop will for the missing answer,
\* puts the keepalive on the next.  Through any losses neither it nor its answer
\* disappears while the loop waits.
WaitingIsOwed ==
    (waiting /\ ~over) =>
        \/ KeepaliveIn(up \o down \o inbox \o caughtUp)
        \/ stranded # << >> /\ KeepaliveIn(stranded \o late)

\* client.rs, `missed keepalive, forcing reconnect': what is given up for a
\* missed keepalive is a connection, not one the read loop has just closed and
\* the reconnect thread is replacing (the call waits for it to succeed, and then
\* closes the new connection).
ForcesLiveConnection == (pc = "close" /\ call = "forcing") => alive

\* A connection that falls silent is noticed: it does not stay the connection
\* for ever, although no call on it ever fails.  Unless the main thread writes
\* so much to it that the kernel's buffer is full: write_all_retry then neither
\* fails nor returns, and the keepalive is not looked at any more.
SilenceNoticed == path = "silent" ~> (path # "silent" \/ Blocked)

\* A packet caught in the gap of a reconnect does not stay there: the connection
\* that does not carry it is given up, by the server at the next frame or by the
\* loop when no answer comes, and the next one carries it; or the link is over.
\* Unless the main thread is caught in a write (see SilenceNoticed).
StrandedComesBack == stranded # << >> ~> (stranded = << >> \/ over \/ Blocked)

\* connection.rs, `non-blocking so the console poll loop stays responsive': a
\* write on a connection returns, or finds the connection lost.
WriteNeverBlocks == (pc = "write" /\ alive) ~> (pc # "write" \/ ~alive)

\* Ctrl-C ends the program, unless the reconnect thread is at work for ever (the
\* server unreachable, and the main thread waiting for the reconnect), or the
\* main thread is in a write that a silent connection does not take.
QuitHonoured == (quit ~> pc = "exited") \/ <>[](thread = "working") \/ <>[]Blocked

\* Once the connection is shutting down (the server no longer knows the client,
\* or the session loop has ended) the program exits, whatever call the main
\* thread is in.
OverMeansExit == over ~> pc = "exited"
=============================================================================
