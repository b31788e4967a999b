------------------------------- MODULE Startup -------------------------------
(***************************************************************************)
(* From the command line to an established session: real_main              *)
(* (src/src/main.rs), connect() and, for connections lost meanwhile,       *)
(* try_recover (src/src/connection.rs), and run_session up to the response *)
(* to its initial payload (src/src/client.rs).                             *)
(*                                                                         *)
(* The server is external.  It registers a client with the first request   *)
(* it gets, whether or not its answer arrives, and recovers a client it    *)
(* knows; it hangs up on what it cannot make sense of.  A connection may   *)
(* fall silent or break, and with it what is under way is lost, but for a  *)
(* request, which may still arrive later.  At most two connections matter: *)
(* the one reader and writer are on, and the one a handshake is on.        *)
(*                                                                         *)
(* The locks of reader and writer, and what comes between them, are left   *)
(* to Connection: try_recover's two revive() are one step here.            *)
(***************************************************************************)
EXTENDS Destination, SshSetup, Codec

CONSTANTS
    CommandLines,    \* records of host, username and jumphost
    Outputs,         \* what ssh may print behind the marker
    MaxAttempts,     \* of real_main to connect
    ResponseWait,    \* seconds run_session waits for INITIAL_RESPONSE
    MaxLosses,       \* bound: connections that fail or cannot be made
    MaxCopies        \* bound: payloads kept, where each write of one fails

VARIABLES
    pc, reason,          \* the main thread; why it failed
    aim,                 \* history: the destination used, against the one asked for
    printed, keys,       \* what ssh printed; what was made of it
    attempts,            \* of connect() that failed
    left,                \* seconds until the deadline for the response
    rt,                  \* the reconnect thread
    over,                \* shutting_down
    conn,                \* "cur": of reader and writer; "hs": of a handshake
    sent,                \* the writer's sequence number
    received, queued,    \* the reader's, and the packets in its local_buffer
    junk,                \* the reader has bytes of a handshake in partial
    serves,              \* the server knows the terminal, and speaks our version
    known,               \* it has registered this client
    got, answered,       \* packets it took, and its answer to the first
    late,                \* requests of dropped connections that may still arrive
    losses, slow         \* failures so far; silence while a response is awaited

ASSUME StartupAssumption ==
    /\ {MaxAttempts, ResponseWait, MaxLosses, MaxCopies} \subseteq Nat
    /\ MaxAttempts > 0 /\ ResponseWait > 0
    /\ Outputs \subseteq Seq(Characters)
    /\ CommandLines \subseteq [host: Arguments, username: {"absent", "option"}, jumphost: Jumphosts]

cli == <<aim, printed, keys>>
progress == <<pc, reason, attempts, left>>
client == <<rt, over, sent, received, queued, junk>>
server == <<serves, known, got, answered>>
net == <<late, losses, slow>>
vars == <<cli, progress, client, conn, server, net>>

NoConn == [state |-> "none", up |-> << >>, down |-> << >>, peer |-> "gone"]

\* What travels: messages, by the values of their fields, and frames.
PROTOCOL_VERSION == 6
Identity == <<1, 2>>

Request == Message("ConnectRequest", <<<<Identity>>, <<PROTOCOL_VERSION>>>>)
Response(status) == Message("ConnectResponse", <<<<Statuses[status]>>, << >>>>)
SequenceHeader(n) == Message("SequenceHeader", <<<<n>>>>)
CatchupBuffer(from, to) == Message("CatchupBuffer", <<[i \in 1 .. to - from + 1 |-> <<from + i - 1>>]>>)
Frame(n) == [type |-> "frame", bytes |-> <<n>>]

MostPackets == MaxCopies + MaxLosses + 1

\* The number of a packet travels as an i32.
ASSUME NumbersAssumption == MostPackets < Word \div 2

Messages ==
    {Request} \cup {Response(status) : status \in DOMAIN Statuses}
        \cup {SequenceHeader(n) : n \in 0 .. MostPackets}
        \cup {CatchupBuffer(from, to) : from, to \in 0 .. MostPackets}

Meant == Meanings(Messages)

\* Every message is read as it was written.
ReadAsWritten ==
    LET Kept(m) == Meant[m] = m.values
    IN  /\ Kept(Request)
        /\ \A status \in DOMAIN Statuses : Kept(Response(status))
        /\ \A n \in 0 .. MostPackets : Kept(SequenceHeader(n))
        /\ \A from, to \in 0 .. MostPackets : Kept(CatchupBuffer(from, to))

Says(response, status) == Meant[response][1] = <<Statuses[status]>>

Has(c, type) == conn[c].state = "good" /\ conn[c].down # << >> /\ Head(conn[c].down).type = type
First(c) == Head(conn[c].down)

Taken(c) == [conn EXCEPT ![c].down = Tail(@)]

\* A call on the connection fails, or finds it closed by the server.
Failing(c) ==
    \/ conn[c].state = "broken"
    \/ conn[c].state = "good" /\ conn[c].peer = "gone" /\ conn[c].down = << >>

Fails(why) == pc' = "failed" /\ reason' = why

-----------------------------------------------------------------------------
(* The main thread before it connects. *)

Aim(c) ==
    CASE Target(c) = Asked(c) -> "asked"
      [] Target(c) \in Deviations(c) \ {Asked(c)} -> "deviates"
      [] OTHER -> "astray"

RunParse ==
    /\ pc = "start"
    /\ \E c \in CommandLines :
          IF Parses(c.host)
          THEN pc' = "ping" /\ aim' = Aim(c) /\ UNCHANGED reason
          ELSE Fails("arguments") /\ UNCHANGED aim
    /\ UNCHANGED <<printed, keys, attempts, left, client, conn, server, net>>

\* The server's port is reached, before ssh is asked for a password.
Ping ==
    /\ pc = "ping"
    /\ \/ pc' = "ssh" /\ UNCHANGED <<reason, losses>>
       \/ losses < MaxLosses /\ losses' = losses + 1 /\ Fails("unreachable")
    /\ UNCHANGED <<cli, attempts, left, client, conn, server, late, slow>>

\* ssh prints no marker, or a line of some lengths.
Standard(output) == Slice(output) = Line(IdLength, KeyLength, << >>)

\* Such a line is parsed, whatever is printed after it, and to what is in it.
StandardParses ==
    \A output \in Outputs :
        Standard(output) =>
            /\ ParsesIdPasskey(output)
            /\ Id(output) \o <<"/">> \o Passkey(output) = Line(IdLength, KeyLength, << >>)

SetupSsh ==
    /\ pc = "ssh"
    /\ \/ /\ Fails("ssh")
          /\ printed' = "nothing" /\ UNCHANGED keys
       \/ \E output \in Outputs :
             /\ printed' = IF Standard(output) THEN "standard" ELSE "odd"
             /\ IF ParsesIdPasskey(output)
                THEN /\ pc' = "connect" /\ UNCHANGED reason
                     /\ keys' = IF Len(Passkey(output)) # KeyLength THEN "short"
                             ELSE IF Passkey(output) = Only({"key"}, output) THEN "right"
                             ELSE "garbled"
                ELSE Fails("ssh") /\ UNCHANGED keys
    /\ UNCHANGED <<aim, attempts, left, client, conn, server, net>>

-----------------------------------------------------------------------------
(* connect(), and real_main's attempts at it. *)

\* The connection is dropped; a request on it may still be on its way.
Dropped(c) ==
    /\ late' = late + (IF conn[c].peer = "request" THEN 1 ELSE 0)
    /\ conn' = [conn EXCEPT ![c] = NoConn]

\* Mutant: one attempt more.
AttemptFailed_OneMore ==
    /\ attempts' = attempts + 1
    /\ IF attempts' > MaxAttempts THEN Fails("attempts") ELSE pc' = "connect" /\ UNCHANGED reason

AttemptFailed ==
    /\ attempts' = attempts + 1
    /\ IF attempts' >= MaxAttempts THEN Fails("attempts") ELSE pc' = "connect" /\ UNCHANGED reason

\* A new connection, with a ConnectRequest on it; or none can be made.
Dials == conn' = [conn EXCEPT !["hs"] = [NoConn EXCEPT !.state = "good", !.up = <<Request>>,
                                                       !.peer = "request"]]

NoRoute == losses < MaxLosses /\ losses' = losses + 1

Dial ==
    /\ pc = "connect"
    /\ \/ Dials /\ pc' = "await" /\ UNCHANGED <<attempts, reason, losses>>
       \/ NoRoute /\ AttemptFailed /\ UNCHANGED conn
    /\ UNCHANGED <<cli, left, client, server, late, slow>>

\* The handshake's connection becomes that of reader and writer.
Moved(c) == [conn EXCEPT !["cur"] = [c EXCEPT !.down = Tail(@)], !["hs"] = NoConn]

\* Mutant: a client the server knows already is refused.
Await_OnlyNew ==
    /\ pc = "await" /\ Has("hs", "ConnectResponse")
    /\ IF Says(First("hs"), "NewClient") /\ keys # "short"
       THEN /\ conn' = Moved(conn["hs"])
            /\ pc' = "payload"
            /\ UNCHANGED <<attempts, reason, late>>
       ELSE AttemptFailed /\ Dropped("hs")
    /\ UNCHANGED <<cli, left, client, server, losses, slow>>

\* NewClient and ReturningClient are both taken for a stream of packets.  Only
\* after that is the length of the passkey looked at.
Await ==
    /\ pc = "await" /\ Has("hs", "ConnectResponse")
    /\ IF (\E status \in {"NewClient", "ReturningClient"} : Says(First("hs"), status)) /\ keys # "short"
       THEN /\ conn' = Moved(conn["hs"])
            /\ pc' = "payload"
            /\ UNCHANGED <<attempts, reason, late>>
       ELSE AttemptFailed /\ Dropped("hs")
    /\ UNCHANGED <<cli, left, client, server, losses, slow>>

\* The read fails, or times out on a silent connection.
AwaitFails ==
    /\ pc = "await" /\ (Failing("hs") \/ conn["hs"].state = "silent")
    /\ AttemptFailed /\ Dropped("hs")
    /\ UNCHANGED <<cli, left, client, server, losses, slow>>

-----------------------------------------------------------------------------
(* run_session: the initial payload, and its response. *)

\* close_and_maybe_reconnect, when the last thread has returned.
Closes ==
    /\ rt = "none"
    /\ conn' = [conn EXCEPT !["cur"] = NoConn]
    /\ rt' = IF over THEN "none" ELSE "dial"

\* The payload is encrypted and kept, and sent if there is a connection.
WritePayload ==
    /\ pc = "payload" /\ ~over
    /\ conn["cur"].state # "broken"
    /\ sent' = sent + 1
    /\ conn' = IF conn["cur"].state = "none" THEN conn
               ELSE [conn EXCEPT !["cur"].up = Append(@, Frame(sent'))]
    /\ pc' = "response" /\ left' = ResponseWait
    /\ UNCHANGED <<cli, reason, attempts, rt, over, received, queued, junk, server, net>>

\* The write fails with the payload kept, and write_packet will offer it again.
WriteFails ==
    /\ pc = "payload"
    /\ \/ conn["cur"].state = "broken"
       \/ conn["cur"].state = "good" /\ conn["cur"].peer = "gone" /\ sent < MaxCopies
    /\ sent' = sent + 1
    /\ Closes
    /\ UNCHANGED <<cli, progress, over, received, queued, junk, server, net>>

WriteRefused ==
    /\ pc = "payload" /\ over
    /\ Fails("payload")
    /\ UNCHANGED <<cli, attempts, left, client, conn, server, net>>

\* The response, from the catch-up or the connection: an error in it is fatal.
Concludes == IF answered = "ok" THEN pc' = "session" /\ UNCHANGED reason ELSE Fails("response")

ReadQueued ==
    /\ pc = "response" /\ left > 0 /\ queued > 0
    /\ queued' = queued - 1
    /\ Concludes
    /\ UNCHANGED <<cli, attempts, left, rt, over, sent, received, junk, conn, server, net>>

ReadResponse ==
    /\ pc = "response" /\ left > 0 /\ queued = 0
    /\ Has("cur", "frame") /\ ~junk
    /\ conn' = Taken("cur")
    /\ received' = received + 1
    /\ Concludes
    /\ UNCHANGED <<cli, attempts, left, rt, over, sent, queued, junk, server, net>>

\* What the server says of a handshake is read as the start of a frame.  Its
\* first four bytes, the low ones of a length, are the high ones of the frame's:
\* no frame is that long, and whatever else comes is taken for more of it.
ReadJunk ==
    /\ pc = "response" /\ left > 0 /\ queued = 0
    /\ Has("cur", "SequenceHeader") \/ (junk /\ Has("cur", "frame"))
    /\ conn' = Taken("cur")
    /\ junk' = TRUE
    /\ UNCHANGED <<cli, progress, rt, over, sent, received, queued, server, net>>

\* Mutant: the deadline is set again for each connection.
ReadFails_NewDeadline ==
    /\ pc = "response" /\ left > 0 /\ queued = 0 /\ Failing("cur")
    /\ Closes
    /\ left' = ResponseWait
    /\ UNCHANGED <<cli, pc, reason, attempts, over, sent, received, queued, junk, server, net>>

ReadFails ==
    /\ pc = "response" /\ left > 0 /\ queued = 0 /\ Failing("cur")
    /\ Closes
    /\ UNCHANGED <<cli, progress, over, sent, received, queued, junk, server, net>>

ResponseTimesOut ==
    /\ pc = "response" /\ left = 0
    /\ Fails("deadline")
    /\ UNCHANGED <<cli, attempts, left, client, conn, server, net>>

-----------------------------------------------------------------------------
(* The reconnect thread: try_recover, again a second after a failure. *)

Running == pc \in {"payload", "response"}

RecoverDial ==
    /\ Running /\ rt = "dial"
    /\ \/ Dials /\ rt' = "response" /\ UNCHANGED losses
       \/ NoRoute /\ rt' = "sleep" /\ UNCHANGED conn
    /\ UNCHANGED <<cli, progress, over, sent, received, queued, junk, server, late, slow>>

RecoverResponse ==
    /\ Running /\ rt = "response" /\ Has("hs", "ConnectResponse")
    /\ CASE Says(First("hs"), "ReturningClient") ->
              /\ rt' = "sequence"
              /\ conn' = [Taken("hs") EXCEPT !["hs"].up = Append(@, SequenceHeader(received))]
              /\ UNCHANGED <<over, late>>
         [] Says(First("hs"), "InvalidKey") ->
              over' = TRUE /\ rt' = "none" /\ Dropped("hs")
         [] OTHER ->
              rt' = "sleep" /\ Dropped("hs") /\ UNCHANGED over
    /\ UNCHANGED <<cli, progress, sent, received, queued, junk, server, losses, slow>>

RecoverSequence ==
    /\ Running /\ rt = "sequence" /\ Has("hs", "SequenceHeader")
    /\ rt' = "catchup"
    /\ conn' = [Taken("hs") EXCEPT !["hs"].up = Append(@, CatchupBuffer(Meant[First("hs")][1][1] + 1, sent))]
    /\ UNCHANGED <<cli, progress, over, sent, received, queued, junk, server, net>>

\* Mutant: revive() leaves what is in partial.
RecoverCatchup_KeepsPartial ==
    /\ Running /\ rt = "catchup" /\ Has("hs", "CatchupBuffer")
    /\ LET caught == Len(Meant[First("hs")][1])
       IN  received' = received + caught /\ queued' = queued + caught
    /\ conn' = Moved(conn["hs"])
    /\ rt' = "none"
    /\ UNCHANGED <<cli, progress, over, sent, junk, server, net>>

RecoverCatchup ==
    /\ Running /\ rt = "catchup" /\ Has("hs", "CatchupBuffer")
    /\ LET caught == Len(Meant[First("hs")][1])
       IN  received' = received + caught /\ queued' = queued + caught
    /\ junk' = FALSE
    /\ conn' = Moved(conn["hs"])
    /\ rt' = "none"
    /\ UNCHANGED <<cli, progress, over, sent, server, net>>

RecoverFails ==
    /\ Running /\ rt \in {"response", "sequence", "catchup"}
    /\ Failing("hs") \/ conn["hs"].state = "silent"
    /\ Dropped("hs") /\ rt' = "sleep"
    /\ UNCHANGED <<cli, progress, over, sent, received, queued, junk, server, losses, slow>>

-----------------------------------------------------------------------------
(* The server. *)

\* It takes the next message on c and writes reply, if the client is there.
Serves(c, peer, reply) ==
    conn' = [conn EXCEPT ![c].up = Tail(@), ![c].peer = peer, ![c].down = @ \o reply]

Arrived(c, peer) == conn[c].state = "good" /\ conn[c].up # << >> /\ conn[c].peer = peer

\* The first request of a client registers it.  Any later one makes the server
\* close the connection it has, and recover the client on the new one.
OnRequest(c) ==
    /\ Arrived(c, "request")
    /\ Meant[Head(conn[c].up)] = <<<<Identity>>, <<PROTOCOL_VERSION>>>>
    /\ CASE ~serves ->
              /\ \E status \in {"InvalidKey", "MismatchedProtocol"} : Serves(c, "gone", <<Response(status)>>)
              /\ UNCHANGED known
         [] serves /\ ~known ->
              known' = TRUE /\ Serves(c, "packets", <<Response("NewClient")>>)
         [] OTHER ->
              /\ conn' = [d \in DOMAIN conn |->
                            IF d = c THEN [conn[d] EXCEPT !.up = Tail(@), !.peer = "sequence",
                                             !.down = <<Response("ReturningClient"), SequenceHeader(got)>>]
                            ELSE IF conn[d].peer = "request" THEN conn[d]
                            ELSE [conn[d] EXCEPT !.peer = "gone"]]
              /\ UNCHANGED known
    /\ UNCHANGED <<serves, got, answered>>

HangsUp(c) == Serves(c, "gone", << >>) /\ UNCHANGED server

\* A frame where a length is expected is none: its high bytes are not zero.
OnSequence(c) ==
    /\ Arrived(c, "sequence")
    /\ LET message == Head(conn[c].up)
           have == IF answered = "no" THEN 0 ELSE 1
       IN  IF message.type = "SequenceHeader"
           THEN Serves(c, "catchup", <<CatchupBuffer(Meant[message][1][1] + 1, have)>>) /\ UNCHANGED server
           ELSE HangsUp(c)

\* Frames in a row: the first of all is the initial payload, which it answers.
Takes(c, frames) ==
    IF frames = << >> THEN Serves(c, "packets", << >>) /\ UNCHANGED server
    ELSE IF frames[1] # <<got + 1>> \/ keys # "right" THEN HangsUp(c)
    ELSE /\ got' = got + Len(frames)
         /\ IF got = 0
            THEN answered' \in {"ok", "error"} /\ Serves(c, "packets", <<Frame(1)>>)
            ELSE UNCHANGED answered /\ Serves(c, "packets", << >>)
         /\ UNCHANGED <<serves, known>>

OnCatchup(c) ==
    /\ Arrived(c, "catchup")
    /\ LET message == Head(conn[c].up)
       IN  IF message.type = "CatchupBuffer" THEN Takes(c, Meant[message][1]) ELSE HangsUp(c)

OnFrame(c) ==
    /\ Arrived(c, "packets")
    /\ LET message == Head(conn[c].up)
       IN  IF message.type = "frame" THEN Takes(c, <<message.bytes>>) ELSE HangsUp(c)

Server ==
    /\ \E c \in DOMAIN conn : OnRequest(c) \/ OnSequence(c) \/ OnCatchup(c) \/ OnFrame(c)
    /\ UNCHANGED <<cli, progress, client, net>>

\* A request whose connection the client has dropped arrives after all.
LateRequest ==
    /\ late > 0
    /\ late' = late - 1
    /\ IF ~serves THEN UNCHANGED <<known, conn>>
       ELSE IF ~known THEN known' = TRUE /\ UNCHANGED conn
       ELSE /\ conn' = [d \in DOMAIN conn |->
                          IF conn[d].peer = "request" THEN conn[d] ELSE [conn[d] EXCEPT !.peer = "gone"]]
            /\ UNCHANGED known
    /\ UNCHANGED <<cli, progress, client, serves, got, answered, losses, slow>>

\* The terminal ends: the server forgets the client and closes its connection.
ServerForgets ==
    /\ serves /\ pc \notin {"start", "ping", "ssh", "session", "failed"}
    /\ serves' = FALSE
    /\ conn' = [d \in DOMAIN conn |->
                  IF conn[d].peer = "request" THEN conn[d] ELSE [conn[d] EXCEPT !.peer = "gone"]]
    /\ UNCHANGED <<cli, progress, client, known, got, answered, net>>

-----------------------------------------------------------------------------
(* The network, and the clock. *)

Lose(c, state) ==
    /\ pc \notin {"session", "failed"}
    /\ losses < MaxLosses
    /\ losses' = losses + 1
    /\ conn' = [conn EXCEPT ![c].state = state, ![c].down = IF state = "broken" THEN << >> ELSE @]

Breaks ==
    /\ \E c \in DOMAIN conn : conn[c].state \in {"good", "silent"} /\ Lose(c, "broken")
    /\ UNCHANGED <<cli, progress, client, server, late, slow>>

GoesSilent ==
    /\ \E c \in DOMAIN conn : conn[c].state = "good" /\ Lose(c, "silent")
    /\ slow' = (slow \/ Running)
    /\ UNCHANGED <<cli, progress, client, server, late>>

\* Seconds are long: they wait for the threads and for what is under way on a
\* good connection.  But not for a server that hangs up on every connection, as
\* it does on one who has the wrong key.
Busy ==
    \/ rt = "dial" \/ queued > 0
    \/ \E c \in DOMAIN conn :
          \/ conn[c].state = "broken"
          \/ /\ conn[c].state = "good"
             /\ conn[c].up # << >> \/ conn[c].down # << >> \/ conn[c].peer = "gone"

Tick ==
    /\ pc = "response" /\ left > 0
    /\ Busy => keys # "right"
    /\ left' = left - 1
    /\ rt' = IF rt = "sleep" THEN "dial" ELSE rt
    /\ UNCHANGED <<cli, pc, reason, attempts, over, sent, received, queued, junk, conn, server, net>>

Ended == pc \in {"session", "failed"} /\ UNCHANGED vars

-----------------------------------------------------------------------------
Init ==
    /\ pc = "start" /\ reason = "none"
    /\ aim = "none"
    /\ printed = "nothing" /\ keys = "none"
    /\ attempts = 0 /\ left = 0
    /\ rt = "none" /\ over = FALSE
    /\ conn = [c \in {"cur", "hs"} |-> NoConn]
    /\ sent = 0 /\ received = 0 /\ queued = 0 /\ junk = FALSE
    /\ serves \in BOOLEAN /\ known = FALSE
    /\ got = 0 /\ answered = "no"
    /\ late = 0 /\ losses = 0 /\ slow = FALSE

MainThread ==
    \/ RunParse \/ Ping \/ SetupSsh \/ Dial \/ Await \/ AwaitFails
    \/ WritePayload \/ WriteFails \/ WriteRefused
    \/ ReadQueued \/ ReadResponse \/ ReadJunk \/ ReadFails \/ ResponseTimesOut

ReconnectThread ==
    RecoverDial \/ RecoverResponse \/ RecoverSequence \/ RecoverCatchup \/ RecoverFails

World == Server \/ LateRequest \/ ServerForgets \/ Breaks \/ GoesSilent \/ Tick

Next == MainThread \/ ReconnectThread \/ World \/ Ended

Spec == Init /\ [][Next]_vars

\* Both threads run, and a call on a silent connection times out; the server
\* serves; time passes.
FairSpec ==
    Spec /\ WF_vars(MainThread) /\ WF_vars(ReconnectThread) /\ WF_vars(Server) /\ WF_vars(Tick)

-----------------------------------------------------------------------------
StartupTypeOK ==
    /\ pc \in {"start", "ping", "ssh", "connect", "await", "payload", "response", "session", "failed"}
    /\ reason \in {"none", "arguments", "unreachable", "ssh", "attempts", "payload", "response", "deadline"}
    /\ aim \in {"none", "asked", "deviates", "astray"}
    /\ printed \in {"nothing", "standard", "odd"}
    /\ keys \in {"none", "right", "garbled", "short"}
    /\ attempts \in 0 .. MaxAttempts /\ left \in 0 .. ResponseWait
    /\ rt \in {"none", "dial", "sleep", "response", "sequence", "catchup"}
    /\ \A c \in DOMAIN conn :
          /\ conn[c].state \in {"none", "good", "silent", "broken"}
          /\ conn[c].peer \in {"request", "sequence", "catchup", "packets", "gone"}
    /\ sent \in 0 .. MostPackets /\ got \in 0 .. sent
    /\ received \in 0 .. 1 /\ queued \in 0 .. received
    /\ answered \in {"no", "ok", "error"}
    /\ over \in BOOLEAN /\ junk \in BOOLEAN /\ serves \in BOOLEAN /\ known \in BOOLEAN
    /\ late \in 0 .. losses /\ losses \in 0 .. MaxLosses /\ slow \in BOOLEAN

\* host.rs, parse_destination, and main.rs, `CLI -p overrides destination port
\* only when host had no :port': what is connected to is what the forms of
\* address mean.  Except for the user of -u, and a colon in a user name: see
\* Deviations.
DialsWhatWasAsked == aim # "astray"

\* main.rs and client.rs, the ways to fail before the session: each has a cause
\* in the world.  A lost answer, or a request the server gets twice or late, is
\* none: the attempts left, and the reconnect thread, make up for it.  A loss costs
\* an attempt, or up to two seconds of the wait, as its request may come between two
\* later handshakes; but the first only puts the reconnect thread to work.
FailsOnlyForCause ==
    /\ reason = "ssh" => printed # "standard"
    /\ reason = "attempts" => ~serves \/ keys = "short" \/ losses >= MaxAttempts
    /\ reason = "payload" => ~serves
    /\ reason = "response" => answered = "error"
    /\ reason = "deadline" => ~serves \/ keys # "right" \/ slow \/ 2 * losses >= ResponseWait + 2

\* When the session begins, server and client are past every handshake, on
\* whatever connection they have: the server has taken the payload and accepted
\* it, and no byte of a handshake is left in the reader.
SessionStartsClean ==
    pc = "session" =>
        /\ got \in 1 .. sent /\ answered = "ok" /\ received = 1
        /\ ~junk
        /\ conn["cur"].state # "none" =>
              \/ conn["cur"].peer \in {"packets", "gone"}
              \/ conn["cur"].peer = "catchup" /\ Head(conn["cur"].up).type = "CatchupBuffer"

\* The program does not hang before its session: it starts, or it says why not.
StartsOrReports == <>(pc \in {"session", "failed"})
=============================================================================
