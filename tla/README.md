# Formal model of the Eternal Terminal client

TLA+ modules for `et`, the client of this repository: how it keeps a terminal
session alive over TCP connections that come and go. All paths below are
relative to the repository; the sources are in `src/`.

## The system

| Component | Source | State | Operations |
|---|---|---|---|
| `BackedWriter` | `src/backed.rs` | socket, backup queue and its size, bytes buffered in this outage, sequence number, nonce | `write`, `recover`, `revive`, `invalidate_socket` |
| `BackedReader` | `src/backed.rs` | socket, sequence number, nonce, unfinished frame, unread catch-up | `read`, `sequence_number`, `revive`, `invalidate_socket` |
| `CryptoHandler`, `Packet` | `src/crypto.rs`, `src/packet.rs` | nonce; encrypted flag | `encrypt`, `decrypt`, `serialize` |
| `ClientConnection` | `src/connection.rs` | the two halves, each behind a mutex; `socket_alive`, `shutting_down`; the handle of the reconnect thread | `connect`, `write_packet`, `read_packet`, `close_and_maybe_reconnect`, `shutdown` |
| reconnect thread | `src/connection.rs` | its new stream, the sequence numbers exchanged | `reconnect_loop`, `try_recover` |
| session loop | `src/client.rs` | keepalive deadline, `waiting_on_keepalive`, drained output, last terminal size | `run_session` |
| bootstrap | `src/main.rs` | attempts, the Ctrl-C flag | `real_main` |
| console | `src/terminal.rs` | the console's modes, saved and set; the queue of input records | `LocalConsole`: `new`, `poll_input`, `write`, `terminal_info`, `teardown` |
| codec | `src/proto.rs` | none | varints, fields, messages, length prefixes |
| destination | `src/host.rs`, `src/main.rs` | none | `parse_destination`, port test, `jump_hostname` |
| SSH bootstrap | `src/ssh_setup.rs` | none | `setup_ssh`, `parse_idpasskey` |
| build script | `build.rs` | none | version resources |

**How they interact.** The main thread runs `run_session`, which calls
`write_packet` and `read_packet`. Either finds out that the connection is lost,
or the session loop decides so when a keepalive goes unanswered; all three call
`close_and_maybe_reconnect`, which joins the last reconnect thread, takes the
socket from both halves, clears `socket_alive` and spawns the next thread. That
thread connects, exchanges `SequenceHeader` and `CatchupBuffer` with the server,
gives both halves the new socket and sets `socket_alive`. So two threads share
reader and writer (a lock each, never both at once) and two flags (no lock).
While there is no connection, the main thread keeps calling: reads return what is
left of a catch-up or nothing, writes are buffered up to a limit. Before any of
this `real_main` works out the destination, has `ssh` start the server's terminal
and print id and passkey, and tries `connect()` up to three times. The console is
polled by the session loop, in its thread.

**What is hard.** The two threads interleave between any two locks; a connection
can end at any byte and be noticed at different times by its two ends; what was
in flight is lost and resent; a resent frame must meet the nonce it was encrypted
under; a handshake can fail at every step; calls of the main thread wait on the
other thread, which waits on the server; a read of the console may wait on the
user. Before the session, answers may be lost and requests arrive late, at a
server that remembers the first it got. `PROJECT.json` lists each hazard at its
line with the property that guards it.

**What makes each component correct.** Writer: the backup is the tail of what was
accepted, and `recover` returns exactly what the peer lacks. Reader: each packet
handed over once and in order. `ClientConnection`: both of these across
reconnects, never a half-revived state, never a lost connection without a thread
at work. Session loop: it notices a connection that is silently dead, never gives
up one for no reason, and ends when told to. Startup: it connects to what was
asked for, a session begins with both sides past the handshake, and a failure has
a cause. Console: bytes arrive as they were typed and printed, no event freezes
the loop, each mode is restored that Windows lets be restored.

## The modules

```
EternalPipe                 what one direction promises
   ^ implemented by
PeerStream  (BackedReader + a peer)        Connection --- implements ---> Link
   |                                        |  |                           ^
BackedReader <------------------------------+  +----> BackedWriter         | extends
                                                                         Session
            Codec  <--- extends --- Startup, Console
            Destination, SshSetup  <--- extends --- Startup
```

* **BackedWriter** (`backed.rs`, with `Packet::length` and `CryptoHandler::encrypt`).
  One action per outcome of `write()`: `WriteSkipped`, `WriteBuffered`,
  `WriteSuccess`, `WriteFailed`; `Accept` is what every accepted packet goes
  through, eviction included, whose loop is the set `Kept` of lengths it can stop
  at. `InvalidateSocket`, `Revive`, and `CanRecover`/`Recovered` for `recover()`.
  A packet is an identity and a length; a frame adds its nonce. `accepted` and
  `offset` are history. `saturating_sub` is a plain subtraction: `TypeOK`, proved,
  says it never saturates. `write()` encrypts a packet that callers clone
  unencrypted, so its branch for a failed encryption is never taken.
* **BackedReader** (`backed.rs`). The outcomes of `read()` as operators that
  PeerStream and Connection supply with input: `ReadIdle`, `ReadBuffered` (the
  catch-up), `ReadPartial`, `ReadFrame`, `ReadClosed`. A frame is two pieces,
  prefix and body, which is enough to lose a connection inside one. Decryption
  succeeds exactly under the right nonce, and spends it either way.
* **PeerStream**: BackedReader with an external peer that numbers, sends and resends.
* **EternalPipe**: the promise, a FIFO that delivers each packet once.
* **Connection** (`connection.rs`): the two halves (instances of the two modules),
  the main thread (`main`), the reconnect thread (`rt`), the flags, a network of
  TCP connections and a server. One action is what a thread does under one lock or
  between two points where it may wait. The server is external: it holds the
  session, checks nonces, answers the handshake, and may refuse or end.
* **Link**: `ClientConnection` as the session loop sees it: alive or not, over or
  not, a thread at work or not. Connection implements it (checked and proved).
* **Session** (`client.rs`, `main.rs`): EXTENDS Link with the main thread's loop:
  connection attempts, initial payload and response, drain, print, keepalive,
  input, resize, shutdown. Calls that may wait are states of their own (`write`,
  `close`). Time is a number of ticks to the next deadline. What a connection loses
  the next one resends, but not without exception: a packet that is written between
  the reconnect thread's `recover()` and the writer's `revive()` (`path` is then
  `handshake` or `reading`) is buffered as `stranded`. It is not on the new
  connection, and what is sent behind it (`late`) has a nonce the server does not
  expect: the server hangs up. When that connection is closed, both go back to what
  the next `recover()` offers. In the other direction an unread catch-up (`caughtUp`)
  stays in memory and is read before anything else, with a connection or without;
  what had arrived and was not read is sent again. Packets are their headers. The
  kernel takes `SendRoom` of them on a connection that delivers nothing; then
  `write_all_retry` neither fails nor returns (`Blocked`).
* **Codec** (`proto.rs`): a message is the values of its fields; `Encode` is what
  the code writes, byte by byte, `Decode` what it makes of any bytes: varints, tags,
  unknown fields of every wire type, negative `int32`s, nested messages. The base
  of a varint's digit and the widths of integers are constants.
* **Destination** (`host.rs`, `main.rs`): `Target`, the host, port and user
  connected to, for every form of argument the code tells apart, against `Asked`,
  what the help text says; `Deviations` names the two ways they differ.
* **SshSetup** (`ssh_setup.rs`): what `parse_idpasskey` cuts out of what ssh prints.
* **Startup** (`main.rs`, `connection.rs`, `client.rs`): EXTENDS these three with the
  way from the command line to the first packet of a session: `ping_server`,
  `setup_ssh`, `connect()` and its attempts, the initial payload and the wait for its
  response, and `try_recover` for a connection lost meanwhile. Two connections are
  kept, that of the halves (`cur`) and that of a handshake (`hs`), and what travels
  on them is encoded by Codec. The server is external: it registers a client with
  the first request it gets, arrived late or answered in vain as it may be, recovers
  one it knows, and hangs up on what it cannot make sense of. try_recover's two
  `revive()` are one step here; what may come between them is Connection's. A request
  whose connection the client has dropped is counted (`late`): any number may be under
  way, and each registers the client or closes its connections when it arrives.
* **Console** (`terminal.rs` on Windows, `client.rs`): `LocalConsole::new` in its four
  fallible steps, the turns of the loop with drain, peek, wait and read of
  `poll_stdin`, the resize check and `teardown()`. Any call may fail, those that set
  the modes back included, whose results `disable_raw` ignores: the history variable
  `refused` has the modes for which that happened. Windows is external: a queue of
  key, modifier and other records that grows between any two calls.
* **MCBackedWriter, MCPeerStream, MCConnection, MCSession, MCStartup, MCConsole**:
  bounds and inputs for TLC; MCStartup also has TLC evaluate `RoundTrips`: every
  message type, with values on both sides of each boundary, is read as written.
* **BackedWriterProofs, PeerStreamProofs, SessionProofs, StartupProofs,
  ConsoleProofs**: the theorems of these modules. Those of Connection are in
  **ConnectionProofs**, and in **DeliveryProofs**, which extends it, those on what the
  client sends and receives. **CodecProofs** has induction on numbers and on sequences,
  what follows for FlattenSeq, and the codec's round trip; ConsoleProofs and
  StartupProofs extend it.

Definitions named `Something_Like_This` (`Revive_KeepsPartial`,
`CloseAndMaybeReconnect_OneThread`) are mutants: what the code would be with a
plausible mistake. Nothing uses them; they show, property by property, that the
property notices.

## The runs

| Run | Shows | Bounds |
|---|---|---|
| `writer` | BackedWriter alone: `BackupIsRecentHistory`, `RecoverIsExact`, `BackupSizeIsExact`, `OutageBufferBounded`, `OutageKeepsRecoverable`, `EvictionIsMinimal` | 6 packets of two sizes (3 and 6 bytes encrypted), eviction above 9, outage limit 8: both limits are met exactly and passed, by one packet or several |
| `peer_stream` | reader against peer: `NonceMatchesDelivery`, `SequenceCountsCatchup`, `WireContinuesPartial`, refinement of EternalPipe | 4 packets, any number of connections |
| `connection` | both threads and the server, safety: see below | 3 packets up, 2 down, 1 failure, 1 forced reconnect, 3 connections at a time |
| `connection_liveness` | `Reconnects`, `WriteReturns`, `ShutdownCompletes`, `ServerIsHeard` | 1 packet each way, 1 failure, 1 forced reconnect, an outage buffer that has room for none |
| `session` | the main thread: `WaitingIsOwed`, `SilenceNoticed`, `StrandedComesBack`, `QuitHonoured`, `OverMeansExit` | 1 connection lost or failed in the making, 1 packet printed by the shell or stranded in a reconnect, interval of 2 ticks, room for 1 packet in the kernel and 1 in an outage, any input, with and without console |
| `startup` | `DialsWhatWasAsked`, `FailsOnlyForCause`, `SessionStartsClean`, `StartsOrReports` | every form of host, with and without `-u` and jumphost; ids and passkeys a character short or long; 3 losses, 3 attempts, a wait of 3 seconds, 2 failed writes of the payload |
| `console` | `BytesIntact`, `ModesRestored`, `NeverFrozen` | 3 records beside the keys' releases, 2 prints, 1 resize, a read buffer of 2 bytes, a poll of 1 tick |
| `stranded_packets`, `duplicated_packet`, `evicted_catchup`, `killed_reconnect`, `blocked_write` | the findings | the smallest that show them |

What the properties of `connection` say: the client hands over what the server
sent once and in order (`ImplementsEternalPipe`); the sequence number sampled under the
lock is still right when it is used (`SampleStaysCurrent`); what was accepted reaches
the server in order, nothing missing, repeats only by a retry (`UpstreamAtLeastOnce`);
frames are stranded only by the window between `recover()` and `revive()`
(`StrandedOnlyByTheWindow`); behind `socket_alive` both halves are on one connection
(`AliveMeansConnected`); a lost connection has a thread (`SomeoneReconnects`); nothing
comes back after shutdown (`StoppedIsQuiet`).

What those of `startup` say: the host, port and user connected to are what was
asked for, but for two known deviations (below); no failure comes without a cause in
the world, where a lost answer, a repeated or a late request is no cause; when a
session begins, no byte of a handshake is left in the reader and the server has taken
and accepted the payload, on whatever connection it now has; and the program always
gets that far or reports. `console`: no typed or printed byte is lost, invented or
overtaken, whatever records the drain takes away; output is shown and a new size is
told though nobody types, except when `ReadFile` was called for a modifier key; on
every way out of the session each mode is set back to what it was, unless Windows
refuses that one, and a refusal of one does not cost the other (`ModesRestored`).

What those of `session` say: while the loop waits for the answer to a keepalive, the
keepalive or its answer is under way, through any loss, or else the keepalive was caught
between `recover()` and `revive()`; then no answer comes on this connection, and giving
it up, as the loop will, puts the keepalive on the next (`WaitingIsOwed`). A connection
that falls silent is given up (`SilenceNoticed`), and so is one that left a packet
behind, so that the packet comes back (`StrandedComesBack`), unless the main thread is
caught in a write that the kernel does not take. However much is typed, each key moving
the deadline on: the kernel's room is used up by it. Ctrl-C and a connection that is
over end the program (`QuitHonoured`, `OverMeansExit`).

**Why the bounds are enough.** One failure and one forced reconnect give a second
loss at every point of the first reconnect, with the catch-up unread, and that is
where the state of one outage can leak into the next; two packets down put one in
the catch-up and one behind it; three up put one before, one in and one after the
window of a reconnect. Three connection names are one in use by each half or
thread, one the server has not let go of, and a fresh one; names are symmetric
and are used again. `MAX_BACKUP_BYTES` is out of reach in `connection`: what eviction
does is asked in `writer` and, where it goes wrong, in `evicted_catchup`; the theorems
on Connection hold with eviction, for any limits. `I32_LIMIT` is out of reach
everywhere: it would take 2^31 packets (finding 11).

Session's one loss is a connection that falls silent or breaks, or a handshake that
fails; forced reconnects and hang-ups of the server cost nothing, so that losses follow
one another all the same. One extra packet is either output of the shell, or the one
that opens the gap of a reconnect; what is sent behind that one is not counted. Room for
one packet, in the kernel or in an outage, is enough to be used up. `KilledReconnect.cfg`
has room for two, so that the write of the keepalive does not wait.

Startup's three losses are one for each attempt of `connect()`, or one that loses the
first answer, one in the session's wait and one in the reconnect that follows; a
fourth only repeats a state, as an attempt leaves nothing behind but what the server
knows. A wait of three seconds lets two retries of the reconnect thread, a second
apart, fail within it. How many losses exhaust a wait is proved for all of them: each
costs up to two seconds, of which the first is spared, as the connection it takes is
that of the initial payload (`2 * losses >= ResponseWait + 2` in `FailsOnlyForCause`).
Console's buffer of two bytes is as many as take two digits to count, and three keys do
not fit it, so a read ends with keys left; three records put one before, one in and one
after what a drain or a read takes. Codec's digit of one or two bits instead of seven
makes lengths and numbers of several digits out of two or three bytes, and an `i32` of
four bits in a `u64` of seven a sign extension to four digits, where the code has ten.

**Fairness.** `FairSpec` of Connection: the main thread carries each call through
and goes on reading (its loop does nothing else), the reconnect thread goes on
when its answer is there, the server answers. Nobody has to write, to time out,
to give up a connection or to quit. `FairSpec` of Session: the main thread is
scheduled, time passes, a good connection delivers, the server hangs up on what it
cannot decrypt, and a handshake ends one way or the other, as its reads time out. The
reconnect thread gives up once `shutting_down` is set: strongly fair, since it looks
only between two attempts, but there always again. It is *not* assumed that the server
ever comes back; `QuitHonoured` makes the exception explicit: Ctrl-C can be without
effect only while the reconnect thread is at work for ever, or while a write is blocked
on a silent connection. What the liveness of Session does assume is that the shell's
output comes to an end (`MaxExtras`): one that prints faster than the client can read
keeps the drain loop from ending, and each packet moves the deadline on. `FairSpec` of
Startup: both threads run, where a read of a handshake has a timeout; the server serves;
seconds pass, but not before the threads and a good connection have done what is at
hand. `FairSpec` of Console: the main thread runs, where `ReadFile` returns only for a
byte, and time passes in a poll. All conditions but the one named are weak fairness: no
thread needs luck with a lock, as each is held briefly.

**Deadlock** is checked everywhere; the final states (`Stopped`, `Exited`) loop.

## What the runs found

1. `stranded_packets`: the writer's lock is free between `recover()` and
   `revive()` (`src/connection.rs:287-317`). A packet buffered there is in neither
   the catch-up nor the new connection. The next frame has a nonce the server does
   not expect; it hangs up, and the next reconnect repairs it, but the session was
   interrupted, and until something is typed or a keepalive is due the packet just
   sits there. A keepalive may itself be the packet: the loop then waits for an answer
   that nobody owes it, and gives the connection up (`WaitingIsOwed` and
   `StrandedComesBack` say that this heals it).
2. `duplicated_packet`: `write_packet` repeats a packet whose write failed
   (`src/connection.rs:132-135`) though the writer already keeps it
   (`src/backed.rs:65-67`). The server gets it twice.
3. `evicted_catchup`: both limits are 64 MiB (`src/backed.rs:14-15`). When an
   outage filled the buffer and the next connection fails before the server has
   read the catch-up, the write that finds out evicts a frame nobody has
   (`src/backed.rs:69-75`), and `recover()` fails for ever after. A threshold above
   the limit would help against a single outage, but several short ones in a row add
   up against any threshold, as nothing is acknowledged.
4. `killed_reconnect`: `read_packet` fails in the drain loop, closes the
   connection and starts a reconnect; with a keepalive outstanding and its deadline
   past, the same turn of the loop (`src/client.rs:139-144`) waits for that
   reconnect to succeed and then throws its connection away. A laptop that wakes up
   is enough. As long as the server is out of reach the main thread hangs in the
   join, and Ctrl-C is not seen.

5. `blocked_write`: `write_all_retry` (`src/backed.rs:245`) retries a full socket for
   ever, with the writer locked. On a connection that takes no more and does not fail,
   as with a server that is suspended, neither output nor the keepalive nor Ctrl-C is
   looked at, though `src/connection.rs:92` speaks of a poll loop that stays responsive.
   `Blocked` is the exception in `SilenceNoticed`, `StrandedComesBack` and
   `QuitHonoured`.

Met on the way, without a run of their own; the properties name 6, 7 and 9 as an
exception or a cause, and the last needs an `I32_LIMIT` in reach:

6. `console_has_key_down` takes a modifier key for input (`src/terminal.rs:282`), and
   `ReadFile` then blocks the session loop until another key comes, which the comments
   at `src/client.rs:105` and `src/terminal.rs:278` rule out (`Stalled` in
   `NeverFrozen`).
7. `user@` in the destination wins over `-u` (`src/host.rs:27`), whose help text says
   the opposite (`src/main.rs:42`); and a colon in the user name makes the port test of
   `main.rs` think that the host had a port (`Deviations` in Destination).
8. `connect()` takes `ReturningClient` for a first answer (`src/connection.rs:82`) and
   then treats the server's half of a recovery as packets. What heals it is the server,
   which hangs up on the client's first packet: the next reconnect is a proper one.
9. The length of the passkey is looked at only after the server has registered the
   client (`src/connection.rs:98`): all three attempts are made, and fail alike.
10. An error within `enable_raw` leaves the modes half set (`src/terminal.rs:102`), as
    `enabled` is still false and the drop undoes nothing (`pc = "failed"` in Console). And
    `disable_raw` reports no failure to set them back (`src/terminal.rs:157`).
11. Packets are counted in an `i64` but travel in the SequenceHeader as an `i32`
    (`src/connection.rs:280`). From 2^31 packets on the server's number arrives
    negative, is sign-extended (`src/connection.rs:285`), and `recover()` finds the
    backup exhausted, now and on every later attempt, though nothing was evicted. With
    `I32_LIMIT = 2` in `MCConnection.cfg` and `RecoverSucceeds` among its invariants
    TLC shows it, in 16 states.

## What is proved

TLAPS, for all values of the constants.

* **BackedWriterProofs**, from the assumptions that lengths and limits are natural
  numbers. `Inductive` shows `IInv`: the types, `BackupIsRecentHistory`,
  `BackupSizeIsExact`, `OutageBufferBounded` and two facts about offsets. The
  offsets are why a strengthening is needed: `backup_size` stays exact under
  eviction only because the bytes of a run of frames are the difference of two
  offsets (`OffsetsTelescope`), and it stays a natural number only because that
  difference is not negative for any two frames (`OffsetsOrdered`), which does not
  follow from neighbours without an induction on their distance. `AcceptHistory`,
  `AcceptOffsets`, `AcceptSize` and `AcceptTypes` take `Accept` one conjunct at a
  time; the theorems `Typing`, `HistoryKept`, `SizeExact`, `OutageBounded`,
  `RecoverExact` and `OutageKeeps` read their properties off the invariant.
  `EvictionMinimal` needs in addition what the choice in `Kept` says of the next longer
  queue: `OneMoreIsTooMany` turns it into bytes, again by the offsets.
* **PeerStreamProofs**, from `NoStream` not being a stream. The four invariants the
  run checks are inductive together (`PInv`) and lean on each other: the next nonce
  is right because of what is in the catch-up, the catch-up because of the
  sequence number, and the sequence number because the wire continues the
  partial frame. `ReadFrameDelivers` and `ReadBufferedDelivers` say that either
  way a packet comes, it is the peer's next one; each is used twice, for the
  invariant and for the refinement `PipeImplemented`, where only those two steps
  and `PeerSend` map to steps of EternalPipe.
* **ConnectionProofs**, from `NoStream` not being a stream. `LinkImplemented`: every step
  of Connection is a step of Link or leaves it alone. The invariant `LinkInv` says
  that the link is down while a thread is at work, that `shutdown()` waits only
  after setting its flag, and that no session is abandoned. Steps fall into those
  that move only the main thread (`MainMoves`), those that move only the reconnect
  thread (`ThreadMoves`) and the six that Link names, a lemma each. `NeverAbandoned`
  is `SomeoneReconnects`. On top of it `HalvesInv` says, for each place of the
  reconnect thread, which half has which connection: neither until the thread gives it
  the new one. Hence nothing is read that would make the sampled sequence number wrong
  (`SampleCurrent`), behind the flag both halves are on one connection
  (`AliveConnected`), and after the join of `shutdown()` both have none
  (`StoppedQuiet`). The one delicate case is a write that fails between the writer's
  revival and the announcement: it takes the writer's socket, but also the main thread
  to a join, and so the invariant makes an exception for exactly that.
  The second half of the module is what the proofs about packets share. `BaseInv`
  types every message under way and says which connection each of main thread,
  reconnect thread and server holds; the lemmas on the conversation say what each step
  puts on a connection or takes from it. `WriterImplemented` shows that the two threads
  between them use the writer only as BackedWriter's specification allows, in every
  interleaving, so that BackedWriterProofs' invariant holds of Connection's writer.
* **DeliveryProofs**, client to server, with the hypothesis that the backup never holds `2 * I32_LIMIT`
  frames (`BackupBelowWrap`; the threshold of 64 MiB keeps it far below). What the
  server received is an unbroken beginning of what was accepted, and what was accepted is
  what the session loop handed over, without a hole and each packet at most twice in a
  row (`UpstreamTheorem`). The invariant follows each connection by its place in the
  handshake: the `SequenceHeader` under way still names what the server has, or its
  connection is one the server has let go; the catch-up continues it; and the frames
  behind continue the catch-up but for those of the window (`StrandedTheorem`).
* **DeliveryProofs**, server to client, from the limits being natural numbers and `I32_LIMIT` positive.
  `ConnectionTyping` is `TypeOK`: in particular each message that the thread or the
  reader takes is of the type that it takes it for. `PipeTheorem`: if the server sends
  fewer than `2 * I32_LIMIT` packets, the session loop is handed them in order, each
  once, through both threads. Beyond that number the `i32` in a handshake names another
  packet than the one meant, and only the nonces hold a repeated frame back; nothing is
  claimed there.
* **SessionProofs**, from the assumptions on the constants. `SInv` is the types,
  `WaitingIsOwed`, `CallInv` and `GapInv`. `CallInv`: what each call is for, and that
  nothing waits before the loop begins. `GapInv`: a packet is late only behind a stranded
  one, and none is late when a `recover()` begins, since closing the last connection has
  put it among what is offered; without it a keepalive could be late with nothing
  stranded before it, which `WaitingIsOwed` does not allow. All but `WaitingIsOwed` is
  inductive by itself (`Sound`), action by action; `SendKeeps`, `BufferKeeps`,
  `ReadKeeps`, `CutOffKeeps` and `ServerSendsKeeps` say of what the calls and the
  network do that they keep the types and every keepalive, or hand it to the loop, which
  stops waiting. The lemmas on `KeepaliveIn` (`OwedConcat`, `OwedTail`, `OwedCut`) say
  so of sequences.
* **StartupProofs**, from the assumptions on the constants. `DialsAsked` goes through
  the forms of arguments. `StandardLineParses`: of a line of the usual lengths the id
  and the passkey are taken, whatever follows. `MessagesReadAsWritten`: the messages of a
  handshake are decoded as they were encoded, from `RoundTrip` and the assumption that
  the number of a packet fits an `i32` (`NumbersAssumption`; the program has not yet begun
  its session, and finding 11 is what happens beyond). The other theorems share one
  invariant, `IInv`; its parts:
  - `ShapeInv`, `KindInv`, `BeforeInv`, `CountInv`: types, which connections there are in
    which phase, and bounds. Among them: the writer's number stays within
    `MaxCopies + losses + 1`, since a write that fails needs a lost connection.
  - `Contents`: for each place of a handshake (`Asks`, `Sequencing`, `CatchingUp`) what
    both queues hold and what the server waits for; for the current connection that it
    carries packets from the right number on (`Streams`), or that it is one on which
    `connect()` took a recovery for a beginning (`Misled`), where nothing was received
    yet. `SessionStartsClean` follows: with a packet received it cannot be misled.
  - `Tallies`: an account of the losses. Each pays for a failed attempt, for a request
    still at large, and for two seconds of the wait. `WaitInv` bounds the seconds waited
    and those that the present state will still cost without a further loss (`Cost`) by
    `2 * losses - 2`, or says that nothing is lost yet (`~Doomed`). A second passes only
    while the thread sleeps (`Quiet`): in every other state there is something to do. A
    late request raises the cost of the handshake it disturbs by one, as it is counted
    once less among those at large. `FailsOnlyForCause` follows when an attempt or the
    deadline is exceeded.
* **CodecProofs**, from the assumption that every `u64` fits the digits that are read,
  every tag a `u64`, and that an `i32` has room for the constants of the protocol, as
  the code has it with 2^64, 2^32 and ten digits of 7 bits. `RoundTrip`: for every
  message type and all values of its fields, lists of any length and strings of any
  length below 2^64 included, `Decode(message, Encode(message, values)) = values`. This
  is about encoding and decoding: `read_proto` refuses a message of more than 128 MiB
  before it decodes it (`src/proto.rs:587`), which neither `RoundTrip` nor `Meanings`
  knows of.
  What it takes:
  - Induction. A set of numbers (`Induction`, `StrongInduction`) or of sequences
    (`SequenceInduction`) that has the first and with each the next has all: the library's
    induction theorems take an operator, these a set, so the provers can use them. With
    them each recursive function is shown to exist and to satisfy its equation
    (`WritesExists`, `NumbersExists`, `ParsedExists`, `FlatteningExists`), and FlattenSeq to
    append what is appended.
  - A varint. What is written has its last digit, and no other, below `Half`
    (`WriteVarintDigits`) and at most `Digits` of them (`WriteVarintLength`, from
    `Capacity`); the digits make up the number again (`NumberOfDigits`); so wherever in a
    longer sequence it is, it is read as the number, and the next position is behind it
    (`ReadVarintOfWritten`).
  - A field, whose tag gives number and wire type (`TagType`), is read as that field, and
    what is behind it as if it were alone (`ReadsAs`, `ReadsField`, `ReadsConcat`). So the
    fields of a message are those written, in their order (`MessageWritten`), of which
    each value takes the ones with its number (`OccurrencesOfGroups`), a negative `int32`
    after its extension to a `u64` and back (`AsI32Of`). `DecodeBehind` says the same with
    unknown fields in front.
* **ConsoleProofs**. `ConsoleRestored`, from no assumption: the modes, what was saved and
  `enabled` (`ModesInv`), with a teardown of which either call may fail.
  `ConsoleTyping`, from the assumptions on the constants: `TypeInv`, where the one step
  that takes an argument is a read, which gets a byte at least and no more than fit
  (`ReadTakes`: there are as many bytes as keys, and the longest run of records that
  fits is not one before the first key). `PacketsReadAsWritten`, from `RoundTrip`,
  `DecodeBehind` and the assumption that what is typed or printed at once has a length
  below 2^64 and a size fits an `i32` (`SizesAssumption`): every packet is read as it
  was written. `BytesIntactTheorem`: the lemmas on `BytesOf` say, by induction on
  sequences, that what is taken off the queue and what stays make up what was there
  (`BytesOfParts`); hence a drain loses nothing (`DrainIntact`), a read puts at the end
  of the input exactly what it takes from the front of the queue (`ReadIntact`), and so
  for the other steps, the output (`OutputIntact`) and the size (`SizeIntact`).

Each inductive invariant was checked by TLC, as an invariant of the module's run, before
it was proved. What the proofs changed in the model: the bound on the deadline in
`FailsOnlyForCause` used to be a smaller number of losses, right for the run's wait of
three seconds and wrong for longer ones; late requests were a flag and are a number; and
two `CASE` expressions had arms that overlap, which leaves the value open.

**Only model-checked**: all liveness, which is out of the prover's reach.
`ImplementsEternalPipe` beyond `2 * I32_LIMIT` packets is neither proved nor checked.

## What is not modelled, and why

* The cipher, and the carry of `increment_nonce` from byte to byte: a nonce is a count.
* Partial writes inside `write_all_retry`: a frame reaches the kernel, waits for
  room, or the write fails.
* That strings are valid UTF-8, and the range check of the length prefix
  (`read_proto`): a message longer than 128 MiB is refused, one shorter is read as
  Codec has it.
* `Packet::from_serialized` on a malformed packet: the peer is honest. A frame that
  fails to decrypt and a connection that ends are all a read can meet in Connection.
* The text of ssh's command line and ssh itself; the command line's parsing by clap;
  logging, wording, sleeps.
* The Unix console: a poll and a read, without modes of its own.
* `connect()` is one step of Session; Startup has it message by message.
* The build script, which has no state.

## Plan

Done: all modules above, the theorems, and among them every safety property that a
passing run checks. Left: the Unix console; a bound on what the drain loop prints before
it looks at its input, which needs rates.
