-------------------------------- MODULE Console --------------------------------
(***************************************************************************)
(* The local console on Windows (src/src/terminal.rs) and the turns of     *)
(* run_session around it (src/src/client.rs): raw mode is set and undone,  *)
(* output is decoded and shown, input is polled from a queue of records,   *)
(* encoded and written, and so is the size of the window.                  *)
(*                                                                         *)
(* Windows is external.  A record is a key that was pressed and gives a    *)
(* byte, one that was pressed and gives none (Shift alone), or another:    *)
(* mouse, focus, menu, window size, a key released.  ReadFile takes keys   *)
(* off the queue, and other records with them, until a byte is there.      *)
(* What write_packet and read_packet do is Connection's and Session's.     *)
(***************************************************************************)
EXTENDS Codec

CONSTANTS
    Texts,         \* what the server prints, one after the other
    Windows,       \* sizes of the window, row and column count, or << >>: not told
    DefaultSize,   \* 24 rows and 80 columns
    BufferSize,    \* of the read buffer, 16 KiB
    PollTime,      \* timeout of a poll
    MaxRecords, MaxResized    \* bounds on what the user does

VARIABLES
    pc,                  \* the main thread
    mode, saved,         \* the console's modes, and what the LocalConsole saved
    enabled,
    refused,             \* history: the modes that could not be set back
    queue, window,       \* input records; the size of the window
    left,                \* time until the poll's deadline
    last_ti,
    sent,                \* packets for the server
    arrived, shown,      \* payloads of the server, unread; bytes on the screen
    typed, printed,      \* history: how many keys gave a byte; what the server printed
    count                \* how many records, sizes and prints there were

ASSUME ConsoleAssumption ==
    /\ {BufferSize, PollTime, MaxRecords, MaxResized} \subseteq Nat
    /\ BufferSize > 0
    /\ MaxRecords < 2 * Half
    /\ Texts \in Seq(Seq(Nat)) /\ Windows \subseteq Seq(Nat) /\ DefaultSize \in Seq(Nat \ {0})

\* What is typed or printed at once has a length that fits a u64, and a size is
\* two numbers that fit an i32: Windows gives them as i16.
ASSUME SizesAssumption ==
    /\ BufferSize < Long /\ \A n \in DOMAIN Texts : Len(Texts[n]) < Long
    /\ \A ti \in (Windows \ {<< >>}) \cup {DefaultSize} :
          Len(ti) = 2 /\ \A i \in {1, 2} : ti[i] < Word \div 2

LOCAL INSTANCE SequencesExt
LOCAL INSTANCE FiniteSetsExt
LOCAL INSTANCE Functions

console == <<mode, saved, enabled, refused>>
poll == <<queue, left, sent>>
world == <<window, typed, printed, count>>
vars == <<pc, console, poll, world, last_ti, arrived, shown>>

Original == [in |-> "cooked", out |-> "cooked"]

\* Input records: a key that gives a byte, here its number to tell keys apart,
\* one that gives none, another.
Pressed(b) == [is |-> "key", byte |-> b]
Modifier == [is |-> "modifier"]
Other == [is |-> "other"]

KeyDown(record) == record.is \in {"key", "modifier"}

Input(bytes) == Message("TerminalBuffer", <<<<bytes>>>>)
Size(ti) == Message("TerminalInfo", <<<< >>, <<ti[1]>>, <<ti[2]>>, << >>, << >>>>)

\* The bytes of the keys among records, in their order.
BytesOf(recs) ==
    LET bytes[n \in 0 .. Len(recs)] ==
            IF n = 0 THEN << >>
            ELSE IF recs[n].is = "key" THEN Append(bytes[n - 1], recs[n].byte)
            ELSE bytes[n - 1]
    IN  bytes[Len(recs)]

-----------------------------------------------------------------------------
(* LocalConsole::new and its end. *)

\* Mutant: what is saved is the mode just set.
SetInputMode_SavesAfter ==
    /\ pc = "set_in"
    /\ \/ mode' = [mode EXCEPT !.in = "raw"] /\ saved' = mode' /\ pc' = "set_out"
       \/ pc' = "failed" /\ UNCHANGED <<mode, saved>>
    /\ UNCHANGED <<enabled, refused, poll, world, last_ti, arrived, shown>>

GetModes ==
    /\ pc = "new"
    /\ \/ saved' = mode /\ pc' = "set_in"
       \/ pc' = "failed" /\ UNCHANGED saved
    /\ UNCHANGED <<mode, enabled, refused, poll, world, last_ti, arrived, shown>>

\* An error leaves what was set before as it is: enabled is still false, so the
\* drop of the LocalConsole undoes nothing.
SetInputMode ==
    /\ pc = "set_in"
    /\ \/ mode' = [mode EXCEPT !.in = "raw"] /\ pc' = "set_out"
       \/ pc' = "failed" /\ UNCHANGED mode
    /\ UNCHANGED <<saved, enabled, refused, poll, world, last_ti, arrived, shown>>

\* Older hosts refuse DISABLE_NEWLINE_AUTO_RETURN: it is tried again without.
SetOutputMode ==
    /\ pc \in {"set_out", "set_out_again"}
    /\ \/ mode' = [mode EXCEPT !.out = "raw"] /\ pc' = "wrap"
       \/ /\ pc' = IF pc = "set_out" THEN "set_out_again" ELSE "failed"
          /\ UNCHANGED mode
    /\ UNCHANGED <<saved, enabled, refused, poll, world, last_ti, arrived, shown>>

\* The sequence for auto-wrap is written to stdout, which may fail.
ReassertWrap ==
    /\ pc = "wrap"
    /\ \/ enabled' = TRUE /\ pc' = "turn"
       \/ pc' = "failed" /\ UNCHANGED enabled
    /\ UNCHANGED <<mode, saved, refused, poll, world, last_ti, arrived, shown>>

\* Each mode is set back to what was saved, or Windows refuses: disable_raw looks
\* at neither result.
SetBack(failed) ==
    /\ refused' = failed
    /\ mode' = [m \in DOMAIN saved |-> IF m \in failed THEN mode[m] ELSE saved[m]]

\* Mutant: an error of the first call returns from disable_raw.
Teardown_StopsAtFirst ==
    /\ IF enabled THEN \/ \E failed \in SUBSET {"out"} : SetBack(failed)
                       \/ refused' = {"in"} /\ UNCHANGED mode
                  ELSE UNCHANGED <<mode, refused>>
    /\ enabled' = FALSE
    /\ pc' = "ended"
    /\ UNCHANGED saved

\* The end of the loop or an error out of it: teardown(), which the drop repeats
\* to no effect, as enabled is false whatever disable_raw met.
Teardown ==
    /\ IF enabled THEN \E failed \in SUBSET DOMAIN saved : SetBack(failed)
                  ELSE UNCHANGED <<mode, refused>>
    /\ enabled' = FALSE
    /\ pc' = "ended"
    /\ UNCHANGED saved

-----------------------------------------------------------------------------
(* A turn of run_session. *)

\* The payloads that a text may come in: fields that the client does not know
\* may be before the one it does.
Unknown == {<< >>, WriteTag(9, FIXED32) \o <<1, 2, 3, 0>> \o WriteField(2, "int32", -1)}

Payloads == [n \in DOMAIN Texts |->
               {fields \o Encode("TerminalBuffer", <<<<Texts[n]>>>>) : fields \in Unknown}]

Contents == [payload \in UNION Range(Payloads) |-> FlattenSeq(Decode("TerminalBuffer", payload)[1])]

ContentsOf(payloads) == FlattenSeq([i \in DOMAIN payloads |-> Contents[payloads[i]]])

\* All that has arrived is shown at once.  Or the loop ends: it is told to, or
\* read_packet or writing to the console fails.
Turn ==
    /\ pc = "turn"
    /\ \/ /\ shown' = shown \o ContentsOf(arrived)
          /\ arrived' = << >>
          /\ pc' = "drain" /\ left' = PollTime
          /\ UNCHANGED console
       \/ Teardown /\ UNCHANGED <<shown, arrived, left>>
    /\ UNCHANGED <<queue, sent, world, last_ti>>

\* Mutant: the input buffer is flushed.
Drain_Flush ==
    /\ pc = "drain"
    /\ queue # << >> /\ ~KeyDown(Head(queue))
    /\ queue' = << >>
    /\ UNCHANGED <<pc, console, left, sent, world, last_ti, arrived, shown>>

\* drain_non_vt_console_events.
Drain ==
    /\ pc = "drain"
    /\ queue # << >> /\ ~KeyDown(Head(queue))
    /\ queue' = Tail(queue)
    /\ UNCHANGED <<pc, console, left, sent, world, last_ti, arrived, shown>>

DrainEnds ==
    /\ pc = "drain"
    /\ queue # << >> => KeyDown(Head(queue))
    /\ pc' = "peek"
    /\ UNCHANGED <<console, poll, world, last_ti, arrived, shown>>

\* Mutant: any record is taken for a key.
Peek_AnyRecord ==
    /\ pc = "peek"
    /\ pc' = IF queue # << >> THEN "read"
             ELSE IF left = 0 THEN "resize" ELSE "wait"
    /\ UNCHANGED <<console, poll, world, last_ti, arrived, shown>>

\* console_has_key_down: more records may have come since the drain.
Peek ==
    /\ pc = "peek"
    /\ pc' = IF queue # << >> /\ KeyDown(Head(queue)) THEN "read"
             ELSE IF left = 0 THEN "resize" ELSE "wait"
    /\ UNCHANGED <<console, poll, world, last_ti, arrived, shown>>

\* WaitForSingleObject is signaled while there is any record.
Signaled ==
    /\ pc = "wait" /\ queue # << >>
    /\ pc' = "drain"
    /\ UNCHANGED <<console, poll, world, last_ti, arrived, shown>>

WaitTimesOut ==
    /\ pc = "wait" /\ left = 0
    /\ pc' = "resize"
    /\ UNCHANGED <<console, poll, world, last_ti, arrived, shown>>

\* WAIT_FAILED: the poll returns nothing, before its deadline.
WaitFails ==
    /\ pc = "wait"
    /\ pc' = "resize"
    /\ UNCHANGED <<console, poll, world, last_ti, arrived, shown>>

\* How many records ReadFile takes: all, if their bytes fit.
Read ==
    LET Keys(n) == {i \in 1 .. n : queue[i].is = "key"}
    IN  Max({n \in 0 .. Len(queue) : Cardinality(Keys(n)) <= BufferSize})

\* It returns with the bytes, which are written as a TerminalBuffer.
ReadReturns ==
    /\ pc = "read"
    /\ \E i \in DOMAIN queue : queue[i].is = "key"
    /\ sent' = Append(sent, Input(BytesOf(SubSeq(queue, 1, Read))))
    /\ queue' = SubSeq(queue, Read + 1, Len(queue))
    /\ pc' = "resize"
    /\ UNCHANGED <<console, left, world, last_ti, arrived, shown>>

\* It is aborted, with no input and no error.
ReadAborted ==
    /\ pc = "read"
    /\ pc' = "resize"
    /\ UNCHANGED <<console, poll, world, last_ti, arrived, shown>>

\* Any of the console's calls fails: the loop ends.
PollFails ==
    /\ pc \in {"drain", "peek", "read"}
    /\ Teardown
    /\ UNCHANGED <<poll, world, last_ti, arrived, shown>>

\* Mutant: the size as Windows gives it.
SizeOf_Raw(w) == IF w = << >> THEN DefaultSize ELSE w

SizeOf(w) == IF w = << >> THEN DefaultSize ELSE [i \in DOMAIN w |-> Max({w[i], 1})]

TerminalSize == SizeOf(window)

Resize ==
    /\ pc = "resize"
    /\ IF TerminalSize # last_ti
       THEN /\ last_ti' = TerminalSize
            /\ sent' = Append(sent, Size(last_ti'))
       ELSE UNCHANGED <<last_ti, sent>>
    /\ pc' = "turn"
    /\ UNCHANGED <<console, queue, left, world, arrived, shown>>

-----------------------------------------------------------------------------
(* The user, the server, and the clock. *)

Counted(what, bound) ==
    count[what] < bound /\ count' = [count EXCEPT ![what] = @ + 1]

\* A key is pressed and released; it may be one that gives no bytes.
Type ==
    /\ Counted("records", MaxRecords)
    /\ \/ queue' = queue \o <<Pressed(typed + 1), Other>> /\ typed' = typed + 1
       \/ queue' = queue \o <<Modifier, Other>> /\ UNCHANGED typed
    /\ UNCHANGED <<pc, console, left, sent, window, printed, last_ti, arrived, shown>>

MoveMouse ==
    /\ Counted("records", MaxRecords)
    /\ queue' = Append(queue, Other)
    /\ UNCHANGED <<pc, console, left, sent, window, typed, printed, last_ti, arrived, shown>>

ResizeWindow ==
    /\ Counted("resizes", MaxResized)
    /\ window' \in Windows
    /\ queue' = Append(queue, Other)
    /\ UNCHANGED <<pc, console, left, sent, typed, printed, last_ti, arrived, shown>>

ServerPrints ==
    /\ Counted("prints", Len(Texts))
    /\ printed' = printed \o Texts[count'.prints]
    /\ \E payload \in Payloads[count'.prints] : arrived' = Append(arrived, payload)
    /\ UNCHANGED <<pc, console, poll, window, typed, last_ti, shown>>

Tick ==
    /\ pc \in {"drain", "peek", "wait"} /\ left > 0
    /\ left' = left - 1
    /\ UNCHANGED <<pc, console, queue, sent, world, last_ti, arrived, shown>>

Over == pc \in {"failed", "ended"}

Ended == Over /\ UNCHANGED vars

-----------------------------------------------------------------------------
Init ==
    /\ pc = "new"
    /\ mode = Original /\ saved = [in |-> "none", out |-> "none"] /\ enabled = FALSE /\ refused = {}
    /\ queue = << >> /\ left = 0 /\ sent = << >>
    /\ window \in Windows /\ last_ti = << >>
    /\ arrived = << >> /\ shown = << >>
    /\ typed = 0 /\ printed = << >>
    /\ count = [what \in {"records", "resizes", "prints"} |-> 0]

\* What the main thread does of itself; ReadReturns has to wait for a byte.
Proceeds ==
    \/ GetModes \/ SetInputMode \/ SetOutputMode \/ ReassertWrap
    \/ Turn \/ Drain \/ DrainEnds \/ Peek \/ Signaled \/ WaitTimesOut \/ ReadReturns \/ Resize

Fails == WaitFails \/ ReadAborted \/ PollFails

\* What happens before the console is set up is as if it came right after.
World == enabled /\ (Type \/ MoveMouse \/ ResizeWindow \/ ServerPrints \/ Tick)

Next == Proceeds \/ Fails \/ World \/ Ended

Spec == Init /\ [][Next]_vars

FairSpec == Spec /\ WF_vars(Proceeds) /\ WF_vars(Tick)

-----------------------------------------------------------------------------
ConsoleTypeOK ==
    /\ pc \in {"new", "set_in", "set_out", "set_out_again", "wrap", "turn", "drain", "peek", "wait", "read",
              "resize", "failed", "ended"}
    /\ mode \in [in: {"cooked", "raw"}, out: {"cooked", "raw"}]
    /\ refused \subseteq DOMAIN Original
    /\ enabled => pc \in {"turn", "drain", "peek", "wait", "read", "resize"}
    /\ left \in 0 .. PollTime
    /\ \A i \in DOMAIN queue : queue[i] \in {Modifier, Other} \cup {Pressed(b) : b \in 1 .. typed}
    /\ \A i \in DOMAIN sent :
          sent[i].type = "TerminalBuffer" => Len(sent[i].values[1][1]) \in 1 .. BufferSize
    /\ last_ti = << >> \/ last_ti \in Seq(Nat \ {0})

\* What a read may take from the queue.
Reads == UNION {[1 .. n -> 1 .. MaxRecords] : n \in 1 .. BufferSize}

Meant == Meanings({Input(bytes) : bytes \in Reads} \cup {Size(SizeOf(w)) : w \in Windows})

\* The input that the server finds in a packet.
InputIn(packet) ==
    IF packet.type = "TerminalBuffer" THEN FlattenSeq(Meant[packet][1]) ELSE << >>

InputOf(packets) == FlattenSeq([i \in DOMAIN packets |-> InputIn(packets[i])])

\* Every packet is read as it was written, on either side.
ReadAsWritten ==
    /\ \A bytes \in Reads : InputIn(Input(bytes)) = bytes
    /\ \A w \in Windows : Meant[Size(SizeOf(w))] = Size(SizeOf(w)).values
    /\ \A n \in DOMAIN Texts : \A payload \in Payloads[n] : Contents[payload] = Texts[n]

SizesSent == {i \in DOMAIN sent : sent[i].type = "TerminalInfo"}

\* terminal.rs, `terminal replies reach the remote app intact', and the way
\* back: of what is typed and printed no byte is lost, invented or overtaken, on
\* whatever records the drain takes away and wherever the buffer ends; and the
\* size the server knows is the last one told.
BytesIntact ==
    /\ InputOf(sent) \o BytesOf(queue) = [i \in 1 .. typed |-> i]
    /\ shown \o ContentsOf(arrived) = printed
    /\ \A i \in SizesSent : (\A j \in SizesSent : j <= i) => Meant[sent[i]] = Size(last_ti).values

\* LocalConsole's setup and teardown: whichever way the session ends, each mode
\* is the one before it, unless Windows refused to set that very mode back; a
\* refusal of one does not keep the other from being restored.  An error in setup
\* itself may leave them half set.
ModesRestored == pc = "ended" => \A m \in DOMAIN Original : mode[m] = Original[m] \/ m \in refused

\* ReadFile was called for a key that gives no byte, as console_has_key_down
\* takes it for one that does: it returns when another key is pressed.
Stalled == pc = "read" /\ queue # << >> /\ Head(queue) = Modifier

\* client.rs, `a stalled console read cannot leave the shell prompt sitting
\* unread': output is shown and a new size is told though nobody types, whatever
\* else Windows queues.  Except for a key that gives no byte.
NeverFrozen ==
    /\ (arrived # << >>) ~> (arrived = << >> \/ Over \/ Stalled)
    /\ (TerminalSize # last_ti) ~> (TerminalSize = last_ti \/ Over \/ Stalled)
=============================================================================
