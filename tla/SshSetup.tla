------------------------------- MODULE SshSetup -------------------------------
(***************************************************************************)
(* What setup_ssh makes of the output of ssh (src/src/ssh_setup.rs).  The  *)
(* process is external: it fails, or prints what it likes.  An output is   *)
(* the sequence of characters behind the first `IDPASSKEY:': those of an   *)
(* id, a slash, those of a passkey, and the line's end and other text.     *)
(***************************************************************************)
EXTENDS Integers, Sequences

CONSTANTS IdLength, KeyLength     \* 16 and 32

ASSUME LengthsAssumption == {IdLength, KeyLength} \subseteq Nat \ {0}

LOCAL INSTANCE SequencesExt
LOCAL INSTANCE FiniteSetsExt

Alphanumeric == {"id", "key", "text"}
Characters == Alphanumeric \cup {"/", "end"}

\* The line of a server whose id and passkey have these lengths, and what is
\* printed after it.
Line(id, key, after) ==
    [i \in 1 .. id |-> "id"] \o <<"/">> \o [i \in 1 .. key |-> "key"] \o after

-----------------------------------------------------------------------------
\* The characters looked at; the id is those before their first slash.
Slice(output) == SubSeq(output, 1, Min({Len(output), IdLength + 1 + KeyLength}))

Slash(output) == SelectInSeq(Slice(output), LAMBDA c : c = "/")

Id(output) == SubSeq(output, 1, Slash(output) - 1)

\* Of these characters those that are among some.
Only(some, chars) ==
    FlattenSeq([i \in DOMAIN chars |-> IF chars[i] \in some THEN <<chars[i]>> ELSE << >>])

\* Alphanumeric characters behind the slash, as many as a passkey has or fewer.
Passkey(output) ==
    LET kept == Only(Alphanumeric, SubSeq(Slice(output), Slash(output) + 1, Len(Slice(output))))
    IN  IF Len(kept) > KeyLength THEN SubSeq(kept, 1, KeyLength) ELSE kept

\* A truncated line, no slash, an empty id or an empty passkey are errors; other
\* lengths than the usual ones are not.
ParsesIdPasskey(output) ==
    /\ Len(output) >= IdLength + 1 + KeyLength
    /\ Slash(output) # 0
    /\ Id(output) # << >> /\ Passkey(output) # << >>
=============================================================================
