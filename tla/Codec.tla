--------------------------------- MODULE Codec ---------------------------------
(***************************************************************************)
(* The protobuf encoding of the messages that the client reads and writes  *)
(* (src/src/proto.rs).                                                     *)
(*                                                                         *)
(* A message is a sequence: for each of its fields, which are numbered     *)
(* from 1, the sequence of its values, of which an optional field has none *)
(* or one.  Bytes and strings are sequences of bytes, a status is its      *)
(* number.  A byte has a digit of a varint in its low bits and the flag    *)
(* for more of them above.                                                 *)
(*                                                                         *)
(* A message within a message is the bytes it is encoded to, and the       *)
(* environment of an InitialPayload is the list of its entries.  That a    *)
(* string is valid UTF-8 is left out.                                      *)
(***************************************************************************)
EXTENDS Integers, Sequences

CONSTANTS
    Half,        \* 128: the values of a digit
    Digits,      \* 10: the most digits of a varint that is read
    Long, Word   \* 2^64 and 2^32: the values of a u64, of a u32 or an i32

\* How many numbers that many digits write.
Capacity ==
    LET numbers[d \in 0 .. Digits] == IF d = 0 THEN 1 ELSE Half * numbers[d - 1]
    IN  numbers[Digits]

\* Every u64 fits the digits that are read, every tag a u64, and every constant
\* of the protocol an i32.
ASSUME CodecAssumption ==
    /\ {Half, Digits, Long, Word} \subseteq Nat \ {0}
    /\ Half > 1 /\ Word % 2 = 0 /\ Long % Word = 0
    /\ Long <= Capacity /\ 8 * Word <= Long /\ Word >= 16

LOCAL INSTANCE SequencesExt
LOCAL INSTANCE FiniteSetsExt

Fields ==
    [ConnectRequest  |-> <<"bytes", "int32">>,
     ConnectResponse |-> <<"status", "bytes">>,
     SequenceHeader  |-> <<"int32">>,
     CatchupBuffer   |-> <<"list">>,
     TerminalBuffer  |-> <<"bytes">>,
     TerminalInfo    |-> <<"bytes", "int32", "int32", "int32", "int32">>,
     InitialPayload  |-> <<"flag", "list", "list">>,
     EnvironmentEntry |-> <<"bytes", "bytes">>,
     InitialResponse |-> <<"bytes">>,
     PortForwardSourceRequest |-> <<"message", "message", "bytes">>,
     SocketEndpoint  |-> <<"bytes", "int32">>]

Statuses == [NewClient |-> 1, ReturningClient |-> 2, InvalidKey |-> 3, MismatchedProtocol |-> 4]

VARINT == 0
FIXED64 == 1
DELIMITED == 2
FIXED32 == 5

WireType(type) == IF type \in {"bytes", "list", "message"} THEN DELIMITED ELSE VARINT

-----------------------------------------------------------------------------
(* Writing. *)

\* The low digit first.
WriteVarint(v) ==
    LET digits[n \in 0 .. v] == IF n >= Half THEN <<(n % Half) + Half>> \o digits[n \div Half] ELSE <<n>>
    IN  digits[v]

WriteTag(field, wire) == WriteVarint((field * 8) + wire)

\* An i32 is cast to u64: it is extended by its sign.
WriteValue(type, v) ==
    CASE WireType(type) = DELIMITED -> WriteVarint(Len(v)) \o v
      [] type = "flag" -> WriteVarint(1)
      [] OTHER -> WriteVarint(v % Long)

WriteField(field, type, v) == WriteTag(field, WireType(type)) \o WriteValue(type, v)

\* A flag is written only if it is set.
Written(type, values) == IF type = "flag" /\ values = <<FALSE>> THEN << >> ELSE values

WriteValues(field, type, values) ==
    FlattenSeq([i \in DOMAIN values |-> WriteField(field, type, values[i])])

Encode(message, values) ==
    LET types == Fields[message]
    IN  FlattenSeq([f \in DOMAIN types |-> WriteValues(f, types[f], Written(types[f], values[f]))])

-----------------------------------------------------------------------------
(* Reading. *)

Error == [error |-> TRUE]

\* The number whose digits are at these positions, the lowest first.
Number(bytes, first, last) ==
    LET from[i \in first .. last] ==
            (bytes[i] % Half) + (IF i = last THEN 0 ELSE Half * from[i + 1])
    IN  from[first]

\* The varint at a position: its value and where it ends, or an error.
ReadVarint(bytes, at) ==
    LET ends == {i \in at .. Min({Len(bytes), at + Digits - 1}) : bytes[i] < Half}
    IN  IF ends = {} THEN Error
        ELSE [value |-> Number(bytes, at, Min(ends)) % Long, next |-> Min(ends) + 1, error |-> FALSE]

\* What a field of this wire type takes from a position on.
ReadValue(wire, bytes, at) ==
    LET Taken(from, length) ==
            IF from + length - 1 > Len(bytes) THEN Error
            ELSE [value |-> SubSeq(bytes, from, from + length - 1), next |-> from + length,
                  error |-> FALSE]
    IN  CASE wire = VARINT -> ReadVarint(bytes, at)
          [] wire = FIXED64 -> Taken(at, 8)
          [] wire = FIXED32 -> Taken(at, 4)
          [] wire = DELIMITED -> LET length == ReadVarint(bytes, at)
                                 IN  IF length.error THEN Error ELSE Taken(length.next, length.value)
          [] OTHER -> Error

\* The field at a position, known or not, and where it ends, or an error.
ReadField(bytes, at) ==
    LET tag == ReadVarint(bytes, at)
        wire == tag.value % 8
        read == ReadValue(wire, bytes, tag.next)
    IN  IF tag.error \/ read.error THEN Error
        ELSE [field |-> [number |-> (tag.value \div 8) % Word, wire |-> wire, value |-> read.value,
                         error |-> FALSE],
              next |-> read.next, error |-> FALSE]

\* All fields of a message, or those up to an error and the error.
ParseMessage(bytes) ==
    LET fields[at \in 1 .. Len(bytes) + 1] ==
            IF at > Len(bytes) THEN << >>
            ELSE LET read == ReadField(bytes, at)
                 IN  IF read.error THEN <<Error>> ELSE <<read.field>> \o fields[read.next]
    IN  fields[1]

AsI32(v) == ((v + (Word \div 2)) % Word) - (Word \div 2)

FieldAs(type, v) ==
    CASE type = "int32" -> <<AsI32(v)>>
      [] type = "flag" -> <<v # 0>>
      [] type = "status" -> IF \E s \in DOMAIN Statuses : Statuses[s] = AsI32(v) THEN <<AsI32(v)>> ELSE << >>
      [] OTHER -> <<v>>

Fits(type, field) == field.wire = WireType(type)

Counts(f, type, field) ==
    field.number = f /\ (type \in {"list", "status", "message"} => Fits(type, field))

Occurrences(f, type, fields) ==
    FlattenSeq([i \in DOMAIN fields |-> IF Counts(f, type, fields[i]) THEN <<fields[i]>> ELSE << >>])

\* Of an optional field the last occurrence counts, and one with another wire
\* type takes the value away, but for a status or a message; a list takes all
\* that fit.
FieldValue(type, occurrences) ==
    CASE occurrences = << >> -> << >>
      [] type = "list" -> [i \in DOMAIN occurrences |-> occurrences[i].value]
      [] OTHER -> IF Fits(type, Last(occurrences)) THEN FieldAs(type, Last(occurrences).value)
                  ELSE << >>

\* If the bytes do not parse, an error which the client's own messages never meet,
\* there is no value at all.
FieldValues(message, fields) ==
    [f \in DOMAIN Fields[message] |->
        IF \E i \in DOMAIN fields : fields[i].error THEN << >>
        ELSE FieldValue(Fields[message][f], Occurrences(f, Fields[message][f], fields))]

Decode(message, bytes) == FieldValues(message, ParseMessage(bytes))

-----------------------------------------------------------------------------
Message(type, values) == [type |-> type, values |-> values]

\* What the reader makes of messages: read_proto after write_proto.
Meanings(messages) == [m \in messages |-> Decode(m.type, Encode(m.type, m.values))]
=============================================================================
