---------------------------- MODULE StartupProofs ----------------------------
(***************************************************************************)
(* The way to a session, for any arguments, number of attempts, losses and *)
(* copies of the payload, and any wait: what is taken from the line that   *)
(* ssh prints, that every message of a handshake is read as it was         *)
(* written, what is connected to, that it fails for a cause only, and how  *)
(* the two sides stand when the session begins.                            *)
(***************************************************************************)
EXTENDS Startup, CodecProofs

LOCAL INSTANCE SequencesExt
LOCAL INSTANCE FiniteSetsExt
LOCAL INSTANCE SequenceTheorems

-----------------------------------------------------------------------------
(* The line of the server. *)

LEMMA LineIs ==
    LET line == Line(IdLength, KeyLength, << >>)
    IN  /\ line \in Seq(Characters) /\ Len(line) = IdLength + 1 + KeyLength
        /\ \A i \in 1 .. IdLength : line[i] = "id"
        /\ line[IdLength + 1] = "/"
        /\ \A i \in 1 .. KeyLength : line[IdLength + 1 + i] = "key"
<1> DEFINE ids == [i \in 1 .. IdLength |-> "id"]
           ks == [i \in 1 .. KeyLength |-> "key"]
<1>1. IdLength \in Nat /\ KeyLength \in Nat
  BY LengthsAssumption
<1>2. ids \in Seq(Characters) /\ Len(ids) = IdLength /\ \A i \in 1 .. IdLength : ids[i] = "id"
  <2>1. ids = [i \in 1 .. IdLength |-> ids[i]] /\ \A i \in 1 .. IdLength : ids[i] = "id"
    OBVIOUS
  <2> HIDE DEF ids
  <2>2. \A i \in 1 .. IdLength : ids[i] \in Characters
    BY <2>1 DEF Characters, Alphanumeric
  <2> QED BY <1>1, <2>1, <2>2, IsSequence
<1>3. ks \in Seq(Characters) /\ Len(ks) = KeyLength /\ \A i \in 1 .. KeyLength : ks[i] = "key"
  <2>1. ks = [i \in 1 .. KeyLength |-> ks[i]] /\ \A i \in 1 .. KeyLength : ks[i] = "key"
    OBVIOUS
  <2> HIDE DEF ks
  <2>2. \A i \in 1 .. KeyLength : ks[i] \in Characters
    BY <2>1 DEF Characters, Alphanumeric
  <2> QED BY <1>1, <2>1, <2>2, IsSequence
<1>4. <<"/">> \in Seq(Characters) /\ Len(<<"/">>) = 1 /\ <<"/">>[1] = "/"
  <2>1. "/" \in Characters
    BY DEF Characters
  <2>2. \A c \in Characters : <<c>> \in Seq(Characters) /\ Len(<<c>>) = 1 /\ <<c>>[1] = c
    OBVIOUS
  <2> QED BY <2>1, <2>2
<1>5. Line(IdLength, KeyLength, << >>) = ids \o <<"/">> \o ks \o << >>
  BY DEF Line
<1> HIDE DEF ids, ks
<1> DEFINE head == ids \o <<"/">>
<1>6. /\ head \in Seq(Characters) /\ Len(head) = IdLength + 1
      /\ head[IdLength + 1] = "/" /\ \A i \in 1 .. IdLength : head[i] = "id"
  BY <1>1, <1>2, <1>4
<1> HIDE DEF head
<1> DEFINE line == head \o ks
<1>7. /\ line \in Seq(Characters) /\ Len(line) = IdLength + 1 + KeyLength
      /\ \A i \in 1 .. IdLength + 1 : line[i] = head[i]
      /\ \A i \in 1 .. KeyLength : line[IdLength + 1 + i] = ks[i]
  BY <1>1, <1>3, <1>6
<1> HIDE DEF line
<1>8. line \o << >> = line
  BY <1>7, ConcatEmptySeq
<1>9. Line(IdLength, KeyLength, << >>) = line
  BY <1>5, <1>8 DEF line, head
<1>10. IdLength + 1 \in 1 .. IdLength + 1 /\ \A i \in 1 .. IdLength : i \in 1 .. IdLength + 1
  BY <1>1
<1> QED BY <1>3, <1>6, <1>7, <1>9, <1>10

\* ssh_setup.rs: of the line that the server prints, with an id and a passkey of
\* the usual lengths, parse_idpasskey takes exactly these, whatever follows it.
THEOREM StandardLineParses == StandardParses
<1> DEFINE line == Line(IdLength, KeyLength, << >>)
           N == IdLength + 1 + KeyLength
<1>1. SUFFICES ASSUME NEW output \in Outputs, Standard(output)
               PROVE  /\ ParsesIdPasskey(output)
                      /\ Id(output) \o <<"/">> \o Passkey(output) = line
  BY DEF StandardParses
<1>2. /\ IdLength \in Nat \ {0} /\ KeyLength \in Nat \ {0} /\ N \in Nat
  BY LengthsAssumption
<1>3. output \in Seq(Characters) /\ Len(output) \in Nat
  BY StartupAssumption
<1>4. /\ line \in Seq(Characters) /\ Len(line) = N
      /\ \A i \in 1 .. IdLength : line[i] = "id"
      /\ line[IdLength + 1] = "/"
      /\ \A i \in 1 .. KeyLength : line[IdLength + 1 + i] = "key"
  BY LineIs
<1>5. Slice(output) = line
  BY <1>1 DEF Standard
<1> HIDE DEF line
<1>6. Len(output) >= N
  <2> DEFINE n == Min({Len(output), N})
  <2>1. n = IF Len(output) <= N THEN Len(output) ELSE N
    BY <1>2, <1>3, LowerOf
  <2> HIDE DEF n
  <2>2. n \in Nat /\ n <= Len(output)
    BY <1>2, <1>3, <2>1
  <2>3. Slice(output) = SubSeq(output, 1, n)
    BY DEF Slice, n
  <2>4. Len(SubSeq(output, 1, n)) = n
    BY <1>3, <2>2
  <2> QED BY <1>2, <1>3, <1>4, <1>5, <2>1, <2>3, <2>4
<1>7. Slash(output) = IdLength + 1
  <2> DEFINE I == {i \in 1 .. Len(line) : line[i] = "/"}
  <2>1. IdLength + 1 \in I /\ I \subseteq Int
    BY <1>2, <1>4
  <2>2. ASSUME NEW k \in I PROVE IdLength + 1 <= k
    <3>1. k \notin 1 .. IdLength
      BY <1>4
    <3> QED BY <1>2, <1>4, <3>1
  <2>3. Slash(output) = IF I # {} THEN Min(I) ELSE 0
    BY <1>5 DEF Slash, SelectInSeq
  <2> HIDE DEF I
  <2>4. Min(I) = IdLength + 1
    BY <2>1, <2>2, LeastIs
  <2> QED BY <2>1, <2>3, <2>4
<1>8. Id(output) \in Seq(Characters) /\ Len(Id(output)) = IdLength /\ \A i \in 1 .. IdLength : Id(output)[i] = "id"
  <2>1. Id(output) = SubSeq(output, 1, IdLength)
    BY <1>2, <1>7 DEF Id
  <2>2. IdLength <= Len(output)
    BY <1>2, <1>3, <1>6
  <2>3. /\ SubSeq(output, 1, IdLength) \in Seq(Characters) /\ Len(SubSeq(output, 1, IdLength)) = IdLength
        /\ \A i \in 1 .. IdLength : SubSeq(output, 1, IdLength)[i] = output[i]
    BY <1>2, <1>3, <2>2
  <2>4. ASSUME NEW i \in 1 .. N PROVE output[i] = line[i]
    <3>1. Min({Len(output), N}) = N
      BY <1>2, <1>3, <1>6, LowerOf
    <3>2. SubSeq(output, 1, N) = line
      BY <1>5, <3>1 DEF Slice
    <3>3. SubSeq(output, 1, N)[i] = output[i]
      BY <1>2, <1>3, <1>6
    <3> QED BY <3>2, <3>3
  <2>5. \A i \in 1 .. IdLength : i \in 1 .. N
    BY <1>2
  <2> QED BY <1>4, <2>1, <2>3, <2>4, <2>5
<1>9. /\ Passkey(output) \in Seq(Characters) /\ Len(Passkey(output)) = KeyLength
      /\ \A i \in 1 .. KeyLength : Passkey(output)[i] = "key"
  <2> DEFINE rest == SubSeq(line, IdLength + 2, N)
  <2>1. /\ rest \in Seq(Characters) /\ Len(rest) = KeyLength
        /\ \A i \in 1 .. KeyLength : rest[i] = line[IdLength + 2 + i - 1]
    BY <1>2, <1>4
  <2>2. \A i \in 1 .. KeyLength : IdLength + 2 + i - 1 = IdLength + 1 + i
    BY <1>2
  <2>3. SubSeq(Slice(output), Slash(output) + 1, Len(Slice(output))) = rest
    <3>1. Slash(output) + 1 = IdLength + 2
      BY <1>2, <1>7
    <3> QED BY <1>4, <1>5, <3>1
  <2> HIDE DEF rest
  <2>4. \A i \in 1 .. KeyLength : rest[i] = "key"
    BY <1>4, <2>1, <2>2
  <2>5. [i \in DOMAIN rest |-> IF rest[i] \in Alphanumeric THEN <<rest[i]>> ELSE << >>]
           = [i \in 1 .. Len(rest) |-> <<rest[i]>>]
    BY <2>1, <2>4 DEF Alphanumeric
  <2>6. Only(Alphanumeric, rest) = rest
    BY <2>1, <2>5, FlattenOfSingles DEF Only
  <2>7. Passkey(output) = IF Len(rest) > KeyLength THEN SubSeq(rest, 1, KeyLength) ELSE rest
    BY <2>3, <2>6 DEF Passkey
  <2> QED BY <1>2, <2>1, <2>4, <2>7
<1>10. Id(output) # << >> /\ Passkey(output) # << >>
  BY <1>2, <1>8, <1>9
<1>11. ParsesIdPasskey(output)
  BY <1>2, <1>6, <1>7, <1>10 DEF ParsesIdPasskey
<1> DEFINE a == Id(output) \o <<"/">>
           b == a \o Passkey(output)
<1>12. /\ a \in Seq(Characters) /\ Len(a) = IdLength + 1 /\ a[IdLength + 1] = "/"
       /\ \A i \in 1 .. IdLength : a[i] = Id(output)[i]
  <2>1. "/" \in Characters
    BY DEF Characters
  <2>2. \A c \in Characters : <<c>> \in Seq(Characters) /\ Len(<<c>>) = 1 /\ <<c>>[1] = c
    OBVIOUS
  <2> QED BY <1>2, <1>8, <2>1, <2>2
<1> HIDE DEF a
<1>13. /\ b \in Seq(Characters) /\ Len(b) = N
       /\ \A i \in 1 .. IdLength + 1 : b[i] = a[i]
       /\ \A i \in 1 .. KeyLength : b[IdLength + 1 + i] = Passkey(output)[i]
  BY <1>2, <1>9, <1>12
<1> HIDE DEF b
<1>14. ASSUME NEW i \in 1 .. N PROVE b[i] = line[i]
  <2>1. CASE i \in 1 .. IdLength
    BY <1>2, <1>4, <1>8, <1>12, <1>13, <2>1
  <2>2. CASE i = IdLength + 1
    BY <1>2, <1>4, <1>12, <1>13, <2>2
  <2>3. CASE i > IdLength + 1
    <3> DEFINE k == i - (IdLength + 1)
    <3>1. k \in 1 .. KeyLength /\ i = IdLength + 1 + k
      BY <1>2, <2>3
    <3> HIDE DEF k
    <3> QED BY <1>4, <1>9, <1>13, <3>1
  <2> QED BY <1>2, <2>1, <2>2, <2>3
<1>15. b = line
  BY <1>4, <1>13, <1>14, SeqEqual
<1> QED BY <1>11, <1>15 DEF a, b

-----------------------------------------------------------------------------
(* The destination. *)

LEMMA Booleans == ASSUME NEW P \in BOOLEAN, NEW Q \in BOOLEAN, P <=> Q PROVE P = Q
OBVIOUS

\* Each form of argument, and what it may be combined with.
LEMMA AimsRight ==
    ASSUME NEW c \in CommandLines, Parses(c.host)
    PROVE  Aim(c) # "astray"
<1>1. /\ c.host \in Arguments /\ c.username \in {"absent", "option"} /\ c.jumphost \in Jumphosts
  BY StartupAssumption
<1> DEFINE asked == Asked(c)
           target == Target(c)
           users == {asked.user} \cup (IF c.host.user = "absent" THEN {} ELSE {User(c.host, "absent")})
           ports == {asked.port} \cup (IF c.host.user = "colon" THEN {"option"} ELSE {})
           With(user, port) == [asked EXCEPT !.user = user, !.port = port]
<1>2. c.host.user \in {"absent", "empty", "plain", "colon"} /\ c.host.form \in DOMAIN Colons
      /\ c.host.tail \in {"number", "text"}
  BY <1>1 DEF Arguments
<1>3. DOMAIN Colons = {"name", "name_port", "odd", "v6", "v6_port", "short", "short_eight"}
      /\ Colons["name"] = 0 /\ Colons["name_port"] = 1 /\ Colons["odd"] = 2 /\ Colons["v6"] = 7
      /\ Colons["v6_port"] = 8 /\ Colons["short"] = 2 /\ Colons["short_eight"] = 8
  BY DEF Colons
<1>4. target.user \in users
  BY <1>1, <1>2 DEF Target, ParseDestination, User, Asked
<1>5. target.host = asked.host
  <2>1. CASE c.jumphost = NoJumphost
    <3>1. target.host = Host(c.host.form, HasTail(c.host)) 
          /\ asked.host = Host(c.host.form, c.host.form \in {"name_port", "v6_port"})
      BY <2>1 DEF Target, ParseDestination, Asked
    <3>2. HasTail(c.host) <=> c.host.form \in {"name_port", "v6_port"}
      BY <1>2, <1>3 DEF HasTail, Abbreviated
    <3>3. HasTail(c.host) = (c.host.form \in {"name_port", "v6_port"})
      <4>1. HasTail(c.host) \in BOOLEAN
        BY DEF HasTail
      <4> QED BY <3>2, <4>1, Booleans
    <3> HIDE DEF target, asked
    <3> QED BY <3>1, <3>3
  <2>2. CASE c.jumphost # NoJumphost
    <3>1. target.host = JumpHostname(c.jumphost) 
          /\ asked.host = Host(c.jumphost.form, c.jumphost.form = "name_port")
      BY <2>2 DEF Target, Asked
    <3>2. c.jumphost.form \in DOMAIN Colons 
          /\ (c.jumphost.form = "name_port" => c.jumphost.tail = "number")
      BY <1>1, <2>2 DEF Jumphosts
    <3>3. (Colons[c.jumphost.form] = 1 /\ c.jumphost.tail = "number") <=> c.jumphost.form = "name_port"
      BY <1>3, <3>2
    <3> QED BY <3>1, <3>3 DEF JumpHostname
  <2> QED BY <2>1, <2>2
<1>6. target.port \in ports
  <2>1. CASE c.jumphost # NoJumphost
    <3>1. target.port = "jport" /\ asked.port = "jport"
      BY <2>1 DEF Target, Asked
    <3> HIDE DEF target, asked
    <3> QED BY <3>1
  <2>2. CASE c.jumphost = NoJumphost
    <3>1. HasTail(c.host) <=> c.host.form \in {"name_port", "v6_port"}
      BY <1>2, <1>3 DEF HasTail, Abbreviated
    <3>2. target.port = IF CliHostHasExplicitPort(c.host)
                        THEN IF HasTail(c.host) THEN "own" ELSE "option"
                        ELSE "option"
      BY <2>2 DEF Target, ParseDestination
    <3>3. asked.port = IF c.host.form \in {"name_port", "v6_port"} THEN "own" ELSE "option"
      BY <2>2 DEF Asked
    <3>4. c.host.user # "colon" /\ HasTail(c.host) => CliHostHasExplicitPort(c.host)
      BY <1>2, <1>3, <3>1 DEF CliHostHasExplicitPort
    <3> QED BY <3>1, <3>2, <3>3, <3>4
  <2> QED BY <2>1, <2>2
<1>7. target = [user |-> target.user, host |-> target.host, port |-> target.port]
      /\ asked = [user |-> asked.user, host |-> asked.host, port |-> asked.port]
  BY DEF Target, Asked
<1>8. target = With(target.user, target.port)
  BY <1>5, <1>7
<1>9. Deviations(c) = {With(user, port) : user \in users, port \in ports}
  BY DEF Deviations
<1> HIDE DEF target, asked, users, ports, With
<1>10. target \in Deviations(c)
  BY <1>4, <1>6, <1>8, <1>9
<1> USE DEF target, asked
<1> QED BY <1>10 DEF Aim

\* host.rs and main.rs: the host, port and user connected to are those asked for,
\* but for the two ways in Deviations, whatever the arguments.
THEOREM DialsAsked == Spec => []DialsWhatWasAsked
<1>1. Init => DialsWhatWasAsked
  BY DEF Init, DialsWhatWasAsked
<1>2. ASSUME DialsWhatWasAsked, [Next]_vars PROVE DialsWhatWasAsked'
  <2>1. CASE RunParse
    <3>1. PICK c \in CommandLines : IF Parses(c.host) THEN aim' = Aim(c) ELSE aim' = aim
      BY <2>1 DEF RunParse
    <3> QED BY <1>2, <3>1, AimsRight DEF DialsWhatWasAsked
  <2>2. CASE SetupSsh
    BY <1>2, <2>2 DEF SetupSsh, DialsWhatWasAsked
  <2>3. CASE UNCHANGED cli
    BY <1>2, <2>3 DEF DialsWhatWasAsked, cli
  <2>4. [Next]_vars => RunParse \/ SetupSsh \/ UNCHANGED cli
    BY DEF Next, MainThread, ReconnectThread, World, Ended, vars,
           Ping, Dial, Await, AwaitFails, WritePayload, WriteFails, WriteRefused, ReadQueued,
           ReadResponse, ReadJunk, ReadFails, ResponseTimesOut,
           RecoverDial, RecoverResponse, RecoverSequence, RecoverCatchup, RecoverFails,
           Server, LateRequest, ServerForgets, Breaks, GoesSilent, Tick
  <2> QED BY <1>2, <2>1, <2>2, <2>3, <2>4
<1> QED BY <1>1, <1>2, PTL DEF Spec

-----------------------------------------------------------------------------
(* What travels. *)

LEMMA SameQueue ==
    ASSUME NEW S, NEW s \in Seq(S), NEW t \in Seq(S),
           Len(s) = Len(t), \A i \in 1 .. Len(s) : s[i] = t[i]
    PROVE  s = t
OBVIOUS

\* Queues of at most two.
LEMMA Queues ==
    ASSUME NEW a, NEW b
    PROVE  /\ <<a>> # << >> /\ <<a, b>> # << >> /\ <<a>> # <<a, b>>
           /\ Head(<<a>>) = a /\ Tail(<<a>>) = << >>
           /\ Head(<<a, b>>) = a /\ Tail(<<a, b>>) = <<b>>
           /\ Append(<< >>, a) = <<a>> /\ Append(<<a>>, b) = <<a, b>>
           /\ << >> \o << >> = << >> /\ << >> \o <<a>> = <<a>>
           /\ <<a>> \o << >> = <<a>> /\ <<a>> \o <<b>> = <<a, b>>
<1>1. <<a>> # << >> /\ <<a, b>> # << >> /\ <<a>> # <<a, b>>
  OBVIOUS
<1>2. << >> \in Seq({a, b}) /\ <<a>> \in Seq({a, b}) /\ <<b>> \in Seq({a, b})
  OBVIOUS
<1>3. Head(<<a>>) = a /\ Tail(<<a>>) = << >>
  OBVIOUS
<1>4. Head(<<a, b>>) = a
  OBVIOUS
<1>5. Tail(<<a, b>>) = <<b>>
  OBVIOUS
<1>6. Append(<< >>, a) = <<a>>
  OBVIOUS
<1>10. <<a, b>> \in Seq({a, b}) /\ Len(<<a, b>>) = 2 /\ <<a, b>>[1] = a /\ <<a, b>>[2] = b
  OBVIOUS
<1>7. Append(<<a>>, b) = <<a, b>>
  <2>1. Append(<<a>>, b) \in Seq({a, b}) /\ Len(Append(<<a>>, b)) = 2
    BY <1>2
  <2>2. Append(<<a>>, b)[1] = a /\ Append(<<a>>, b)[2] = b
    BY <1>2
  <2>3. \A i \in 1 .. 2 : Append(<<a>>, b)[i] = <<a, b>>[i]
    BY <1>10, <2>2
  <2> DEFINE q == Append(<<a>>, b)
  <2> HIDE DEF q
  <2>4. \A i \in 1 .. Len(q) : q[i] = <<a, b>>[i]
    BY <2>1, <2>3 DEF q
  <2>5. q = <<a, b>>
    BY <1>10, <2>1, <2>4, SameQueue DEF q
  <2> QED BY <2>5 DEF q
<1>8. << >> \o << >> = << >> /\ << >> \o <<a>> = <<a>> /\ <<a>> \o << >> = <<a>>
  BY <1>2
<1>9. <<a>> \o <<b>> = <<a, b>>
  <2>1. <<a>> \o <<b>> \in Seq({a, b}) /\ Len(<<a>> \o <<b>>) = 2
    BY <1>2
  <2>2. (<<a>> \o <<b>>)[1] = a /\ (<<a>> \o <<b>>)[2] = b
    BY <1>2
  <2>3. \A i \in 1 .. 2 : (<<a>> \o <<b>>)[i] = <<a, b>>[i]
    BY <1>10, <2>2
  <2> DEFINE q == <<a>> \o <<b>>
  <2> HIDE DEF q
  <2>4. \A i \in 1 .. Len(q) : q[i] = <<a, b>>[i]
    BY <2>1, <2>3 DEF q
  <2>5. q = <<a, b>>
    BY <1>10, <2>1, <2>4, SameQueue DEF q
  <2> QED BY <2>5 DEF q
<1> QED BY <1>1, <1>3, <1>4, <1>5, <1>6, <1>7, <1>8, <1>9

LEMMA Types ==
    /\ Request.type = "ConnectRequest"
    /\ \A status : Response(status).type = "ConnectResponse"
    /\ \A n : SequenceHeader(n).type = "SequenceHeader"
    /\ \A from, to : CatchupBuffer(from, to).type = "CatchupBuffer"
    /\ \A n : Frame(n).type = "frame" /\ Frame(n).bytes = <<n>>
BY DEF Request, Response, SequenceHeader, CatchupBuffer, Frame, Message

LEMMA Bounds ==
    /\ MaxAttempts \in Nat /\ MaxAttempts > 0
    /\ ResponseWait \in Nat /\ ResponseWait > 0
    /\ MaxLosses \in Nat /\ MaxCopies \in Nat
BY StartupAssumption

LEMMA MostIsNat == MostPackets \in Nat /\ MostPackets > 0 /\ MaxCopies \in Nat /\ MaxLosses \in Nat
BY Bounds DEF MostPackets

LEMMA MeantIs ==
    ASSUME NEW m \in Messages
    PROVE  Meant[m] = Decode(m.type, Encode(m.type, m.values))
BY DEF Meant, Meanings

LEMMA RequestKept == Meant[Request] = Request.values
<1> DEFINE values == <<<<Identity>>, <<PROTOCOL_VERSION>>>>
           types == Fields["ConnectRequest"]
           T == Contained("bytes") \cup Contained("int32")
<1>1. "ConnectRequest" \in DOMAIN Fields /\ types = <<"bytes", "int32">>
  BY DEF Fields
<1>2. Identity \in ValuesOf("bytes") /\ "bytes" \in AllTypes
  <2>1. Identity \in Seq(Nat) /\ Len(Identity) = 2
    BY DEF Identity
  <2>2. 2 < Long
    BY CodecAssumption
  <2> QED BY <2>1, <2>2 DEF ValuesOf, WireType, AllTypes
<1>3. PROTOCOL_VERSION \in ValuesOf("int32") /\ "int32" \in AllTypes
  BY CodecAssumption DEF PROTOCOL_VERSION, ValuesOf, WireType, VARINT, DELIMITED, AllTypes
<1>4. <<Identity>> \in Contained("bytes") /\ <<PROTOCOL_VERSION>> \in Contained("int32")
  BY <1>2, <1>3, OneContained
<1>5. values \in Seq(T) /\ Len(values) = 2 /\ values[1] = <<Identity>> /\ values[2] = <<PROTOCOL_VERSION>>
  BY <1>4
<1>6. Len(types) = 2 /\ types[1] = "bytes" /\ types[2] = "int32"
  BY <1>1
<1>7. Request.type = "ConnectRequest" /\ Request.values = values /\ Request \in Messages
  BY DEF Request, Message, Messages
<1> HIDE DEF values, types, T
<1>8. ASSUME NEW f \in 1 .. Len(values) PROVE values[f] \in Contained(types[f])
  <2>1. f = 1 \/ f = 2
    BY <1>5
  <2> QED BY <1>4, <1>5, <1>6, <2>1
<1>9. Decode("ConnectRequest", Encode("ConnectRequest", values)) = values
  BY <1>1, <1>5, <1>6, <1>8, ReadBack DEF types
<1> QED BY <1>7, <1>9, MeantIs

LEMMA ResponseKept ==
    ASSUME NEW status \in DOMAIN Statuses
    PROVE  Meant[Response(status)] = Response(status).values
<1> DEFINE number == Statuses[status]
           values == <<<<number>>, << >>>>
           types == Fields["ConnectResponse"]
           T == Contained("status") \cup Contained("bytes")
<1>1. "ConnectResponse" \in DOMAIN Fields /\ types = <<"status", "bytes">>
  BY DEF Fields
<1>2. number \in ValuesOf("status") /\ "status" \in AllTypes /\ "bytes" \in AllTypes
  BY DEF ValuesOf, WireType, VARINT, DELIMITED, AllTypes
<1>7. /\ Response(status).type = "ConnectResponse" /\ Response(status).values = values
      /\ Response(status) \in Messages
  BY DEF Response, Message, Messages
<1> HIDE DEF number
<1>4. <<number>> \in Contained("status") /\ << >> \in Contained("bytes")
  BY <1>2, OneContained, NoneContained
<1>5. values \in Seq(T) /\ Len(values) = 2 /\ values[1] = <<number>> /\ values[2] = << >>
  BY <1>4
<1>6. Len(types) = 2 /\ types[1] = "status" /\ types[2] = "bytes"
  BY <1>1
<1> HIDE DEF values, types, T
<1>8. ASSUME NEW f \in 1 .. Len(values) PROVE values[f] \in Contained(types[f])
  <2>1. f = 1 \/ f = 2
    BY <1>5
  <2> QED BY <1>4, <1>5, <1>6, <2>1
<1>9. Decode("ConnectResponse", Encode("ConnectResponse", values)) = values
  BY <1>1, <1>5, <1>6, <1>8, ReadBack DEF types
<1> QED BY <1>7, <1>9, MeantIs

LEMMA HeaderKept ==
    ASSUME NEW n \in 0 .. MostPackets
    PROVE  Meant[SequenceHeader(n)] = SequenceHeader(n).values
<1> DEFINE values == <<<<n>>>>
           types == Fields["SequenceHeader"]
<1>1. "SequenceHeader" \in DOMAIN Fields /\ types = <<"int32">>
  BY DEF Fields
<1>2. n \in ValuesOf("int32") /\ "int32" \in AllTypes
  <2>1. n \in Nat /\ n < Word \div 2 /\ Word \in Nat
    BY MostIsNat, NumbersAssumption, CodecAssumption
  <2> QED BY <2>1 DEF ValuesOf, WireType, VARINT, DELIMITED, AllTypes
<1>4. <<n>> \in Contained("int32")
  BY <1>2, OneContained
<1>5. values \in Seq(Contained("int32")) /\ Len(values) = 1 /\ values[1] = <<n>>
  BY <1>4
<1>6. Len(types) = 1 /\ types[1] = "int32"
  BY <1>1
<1>7. /\ SequenceHeader(n).type = "SequenceHeader" /\ SequenceHeader(n).values = values
      /\ SequenceHeader(n) \in Messages
  BY DEF SequenceHeader, Message, Messages
<1> HIDE DEF values, types
<1>8. \A f \in 1 .. Len(values) : values[f] \in Contained(types[f])
  BY <1>4, <1>5, <1>6
<1>9. Decode("SequenceHeader", Encode("SequenceHeader", values)) = values
  BY <1>1, <1>5, <1>6, <1>8, ReadBack DEF types
<1> QED BY <1>7, <1>9, MeantIs

LEMMA CatchupKept ==
    ASSUME NEW from \in 0 .. MostPackets, NEW to \in 0 .. MostPackets
    PROVE  Meant[CatchupBuffer(from, to)] = CatchupBuffer(from, to).values
<1> DEFINE list == [i \in 1 .. to - from + 1 |-> <<from + i - 1>>]
           values == <<list>>
           types == Fields["CatchupBuffer"]
<1>1. "CatchupBuffer" \in DOMAIN Fields /\ types = <<"list">> /\ "list" \in AllTypes
  BY DEF Fields, AllTypes
<1>2. from \in Nat /\ to \in Nat
  BY MostIsNat
<1>3. list \in Seq(ValuesOf("list"))
  <2>1. ASSUME NEW m \in Nat PROVE <<m>> \in ValuesOf("list")
    <3>1. <<m>> \in Seq(Nat) /\ Len(<<m>>) = 1
      OBVIOUS
    <3>2. 1 < Long
      BY CodecAssumption
    <3> QED BY <3>1, <3>2 DEF ValuesOf, WireType
  <2>2. ASSUME NEW i \in 1 .. to - from + 1 PROVE <<from + i - 1>> \in ValuesOf("list")
    <3>1. from + i - 1 \in Nat
      BY <1>2
    <3> QED BY <2>1, <3>1
  <2>3. CASE to - from + 1 \in Nat
    <3>1. list = [i \in 1 .. to - from + 1 |-> list[i]]
      OBVIOUS
    <3>2. \A i \in 1 .. to - from + 1 : list[i] \in ValuesOf("list")
      BY <2>2
    <3> HIDE DEF list
    <3> QED BY <2>3, <3>1, <3>2, IsSequence
  <2>4. CASE to - from + 1 \notin Nat
    <3>1. 1 .. to - from + 1 = {}
      BY <1>2, <2>4
    <3>2. list = << >>
      BY <3>1
    <3>3. << >> \in Seq(ValuesOf("list"))
      OBVIOUS
    <3> QED BY <3>2, <3>3
  <2> QED BY <2>3, <2>4
<1>7. /\ CatchupBuffer(from, to).type = "CatchupBuffer" /\ CatchupBuffer(from, to).values = values
      /\ CatchupBuffer(from, to) \in Messages
  <2>1. CatchupBuffer(from, to) = Message("CatchupBuffer", values)
    BY DEF CatchupBuffer
  <2>2. CatchupBuffer(from, to) \in {CatchupBuffer(f, t) : f, t \in 0 .. MostPackets}
    OBVIOUS
  <2>3. CatchupBuffer(from, to) \in Messages
    BY <2>2 DEF Messages
  <2>4. \A v : Message("CatchupBuffer", v).type = "CatchupBuffer" /\ Message("CatchupBuffer", v).values = v
    BY DEF Message
  <2> HIDE DEF values
  <2> QED BY <2>1, <2>3, <2>4
<1> HIDE DEF list
<1>4. list \in Contained("list")
  BY <1>3 DEF Contained
<1>5. values \in Seq(Contained("list")) /\ Len(values) = 1 /\ values[1] = list
  BY <1>4
<1>6. Len(types) = 1 /\ types[1] = "list"
  BY <1>1
<1> HIDE DEF values, types
<1>8. \A f \in 1 .. Len(values) : values[f] \in Contained(types[f])
  BY <1>4, <1>5, <1>6
<1>9. Decode("CatchupBuffer", Encode("CatchupBuffer", values)) = values
  BY <1>1, <1>5, <1>6, <1>8, ReadBack DEF types
<1> QED BY <1>7, <1>9, MeantIs

\* proto.rs: every message of a handshake is read as it was written, as long as
\* the number of a packet fits the i32 it travels as.
THEOREM MessagesReadAsWritten == ReadAsWritten
BY RequestKept, ResponseKept, HeaderKept, CatchupKept DEF ReadAsWritten

\* A response is understood as the status it has.
LEMMA SaysStatus ==
    ASSUME NEW s \in DOMAIN Statuses, NEW t \in DOMAIN Statuses
    PROVE  Says(Response(s), t) <=> s = t
<1>1. Meant[Response(s)] = <<<<Statuses[s]>>, << >>>>
  BY MessagesReadAsWritten DEF ReadAsWritten, Response, Message
<1>2. Statuses[s] = Statuses[t] => s = t
  BY DEF Statuses
<1>3. Meant[Response(s)][1] = <<Statuses[s]>>
  BY <1>1
<1>4. <<Statuses[s]>> = <<Statuses[t]>> => Statuses[s] = Statuses[t]
  OBVIOUS
<1> QED BY <1>2, <1>3, <1>4 DEF Says

LEMMA StatusNames ==
    DOMAIN Statuses = {"NewClient", "ReturningClient", "InvalidKey", "MismatchedProtocol"}
BY DEF Statuses

LEMMA RequestRead ==
    Meant[Request] = <<<<Identity>>, <<PROTOCOL_VERSION>>>>
BY MessagesReadAsWritten DEF ReadAsWritten, Request, Message

LEMMA HeaderRead ==
    ASSUME NEW n \in 0 .. MostPackets
    PROVE  Meant[SequenceHeader(n)][1][1] = n
<1>1. Meant[SequenceHeader(n)] = <<<<n>>>>
  BY MessagesReadAsWritten DEF ReadAsWritten, SequenceHeader, Message
<1> QED BY <1>1

\* A catch-up that begins behind its end is empty, wherever that is.
LEMMA CatchupRead ==
    ASSUME NEW from \in 1 .. MostPackets + 1, NEW to \in 0 .. MostPackets,
           from =< to + 1
    PROVE  LET caught == Meant[CatchupBuffer(from, to)][1]
           IN  /\ Len(caught) = to - from + 1
               /\ caught = << >> <=> from = to + 1
               /\ from =< to => caught[1] = <<from>>
<1> DEFINE list(f, t) == [i \in 1 .. t - f + 1 |-> <<f + i - 1>>]
<1>1. \A f, t : CatchupBuffer(f, t) = Message("CatchupBuffer", <<list(f, t)>>)
  BY DEF CatchupBuffer
<1>2. \A f, t \in 0 .. MostPackets : Meant[CatchupBuffer(f, t)][1] = list(f, t)
  <2> SUFFICES ASSUME NEW f \in 0 .. MostPackets, NEW t \in 0 .. MostPackets
               PROVE  Meant[CatchupBuffer(f, t)][1] = list(f, t)
    OBVIOUS
  <2>1. Meant[CatchupBuffer(f, t)] = CatchupBuffer(f, t).values
    BY MessagesReadAsWritten DEF ReadAsWritten
  <2>2. CatchupBuffer(f, t).values = <<list(f, t)>>
    BY <1>1 DEF Message
  <2> QED BY <2>1, <2>2
<1>3. Meant[CatchupBuffer(from, to)][1] = list(from, to)
  <2>1. CASE from \in 0 .. MostPackets
    BY <1>2, <2>1
  <2>2. CASE from = MostPackets + 1
    <3>1. to = MostPackets
      BY <2>2, MostIsNat
    <3>2. list(from, to) = << >> /\ list(1, 0) = << >>
      BY <2>2, <3>1, MostIsNat
    <3>3. CatchupBuffer(from, to) = CatchupBuffer(1, 0)
      BY <1>1, <3>2
    <3>4. Meant[CatchupBuffer(1, 0)][1] = list(1, 0)
      <4>1. 1 \in 0 .. MostPackets /\ 0 \in 0 .. MostPackets
        BY MostIsNat
      <4> HIDE DEF list
      <4> QED BY <1>2, <4>1
    <3> QED BY <3>2, <3>3, <3>4
  <2> QED BY <2>1, <2>2, MostIsNat
<1>4. /\ list(from, to) \in Seq({<<n>> : n \in Int})
      /\ Len(list(from, to)) = to - from + 1
  BY MostIsNat
<1>5. ASSUME from =< to PROVE list(from, to)[1] = <<from>>
  BY <1>5, MostIsNat
<1>6. list(from, to) = << >> <=> from = to + 1
  BY <1>4, MostIsNat
<1> HIDE DEF list
<1> QED BY <1>3, <1>4, <1>5, <1>6

-----------------------------------------------------------------------------
(* What the steps do to the two connections. *)

Ends == {"cur", "hs"}

Cur == conn["cur"]
Hs == conn["hs"]

Conn(state, up, down, peer) == [state |-> state, up |-> up, down |-> down, peer |-> peer]

States == {"none", "good", "silent", "broken"}
Peers == {"request", "sequence", "catchup", "packets", "gone"}

IsConn(c) ==
    c = Conn(c.state, c.up, c.down, c.peer) /\ c.state \in States /\ c.peer \in Peers

ShapeInv == conn = [e \in Ends |-> conn[e]] /\ IsConn(Cur) /\ IsConn(Hs)

One(b) == IF b THEN 1 ELSE 0

LEMMA ConnFields ==
    ASSUME NEW state, NEW up, NEW down, NEW peer
    PROVE  LET c == Conn(state, up, down, peer)
           IN  c.state = state /\ c.up = up /\ c.down = down /\ c.peer = peer
BY DEF Conn

LEMMA MadeConn ==
    ASSUME NEW state \in States, NEW up, NEW down, NEW peer \in Peers
    PROVE  IsConn(Conn(state, up, down, peer))
BY DEF IsConn, Conn

LEMMA NoConnIs == NoConn = Conn("none", << >>, << >>, "gone") /\ IsConn(NoConn)
BY DEF NoConn, Conn, IsConn, States, Peers

\* A record changed in some fields.
LEMMA UpSet ==
    ASSUME NEW c, IsConn(c), NEW x
    PROVE  [c EXCEPT !.up = x] = Conn(c.state, x, c.down, c.peer)
<1>1. c = Conn(c.state, c.up, c.down, c.peer)
  BY DEF IsConn
<1>2. [Conn(c.state, c.up, c.down, c.peer) EXCEPT !.up = x] = Conn(c.state, x, c.down, c.peer)
  BY DEF Conn
<1> QED BY <1>1, <1>2

LEMMA DownSet ==
    ASSUME NEW c, IsConn(c), NEW x
    PROVE  [c EXCEPT !.down = x] = Conn(c.state, c.up, x, c.peer)
<1>1. c = Conn(c.state, c.up, c.down, c.peer)
  BY DEF IsConn
<1>2. [Conn(c.state, c.up, c.down, c.peer) EXCEPT !.down = x] = Conn(c.state, c.up, x, c.peer)
  BY DEF Conn
<1> QED BY <1>1, <1>2

LEMMA PeerSet ==
    ASSUME NEW c, IsConn(c), NEW x
    PROVE  [c EXCEPT !.peer = x] = Conn(c.state, c.up, c.down, x)
<1>1. c = Conn(c.state, c.up, c.down, c.peer)
  BY DEF IsConn
<1>2. [Conn(c.state, c.up, c.down, c.peer) EXCEPT !.peer = x] = Conn(c.state, c.up, c.down, x)
  BY DEF Conn
<1> QED BY <1>1, <1>2

LEMMA StateSet ==
    ASSUME NEW c, IsConn(c), NEW x, NEW y
    PROVE  [c EXCEPT !.state = x, !.down = y] = Conn(x, c.up, y, c.peer)
<1>1. c = Conn(c.state, c.up, c.down, c.peer)
  BY DEF IsConn
<1>2. [Conn(c.state, c.up, c.down, c.peer) EXCEPT !.state = x] = Conn(x, c.up, c.down, c.peer)
  BY DEF Conn
<1>3. [Conn(x, c.up, c.down, c.peer) EXCEPT !.down = y] = Conn(x, c.up, y, c.peer)
  BY DEF Conn
<1>4. [c EXCEPT !.state = x, !.down = y] = [[c EXCEPT !.state = x] EXCEPT !.down = y]
  OBVIOUS
<1> QED BY <1>1, <1>2, <1>3, <1>4

LEMMA OpenSet ==
    ASSUME NEW c, IsConn(c), NEW x, NEW y, NEW z
    PROVE  [c EXCEPT !.state = x, !.up = y, !.peer = z] = Conn(x, y, c.down, z)
<1>1. c = Conn(c.state, c.up, c.down, c.peer)
  BY DEF IsConn
<1>2. [Conn(c.state, c.up, c.down, c.peer) EXCEPT !.state = x] = Conn(x, c.up, c.down, c.peer)
  BY DEF Conn
<1>3. [Conn(x, c.up, c.down, c.peer) EXCEPT !.up = y] = Conn(x, y, c.down, c.peer)
  BY DEF Conn
<1>4. [Conn(x, y, c.down, c.peer) EXCEPT !.peer = z] = Conn(x, y, c.down, z)
  BY DEF Conn
<1>5. [c EXCEPT !.state = x, !.up = y, !.peer = z] = [[[c EXCEPT !.state = x] EXCEPT !.up = y] EXCEPT !.peer = z]
  OBVIOUS
<1> QED BY <1>1, <1>2, <1>3, <1>4, <1>5

LEMMA ServedSet ==
    ASSUME NEW c, IsConn(c), NEW x, NEW y, NEW z
    PROVE  [c EXCEPT !.up = x, !.peer = y, !.down = z] = Conn(c.state, x, z, y)
<1>1. c = Conn(c.state, c.up, c.down, c.peer)
  BY DEF IsConn
<1>2. [Conn(c.state, c.up, c.down, c.peer) EXCEPT !.up = x] = Conn(c.state, x, c.down, c.peer)
  BY DEF Conn
<1>3. [Conn(c.state, x, c.down, c.peer) EXCEPT !.peer = y] = Conn(c.state, x, c.down, y)
  BY DEF Conn
<1>4. [Conn(c.state, x, c.down, y) EXCEPT !.down = z] = Conn(c.state, x, z, y)
  BY DEF Conn
<1>5. [c EXCEPT !.up = x, !.peer = y, !.down = z] = [[[c EXCEPT !.up = x] EXCEPT !.peer = y] EXCEPT !.down = z]
  OBVIOUS
<1> QED BY <1>1, <1>2, <1>3, <1>4, <1>5

LEMMA SetsOne ==
    ASSUME ShapeInv, NEW c
    PROVE  /\ conn' = [conn EXCEPT !["hs"] = c] =>
                 conn' = [e \in Ends |-> conn'[e]] /\ Cur' = Cur /\ Hs' = c
           /\ conn' = [conn EXCEPT !["cur"] = c] =>
                 conn' = [e \in Ends |-> conn'[e]] /\ Cur' = c /\ Hs' = Hs
BY DEF ShapeInv, Cur, Hs, Ends

LEMMA DialsIs ==
    ASSUME ShapeInv, Dials
    PROVE  ShapeInv' /\ Cur' = Cur /\ Hs' = Conn("good", <<Request>>, << >>, "request")
<1>1. conn' = [conn EXCEPT !["hs"] = Conn("good", <<Request>>, << >>, "request")]
  <2>1. [NoConn EXCEPT !.state = "good", !.up = <<Request>>, !.peer = "request"]
          = Conn("good", <<Request>>, << >>, "request")
    <3>1. ASSUME NEW c, IsConn(c), c.down = << >>
          PROVE  [c EXCEPT !.state = "good", !.up = <<Request>>, !.peer = "request"]
                   = Conn("good", <<Request>>, << >>, "request")
      <4>1. \A x, y, z : [c EXCEPT !.state = x, !.up = y, !.peer = z] = Conn(x, y, c.down, z)
        BY <3>1, OpenSet, Zenon
      <4>2. [c EXCEPT !.state = "good", !.up = <<Request>>, !.peer = "request"]
                   = Conn("good", <<Request>>, c.down, "request")
        BY <4>1, Zenon
      <4> QED BY <3>1, <4>2
    <3>2. IsConn(NoConn) /\ NoConn.down = << >>
      BY NoConnIs, ConnFields
    <3> QED BY <3>1, <3>2
  <2> QED BY <2>1 DEF Dials
<1>2. IsConn(Conn("good", <<Request>>, << >>, "request"))
  BY MadeConn DEF States, Peers
<1> QED BY <1>1, <1>2, SetsOne DEF ShapeInv

LEMMA DroppedIs ==
    ASSUME ShapeInv, Dropped("hs")
    PROVE  ShapeInv' /\ Cur' = Cur /\ Hs' = NoConn /\ late' = late + One(Hs.peer = "request")
<1>1. conn' = [conn EXCEPT !["hs"] = NoConn] /\ late' = late + One(Hs.peer = "request")
  BY DEF Dropped, One, Hs
<1> QED BY <1>1, SetsOne, NoConnIs DEF ShapeInv

LEMMA ClosedIs ==
    ASSUME ShapeInv, Closes
    PROVE  ShapeInv' /\ Cur' = NoConn /\ Hs' = Hs
<1>1. conn' = [conn EXCEPT !["cur"] = NoConn]
  BY DEF Closes
<1> QED BY <1>1, SetsOne, NoConnIs DEF ShapeInv

LEMMA MovedIs ==
    ASSUME ShapeInv, conn' = Moved(conn["hs"])
    PROVE  ShapeInv' /\ Hs' = NoConn /\ Cur' = Conn(Hs.state, Hs.up, Tail(Hs.down), Hs.peer)
<1> DEFINE c == Conn(Hs.state, Hs.up, Tail(Hs.down), Hs.peer)
<1>1. [Hs EXCEPT !.down = Tail(@)] = c
  BY DownSet DEF ShapeInv
<1>2. conn' = [conn EXCEPT !["cur"] = c, !["hs"] = NoConn]
  BY <1>1 DEF Moved, Hs
<1>3. IsConn(c)
  BY MadeConn DEF ShapeInv, IsConn
<1> HIDE DEF c
<1>4. conn' = [e \in Ends |-> conn'[e]] /\ Cur' = c /\ Hs' = NoConn
  BY <1>2 DEF ShapeInv, Cur, Hs, Ends
<1> QED BY <1>3, <1>4, NoConnIs DEF ShapeInv, c

\* Of the handshake's connection the client takes a message, and writes one.
LEMMA TakesIs ==
    ASSUME ShapeInv, NEW m, conn' = [Taken("hs") EXCEPT !["hs"].up = Append(@, m)]
    PROVE  ShapeInv' /\ Cur' = Cur
           /\ Hs' = Conn(Hs.state, Append(Hs.up, m), Tail(Hs.down), Hs.peer)
<1> DEFINE c == Conn(Hs.state, Append(Hs.up, m), Tail(Hs.down), Hs.peer)
<1>1. Taken("hs") = [conn EXCEPT !["hs"] = Conn(Hs.state, Hs.up, Tail(Hs.down), Hs.peer)]
  <2>1. [Hs EXCEPT !.down = Tail(@)] = Conn(Hs.state, Hs.up, Tail(Hs.down), Hs.peer)
    BY DownSet DEF ShapeInv
  <2> QED BY <2>1 DEF Taken, Hs, ShapeInv
<1>2. Taken("hs")["hs"] = Conn(Hs.state, Hs.up, Tail(Hs.down), Hs.peer)
  BY <1>1 DEF ShapeInv, Ends
<1>3. [Taken("hs")["hs"] EXCEPT !.up = Append(@, m)] = c
  <2>1. IsConn(Taken("hs")["hs"])
    <3>1. Hs.state \in States /\ Hs.peer \in Peers
      BY DEF ShapeInv, IsConn
    <3> QED BY <1>2, <3>1, MadeConn
  <2>2. /\ Taken("hs")["hs"].state = Hs.state /\ Taken("hs")["hs"].up = Hs.up
        /\ Taken("hs")["hs"].down = Tail(Hs.down) /\ Taken("hs")["hs"].peer = Hs.peer
    BY <1>2, ConnFields
  <2>3. [Taken("hs")["hs"] EXCEPT !.up = Append(@, m)]
          = Conn(Taken("hs")["hs"].state, Append(Taken("hs")["hs"].up, m),
                 Taken("hs")["hs"].down, Taken("hs")["hs"].peer)
    BY <2>1, UpSet
  <2> QED BY <2>2, <2>3
<1>4. conn' = [Taken("hs") EXCEPT !["hs"] = c]
  BY <1>3
<1>5. conn' = [conn EXCEPT !["hs"] = c]
  BY <1>1, <1>4 DEF ShapeInv, Ends
<1>6. IsConn(c)
  BY MadeConn DEF ShapeInv, IsConn
<1> QED BY <1>5, <1>6, SetsOne DEF ShapeInv

LEMMA TakenIs ==
    ASSUME ShapeInv, conn' = Taken("cur")
    PROVE  ShapeInv' /\ Hs' = Hs /\ Cur' = Conn(Cur.state, Cur.up, Tail(Cur.down), Cur.peer)
<1> DEFINE c == Conn(Cur.state, Cur.up, Tail(Cur.down), Cur.peer)
<1>1. [Cur EXCEPT !.down = Tail(@)] = c /\ IsConn(c)
  <2>1. IsConn(Cur) /\ Cur.state \in States /\ Cur.peer \in Peers
    BY DEF ShapeInv, IsConn
  <2>2. IsConn(c)
    BY <2>1, MadeConn
  <2> QED BY <2>1, <2>2, DownSet
<1>2. conn' = [conn EXCEPT !["cur"] = c]
  BY <1>1 DEF Taken, Cur, ShapeInv
<1> QED BY <1>1, <1>2, SetsOne DEF ShapeInv

LEMMA WrittenIs ==
    ASSUME ShapeInv, NEW m, conn' = [conn EXCEPT !["cur"].up = Append(@, m)]
    PROVE  ShapeInv' /\ Hs' = Hs /\ Cur' = Conn(Cur.state, Append(Cur.up, m), Cur.down, Cur.peer)
<1> DEFINE c == Conn(Cur.state, Append(Cur.up, m), Cur.down, Cur.peer)
<1>1. [Cur EXCEPT !.up = Append(@, m)] = c /\ IsConn(c)
  <2>1. IsConn(Cur) /\ Cur.state \in States /\ Cur.peer \in Peers
    BY DEF ShapeInv, IsConn
  <2>2. IsConn(c)
    BY <2>1, MadeConn
  <2> QED BY <2>1, <2>2, UpSet
<1>2. conn' = [conn EXCEPT !["cur"] = c]
  BY <1>1 DEF Cur, ShapeInv
<1> QED BY <1>1, <1>2, SetsOne DEF ShapeInv

LEMMA ServesHs ==
    ASSUME ShapeInv, NEW peer \in Peers, NEW reply, Serves("hs", peer, reply)
    PROVE  ShapeInv' /\ Cur' = Cur /\ Hs' = Conn(Hs.state, Tail(Hs.up), Hs.down \o reply, peer)
<1> DEFINE c == Conn(Hs.state, Tail(Hs.up), Hs.down \o reply, peer)
<1>1. [Hs EXCEPT !.up = Tail(@), !.peer = peer, !.down = @ \o reply] = c /\ IsConn(c)
  <2>1. IsConn(Hs) /\ Hs.state \in States /\ Hs.peer \in Peers
    BY DEF ShapeInv, IsConn
  <2>2. IsConn(c)
    BY <2>1, MadeConn
  <2> QED BY <2>1, <2>2, ServedSet, ZenonT(40)
<1>2. conn' = [conn EXCEPT !["hs"] = [Hs EXCEPT !.up = Tail(@), !.peer = peer, !.down = @ \o reply]]
  BY DEF Serves, Hs, ShapeInv, Ends
<1> QED BY <1>1, <1>2, SetsOne DEF ShapeInv

LEMMA ServesCur ==
    ASSUME ShapeInv, NEW peer \in Peers, NEW reply, Serves("cur", peer, reply)
    PROVE  ShapeInv' /\ Hs' = Hs /\ Cur' = Conn(Cur.state, Tail(Cur.up), Cur.down \o reply, peer)
<1> DEFINE c == Conn(Cur.state, Tail(Cur.up), Cur.down \o reply, peer)
<1>1. [Cur EXCEPT !.up = Tail(@), !.peer = peer, !.down = @ \o reply] = c /\ IsConn(c)
  <2>1. IsConn(Cur) /\ Cur.state \in States /\ Cur.peer \in Peers
    BY DEF ShapeInv, IsConn
  <2>2. IsConn(c)
    BY <2>1, MadeConn
  <2> QED BY <2>1, <2>2, ServedSet, ZenonT(40)
<1>2. conn' = [conn EXCEPT !["cur"] = [Cur EXCEPT !.up = Tail(@), !.peer = peer, !.down = @ \o reply]]
  BY DEF Serves, Cur, ShapeInv, Ends
<1> HIDE DEF c
<1>3. conn' = [conn EXCEPT !["cur"] = c]
  BY <1>1, <1>2
<1>4. conn' = [e \in Ends |-> conn'[e]] /\ Cur' = c /\ Hs' = Hs
  BY <1>3, SetsOne
<1> QED BY <1>1, <1>4 DEF ShapeInv, c

\* The server closes what it has.
Deserted(c) == Conn(c.state, c.up, c.down, IF c.peer = "request" THEN "request" ELSE "gone")

LEMMA DesertedIs ==
    ASSUME ShapeInv,
           conn' = [d \in DOMAIN conn |->
                      IF conn[d].peer = "request" THEN conn[d] ELSE [conn[d] EXCEPT !.peer = "gone"]]
    PROVE  ShapeInv' /\ Cur' = Deserted(Cur) /\ Hs' = Deserted(Hs)
<1>1. ASSUME NEW c, IsConn(c)
      PROVE  /\ (IF c.peer = "request" THEN c ELSE [c EXCEPT !.peer = "gone"]) = Deserted(c)
             /\ IsConn(Deserted(c))
  <2>1. IsConn(Deserted(c))
    BY <1>1, MadeConn DEF IsConn, Deserted, Peers
  <2>2. [c EXCEPT !.peer = "gone"] = Conn(c.state, c.up, c.down, "gone")
    BY <1>1, PeerSet
  <2> QED BY <1>1, <2>1, <2>2 DEF IsConn, Deserted
<1>2. DOMAIN conn = Ends
  BY DEF ShapeInv
<1>3. conn' = [d \in Ends |->
                 IF conn[d].peer = "request" THEN conn[d] ELSE [conn[d] EXCEPT !.peer = "gone"]]
  BY <1>2
<1>4. conn' = [e \in Ends |-> conn'[e]] /\ Cur' = Deserted(Cur) /\ Hs' = Deserted(Hs)
  BY <1>1, <1>3 DEF Ends, Cur, Hs, ShapeInv
<1> QED BY <1>1, <1>4 DEF ShapeInv

LEMMA RecoversIs ==
    ASSUME ShapeInv, NEW reply,
           conn' = [d \in DOMAIN conn |->
                      IF d = "hs" THEN [conn[d] EXCEPT !.up = Tail(@), !.peer = "sequence", !.down = reply]
                      ELSE IF conn[d].peer = "request" THEN conn[d]
                      ELSE [conn[d] EXCEPT !.peer = "gone"]]
    PROVE  ShapeInv' /\ Cur' = Deserted(Cur) /\ Hs' = Conn(Hs.state, Tail(Hs.up), reply, "sequence")
<1>1. /\ (IF Cur.peer = "request" THEN Cur ELSE [Cur EXCEPT !.peer = "gone"]) = Deserted(Cur)
      /\ IsConn(Deserted(Cur))
  <2>1. IsConn(Cur)
    BY DEF ShapeInv
  <2>2. IsConn(Deserted(Cur))
    BY <2>1, MadeConn DEF IsConn, Deserted, Peers
  <2>3. [Cur EXCEPT !.peer = "gone"] = Conn(Cur.state, Cur.up, Cur.down, "gone")
    BY <2>1, PeerSet
  <2> QED BY <2>1, <2>2, <2>3 DEF IsConn, Deserted
<1>2. DOMAIN conn = Ends
  BY DEF ShapeInv
<1> DEFINE c == Conn(Hs.state, Tail(Hs.up), reply, "sequence")
<1>3. [Hs EXCEPT !.up = Tail(@), !.peer = "sequence", !.down = reply] = c /\ IsConn(c)
  <2>1. IsConn(Hs) /\ Hs.state \in States /\ Hs.peer \in Peers
    BY DEF ShapeInv, IsConn
  <2>2. IsConn(c)
    BY <2>1, MadeConn DEF Peers
  <2>3. ASSUME NEW x, NEW y, NEW z
        PROVE  [Hs EXCEPT !.up = x, !.peer = y, !.down = z] = Conn(Hs.state, x, z, y)
    BY <2>1, ServedSet, ZenonT(40)
  <2> QED BY <2>2, <2>3
<1>4. conn' = [d \in Ends |->
                      IF d = "hs" THEN [conn[d] EXCEPT !.up = Tail(@), !.peer = "sequence", !.down = reply]
                      ELSE IF conn[d].peer = "request" THEN conn[d]
                      ELSE [conn[d] EXCEPT !.peer = "gone"]]
  BY <1>2
<1> HIDE DEF c
<1>5. conn' = [e \in Ends |-> conn'[e]] /\ Cur' = Deserted(Cur) /\ Hs' = c
  BY <1>1, <1>3, <1>4 DEF Ends, Cur, Hs
<1> QED BY <1>1, <1>3, <1>5 DEF ShapeInv, c

Lost(c, state) == Conn(state, c.up, IF state = "broken" THEN << >> ELSE c.down, c.peer)

LEMMA LostIs ==
    ASSUME ShapeInv, NEW e \in Ends, NEW state \in {"silent", "broken"}, Lose(e, state)
    PROVE  /\ ShapeInv'
           /\ e = "hs" => Cur' = Cur /\ Hs' = Lost(Hs, state)
           /\ e = "cur" => Hs' = Hs /\ Cur' = Lost(Cur, state)
<1>1. ASSUME NEW c, IsConn(c)
      PROVE  /\ [c EXCEPT !.state = state, !.down = IF state = "broken" THEN << >> ELSE @] = Lost(c, state)
             /\ IsConn(Lost(c, state))
  <2>1. IsConn(Lost(c, state))
    BY <1>1, MadeConn DEF IsConn, Lost, States
  <2> QED BY <1>1, <2>1, StateSet DEF Lost
<1>2. conn' = [conn EXCEPT ![e] = [conn[e] EXCEPT !.state = state,
                                                   !.down = IF state = "broken" THEN << >> ELSE @]]
  BY DEF Lose, ShapeInv
<1>3. conn' = [conn EXCEPT ![e] = Lost(conn[e], state)]
  BY <1>1, <1>2 DEF ShapeInv, Ends, Cur, Hs
<1>4. CASE e = "hs"
  BY <1>1, <1>3, <1>4, SetsOne DEF ShapeInv, Hs
<1>5. CASE e = "cur"
  BY <1>1, <1>3, <1>5, SetsOne DEF ShapeInv, Cur
<1> QED BY <1>4, <1>5 DEF Ends

-----------------------------------------------------------------------------
(* The inductive invariant. *)

Early == {"start", "ping", "ssh", "connect", "await"}
Handshaking == {"response", "sequence", "catchup"}

NamesInv ==
    /\ pc \in Early \cup {"payload", "response", "session", "failed"}
    /\ reason \in {"none", "arguments", "unreachable", "ssh", "attempts", "payload", "response", "deadline"}
    /\ aim \in {"none", "asked", "deviates", "astray"}
    /\ printed \in {"nothing", "standard", "odd"}
    /\ keys \in {"none", "right", "garbled", "short"}
    /\ rt \in {"none", "dial", "sleep"} \cup Handshaking
    /\ answered \in {"no", "ok", "error"}
    /\ pc # "failed" => reason = "none"

NumbersInv ==
    /\ attempts \in 0 .. MaxAttempts /\ left \in 0 .. ResponseWait
    /\ sent \in Nat /\ got \in Nat /\ received \in Nat /\ queued \in 0 .. received
    /\ late \in Nat /\ losses \in 0 .. MaxLosses

FlagsInv ==
    /\ over \in BOOLEAN /\ junk \in BOOLEAN /\ serves \in BOOLEAN /\ known \in BOOLEAN
    /\ slow \in BOOLEAN

KindInv == NamesInv /\ NumbersInv /\ FlagsInv

\* Which connections there are, and what has happened when.
BeforeInv ==
    /\ pc \in {"start", "ping", "ssh"} => attempts = 0 /\ ~known /\ late = 0
    /\ pc \in Early => rt = "none" /\ ~over /\ ~junk /\ Cur = NoConn /\ sent = 0 /\ received = 0
    /\ IF pc = "await" \/ rt \in Handshaking THEN Hs.state # "none" ELSE Hs = NoConn
    /\ rt # "none" => Cur = NoConn /\ sent >= 1 /\ known
    /\ over => rt = "none" /\ Cur = NoConn
    /\ Running => known /\ received = queued
    /\ Running /\ rt = "none" /\ ~over => Cur.state # "none"
    /\ pc = "response" => sent >= 1

\* The server has answered, or not yet.
Have == IF answered = "no" THEN 0 ELSE 1

CountInv ==
    /\ got <= sent /\ received <= Have
    /\ answered = "no" <=> got = 0
    /\ junk => received = 0
    /\ over => ~serves
    /\ pc = "payload" => sent + One(Cur.state = "broken") <= MaxCopies + losses
    /\ sent <= MaxCopies + losses + 1
    /\ pc \in {"connect", "await"} => attempts < MaxAttempts

\* A catch-up may offer the packets up to k.
Offered(k) == got <= k /\ 1 <= k /\ (pc = "payload" => k = sent)

Refusals == {"InvalidKey", "MismatchedProtocol"}

\* The client waits for what the server says of its request.
Asks(h) ==
    \/ h.peer = "request" /\ h.up = <<Request>> /\ h.down = << >>
    \/ /\ h.peer \in {"packets", "gone"} /\ h.up = << >>
       /\ h.down = <<Response("NewClient")>>
       /\ pc = "await" /\ known /\ got = 0
    \/ /\ h.peer \in {"sequence", "gone"} /\ h.up = << >>
       /\ h.down = <<Response("ReturningClient"), SequenceHeader(got)>>
       /\ known
    \/ /\ h.peer = "gone"
       /\ \E status \in Refusals : h.down = <<Response(status)>>
       /\ ~serves

\* For its sequence number.
Sequencing(h) ==
    \/ /\ h.peer \in {"sequence", "gone"}
       /\ h.peer = "sequence" => h.up = <<SequenceHeader(received)>>
       /\ h.down = <<SequenceHeader(got)>>
    \/ /\ h.peer \in {"catchup", "gone"}
       /\ h.peer = "catchup" => h.up = << >>
       /\ h.down = <<SequenceHeader(got), CatchupBuffer(received + 1, Have)>>

\* For its catch-up.
CatchingUp(h) ==
    \/ /\ h.peer \in {"sequence", "gone"}
       /\ h.peer = "sequence" =>
             \E k \in 1 .. sent : Offered(k) /\ h.up = <<SequenceHeader(received), CatchupBuffer(got + 1, k)>>
       /\ h.down = << >>
    \/ /\ h.peer \in {"catchup", "packets", "gone"}
       /\ h.peer = "catchup" => \E k \in 1 .. sent : Offered(k) /\ h.up = <<CatchupBuffer(got + 1, k)>>
       /\ h.peer = "packets" => Offered(got) /\ h.up = << >>
       /\ h.down = <<CatchupBuffer(received + 1, Have)>>
    \/ /\ h.peer \in {"packets", "gone"}
       /\ h.peer = "packets" => Offered(got) /\ h.up = << >>
       /\ h.down = <<CatchupBuffer(1, 0), Frame(1)>>
       /\ received = 0 /\ answered # "no"

HandshakeInv ==
    Hs.state = "good" =>
        /\ pc = "await" \/ rt = "response" => Asks(Hs)
        /\ rt = "sequence" => Sequencing(Hs)
        /\ rt = "catchup" => CatchingUp(Hs)

\* After a handshake that was not finished, for connect() took a recovery for
\* a beginning: the server waits for a SequenceHeader.
Misled(c) ==
    /\ c.peer \in {"sequence", "gone"}
    /\ received = 0 /\ queued = 0
    /\ c.down = << >> \/ \E n \in 0 .. MostPackets : c.down = <<SequenceHeader(n)>>
    /\ c.peer = "sequence" =>
          \/ c.up = << >> /\ pc # "response"
          \/ c.up = <<Frame(sent)>> /\ pc # "payload"

\* After one that was, or that needed nothing more.
UpOk(c) ==
    /\ c.peer = "catchup" =>
          \E k \in 1 .. sent :
             /\ Offered(k)
             /\ \/ c.up = <<CatchupBuffer(got + 1, k)>>
                \/ c.up = <<CatchupBuffer(got + 1, k), Frame(k + 1)>> /\ k + 1 <= sent /\ pc # "payload"
    /\ c.peer = "packets" =>
          \/ c.up = << >> /\ (pc = "payload" => got = sent) /\ (pc # "payload" => got >= 1)
          \/ c.up = <<Frame(got + 1)>> /\ got + 1 <= sent /\ pc # "payload"

DownOk(c) ==
    \/ c.down = << >> /\ received = Have
    \/ c.down = <<Frame(1)>> /\ received = 0 /\ answered # "no" /\ c.peer # "catchup"

Streams(c) == c.peer \in {"catchup", "packets", "gone"} /\ ~junk /\ UpOk(c) /\ DownOk(c)

CurrentInv == Cur.state = "good" => Misled(Cur) \/ Streams(Cur)

\* Good or not, once the client has a packet.
CleanInv == Cur.state # "none" /\ received > 0 => Cur.peer \in {"catchup", "packets", "gone"} /\ UpOk(Cur)

\* Requests the server may get although the client does not wait for the answer.
AtLarge == late + One(Hs.peer = "request" /\ Hs.state \in {"silent", "broken"})

LateInv == AtLarge <= losses

\* An attempt fails for a loss.  A client that is known and has not heard of it
\* had another one.
AttemptsInv ==
    pc \in {"connect", "await"} /\ serves /\ keys # "short" =>
        /\ attempts + One(Hs.state \in {"silent", "broken"}) <= losses
        /\ known /\ ~(Hs.state = "good" /\ Hs.peer = "packets") => AtLarge + 1 <= losses

SlowInv == Running /\ (Cur.state = "silent" \/ Hs.state = "silent") => slow

\* The seconds waited, and those to come without another loss, against two for
\* each loss but the first: as long as no connection is doomed none passes.
Waited == IF pc = "response" THEN ResponseWait - left ELSE 0

HandshakeCost ==
    IF Hs.state = "broken" THEN IF Hs.peer = "request" THEN 2 ELSE 1
    ELSE One(Hs.state = "good" /\ Hs.peer = "gone")

Cost == Waited + One(rt = "sleep") + late + HandshakeCost

Doomed == rt # "none" \/ Cur.state = "broken" \/ Cur.peer \in {"gone", "sequence"}

WaitInv ==
    Running /\ serves /\ keys = "right" /\ ~slow =>
        Cost + 2 <= 2 * losses \/ (~Doomed /\ Waited = 0)

Tallies == LateInv /\ AttemptsInv /\ SlowInv /\ WaitInv

Contents == HandshakeInv /\ CurrentInv /\ CleanInv

Outcomes == FailsOnlyForCause /\ SessionStartsClean

IInv == ShapeInv /\ KindInv /\ BeforeInv /\ CountInv /\ Contents /\ Tallies /\ Outcomes

-----------------------------------------------------------------------------
(* It holds at the start, and each action of the main thread keeps it. *)

LEMMA SameConns ==
    ASSUME ShapeInv, conn' = conn
    PROVE  ShapeInv' /\ Cur' = Cur /\ Hs' = Hs
BY DEF ShapeInv, Cur, Hs

LEMMA NoneIs == NoConn.state = "none" /\ NoConn.peer = "gone"
BY NoConnIs, ConnFields

LEMMA Idle ==
    ASSUME Cur = NoConn, Hs = NoConn
    PROVE  Contents
BY NoneIs DEF Contents, HandshakeInv, CurrentInv, CleanInv

LEMMA InitHolds == Init => IInv
<1> SUFFICES ASSUME Init PROVE IInv
  OBVIOUS
<1>1. ShapeInv /\ Cur = NoConn /\ Hs = NoConn
  BY NoConnIs DEF Init, ShapeInv, Cur, Hs, Ends
<1>2. KindInv
  <2>1. NamesInv
    BY DEF Init, NamesInv, Early, Handshaking
  <2>2. NumbersInv
    BY Bounds DEF Init, NumbersInv
  <2>3. FlagsInv
    BY DEF Init, FlagsInv
  <2> QED BY <2>1, <2>2, <2>3 DEF KindInv
<1>3. BeforeInv
  BY <1>1, NoneIs DEF Init, BeforeInv, Early, Handshaking, Running
<1>4. CountInv
  BY Bounds DEF Init, CountInv, Have
<1>5. Contents
  BY <1>1, Idle
<1>6. Tallies
  BY <1>1, NoneIs DEF Init, Tallies, LateInv, AttemptsInv, SlowInv, WaitInv, AtLarge, One, Running
<1>7. Outcomes
  BY DEF Init, Outcomes, FailsOnlyForCause, SessionStartsClean
<1> QED BY <1>1, <1>2, <1>3, <1>4, <1>5, <1>6, <1>7 DEF IInv

LEMMA IdleNext ==
    ASSUME Cur' = NoConn, Hs' = NoConn
    PROVE  Contents'
BY NoneIs DEF Contents, HandshakeInv, CurrentInv, CleanInv

LEMMA BeforeKeeps ==
    ASSUME IInv, RunParse \/ Ping \/ SetupSsh
    PROVE  IInv'
<1>1. /\ pc \in {"start", "ping", "ssh"} /\ pc' \in {"ping", "ssh", "connect", "failed"}
      /\ UNCHANGED <<attempts, left, client, conn, server, late, slow>>
      /\ losses' \in losses .. MaxLosses
      /\ pc' # "failed" => reason' = reason
  <2>1. losses \in 0 .. MaxLosses
    BY DEF IInv, KindInv, NumbersInv
  <2>2. losses' = losses \/ (losses < MaxLosses /\ losses' = losses + 1)
    BY DEF RunParse, Ping, SetupSsh, net
  <2>3. losses' \in losses .. MaxLosses
    BY <2>1, <2>2, Bounds
  <2>4. pc \in {"start", "ping", "ssh"} /\ pc' \in {"ping", "ssh", "connect", "failed"}
    BY DEF RunParse, Ping, SetupSsh, Fails
  <2>5. UNCHANGED <<attempts, left, client, conn, server, late, slow>>
    BY DEF RunParse, Ping, SetupSsh, net
  <2>6. pc' # "failed" => reason' = reason
    BY DEF RunParse, Ping, SetupSsh, Fails
  <2> QED BY <2>3, <2>4, <2>5, <2>6
<1>2. ShapeInv' /\ Cur' = NoConn /\ Hs' = NoConn /\ Cur = NoConn /\ Hs = NoConn
  <2>1. pc \in Early /\ pc # "await" /\ BeforeInv /\ ShapeInv
    BY <1>1 DEF IInv, Early
  <2>2. rt = "none" /\ Cur = NoConn
    BY <2>1 DEF BeforeInv
  <2>3. Hs = NoConn
    BY <2>1, <2>2 DEF BeforeInv, Handshaking
  <2> QED BY <1>1, <2>1, <2>2, <2>3, SameConns
<1>3. KindInv'
  <2>1. aim' = aim \/ \E c \in CommandLines : aim' = Aim(c)
    BY DEF RunParse, Ping, SetupSsh, cli
  <2>2. \A c : Aim(c) \in {"asked", "deviates", "astray"}
    BY DEF Aim
  <2>3. /\ printed' \in {printed, "nothing", "standard", "odd"}
        /\ keys' \in {keys, "right", "garbled", "short"}
        /\ reason' \in {reason, "arguments", "unreachable", "ssh"}
    BY DEF RunParse, Ping, SetupSsh, cli, Fails
  <2>4. NamesInv'
    BY <1>1, <2>1, <2>2, <2>3 DEF IInv, KindInv, NamesInv, client, server, Early
  <2>5. NumbersInv'
    BY <1>1 DEF IInv, KindInv, NumbersInv, client, server
  <2>6. FlagsInv'
    BY <1>1 DEF IInv, KindInv, FlagsInv, client, server
  <2> QED BY <2>4, <2>5, <2>6 DEF KindInv
<1>4. BeforeInv'
  BY <1>1, <1>2, NoneIs DEF IInv, BeforeInv, client, server, Early, Handshaking, Running
<1>5. CountInv'
  <2>1. attempts = 0 /\ pc' # "payload"
    BY <1>1 DEF IInv, BeforeInv
  <2>2. Have' = Have
    BY <1>1 DEF Have, server
  <2>3. /\ sent \in Nat /\ losses \in Nat /\ sent <= MaxCopies + losses + 1
        /\ losses' = losses \/ losses' = losses + 1
    <3>1. losses' = losses \/ losses' = losses + 1
      BY DEF RunParse, Ping, SetupSsh, net
    <3> QED BY <3>1 DEF IInv, KindInv, NumbersInv, CountInv
  <2>4. sent <= MaxCopies + losses' + 1
    BY <2>3, Bounds
  <2> QED BY <1>1, <2>1, <2>2, <2>3, <2>4, Bounds DEF IInv, CountInv, client, server
<1>6. Contents'
  BY <1>2, IdleNext
<1>7. Tallies'
  BY <1>1, <1>2, NoneIs DEF IInv, KindInv, NumbersInv, BeforeInv, Tallies, LateInv, AttemptsInv, SlowInv, WaitInv,
     AtLarge, One, Running, client, server, Early
<1>8. FailsOnlyForCause'
  <2>1. reason' = "ssh" => printed' # "standard"
    BY <1>1, StandardLineParses DEF IInv, KindInv, NamesInv, RunParse, Ping, SetupSsh, cli, Fails, StandardParses
  <2>2. reason' \in {"none", "arguments", "unreachable", "ssh"}
    BY <1>1 DEF IInv, KindInv, NamesInv, RunParse, Ping, SetupSsh, cli, Fails
  <2> QED BY <2>1, <2>2 DEF FailsOnlyForCause
<1>9. SessionStartsClean'
  BY <1>1 DEF SessionStartsClean
<1> QED BY <1>2, <1>3, <1>4, <1>5, <1>6, <1>7, <1>8, <1>9 DEF IInv, Outcomes

LEMMA DialKeeps ==
    ASSUME IInv, Dial
    PROVE  IInv'
<1>1. pc = "connect" /\ rt = "none" /\ Cur = NoConn /\ Hs = NoConn /\ reason = "none"
  <2>1. pc = "connect" /\ pc \in Early
    BY DEF Dial, Early
  <2>2. rt = "none" /\ Cur = NoConn
    BY <2>1 DEF IInv, BeforeInv
  <2>3. Hs = NoConn /\ reason = "none"
    BY <2>1, <2>2 DEF IInv, BeforeInv, Handshaking, KindInv, NamesInv
  <2> QED BY <2>1, <2>2, <2>3
<1>2. UNCHANGED <<cli, left, client, server, late, slow>>
  BY DEF Dial
<1>3. CASE Dials /\ pc' = "await" /\ UNCHANGED <<attempts, reason, losses>>
  <2>1. ShapeInv' /\ Cur' = NoConn /\ Hs' = Conn("good", <<Request>>, << >>, "request")
    BY <1>1, <1>3, DialsIs DEF IInv
  <2>2. Hs'.state = "good" /\ Hs'.peer = "request" /\ Hs'.up = <<Request>> /\ Hs'.down = << >>
    BY <2>1, ConnFields
  <2>3. KindInv'
    BY <1>1, <1>2, <1>3 DEF IInv, KindInv, NamesInv, NumbersInv, FlagsInv, cli, client, server, Early
  <2>4. BeforeInv'
    BY <1>1, <1>2, <1>3, <2>1, <2>2 DEF IInv, BeforeInv, client, server, Early, Handshaking, Running
  <2>5. CountInv'
    BY <1>1, <1>2, <1>3, <2>1 DEF IInv, CountInv, client, server, Have
  <2>6. Contents'
    BY <1>1, <1>2, <1>3, <2>1, <2>2, NoneIs DEF Contents, HandshakeInv, CurrentInv, CleanInv, Asks, client
  <2>7. Tallies'
    BY <1>1, <1>2, <1>3, <2>1, <2>2, NoneIs DEF IInv, KindInv, NumbersInv, Tallies, LateInv, AttemptsInv, SlowInv,
       WaitInv, AtLarge, One, Running, client, server, cli
  <2>8. Outcomes'
    BY <1>1, <1>3 DEF Outcomes, FailsOnlyForCause, SessionStartsClean
  <2> QED BY <2>1, <2>3, <2>4, <2>5, <2>6, <2>7, <2>8 DEF IInv
<1>4. CASE NoRoute /\ AttemptFailed /\ UNCHANGED conn
  <2>1. ShapeInv' /\ Cur' = NoConn /\ Hs' = NoConn
    BY <1>1, <1>4, SameConns DEF IInv
  <2>2. /\ losses' = losses + 1 /\ losses < MaxLosses /\ attempts' = attempts + 1
        /\ \/ attempts' >= MaxAttempts /\ pc' = "failed" /\ reason' = "attempts"
           \/ attempts' < MaxAttempts /\ pc' = "connect" /\ reason' = "none"
    <3>1. attempts \in Nat
      BY DEF IInv, KindInv, NumbersInv
    <3>2. attempts' = attempts + 1 /\ attempts' \in Nat
      BY <1>4, <3>1 DEF AttemptFailed
    <3> QED BY <1>1, <1>4, <3>2, Bounds DEF NoRoute, AttemptFailed, Fails
  <2>3. attempts < MaxAttempts /\ attempts \in Nat
    BY <1>1 DEF IInv, CountInv, KindInv, NumbersInv
  <2>4. KindInv'
    <3>1. NamesInv'
      BY <1>1, <1>2, <2>2 DEF IInv, KindInv, NamesInv, cli, client, server, Early
    <3>2. NumbersInv'
      BY <1>2, <2>2, <2>3, Bounds DEF IInv, KindInv, NumbersInv, client, server
    <3>3. FlagsInv'
      BY <1>2 DEF IInv, KindInv, FlagsInv, client, server
    <3> QED BY <3>1, <3>2, <3>3 DEF KindInv
  <2>5. BeforeInv'
    BY <1>1, <1>2, <2>1, <2>2 DEF IInv, BeforeInv, client, server, Early, Handshaking, Running
  <2>6. CountInv'
    <3>1. sent <= MaxCopies + losses' + 1
      BY <2>2, Bounds DEF IInv, KindInv, NumbersInv, CountInv
    <3> QED BY <1>1, <1>2, <2>1, <2>2, <3>1 DEF IInv, CountInv, client, server, Have
  <2>7. Contents'
    BY <2>1, IdleNext
  <2>8. Tallies'
    BY <1>1, <1>2, <2>1, <2>2, <2>3, NoneIs DEF IInv, KindInv, NumbersInv, Tallies, LateInv, AttemptsInv, SlowInv,
       WaitInv, AtLarge, One, Running, client, server, cli
  <2>9. Outcomes'
    <3>1. serves /\ keys # "short" => losses' >= attempts'
      BY <1>1, <2>2, <2>3, NoneIs DEF IInv, Tallies, AttemptsInv, One, KindInv, NumbersInv
    <3> QED BY <1>1, <1>2, <2>2, <3>1, Bounds DEF Outcomes, FailsOnlyForCause, SessionStartsClean, server, cli
  <2> QED BY <2>1, <2>4, <2>5, <2>6, <2>7, <2>8, <2>9 DEF IInv
<1> QED BY <1>3, <1>4 DEF Dial

LEMMA HasHs ==
    ASSUME NEW t, Has("hs", t)
    PROVE  Hs.state = "good" /\ Hs.down # << >> /\ First("hs") = Head(Hs.down) /\ Head(Hs.down).type = t
BY DEF Has, First, Hs

LEMMA HasCur ==
    ASSUME NEW t, Has("cur", t)
    PROVE  Cur.state = "good" /\ Cur.down # << >> /\ First("cur") = Head(Cur.down) /\ Head(Cur.down).type = t
BY DEF Has, First, Cur

\* What the server may say of a request.
LEMMA Answers ==
    ASSUME IInv, Has("hs", "ConnectResponse"), pc = "await" \/ rt = "response"
    PROVE  /\ Hs.state = "good"
           /\ \/ /\ Hs.peer \in {"packets", "gone"} /\ Hs.up = << >> /\ Tail(Hs.down) = << >>
                 /\ pc = "await" /\ known /\ got = 0
                 /\ \A t \in DOMAIN Statuses : Says(First("hs"), t) <=> t = "NewClient"
              \/ /\ Hs.peer \in {"sequence", "gone"} /\ Hs.up = << >> /\ Tail(Hs.down) = <<SequenceHeader(got)>>
                 /\ known
                 /\ \A t \in DOMAIN Statuses : Says(First("hs"), t) <=> t = "ReturningClient"
              \/ /\ Hs.peer = "gone" /\ ~serves
                 /\ \A t \in DOMAIN Statuses : t \in {"NewClient", "ReturningClient"} => ~Says(First("hs"), t)
<1>1. Hs.state = "good" /\ Hs.down # << >> /\ First("hs") = Head(Hs.down)
  BY HasHs
<1>2. Asks(Hs)
  BY <1>1 DEF IInv, Contents, HandshakeInv
<1>3. CASE Hs.peer = "request" /\ Hs.up = <<Request>> /\ Hs.down = << >>
  BY <1>1, <1>3
<1>4. CASE /\ Hs.peer \in {"packets", "gone"} /\ Hs.up = << >>
           /\ Hs.down = <<Response("NewClient")>>
           /\ pc = "await" /\ known /\ got = 0
  <2>1. First("hs") = Response("NewClient") /\ Tail(Hs.down) = << >>
    BY <1>1, <1>4
  <2>2. \A t \in DOMAIN Statuses : Says(First("hs"), t) <=> t = "NewClient"
    BY <2>1, SaysStatus, StatusNames
  <2> QED BY <1>1, <1>4, <2>1, <2>2
<1>5. CASE /\ Hs.peer \in {"sequence", "gone"} /\ Hs.up = << >>
           /\ Hs.down = <<Response("ReturningClient"), SequenceHeader(got)>>
           /\ known
  <2>1. First("hs") = Response("ReturningClient") /\ Tail(Hs.down) = <<SequenceHeader(got)>>
    BY <1>1, <1>5, Queues
  <2>2. \A t \in DOMAIN Statuses : Says(First("hs"), t) <=> t = "ReturningClient"
    BY <2>1, SaysStatus, StatusNames
  <2> QED BY <1>1, <1>5, <2>1, <2>2
<1>6. CASE /\ Hs.peer = "gone"
           /\ \E status \in Refusals : Hs.down = <<Response(status)>>
           /\ ~serves
  <2>1. PICK status \in Refusals : Hs.down = <<Response(status)>>
    BY <1>6
  <2>2. First("hs") = Response(status) /\ status \in DOMAIN Statuses /\ status \notin {"NewClient", "ReturningClient"}
    BY <1>1, <2>1, StatusNames DEF Refusals
  <2>3. \A t \in DOMAIN Statuses : Says(First("hs"), t) <=> t = status
    BY <2>2, SaysStatus
  <2> QED BY <1>1, <1>6, <2>2, <2>3
<1> QED BY <1>2, <1>3, <1>4, <1>5, <1>6 DEF Asks

\* An attempt that fails, for want of a connection or of a server.
LEMMA AttemptOver ==
    ASSUME IInv, pc = "await", AttemptFailed, Dropped("hs"),
           UNCHANGED <<cli, left, client, server, losses, slow>>,
           Hs.peer = "request" => Hs.state \in {"silent", "broken"},
           serves /\ keys # "short" => Hs.state \in {"silent", "broken"}
    PROVE  IInv'
<1>1. rt = "none" /\ Cur = NoConn /\ reason = "none" /\ pc \in Early
  BY DEF IInv, BeforeInv, KindInv, NamesInv, Early
<1>2. ShapeInv' /\ Cur' = NoConn /\ Hs' = NoConn /\ late' = late + One(Hs.peer = "request")
  BY <1>1, DroppedIs DEF IInv
<1>3. attempts < MaxAttempts /\ attempts \in Nat
  BY <1>1 DEF IInv, CountInv, KindInv, NumbersInv
<1>4. /\ attempts' = attempts + 1
      /\ \/ attempts' >= MaxAttempts /\ pc' = "failed" /\ reason' = "attempts"
         \/ attempts' < MaxAttempts /\ pc' = "connect" /\ reason' = "none"
  <2>1. attempts' = attempts + 1 /\ attempts' \in Nat
    BY <1>3 DEF AttemptFailed
  <2> QED BY <1>1, <2>1, Bounds DEF AttemptFailed, Fails
<1>5. KindInv'
  <2>1. NamesInv'
    BY <1>1, <1>4 DEF IInv, KindInv, NamesInv, cli, client, server, Early
  <2>2. NumbersInv'
    <3>1. late' \in Nat
      BY <1>2 DEF One, IInv, KindInv, NumbersInv
    <3> QED BY <1>3, <1>4, <3>1, Bounds DEF IInv, KindInv, NumbersInv, client, server
  <2>3. FlagsInv'
    BY DEF IInv, KindInv, FlagsInv, client, server
  <2> QED BY <2>1, <2>2, <2>3 DEF KindInv
<1>6. BeforeInv'
  BY <1>1, <1>2, <1>4 DEF IInv, BeforeInv, client, server, Early, Handshaking, Running
<1>7. CountInv'
  BY <1>1, <1>2, <1>4 DEF IInv, CountInv, client, server, Have
<1>8. Contents'
  BY <1>2, IdleNext
<1>9. Tallies'
  <2>1. late' = AtLarge /\ AtLarge' = late' /\ late \in Nat /\ losses \in Nat
    BY <1>2, NoneIs DEF AtLarge, One, IInv, KindInv, NumbersInv
  <2>2. LateInv'
    BY <2>1 DEF IInv, Tallies, LateInv
  <2>3. ASSUME serves, keys # "short" PROVE attempts' <= losses /\ (known => AtLarge' + 1 <= losses)
    <3>1. attempts + One(Hs.state \in {"silent", "broken"}) <= losses
          /\ (known /\ ~(Hs.state = "good" /\ Hs.peer = "packets") => AtLarge + 1 <= losses)
      BY <2>3 DEF IInv, Tallies, AttemptsInv
    <3> QED BY <1>4, <2>1, <2>3, <3>1 DEF One
  <2>4. AttemptsInv'
    BY <1>2, <1>3, <1>4, <2>1, <2>3, NoneIs DEF AttemptsInv, One, server, cli
  <2>5. SlowInv' /\ WaitInv'
    BY <1>4 DEF SlowInv, WaitInv, Running
  <2> QED BY <2>2, <2>4, <2>5 DEF Tallies
<1>10. Outcomes'
  <2>1. serves /\ keys # "short" => losses >= attempts'
    BY <1>3, <1>4 DEF IInv, Tallies, AttemptsInv, One, KindInv, NumbersInv
  <2>2. losses \in Nat /\ attempts' \in Nat
    BY <1>3, <1>4 DEF IInv, KindInv, NumbersInv
  <2>3. FailsOnlyForCause'
    BY <1>4, <2>1, <2>2, Bounds DEF FailsOnlyForCause, server, cli
  <2> QED BY <1>4, <2>3 DEF Outcomes, SessionStartsClean
<1> QED BY <1>2, <1>5, <1>6, <1>7, <1>8, <1>9, <1>10 DEF IInv

LEMMA AwaitFailsKeeps ==
    ASSUME IInv, AwaitFails
    PROVE  IInv'
<1>1. pc = "await" /\ AttemptFailed /\ Dropped("hs") /\ UNCHANGED <<cli, left, client, server, losses, slow>>
  BY DEF AwaitFails
<1>2. Hs.state \in {"silent", "broken"}
  <2>1. ASSUME Hs.state = "good" PROVE Hs.peer # "gone" \/ Hs.down # << >>
    BY <1>1, <2>1 DEF IInv, Contents, HandshakeInv, Asks
  <2> QED BY <2>1 DEF AwaitFails, Failing, Hs
<1> QED BY <1>1, <1>2, AttemptOver

LEMMA AwaitKeeps ==
    ASSUME IInv, Await
    PROVE  IInv'
<1>1. pc = "await" /\ Has("hs", "ConnectResponse") /\ UNCHANGED <<cli, left, client, server, losses, slow>>
  BY DEF Await
<1> DEFINE accepted == (\E status \in {"NewClient", "ReturningClient"} : Says(First("hs"), status)) /\ keys # "short"
<1>2. Hs.state = "good" /\ {"NewClient", "ReturningClient"} \subseteq DOMAIN Statuses
  BY <1>1, HasHs, StatusNames
<1>3. CASE ~accepted
  <2>1. AttemptFailed /\ Dropped("hs")
    BY <1>3 DEF Await
  <2>2. Hs.peer # "request" /\ (serves => keys = "short")
    BY <1>1, <1>2, <1>3, Answers
  <2> QED BY <1>1, <2>1, <2>2, AttemptOver
<1>4. CASE accepted
  <2>1. conn' = Moved(conn["hs"]) /\ pc' = "payload" /\ UNCHANGED <<attempts, reason, late>>
    BY <1>4 DEF Await
  <2>2. ShapeInv' /\ Hs' = NoConn /\ Cur' = Conn("good", Hs.up, Tail(Hs.down), Hs.peer)
    BY <1>2, <2>1, MovedIs DEF IInv
  <2>3. Cur'.state = "good" /\ Cur'.up = Hs.up /\ Cur'.down = Tail(Hs.down) /\ Cur'.peer = Hs.peer
    BY <2>2, ConnFields
  <2>4. /\ rt = "none" /\ ~over /\ ~junk /\ Cur = NoConn /\ sent = 0 /\ received = 0 /\ queued = 0
        /\ got = 0 /\ answered = "no" /\ reason = "none" /\ pc \in Early
    BY <1>1 DEF IInv, BeforeInv, KindInv, NumbersInv, NamesInv, CountInv, Have, Early
  <2>5. /\ Hs.up = << >> /\ known
        /\ \/ Hs.peer \in {"packets", "gone"} /\ Tail(Hs.down) = << >>
           \/ Hs.peer \in {"sequence", "gone"} /\ Tail(Hs.down) = <<SequenceHeader(0)>>
    BY <1>1, <1>2, <1>4, <2>4, Answers
  <2>6. KindInv'
    BY <1>1, <2>1, <2>4 DEF IInv, KindInv, NamesInv, NumbersInv, FlagsInv, cli, client, server, Early
  <2>7. BeforeInv'
    BY <1>1, <2>1, <2>2, <2>3, <2>4, <2>5 DEF IInv, BeforeInv, client, server, Early, Handshaking, Running
  <2>8. CountInv'
    <3>1. 0 + 0 <= MaxCopies + losses
      BY Bounds DEF IInv, KindInv, NumbersInv
    <3> QED BY <1>1, <2>1, <2>3, <2>4, <3>1 DEF IInv, CountInv, client, server, Have, One
  <2>9. HandshakeInv' /\ CleanInv'
    BY <1>1, <2>2, <2>4, NoneIs DEF HandshakeInv, CleanInv, client
  <2>10. CurrentInv'
    <3>1. CASE Hs.peer \in {"packets", "gone"} /\ Tail(Hs.down) = << >>
      BY <1>1, <2>1, <2>3, <2>4, <2>5, <3>1 DEF CurrentInv, Streams, UpOk, DownOk, Have, client, server
    <3>2. CASE Hs.peer \in {"sequence", "gone"} /\ Tail(Hs.down) = <<SequenceHeader(0)>>
      <4>1. 0 \in 0 .. MostPackets
        BY MostIsNat
      <4> QED BY <1>1, <2>1, <2>3, <2>4, <2>5, <3>2, <4>1 DEF CurrentInv, Misled, client, server
    <3> QED BY <2>5, <3>1, <3>2
  <2>11. Tallies'
    <3>1. AtLarge = late /\ AtLarge' = late /\ late \in Nat /\ losses \in Nat
      BY <1>2, <2>1, <2>2, NoneIs DEF AtLarge, One, IInv, KindInv, NumbersInv
    <3>2. LateInv' /\ AttemptsInv' /\ SlowInv'
      BY <1>1, <2>1, <2>2, <2>3, <3>1, NoneIs DEF IInv, Tallies, LateInv, AttemptsInv, SlowInv
    <3>3. ASSUME serves, keys = "right" PROVE late + 2 <= 2 * losses \/ Hs.peer = "packets"
      <4>1. ~(Hs.state = "good" /\ Hs.peer = "packets") => late + 1 <= losses
        BY <1>1, <2>5, <3>1, <3>3 DEF IInv, Tallies, AttemptsInv
      <4> QED BY <1>2, <3>1, <4>1
    <3>4. Cost' = late /\ Waited' = 0
      <4>1. Waited' = 0 /\ HandshakeCost' = 0 /\ One(rt = "sleep")' = 0
        BY <1>1, <2>1, <2>2, <2>4, NoneIs DEF Waited, HandshakeCost, One, client
      <4> QED BY <2>1, <3>1, <4>1 DEF Cost
    <3>5. Hs.peer = "packets" => ~Doomed'
      BY <1>1, <2>3, <2>4 DEF Doomed, client
    <3>6. WaitInv'
      BY <1>1, <3>3, <3>4, <3>5 DEF WaitInv, server, cli
    <3> QED BY <3>2, <3>6 DEF Tallies
  <2>12. Outcomes'
    BY <2>1, <2>4 DEF Outcomes, FailsOnlyForCause, SessionStartsClean
  <2> QED BY <2>2, <2>6, <2>7, <2>8, <2>9, <2>10, <2>11, <2>12 DEF IInv, Contents
<1> QED BY <1>3, <1>4

\* What is on a handshake's connection stays right when the payload is kept, or
\* the main thread ends.
LEMMA HandshakeStays ==
    ASSUME HandshakeInv, Hs' = Hs, pc' # "await" \/ pc = "await", pc = "await" => pc' = "await",
           UNCHANGED <<rt, received, got, answered>>, known => known', serves' => serves,
           \A k \in 1 .. sent : Offered(k) => k \in 1 .. sent' /\ Offered(k)',
           Offered(got) => Offered(got)'
    PROVE  HandshakeInv'
<1> SUFFICES ASSUME Hs.state = "good" PROVE HandshakeInv'
  BY DEF HandshakeInv
<1>1. Have' = Have
  BY DEF Have
<1>2. Asks(Hs) => Asks(Hs)'
  BY DEF Asks
<1>3. Sequencing(Hs) => Sequencing(Hs)'
  BY <1>1 DEF Sequencing
<1>4. CatchingUp(Hs) => CatchingUp(Hs)'
  <2>1. ASSUME NEW a, NEW b, \E k \in 1 .. sent : Offered(k) /\ Hs.up = <<a, CatchupBuffer(b, k)>>
        PROVE  \E k \in 1 .. sent' : Offered(k)' /\ Hs.up = <<a, CatchupBuffer(b, k)>>
    <3>1. PICK k \in 1 .. sent : Offered(k) /\ Hs.up = <<a, CatchupBuffer(b, k)>>
      BY <2>1
    <3>2. k \in 1 .. sent' /\ Offered(k)'
      BY <3>1
    <3> QED BY <3>1, <3>2
  <2>2. ASSUME NEW b, \E k \in 1 .. sent : Offered(k) /\ Hs.up = <<CatchupBuffer(b, k)>>
        PROVE  \E k \in 1 .. sent' : Offered(k)' /\ Hs.up = <<CatchupBuffer(b, k)>>
    <3>1. PICK k \in 1 .. sent : Offered(k) /\ Hs.up = <<CatchupBuffer(b, k)>>
      BY <2>2
    <3>2. k \in 1 .. sent' /\ Offered(k)'
      BY <3>1
    <3> QED BY <3>1, <3>2
  <2>3. (\E k \in 1 .. sent : Offered(k) /\ Hs.up = <<SequenceHeader(received), CatchupBuffer(got + 1, k)>>)
        => \E k \in 1 .. sent' : Offered(k)' /\ Hs.up = <<SequenceHeader(received), CatchupBuffer(got + 1, k)>>
    BY <2>1
  <2>4. (\E k \in 1 .. sent : Offered(k) /\ Hs.up = <<CatchupBuffer(got + 1, k)>>)
        => \E k \in 1 .. sent' : Offered(k)' /\ Hs.up = <<CatchupBuffer(got + 1, k)>>
    BY <2>2
  <2>5. SUFFICES ASSUME CatchingUp(Hs) PROVE CatchingUp(Hs)'
    OBVIOUS
  <2>6. CASE /\ Hs.peer \in {"sequence", "gone"}
             /\ Hs.peer = "sequence" =>
                   \E k \in 1 .. sent : Offered(k) /\ Hs.up = <<SequenceHeader(received), CatchupBuffer(got + 1, k)>>
             /\ Hs.down = << >>
    BY <2>3, <2>6 DEF CatchingUp
  <2>7. CASE /\ Hs.peer \in {"catchup", "packets", "gone"}
             /\ Hs.peer = "catchup" => \E k \in 1 .. sent : Offered(k) /\ Hs.up = <<CatchupBuffer(got + 1, k)>>
             /\ Hs.peer = "packets" => Offered(got) /\ Hs.up = << >>
             /\ Hs.down = <<CatchupBuffer(received + 1, Have)>>
    BY <1>1, <2>4, <2>7 DEF CatchingUp
  <2>8. CASE /\ Hs.peer \in {"packets", "gone"}
             /\ Hs.peer = "packets" => Offered(got) /\ Hs.up = << >>
             /\ Hs.down = <<CatchupBuffer(1, 0), Frame(1)>>
             /\ received = 0 /\ answered # "no"
    BY <2>8 DEF CatchingUp
  <2> QED BY <2>5, <2>6, <2>7, <2>8 DEF CatchingUp
<1> QED BY <1>2, <1>3, <1>4 DEF HandshakeInv

\* And on the reader's and writer's, while nothing is read or written.
LEMMA CurrentStays ==
    ASSUME CurrentInv, CleanInv, Cur' = Cur,
           UNCHANGED <<sent, received, queued, got, answered, junk>>,
           pc' = pc \/ (pc = "response" /\ pc' \in {"session", "failed"})
    PROVE  CurrentInv' /\ CleanInv'
<1>1. Have' = Have
  BY DEF Have
<1>2. Misled(Cur) => Misled(Cur)'
  BY DEF Misled
<1>3. UpOk(Cur) => UpOk(Cur)'
  BY DEF UpOk, Offered
<1>4. Streams(Cur) => Streams(Cur)'
  BY <1>1, <1>3 DEF Streams, DownOk
<1>5. CleanInv'
  BY <1>3 DEF CleanInv
<1> QED BY <1>2, <1>4, <1>5 DEF CurrentInv

LEMMA OfferedStays ==
    ASSUME UNCHANGED <<sent, got>>, pc' # "payload" \/ pc = "payload"
    PROVE  /\ \A k \in 1 .. sent : Offered(k) => k \in 1 .. sent' /\ Offered(k)'
           /\ Offered(got) => Offered(got)'
BY DEF Offered

LEMMA TalliesLeft ==
    ASSUME IInv, pc' \notin {"connect", "await", "payload", "response"}, Hs' = Hs, UNCHANGED <<late, losses>>
    PROVE  Tallies'
BY DEF IInv, Tallies, LateInv, AtLarge, One, AttemptsInv, SlowInv, WaitInv, Running

LEMMA WriteRefusedKeeps ==
    ASSUME IInv, WriteRefused
    PROVE  IInv'
<1>1. /\ pc = "payload" /\ over /\ pc' = "failed" /\ reason' = "payload"
      /\ UNCHANGED <<cli, attempts, left, client, conn, server, net>>
  BY DEF WriteRefused, Fails
<1>2. rt = "none" /\ Cur = NoConn /\ Hs = NoConn /\ ~serves
  BY <1>1 DEF IInv, BeforeInv, CountInv, Handshaking
<1>3. ShapeInv' /\ Cur' = NoConn /\ Hs' = NoConn
  BY <1>1, <1>2, SameConns DEF IInv
<1>4. KindInv'
  BY <1>1 DEF IInv, KindInv, NamesInv, NumbersInv, FlagsInv, cli, client, server, net
<1>5. BeforeInv'
  BY <1>1, <1>2, <1>3 DEF IInv, BeforeInv, client, server, Early, Handshaking, Running
<1>6. CountInv'
  BY <1>1, <1>3 DEF IInv, CountInv, client, server, net, Have
<1>7. Contents'
  BY <1>3, IdleNext
<1>8. Tallies'
  BY <1>1, <1>2, <1>3, TalliesLeft DEF net
<1>9. Outcomes'
  BY <1>1, <1>2 DEF Outcomes, FailsOnlyForCause, SessionStartsClean, server
<1> QED BY <1>3, <1>4, <1>5, <1>6, <1>7, <1>8, <1>9 DEF IInv

LEMMA ResponseTimesOutKeeps ==
    ASSUME IInv, ResponseTimesOut
    PROVE  IInv'
<1>1. /\ pc = "response" /\ left = 0 /\ pc' = "failed" /\ reason' = "deadline"
      /\ UNCHANGED <<cli, attempts, left, client, conn, server, net>>
  BY DEF ResponseTimesOut, Fails
<1>2. ShapeInv' /\ Cur' = Cur /\ Hs' = Hs
  BY <1>1, SameConns DEF IInv
<1>3. KindInv'
  BY <1>1 DEF IInv, KindInv, NamesInv, NumbersInv, FlagsInv, cli, client, server, net
<1>4. BeforeInv'
  BY <1>1, <1>2 DEF IInv, BeforeInv, client, server, Early, Handshaking, Running
<1>5. CountInv'
  BY <1>1, <1>2 DEF IInv, CountInv, client, server, net, Have
<1>6. Contents'
  BY <1>1, <1>2, HandshakeStays, CurrentStays, OfferedStays DEF IInv, Contents, client, server
<1>7. Tallies'
  BY <1>1, <1>2, TalliesLeft DEF net
<1>8. serves /\ keys = "right" /\ ~slow => 2 * losses >= ResponseWait + 2
  <2>1. SUFFICES ASSUME serves, keys = "right", ~slow PROVE 2 * losses >= ResponseWait + 2
    OBVIOUS
  <2>2. Waited = ResponseWait
    BY <1>1, Bounds DEF Waited
  <2>3. Cost + 2 <= 2 * losses
    BY <1>1, <2>1, <2>2, Bounds DEF IInv, Tallies, WaitInv, Running
  <2>4. late \in Nat /\ HandshakeCost \in Nat /\ One(rt = "sleep") \in Nat /\ losses \in Nat
    BY DEF IInv, KindInv, NumbersInv, HandshakeCost, One
  <2> QED BY <2>2, <2>3, <2>4, Bounds DEF Cost
<1>9. Outcomes'
  BY <1>1, <1>8 DEF Outcomes, FailsOnlyForCause, SessionStartsClean, server, net, cli
<1> QED BY <1>2, <1>3, <1>4, <1>5, <1>6, <1>7, <1>9 DEF IInv

LEMMA CatchupFirst ==
    ASSUME NEW c, UpOk(c), c.peer = "catchup"
    PROVE  Head(c.up).type = "CatchupBuffer"
<1>1. PICK k \in 1 .. sent :
         c.up = <<CatchupBuffer(got + 1, k)>> \/ c.up = <<CatchupBuffer(got + 1, k), Frame(k + 1)>>
  BY DEF UpOk
<1>2. Head(c.up) = CatchupBuffer(got + 1, k)
  BY <1>1, Queues
<1> QED BY <1>2, Types

LEMMA CatchupFirstNext ==
    ASSUME UpOk(Cur)', Cur'.peer = "catchup"
    PROVE  Head(Cur'.up).type = "CatchupBuffer"
<1>1. PICK k \in 1 .. sent' :
         Cur'.up = <<CatchupBuffer(got' + 1, k)>> \/ Cur'.up = <<CatchupBuffer(got' + 1, k), Frame(k + 1)>>
  BY DEF UpOk
<1>2. Head(Cur'.up) = CatchupBuffer(got' + 1, k)
  BY <1>1, Queues
<1> QED BY <1>2, Types

LEMMA ReadQueuedKeeps ==
    ASSUME IInv, ReadQueued
    PROVE  IInv'
<1>1. /\ pc = "response" /\ queued > 0 /\ queued' = queued - 1 /\ Concludes
      /\ UNCHANGED <<cli, attempts, left, rt, over, sent, received, junk, conn, server, net>>
  BY DEF ReadQueued
<1>2. ShapeInv' /\ Cur' = Cur /\ Hs' = Hs
  BY <1>1, SameConns DEF IInv
<1>3. received = 1 /\ answered # "no" /\ got >= 1 /\ got <= sent /\ ~junk /\ reason = "none"
  BY <1>1 DEF IInv, BeforeInv, CountInv, KindInv, NumbersInv, NamesInv, Have, Running
<1>4. \/ answered = "ok" /\ pc' = "session" /\ reason' = "none"
      \/ answered = "error" /\ pc' = "failed" /\ reason' = "response"
  BY <1>1, <1>3 DEF Concludes, Fails, IInv, KindInv, NamesInv
<1>5. KindInv'
  BY <1>1, <1>4 DEF IInv, KindInv, NamesInv, NumbersInv, FlagsInv, cli, client, server, net
<1>6. BeforeInv'
  BY <1>1, <1>2, <1>4 DEF IInv, BeforeInv, server, Early, Handshaking, Running
<1>7. CountInv'
  BY <1>1, <1>2, <1>4 DEF IInv, CountInv, server, net, Have
<1>8. HandshakeInv'
  BY <1>1, <1>2, <1>4, HandshakeStays, OfferedStays DEF IInv, Contents, server
<1>9. CurrentInv' /\ CleanInv'
  <2>1. Cur.state = "good" => Streams(Cur)
    BY <1>3 DEF IInv, Contents, CurrentInv, Misled
  <2>2. Streams(Cur) => Streams(Cur)'
    BY <1>1, <1>2, <1>4 DEF Streams, UpOk, DownOk, Offered, Have, server
  <2>3. UpOk(Cur) => UpOk(Cur)'
    BY <1>1, <1>2, <1>4 DEF UpOk, Offered, server
  <2>4. CleanInv'
    BY <1>1, <1>2, <2>3 DEF IInv, Contents, CleanInv
  <2> QED BY <1>2, <2>1, <2>2, <2>4 DEF CurrentInv
<1>10. Tallies'
  BY <1>1, <1>2, <1>4, TalliesLeft DEF net
<1>11. Outcomes'
  <2>1. FailsOnlyForCause'
    BY <1>1, <1>4 DEF FailsOnlyForCause, server, net, cli
  <2>2. Cur.state # "none" =>
              \/ Cur.peer \in {"packets", "gone"}
              \/ Cur.peer = "catchup" /\ Head(Cur.up).type = "CatchupBuffer"
    BY <1>3, CatchupFirst DEF IInv, Contents, CleanInv
  <2>3. SessionStartsClean'
    BY <1>1, <1>3, <1>4, <2>2 DEF SessionStartsClean, Cur, server, IInv, KindInv, NumbersInv
  <2> QED BY <2>1, <2>3 DEF Outcomes
<1> QED BY <1>2, <1>5, <1>6, <1>7, <1>8, <1>9, <1>10, <1>11 DEF IInv, Contents

\* While there is a connection to read from, no handshake is under way.
LEMMA Alone ==
    ASSUME IInv, Cur.state # "none"
    PROVE  rt = "none" /\ Hs = NoConn /\ ~over /\ pc \notin Early
BY NoneIs DEF IInv, BeforeInv, Handshaking, Early

LEMMA ReadResponseKeeps ==
    ASSUME IInv, ReadResponse
    PROVE  IInv'
<1>1. /\ pc = "response" /\ queued = 0 /\ Has("cur", "frame") /\ ~junk
      /\ conn' = Taken("cur") /\ received' = received + 1 /\ Concludes
      /\ UNCHANGED <<cli, attempts, left, rt, over, sent, queued, junk, server, net>>
  BY DEF ReadResponse
<1>2. Cur.state = "good" /\ Cur.down # << >> /\ Head(Cur.down).type = "frame"
  BY <1>1, HasCur
<1>3. rt = "none" /\ Hs = NoConn /\ ~over /\ reason = "none"
  BY <1>1, <1>2, Alone DEF IInv, KindInv, NamesInv
<1>4. /\ Cur.down = <<Frame(1)>> /\ received = 0 /\ answered # "no" /\ Cur.peer \in {"packets", "gone"} /\ UpOk(Cur)
      /\ got >= 1 /\ got <= sent
  <2>1. ~Misled(Cur)
    <3>1. SUFFICES ASSUME NEW n, Cur.down = <<SequenceHeader(n)>> PROVE FALSE
      BY <1>2 DEF Misled
    <3>2. Head(Cur.down) = SequenceHeader(n)
      BY <3>1
    <3>3. Head(Cur.down).type = "SequenceHeader"
      BY <3>2, Types
    <3> QED BY <1>2, <3>3
  <2>2. Streams(Cur)
    BY <1>2, <2>1 DEF IInv, Contents, CurrentInv
  <2>3. /\ Cur.down = <<Frame(1)>> /\ received = 0 /\ answered # "no" /\ Cur.peer \in {"packets", "gone"}
        /\ UpOk(Cur)
    BY <1>2, <2>2 DEF Streams, DownOk
  <2> QED BY <2>3 DEF IInv, CountInv, KindInv, NumbersInv
<1>5. ShapeInv' /\ Hs' = NoConn /\ Cur' = Conn("good", Cur.up, << >>, Cur.peer)
  BY <1>1, <1>2, <1>3, <1>4, TakenIs DEF IInv
<1>6. Cur'.state = "good" /\ Cur'.up = Cur.up /\ Cur'.down = << >> /\ Cur'.peer = Cur.peer
  BY <1>5, ConnFields
<1>7. \/ answered = "ok" /\ pc' = "session" /\ reason' = "none"
      \/ answered = "error" /\ pc' = "failed" /\ reason' = "response"
  BY <1>1, <1>3, <1>4 DEF Concludes, Fails, IInv, KindInv, NamesInv
<1>8. KindInv'
  BY <1>1, <1>4, <1>7 DEF IInv, KindInv, NamesInv, NumbersInv, FlagsInv, cli, server, net
<1>9. BeforeInv'
  BY <1>1, <1>3, <1>5, <1>7 DEF IInv, BeforeInv, server, Early, Handshaking, Running
<1>10. CountInv'
  BY <1>1, <1>3, <1>4, <1>7 DEF IInv, CountInv, server, net, Have
<1>11. HandshakeInv'
  BY <1>5, NoneIs DEF HandshakeInv
<1>12. UpOk(Cur)'
  BY <1>1, <1>4, <1>6, <1>7 DEF UpOk, Offered, server
<1>13. CurrentInv' /\ CleanInv'
  BY <1>1, <1>4, <1>6, <1>12 DEF CurrentInv, CleanInv, Streams, DownOk, Have, server
<1>14. Tallies'
  BY <1>1, <1>3, <1>5, <1>7, TalliesLeft DEF net
<1>15. Outcomes'
  <2>1. FailsOnlyForCause'
    BY <1>1, <1>7 DEF FailsOnlyForCause, server, net, cli
  <2>2. SessionStartsClean'
    BY <1>1, <1>4, <1>6, <1>7 DEF SessionStartsClean, Cur, server, IInv, KindInv, NumbersInv
  <2> QED BY <2>1, <2>2 DEF Outcomes
<1> QED BY <1>5, <1>8, <1>9, <1>10, <1>11, <1>13, <1>14, <1>15 DEF IInv, Contents

LEMMA ReadJunkKeeps ==
    ASSUME IInv, ReadJunk
    PROVE  IInv'
<1>1. /\ pc = "response" /\ (Has("cur", "SequenceHeader") \/ (junk /\ Has("cur", "frame")))
      /\ conn' = Taken("cur") /\ junk' = TRUE
      /\ UNCHANGED <<cli, progress, rt, over, sent, received, queued, server, net>>
  BY DEF ReadJunk
<1>2. Cur.state = "good" /\ Cur.down # << >> /\ (junk \/ Head(Cur.down).type = "SequenceHeader")
  BY <1>1, HasCur
<1>3. rt = "none" /\ Hs = NoConn /\ ~over
  BY <1>2, Alone
<1>4. Misled(Cur) /\ Tail(Cur.down) = << >>
  <2>1. ~Streams(Cur)
    <3>1. Head(<<Frame(1)>>) = Frame(1) /\ Frame(1).type = "frame"
      BY Types
    <3> QED BY <1>2, <3>1 DEF Streams, DownOk
  <2>2. Misled(Cur)
    BY <1>2, <2>1 DEF IInv, Contents, CurrentInv
  <2>3. \E n : Cur.down = <<SequenceHeader(n)>>
    BY <1>2, <2>2 DEF Misled
  <2> QED BY <2>2, <2>3
<1>5. ShapeInv' /\ Hs' = NoConn /\ Cur' = Conn("good", Cur.up, << >>, Cur.peer)
  BY <1>1, <1>2, <1>3, <1>4, TakenIs DEF IInv
<1>6. Cur'.state = "good" /\ Cur'.up = Cur.up /\ Cur'.down = << >> /\ Cur'.peer = Cur.peer
  BY <1>5, ConnFields
<1>7. received = 0 /\ queued = 0 /\ (Cur.peer = "sequence" => Cur.up = <<Frame(sent)>>)
  BY <1>1, <1>4 DEF Misled
<1>8. KindInv'
  BY <1>1 DEF IInv, KindInv, NamesInv, NumbersInv, FlagsInv, cli, progress, server, net
<1>9. BeforeInv'
  BY <1>1, <1>3, <1>5, <1>6 DEF IInv, BeforeInv, progress, server, Early, Handshaking, Running
<1>10. CountInv'
  BY <1>1, <1>6, <1>7 DEF IInv, CountInv, progress, server, net, Have
<1>11. HandshakeInv'
  BY <1>5, NoneIs DEF HandshakeInv
<1>12. CleanInv'
  BY <1>1, <1>7 DEF CleanInv
<1>13. CurrentInv'
  BY <1>1, <1>4, <1>6, <1>7 DEF CurrentInv, Misled, progress
<1>14. Tallies'
  BY <1>1, <1>2, <1>3, <1>5, <1>6 DEF IInv, Tallies, LateInv, AtLarge, One, AttemptsInv, SlowInv, WaitInv, Running,
     progress, server, net, cli, Cost, Doomed, Waited, HandshakeCost
<1>15. Outcomes'
  BY <1>1 DEF IInv, KindInv, NamesInv, Outcomes, FailsOnlyForCause, SessionStartsClean, progress
<1> QED BY <1>5, <1>8, <1>9, <1>10, <1>11, <1>12, <1>13, <1>14, <1>15 DEF IInv, Contents

LEMMA ClosesKeeps ==
    ASSUME IInv, Running, Closes, Cur.state = "broken" \/ (Cur.state = "good" /\ Cur.peer = "gone"),
           UNCHANGED <<cli, progress, over, received, queued, junk, server, net>>,
           sent' = sent \/ (pc = "payload" /\ sent' = sent + 1), sent' >= 1,
           pc = "payload" => sent' <= MaxCopies + losses
    PROVE  IInv'
<1>1. rt = "none" /\ Hs = NoConn /\ ~over /\ rt' = "dial"
  BY Alone DEF Closes
<1>2. ShapeInv' /\ Cur' = NoConn /\ Hs' = NoConn
  BY <1>1, ClosedIs DEF IInv
<1>3. sent \in Nat /\ sent' \in Nat
  BY DEF IInv, KindInv, NumbersInv
<1>4. KindInv'
  <2>1. NumbersInv'
    BY <1>3 DEF IInv, KindInv, NumbersInv, progress, server, net
  <2>2. NamesInv' /\ FlagsInv'
    BY <1>1 DEF IInv, KindInv, NamesInv, FlagsInv, progress, server, net, cli
  <2> QED BY <2>1, <2>2 DEF KindInv
<1>5. BeforeInv'
  BY <1>1, <1>2 DEF IInv, BeforeInv, progress, server, Early, Handshaking, Running
<1>6. CountInv'
  <2>1. got <= sent'
    BY <1>3 DEF IInv, CountInv, KindInv, NumbersInv
  <2>2. sent' <= MaxCopies + losses + 1
    <3>1. MaxCopies + losses \in Nat
      BY Bounds DEF IInv, KindInv, NumbersInv
    <3> QED BY <1>3, <3>1 DEF IInv, CountInv
  <2>3. One(Cur'.state = "broken") = 0
    BY <1>2, NoneIs DEF One
  <2>4. pc' = "payload" => sent' + One(Cur'.state = "broken") <= MaxCopies + losses
    BY <1>3, <2>3 DEF progress
  <2> QED BY <2>1, <2>2, <2>4 DEF IInv, CountInv, progress, server, net, Have
<1>7. Contents'
  BY <1>2, IdleNext
<1>8. Tallies'
  <2>1. LateInv' /\ AttemptsInv' /\ SlowInv'
    BY <1>1, <1>2, NoneIs DEF IInv, Tallies, LateInv, AtLarge, AttemptsInv, SlowInv, progress, net, Running
  <2>2. ASSUME Running, serves, keys = "right", ~slow PROVE Cost + 2 <= 2 * losses
    BY <2>2 DEF IInv, Tallies, WaitInv, Doomed
  <2>3. Cost' = Cost
    BY <1>1, <1>2, NoneIs DEF Cost, Waited, HandshakeCost, One, progress, net
  <2>4. WaitInv'
    BY <2>2, <2>3 DEF WaitInv, Running, progress, net, server, cli
  <2> QED BY <2>1, <2>4 DEF Tallies
<1>9. Outcomes'
  BY DEF IInv, KindInv, NamesInv, Outcomes, FailsOnlyForCause, SessionStartsClean, progress, Running
<1> QED BY <1>2, <1>4, <1>5, <1>6, <1>7, <1>8, <1>9 DEF IInv

LEMMA ReadFailsKeeps ==
    ASSUME IInv, ReadFails
    PROVE  IInv'
<1>1. Running /\ pc # "payload"
  BY DEF ReadFails, Running
<1>2. sent >= 1
  BY DEF IInv, BeforeInv, ReadFails
<1> QED BY <1>1, <1>2, ClosesKeeps DEF ReadFails, Failing, Cur

LEMMA WriteFailsKeeps ==
    ASSUME IInv, WriteFails
    PROVE  IInv'
<1>1. Running /\ pc = "payload" /\ sent' = sent + 1 /\ Closes
      /\ UNCHANGED <<cli, progress, over, received, queued, junk, server, net>>
  BY DEF WriteFails, Running
<1>2. \/ Cur.state = "broken"
      \/ Cur.state = "good" /\ Cur.peer = "gone" /\ sent < MaxCopies
  BY DEF WriteFails, Cur
<1>3. sent \in Nat /\ losses \in Nat /\ sent + One(Cur.state = "broken") <= MaxCopies + losses
  BY <1>1 DEF IInv, KindInv, NumbersInv, CountInv
<1>4. sent' >= 1 /\ sent' <= MaxCopies + losses
  BY <1>1, <1>2, <1>3, Bounds DEF One
<1> QED BY <1>1, <1>2, <1>4, ClosesKeeps

LEMMA WritePayloadKeeps ==
    ASSUME IInv, WritePayload
    PROVE  IInv'
<1>1. /\ pc = "payload" /\ ~over /\ Cur.state # "broken" /\ sent' = sent + 1
      /\ pc' = "response" /\ left' = ResponseWait
      /\ UNCHANGED <<cli, reason, attempts, rt, over, received, queued, junk, server, net>>
  BY DEF WritePayload, Cur
<1>2. /\ sent \in Nat /\ got \in Nat /\ got <= sent /\ losses \in Nat /\ sent <= MaxCopies + losses
      /\ reason = "none"
  BY <1>1 DEF IInv, KindInv, NumbersInv, NamesInv, CountInv, One
<1>3. /\ ShapeInv' /\ Hs' = Hs
      /\ \/ Cur.state = "none" /\ Cur' = Cur
         \/ Cur.state # "none" /\ Cur' = Conn(Cur.state, Append(Cur.up, Frame(sent + 1)), Cur.down, Cur.peer)
  <2>1. CASE Cur.state = "none"
    <3>1. conn' = conn
      BY <2>1 DEF WritePayload, Cur
    <3> QED BY <2>1, <3>1, SameConns DEF IInv
  <2>2. CASE Cur.state # "none"
    <3>1. conn' = [conn EXCEPT !["cur"].up = Append(@, Frame(sent + 1))]
      BY <1>1, <2>2 DEF WritePayload, Cur
    <3> QED BY <2>2, <3>1, WrittenIs DEF IInv
  <2> QED BY <2>1, <2>2
<1>4. Cur'.state = Cur.state /\ Cur'.down = Cur.down /\ Cur'.peer = Cur.peer
      /\ (Cur.state # "none" => Cur'.up = Append(Cur.up, Frame(sent + 1)))
      /\ (Cur = NoConn => Cur' = NoConn)
  <2>1. \A x : LET c == Conn(Cur.state, x, Cur.down, Cur.peer)
               IN  c.state = Cur.state /\ c.down = Cur.down /\ c.peer = Cur.peer /\ c.up = x
    BY ConnFields
  <2> QED BY <1>3, <2>1, NoneIs
<1>5. KindInv'
  BY <1>1, <1>2, Bounds DEF IInv, KindInv, NamesInv, NumbersInv, FlagsInv, cli, server, net
<1>6. BeforeInv'
  BY <1>1, <1>2, <1>3, <1>4 DEF IInv, BeforeInv, server, Early, Handshaking, Running
<1>7. CountInv'
  BY <1>1, <1>2, Bounds DEF IInv, CountInv, server, net, Have
<1>8. HandshakeInv'
  <2>1. \A k \in 1 .. sent : Offered(k) => k \in 1 .. sent' /\ Offered(k)'
    BY <1>1, <1>2 DEF Offered, server
  <2>2. Offered(got) => Offered(got)'
    BY <1>1, <1>2 DEF Offered, server
  <2> QED BY <1>1, <1>3, <2>1, <2>2, HandshakeStays DEF IInv, Contents, server
<1>9. ASSUME Cur.state # "none", UpOk(Cur) PROVE UpOk(Cur)'
  <2>1. Cur'.up = Append(Cur.up, Frame(sent + 1))
    BY <1>4, <1>9
  <2>2. Cur.peer = "catchup" => 1 <= sent /\ Cur'.up = <<CatchupBuffer(got + 1, sent), Frame(sent + 1)>>
    <3>1. SUFFICES ASSUME Cur.peer = "catchup"
                   PROVE  1 <= sent /\ Cur'.up = <<CatchupBuffer(got + 1, sent), Frame(sent + 1)>>
      OBVIOUS
    <3>2. Cur.up = <<CatchupBuffer(got + 1, sent)>> /\ 1 <= sent
      BY <1>1, <1>9, <3>1 DEF UpOk, Offered
    <3> QED BY <2>1, <3>2, Queues
  <2>3. Cur.peer = "packets" => Cur'.up = <<Frame(got + 1)>> /\ got = sent
    BY <1>1, <1>9, <2>1, Queues DEF UpOk
  <2>4. Cur'.peer = "catchup" =>
          \E k \in 1 .. sent' : Offered(k)' /\ Cur'.up = <<CatchupBuffer(got + 1, k), Frame(k + 1)>> /\ k + 1 <= sent'
    BY <1>1, <1>2, <1>4, <2>2 DEF Offered, server
  <2>5. Cur'.peer = "packets" => Cur'.up = <<Frame(got + 1)>> /\ got + 1 <= sent'
    BY <1>1, <1>2, <1>4, <2>3
  <2> QED BY <1>1, <2>4, <2>5 DEF UpOk, server
<1>10. CurrentInv' /\ CleanInv'
  <2>1. ASSUME Cur.state # "none", Misled(Cur) PROVE Misled(Cur)'
    <3>1. Cur.peer = "sequence" => Cur'.up = <<Frame(sent')>>
      BY <1>1, <1>4, <2>1, Queues DEF Misled
    <3> QED BY <1>1, <1>4, <2>1, <3>1 DEF Misled
  <2>2. ASSUME Cur.state # "none", Streams(Cur) PROVE Streams(Cur)'
    BY <1>1, <1>4, <1>9, <2>2 DEF Streams, DownOk, Have, server
  <2> QED BY <1>1, <1>4, <1>9, <2>1, <2>2 DEF IInv, Contents, CurrentInv, CleanInv
<1>11. Tallies'
  BY <1>1, <1>2, <1>3, <1>4, Bounds DEF IInv, KindInv, NumbersInv, Tallies, LateInv, AtLarge, One, AttemptsInv,
     SlowInv, WaitInv, Running, server, net, cli, Cost, Doomed, Waited, HandshakeCost
<1>12. Outcomes'
  BY <1>1, <1>2 DEF Outcomes, FailsOnlyForCause, SessionStartsClean
<1> QED BY <1>3, <1>5, <1>6, <1>7, <1>8, <1>9, <1>10, <1>11, <1>12 DEF IInv, Contents

-----------------------------------------------------------------------------
(* The actions of the reconnect thread keep it. *)

LEMMA Recovering ==
    ASSUME IInv, Running, rt # "none"
    PROVE  /\ Cur = NoConn /\ sent >= 1 /\ known /\ ~over /\ pc \in {"payload", "response"}
           /\ reason = "none" /\ received = queued
BY DEF IInv, BeforeInv, KindInv, NamesInv, Running

\* A handshake that fails.
LEMMA RecoverOver ==
    ASSUME IInv, Running, rt \in Handshaking, Dropped("hs"),
           UNCHANGED <<cli, progress, sent, received, queued, junk, server, losses, slow>>,
           \/ rt' = "none" /\ over' = TRUE /\ ~serves
           \/ rt' = "sleep" /\ over' = over,
           Hs.peer = "request" => Hs.state \in {"silent", "broken"},
           serves /\ ~slow => Hs.state = "broken" \/ (Hs.state = "good" /\ Hs.peer = "gone")
    PROVE  IInv'
<1>1. /\ Cur = NoConn /\ sent >= 1 /\ known /\ ~over /\ pc \in {"payload", "response"}
      /\ reason = "none" /\ received = queued
  BY Recovering DEF Handshaking
<1>2. ShapeInv' /\ Cur' = NoConn /\ Hs' = NoConn /\ late' = late + One(Hs.peer = "request")
  BY <1>1, DroppedIs DEF IInv
<1>3. late \in Nat /\ late' \in Nat
  BY <1>2 DEF IInv, KindInv, NumbersInv, One
<1>4. KindInv'
  <2>1. NamesInv'
    BY <1>1 DEF IInv, KindInv, NamesInv, cli, progress, server
  <2>2. NumbersInv'
    BY <1>3 DEF IInv, KindInv, NumbersInv, progress, server
  <2>3. FlagsInv'
    BY DEF IInv, KindInv, FlagsInv, server
  <2> QED BY <2>1, <2>2, <2>3 DEF KindInv
<1>5. BeforeInv'
  BY <1>1, <1>2 DEF IInv, BeforeInv, progress, server, Early, Handshaking, Running
<1>6. CountInv'
  BY <1>1, <1>2 DEF IInv, CountInv, progress, server, Have
<1>7. Contents'
  BY <1>2, IdleNext
<1>8. Tallies'
  <2>1. late' = AtLarge /\ AtLarge' = late'
    BY <1>2, <1>3, NoneIs DEF AtLarge, One
  <2>2. LateInv' /\ AttemptsInv' /\ SlowInv'
    BY <1>1, <1>2, <2>1, NoneIs DEF IInv, Tallies, LateInv, AttemptsInv, SlowInv, progress
  <2>3. WaitInv'
    <3>1. SUFFICES ASSUME serves, keys = "right", ~slow PROVE Cost' + 2 <= 2 * losses
      BY DEF WaitInv, server, cli
    <3>2. Cost + 2 <= 2 * losses
      BY <3>1 DEF IInv, Tallies, WaitInv, Doomed, Handshaking
    <3>3. Waited \in Int /\ Waited' = Waited
      BY Bounds DEF Waited, progress, IInv, KindInv, NumbersInv
    <3>4. Cost = Waited + late + HandshakeCost
      BY <1>3, <3>3 DEF Cost, One, HandshakeCost, Handshaking
    <3>5. HandshakeCost = One(Hs.peer = "request") + 1
      BY <3>1 DEF HandshakeCost, One
    <3>6. HandshakeCost' = 0 /\ One(rt = "sleep")' = 1
      BY <1>2, <3>1, NoneIs DEF HandshakeCost, One
    <3>7. Cost' = Waited + 1 + late'
      BY <1>3, <3>3, <3>6 DEF Cost
    <3> QED BY <1>2, <1>3, <3>2, <3>3, <3>4, <3>5, <3>7 DEF One
  <2> QED BY <2>2, <2>3 DEF Tallies
<1>9. Outcomes'
  BY <1>1 DEF Outcomes, FailsOnlyForCause, SessionStartsClean, progress
<1> QED BY <1>2, <1>4, <1>5, <1>6, <1>7, <1>8, <1>9 DEF IInv

LEMMA RecoverFailsKeeps ==
    ASSUME IInv, RecoverFails
    PROVE  IInv'
<1>1. /\ Running /\ rt \in Handshaking /\ Dropped("hs") /\ rt' = "sleep"
      /\ UNCHANGED <<cli, progress, over, sent, received, queued, junk, server, losses, slow>>
  BY DEF RecoverFails, Handshaking
<1>2. Hs.state \in {"broken", "silent"} \/ (Hs.state = "good" /\ Hs.peer = "gone")
  BY DEF RecoverFails, Failing, Hs
<1>3. Hs.state = "silent" => slow
  BY <1>1 DEF IInv, Tallies, SlowInv
<1> QED BY <1>1, <1>2, <1>3, RecoverOver

LEMMA RecoverDialKeeps ==
    ASSUME IInv, RecoverDial
    PROVE  IInv'
<1>1. Running /\ rt = "dial" /\ UNCHANGED <<cli, progress, over, sent, received, queued, junk, server, late, slow>>
  BY DEF RecoverDial
<1>2. /\ Cur = NoConn /\ sent >= 1 /\ known /\ ~over /\ pc \in {"payload", "response"}
      /\ reason = "none" /\ received = queued
  BY <1>1, Recovering
<1>3. Hs = NoConn
  BY <1>1, <1>2 DEF IInv, BeforeInv, Handshaking
<1>4. late \in Nat /\ losses \in Nat /\ Waited \in Int /\ sent \in Nat
  BY Bounds DEF Waited, IInv, KindInv, NumbersInv
<1>5. serves /\ keys = "right" /\ ~slow => Waited + late + 2 <= 2 * losses
  BY <1>1, <1>3, <1>4, NoneIs DEF IInv, Tallies, WaitInv, Doomed, Cost, One, HandshakeCost
<1>6. Outcomes'
  BY <1>1, <1>2 DEF Outcomes, FailsOnlyForCause, SessionStartsClean, progress
<1>7. CASE Dials /\ rt' = "response" /\ UNCHANGED losses
  <2>1. ShapeInv' /\ Cur' = NoConn /\ Hs' = Conn("good", <<Request>>, << >>, "request")
    BY <1>2, <1>3, <1>7, DialsIs DEF IInv
  <2>2. Hs'.state = "good" /\ Hs'.peer = "request" /\ Hs'.up = <<Request>> /\ Hs'.down = << >>
    BY <2>1, ConnFields
  <2>3. KindInv'
    BY <1>1, <1>7 DEF IInv, KindInv, NamesInv, NumbersInv, FlagsInv, cli, progress, server, Handshaking
  <2>4. BeforeInv'
    BY <1>1, <1>2, <1>7, <2>1, <2>2 DEF IInv, BeforeInv, progress, server, Early, Handshaking, Running
  <2>5. CountInv'
    BY <1>1, <1>2, <1>7, <2>1 DEF IInv, CountInv, progress, server, Have
  <2>6. Contents'
    BY <1>1, <1>2, <1>7, <2>1, <2>2, NoneIs DEF Contents, HandshakeInv, CurrentInv, CleanInv, Asks, progress
  <2>7. LateInv' /\ AttemptsInv' /\ SlowInv'
    BY <1>1, <1>2, <1>3, <1>7, <2>1, <2>2, NoneIs DEF IInv, Tallies, LateInv, AtLarge, One, AttemptsInv, SlowInv, progress
  <2>8. WaitInv'
    <3>1. Cost' = Waited + late
      BY <1>1, <1>4, <1>7, <2>2 DEF Cost, Waited, One, HandshakeCost, progress
    <3> QED BY <1>1, <1>5, <1>7, <3>1 DEF WaitInv, server, cli
  <2> QED BY <1>6, <2>1, <2>3, <2>4, <2>5, <2>6, <2>7, <2>8 DEF IInv, Tallies
<1>8. CASE NoRoute /\ rt' = "sleep" /\ UNCHANGED conn
  <2>1. ShapeInv' /\ Cur' = NoConn /\ Hs' = NoConn
    BY <1>2, <1>3, <1>8, SameConns DEF IInv
  <2>2. losses' = losses + 1 /\ losses < MaxLosses
    BY <1>8 DEF NoRoute
  <2>3. KindInv'
    <3>1. NumbersInv'
      BY <1>1, <2>2, Bounds DEF IInv, KindInv, NumbersInv, progress, server
    <3>2. NamesInv' /\ FlagsInv'
      BY <1>1, <1>8 DEF IInv, KindInv, NamesInv, FlagsInv, cli, progress, server
    <3> QED BY <3>1, <3>2 DEF KindInv
  <2>4. BeforeInv'
    BY <1>1, <1>2, <1>8, <2>1 DEF IInv, BeforeInv, progress, server, Early, Handshaking, Running
  <2>5. CountInv'
    <3>1. sent <= MaxCopies + losses' + 1 /\ (pc = "payload" => sent + 0 <= MaxCopies + losses')
      BY <1>2, <1>4, <2>2, Bounds, NoneIs DEF IInv, CountInv, One
    <3>2. One(Cur'.state = "broken") = 0
      BY <2>1, NoneIs DEF One
    <3> QED BY <1>1, <1>2, <3>1, <3>2 DEF IInv, CountInv, progress, server, Have
  <2>6. Contents'
    BY <2>1, IdleNext
  <2>7. LateInv' /\ AttemptsInv' /\ SlowInv'
    BY <1>1, <1>2, <1>3, <1>4, <2>1, <2>2, NoneIs DEF IInv, Tallies, LateInv, AtLarge, One, AttemptsInv, SlowInv, progress
  <2>8. WaitInv'
    <3>1. Cost' = Waited + 1 + late
      BY <1>1, <1>4, <1>8, <2>1, NoneIs DEF Cost, Waited, One, HandshakeCost, progress
    <3> QED BY <1>1, <1>4, <1>5, <2>2, <3>1 DEF WaitInv, server, cli
  <2> QED BY <1>6, <2>1, <2>3, <2>4, <2>5, <2>6, <2>7, <2>8 DEF IInv, Tallies
<1> QED BY <1>7, <1>8 DEF RecoverDial

\* A handshake that goes on.
LEMMA RecoverOn ==
    ASSUME IInv, Running, rt \in Handshaking, rt' \in Handshaking,
           ShapeInv', Cur' = Cur, Hs.state = "good", Hs'.state = "good", Hs'.peer = Hs.peer,
           HandshakeInv',
           UNCHANGED <<cli, progress, over, sent, received, queued, junk, server, late, losses, slow>>
    PROVE  IInv'
<1>1. /\ Cur = NoConn /\ sent >= 1 /\ known /\ ~over /\ pc \in {"payload", "response"}
      /\ reason = "none" /\ received = queued
  BY Recovering DEF Handshaking
<1>2. KindInv'
  BY DEF IInv, KindInv, NamesInv, NumbersInv, FlagsInv, cli, progress, server
<1>3. BeforeInv'
  BY <1>1 DEF IInv, BeforeInv, progress, server, Early, Handshaking, Running
<1>4. CountInv'
  BY DEF IInv, CountInv, progress, server, Have
<1>5. CurrentInv' /\ CleanInv'
  BY <1>1, NoneIs DEF CurrentInv, CleanInv
<1>6. LateInv' /\ AttemptsInv' /\ SlowInv'
  BY <1>1, NoneIs DEF IInv, Tallies, LateInv, AttemptsInv, SlowInv, AtLarge, One, progress
<1>7. WaitInv'
  <2>1. Cost' = Cost
    BY DEF Cost, Waited, HandshakeCost, One, progress, Handshaking
  <2>2. Doomed
    BY DEF Doomed, Handshaking
  <2> QED BY <2>1, <2>2 DEF IInv, Tallies, WaitInv, progress, server, cli
<1>8. Outcomes'
  BY <1>1 DEF Outcomes, FailsOnlyForCause, SessionStartsClean, progress
<1> QED BY <1>2, <1>3, <1>4, <1>5, <1>6, <1>7, <1>8 DEF IInv, Contents, Tallies

LEMMA RecoverResponseKeeps ==
    ASSUME IInv, RecoverResponse
    PROVE  IInv'
<1>1. Running /\ rt = "response" /\ Has("hs", "ConnectResponse")
      /\ UNCHANGED <<cli, progress, sent, received, queued, junk, server, losses, slow>>
  BY DEF RecoverResponse
<1>2. {"ReturningClient", "InvalidKey", "NewClient"} \subseteq DOMAIN Statuses /\ pc # "await"
  BY <1>1, StatusNames DEF Running
<1>3. Hs.state = "good"
  BY <1>1, HasHs
<1>4. CASE Says(First("hs"), "ReturningClient")
  <2>1. /\ Hs.peer \in {"sequence", "gone"} /\ Hs.up = << >> /\ Tail(Hs.down) = <<SequenceHeader(got)>>
        /\ ~Says(First("hs"), "InvalidKey")
    BY <1>1, <1>2, <1>4, Answers
  <2>2. /\ rt' = "sequence" /\ UNCHANGED <<over, late>>
        /\ conn' = [Taken("hs") EXCEPT !["hs"].up = Append(@, SequenceHeader(received))]
    <3>1. rt' = "sequence" /\ UNCHANGED <<over, late>>
      BY <1>4, <2>1 DEF RecoverResponse
    <3>2. conn' = [Taken("hs") EXCEPT !["hs"].up = Append(@, SequenceHeader(received))]
      BY <1>4, <2>1 DEF RecoverResponse
    <3> QED BY <3>1, <3>2
  <2>3. ShapeInv' /\ Cur' = Cur
        /\ Hs' = Conn(Hs.state, Append(Hs.up, SequenceHeader(received)), Tail(Hs.down), Hs.peer)
    BY <2>2, TakesIs DEF IInv
  <2>4. /\ Hs'.state = "good" /\ Hs'.peer = Hs.peer /\ Hs'.down = <<SequenceHeader(got)>>
        /\ Hs'.up = <<SequenceHeader(received)>>
    <3>1. \A x, y : LET c == Conn(Hs.state, x, y, Hs.peer)
                    IN  c.state = Hs.state /\ c.up = x /\ c.down = y /\ c.peer = Hs.peer
      BY ConnFields
    <3>2. Append(Hs.up, SequenceHeader(received)) = <<SequenceHeader(received)>>
      BY <2>1, Queues
    <3> QED BY <1>3, <2>1, <2>3, <3>1, <3>2
  <2>5. HandshakeInv'
    BY <1>1, <1>2, <2>1, <2>2, <2>4 DEF HandshakeInv, Sequencing, server, progress
  <2> QED BY <1>1, <1>3, <2>2, <2>3, <2>4, <2>5, RecoverOn DEF Handshaking
<1>5. CASE ~Says(First("hs"), "ReturningClient")
  <2>1. Hs.peer = "gone" /\ ~serves
    BY <1>1, <1>2, <1>5, Answers
  <2>2. /\ Dropped("hs")
        /\ \/ rt' = "none" /\ over' = TRUE
           \/ rt' = "sleep" /\ over' = over
    BY <1>5 DEF RecoverResponse
  <2> QED BY <1>1, <2>1, <2>2, RecoverOver DEF Handshaking
<1> QED BY <1>4, <1>5

LEMMA Header ==
    ASSUME NEW n, NEW q
    PROVE  q = <<SequenceHeader(n)>> => Head(q) = SequenceHeader(n) /\ Tail(q) = << >>
OBVIOUS

LEMMA SentBound ==
    ASSUME IInv
    PROVE  sent \in 0 .. MostPackets /\ got \in 0 .. MostPackets /\ got <= sent
<1>1. /\ sent \in Nat /\ got \in Nat /\ got <= sent /\ sent <= MaxCopies + losses + 1
      /\ losses \in 0 .. MaxLosses
  BY DEF IInv, CountInv, KindInv, NumbersInv
<1> QED BY <1>1, Bounds DEF MostPackets

LEMMA RecoverSequenceKeeps ==
    ASSUME IInv, RecoverSequence
    PROVE  IInv'
<1>1. /\ Running /\ rt = "sequence" /\ Has("hs", "SequenceHeader") /\ rt' = "catchup"
      /\ conn' = [Taken("hs") EXCEPT !["hs"].up = Append(@, CatchupBuffer(Meant[First("hs")][1][1] + 1, sent))]
      /\ UNCHANGED <<cli, progress, over, sent, received, queued, junk, server, net>>
  BY DEF RecoverSequence
<1>2. Hs.state = "good" /\ First("hs") = Head(Hs.down)
  BY <1>1, HasHs
<1>3. Sequencing(Hs)
  BY <1>1, <1>2 DEF IInv, Contents, HandshakeInv
<1>4. First("hs") = SequenceHeader(got)
  BY <1>2, <1>3, Queues DEF Sequencing
<1>5. Meant[First("hs")][1][1] = got
  BY <1>4, SentBound, HeaderRead
<1>6. ShapeInv' /\ Cur' = Cur
      /\ Hs' = Conn(Hs.state, Append(Hs.up, CatchupBuffer(got + 1, sent)), Tail(Hs.down), Hs.peer)
  BY <1>1, <1>5, TakesIs DEF IInv
<1>7. /\ Hs'.state = "good" /\ Hs'.peer = Hs.peer /\ Hs'.down = Tail(Hs.down)
      /\ Hs'.up = Append(Hs.up, CatchupBuffer(got + 1, sent))
  <2>1. \A x, y : LET c == Conn(Hs.state, x, y, Hs.peer)
                  IN  c.state = Hs.state /\ c.up = x /\ c.down = y /\ c.peer = Hs.peer
    BY ConnFields
  <2> QED BY <1>2, <1>6, <2>1
<1>8. sent' = sent /\ got' = got /\ sent \in 1 .. sent' /\ got <= sent
  <2>1. sent >= 1 /\ sent \in Nat /\ got <= sent
    BY <1>1, Recovering, SentBound DEF IInv, KindInv, NumbersInv
  <2> QED BY <1>1, <2>1 DEF server
<1>9. CatchingUp(Hs)'
  <2>1. CASE /\ Hs.peer \in {"sequence", "gone"}
             /\ Hs.peer = "sequence" => Hs.up = <<SequenceHeader(received)>>
             /\ Hs.down = <<SequenceHeader(got)>>
    <3>1. Hs'.down = << >>
      BY <1>7, <2>1, Header
    <3>2. Hs.peer = "sequence" => Hs'.up = <<SequenceHeader(received), CatchupBuffer(got + 1, sent)>>
      BY <1>7, <2>1, Queues
    <3>3. Hs.peer = "sequence" =>
             \E k \in 1 .. sent' : Offered(k)' /\ Hs'.up = <<SequenceHeader(received), CatchupBuffer(got + 1, k)>>
      BY <1>1, <1>8, <3>2 DEF Offered, server, progress
    <3> QED BY <1>1, <1>7, <2>1, <3>1, <3>3 DEF CatchingUp, server
  <2>2. CASE /\ Hs.peer \in {"catchup", "gone"}
             /\ Hs.peer = "catchup" => Hs.up = << >>
             /\ Hs.down = <<SequenceHeader(got), CatchupBuffer(received + 1, Have)>>
    <3>1. Hs'.down = <<CatchupBuffer(received + 1, Have)>>
      BY <1>7, <2>2, Queues
    <3>2. Hs.peer = "catchup" => Hs'.up = <<CatchupBuffer(got + 1, sent)>>
      BY <1>7, <2>2, Queues
    <3>3. Hs.peer = "catchup" => \E k \in 1 .. sent' : Offered(k)' /\ Hs'.up = <<CatchupBuffer(got + 1, k)>>
      BY <1>1, <1>8, <3>2 DEF Offered, server, progress
    <3> QED BY <1>1, <1>7, <2>2, <3>1, <3>3 DEF CatchingUp, server, Have
  <2> QED BY <1>3, <2>1, <2>2 DEF Sequencing
<1>10. HandshakeInv'
  BY <1>1, <1>9 DEF HandshakeInv, progress, Running
<1> QED BY <1>1, <1>2, <1>6, <1>7, <1>10, RecoverOn DEF Handshaking, net

LEMMA RecoverCatchupKeeps ==
    ASSUME IInv, RecoverCatchup
    PROVE  IInv'
<1> DEFINE caught == Len(Meant[First("hs")][1])
<1>1. /\ Running /\ rt = "catchup" /\ Has("hs", "CatchupBuffer")
      /\ received' = received + caught /\ queued' = queued + caught
      /\ junk' = FALSE /\ conn' = Moved(conn["hs"]) /\ rt' = "none"
      /\ UNCHANGED <<cli, progress, over, sent, server, net>>
  BY DEF RecoverCatchup
<1> HIDE DEF caught
<1>2. Hs.state = "good" /\ First("hs") = Head(Hs.down) /\ Hs.down # << >>
  BY <1>1, HasHs
<1>3. CatchingUp(Hs)
  BY <1>1, <1>2 DEF IInv, Contents, HandshakeInv
<1>4. /\ Cur = NoConn /\ sent >= 1 /\ known /\ ~over /\ pc \in {"payload", "response"}
      /\ reason = "none" /\ received = queued
  BY <1>1, Recovering
<1>5. received \in Nat /\ received <= Have /\ Have \in {0, 1} /\ got \in Nat
  BY DEF IInv, KindInv, NumbersInv, CountInv, Have
<1>6. ShapeInv' /\ Hs' = NoConn /\ Cur' = Conn("good", Hs.up, Tail(Hs.down), Hs.peer)
  BY <1>1, <1>2, MovedIs DEF IInv
<1>7. Cur'.state = "good" /\ Cur'.up = Hs.up /\ Cur'.down = Tail(Hs.down) /\ Cur'.peer = Hs.peer
  BY <1>6, ConnFields
<1>8. /\ Hs.peer \in {"catchup", "packets", "gone"} /\ UpOk(Cur)'
      /\ \/ Hs.down = <<CatchupBuffer(received + 1, Have)>>
         \/ /\ Hs.down = <<CatchupBuffer(1, 0), Frame(1)>> /\ Hs.peer # "catchup"
            /\ received = 0 /\ answered # "no"
  <2>1. CASE /\ Hs.peer \in {"catchup", "packets", "gone"}
             /\ Hs.peer = "catchup" => \E k \in 1 .. sent : Offered(k) /\ Hs.up = <<CatchupBuffer(got + 1, k)>>
             /\ Hs.peer = "packets" => Offered(got) /\ Hs.up = << >>
             /\ Hs.down = <<CatchupBuffer(received + 1, Have)>>
    <3>1. Hs.peer = "catchup" => \E k \in 1 .. sent' : Offered(k)' /\ Cur'.up = <<CatchupBuffer(got + 1, k)>>
      BY <1>1, <1>7, <2>1 DEF Offered, progress, server
    <3>2. Hs.peer = "packets" => Cur'.up = << >> /\ 1 <= got /\ (pc = "payload" => got = sent)
      BY <1>7, <2>1 DEF Offered
    <3>3. UpOk(Cur)'
      BY <1>1, <1>7, <3>1, <3>2 DEF UpOk, progress, server
    <3> QED BY <2>1, <3>3
  <2>2. CASE /\ Hs.peer \in {"packets", "gone"}
             /\ Hs.peer = "packets" => Offered(got) /\ Hs.up = << >>
             /\ Hs.down = <<CatchupBuffer(1, 0), Frame(1)>>
             /\ received = 0 /\ answered # "no"
    <3>1. UpOk(Cur)'
      BY <1>1, <1>5, <1>7, <2>2 DEF UpOk, Offered, progress, server
    <3> QED BY <2>2, <3>1
  <2> QED BY <1>2, <1>3, <2>1, <2>2 DEF CatchingUp
<1>9. /\ received' \in Nat /\ queued' = received' /\ received' <= Have
      /\ DownOk(Cur)'
  <2>1. CASE Hs.down = <<CatchupBuffer(received + 1, Have)>>
    <3>1. First("hs") = CatchupBuffer(received + 1, Have) /\ Tail(Hs.down) = << >>
      BY <1>2, <2>1, Queues
    <3>2. received + 1 \in 1 .. MostPackets + 1 /\ Have \in 0 .. MostPackets /\ received + 1 <= Have + 1
      BY <1>5, MostIsNat
    <3>3. caught = Have - (received + 1) + 1
      BY <3>1, <3>2, CatchupRead DEF caught
    <3>4. received' = Have /\ queued' = Have
      BY <1>1, <1>4, <1>5, <3>3
    <3> QED BY <1>1, <1>5, <1>7, <3>1, <3>4 DEF DownOk, Have, server
  <2>2. CASE /\ Hs.down = <<CatchupBuffer(1, 0), Frame(1)>> /\ Hs.peer # "catchup"
             /\ received = 0 /\ answered # "no"
    <3>1. First("hs") = CatchupBuffer(1, 0) /\ Tail(Hs.down) = <<Frame(1)>>
      BY <1>2, <2>2, Queues
    <3>2. 1 \in 1 .. MostPackets + 1 /\ 0 \in 0 .. MostPackets /\ 1 <= 0 + 1
      BY MostIsNat
    <3>3. caught = 0
      BY <3>1, <3>2, CatchupRead DEF caught
    <3>4. received' = 0 /\ queued' = 0
      BY <1>1, <1>4, <2>2, <3>3
    <3> QED BY <1>1, <1>5, <1>7, <2>2, <3>1, <3>4 DEF DownOk, server
  <2> QED BY <1>8, <2>1, <2>2
<1>10. KindInv'
  <2>1. NumbersInv'
    BY <1>1, <1>9 DEF IInv, KindInv, NumbersInv, progress, server, net
  <2>2. NamesInv'
    BY <1>1 DEF IInv, KindInv, NamesInv, cli, progress, server
  <2>3. FlagsInv'
    BY <1>1 DEF IInv, KindInv, FlagsInv, server, net
  <2> QED BY <2>1, <2>2, <2>3 DEF KindInv
<1>11. BeforeInv'
  BY <1>1, <1>4, <1>6, <1>7, <1>9 DEF IInv, BeforeInv, progress, server, Early, Handshaking, Running
<1>12. CountInv'
  BY <1>1, <1>4, <1>7, <1>9, NoneIs DEF IInv, CountInv, progress, server, net, Have, One
<1>13. Contents'
  <2>1. HandshakeInv'
    BY <1>6, NoneIs DEF HandshakeInv
  <2>2. CurrentInv' /\ CleanInv'
    BY <1>1, <1>7, <1>8, <1>9 DEF CurrentInv, CleanInv, Streams
  <2> QED BY <2>1, <2>2 DEF Contents
<1>14. Tallies'
  <2>1. LateInv' /\ AttemptsInv' /\ SlowInv'
    BY <1>1, <1>2, <1>4, <1>6, <1>7, NoneIs DEF IInv, Tallies, LateInv, AtLarge, One, AttemptsInv, SlowInv, progress, net
  <2>2. late \in Nat /\ losses \in Nat /\ Waited \in Int
    BY Bounds DEF Waited, IInv, KindInv, NumbersInv
  <2>3. HandshakeCost \in Nat
    BY DEF HandshakeCost, One
  <2>4. Cost = Waited + late + HandshakeCost
    BY <1>1, <2>2, <2>3 DEF Cost, One
  <2>5. Cost' = Waited + late
    BY <1>1, <1>6, <2>2, NoneIs DEF Cost, Waited, One, HandshakeCost, progress, net
  <2>6. WaitInv'
    BY <1>1, <2>2, <2>3, <2>4, <2>5 DEF IInv, Tallies, WaitInv, Doomed, progress, net, server, cli, Running
  <2> QED BY <2>1, <2>6 DEF Tallies
<1>15. Outcomes'
  BY <1>1, <1>4 DEF Outcomes, FailsOnlyForCause, SessionStartsClean, progress
<1> QED BY <1>6, <1>10, <1>11, <1>12, <1>13, <1>14, <1>15 DEF IInv

-----------------------------------------------------------------------------
(* The server, the network and the clock keep it. *)

\* Of what the server does on a connection, all but its content.
LEMMA ServedKeeps ==
    ASSUME IInv, UNCHANGED <<cli, progress, client, net>>, serves' = serves,
           known => known', known' \in BOOLEAN, known' => pc \notin {"start", "ping", "ssh"},
           got' \in Nat, got' <= sent, answered' \in {"no", "ok", "error"}, answered' = "no" <=> got' = 0,
           answered # "no" => answered' = answered,
           Cur'.state = Cur.state, Cur = NoConn => Cur' = NoConn,
           Hs'.state = Hs.state, Hs = NoConn => Hs' = NoConn,
           ShapeInv', Contents', Tallies'
    PROVE  IInv'
<1>1. KindInv'
  <2>1. NumbersInv'
    BY DEF IInv, KindInv, NumbersInv, progress, client, net
  <2>2. NamesInv'
    BY DEF IInv, KindInv, NamesInv, cli, progress, client, net
  <2>3. FlagsInv'
    BY DEF IInv, KindInv, FlagsInv, client, net
  <2> QED BY <2>1, <2>2, <2>3 DEF KindInv
<1>2. BeforeInv'
  BY DEF IInv, BeforeInv, progress, client, net, Early, Running
<1>3. CountInv'
  <2>1. Have' >= Have /\ received <= Have'
    BY DEF Have, IInv, CountInv, KindInv, NumbersInv
  <2> QED BY <2>1 DEF IInv, CountInv, progress, client, net
<1>4. FailsOnlyForCause'
  BY DEF IInv, Outcomes, FailsOnlyForCause, cli, progress, net
<1>5. SessionStartsClean'
  <2>1. SUFFICES ASSUME pc = "session" PROVE SessionStartsClean'
    BY DEF SessionStartsClean, progress
  <2>2. got >= 1 /\ answered = "ok" /\ received = 1 /\ ~junk /\ sent \in Nat
    BY <2>1 DEF IInv, Outcomes, SessionStartsClean, KindInv, NumbersInv
  <2>3. got' \in 1 .. sent /\ answered' = "ok"
    BY <2>2
  <2>4. Cur'.state # "none" =>
          \/ Cur'.peer \in {"packets", "gone"}
          \/ Cur'.peer = "catchup" /\ UpOk(Cur)'
    BY <2>2 DEF Contents, CleanInv, client
  <2>5. Cur'.peer = "catchup" /\ UpOk(Cur)' => Head(Cur'.up).type = "CatchupBuffer"
    BY CatchupFirstNext
  <2> QED BY <2>2, <2>3, <2>4, <2>5 DEF SessionStartsClean, client, Cur
<1> QED BY <1>1, <1>2, <1>3, <1>4, <1>5 DEF IInv, Outcomes

LEMMA ServedHs ==
    ASSUME IInv, Hs.state = "good", UNCHANGED <<cli, progress, client, net>>, serves' = serves,
           known => known', known' \in BOOLEAN,
           got' \in Nat, got' <= sent, answered' \in {"no", "ok", "error"}, answered' = "no" <=> got' = 0,
           answered # "no" => answered' = answered,
           ShapeInv', Cur' = Cur, Hs'.state = "good", HandshakeInv',
           pc = "await" => (known' /\ Hs'.peer # "packets" => known /\ Hs.peer # "packets"),
           serves /\ keys = "right" => Hs'.peer # "gone"
    PROVE  IInv'
<1>1. Hs # NoConn /\ (pc = "await" \/ rt \in Handshaking) /\ Cur = NoConn /\ pc \notin {"start", "ping", "ssh", "connect"}
  BY NoneIs DEF IInv, BeforeInv, Early, Handshaking
<1>2. Contents'
  BY <1>1, NoneIs DEF Contents, CurrentInv, CleanInv
<1>3. Tallies'
  <2>1. LateInv' /\ SlowInv'
    BY <1>1, NoneIs DEF IInv, Tallies, LateInv, AtLarge, One, SlowInv, Running, progress, net
  <2>2. AttemptsInv'
    BY <1>1 DEF IInv, Tallies, AttemptsInv, AtLarge, One, progress, net, cli
  <2>3. WaitInv'
    <3>1. SUFFICES ASSUME Running, serves, keys = "right", ~slow PROVE WaitInv'
      BY DEF WaitInv, Running, progress, net, cli
    <3>2. late \in Nat /\ losses \in Nat /\ Waited \in Int
      BY Bounds DEF Waited, IInv, KindInv, NumbersInv
    <3>3. HandshakeCost' = 0 /\ HandshakeCost \in Nat /\ Waited' = Waited /\ Doomed' = Doomed
      BY <3>1 DEF HandshakeCost, One, Waited, Doomed, progress, client
    <3>4. Cost' = Waited + One(rt = "sleep") + late /\ One(rt = "sleep") \in Nat
      BY <3>2, <3>3 DEF Cost, One, client, net
    <3>5. Cost + 2 <= 2 * losses \/ (~Doomed /\ Waited = 0)
      BY <3>1 DEF IInv, Tallies, WaitInv
    <3>6. Cost + 2 <= 2 * losses => Cost' + 2 <= 2 * losses
      BY <3>2, <3>3, <3>4 DEF Cost
    <3> QED BY <3>3, <3>5, <3>6 DEF WaitInv, net
  <2> QED BY <2>1, <2>2, <2>3 DEF Tallies
<1> QED BY <1>1, <1>2, <1>3, ServedKeeps

LEMMA ServedCur ==
    ASSUME IInv, Cur.state = "good", UNCHANGED <<cli, progress, client, net>>, serves' = serves, known' = known,
           got' \in Nat, got' <= sent, answered' \in {"no", "ok", "error"}, answered' = "no" <=> got' = 0,
           answered # "no" => answered' = answered,
           ShapeInv', Hs' = Hs, Cur'.state = "good", CurrentInv',
           serves /\ keys = "right" /\ Cur'.peer \in {"gone", "sequence"} => Cur.peer \in {"gone", "sequence"}
    PROVE  IInv'
<1>1. rt = "none" /\ Hs = NoConn /\ ~over /\ pc \notin Early /\ Cur # NoConn
  BY Alone, NoneIs
<1>2. Contents'
  <2>1. HandshakeInv'
    BY <1>1, NoneIs DEF HandshakeInv
  <2>2. CleanInv'
    BY DEF CleanInv, CurrentInv, Misled, Streams
  <2> QED BY <2>1, <2>2 DEF Contents
<1>3. Tallies'
  <2>1. LateInv' /\ SlowInv' /\ AttemptsInv'
    BY <1>1 DEF IInv, Tallies, LateInv, AtLarge, SlowInv, AttemptsInv, Running, Early, progress, net
  <2>2. Cost' = Cost /\ Waited' = Waited
    BY DEF Cost, Waited, HandshakeCost, One, progress, client, net
  <2>3. serves /\ keys = "right" /\ Doomed' => Doomed
    BY DEF Doomed, client
  <2>4. WaitInv'
    BY <2>2, <2>3 DEF IInv, Tallies, WaitInv, Running, progress, net, cli
  <2> QED BY <2>1, <2>4 DEF Tallies
<1>4. pc \notin {"start", "ping", "ssh"} /\ known \in BOOLEAN
  BY <1>1 DEF Early, IInv, KindInv, FlagsInv
<1> QED BY <1>1, <1>2, <1>3, <1>4, ServedKeeps

LEMMA OnRequestHs ==
    ASSUME IInv, OnRequest("hs"), UNCHANGED <<cli, progress, client, net>>
    PROVE  IInv'
<1>1. Hs.state = "good" /\ Hs.peer = "request"
  BY DEF OnRequest, Arrived, Hs
<1>2. Hs # NoConn /\ (pc = "await" \/ rt \in Handshaking)
  BY <1>1, NoneIs DEF IInv, BeforeInv
<1>3. /\ pc = "await" \/ rt = "response"
      /\ Hs.up = <<Request>> /\ Hs.down = << >>
  <2>1. rt # "sequence" /\ rt # "catchup"
    BY <1>1 DEF IInv, Contents, HandshakeInv, Sequencing, CatchingUp
  <2> QED BY <1>1, <1>2, <2>1 DEF IInv, Contents, HandshakeInv, Asks, Handshaking
<1>4. UNCHANGED <<serves, got, answered>>
  BY DEF OnRequest
<1>5. /\ got \in Nat /\ got <= sent /\ answered \in {"no", "ok", "error"} /\ known \in BOOLEAN
      /\ answered = "no" <=> got = 0
  BY DEF IInv, KindInv, NumbersInv, NamesInv, FlagsInv, CountInv
<1>6. rt = "sequence" \/ rt = "catchup" => pc # "await" /\ rt # "response"
  BY DEF IInv, BeforeInv, Early
<1>7. ASSUME ShapeInv', Cur' = Cur, Hs'.state = "good", Asks(Hs)', known => known', known' \in BOOLEAN,
             known' => known \/ Hs'.peer = "packets", serves => Hs'.peer # "gone"
      PROVE  IInv'
  <2>1. HandshakeInv'
    BY <1>3, <1>6, <1>7 DEF HandshakeInv, progress, client
  <2> QED BY <1>1, <1>4, <1>5, <1>7, <2>1, ServedHs
<1>8. CASE ~serves
  <2>1. PICK status \in Refusals : Serves("hs", "gone", <<Response(status)>>)
    BY <1>8 DEF OnRequest, Refusals
  <2>2. known' = known
    BY <1>8 DEF OnRequest
  <2>3. ShapeInv' /\ Cur' = Cur /\ Hs' = Conn("good", << >>, <<Response(status)>>, "gone")
    BY <1>1, <1>3, <2>1, ServesHs, Queues DEF IInv, Peers
  <2>4. Hs'.state = "good" /\ Hs'.peer = "gone" /\ Hs'.down = <<Response(status)>>
    BY <2>3, ConnFields
  <2>5. Asks(Hs)'
    BY <1>4, <1>8, <2>4 DEF Asks
  <2> QED BY <1>5, <1>7, <1>8, <2>2, <2>3, <2>4, <2>5
<1>9. CASE serves /\ ~known
  <2>1. known' = TRUE /\ Serves("hs", "packets", <<Response("NewClient")>>)
    BY <1>9 DEF OnRequest
  <2>2. ShapeInv' /\ Cur' = Cur /\ Hs' = Conn("good", << >>, <<Response("NewClient")>>, "packets")
    BY <1>1, <1>3, <2>1, ServesHs, Queues DEF IInv, Peers
  <2>3. Hs'.state = "good" /\ Hs'.peer = "packets" /\ Hs'.down = <<Response("NewClient")>> /\ Hs'.up = << >>
    BY <2>2, ConnFields
  <2>4. pc = "await" /\ got = 0
    BY <1>3, <1>5, <1>9 DEF IInv, BeforeInv, Early
  <2>5. Asks(Hs)'
    BY <1>4, <2>1, <2>3, <2>4 DEF Asks, progress
  <2> QED BY <1>7, <2>1, <2>2, <2>3, <2>5
<1>10. CASE serves /\ known
  <2> DEFINE reply == <<Response("ReturningClient"), SequenceHeader(got)>>
  <2>1. known' = known
    BY <1>10 DEF OnRequest
  <2>2. conn' = [d \in DOMAIN conn |->
                   IF d = "hs" THEN [conn[d] EXCEPT !.up = Tail(@), !.peer = "sequence", !.down = reply]
                   ELSE IF conn[d].peer = "request" THEN conn[d]
                   ELSE [conn[d] EXCEPT !.peer = "gone"]]
    BY <1>10 DEF OnRequest
  <2> HIDE DEF reply
  <2>3. ShapeInv' /\ Cur' = Deserted(Cur) /\ Hs' = Conn("good", << >>, reply, "sequence")
    <3>1. ShapeInv
      BY DEF IInv
    <3>2. ShapeInv' /\ Cur' = Deserted(Cur) /\ Hs' = Conn(Hs.state, Tail(Hs.up), reply, "sequence")
      BY <2>2, <3>1, RecoversIs, Zenon
    <3> QED BY <1>1, <1>3, <3>2
  <2>4. Cur' = Cur
    <3>1. Cur = NoConn
      BY <1>3 DEF IInv, BeforeInv, Early
    <3> QED BY <2>3, <3>1, NoConnIs, ConnFields DEF Deserted
  <2>5. Hs'.state = "good" /\ Hs'.peer = "sequence" /\ Hs'.down = reply /\ Hs'.up = << >>
    BY <2>3, ConnFields
  <2>6. Asks(Hs)'
    BY <1>4, <1>10, <2>1, <2>5 DEF Asks, reply
  <2> QED BY <1>5, <1>7, <1>10, <2>1, <2>3, <2>4, <2>5, <2>6
<1> QED BY <1>5, <1>8, <1>9, <1>10

LEMMA OnRequestCur ==
    ASSUME IInv
    PROVE  ~OnRequest("cur")
BY DEF OnRequest, Arrived, IInv, Contents, CurrentInv, Misled, Streams, Cur

\* With neither a frame nor a catch-up where a header is due, nothing is answered.
LEMMA OnSequenceHs ==
    ASSUME IInv, OnSequence("hs"), UNCHANGED <<cli, progress, client, net>>
    PROVE  IInv'
<1>1. Hs.state = "good" /\ Hs.peer = "sequence" /\ Hs.up # << >>
  BY DEF OnSequence, Arrived, Hs
<1>2. Hs # NoConn /\ (pc = "await" \/ rt \in Handshaking)
  BY <1>1, NoneIs DEF IInv, BeforeInv
<1>3. pc # "await" /\ rt \in {"sequence", "catchup"}
  BY <1>1, <1>2 DEF IInv, Contents, HandshakeInv, Asks, Handshaking
<1>4. received \in 0 .. MostPackets /\ Have \in {0, 1}
  <2>1. received \in Nat /\ received <= Have /\ Have \in {0, 1}
    BY DEF IInv, KindInv, NumbersInv, CountInv, Have
  <2> QED BY <2>1, MostIsNat
<1>5. Head(Hs.up) = SequenceHeader(received)
  <2>1. CASE rt = "sequence"
    BY <1>1, <2>1, Header DEF IInv, Contents, HandshakeInv, Sequencing
  <2>2. CASE rt = "catchup"
    <3>1. CatchingUp(Hs)
      BY <1>1, <2>2 DEF IInv, Contents, HandshakeInv
    <3>2. PICK k \in 1 .. sent : Hs.up = <<SequenceHeader(received), CatchupBuffer(got + 1, k)>>
      BY <1>1, <3>1 DEF CatchingUp
    <3> QED BY <3>2, Queues
  <2> QED BY <1>3, <2>1, <2>2
<1>6. Serves("hs", "catchup", <<CatchupBuffer(received + 1, Have)>>) /\ UNCHANGED server
  <2>1. Head(Hs.up).type = "SequenceHeader" /\ Meant[Head(Hs.up)][1][1] = received
    BY <1>4, <1>5, HeaderRead, Types
  <2> QED BY <2>1 DEF OnSequence, Have, Hs
<1>7. ShapeInv' /\ Cur' = Cur
      /\ Hs' = Conn("good", Tail(Hs.up), Hs.down \o <<CatchupBuffer(received + 1, Have)>>, "catchup")
  BY <1>1, <1>6, ServesHs DEF IInv, Peers
<1>8. /\ Hs'.state = "good" /\ Hs'.peer = "catchup" /\ Hs'.up = Tail(Hs.up)
      /\ Hs'.down = Hs.down \o <<CatchupBuffer(received + 1, Have)>>
  <2>1. \A x, y : LET c == Conn("good", x, y, "catchup")
                  IN  c.state = "good" /\ c.up = x /\ c.down = y /\ c.peer = "catchup"
    BY ConnFields
  <2> QED BY <1>7, <2>1
<1>9. HandshakeInv'
  <2>1. CASE rt = "sequence"
    <3>1. Hs.up = <<SequenceHeader(received)>> /\ Hs.down = <<SequenceHeader(got)>>
      BY <1>1, <2>1 DEF IInv, Contents, HandshakeInv, Sequencing
    <3>2. Tail(Hs.up) = << >>
      BY <3>1, Header
    <3>3. Hs'.down = <<SequenceHeader(got), CatchupBuffer(received + 1, Have)>>
      BY <1>8, <3>1, Queues
    <3>4. Sequencing(Hs)'
      BY <1>6, <1>8, <3>2, <3>3 DEF Sequencing, server, client, Have
    <3> QED BY <1>3, <2>1, <3>4 DEF HandshakeInv, progress, client
  <2>2. CASE rt = "catchup"
    <3>1. CatchingUp(Hs)
      BY <1>1, <2>2 DEF IInv, Contents, HandshakeInv
    <3>2. PICK k \in 1 .. sent : Offered(k) /\ Hs.up = <<SequenceHeader(received), CatchupBuffer(got + 1, k)>>
      BY <1>1, <3>1 DEF CatchingUp
    <3>3. Hs.down = << >>
      BY <1>1, <3>1 DEF CatchingUp
    <3>4. Hs'.up = <<CatchupBuffer(got + 1, k)>>
      BY <1>8, <3>2, Queues
    <3>5. Hs'.down = <<CatchupBuffer(received + 1, Have)>>
      BY <1>8, <3>3, Queues
    <3>6. \E j \in 1 .. sent' : Offered(j)' /\ Hs'.up = <<CatchupBuffer(got' + 1, j)>>
      BY <1>6, <3>2, <3>4 DEF Offered, server, progress, client
    <3>7. CatchingUp(Hs)'
      BY <1>6, <1>8, <3>5, <3>6 DEF CatchingUp, server, client, Have
    <3> QED BY <1>3, <2>2, <3>7 DEF HandshakeInv, progress, client
  <2> QED BY <1>3, <2>1, <2>2
<1>10. /\ got \in Nat /\ got <= sent /\ answered \in {"no", "ok", "error"} /\ known \in BOOLEAN
       /\ answered = "no" <=> got = 0
  BY DEF IInv, KindInv, NumbersInv, NamesInv, FlagsInv, CountInv
<1> QED BY <1>1, <1>3, <1>6, <1>7, <1>8, <1>9, <1>10, ServedHs DEF server

\* The server has taken the packets up to k, and answers the first of all.
Took(c, k) ==
    /\ got' = k /\ UNCHANGED <<serves, known>>
    /\ \/ got = 0 /\ answered' \in {"ok", "error"} /\ Serves(c, "packets", <<Frame(1)>>)
       \/ got # 0 /\ answered' = answered /\ Serves(c, "packets", << >>)

LEMMA TakesFrame ==
    ASSUME NEW c, got \in Nat, Takes(c, <<<<got + 1>>>>)
    PROVE  Took(c, got + 1) \/ (keys # "right" /\ HangsUp(c))
<1> DEFINE frames == <<<<got + 1>>>>
<1>1. frames # << >> /\ frames[1] = <<got + 1>> /\ Len(frames) = 1
  OBVIOUS
<1>2. Takes(c, frames)
  OBVIOUS
<1> HIDE DEF frames
<1> QED BY <1>1, <1>2 DEF Takes, Took

LEMMA TakesCatchup ==
    ASSUME NEW c, NEW k \in 1 .. sent, sent \in 0 .. MostPackets, got \in Nat, got <= k,
           Takes(c, Meant[CatchupBuffer(got + 1, k)][1])
    PROVE  \/ got = k /\ Serves(c, "packets", << >>) /\ UNCHANGED server
           \/ Took(c, k)
           \/ keys # "right" /\ HangsUp(c)
<1> DEFINE caught == Meant[CatchupBuffer(got + 1, k)][1]
<1>1. k \in 0 .. MostPackets /\ got + 1 \in 1 .. MostPackets + 1 /\ got + 1 <= k + 1
  BY MostIsNat
<1>2. /\ Len(caught) = k - (got + 1) + 1
      /\ caught = << >> <=> got + 1 = k + 1
      /\ got + 1 <= k => caught[1] = <<got + 1>>
  BY <1>1, CatchupRead
<1>3. Takes(c, caught)
  OBVIOUS
<1> HIDE DEF caught
<1>4. CASE got = k
  <2>1. caught = << >>
    BY <1>2, <1>4
  <2> QED BY <1>3, <1>4, <2>1 DEF Takes
<1>5. CASE got # k
  <2>1. caught # << >> /\ caught[1] = <<got + 1>> /\ got + Len(caught) = k
    BY <1>1, <1>2, <1>5
  <2> QED BY <1>3, <2>1 DEF Takes, Took
<1> QED BY <1>4, <1>5

LEMMA OnFrameHs ==
    ASSUME IInv
    PROVE  ~OnFrame("hs")
<1> SUFFICES ASSUME OnFrame("hs") PROVE FALSE
  OBVIOUS
<1>1. Hs.state = "good" /\ Hs.peer = "packets" /\ Hs.up # << >>
  BY DEF OnFrame, Arrived, Hs
<1>2. Hs # NoConn /\ (pc = "await" \/ rt \in Handshaking)
  BY <1>1, NoneIs DEF IInv, BeforeInv
<1> QED BY <1>1, <1>2 DEF IInv, Contents, HandshakeInv, Asks, Sequencing, CatchingUp, Handshaking

LEMMA OnCatchupHs ==
    ASSUME IInv, OnCatchup("hs"), UNCHANGED <<cli, progress, client, net>>
    PROVE  IInv'
<1>1. Hs.state = "good" /\ Hs.peer = "catchup" /\ Hs.up # << >>
  BY DEF OnCatchup, Arrived, Hs
<1>2. Hs # NoConn /\ (pc = "await" \/ rt \in Handshaking)
  BY <1>1, NoneIs DEF IInv, BeforeInv
<1>3. pc # "await" /\ rt = "catchup"
  BY <1>1, <1>2 DEF IInv, Contents, HandshakeInv, Asks, Sequencing, Handshaking
<1>4. CatchingUp(Hs)
  BY <1>1, <1>3 DEF IInv, Contents, HandshakeInv
<1>5. PICK k \in 1 .. sent : Offered(k) /\ Hs.up = <<CatchupBuffer(got + 1, k)>>
  BY <1>1, <1>4 DEF CatchingUp
<1>6. Hs.down = <<CatchupBuffer(received + 1, Have)>>
  BY <1>1, <1>4 DEF CatchingUp
<1>7. Hs.down \o << >> = <<CatchupBuffer(received + 1, Have)>>
  BY <1>6, Queues
<1>8. /\ got \in Nat /\ sent \in 0 .. MostPackets /\ got <= k /\ received \in Nat /\ received <= Have
      /\ answered \in {"no", "ok", "error"} /\ (answered = "no" <=> got = 0) /\ known \in BOOLEAN
      /\ got <= sent
  BY <1>5, SentBound DEF IInv, KindInv, NumbersInv, NamesInv, FlagsInv, CountInv, Offered
<1>9. Head(Hs.up) = CatchupBuffer(got + 1, k) /\ Tail(Hs.up) = << >>
  BY <1>5, Queues
<1>10. Takes("hs", Meant[CatchupBuffer(got + 1, k)][1])
  <2>1. Head(Hs.up).type = "CatchupBuffer"
    BY <1>9, Types
  <2> QED BY <1>9, <2>1 DEF OnCatchup, Hs
<1>11. \A p, d : LET c == Conn("good", << >>, d, p)
                 IN  c.state = "good" /\ c.up = << >> /\ c.down = d /\ c.peer = p
  BY ConnFields
<1>12. CASE got = k /\ Serves("hs", "packets", << >>) /\ UNCHANGED server
  <2>1. ShapeInv' /\ Cur' = Cur /\ Hs' = Conn("good", << >>, <<CatchupBuffer(received + 1, Have)>>, "packets")
    BY <1>1, <1>9, <1>12, <1>7, ServesHs DEF IInv, Peers
  <2>2. CatchingUp(Hs)'
    BY <1>5, <1>11, <1>12, <2>1 DEF CatchingUp, Offered, server, client, progress, Have
  <2>3. HandshakeInv'
    BY <1>3, <2>2 DEF HandshakeInv, progress, client
  <2> QED BY <1>1, <1>3, <1>8, <1>11, <1>12, <2>1, <2>3, ServedHs DEF server
<1>13. CASE keys # "right" /\ HangsUp("hs")
  <2>1. Serves("hs", "gone", << >>) /\ UNCHANGED server
    BY <1>13 DEF HangsUp
  <2>2. ShapeInv' /\ Cur' = Cur /\ Hs' = Conn("good", << >>, <<CatchupBuffer(received + 1, Have)>>, "gone")
    BY <1>1, <1>9, <1>7, <2>1, ServesHs DEF IInv, Peers
  <2>3. CatchingUp(Hs)'
    BY <1>11, <2>1, <2>2 DEF CatchingUp, server, client, progress, Have
  <2>4. HandshakeInv'
    BY <1>3, <2>3 DEF HandshakeInv, progress, client
  <2> QED BY <1>1, <1>3, <1>8, <1>11, <1>13, <2>1, <2>2, <2>4, ServedHs DEF server
<1>14. CASE Took("hs", k) /\ got = 0
  <2>1. Serves("hs", "packets", <<Frame(1)>>) /\ answered' \in {"ok", "error"} /\ got' = k /\ UNCHANGED <<serves, known>>
    BY <1>14 DEF Took
  <2>2. Have = 0 /\ received = 0
    BY <1>8, <1>14 DEF Have
  <2>3. Hs.down \o <<Frame(1)>> = <<CatchupBuffer(1, 0), Frame(1)>>
    BY <1>6, <2>2, Queues
  <2>4. ShapeInv' /\ Cur' = Cur /\ Hs' = Conn("good", << >>, <<CatchupBuffer(1, 0), Frame(1)>>, "packets")
    BY <1>1, <1>9, <2>1, <2>3, ServesHs DEF IInv, Peers
  <2>5. CatchingUp(Hs)'
    BY <1>5, <1>11, <2>1, <2>2, <2>4 DEF CatchingUp, Offered, client, progress
  <2>6. HandshakeInv'
    BY <1>3, <2>5 DEF HandshakeInv, progress, client
  <2> QED BY <1>1, <1>3, <1>5, <1>8, <1>11, <1>14, <2>1, <2>4, <2>6, ServedHs DEF Offered
<1>15. CASE Took("hs", k) /\ got # 0
  <2>1. Serves("hs", "packets", << >>) /\ answered' = answered /\ got' = k /\ UNCHANGED <<serves, known>>
    BY <1>15 DEF Took
  <2>2. ShapeInv' /\ Cur' = Cur /\ Hs' = Conn("good", << >>, <<CatchupBuffer(received + 1, Have)>>, "packets")
    BY <1>1, <1>9, <1>7, <2>1, ServesHs DEF IInv, Peers
  <2>3. CatchingUp(Hs)'
    BY <1>5, <1>11, <2>1, <2>2 DEF CatchingUp, Offered, client, progress, Have
  <2>4. HandshakeInv'
    BY <1>3, <2>3 DEF HandshakeInv, progress, client
  <2> QED BY <1>1, <1>3, <1>5, <1>8, <1>11, <1>15, <2>1, <2>2, <2>4, ServedHs DEF Offered
<1> QED BY <1>5, <1>8, <1>10, <1>12, <1>13, <1>14, <1>15, TakesCatchup

LEMMA OnSequenceCur ==
    ASSUME IInv, OnSequence("cur"), UNCHANGED <<cli, progress, client, net>>
    PROVE  IInv'
<1>1. Cur.state = "good" /\ Cur.peer = "sequence" /\ Cur.up # << >>
  BY DEF OnSequence, Arrived, Cur
<1>2. Misled(Cur)
  BY <1>1 DEF IInv, Contents, CurrentInv, Streams
<1>3. Cur.up = <<Frame(sent)>>
  BY <1>1, <1>2 DEF Misled
<1>4. Head(Cur.up).type # "SequenceHeader"
  <2>1. Head(Cur.up) = Frame(sent)
    BY <1>3
  <2> QED BY <2>1, Types
<1>5. Serves("cur", "gone", << >>) /\ UNCHANGED server
  BY <1>4 DEF OnSequence, HangsUp, Cur
<1>6. Cur.down \o << >> = Cur.down
  BY <1>2, Queues DEF Misled
<1>7. ShapeInv' /\ Hs' = Hs /\ Cur' = Conn("good", Tail(Cur.up), Cur.down, "gone")
  BY <1>1, <1>5, <1>6, ServesCur DEF IInv, Peers
<1>8. Cur'.state = "good" /\ Cur'.down = Cur.down /\ Cur'.peer = "gone"
  <2>1. \A x, y : LET c == Conn("good", x, y, "gone")
                  IN  c.state = "good" /\ c.up = x /\ c.down = y /\ c.peer = "gone"
    BY ConnFields
  <2> QED BY <1>7, <2>1
<1>9. CurrentInv'
  BY <1>2, <1>8 DEF CurrentInv, Misled, client
<1>10. /\ got \in Nat /\ got <= sent /\ answered \in {"no", "ok", "error"}
       /\ answered = "no" <=> got = 0
  BY DEF IInv, KindInv, NumbersInv, NamesInv, CountInv
<1> QED BY <1>1, <1>5, <1>7, <1>8, <1>9, <1>10, ServedCur DEF server

\* The connection after the server has taken packets from it, or hung up.
LEMMA ServedOn ==
    ASSUME IInv, Cur.state = "good", Streams(Cur), UNCHANGED <<cli, progress, client, net>>,
           NEW k \in Nat, got <= k, 1 <= k, k <= sent,
           Cur.peer = "catchup" => Cur.down = << >>,
           \/ Tail(Cur.up) = << >> /\ (pc = "payload" => k = sent)
           \/ Tail(Cur.up) = <<Frame(k + 1)>> /\ k + 1 <= sent /\ pc # "payload",
           \/ got = k /\ Serves("cur", "packets", << >>) /\ UNCHANGED server
           \/ Took("cur", k)
           \/ keys # "right" /\ HangsUp("cur")
    PROVE  IInv'
<1>1. /\ got \in Nat /\ received \in Nat /\ received <= Have /\ got <= sent
      /\ answered \in {"no", "ok", "error"} /\ (answered = "no" <=> got = 0)
  BY DEF IInv, KindInv, NumbersInv, NamesInv, CountInv
<1>2. \A d, p : LET c == Conn("good", Tail(Cur.up), d, p)
                IN  c.state = "good" /\ c.up = Tail(Cur.up) /\ c.down = d /\ c.peer = p
  BY ConnFields
<1>3. DownOk(Cur) /\ ~junk /\ Cur.down \o << >> = Cur.down
  BY Queues DEF Streams, DownOk
<1>4. ASSUME got' = k, Cur'.peer = "packets", Cur'.up = Tail(Cur.up)
      PROVE  UpOk(Cur)'
  <2>1. CASE Tail(Cur.up) = << >> /\ (pc = "payload" => k = sent)
    BY <1>4, <2>1 DEF UpOk, progress, client
  <2>2. CASE Tail(Cur.up) = <<Frame(k + 1)>> /\ k + 1 <= sent /\ pc # "payload"
    <3>1. Cur'.up = <<Frame(got' + 1)>> /\ got' + 1 <= sent' /\ pc' # "payload"
      BY <1>4, <2>2 DEF progress, client
    <3> QED BY <1>4, <3>1 DEF UpOk
  <2> QED BY <2>1, <2>2
<1>5. CASE got = k /\ Serves("cur", "packets", << >>) /\ UNCHANGED server
  <2>1. ShapeInv' /\ Hs' = Hs /\ Cur' = Conn("good", Tail(Cur.up), Cur.down, "packets")
    BY <1>3, <1>5, ServesCur DEF IInv, Peers
  <2>2. UpOk(Cur)'
    BY <1>2, <1>5, <1>4, <2>1 DEF server
  <2>3. DownOk(Cur)'
    BY <1>2, <1>3, <1>5, <2>1 DEF DownOk, Have, server, client
  <2>4. CurrentInv'
    BY <1>2, <1>3, <2>1, <2>2, <2>3 DEF CurrentInv, Streams, client
  <2> QED BY <1>1, <1>2, <1>5, <2>1, <2>4, ServedCur DEF server
<1>6. CASE keys # "right" /\ HangsUp("cur")
  <2>1. Serves("cur", "gone", << >>) /\ UNCHANGED server
    BY <1>6 DEF HangsUp
  <2>2. ShapeInv' /\ Hs' = Hs /\ Cur' = Conn("good", Tail(Cur.up), Cur.down, "gone")
    BY <1>3, <2>1, ServesCur DEF IInv, Peers
  <2>3. UpOk(Cur)'
    BY <1>2, <2>2 DEF UpOk
  <2>4. DownOk(Cur)'
    BY <1>2, <1>3, <2>1, <2>2 DEF DownOk, Have, server, client
  <2>5. CurrentInv'
    BY <1>2, <1>3, <2>2, <2>3, <2>4 DEF CurrentInv, Streams, client
  <2> QED BY <1>1, <1>2, <1>6, <2>1, <2>2, <2>5, ServedCur DEF server
<1>7. CASE Took("cur", k) /\ got = 0
  <2>1. Serves("cur", "packets", <<Frame(1)>>) /\ answered' \in {"ok", "error"} /\ got' = k /\ UNCHANGED <<serves, known>>
    BY <1>7 DEF Took
  <2>2. received = 0 /\ Cur.down = << >>
    BY <1>1, <1>3, <1>7 DEF Have, DownOk
  <2>3. Cur.down \o <<Frame(1)>> = <<Frame(1)>>
    BY <2>2, Queues
  <2>4. ShapeInv' /\ Hs' = Hs /\ Cur' = Conn("good", Tail(Cur.up), <<Frame(1)>>, "packets")
    BY <2>1, <2>3, ServesCur DEF IInv, Peers
  <2>5. UpOk(Cur)'
    BY <1>2, <1>4, <2>1, <2>4
  <2>6. DownOk(Cur)'
    BY <1>2, <2>1, <2>2, <2>4 DEF DownOk, client
  <2>7. CurrentInv'
    BY <1>2, <1>3, <2>4, <2>5, <2>6 DEF CurrentInv, Streams, client
  <2> QED BY <1>1, <1>2, <1>7, <2>1, <2>4, <2>7, ServedCur
<1>8. CASE Took("cur", k) /\ got # 0
  <2>1. Serves("cur", "packets", << >>) /\ answered' = answered /\ got' = k /\ UNCHANGED <<serves, known>>
    BY <1>8 DEF Took
  <2>2. ShapeInv' /\ Hs' = Hs /\ Cur' = Conn("good", Tail(Cur.up), Cur.down, "packets")
    BY <1>3, <2>1, ServesCur DEF IInv, Peers
  <2>3. UpOk(Cur)'
    BY <1>2, <1>4, <2>1, <2>2
  <2>4. DownOk(Cur)'
    BY <1>2, <1>3, <2>1, <2>2 DEF DownOk, Have, client
  <2>5. CurrentInv'
    BY <1>2, <1>3, <2>2, <2>3, <2>4 DEF CurrentInv, Streams, client
  <2> QED BY <1>1, <1>2, <1>8, <2>1, <2>2, <2>5, ServedCur
<1> QED BY <1>5, <1>6, <1>7, <1>8

LEMMA OnCatchupCur ==
    ASSUME IInv, OnCatchup("cur"), UNCHANGED <<cli, progress, client, net>>
    PROVE  IInv'
<1>1. Cur.state = "good" /\ Cur.peer = "catchup"
  BY DEF OnCatchup, Arrived, Cur
<1>2. Streams(Cur)
  BY <1>1 DEF IInv, Contents, CurrentInv, Misled
<1>3. Cur.down = << >>
  BY <1>1, <1>2 DEF Streams, DownOk
<1>4. PICK k \in 1 .. sent :
         /\ Offered(k)
         /\ \/ Cur.up = <<CatchupBuffer(got + 1, k)>>
            \/ Cur.up = <<CatchupBuffer(got + 1, k), Frame(k + 1)>> /\ k + 1 <= sent /\ pc # "payload"
  BY <1>1, <1>2 DEF Streams, UpOk
<1>5. /\ Head(Cur.up) = CatchupBuffer(got + 1, k)
      /\ \/ Tail(Cur.up) = << >>
         \/ Tail(Cur.up) = <<Frame(k + 1)>> /\ k + 1 <= sent /\ pc # "payload"
  <2>1. CASE Cur.up = <<CatchupBuffer(got + 1, k)>>
    BY <2>1, Queues
  <2>2. CASE Cur.up = <<CatchupBuffer(got + 1, k), Frame(k + 1)>> /\ k + 1 <= sent /\ pc # "payload"
    BY <2>2, Queues
  <2> QED BY <1>4, <2>1, <2>2
<1>6. Takes("cur", Meant[CatchupBuffer(got + 1, k)][1])
  <2>1. Head(Cur.up).type = "CatchupBuffer"
    BY <1>5, Types
  <2> QED BY <1>5, <2>1 DEF OnCatchup, Cur
<1>7. got \in Nat /\ got <= k /\ sent \in 0 .. MostPackets /\ k \in Nat /\ 1 <= k /\ k <= sent
      /\ (pc = "payload" => k = sent)
  BY <1>4, SentBound DEF Offered
<1>8. \/ got = k /\ Serves("cur", "packets", << >>) /\ UNCHANGED server
      \/ Took("cur", k)
      \/ keys # "right" /\ HangsUp("cur")
  BY <1>4, <1>6, <1>7, TakesCatchup
<1> QED BY <1>1, <1>2, <1>3, <1>5, <1>7, <1>8, ServedOn

LEMMA OnFrameCur ==
    ASSUME IInv, OnFrame("cur"), UNCHANGED <<cli, progress, client, net>>
    PROVE  IInv'
<1>1. Cur.state = "good" /\ Cur.peer = "packets" /\ Cur.up # << >>
  BY DEF OnFrame, Arrived, Cur
<1>2. Streams(Cur)
  BY <1>1 DEF IInv, Contents, CurrentInv, Misled
<1>3. Cur.up = <<Frame(got + 1)>> /\ got + 1 <= sent /\ pc # "payload"
  BY <1>1, <1>2 DEF Streams, UpOk
<1>4. Head(Cur.up) = Frame(got + 1) /\ Tail(Cur.up) = << >>
  BY <1>3
<1>5. Head(Cur.up).type = "frame" /\ Head(Cur.up).bytes = <<got + 1>>
  BY <1>4, Types
<1>6. Takes("cur", <<<<got + 1>>>>)
  BY <1>5 DEF OnFrame, Cur
<1>7. got \in Nat
  BY DEF IInv, KindInv, NumbersInv
<1>8. Took("cur", got + 1) \/ (keys # "right" /\ HangsUp("cur"))
  BY <1>6, <1>7, TakesFrame
<1>9. got + 1 \in Nat /\ got <= got + 1 /\ 1 <= got + 1
  BY <1>7
<1> QED BY <1>1, <1>2, <1>3, <1>4, <1>8, <1>9, ServedOn

LEMMA DesertedFields ==
    ASSUME NEW c
    PROVE  /\ Deserted(c).state = c.state /\ Deserted(c).up = c.up /\ Deserted(c).down = c.down
           /\ Deserted(c).peer = IF c.peer = "request" THEN "request" ELSE "gone"
BY ConnFields DEF Deserted

\* What was right on a connection still is when the server has closed its end.
LEMMA DesertedContents ==
    ASSUME IInv, Cur' = Deserted(Cur), Hs' = Deserted(Hs),
           UNCHANGED <<pc, rt, sent, received, queued, junk, got, answered, known>>, serves' => serves
    PROVE  Contents'
<1>1. /\ Hs'.state = Hs.state /\ Hs'.up = Hs.up /\ Hs'.down = Hs.down
      /\ Hs'.peer = IF Hs.peer = "request" THEN "request" ELSE "gone"
      /\ Cur'.state = Cur.state /\ Cur'.down = Cur.down
      /\ Cur'.peer = IF Cur.peer = "request" THEN "request" ELSE "gone"
  BY DesertedFields
<1>2. HandshakeInv'
  <2>1. Have' = Have
    BY DEF Have
  <2>2. Asks(Hs) => Asks(Hs)'
    BY <1>1 DEF Asks
  <2>3. Sequencing(Hs) => Sequencing(Hs)'
    BY <1>1, <2>1 DEF Sequencing
  <2>4. CatchingUp(Hs) => CatchingUp(Hs)'
    BY <1>1, <2>1 DEF CatchingUp
  <2> QED BY <1>1, <2>2, <2>3, <2>4 DEF IInv, Contents, HandshakeInv
<1>3. CurrentInv' /\ CleanInv'
  <2>1. Misled(Cur) => Misled(Cur)'
    BY <1>1 DEF Misled
  <2>2. Streams(Cur) => Streams(Cur)'
    BY <1>1 DEF Streams, UpOk, DownOk, Have
  <2>3. CleanInv'
    BY <1>1 DEF IInv, Contents, CleanInv, UpOk
  <2> QED BY <1>1, <2>1, <2>2, <2>3 DEF IInv, Contents, CurrentInv
<1> QED BY <1>2, <1>3 DEF Contents

LEMMA DesertedNone == Deserted(NoConn) = NoConn
BY NoConnIs, ConnFields DEF Deserted

LEMMA LateRequestKeeps ==
    ASSUME IInv, LateRequest
    PROVE  IInv'
<1>1. late > 0 /\ late' = late - 1 /\ UNCHANGED <<cli, progress, client, serves, got, answered, losses, slow>>
  BY DEF LateRequest
<1>2. late \in Nat /\ late' \in Nat /\ losses \in Nat /\ late <= losses /\ serves \in BOOLEAN /\ known \in BOOLEAN
  <2>1. late \in Nat /\ losses \in Nat /\ serves \in BOOLEAN /\ known \in BOOLEAN
    BY DEF IInv, KindInv, NumbersInv, FlagsInv
  <2>2. late <= losses
    BY <2>1 DEF IInv, Tallies, LateInv, AtLarge, One
  <2>3. late' \in Nat
    BY <1>1, <2>1
  <2> QED BY <2>1, <2>2, <2>3
<1>3. /\ ShapeInv' /\ (known => known') /\ known' \in BOOLEAN
      /\ \/ Cur' = Cur /\ Hs' = Hs /\ (serves => ~known)
         \/ Cur' = Deserted(Cur) /\ Hs' = Deserted(Hs) /\ known' = known /\ serves /\ known
  <2>1. CASE ~serves
    <3>1. conn' = conn /\ known' = known
      BY <2>1 DEF LateRequest
    <3> QED BY <1>2, <2>1, <3>1, SameConns DEF IInv
  <2>2. CASE serves /\ ~known
    <3>1. conn' = conn /\ known' = TRUE
      BY <2>2 DEF LateRequest
    <3> QED BY <1>2, <2>2, <3>1, SameConns DEF IInv
  <2>3. CASE serves /\ known
    <3>1. known' = known
      BY <2>3 DEF LateRequest
    <3>2. conn' = [d \in DOMAIN conn |->
                     IF conn[d].peer = "request" THEN conn[d] ELSE [conn[d] EXCEPT !.peer = "gone"]]
      BY <2>3 DEF LateRequest
    <3>3. ShapeInv' /\ Cur' = Deserted(Cur) /\ Hs' = Deserted(Hs)
      BY <3>2, DesertedIs DEF IInv
    <3> QED BY <1>2, <2>3, <3>1, <3>3
  <2> QED BY <1>2, <2>1, <2>2, <2>3
<1>4. /\ Hs'.state = Hs.state /\ (Hs.peer = "request" <=> Hs'.peer = "request") /\ (Hs = NoConn => Hs' = NoConn)
      /\ Cur'.state = Cur.state /\ (Cur = NoConn => Cur' = NoConn)
  BY <1>3, DesertedFields, DesertedNone
<1>5. pc \notin {"start", "ping", "ssh"}
  BY <1>1, <1>2 DEF IInv, BeforeInv
<1>6. KindInv'
  <2>1. NumbersInv'
    BY <1>1, <1>2 DEF IInv, KindInv, NumbersInv, progress, client
  <2>2. NamesInv'
    BY <1>1 DEF IInv, KindInv, NamesInv, cli, progress, client
  <2>3. FlagsInv'
    BY <1>1, <1>3 DEF IInv, KindInv, FlagsInv, client
  <2> QED BY <2>1, <2>2, <2>3 DEF KindInv
<1>7. BeforeInv'
  <2>1. pc \notin {"start", "ping", "ssh"} /\ pc' = pc
    BY <1>1, <1>5 DEF progress
  <2> QED BY <1>1, <1>3, <1>4, <2>1 DEF IInv, BeforeInv, progress, client, Early, Running
<1>8. CountInv'
  BY <1>1, <1>4 DEF IInv, CountInv, progress, client, Have
<1>9. Contents'
  <2>1. CASE Cur' = Deserted(Cur) /\ Hs' = Deserted(Hs) /\ known' = known
    BY <1>1, <2>1, DesertedContents DEF progress, client
  <2>2. CASE Cur' = Cur /\ Hs' = Hs
    <3>1. /\ \A k \in 1 .. sent : Offered(k) => k \in 1 .. sent' /\ Offered(k)'
          /\ Offered(got) => Offered(got)'
      BY <1>1, OfferedStays DEF progress, client
    <3>2. HandshakeInv'
      BY <1>1, <1>3, <2>2, <3>1, HandshakeStays DEF IInv, Contents, progress, client
    <3>3. CurrentInv' /\ CleanInv'
      BY <1>1, <2>2, CurrentStays DEF IInv, Contents, progress, client
    <3> QED BY <3>2, <3>3 DEF Contents
  <2> QED BY <1>3, <2>1, <2>2
<1>10. Tallies'
  <2>1. AtLarge' = AtLarge - 1 /\ AtLarge \in Nat /\ AtLarge <= losses
    BY <1>1, <1>2, <1>4 DEF AtLarge, One, IInv, Tallies, LateInv
  <2>2. LateInv' /\ SlowInv'
    BY <1>1, <1>2, <1>4, <2>1 DEF IInv, Tallies, LateInv, SlowInv, Running, progress
  <2>3. AttemptsInv'
    BY <1>1, <1>2, <1>4, <2>1 DEF IInv, Tallies, AttemptsInv, One, progress, cli
  <2>4. WaitInv'
    <3>1. SUFFICES ASSUME Running, serves, keys = "right", ~slow
                   PROVE  Cost' + 2 <= 2 * losses
      BY <1>1 DEF WaitInv, Running, progress, cli
    <3>2. known /\ Cur' = Deserted(Cur) /\ Hs' = Deserted(Hs)
      BY <1>3, <3>1 DEF IInv, BeforeInv
    <3>3. HandshakeCost \in Nat /\ HandshakeCost' \in Nat /\ HandshakeCost' <= HandshakeCost + 1
      BY <1>4 DEF HandshakeCost, One
    <3>4. Waited \in Int /\ Waited' = Waited /\ One(rt = "sleep") \in Nat /\ One(rt = "sleep")' = One(rt = "sleep")
      BY <1>1, Bounds DEF Waited, One, progress, client, IInv, KindInv, NumbersInv
    <3>5. Cost' = Waited + One(rt = "sleep") + (late - 1) + HandshakeCost'
      BY <1>1, <3>4 DEF Cost
    <3>6. Cost = Waited + One(rt = "sleep") + late + HandshakeCost
      BY DEF Cost
    <3>7. CASE Cost + 2 <= 2 * losses
      BY <1>2, <3>3, <3>4, <3>5, <3>6, <3>7
    <3>8. CASE ~Doomed /\ Waited = 0
      <4>1. rt = "none" /\ Hs' = NoConn
        BY <1>4, <3>1, <3>8 DEF Doomed, Running, IInv, BeforeInv, Handshaking
      <4>2. One(rt = "sleep") = 0 /\ HandshakeCost' = 0
        BY <4>1, NoneIs DEF One, HandshakeCost
      <4> QED BY <1>1, <1>2, <3>5, <3>8, <4>2
    <3> QED BY <3>1, <3>7, <3>8 DEF IInv, Tallies, WaitInv
  <2> QED BY <2>2, <2>3, <2>4 DEF Tallies
<1>11. FailsOnlyForCause'
  BY <1>1 DEF IInv, Outcomes, FailsOnlyForCause, cli, progress
<1>12. SessionStartsClean'
  <2>1. SUFFICES ASSUME pc = "session" PROVE SessionStartsClean'
    BY <1>1 DEF SessionStartsClean, progress
  <2>2. /\ got \in 1 .. sent /\ answered = "ok" /\ received = 1 /\ ~junk
        /\ Cur.state # "none" =>
              \/ Cur.peer \in {"packets", "gone"}
              \/ Cur.peer = "catchup" /\ Head(Cur.up).type = "CatchupBuffer"
    BY <2>1 DEF IInv, Outcomes, SessionStartsClean, Cur
  <2>3. Cur'.state # "none" =>
              \/ Cur'.peer \in {"packets", "gone"}
              \/ Cur'.peer = "catchup" /\ Head(Cur'.up).type = "CatchupBuffer"
    BY <1>3, <2>2, DesertedFields
  <2> QED BY <1>1, <2>2, <2>3 DEF SessionStartsClean, progress, client, Cur
<1> QED BY <1>3, <1>6, <1>7, <1>8, <1>9, <1>10, <1>11, <1>12 DEF IInv, Outcomes

LEMMA ServerForgetsKeeps ==
    ASSUME IInv, ServerForgets
    PROVE  IInv'
<1>1. /\ pc \notin {"start", "ping", "ssh", "session", "failed"} /\ serves' = FALSE
      /\ UNCHANGED <<cli, progress, client, known, got, answered, net>>
  BY DEF ServerForgets
<1>2. ShapeInv' /\ Cur' = Deserted(Cur) /\ Hs' = Deserted(Hs)
  BY DesertedIs DEF ServerForgets, IInv
<1>3. /\ Hs'.state = Hs.state /\ (Hs.peer = "request" <=> Hs'.peer = "request") /\ (Hs = NoConn => Hs' = NoConn)
      /\ Cur'.state = Cur.state /\ (Cur = NoConn => Cur' = NoConn)
  BY <1>2, DesertedFields, DesertedNone
<1>4. KindInv'
  <2>1. NumbersInv'
    BY <1>1 DEF IInv, KindInv, NumbersInv, progress, client, net
  <2>2. NamesInv'
    BY <1>1 DEF IInv, KindInv, NamesInv, cli, progress, client
  <2>3. FlagsInv'
    BY <1>1 DEF IInv, KindInv, FlagsInv, client, net
  <2> QED BY <2>1, <2>2, <2>3 DEF KindInv
<1>5. BeforeInv'
  BY <1>1, <1>3 DEF IInv, BeforeInv, progress, client, net, Early, Running
<1>6. CountInv'
  BY <1>1, <1>3 DEF IInv, CountInv, progress, client, net, Have
<1>7. Contents'
  BY <1>1, <1>2, DesertedContents DEF progress, client
<1>8. Tallies'
  BY <1>1, <1>3 DEF IInv, Tallies, LateInv, AtLarge, One, AttemptsInv, SlowInv, WaitInv, Running, progress, net
<1>9. Outcomes'
  BY <1>1 DEF IInv, KindInv, NamesInv, Outcomes, FailsOnlyForCause, SessionStartsClean, progress
<1> QED BY <1>2, <1>4, <1>5, <1>6, <1>7, <1>8, <1>9 DEF IInv

\* A connection is lost, at once or by falling silent.
LEMMA LosesKeeps ==
    ASSUME IInv, NEW e \in Ends, NEW state \in {"silent", "broken"}, Lose(e, state),
           conn[e].state \in {"good", "silent"}, UNCHANGED <<cli, progress, client, server, late>>,
           slow' \in BOOLEAN, slow => slow',
           state = "silent" => (Running => slow'),
           state = "broken" => slow' = slow
    PROVE  IInv'
<1>1. pc \notin {"session", "failed"} /\ losses < MaxLosses /\ losses' = losses + 1
  BY DEF Lose
<1>2. /\ late \in Nat /\ losses \in Nat /\ losses' \in 0 .. MaxLosses /\ sent \in Nat /\ attempts \in Nat
      /\ reason = "none"
  BY <1>1, Bounds DEF IInv, KindInv, NumbersInv, NamesInv
<1>3. /\ ShapeInv'
      /\ \/ Cur' = Cur /\ Hs' = Lost(Hs, state) /\ Hs.state \in {"good", "silent"}
         \/ Hs' = Hs /\ Cur' = Lost(Cur, state) /\ Cur.state \in {"good", "silent"}
  BY LostIs DEF IInv, Ends, Cur, Hs
<1>4. ASSUME NEW c PROVE Lost(c, state).state = state /\ Lost(c, state).up = c.up /\ Lost(c, state).peer = c.peer
  BY ConnFields DEF Lost
<1>5. /\ Hs'.peer = Hs.peer /\ Cur'.peer = Cur.peer /\ Cur'.up = Cur.up
      /\ Hs'.state = Hs.state \/ Hs'.state = state
      /\ Cur'.state = Cur.state \/ Cur'.state = state
      /\ (Cur = NoConn => Cur' = NoConn) /\ (Hs = NoConn => Hs' = NoConn)
      /\ (Cur.state # "none" => Cur'.state # "none") /\ (Hs.state # "none" => Hs'.state # "none")
      /\ (Cur.state = "none" => Cur'.state = "none")
      /\ (Hs'.state = "good" => Hs' = Hs) /\ (Cur'.state = "good" => Cur' = Cur)
  BY <1>3, <1>4, NoneIs
<1>6. KindInv'
  <2>1. NumbersInv'
    BY <1>2 DEF IInv, KindInv, NumbersInv, progress, client, server
  <2>2. NamesInv'
    BY DEF IInv, KindInv, NamesInv, cli, progress, client, server
  <2>3. FlagsInv'
    BY DEF IInv, KindInv, FlagsInv, client, server
  <2> QED BY <2>1, <2>2, <2>3 DEF KindInv
<1>7. BeforeInv'
  BY <1>5 DEF IInv, BeforeInv, progress, client, server, Early, Running
<1>8. CountInv'
  <2>1. sent <= MaxCopies + losses' + 1
    BY <1>1, <1>2, Bounds DEF IInv, CountInv
  <2>2. pc = "payload" => sent + One(Cur'.state = "broken") <= MaxCopies + losses'
    BY <1>1, <1>2, Bounds DEF IInv, CountInv, One
  <2> QED BY <2>1, <2>2 DEF IInv, CountInv, One, progress, client, server, Have
<1>9. HandshakeInv'
  <2>1. SUFFICES ASSUME Hs' = Hs PROVE HandshakeInv'
    BY <1>5 DEF HandshakeInv
  <2>2. /\ \A k \in 1 .. sent : Offered(k) => k \in 1 .. sent' /\ Offered(k)'
        /\ Offered(got) => Offered(got)'
    BY OfferedStays DEF progress, client, server
  <2> QED BY <2>1, <2>2, HandshakeStays DEF IInv, Contents, progress, client, server
<1>10. CurrentInv' /\ CleanInv'
  <2>1. CurrentInv'
    <3>1. SUFFICES ASSUME Cur' = Cur PROVE CurrentInv'
      BY <1>5 DEF CurrentInv
    <3> QED BY <3>1, CurrentStays DEF IInv, Contents, progress, client, server
  <2>2. CleanInv'
    BY <1>5 DEF IInv, Contents, CleanInv, UpOk, Offered, progress, client, server
  <2> QED BY <2>1, <2>2
<1>11. Tallies'
  <2>1. AtLarge \in Nat /\ (AtLarge' = AtLarge \/ AtLarge' = AtLarge + 1) /\ AtLarge <= losses
    BY <1>2, <1>5 DEF AtLarge, One, IInv, Tallies, LateInv
  <2>2. LateInv'
    BY <1>1, <1>2, <2>1 DEF LateInv
  <2>3. SlowInv'
    BY <1>5 DEF IInv, Tallies, SlowInv, Running, progress
  <2>4. AttemptsInv'
    <3>1. SUFFICES ASSUME pc \in {"connect", "await"}, serves, keys # "short"
          PROVE  /\ attempts + One(Hs'.state \in {"silent", "broken"}) <= losses'
                 /\ known /\ ~(Hs'.state = "good" /\ Hs'.peer = "packets") => AtLarge' + 1 <= losses'
      BY DEF AttemptsInv, progress, server, cli
    <3>2. attempts + One(Hs.state \in {"silent", "broken"}) <= losses
      BY <3>1 DEF IInv, Tallies, AttemptsInv
    <3>3. attempts + One(Hs'.state \in {"silent", "broken"}) <= losses'
      BY <1>1, <1>2, <3>2 DEF One
    <3>4. CASE Hs.state = "good" /\ Hs.peer = "packets"
      <4>1. AtLarge' = late
        BY <1>2, <1>5, <3>4 DEF AtLarge, One
      <4>2. AtLarge = late
        BY <1>2, <3>4 DEF AtLarge, One
      <4> QED BY <1>1, <1>2, <2>1, <3>3, <4>1, <4>2
    <3>5. CASE ~(Hs.state = "good" /\ Hs.peer = "packets")
      <4>1. known => AtLarge + 1 <= losses
        BY <3>1, <3>5 DEF IInv, Tallies, AttemptsInv
      <4> QED BY <1>1, <1>2, <2>1, <3>3, <4>1
    <3> QED BY <3>4, <3>5
  <2>5. WaitInv'
    <3>1. SUFFICES ASSUME Running, serves, keys = "right", ~slow' PROVE Cost' + 2 <= 2 * losses'
      BY DEF WaitInv, Running, progress, server, cli
    <3>2. state = "broken" /\ ~slow
      BY <3>1
    <3>3. Waited \in Int /\ Waited' = Waited /\ One(rt = "sleep") \in Nat /\ One(rt = "sleep")' = One(rt = "sleep")
      BY Bounds DEF Waited, One, progress, client, IInv, KindInv, NumbersInv
    <3>4. HandshakeCost \in Nat /\ HandshakeCost' \in Nat /\ HandshakeCost' <= HandshakeCost + 2
      BY <1>5 DEF HandshakeCost, One
    <3>5. Cost' = Waited + One(rt = "sleep") + late + HandshakeCost'
      BY <3>3 DEF Cost
    <3>6. Cost = Waited + One(rt = "sleep") + late + HandshakeCost
      BY DEF Cost
    <3>7. CASE Cost + 2 <= 2 * losses
      BY <1>1, <1>2, <3>3, <3>4, <3>5, <3>6, <3>7
    <3>8. CASE ~Doomed /\ Waited = 0
      <4>1. rt = "none" /\ Hs' = NoConn
        BY <1>5, <3>1, <3>8 DEF Doomed, Running, IInv, BeforeInv, Handshaking
      <4>2. One(rt = "sleep") = 0 /\ HandshakeCost' = 0
        BY <4>1, NoneIs DEF One, HandshakeCost
      <4>3. late <= losses
        BY <1>2, <2>1 DEF AtLarge, One
      <4> QED BY <1>1, <1>2, <3>5, <3>8, <4>2, <4>3
    <3> QED BY <3>1, <3>2, <3>7, <3>8 DEF IInv, Tallies, WaitInv
  <2> QED BY <2>2, <2>3, <2>4, <2>5 DEF Tallies
<1>12. Outcomes'
  BY <1>1, <1>2 DEF Outcomes, FailsOnlyForCause, SessionStartsClean, progress
<1> QED BY <1>3, <1>6, <1>7, <1>8, <1>9, <1>10, <1>11, <1>12 DEF IInv, Contents

LEMMA BreaksKeeps ==
    ASSUME IInv, Breaks
    PROVE  IInv'
<1>1. PICK c \in DOMAIN conn : conn[c].state \in {"good", "silent"} /\ Lose(c, "broken")
  BY DEF Breaks
<1>2. c \in Ends
  BY DEF IInv, ShapeInv
<1>3. slow \in BOOLEAN /\ UNCHANGED <<cli, progress, client, server, late, slow>>
  BY DEF IInv, KindInv, FlagsInv, Breaks
<1> QED BY <1>1, <1>2, <1>3, LosesKeeps

LEMMA GoesSilentKeeps ==
    ASSUME IInv, GoesSilent
    PROVE  IInv'
<1>1. PICK c \in DOMAIN conn : conn[c].state = "good" /\ Lose(c, "silent")
  BY DEF GoesSilent
<1>2. c \in Ends
  BY DEF IInv, ShapeInv
<1>3. slow' = (slow \/ Running) /\ slow \in BOOLEAN /\ UNCHANGED <<cli, progress, client, server, late>>
  BY DEF IInv, KindInv, FlagsInv, GoesSilent
<1>4. slow' \in BOOLEAN /\ (slow => slow') /\ (Running => slow')
  BY <1>3 DEF Running
<1> QED BY <1>1, <1>2, <1>3, <1>4, LosesKeeps

\* With nothing to do for anyone, there is a connection to be made.
LEMMA Quiet ==
    ASSUME IInv, pc = "response", serves, keys = "right", ~slow, ~Busy
    PROVE  rt = "sleep"
<1>1. /\ rt # "dial" /\ queued = 0
      /\ Cur.state # "broken" /\ (Cur.state = "good" => Cur.up = << >> /\ Cur.down = << >> /\ Cur.peer # "gone")
      /\ Hs.state # "broken" /\ (Hs.state = "good" => Hs.up = << >> /\ Hs.down = << >> /\ Hs.peer # "gone")
  <2>1. \A c \in Ends : conn[c].state # "broken"
                        /\ (conn[c].state = "good" => conn[c].up = << >> /\ conn[c].down = << >> /\ conn[c].peer # "gone")
    BY DEF Busy, IInv, ShapeInv
  <2>2. queued \in Nat
    BY DEF IInv, KindInv, NumbersInv
  <2> QED BY <2>1, <2>2 DEF Busy, Ends, Cur, Hs
<1>2. /\ received = 0 /\ Cur.state # "silent" /\ Hs.state # "silent" /\ ~over
      /\ Cur.state \in States /\ Hs.state \in States
  BY <1>1 DEF IInv, BeforeInv, CountInv, Tallies, SlowInv, Running, ShapeInv, IsConn
<1>3. rt # "none"
  <2>1. SUFFICES ASSUME rt = "none" PROVE FALSE
    OBVIOUS
  <2>2. Cur.state = "good" /\ Cur.up = << >> /\ Cur.down = << >> /\ Cur.peer # "gone"
    BY <1>1, <1>2, <2>1 DEF IInv, BeforeInv, Running, States
  <2>3. ~Misled(Cur)
    BY <2>2, Queues DEF Misled
  <2>4. Streams(Cur)
    BY <2>2, <2>3 DEF IInv, Contents, CurrentInv
  <2>5. Cur.peer = "packets" /\ got >= 1
    BY <2>2, <2>4, Queues DEF Streams, UpOk
  <2>6. got \in Nat /\ answered # "no"
    BY <2>5 DEF IInv, KindInv, NumbersInv, CountInv
  <2> QED BY <1>2, <2>2, <2>4, <2>6, Queues DEF Streams, DownOk, Have
<1>4. rt \notin Handshaking
  <2>1. SUFFICES ASSUME rt \in Handshaking PROVE FALSE
    OBVIOUS
  <2>2. Hs.state = "good" /\ Hs.up = << >> /\ Hs.down = << >> /\ Hs.peer # "gone"
    BY <1>1, <1>2, <2>1 DEF IInv, BeforeInv, States
  <2>3. ~Asks(Hs)
    BY <2>2, Queues DEF Asks
  <2>4. ~Sequencing(Hs)
    BY <2>2, Queues DEF Sequencing
  <2>5. ~CatchingUp(Hs)
    <3>1. \A k : Hs.up # <<SequenceHeader(received), CatchupBuffer(got + 1, k)>>
      BY <2>2, Queues
    <3> QED BY <2>2, <3>1, Queues DEF CatchingUp
  <2> QED BY <2>1, <2>2, <2>3, <2>4, <2>5 DEF IInv, Contents, HandshakeInv, Handshaking
<1> QED BY <1>1, <1>3, <1>4 DEF IInv, KindInv, NamesInv

LEMMA TickKeeps ==
    ASSUME IInv, Tick
    PROVE  IInv'
<1>1. /\ pc = "response" /\ left > 0 /\ (Busy => keys # "right")
      /\ left' = left - 1
      /\ rt' = IF rt = "sleep" THEN "dial" ELSE rt
      /\ UNCHANGED <<cli, pc, reason, attempts, over, sent, received, queued, junk, conn, server, net>>
  BY DEF Tick
<1>2. ShapeInv' /\ Cur' = Cur /\ Hs' = Hs
  BY <1>1, SameConns DEF IInv
<1>3. left \in Nat /\ left <= ResponseWait /\ late \in Nat /\ reason = "none"
  BY <1>1, Bounds DEF IInv, KindInv, NumbersInv, NamesInv
<1>4. KindInv'
  <2>1. NumbersInv'
    BY <1>1, <1>3, Bounds DEF IInv, KindInv, NumbersInv, server, net
  <2>2. NamesInv'
    BY <1>1 DEF IInv, KindInv, NamesInv, cli, server
  <2>3. FlagsInv'
    BY <1>1 DEF IInv, KindInv, FlagsInv, server, net
  <2> QED BY <2>1, <2>2, <2>3 DEF KindInv
<1>5. BeforeInv'
  BY <1>1, <1>2 DEF IInv, BeforeInv, server, net, Early, Handshaking, Running
<1>6. CountInv'
  BY <1>1, <1>2 DEF IInv, CountInv, server, net, Have
<1>7. Contents'
  <2>1. CurrentInv' /\ CleanInv'
    BY <1>1, <1>2, CurrentStays DEF IInv, Contents, server
  <2>2. CASE rt = "sleep"
    <3>1. Hs' = NoConn
      BY <1>1, <1>2, <2>2 DEF IInv, BeforeInv, Handshaking
    <3> QED BY <2>1, <3>1, NoneIs DEF Contents, HandshakeInv
  <2>3. CASE rt # "sleep"
    <3>1. /\ \A k \in 1 .. sent : Offered(k) => k \in 1 .. sent' /\ Offered(k)'
          /\ Offered(got) => Offered(got)'
      BY <1>1, OfferedStays DEF server
    <3>2. HandshakeInv'
      BY <1>1, <1>2, <2>3, <3>1, HandshakeStays DEF IInv, Contents, server
    <3> QED BY <2>1, <3>2 DEF Contents
  <2> QED BY <2>2, <2>3
<1>8. Tallies'
  <2>1. LateInv' /\ AttemptsInv' /\ SlowInv'
    BY <1>1, <1>2 DEF IInv, Tallies, LateInv, AtLarge, One, AttemptsInv, SlowInv, Running, net
  <2>2. WaitInv'
    <3>1. SUFFICES ASSUME serves, keys = "right", ~slow PROVE Cost' + 2 <= 2 * losses
      BY <1>1 DEF WaitInv, server, net, cli
    <3>2. rt = "sleep"
      BY <1>1, <3>1, Quiet
    <3>3. Cost + 2 <= 2 * losses
      BY <1>1, <3>1, <3>2 DEF IInv, Tallies, WaitInv, Doomed, Running
    <3>4. HandshakeCost' = HandshakeCost /\ HandshakeCost \in Nat
      BY <1>2 DEF HandshakeCost, One
    <3>5. Waited \in Int /\ Waited' = Waited + 1
      BY <1>1, <1>3, Bounds DEF Waited
    <3>6. One(rt = "sleep") = 1 /\ One(rt = "sleep")' = 0
      BY <1>1, <3>2 DEF One
    <3>7. Cost = Waited + 1 + late + HandshakeCost
      BY <3>6 DEF Cost
    <3>8. Cost' = Waited + 1 + 0 + late + HandshakeCost
      BY <1>1, <3>4, <3>5, <3>6 DEF Cost, net
    <3> QED BY <1>3, <3>3, <3>4, <3>5, <3>7, <3>8
  <2> QED BY <2>1, <2>2 DEF Tallies
<1>9. Outcomes'
  BY <1>1, <1>3 DEF Outcomes, FailsOnlyForCause, SessionStartsClean
<1> QED BY <1>2, <1>4, <1>5, <1>6, <1>7, <1>8, <1>9 DEF IInv

-----------------------------------------------------------------------------
(* Hence every step keeps it, and the properties follow. *)

LEMMA MainThreadKeeps ==
    ASSUME IInv, MainThread
    PROVE  IInv'
<1>1. CASE RunParse \/ Ping \/ SetupSsh
  BY <1>1, BeforeKeeps
<1>2. CASE Dial
  BY <1>2, DialKeeps
<1>3. CASE Await
  BY <1>3, AwaitKeeps
<1>4. CASE AwaitFails
  BY <1>4, AwaitFailsKeeps
<1>5. CASE WritePayload
  BY <1>5, WritePayloadKeeps
<1>6. CASE WriteFails
  BY <1>6, WriteFailsKeeps
<1>7. CASE WriteRefused
  BY <1>7, WriteRefusedKeeps
<1>8. CASE ReadQueued
  BY <1>8, ReadQueuedKeeps
<1>9. CASE ReadResponse
  BY <1>9, ReadResponseKeeps
<1>10. CASE ReadJunk
  BY <1>10, ReadJunkKeeps
<1>11. CASE ReadFails
  BY <1>11, ReadFailsKeeps
<1>12. CASE ResponseTimesOut
  BY <1>12, ResponseTimesOutKeeps
<1> QED BY <1>1, <1>2, <1>3, <1>4, <1>5, <1>6, <1>7, <1>8, <1>9, <1>10, <1>11, <1>12 DEF MainThread

LEMMA ReconnectThreadKeeps ==
    ASSUME IInv, ReconnectThread
    PROVE  IInv'
<1>1. CASE RecoverDial
  BY <1>1, RecoverDialKeeps
<1>2. CASE RecoverResponse
  BY <1>2, RecoverResponseKeeps
<1>3. CASE RecoverSequence
  BY <1>3, RecoverSequenceKeeps
<1>4. CASE RecoverCatchup
  BY <1>4, RecoverCatchupKeeps
<1>5. CASE RecoverFails
  BY <1>5, RecoverFailsKeeps
<1> QED BY <1>1, <1>2, <1>3, <1>4, <1>5 DEF ReconnectThread

LEMMA ServerKeeps ==
    ASSUME IInv, Server
    PROVE  IInv'
<1>1. UNCHANGED <<cli, progress, client, net>>
  BY DEF Server
<1>2. PICK c \in Ends : OnRequest(c) \/ OnSequence(c) \/ OnCatchup(c) \/ OnFrame(c)
  BY DEF Server, IInv, ShapeInv
<1>3. CASE c = "hs"
  BY <1>1, <1>2, <1>3, OnRequestHs, OnSequenceHs, OnCatchupHs, OnFrameHs
<1>4. CASE c = "cur"
  BY <1>1, <1>2, <1>4, OnRequestCur, OnSequenceCur, OnCatchupCur, OnFrameCur
<1> QED BY <1>2, <1>3, <1>4 DEF Ends

LEMMA StutterKeeps ==
    ASSUME IInv, UNCHANGED vars
    PROVE  IInv'
<1>1. ShapeInv' /\ Cur' = Cur /\ Hs' = Hs
  BY SameConns DEF IInv, vars
<1>2. UNCHANGED <<cli, progress, client, server, net>>
  BY DEF vars
<1>3. KindInv'
  BY <1>2 DEF IInv, KindInv, NamesInv, NumbersInv, FlagsInv, cli, progress, client, server, net
<1>4. BeforeInv'
  BY <1>1, <1>2 DEF IInv, BeforeInv, Running, progress, client, server, net
<1>5. CountInv'
  BY <1>1, <1>2 DEF IInv, CountInv, Have, progress, client, server, net
<1>6. Contents'
  <2>1. /\ \A k \in 1 .. sent : Offered(k) => k \in 1 .. sent' /\ Offered(k)'
        /\ Offered(got) => Offered(got)'
    BY <1>2, OfferedStays DEF progress, client, server
  <2>2. HandshakeInv'
    BY <1>1, <1>2, <2>1, HandshakeStays DEF IInv, Contents, progress, client, server
  <2>3. CurrentInv' /\ CleanInv'
    BY <1>1, <1>2, CurrentStays DEF IInv, Contents, progress, client, server
  <2> QED BY <2>2, <2>3 DEF Contents
<1>7. Tallies'
  <2>1. LateInv' /\ AttemptsInv' /\ SlowInv'
    BY <1>1, <1>2 DEF IInv, Tallies, LateInv, AtLarge, AttemptsInv, SlowInv, Running, cli, progress, server, net
  <2>2. Cost' = Cost /\ Doomed' = Doomed /\ Waited' = Waited
    BY <1>1, <1>2 DEF Cost, Doomed, Waited, HandshakeCost, progress, client, net
  <2>3. WaitInv'
    BY <1>2, <2>2 DEF IInv, Tallies, WaitInv, Running, cli, progress, server, net
  <2> QED BY <2>1, <2>3 DEF Tallies
<1>8. FailsOnlyForCause'
  BY <1>2 DEF IInv, Outcomes, FailsOnlyForCause, cli, progress, server, net
<1>9. SessionStartsClean'
  BY DEF IInv, Outcomes, SessionStartsClean, vars, progress, client, server
<1> QED BY <1>1, <1>3, <1>4, <1>5, <1>6, <1>7, <1>8, <1>9 DEF IInv, Outcomes

LEMMA StepKeeps ==
    ASSUME IInv, [Next]_vars
    PROVE  IInv'
<1>1. CASE MainThread
  BY <1>1, MainThreadKeeps
<1>2. CASE ReconnectThread
  BY <1>2, ReconnectThreadKeeps
<1>3. CASE Server
  BY <1>3, ServerKeeps
<1>4. CASE LateRequest
  BY <1>4, LateRequestKeeps
<1>5. CASE ServerForgets
  BY <1>5, ServerForgetsKeeps
<1>6. CASE Breaks
  BY <1>6, BreaksKeeps
<1>7. CASE GoesSilent
  BY <1>7, GoesSilentKeeps
<1>8. CASE Tick
  BY <1>8, TickKeeps
<1>9. CASE Ended \/ UNCHANGED vars
  BY <1>9, StutterKeeps DEF Ended
<1> QED BY <1>1, <1>2, <1>3, <1>4, <1>5, <1>6, <1>7, <1>8, <1>9 DEF Next, World

LEMMA Invariance ==
    Spec => []IInv
<1>1. Init => IInv
  BY InitHolds
<1>2. IInv /\ [Next]_vars => IInv'
  BY StepKeeps
<1> QED BY <1>1, <1>2, PTL DEF Spec

LEMMA WellTyped == IInv => StartupTypeOK
<1> SUFFICES ASSUME IInv PROVE StartupTypeOK
  OBVIOUS
<1>1. DOMAIN conn = Ends /\ IsConn(Cur) /\ IsConn(Hs)
  BY DEF IInv, ShapeInv
<1>2. \A c \in DOMAIN conn :
         /\ conn[c].state \in {"none", "good", "silent", "broken"}
         /\ conn[c].peer \in {"request", "sequence", "catchup", "packets", "gone"}
  BY <1>1 DEF Ends, Cur, Hs, IsConn, States, Peers
<1>3. /\ late \in Nat /\ losses \in 0 .. MaxLosses /\ received \in Nat /\ received <= Have
      /\ queued \in 0 .. received
      /\ attempts \in 0 .. MaxAttempts /\ left \in 0 .. ResponseWait
  BY DEF IInv, KindInv, NumbersInv, CountInv
<1>4. late \in 0 .. losses
  BY <1>3, Bounds DEF IInv, Tallies, LateInv, AtLarge, One
<1>5. received \in 0 .. 1
  BY <1>3 DEF Have
<1>6. sent \in 0 .. MostPackets /\ got \in 0 .. sent
  BY SentBound, MostIsNat
<1>7. NamesInv /\ FlagsInv
  BY DEF IInv, KindInv
<1> QED BY <1>2, <1>3, <1>4, <1>5, <1>6, <1>7 DEF StartupTypeOK, NamesInv, FlagsInv, Early, Handshaking

\* main.rs, client.rs and connection.rs: every variable has its type, and the
\* numbers their bounds.  The reader is never given a packet twice, nor more than
\* the one the server sends: `received' is at most 1.
THEOREM StartupTyping ==
    Spec => []StartupTypeOK
<1>1. IInv => StartupTypeOK
  BY WellTyped
<1> QED BY <1>1, Invariance, PTL

\* main.rs and client.rs: the program gives up before its session only for what the
\* network, the user or the server did, for any number of attempts and any wait.
THEOREM FailsForCause ==
    Spec => []FailsOnlyForCause
<1>1. IInv => FailsOnlyForCause
  BY DEF IInv, Outcomes
<1> QED BY <1>1, Invariance, PTL

\* client.rs and connection.rs: however many handshakes were begun and lost, the
\* session starts with the server's acceptance and nothing of a handshake left.
THEOREM StartsClean ==
    Spec => []SessionStartsClean
<1>1. IInv => SessionStartsClean
  BY DEF IInv, Outcomes
<1> QED BY <1>1, Invariance, PTL
=============================================================================
