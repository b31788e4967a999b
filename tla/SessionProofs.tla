---------------------------- MODULE SessionProofs ----------------------------
(***************************************************************************)
(* The keepalive of the session loop, for any interval, any number of      *)
(* losses, and any input and output: while it waits for an answer, one is  *)
(* owed, or will be once the connection that left it out is given up.      *)
(***************************************************************************)
EXTENDS Session, TLAPS

USE ConstantsAssumption

LEMMA OwedConcat ==
    ASSUME NEW s \in Seq(Headers), NEW t \in Seq(Headers)
    PROVE  KeepaliveIn(s \o t) <=> KeepaliveIn(s) \/ KeepaliveIn(t)
<1>1. /\ Len(s) \in Nat /\ Len(t) \in Nat
      /\ Len(s \o t) = Len(s) + Len(t)
      /\ \A i \in 1 .. Len(s) + Len(t) : (s \o t)[i] = IF i =< Len(s) THEN s[i] ELSE t[i - Len(s)]
  OBVIOUS
<1>2. ASSUME KeepaliveIn(s) PROVE KeepaliveIn(s \o t)
  <2>1. PICK i \in 1 .. Len(s) : s[i] = "KEEP_ALIVE"
    BY <1>2 DEF KeepaliveIn
  <2>2. i \in 1 .. Len(s \o t) /\ (s \o t)[i] = "KEEP_ALIVE"
    BY <1>1, <2>1
  <2> QED BY <2>2 DEF KeepaliveIn
<1>3. ASSUME KeepaliveIn(t) PROVE KeepaliveIn(s \o t)
  <2>1. PICK i \in 1 .. Len(t) : t[i] = "KEEP_ALIVE"
    BY <1>3 DEF KeepaliveIn
  <2>2. i + Len(s) \in 1 .. Len(s \o t) /\ (s \o t)[i + Len(s)] = "KEEP_ALIVE"
    BY <1>1, <2>1
  <2> QED BY <2>2 DEF KeepaliveIn
<1>4. ASSUME KeepaliveIn(s \o t) PROVE KeepaliveIn(s) \/ KeepaliveIn(t)
  <2>1. PICK i \in 1 .. Len(s \o t) : (s \o t)[i] = "KEEP_ALIVE"
    BY <1>4 DEF KeepaliveIn
  <2>2. CASE i =< Len(s)
    <3>1. i \in 1 .. Len(s) /\ s[i] = "KEEP_ALIVE"
      BY <1>1, <2>1, <2>2
    <3> QED BY <3>1 DEF KeepaliveIn
  <2>3. CASE ~(i =< Len(s))
    <3>1. i - Len(s) \in 1 .. Len(t) /\ t[i - Len(s)] = "KEEP_ALIVE"
      BY <1>1, <2>1, <2>3
    <3> QED BY <3>1 DEF KeepaliveIn
  <2> QED BY <2>2, <2>3
<1> QED BY <1>2, <1>3, <1>4

LEMMA OwedOne ==
    ASSUME NEW h \in Headers
    PROVE  KeepaliveIn(<<h>>) <=> h = "KEEP_ALIVE"
BY DEF KeepaliveIn

LEMMA OwedAppend ==
    ASSUME NEW s \in Seq(Headers), NEW h \in Headers
    PROVE  KeepaliveIn(Append(s, h)) <=> KeepaliveIn(s) \/ h = "KEEP_ALIVE"
<1>1. Append(s, h) = s \o <<h>> /\ <<h>> \in Seq(Headers)
  OBVIOUS
<1>2. KeepaliveIn(s \o <<h>>) <=> KeepaliveIn(s) \/ KeepaliveIn(<<h>>)
  BY <1>1, OwedConcat
<1>3. KeepaliveIn(Append(s, h)) <=> KeepaliveIn(s \o <<h>>)
  BY <1>1
<1> QED BY <1>2, <1>3, OwedOne

LEMMA OwedTail ==
    ASSUME NEW s \in Seq(Headers), s # << >>
    PROVE  /\ Head(s) \in Headers /\ Tail(s) \in Seq(Headers)
           /\ KeepaliveIn(s) <=> Head(s) = "KEEP_ALIVE" \/ KeepaliveIn(Tail(s))
<1>1. /\ Head(s) \in Headers /\ Tail(s) \in Seq(Headers) /\ Head(s) = s[1]
      /\ Len(s) \in Nat \ {0} /\ Len(Tail(s)) = Len(s) - 1
      /\ \A i \in 1 .. Len(s) - 1 : Tail(s)[i] = s[i + 1]
  OBVIOUS
<1>2. ASSUME KeepaliveIn(s) PROVE Head(s) = "KEEP_ALIVE" \/ KeepaliveIn(Tail(s))
  <2>1. PICK i \in 1 .. Len(s) : s[i] = "KEEP_ALIVE"
    BY <1>2 DEF KeepaliveIn
  <2>2. CASE i = 1
    BY <1>1, <2>1, <2>2
  <2>3. CASE i # 1
    <3>1. i - 1 \in 1 .. Len(Tail(s)) /\ Tail(s)[i - 1] = "KEEP_ALIVE"
      BY <1>1, <2>1, <2>3
    <3> QED BY <3>1 DEF KeepaliveIn
  <2> QED BY <2>2, <2>3
<1>3. ASSUME Head(s) = "KEEP_ALIVE" PROVE KeepaliveIn(s)
  <2>1. 1 \in 1 .. Len(s) /\ s[1] = "KEEP_ALIVE"
    BY <1>1, <1>3
  <2> QED BY <2>1 DEF KeepaliveIn
<1>4. ASSUME KeepaliveIn(Tail(s)) PROVE KeepaliveIn(s)
  <2>1. PICK i \in 1 .. Len(Tail(s)) : Tail(s)[i] = "KEEP_ALIVE"
    BY <1>4 DEF KeepaliveIn
  <2>2. i + 1 \in 1 .. Len(s) /\ s[i + 1] = "KEEP_ALIVE"
    BY <1>1, <2>1
  <2> QED BY <2>2 DEF KeepaliveIn
<1> QED BY <1>1, <1>2, <1>3, <1>4

LEMMA OwedNone == ~KeepaliveIn(<< >>)
BY DEF KeepaliveIn

\* Cut in two, a sequence has what it had.
LEMMA OwedCut ==
    ASSUME NEW s \in Seq(Headers), NEW n \in 0 .. Len(s)
    PROVE  /\ SubSeq(s, 1, n) \in Seq(Headers) /\ SubSeq(s, n + 1, Len(s)) \in Seq(Headers)
           /\ KeepaliveIn(s) =>
                 KeepaliveIn(SubSeq(s, 1, n)) \/ KeepaliveIn(SubSeq(s, n + 1, Len(s)))
<1>1. /\ SubSeq(s, 1, n) \in Seq(Headers) /\ Len(SubSeq(s, 1, n)) = n
      /\ \A i \in 1 .. n : SubSeq(s, 1, n)[i] = s[i]
  OBVIOUS
<1>2. /\ SubSeq(s, n + 1, Len(s)) \in Seq(Headers)
      /\ Len(SubSeq(s, n + 1, Len(s))) = Len(s) - n
      /\ \A i \in 1 .. Len(s) - n : SubSeq(s, n + 1, Len(s))[i] = s[i + n]
  OBVIOUS
<1>3. ASSUME KeepaliveIn(s)
      PROVE  KeepaliveIn(SubSeq(s, 1, n)) \/ KeepaliveIn(SubSeq(s, n + 1, Len(s)))
  <2>1. PICK i \in 1 .. Len(s) : s[i] = "KEEP_ALIVE"
    BY <1>3 DEF KeepaliveIn
  <2>2. CASE i =< n
    <3>1. i \in 1 .. Len(SubSeq(s, 1, n)) /\ SubSeq(s, 1, n)[i] = "KEEP_ALIVE"
      BY <1>1, <2>1, <2>2
    <3> QED BY <3>1 DEF KeepaliveIn
  <2>3. CASE i > n
    <3>1. i - n \in 1 .. Len(SubSeq(s, n + 1, Len(s)))
      BY <1>2, <2>1, <2>3
    <3>2. SubSeq(s, n + 1, Len(s))[i - n] = s[(i - n) + n]
      BY <1>2, <3>1
    <3>3. (i - n) + n = i
      BY <2>1
    <3> QED BY <2>1, <3>1, <3>2, <3>3 DEF KeepaliveIn
  <2> QED BY <2>1, <2>2, <2>3
<1> QED BY <1>1, <1>2, <1>3

-----------------------------------------------------------------------------
\* Until the loop begins nothing waits for a keepalive.
Starting ==
    \/ pc \in {"connect", "response"}
    \/ pc \in {"write", "close"} /\ call \in {"payload", "awaiting"}

\* What the thread is called for, and nothing is waited for before the loop.
CallInv ==
    /\ pc = "write" => call \in DOMAIN Header
    /\ pc = "close" => call # "none"
    /\ pc = "connect" => attempts < MaxAttempts
    /\ Starting => ~waiting

\* Nothing is late but behind a stranded packet, and a recover() finds both gone:
\* what was late went into the backup with the rest when the connection was closed.
GapInv ==
    /\ alive => path \in {"good", "silent", "broken"}
    /\ path \in {"none", "handshake"} => late = << >>
    /\ late # << >> => stranded # << >>

SInv == SessionTypeOK /\ CallInv /\ GapInv /\ WaitingIsOwed

\* The two tables of write_packet's calls.
LEMMA Calls ==
    /\ DOMAIN Header = {"payload", "command", "keepalive", "input", "resize"}
    /\ \A c \in DOMAIN Header :
          /\ Header[c] \in Headers
          /\ c = "keepalive" <=> Header[c] = "KEEP_ALIVE"
          /\ Then[c] \in {"response", "top", "input", "resize"}
          /\ Then[c] = "response" <=> c = "payload"
BY DEF Header, Then, Headers

\* What the server may answer to a packet.
Answers == {<<"INITIAL_RESPONSE">>, <<"KEEP_ALIVE">>, << >>}

LEMMA AnswerTypes ==
    ASSUME NEW answer \in Answers
    PROVE  answer \in Seq(Headers)
<1>1. CASE answer = << >>
  BY <1>1
<1>2. CASE answer = <<"INITIAL_RESPONSE">>
  BY <1>2 DEF Headers
<1>3. CASE answer = <<"KEEP_ALIVE">>
  BY <1>3 DEF Headers
<1> QED BY <1>1, <1>2, <1>3 DEF Answers

LEMMA InitSInv == SessionInit => SInv
<1> SUFFICES ASSUME SessionInit PROVE SInv
  OBVIOUS
<1>1. SessionTypeOK
  <2>1. attempts \in 0 .. MaxAttempts /\ left \in 0 .. Interval /\ held \in 0 .. OutageRoom
    BY DEF SessionInit
  <2>2. /\ up \in Seq(Headers) /\ stranded \in Seq(Headers) /\ late \in Seq(Headers)
        /\ down \in Seq(Headers) /\ inbox \in Seq(Headers) /\ caughtUp \in Seq(Headers)
    BY DEF SessionInit
  <2> QED BY <2>1, <2>2 DEF SessionInit, Init, SessionTypeOK
<1>2. CallInv
  BY DEF SessionInit, Init, CallInv, Starting
<1>3. GapInv
  BY DEF SessionInit, GapInv
<1>4. WaitingIsOwed
  BY DEF SessionInit, WaitingIsOwed
<1> QED BY <1>1, <1>2, <1>3, <1>4 DEF SInv

-----------------------------------------------------------------------------
(* What the steps do to the packets: their types, the gap, and the keepalive *)
(* among them.                                                               *)

ToServerTypes == up \in Seq(Headers) /\ stranded \in Seq(Headers) /\ late \in Seq(Headers)
FromServerTypes == down \in Seq(Headers) /\ inbox \in Seq(Headers) /\ caughtUp \in Seq(Headers)

Asked == KeepaliveIn(up) \/ KeepaliveIn(stranded) \/ KeepaliveIn(late)
Answered == KeepaliveIn(down) \/ KeepaliveIn(inbox) \/ KeepaliveIn(caughtUp)

\* Wherever write_packet leaves a keepalive, it is kept.
LEMMA SendKeeps ==
    ASSUME SInv, call \in DOMAIN Header, Send
    PROVE  /\ ToServerTypes'
           /\ late' # << >> => stranded' # << >>
           /\ (Asked \/ call = "keepalive") => Asked'
<1>1. ToServerTypes /\ (late # << >> => stranded # << >>)
  BY DEF SInv, SessionTypeOK, GapInv, ToServerTypes
<1>2. Header[call] \in Headers /\ (call = "keepalive" <=> Header[call] = "KEEP_ALIVE")
  BY Calls
<1>3. CASE stranded = << >>
  <2>1. up' = Append(up, Header[call]) /\ UNCHANGED <<stranded, late>>
    BY <1>3 DEF Send
  <2>2. KeepaliveIn(up') <=> KeepaliveIn(up) \/ call = "keepalive"
    BY <1>1, <1>2, <2>1, OwedAppend DEF ToServerTypes
  <2> QED BY <1>1, <1>2, <2>1, <2>2 DEF ToServerTypes, Asked
<1>4. CASE stranded # << >>
  <2>1. late' = Append(late, Header[call]) /\ UNCHANGED <<up, stranded>>
    BY <1>4 DEF Send
  <2>2. KeepaliveIn(late') <=> KeepaliveIn(late) \/ call = "keepalive"
    BY <1>1, <1>2, <2>1, OwedAppend DEF ToServerTypes
  <2> QED BY <1>1, <1>2, <1>4, <2>1, <2>2 DEF ToServerTypes, Asked
<1> QED BY <1>3, <1>4

LEMMA BufferKeeps ==
    ASSUME SInv, call \in DOMAIN Header, Buffer
    PROVE  /\ ToServerTypes'
           /\ late' = late /\ (late' # << >> => stranded' # << >>)
           /\ (Asked \/ call = "keepalive") => Asked'
<1>1. ToServerTypes /\ (late # << >> => stranded # << >>)
  BY DEF SInv, SessionTypeOK, GapInv, ToServerTypes
<1>2. Header[call] \in Headers /\ (call = "keepalive" <=> Header[call] = "KEEP_ALIVE")
  BY Calls
<1>3. CASE ~Catching
  <2>1. up' = Append(up, Header[call]) /\ UNCHANGED <<stranded, late>>
    BY <1>3 DEF Buffer
  <2>2. KeepaliveIn(up') <=> KeepaliveIn(up) \/ call = "keepalive"
    BY <1>1, <1>2, <2>1, OwedAppend DEF ToServerTypes
  <2> QED BY <1>1, <1>2, <2>1, <2>2 DEF ToServerTypes, Asked
<1>4. CASE Catching
  <2>1. stranded' = Append(stranded, Header[call]) /\ UNCHANGED <<up, late>>
    BY <1>4 DEF Buffer
  <2>2. KeepaliveIn(stranded') <=> KeepaliveIn(stranded) \/ call = "keepalive"
    BY <1>1, <1>2, <2>1, OwedAppend DEF ToServerTypes
  <2>3. stranded' \in Seq(Headers) /\ stranded' # << >>
    BY <1>1, <1>2, <2>1 DEF ToServerTypes
  <2> QED BY <1>1, <1>2, <2>1, <2>2, <2>3 DEF ToServerTypes, Asked
<1> QED BY <1>3, <1>4

\* What is read is all that leaves.
LEMMA ReadKeeps ==
    ASSUME SInv, Read
    PROVE  /\ Head(Readable) \in Headers
           /\ FromServerTypes'
           /\ Answered => Head(Readable) = "KEEP_ALIVE" \/ Answered'
           /\ UNCHANGED <<path, up, stranded, late, down>>
<1>1. FromServerTypes /\ UNCHANGED <<path, up, stranded, late, down>>
  BY DEF SInv, SessionTypeOK, FromServerTypes, Read, toServer
<1>2. CASE caughtUp # << >>
  <2>1. Head(Readable) = Head(caughtUp)
    BY <1>1, <1>2 DEF Readable, FromServerTypes
  <2>2. caughtUp' = Tail(caughtUp) /\ inbox' = inbox
    BY <1>2 DEF Read
  <2> QED BY <1>1, <1>2, <2>1, <2>2, OwedTail DEF FromServerTypes, Answered
<1>3. CASE caughtUp = << >>
  <2>1. Readable = inbox /\ inbox # << >>
    BY <1>1, <1>3 DEF Read, Readable, FromServerTypes
  <2>2. inbox' = Tail(inbox) /\ caughtUp' = caughtUp
    BY <1>3 DEF Read
  <2> QED BY <1>1, <2>1, <2>2, OwedTail DEF FromServerTypes, Answered
<1> QED BY <1>2, <1>3

\* What a lost connection does not deliver waits for the next.
LEMMA CutOffKeeps ==
    ASSUME SInv, NEW to, CutOff(to), caughtUp' = caughtUp
    PROVE  FromServerTypes' /\ (Answered => Answered')
<1>1. FromServerTypes
  BY DEF SInv, SessionTypeOK, FromServerTypes
<1>2. PICK n \in 0 .. Len(inbox) :
         inbox' = SubSeq(inbox, 1, n) /\ down' = SubSeq(inbox, n + 1, Len(inbox)) \o down
  BY DEF CutOff
<1>3. inbox \in Seq(Headers) /\ down \in Seq(Headers)
  BY <1>1 DEF FromServerTypes
<1>4. /\ SubSeq(inbox, 1, n) \in Seq(Headers) /\ SubSeq(inbox, n + 1, Len(inbox)) \in Seq(Headers)
      /\ KeepaliveIn(inbox) =>
            \/ KeepaliveIn(SubSeq(inbox, 1, n))
            \/ KeepaliveIn(SubSeq(inbox, n + 1, Len(inbox)))
  BY <1>2, <1>3, OwedCut
<1>5. KeepaliveIn(down') <=> KeepaliveIn(SubSeq(inbox, n + 1, Len(inbox))) \/ KeepaliveIn(down)
  BY <1>2, <1>3, <1>4, OwedConcat
<1>6. down' \in Seq(Headers)
  BY <1>2, <1>3, <1>4
<1> QED BY <1>1, <1>2, <1>4, <1>5, <1>6 DEF FromServerTypes, Answered

LEMMA ServerSendsKeeps ==
    ASSUME SInv, NEW packets \in Seq(Headers), ServerSends(packets), caughtUp' = caughtUp
    PROVE  /\ FromServerTypes'
           /\ (Answered \/ KeepaliveIn(packets)) => Answered'
<1>1. FromServerTypes
  BY DEF SInv, SessionTypeOK, FromServerTypes
<1>2. CASE path \in {"good", "reading"}
  <2>1. inbox' = inbox \o packets /\ down' = down
    BY <1>2 DEF ServerSends
  <2>2. KeepaliveIn(inbox') <=> KeepaliveIn(inbox) \/ KeepaliveIn(packets)
    BY <1>1, <2>1, OwedConcat DEF FromServerTypes
  <2> QED BY <1>1, <2>1, <2>2 DEF FromServerTypes, Answered
<1>3. CASE path \notin {"good", "reading"}
  <2>1. down' = down \o packets /\ inbox' = inbox
    BY <1>3 DEF ServerSends
  <2>2. KeepaliveIn(down') <=> KeepaliveIn(down) \/ KeepaliveIn(packets)
    BY <1>1, <2>1, OwedConcat DEF FromServerTypes
  <2> QED BY <1>1, <2>1, <2>2 DEF FromServerTypes, Answered
<1> QED BY <1>2, <1>3

-----------------------------------------------------------------------------
(* Types, what the calls are for, and the gap. *)

Sound == SessionTypeOK /\ CallInv /\ GapInv

\* write_packet returns.
LEMMA ReturnSound ==
    ASSUME SInv, pc = "write", NEW ok \in BOOLEAN, Return(ok),
           UNCHANGED <<link, attempts, quit, console, path, fromServer>>,
           ToServerTypes', held' \in 0 .. OutageRoom,
           late' # << >> => stranded' # << >>,
           path \in {"none", "handshake"} => late' = << >>
    PROVE  Sound'
<1>1. call \in DOMAIN Header
  BY DEF SInv, CallInv
<1>2. /\ pc' \in {"leave", "response", "top", "input", "resize"}
      /\ pc' = "response" => call = "payload"
  BY <1>1, Calls DEF Return
<1>3. /\ call' = "none" /\ coalesced' = coalesced
      /\ waiting' \in BOOLEAN
      /\ pc' = "response" => ~waiting'
      /\ left' \in 0 .. Interval \cup 0 .. ResponseWait
  BY <1>1, <1>2, SMTT(30) DEF Return, SInv, SessionTypeOK, CallInv, Starting
<1>4. SessionTypeOK'
  BY <1>2, <1>3 DEF SInv, SessionTypeOK, ToServerTypes, link, fromServer
<1>5. CallInv'
  BY <1>2, <1>3 DEF SInv, CallInv, Starting, link
<1>6. GapInv'
  BY DEF SInv, GapInv, link
<1> QED BY <1>4, <1>5, <1>6 DEF Sound

LEMMA WriteSound ==
    ASSUME SInv, \/ WriteRefused \/ WriteSent \/ WriteRetried \/ WriteBuffered \/ WriteFailed
    PROVE  Sound'
<1>1. CASE WriteRefused
  <2>1. /\ ToServerTypes' /\ held' \in 0 .. OutageRoom /\ late' = late /\ stranded' = stranded
        /\ UNCHANGED <<link, attempts, quit, console, path, fromServer>>
    BY <1>1 DEF WriteRefused, SInv, SessionTypeOK, ToServerTypes, network, toServer
  <2>2. (late' # << >> => stranded' # << >>) /\ (path \in {"none", "handshake"} => late' = << >>)
    BY <2>1 DEF SInv, GapInv
  <2> QED BY <1>1, <2>1, <2>2, ReturnSound DEF WriteRefused
<1>2. pc = "write" => call \in DOMAIN Header
  BY DEF SInv, CallInv
<1>3. CASE WriteSent
  <2>1. ToServerTypes' /\ (late' # << >> => stranded' # << >>)
    BY <1>2, <1>3, SendKeeps DEF WriteSent
  <2>2. path \notin {"none", "handshake"}
    BY <1>3 DEF WriteSent, SInv, GapInv
  <2>3. held' \in 0 .. OutageRoom
    BY <1>3 DEF WriteSent, SInv, SessionTypeOK
  <2> QED BY <1>3, <2>1, <2>2, <2>3, ReturnSound DEF WriteSent
<1>4. CASE WriteBuffered
  <2>1. ToServerTypes' /\ (late' # << >> => stranded' # << >>) /\ late' = late
    BY <1>2, <1>4, BufferKeeps DEF WriteBuffered
  <2>2. path \in {"none", "handshake"} => late' = << >>
    BY <2>1 DEF SInv, GapInv
  <2>3. held' \in 0 .. OutageRoom
    BY <1>4 DEF WriteBuffered, SInv, SessionTypeOK
  <2> QED BY <1>4, <2>1, <2>2, <2>3, ReturnSound DEF WriteBuffered
<1>5. CASE WriteRetried
  BY <1>5 DEF WriteRetried, vars, loop, network, toServer, fromServer, link, SInv, Sound,
              SessionTypeOK, CallInv, Starting, GapInv
<1>6. CASE WriteFailed
  <2>1. call \in DOMAIN Header /\ call # "none"
    BY <1>2, <1>6, Calls DEF WriteFailed
  <2>2. ToServerTypes' /\ (late' # << >> => stranded' # << >>)
    BY <1>6, <2>1, SendKeeps DEF WriteFailed
  <2>3. SessionTypeOK'
    BY <1>6, <2>2 DEF WriteFailed, SInv, SessionTypeOK, ToServerTypes, link, fromServer
  <2>4. CallInv'
    BY <1>6, <2>1 DEF WriteFailed, SInv, CallInv, Starting, link
  <2>5. GapInv'
    BY <1>6, <2>2 DEF WriteFailed, SInv, GapInv, link
  <2> QED BY <2>3, <2>4, <2>5 DEF Sound
<1> QED BY <1>1, <1>3, <1>4, <1>5, <1>6

LEMMA CloseSound ==
    ASSUME SInv, CloseJoined
    PROVE  Sound'
<1>1. /\ pc = "close" /\ call # "none"
      /\ call \in DOMAIN Header \cup {"reading", "awaiting", "forcing"}
  BY DEF CloseJoined, SInv, CallInv, SessionTypeOK
<1>2. /\ pc' \in {"write", "print", "response", "input"}
      /\ pc' = "write" => call' = call /\ call \in DOMAIN Header
      /\ pc' # "write" => call' = "none"
      /\ pc' = "response" => call = "awaiting"
  BY <1>1 DEF CloseJoined, AfterClose
<1>3. waiting' \in BOOLEAN /\ (waiting' => waiting)
  BY DEF CloseJoined, SInv, SessionTypeOK
<1>4. thread' \in {"none", "working"} /\ alive' = FALSE /\ over' = over
  BY DEF CloseJoined, Close
<1>5. SessionTypeOK'
  <2>1. held' = held
    BY DEF CloseJoined
  <2>2. /\ up' \in Seq(Headers) /\ stranded' \in Seq(Headers) /\ late' \in Seq(Headers)
        /\ down' \in Seq(Headers) /\ inbox' \in Seq(Headers) /\ caughtUp' \in Seq(Headers)
    BY DEF CloseJoined, SInv, SessionTypeOK
  <2>3. alive' \in BOOLEAN /\ over' \in BOOLEAN
    BY <1>4 DEF SInv, SessionTypeOK
  <2> QED BY <1>1, <1>2, <1>3, <1>4, <2>1, <2>2, <2>3 DEF CloseJoined, SInv, SessionTypeOK
<1>6. CallInv'
  BY <1>1, <1>2, <1>3, Calls DEF CloseJoined, SInv, CallInv, Starting
<1>7. GapInv'
  BY <1>4 DEF CloseJoined, GapInv
<1> QED BY <1>5, <1>6, <1>7 DEF Sound

LEMMA StartSound ==
    ASSUME SInv,
           \/ ConnectSucceeds \/ ConnectFails
           \/ ReadResponse \/ ResponseReadFails \/ ResponseTimesOut
    PROVE  Sound'
<1>1. CASE ConnectSucceeds
  <2>1. SessionTypeOK'
    BY <1>1, Calls
       DEF ConnectSucceeds, Connect, Write, toServer, fromServer, SInv, SessionTypeOK
  <2>2. CallInv'
    BY <1>1, Calls DEF ConnectSucceeds, Connect, Write, SInv, SessionTypeOK, CallInv, Starting
  <2>3. GapInv'
    BY <1>1 DEF ConnectSucceeds, Connect, toServer, SInv, GapInv
  <2> QED BY <2>1, <2>2, <2>3 DEF Sound
<1>2. CASE ConnectFails
  <2>1. attempts' \in 0 .. MaxAttempts /\ (pc' = "connect" => attempts' < MaxAttempts)
    BY <1>2, SMTT(30) DEF ConnectFails, Goto, SInv, SessionTypeOK, CallInv
  <2>2. pc' \in {"connect", "leave"}
    BY <1>2 DEF ConnectFails, Goto
  <2>3. SessionTypeOK'
    BY <1>2, <2>1, <2>2
       DEF ConnectFails, Goto, link, network, toServer, fromServer, SInv, SessionTypeOK
  <2>4. CallInv'
    BY <1>2, <2>1, <2>2 DEF ConnectFails, Goto, SInv, CallInv, Starting
  <2>5. GapInv'
    BY <1>2 DEF ConnectFails, link, network, toServer, SInv, GapInv
  <2> QED BY <2>3, <2>4, <2>5 DEF Sound
<1>3. CASE ReadResponse
  <2>1. FromServerTypes' /\ UNCHANGED <<path, up, stranded, late, down>>
    BY <1>3, ReadKeeps DEF ReadResponse
  <2>2. /\ pc' \in {"write", "top", "leave"}
        /\ pc' = "write" => call' = "command"
        /\ call' \in {"command", "none"}
        /\ left' \in {left, Interval}
        /\ UNCHANGED <<waiting, coalesced>>
    BY <1>3 DEF ReadResponse, Write, Goto
  <2>3. SessionTypeOK'
    BY <1>3, <2>1, <2>2, Calls, SMTT(30)
       DEF ReadResponse, FromServerTypes, SInv, SessionTypeOK, link
  <2>4. CallInv'
    BY <1>3, <2>2, Calls DEF ReadResponse, SInv, CallInv, Starting, link
  <2>5. GapInv'
    BY <1>3, <2>1 DEF ReadResponse, link, SInv, GapInv
  <2> QED BY <2>3, <2>4, <2>5 DEF Sound
<1>4. CASE ResponseReadFails \/ ResponseTimesOut
  <2>1. SessionTypeOK'
    BY <1>4, SMTT(30) DEF ResponseReadFails, ResponseTimesOut, ReadFails, Goto, link, network,
                toServer, fromServer, SInv, SessionTypeOK
  <2>2. CallInv'
    BY <1>4, SMTT(30) DEF ResponseReadFails, ResponseTimesOut, ReadFails, Goto,
                SInv, CallInv, Starting
  <2>3. GapInv'
    BY <1>4 DEF ResponseReadFails, ResponseTimesOut, ReadFails, link, network, toServer,
                SInv, GapInv
  <2> QED BY <2>1, <2>2, <2>3 DEF Sound
<1> QED BY <1>1, <1>2, <1>3, <1>4

LEMMA LoopSound ==
    ASSUME SInv,
           \/ Top \/ Drain \/ DrainEnds \/ DrainFails \/ PrintCoalesced
           \/ KeepaliveNotDue \/ KeepaliveDue \/ Input \/ Resize \/ Sleep
    PROVE  Sound'
<1>1. CASE Drain
  <2>1. FromServerTypes' /\ UNCHANGED <<path, up, stranded, late, down>>
    BY <1>1, ReadKeeps DEF Drain
  <2>2. /\ left' \in {left, Interval} /\ coalesced' \in BOOLEAN
        /\ waiting' \in BOOLEAN /\ (waiting' => waiting)
    BY <1>1 DEF Drain, SInv, SessionTypeOK
  <2>3. SessionTypeOK'
    BY <1>1, <2>1, <2>2, SMTT(30) DEF Drain, FromServerTypes, SInv, SessionTypeOK, link
  <2>4. CallInv'
    BY <1>1, <2>2 DEF Drain, SInv, CallInv, Starting
  <2>5. GapInv'
    BY <1>1, <2>1 DEF Drain, link, SInv, GapInv
  <2> QED BY <2>3, <2>4, <2>5 DEF Sound
<1>2. CASE \/ Top \/ DrainEnds \/ DrainFails \/ PrintCoalesced
           \/ KeepaliveNotDue \/ KeepaliveDue \/ Input \/ Resize \/ Sleep
  <2>1. UNCHANGED <<link, attempts, quit, console, held, network>>
    BY <1>2 DEF Top, DrainEnds, DrainFails, PrintCoalesced, KeepaliveNotDue, KeepaliveDue,
                Input, Resize, Sleep, ReadFails
  <2>2. /\ pc \in {"top", "drain", "print", "keepalive", "input", "resize"}
        /\ pc' \in {"leave", "drain", "input", "print", "close", "keepalive", "write",
                    "resize", "top"}
        /\ pc' = "write" => call' \in {"keepalive", "input", "resize"}
        /\ pc' = "close" => call' \in {"reading", "forcing"}
        /\ call' \in {call, "none", "keepalive", "input", "resize", "reading", "forcing"}
    BY <1>2 DEF Top, DrainEnds, DrainFails, PrintCoalesced, KeepaliveNotDue, KeepaliveDue,
                Input, Resize, Sleep, ReadFails, Goto, Write
  <2>3. left' \in {left, Interval}
    BY <1>2 DEF Top, DrainEnds, DrainFails, PrintCoalesced, KeepaliveNotDue, KeepaliveDue,
                Input, Resize, Sleep, ReadFails, Goto, Write
  <2>4. coalesced' \in BOOLEAN
    <3>1. CASE PrintCoalesced
      BY <3>1 DEF PrintCoalesced
    <3>2. CASE ~PrintCoalesced
      <4>1. coalesced' = coalesced
        BY <1>2, <3>2 DEF Top, DrainEnds, DrainFails, KeepaliveNotDue, KeepaliveDue,
                          Input, Resize, Sleep, ReadFails, Goto, Write
      <4> QED BY <4>1 DEF SInv, SessionTypeOK
    <3> QED BY <3>1, <3>2
  <2>5. waiting' \in BOOLEAN /\ (waiting' => waiting)
    BY <1>2, SMTT(30) DEF Top, DrainEnds, DrainFails, PrintCoalesced, KeepaliveNotDue, KeepaliveDue,
                Input, Resize, Sleep, ReadFails, Goto, Write, SInv, SessionTypeOK
  <2>6. left' \in 0 .. Interval \cup 0 .. ResponseWait
    BY <2>3, SMTT(30) DEF SInv, SessionTypeOK
  <2>7. call' \in DOMAIN Header \cup {"reading", "awaiting", "forcing", "none"}
    BY <2>2, Calls DEF SInv, SessionTypeOK
  <2>8. SessionTypeOK'
    BY <2>1, <2>2, <2>4, <2>5, <2>6, <2>7
       DEF link, network, toServer, fromServer, SInv, SessionTypeOK
  <2>9. CallInv'
    BY <2>2, <2>5, Calls DEF CallInv, Starting
  <2>10. GapInv'
    BY <2>1 DEF link, network, toServer, SInv, GapInv
  <2> QED BY <2>8, <2>9, <2>10 DEF Sound
<1> QED BY <1>1, <1>2

LEMMA LeaveSound ==
    ASSUME SInv, Leave \/ Exit \/ Exited \/ UNCHANGED vars
    PROVE  Sound'
<1>1. CASE Leave
  BY <1>1 DEF Leave, BeginShutdown, Goto, network, toServer, fromServer, SInv, Sound,
              SessionTypeOK, CallInv, Starting, GapInv
<1>2. CASE Exit
  <2>1. /\ up' \in Seq(Headers) /\ stranded' \in Seq(Headers) /\ late' \in Seq(Headers)
        /\ down' \in Seq(Headers) /\ inbox' \in Seq(Headers) /\ caughtUp' \in Seq(Headers)
    BY <1>2 DEF Exit
  <2>2. /\ alive' \in BOOLEAN /\ over' \in BOOLEAN /\ thread' \in {"none", "working", "done"}
        /\ pc' = "exited" /\ path' = "none"
        /\ UNCHANGED <<call, left, waiting, coalesced, attempts, quit, console, held>>
    BY <1>2 DEF Exit, EndShutdown, SInv, SessionTypeOK
  <2>3. SessionTypeOK'
    BY <2>1, <2>2 DEF SInv, SessionTypeOK
  <2> QED BY <1>2, <2>3 DEF Exit, EndShutdown, SInv, Sound, CallInv, Starting, GapInv
<1>3. CASE Exited \/ UNCHANGED vars
  BY <1>3, SMTT(30) DEF Exited, vars, loop, network, toServer, fromServer, link, SInv, Sound,
              SessionTypeOK, CallInv, Starting, GapInv
<1> QED BY <1>1, <1>2, <1>3

\* A step of the rest of the world leaves the thread where it is.
LEMMA WorldLoop ==
    ASSUME SInv, World
    PROVE  /\ UNCHANGED <<pc, call, attempts, waiting, coalesced, console>>
           /\ CallInv'
<1>1. UNCHANGED <<pc, call, attempts, waiting, coalesced, console>>
  BY DEF World, CtrlC, Tick, GoesSilent, Breaks, Fail, ServerReceives, ServerHangsUp,
         ServerPrints, LinkRecovers, HandshakeFails, ReaderRevived, LinkReconnects, LinkOver, loop
<1> QED BY <1>1 DEF SInv, CallInv, Starting

LEMMA WorldSound ==
    ASSUME SInv, World
    PROVE  Sound'
<1> USE DEF SInv, Sound
<1>1. CallInv'
  BY WorldLoop
<1>2. CASE CtrlC
  BY <1>1, <1>2 DEF CtrlC, loop, network, toServer, fromServer, link, SessionTypeOK, GapInv
<1>3. CASE Tick
  <2>1. left' \in 0 .. Interval \cup 0 .. ResponseWait
    BY <1>3, SMTT(30) DEF Tick, SessionTypeOK
  <2> QED BY <1>1, <1>3, <2>1
          DEF Tick, network, toServer, fromServer, link, SessionTypeOK, GapInv
<1>4. CASE GoesSilent \/ Breaks \/ ServerHangsUp
  <2>1. PICK to \in {"silent", "broken"} :
           /\ CutOff(to) /\ path \in {"good", "silent"}
           /\ UNCHANGED <<link, loop, attempts, quit, console, held, toServer, caughtUp>>
    BY <1>4 DEF GoesSilent, Breaks, Fail, ServerHangsUp
  <2>2. FromServerTypes' /\ path' = to
    BY <2>1, CutOffKeeps DEF CutOff
  <2>3. SessionTypeOK'
    BY <2>1, <2>2 DEF FromServerTypes, loop, link, toServer, SessionTypeOK
  <2>4. GapInv'
    BY <2>1, <2>2 DEF link, toServer, GapInv
  <2> QED BY <1>1, <2>3, <2>4
<1>5. CASE ServerReceives
  <2>1. up # << >> /\ up' = Tail(up) /\ Tail(up) \in Seq(Headers)
    BY <1>5, OwedTail DEF ServerReceives, SessionTypeOK
  <2>2. PICK answer \in Answers : ServerSends(answer)
    BY <1>5 DEF ServerReceives, Answers
  <2>3. FromServerTypes'
    BY <1>5, <2>2, AnswerTypes, ServerSendsKeeps DEF ServerReceives
  <2>4. SessionTypeOK'
    BY <1>5, <2>1, <2>3 DEF ServerReceives, FromServerTypes, loop, link, SessionTypeOK
  <2>5. GapInv'
    BY <1>5 DEF ServerReceives, link, GapInv
  <2> QED BY <1>1, <2>4, <2>5
<1>6. CASE ServerPrints
  <2>1. <<"TERMINAL">> \in Seq(Headers)
    BY DEF Headers
  <2>2. FromServerTypes'
    BY <1>6, <2>1, ServerSendsKeeps DEF ServerPrints
  <2>3. SessionTypeOK'
    BY <1>6, <2>2 DEF ServerPrints, FromServerTypes, loop, link, toServer, SessionTypeOK
  <2>4. GapInv'
    BY <1>6 DEF ServerPrints, link, toServer, GapInv
  <2> QED BY <1>1, <2>3, <2>4
<1>7. CASE LinkRecovers
  <2>1. SessionTypeOK'
    BY <1>7 DEF LinkRecovers, loop, link, toServer, fromServer, SessionTypeOK
  <2> QED BY <1>1, <1>7, <2>1 DEF LinkRecovers, link, toServer, GapInv
<1>8. CASE HandshakeFails
  <2>1. up' \in Seq(Headers) /\ stranded' \in Seq(Headers)
    BY <1>8 DEF HandshakeFails, SessionTypeOK
  <2>2. SessionTypeOK'
    BY <1>8, <2>1 DEF HandshakeFails, loop, link, fromServer, SessionTypeOK
  <2> QED BY <1>1, <1>8, <2>2 DEF HandshakeFails, link, GapInv
<1>9. CASE ReaderRevived
  <2>1. down' \in Seq(Headers) /\ caughtUp' \in Seq(Headers)
    BY <1>9 DEF ReaderRevived, SessionTypeOK
  <2>2. SessionTypeOK'
    BY <1>9, <2>1 DEF ReaderRevived, loop, link, toServer, SessionTypeOK
  <2> QED BY <1>1, <1>9, <2>2 DEF ReaderRevived, link, toServer, GapInv
<1>10. CASE LinkReconnects
  <2>1. SessionTypeOK'
    BY <1>10 DEF LinkReconnects, Reconnect, loop, toServer, fromServer, SessionTypeOK
  <2> QED BY <1>1, <1>10, <2>1 DEF LinkReconnects, Reconnect, toServer, GapInv
<1>11. CASE LinkOver
  <2>1. /\ alive' = alive /\ over' \in BOOLEAN /\ thread' = "done"
        /\ UNCHANGED <<loop, attempts, quit, console, held, network>>
    BY <1>11 DEF LinkOver, Refuse, GiveUp, SessionTypeOK
  <2> QED BY <1>1, <2>1 DEF loop, network, toServer, fromServer, SessionTypeOK, GapInv
<1> QED BY <1>2, <1>3, <1>4, <1>5, <1>6, <1>7, <1>8, <1>9, <1>10, <1>11 DEF World

-----------------------------------------------------------------------------
(* The answer that is owed. *)

LEMMA OwedAnywhere ==
    ASSUME SessionTypeOK, GapInv
    PROVE  WaitingIsOwed <=> ((waiting /\ ~over) => Asked \/ Answered)
<1>1. ToServerTypes /\ FromServerTypes
  BY DEF SessionTypeOK, ToServerTypes, FromServerTypes
<1>2. up \o down \in Seq(Headers) /\ up \o down \o inbox \in Seq(Headers)
  BY <1>1 DEF ToServerTypes, FromServerTypes
<1>3. KeepaliveIn(up \o down) <=> KeepaliveIn(up) \/ KeepaliveIn(down)
  BY <1>1, OwedConcat DEF ToServerTypes, FromServerTypes
<1>4. KeepaliveIn(up \o down \o inbox) <=> KeepaliveIn(up \o down) \/ KeepaliveIn(inbox)
  BY <1>1, <1>2, OwedConcat DEF FromServerTypes
<1>5. KeepaliveIn(up \o down \o inbox \o caughtUp)
         <=> KeepaliveIn(up \o down \o inbox) \/ KeepaliveIn(caughtUp)
  BY <1>1, <1>2, OwedConcat DEF FromServerTypes
<1>6. KeepaliveIn(stranded \o late) <=> KeepaliveIn(stranded) \/ KeepaliveIn(late)
  BY <1>1, OwedConcat DEF ToServerTypes
<1>7. stranded = << >> => ~KeepaliveIn(stranded) /\ ~KeepaliveIn(late)
  BY OwedNone DEF GapInv
<1>8. (KeepaliveIn(stranded) \/ KeepaliveIn(late))
         <=> stranded # << >> /\ KeepaliveIn(stranded \o late)
  BY <1>6, <1>7
<1> QED BY <1>3, <1>4, <1>5, <1>8 DEF WaitingIsOwed, Asked, Answered

\* A step keeps the invariant if it starts no wait and loses no keepalive, or if
\* there is one after it.
LEMMA StillOwed ==
    ASSUME SInv, Sound',
           (waiting' /\ ~over') =>
              \/ Asked' \/ Answered'
              \/ waiting /\ ~over /\ (Asked \/ Answered => Asked' \/ Answered')
    PROVE  WaitingIsOwed'
<1>1. (waiting /\ ~over) => Asked \/ Answered
  BY OwedAnywhere DEF SInv
<1>2. WaitingIsOwed' <=> ((waiting' /\ ~over') => Asked' \/ Answered')
  BY OwedAnywhere, PTL DEF Sound
<1> QED BY <1>1, <1>2

\* A keepalive is there before the loop waits for its answer, wherever write_packet
\* left it: on the connection, in the backup, or in the gap.
LEMMA WriteOwed ==
    ASSUME SInv, Sound',
           WriteRefused \/ WriteSent \/ WriteRetried \/ WriteBuffered \/ WriteFailed
    PROVE  WaitingIsOwed'
<1>1. CASE WriteRefused
  BY <1>1, StillOwed DEF WriteRefused, link
<1>2. CASE WriteRetried
  BY <1>2, StillOwed
     DEF WriteRetried, vars, link, loop, network, toServer, fromServer, Asked, Answered
<1>3. CASE WriteSent \/ WriteBuffered \/ WriteFailed
  <2>1. call \in DOMAIN Header /\ (Send \/ Buffer) /\ UNCHANGED <<over, fromServer>>
    BY <1>3 DEF WriteSent, WriteBuffered, WriteFailed, link, SInv, CallInv
  <2>2. waiting' => waiting \/ call = "keepalive"
    BY <1>3 DEF WriteSent, WriteBuffered, WriteFailed, Return, SInv, SessionTypeOK
  <2>3. (Asked \/ call = "keepalive") => Asked'
    BY <2>1, SendKeeps, BufferKeeps
  <2>4. Answered' <=> Answered
    BY <2>1 DEF Answered, fromServer
  <2> QED BY <2>1, <2>2, <2>3, <2>4, StillOwed
<1> QED BY <1>1, <1>2, <1>3

\* What has arrived and was not read is sent again, and so is what the connection
\* had left behind.
LEMMA CloseOwed ==
    ASSUME SInv, Sound', CloseJoined
    PROVE  WaitingIsOwed'
<1>1. /\ down' = inbox \o down /\ up' = up \o stranded \o late
      /\ over' = over /\ caughtUp' = caughtUp /\ (waiting' => waiting)
  BY DEF CloseJoined, Close, SInv, SessionTypeOK
<1>2. KeepaliveIn(down') <=> KeepaliveIn(inbox) \/ KeepaliveIn(down)
  BY <1>1, OwedConcat DEF SInv, SessionTypeOK
<1>3. KeepaliveIn(up \o stranded) <=> KeepaliveIn(up) \/ KeepaliveIn(stranded)
  BY OwedConcat DEF SInv, SessionTypeOK
<1>4. up \o stranded \in Seq(Headers) /\ late \in Seq(Headers)
  BY DEF SInv, SessionTypeOK
<1>5. KeepaliveIn(up') <=> KeepaliveIn(up \o stranded) \/ KeepaliveIn(late)
  BY <1>1, <1>4, OwedConcat
<1>6. (Asked \/ Answered) => (Asked' \/ Answered')
  BY <1>1, <1>2, <1>3, <1>5 DEF Asked, Answered
<1> QED BY <1>1, <1>6, StillOwed

LEMMA StartOwed ==
    ASSUME SInv, Sound',
           \/ ConnectSucceeds \/ ConnectFails
           \/ ReadResponse \/ ResponseReadFails \/ ResponseTimesOut
    PROVE  WaitingIsOwed'
<1>1. ~waiting
  BY DEF ConnectSucceeds, ConnectFails, ReadResponse, ResponseReadFails, ResponseTimesOut,
         SInv, CallInv, Starting
<1>2. waiting' = waiting
  BY DEF ConnectSucceeds, ConnectFails, ReadResponse, ResponseReadFails, ResponseTimesOut,
         ReadFails, Goto, Write
<1> QED BY <1>1, <1>2, StillOwed

LEMMA LoopOwed ==
    ASSUME SInv, Sound',
           \/ Top \/ Drain \/ DrainEnds \/ DrainFails \/ PrintCoalesced
           \/ KeepaliveNotDue \/ KeepaliveDue \/ Input \/ Resize \/ Sleep
    PROVE  WaitingIsOwed'
<1>1. CASE Drain
  <2>1. /\ Answered => Head(Readable) = "KEEP_ALIVE" \/ Answered'
        /\ UNCHANGED <<up, stranded, late>>
    BY <1>1, ReadKeeps DEF Drain
  <2>2. over' = over /\ (waiting' => waiting /\ Head(Readable) # "KEEP_ALIVE")
    BY <1>1 DEF Drain, link, SInv, SessionTypeOK
  <2> QED BY <2>1, <2>2, StillOwed DEF Asked
<1>2. CASE \/ Top \/ DrainEnds \/ DrainFails \/ PrintCoalesced
           \/ KeepaliveNotDue \/ KeepaliveDue \/ Input \/ Resize \/ Sleep
  <2>1. UNCHANGED <<over, toServer, fromServer>>
    BY <1>2 DEF Top, DrainEnds, DrainFails, PrintCoalesced, KeepaliveNotDue, KeepaliveDue,
                Input, Resize, Sleep, ReadFails, link, network
  <2>2. waiting' => waiting
    BY <1>2 DEF Top, DrainEnds, DrainFails, PrintCoalesced, KeepaliveNotDue, KeepaliveDue,
                Input, Resize, Sleep, ReadFails, Goto, Write, SInv, SessionTypeOK
  <2>3. (Asked' <=> Asked) /\ (Answered' <=> Answered)
    BY <2>1 DEF toServer, fromServer, Asked, Answered
  <2> QED BY <2>1, <2>2, <2>3, StillOwed
<1> QED BY <1>1, <1>2

LEMMA LeaveOwed ==
    ASSUME SInv, Sound', Leave \/ Exit \/ Exited \/ UNCHANGED vars
    PROVE  WaitingIsOwed'
<1>1. CASE Leave \/ Exit
  <2>1. over'
    BY <1>1 DEF Leave, BeginShutdown, Exit, EndShutdown
  <2> QED BY <2>1, StillOwed
<1>2. CASE Exited \/ UNCHANGED vars
  <2>1. UNCHANGED <<over, waiting, toServer, fromServer>>
    BY <1>2 DEF Exited, vars, link, loop, network
  <2> QED BY <2>1, StillOwed DEF toServer, fromServer, Asked, Answered
<1> QED BY <1>1, <1>2

\* The server answers a keepalive as it takes it; what it sent is delivered, if not
\* on this connection then on the next; and what a reconnect leaves behind is kept.
LEMMA WorldOwed ==
    ASSUME SInv, Sound', World
    PROVE  WaitingIsOwed'
<1>1. waiting' = waiting /\ (~over' => ~over)
  BY DEF World, CtrlC, Tick, GoesSilent, Breaks, Fail, ServerReceives, ServerHangsUp,
         ServerPrints, LinkRecovers, HandshakeFails, ReaderRevived, LinkReconnects, LinkOver,
         Reconnect, Refuse, GiveUp, link, loop
<1> SUFFICES (Asked \/ Answered) => (Asked' \/ Answered')
  BY <1>1, StillOwed
<1>2. CASE CtrlC \/ Tick \/ LinkRecovers \/ LinkReconnects \/ LinkOver
  <2>1. UNCHANGED <<toServer, fromServer>>
    BY <1>2 DEF CtrlC, Tick, LinkRecovers, LinkReconnects, LinkOver, network
  <2> QED BY <2>1 DEF toServer, fromServer, Asked, Answered
<1>3. CASE GoesSilent \/ Breaks \/ ServerHangsUp
  <2>1. PICK to \in {"silent", "broken"} : CutOff(to) /\ UNCHANGED <<toServer, caughtUp>>
    BY <1>3 DEF GoesSilent, Breaks, Fail, ServerHangsUp
  <2>2. Answered => Answered'
    BY <2>1, CutOffKeeps
  <2>3. Asked' <=> Asked
    BY <2>1 DEF toServer, Asked
  <2> QED BY <2>2, <2>3
<1>4. CASE ServerReceives
  <2>1. /\ up # << >> /\ up' = Tail(up) /\ up \in Seq(Headers)
        /\ UNCHANGED <<stranded, late, caughtUp>>
    BY <1>4 DEF ServerReceives, SInv, SessionTypeOK
  <2>2. PICK answer \in Answers :
           /\ ServerSends(answer)
           /\ Head(up) = "KEEP_ALIVE" => answer = <<"KEEP_ALIVE">>
    BY <1>4 DEF ServerReceives, Answers
  <2>3. (Answered \/ KeepaliveIn(answer)) => Answered'
    BY <2>1, <2>2, AnswerTypes, ServerSendsKeeps
  <2>4. KeepaliveIn(up) <=> Head(up) = "KEEP_ALIVE" \/ KeepaliveIn(up')
    BY <2>1, OwedTail
  <2>5. Head(up) = "KEEP_ALIVE" => KeepaliveIn(answer)
    BY <2>2, OwedOne DEF Headers
  <2> QED BY <2>1, <2>3, <2>4, <2>5 DEF Asked
<1>5. CASE ServerPrints
  <2>1. <<"TERMINAL">> \in Seq(Headers)
    BY DEF Headers
  <2>2. Answered => Answered'
    BY <1>5, <2>1, ServerSendsKeeps DEF ServerPrints
  <2>3. Asked' <=> Asked
    BY <1>5 DEF ServerPrints, toServer, Asked
  <2> QED BY <2>2, <2>3
<1>6. CASE HandshakeFails
  <2>1. up' = up \o stranded /\ UNCHANGED <<late, fromServer>>
    BY <1>6 DEF HandshakeFails
  <2>2. KeepaliveIn(up') <=> KeepaliveIn(up) \/ KeepaliveIn(stranded)
    BY <2>1, OwedConcat DEF SInv, SessionTypeOK
  <2> QED BY <2>1, <2>2 DEF fromServer, Asked, Answered
<1>7. CASE ReaderRevived
  <2>1. caughtUp' = caughtUp \o down /\ UNCHANGED <<inbox, toServer>>
    BY <1>7 DEF ReaderRevived
  <2>2. KeepaliveIn(caughtUp') <=> KeepaliveIn(caughtUp) \/ KeepaliveIn(down)
    BY <2>1, OwedConcat DEF SInv, SessionTypeOK
  <2> QED BY <2>1, <2>2 DEF toServer, Asked, Answered
<1> QED BY <1>2, <1>3, <1>4, <1>5, <1>6, <1>7 DEF World

-----------------------------------------------------------------------------
LEMMA StepSInv == SInv /\ [SessionNext]_vars => SInv'
<1> SUFFICES ASSUME SInv, [SessionNext]_vars PROVE SInv'
  OBVIOUS
<1>1. Sound'
  BY WriteSound, CloseSound, StartSound, LoopSound, LeaveSound, WorldSound
     DEF SessionNext, MainThread
<1>2. WaitingIsOwed'
  BY <1>1, WriteOwed, CloseOwed, StartOwed, LoopOwed, LeaveOwed, WorldOwed
     DEF SessionNext, MainThread
<1> QED BY <1>1, <1>2 DEF Sound, SInv

LEMMA SessionAlways == SessionSpec => []SInv
<1> QED BY InitSInv, StepSInv, PTL DEF SessionSpec

\* Every variable of the main thread keeps its type: no call is without a purpose
\* and no count passes its limit.
THEOREM SessionTyping == SessionSpec => []SessionTypeOK
<1>1. SInv => SessionTypeOK
  BY DEF SInv
<1> QED BY <1>1, SessionAlways, PTL

\* While the loop waits for an answer to its keepalive there is one to come, or the
\* keepalive itself is left in the gap of a reconnect (connection.rs:287-317) and
\* will be on the next connection: over any number of lost ones, none of the two is
\* lost.
THEOREM WaitingOwed == SessionSpec => []WaitingIsOwed
<1>1. SInv => WaitingIsOwed
  BY DEF SInv
<1> QED BY <1>1, SessionAlways, PTL
=============================================================================
