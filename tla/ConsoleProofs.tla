---------------------------- MODULE ConsoleProofs ----------------------------
(***************************************************************************)
(* The console is left as it was found, for any keys, output, windows and  *)
(* failures, once a session has begun on it; its variables keep their      *)
(* types; every packet is read as it was written; and of what is typed     *)
(* and printed no byte is lost, invented or overtaken.                     *)
(***************************************************************************)
EXTENDS Console, CodecProofs

LOCAL INSTANCE SequencesExt
LOCAL INSTANCE FiniteSetsExt
LOCAL INSTANCE SequenceTheorems
LOCAL INSTANCE FiniteSetTheorems
LOCAL INSTANCE Functions

InLoop == pc \in {"turn", "drain", "peek", "wait", "read", "resize"}

SettingUp == pc \in {"set_in", "set_out", "set_out_again", "wrap"}

\* teardown() is right because what was saved is what was there before any mode
\* was set, and because the loop never runs without `enabled', which teardown()
\* looks at.
ModesInv ==
    /\ pc = "new" => mode = Original
    /\ (SettingUp \/ InLoop) => saved = Original
    /\ InLoop => enabled
    /\ ModesRestored

LEMMA InitModes == Init => ModesInv
BY DEF Init, ModesInv, SettingUp, InLoop, ModesRestored

\* new() saves the modes before it sets the first, and enables itself last.
LEMMA SetupModes ==
    ASSUME ModesInv, GetModes \/ SetInputMode \/ SetOutputMode \/ ReassertWrap
    PROVE  ModesInv'
<1>1. CASE GetModes
  BY <1>1 DEF GetModes, ModesInv, SettingUp, InLoop, ModesRestored
<1>2. CASE SetInputMode
  <2>1. pc = "set_in" /\ pc' \in {"set_out", "failed"} /\ UNCHANGED <<saved, enabled>>
    BY <1>2 DEF SetInputMode
  <2> QED BY <2>1 DEF ModesInv, SettingUp, InLoop, ModesRestored
<1>3. CASE SetOutputMode
  <2>1. /\ pc \in {"set_out", "set_out_again"}
        /\ pc' \in {"set_out_again", "wrap", "failed"}
        /\ UNCHANGED <<saved, enabled>>
    BY <1>3 DEF SetOutputMode
  <2> QED BY <2>1 DEF ModesInv, SettingUp, InLoop, ModesRestored
<1>4. CASE ReassertWrap
  BY <1>4 DEF ReassertWrap, ModesInv, SettingUp, InLoop, ModesRestored
<1> QED BY <1>1, <1>2, <1>3, <1>4

LEMMA TeardownModes ==
    ASSUME ModesInv, InLoop, Teardown
    PROVE  ModesInv'
BY DEF Teardown, SetBack, ModesInv, SettingUp, InLoop, ModesRestored, Original

\* Within the loop nothing touches the modes.
LEMMA LoopModes ==
    ASSUME ModesInv, UNCHANGED <<mode, saved, enabled, refused>>,
           (InLoop /\ InLoop') \/ UNCHANGED pc
    PROVE  ModesInv'
BY DEF ModesInv, SettingUp, InLoop, ModesRestored

LEMMA StepModes == ModesInv /\ [Next]_vars => ModesInv'
<1> SUFFICES ASSUME ModesInv, [Next]_vars PROVE ModesInv'
  OBVIOUS
<1>1. CASE GetModes \/ SetInputMode \/ SetOutputMode \/ ReassertWrap
  BY <1>1, SetupModes
<1>2. CASE Turn \/ PollFails
  <2>1. InLoop
    BY <1>2 DEF Turn, PollFails, InLoop
  <2>2. Teardown \/ (UNCHANGED console /\ InLoop')
    BY <1>2 DEF Turn, PollFails, InLoop
  <2> QED BY <2>1, <2>2, TeardownModes, LoopModes DEF console
<1>3. CASE \/ Drain \/ DrainEnds \/ Peek \/ Signaled \/ WaitTimesOut \/ WaitFails
           \/ ReadReturns \/ ReadAborted \/ Resize
  <2>1. UNCHANGED console
    BY <1>3 DEF Drain, DrainEnds, Peek, Signaled, WaitTimesOut, WaitFails, ReadReturns,
                ReadAborted, Resize
  <2>2. InLoop /\ InLoop'
    BY <1>3 DEF Drain, DrainEnds, Peek, Signaled, WaitTimesOut, WaitFails, ReadReturns,
                ReadAborted, Resize, InLoop
  <2> QED BY <2>1, <2>2, LoopModes DEF console
<1>4. CASE World \/ Ended \/ UNCHANGED vars
  <2>1. UNCHANGED <<pc, console>>
    BY <1>4 DEF World, Type, MoveMouse, ResizeWindow, ServerPrints, Tick, Ended, vars
  <2> QED BY <2>1, LoopModes DEF console
<1> QED BY <1>1, <1>2, <1>3, <1>4 DEF Next, Proceeds, Fails

\* However a session on the console ends, told to, or with an error of a read, of
\* a write or of the console itself, each of its modes is again what it was, but
\* for one that Windows refused to set back.
THEOREM ConsoleRestored == Spec => []ModesRestored
<1>1. Init => ModesInv
  BY InitModes
<1>2. ModesInv /\ [Next]_vars => ModesInv'
  BY StepModes
<1>3. ModesInv => ModesRestored
  BY DEF ModesInv
<1> QED BY <1>1, <1>2, <1>3, PTL DEF Spec

-----------------------------------------------------------------------------
(* The bytes among records. *)

Records(bytes) == {Modifier, Other} \cup {Pressed(b) : b \in bytes}

\* What a record adds to the bytes before it.
With(bytes, record) == IF record.is = "key" THEN Append(bytes, record.byte) ELSE bytes

CollectsBytes(recs, f) ==
    f = [n \in 0 .. Len(recs) |->
            IF n = 0 THEN << >>
            ELSE IF recs[n].is = "key" THEN Append(f[n - 1], recs[n].byte)
            ELSE f[n - 1]]

BytesBefore(recs) == CHOOSE f : CollectsBytes(recs, f)

LEMMA BytesOfIs ==
    ASSUME NEW recs
    PROVE  BytesOf(recs) = BytesBefore(recs)[Len(recs)]
BY DEF BytesOf, BytesBefore, CollectsBytes

LEMMA CollectsAt ==
    ASSUME NEW recs, NEW f, CollectsBytes(recs, f), NEW n \in 0 .. Len(recs)
    PROVE  f[n] = IF n = 0 THEN << >> ELSE With(f[n - 1], recs[n])
<1> DEFINE h == [k \in 0 .. Len(recs) |->
                    IF k = 0 THEN << >>
                    ELSE IF recs[k].is = "key" THEN Append(f[k - 1], recs[k].byte)
                    ELSE f[k - 1]]
<1>1. f = h
  BY DEF CollectsBytes
<1>2. h[n] = IF n = 0 THEN << >> ELSE With(f[n - 1], recs[n])
  BY DEF With
<1> HIDE DEF h
<1> QED BY <1>1, <1>2

LEMMA CollectsBy ==
    ASSUME NEW recs, NEW f, f = [n \in 0 .. Len(recs) |-> f[n]],
           \A n \in 0 .. Len(recs) : f[n] = IF n = 0 THEN << >> ELSE With(f[n - 1], recs[n])
    PROVE  CollectsBytes(recs, f)
BY DEF CollectsBytes, With

LEMMA RecordIs ==
    ASSUME NEW B, NEW r \in Records(B)
    PROVE  /\ r.is \in {"key", "modifier", "other"}
           /\ r.is = "key" => r.byte \in B
           /\ KeyDown(r) <=> r.is # "other"
BY DEF Records, Modifier, Other, Pressed, KeyDown

LEMMA WithType ==
    ASSUME NEW B, NEW r \in Records(B), NEW s \in Seq(B)
    PROVE  With(s, r) \in Seq(B)
BY RecordIs DEF With

LEMMA BytesExist ==
    ASSUME NEW B, NEW recs \in Seq(Records(B))
    PROVE  \E f \in [0 .. Len(recs) -> Seq(B)] : CollectsBytes(recs, f)
<1> DEFINE S == {r \in Seq(Records(B)) : \E f \in [0 .. Len(r) -> Seq(B)] : CollectsBytes(r, f)}
<1>1. << >> \in S
  <2> DEFINE f == [n \in 0 .. 0 |-> << >>]
  <2>1. f \in [0 .. Len(<< >>) -> Seq(B)]
    OBVIOUS
  <2>2. CollectsBytes(<< >>, f)
    BY DEF CollectsBytes
  <2> HIDE DEF f
  <2>3. << >> \in Seq(Records(B))
    OBVIOUS
  <2> QED BY <2>1, <2>2, <2>3, Zenon
<1>2. ASSUME NEW r \in Seq(Records(B)), NEW x \in Records(B), r \in S PROVE Append(r, x) \in S
  <2>1. PICK f \in [0 .. Len(r) -> Seq(B)] : CollectsBytes(r, f)
    BY <1>2
  <2> DEFINE q == Append(r, x)
             g == [n \in 0 .. Len(q) |-> IF n <= Len(r) THEN f[n] ELSE With(f[Len(r)], x)]
  <2>2. /\ q \in Seq(Records(B)) /\ Len(q) = Len(r) + 1 /\ q[Len(q)] = x
        /\ \A i \in 1 .. Len(r) : q[i] = r[i]
    OBVIOUS
  <2> HIDE DEF q
  <2>3. f[Len(r)] \in Seq(B)
    BY <2>1
  <2>4. With(f[Len(r)], x) \in Seq(B)
    BY <2>3, WithType
  <2>5. g \in [0 .. Len(q) -> Seq(B)]
    BY <2>1, <2>2, <2>4
  <2>6. ASSUME NEW n \in 0 .. Len(q)
        PROVE  g[n] = IF n = 0 THEN << >> ELSE With(g[n - 1], q[n])
    <3>1. CASE n <= Len(r)
      <4>1. n \in 0 .. Len(r)
        BY <3>1
      <4>2. f[n] = IF n = 0 THEN << >> ELSE With(f[n - 1], r[n])
        BY <2>1, <4>1, CollectsAt
      <4>3. g[n] = f[n] /\ (n # 0 => g[n - 1] = f[n - 1] /\ q[n] = r[n])
        BY <2>2, <4>1
      <4> HIDE DEF g
      <4> QED BY <4>2, <4>3
    <3>2. CASE n = Len(q)
      <4>1. g[n] = With(f[Len(r)], x) /\ g[n - 1] = f[Len(r)] /\ n # 0
        BY <2>2, <3>2
      <4> HIDE DEF g
      <4> QED BY <2>2, <3>2, <4>1
    <3> QED BY <2>2, <3>1, <3>2
  <2>7. g = [n \in 0 .. Len(q) |-> g[n]]
    OBVIOUS
  <2> HIDE DEF g
  <2>8. CollectsBytes(q, g)
    BY <2>6, <2>7, CollectsBy
  <2> QED BY <2>2, <2>5, <2>8 DEF q
<1> HIDE DEF S
<1>3. Seq(Records(B)) \subseteq S
  BY <1>1, <1>2, SequenceInduction
<1> USE DEF S
<1> QED BY <1>3

LEMMA BytesUnique ==
    ASSUME NEW recs, Len(recs) \in Nat, NEW f, CollectsBytes(recs, f), NEW g, CollectsBytes(recs, g)
    PROVE  f = g
<1> DEFINE S == {n \in Nat : n <= Len(recs) => f[n] = g[n]}
<1>1. \A n \in 0 .. Len(recs) : /\ f[n] = IF n = 0 THEN << >> ELSE With(f[n - 1], recs[n])
                                /\ g[n] = IF n = 0 THEN << >> ELSE With(g[n - 1], recs[n])
  BY CollectsAt
<1>2. 0 \in S
  BY <1>1
<1>3. ASSUME NEW n \in Nat, n \in S PROVE n + 1 \in S
  <2>1. SUFFICES ASSUME n + 1 <= Len(recs) PROVE f[n + 1] = g[n + 1]
    OBVIOUS
  <2>2. f[n] = g[n] /\ n + 1 \in 0 .. Len(recs) /\ n + 1 # 0 /\ (n + 1) - 1 = n
    BY <1>3, <2>1
  <2> QED BY <1>1, <2>2
<1> HIDE DEF S
<1>4. Nat \subseteq S
  BY <1>2, <1>3, Induction
<1> USE DEF S
<1>5. \A n \in 0 .. Len(recs) : f[n] = g[n]
  BY <1>4
<1>6. f = [n \in 0 .. Len(recs) |-> f[n]] /\ g = [n \in 0 .. Len(recs) |-> g[n]]
  BY DEF CollectsBytes
<1> QED BY <1>5, <1>6

LEMMA BytesOfNone == BytesOf(<< >>) = << >>
<1>1. << >> \in Seq(Records({}))
  OBVIOUS
<1>2. PICK f : CollectsBytes(<< >>, f)
  BY <1>1, BytesExist
<1>3. CollectsBytes(<< >>, BytesBefore(<< >>))
  BY <1>2 DEF BytesBefore
<1>4. Len(<< >>) = 0 /\ 0 \in 0 .. Len(<< >>)
  OBVIOUS
<1>5. BytesBefore(<< >>)[0] = << >>
  BY <1>3, <1>4, CollectsAt
<1> QED BY <1>4, <1>5, BytesOfIs

LEMMA BytesOfAppend ==
    ASSUME NEW B, NEW recs \in Seq(Records(B)), NEW r \in Records(B)
    PROVE  BytesOf(Append(recs, r)) = With(BytesOf(recs), r)
<1> DEFINE q == Append(recs, r)
           f == BytesBefore(q)
           g == [n \in 0 .. Len(recs) |-> f[n]]
<1>1. /\ q \in Seq(Records(B)) /\ Len(q) = Len(recs) + 1 /\ q[Len(q)] = r
      /\ \A i \in 1 .. Len(recs) : q[i] = recs[i]
      /\ Len(recs) \in Nat
  OBVIOUS
<1> HIDE DEF q
<1>2. CollectsBytes(q, f)
  BY <1>1, BytesExist DEF BytesBefore
<1> HIDE DEF f
<1>3. ASSUME NEW n \in 0 .. Len(recs) PROVE g[n] = IF n = 0 THEN << >> ELSE With(g[n - 1], recs[n])
  <2>1. n \in 0 .. Len(q) /\ g[n] = f[n] /\ (n # 0 => g[n - 1] = f[n - 1] /\ q[n] = recs[n])
    BY <1>1
  <2> HIDE DEF g
  <2>2. f[n] = IF n = 0 THEN << >> ELSE With(f[n - 1], q[n])
    BY <1>2, <2>1, CollectsAt
  <2> QED BY <2>1, <2>2
<1>4. g = [n \in 0 .. Len(recs) |-> g[n]]
  OBVIOUS
<1>5. g[Len(recs)] = f[Len(recs)]
  BY <1>1
<1> HIDE DEF g
<1>6. CollectsBytes(recs, g)
  BY <1>3, <1>4, CollectsBy
<1>7. BytesBefore(recs) = g
  BY <1>1, <1>6, BytesUnique DEF BytesBefore
<1>8. Len(q) \in 0 .. Len(q) /\ Len(q) # 0 /\ Len(q) - 1 = Len(recs)
  BY <1>1
<1>9. f[Len(q)] = With(f[Len(recs)], r)
  BY <1>1, <1>2, <1>8, CollectsAt
<1> QED BY <1>5, <1>7, <1>9, BytesOfIs DEF q, f

LEMMA BytesType ==
    ASSUME NEW B, NEW recs \in Seq(Records(B))
    PROVE  BytesOf(recs) \in Seq(B)
<1>1. PICK f \in [0 .. Len(recs) -> Seq(B)] : CollectsBytes(recs, f)
  BY BytesExist
<1>2. BytesBefore(recs) = f
  BY <1>1, BytesUnique DEF BytesBefore
<1> QED BY <1>1, <1>2, BytesOfIs

LEMMA BytesOfConcat ==
    ASSUME NEW B, NEW recs \in Seq(Records(B)), NEW more \in Seq(Records(B))
    PROVE  BytesOf(recs \o more) = BytesOf(recs) \o BytesOf(more)
<1> DEFINE S == {q \in Seq(Records(B)) : BytesOf(recs \o q) = BytesOf(recs) \o BytesOf(q)}
<1>1. << >> \in S
  <2>1. recs \o << >> = recs /\ BytesOf(recs) \o << >> = BytesOf(recs) /\ << >> \in Seq(Records(B))
    BY BytesType
  <2> QED BY <2>1, BytesOfNone
<1>2. ASSUME NEW q \in Seq(Records(B)), NEW r \in Records(B), q \in S PROVE Append(q, r) \in S
  <2>1. /\ recs \o Append(q, r) = Append(recs \o q, r)
        /\ recs \o q \in Seq(Records(B)) /\ Append(q, r) \in Seq(Records(B))
    OBVIOUS
  <2>2. BytesOf(recs \o Append(q, r)) = With(BytesOf(recs) \o BytesOf(q), r)
    BY <1>2, <2>1, BytesOfAppend
  <2>3. BytesOf(Append(q, r)) = With(BytesOf(q), r)
    BY BytesOfAppend
  <2>4. BytesOf(recs) \in Seq(B) /\ BytesOf(q) \in Seq(B)
    BY BytesType
  <2>5. With(BytesOf(recs) \o BytesOf(q), r) = BytesOf(recs) \o With(BytesOf(q), r)
    <3>1. r.is = "key" => r.byte \in B
      BY RecordIs
    <3>2. CASE r.is = "key"
      <4>1. BytesOf(recs) \o Append(BytesOf(q), r.byte) = Append(BytesOf(recs) \o BytesOf(q), r.byte)
        BY <2>4, <3>1, <3>2, AppendConcat
      <4> QED BY <3>2, <4>1 DEF With
    <3>3. CASE r.is # "key"
      BY <3>3 DEF With
    <3> QED BY <3>2, <3>3
  <2> QED BY <2>1, <2>2, <2>3, <2>5
<1> HIDE DEF S
<1>3. Seq(Records(B)) \subseteq S
  BY <1>1, <1>2, SequenceInduction
<1> USE DEF S
<1> QED BY <1>3

\* Records taken from the front, and those that stay.
LEMMA BytesOfParts ==
    ASSUME NEW B, NEW recs \in Seq(Records(B)), NEW n \in 0 .. Len(recs)
    PROVE  /\ SubSeq(recs, 1, n) \in Seq(Records(B))
           /\ SubSeq(recs, n + 1, Len(recs)) \in Seq(Records(B))
           /\ BytesOf(SubSeq(recs, 1, n)) \o BytesOf(SubSeq(recs, n + 1, Len(recs))) = BytesOf(recs)
<1>1. SubSeq(recs, 1, n) \in Seq(Records(B)) /\ SubSeq(recs, n + 1, Len(recs)) \in Seq(Records(B))
  OBVIOUS
<1>2. SubSeq(recs, 1, n) \o SubSeq(recs, n + 1, Len(recs)) = recs
  <2>1. 1 \in 1 .. Len(recs) + 1 /\ n \in 1 - 1 .. Len(recs) /\ Len(recs) \in n .. Len(recs)
    OBVIOUS
  <2>2. SubSeq(recs, 1, n) \o SubSeq(recs, n + 1, Len(recs)) = SubSeq(recs, 1, Len(recs))
    BY <2>1, ConcatAdjacentSubSeq
  <2> QED BY <2>2, SubSeqFull
<1> QED BY <1>1, <1>2, BytesOfConcat

\* A record that is no key at the head gives nothing.
LEMMA BytesOfTail ==
    ASSUME NEW B, NEW recs \in Seq(Records(B)), recs # << >>, Head(recs).is # "key"
    PROVE  Tail(recs) \in Seq(Records(B)) /\ BytesOf(Tail(recs)) = BytesOf(recs)
<1>1. Tail(recs) \in Seq(Records(B)) /\ Head(recs) \in Records(B) /\ << >> \in Seq(Records(B))
  OBVIOUS
<1> DEFINE first == Append(<< >>, Head(recs))
<1>2. first \in Seq(Records(B)) /\ first \o Tail(recs) = recs
  BY <1>1
<1>3. BytesOf(first) = << >>
  BY <1>1, BytesOfAppend, BytesOfNone DEF With
<1>4. BytesOf(Tail(recs)) \in Seq(B)
  BY <1>1, BytesType
<1> HIDE DEF first
<1>5. BytesOf(recs) = << >> \o BytesOf(Tail(recs))
  BY <1>1, <1>2, <1>3, BytesOfConcat
<1> QED BY <1>1, <1>4, <1>5

Keys(recs) == {i \in 1 .. Len(recs) : recs[i].is = "key"}

\* There are as many bytes as keys.
LEMMA KeysCounted ==
    ASSUME NEW B, NEW recs \in Seq(Records(B))
    PROVE  IsFiniteSet(Keys(recs)) /\ Cardinality(Keys(recs)) = Len(BytesOf(recs))
<1> DEFINE S == {q \in Seq(Records(B)) :
                   IsFiniteSet(Keys(q)) /\ Cardinality(Keys(q)) = Len(BytesOf(q))}
<1>1. << >> \in S
  <2>1. Keys(<< >>) = {} /\ << >> \in Seq(Records(B)) /\ Len(<< >>) = 0
    BY DEF Keys
  <2> QED BY <2>1, FS_EmptySet, BytesOfNone
<1>2. ASSUME NEW q \in Seq(Records(B)), NEW r \in Records(B), q \in S PROVE Append(q, r) \in S
  <2>1. /\ Append(q, r) \in Seq(Records(B)) /\ Len(Append(q, r)) = Len(q) + 1 /\ Len(q) \in Nat
        /\ Append(q, r)[Len(q) + 1] = r /\ \A i \in 1 .. Len(q) : Append(q, r)[i] = q[i]
    OBVIOUS
  <2>2. /\ BytesOf(Append(q, r)) = With(BytesOf(q), r) /\ BytesOf(q) \in Seq(B)
        /\ r.is = "key" => r.byte \in B
    BY BytesOfAppend, BytesType, RecordIs
  <2>3. CASE r.is = "key"
    <3>1. Keys(Append(q, r)) = Keys(q) \cup {Len(q) + 1} /\ Len(q) + 1 \notin Keys(q)
      BY <2>1, <2>3 DEF Keys
    <3>2. /\ IsFiniteSet(Keys(Append(q, r)))
          /\ Cardinality(Keys(Append(q, r))) = Cardinality(Keys(q)) + 1
      BY <1>2, <3>1, FS_AddElement
    <3>3. Len(With(BytesOf(q), r)) = Len(BytesOf(q)) + 1
      BY <2>2, <2>3 DEF With
    <3> QED BY <1>2, <2>1, <2>2, <3>2, <3>3
  <2>4. CASE r.is # "key"
    <3>1. Keys(Append(q, r)) = Keys(q)
      BY <2>1, <2>4 DEF Keys
    <3> QED BY <1>2, <2>1, <2>2, <2>4, <3>1 DEF With
  <2> QED BY <2>3, <2>4
<1> HIDE DEF S
<1>3. Seq(Records(B)) \subseteq S
  BY <1>1, <1>2, SequenceInduction
<1> USE DEF S
<1> QED BY <1>3

\* How many records a read takes: a byte at least, and no more than fit.
LEMMA ReadTakes ==
    ASSUME NEW B, queue \in Seq(Records(B)), \E i \in DOMAIN queue : queue[i].is = "key"
    PROVE  /\ Read \in 0 .. Len(queue)
           /\ BytesOf(SubSeq(queue, 1, Read)) \in Seq(B)
           /\ Len(BytesOf(SubSeq(queue, 1, Read))) \in 1 .. BufferSize
<1> DEFINE Before(n) == {i \in 1 .. n : queue[i].is = "key"}
           Fit == {n \in 0 .. Len(queue) : Cardinality(Before(n)) <= BufferSize}
<1>1. BufferSize \in Nat /\ BufferSize > 0 /\ Len(queue) \in Nat
  BY ConsoleAssumption
<1>2. ASSUME NEW n \in 0 .. Len(queue)
      PROVE  /\ BytesOf(SubSeq(queue, 1, n)) \in Seq(B)
             /\ IsFiniteSet(Before(n)) /\ Cardinality(Before(n)) = Len(BytesOf(SubSeq(queue, 1, n)))
  <2>1. SubSeq(queue, 1, n) \in Seq(Records(B))
    BY BytesOfParts
  <2>2. Len(SubSeq(queue, 1, n)) = n /\ \A i \in 1 .. n : SubSeq(queue, 1, n)[i] = queue[i]
    OBVIOUS
  <2>3. Keys(SubSeq(queue, 1, n)) = Before(n)
    BY <2>2 DEF Keys
  <2> QED BY <2>1, <2>3, BytesType, KeysCounted
<1>3. 0 \in Fit
  <2>1. Before(0) = {}
    OBVIOUS
  <2> QED BY <1>1, <2>1, FS_EmptySet
<1>4. Read = Max(Fit)
  BY DEF Read
<1>5. Fit \subseteq 0 .. Len(queue) /\ Fit # {}
  BY <1>3
<1>6. PICK k \in DOMAIN queue : queue[k].is = "key"
  OBVIOUS
<1>7. \A n \in Fit : Cardinality(Before(n)) <= BufferSize
  OBVIOUS
<1>8. ASSUME NEW n \in Fit, Cardinality(Before(n)) = 0 PROVE n + 1 \in Fit
  <2>1. n \in 0 .. Len(queue) /\ k \in 1 .. Len(queue)
    BY <1>6
  <2>2. Before(n) = {}
    BY <1>2, <1>8, <2>1, FS_EmptySet
  <2>3. n + 1 \in 0 .. Len(queue)
    BY <1>6, <2>1, <2>2
  <2>4. Before(n + 1) \subseteq {n + 1}
    BY <2>1, <2>2
  <2>5. IsFiniteSet({n + 1}) /\ Cardinality({n + 1}) = 1
    BY FS_Singleton
  <2>6. Cardinality(Before(n + 1)) <= 1
    BY <2>4, <2>5, FS_Subset
  <2> QED BY <1>1, <1>2, <2>3, <2>6, FS_CardinalityType
<1> HIDE DEF Fit, Before
<1>9. PICK m \in Fit : \A n \in Fit : m >= n
  BY <1>1, <1>5, GreatestNumber
<1>10. Read \in Fit /\ \A n \in Fit : Read >= n
  BY <1>4, <1>9 DEF Max
<1>11. Read \in 0 .. Len(queue)
  BY <1>5, <1>10
<1>12. Cardinality(Before(Read)) # 0
  BY <1>8, <1>10, <1>11
<1>13. Len(BytesOf(SubSeq(queue, 1, Read))) \in Nat
  BY <1>2, <1>11
<1> QED BY <1>1, <1>2, <1>7, <1>10, <1>11, <1>12, <1>13

-----------------------------------------------------------------------------
(* Types. *)

Told == {Input(bytes) : bytes \in Reads} \cup {Size(SizeOf(w)) : w \in Windows}

ControlTyped ==
    /\ ModesInv
    /\ pc \in {"new", "set_in", "set_out", "set_out_again", "wrap", "turn", "drain", "peek", "wait", "read",
              "resize", "failed", "ended"}
    /\ mode \in [in: {"cooked", "raw"}, out: {"cooked", "raw"}]
    /\ refused \subseteq DOMAIN Original
    /\ enabled => InLoop

WorldTyped ==
    /\ count \in [{"records", "resizes", "prints"} -> Nat]
    /\ count["records"] <= MaxRecords /\ count["prints"] <= Len(Texts)
    /\ typed \in Nat /\ typed <= count["records"]
    /\ window \in Windows

\* A byte in the queue is that of a key pressed, and what a read took is not
\* longer than its buffer.
DataTyped ==
    /\ left \in 0 .. PollTime
    /\ queue \in Seq(Records(1 .. typed))
    /\ sent \in Seq(Told)
    /\ last_ti = << >> \/ last_ti \in Seq(Nat \ {0})

TypeInv == ControlTyped /\ WorldTyped /\ DataTyped

LEMMA SizeTyped ==
    ASSUME NEW w \in Windows
    PROVE  SizeOf(w) \in Seq(Nat \ {0})
<1>1. w \in Seq(Nat) /\ DefaultSize \in Seq(Nat \ {0})
  BY ConsoleAssumption
<1>2. ASSUME NEW n \in Nat PROVE Max({n, 1}) \in Nat \ {0}
  <2> DEFINE m == IF n >= 1 THEN n ELSE 1
  <2>1. m \in {n, 1} /\ \A y \in {n, 1} : m >= y
    OBVIOUS
  <2>2. Max({n, 1}) \in {n, 1} /\ \A y \in {n, 1} : Max({n, 1}) >= y
    BY <2>1 DEF Max
  <2> QED BY <2>2
<1>3. CASE w = << >>
  BY <1>1, <1>3 DEF SizeOf
<1>4. CASE w # << >>
  <2>1. SizeOf(w) = [i \in 1 .. Len(w) |-> Max({w[i], 1})]
    BY <1>1, <1>4 DEF SizeOf
  <2>2. \A i \in 1 .. Len(w) : Max({w[i], 1}) \in Nat \ {0}
    BY <1>1, <1>2
  <2>3. Len(w) \in Nat
    BY <1>1
  <2> QED BY <2>1, <2>2, <2>3
<1> QED BY <1>3, <1>4

LEMMA RecordsMonotonic ==
    ASSUME NEW B, NEW C, B \subseteq C, NEW q \in Seq(Records(B))
    PROVE  q \in Seq(Records(C))
BY DEF Records

\* What a read may take.
LEMMA InputTold ==
    ASSUME NEW n \in Nat, n <= MaxRecords, NEW bytes \in Seq(1 .. n), Len(bytes) \in 1 .. BufferSize
    PROVE  bytes \in Reads /\ Input(bytes) \in Told
<1>1. MaxRecords \in Nat
  BY ConsoleAssumption
<1>2. bytes \in [1 .. Len(bytes) -> 1 .. MaxRecords]
  BY <1>1
<1> QED BY <1>2 DEF Reads, Told

LEMMA InitTyped == Init => TypeInv
<1> SUFFICES ASSUME Init PROVE TypeInv
  OBVIOUS
<1>1. PollTime \in Nat /\ MaxRecords \in Nat /\ Len(Texts) \in Nat
  BY ConsoleAssumption
<1>2. ControlTyped
  BY InitModes DEF Init, ControlTyped, Original
<1>3. WorldTyped
  BY <1>1 DEF Init, WorldTyped
<1>4. << >> \in Seq(Records(1 .. typed)) /\ << >> \in Seq(Told)
  OBVIOUS
<1>5. DataTyped
  BY <1>1, <1>4 DEF Init, DataTyped
<1> QED BY <1>2, <1>3, <1>5 DEF TypeInv

LEMMA StepControl == ControlTyped /\ [Next]_vars => ControlTyped'
<1> SUFFICES ASSUME ControlTyped, [Next]_vars PROVE ControlTyped'
  OBVIOUS
<1>1. ModesInv'
  BY StepModes DEF ControlTyped
<1> USE DEF ControlTyped, InLoop
<1>2. CASE GetModes
  BY <1>1, <1>2 DEF GetModes
<1>3. CASE SetInputMode
  BY <1>1, <1>3 DEF SetInputMode
<1>4. CASE SetOutputMode
  BY <1>1, <1>4 DEF SetOutputMode
<1>5. CASE ReassertWrap
  BY <1>1, <1>5 DEF ReassertWrap
<1>6. CASE Teardown /\ InLoop
  <2>1. saved \in [in: {"cooked", "raw"}, out: {"cooked", "raw"}]
    BY <1>6 DEF ModesInv, Original
  <2>2. refused' \subseteq DOMAIN Original
    BY <1>6 DEF Teardown, SetBack, ModesInv
  <2>3. mode' \in [in: {"cooked", "raw"}, out: {"cooked", "raw"}]
    BY <1>6, <2>1 DEF Teardown, SetBack
  <2> QED BY <1>1, <1>6, <2>2, <2>3 DEF Teardown
<1>7. CASE Turn \/ PollFails
  <2>1. InLoop
    BY <1>7 DEF Turn, PollFails
  <2>2. Teardown \/ (UNCHANGED console /\ pc' = "drain")
    BY <1>7 DEF Turn, PollFails
  <2> QED BY <1>1, <1>6, <2>1, <2>2 DEF console
<1>8. CASE \/ Drain \/ DrainEnds \/ Peek \/ Signaled \/ WaitTimesOut \/ WaitFails
           \/ ReadReturns \/ ReadAborted \/ Resize
  <2>1. UNCHANGED console /\ pc' \in {"turn", "drain", "peek", "wait", "read", "resize"}
    BY <1>8 DEF Drain, DrainEnds, Peek, Signaled, WaitTimesOut, WaitFails, ReadReturns,
                ReadAborted, Resize
  <2> QED BY <1>1, <2>1 DEF console
<1>9. CASE World \/ Ended \/ UNCHANGED vars
  <2>1. UNCHANGED <<pc, console>>
    BY <1>9 DEF World, Type, MoveMouse, ResizeWindow, ServerPrints, Tick, Ended, vars
  <2> QED BY <1>1, <2>1 DEF console
<1> QED BY <1>2, <1>3, <1>4, <1>5, <1>7, <1>8, <1>9 DEF Next, Proceeds, Fails

LEMMA CountedTyped ==
    ASSUME WorldTyped, NEW what \in {"records", "resizes", "prints"}, NEW bound \in Nat,
           Counted(what, bound)
    PROVE  /\ count' \in [{"records", "resizes", "prints"} -> Nat]
           /\ count'[what] = count[what] + 1 /\ count'[what] <= bound
           /\ \A other \in {"records", "resizes", "prints"} :
                 other # what => count'[other] = count[other]
<1>1. count' = [count EXCEPT ![what] = count[what] + 1] /\ count[what] < bound
  BY DEF Counted
<1> QED BY <1>1 DEF WorldTyped

LEMMA StepWorld == WorldTyped /\ [Next]_vars => WorldTyped'
<1> SUFFICES ASSUME WorldTyped, [Next]_vars PROVE WorldTyped'
  OBVIOUS
<1>1. MaxRecords \in Nat /\ MaxResized \in Nat /\ Len(Texts) \in Nat
  BY ConsoleAssumption
<1>2. CASE Type
  <2>1. Counted("records", MaxRecords) /\ typed' \in {typed, typed + 1} /\ UNCHANGED window
    BY <1>2 DEF Type
  <2>2. /\ count' \in [{"records", "resizes", "prints"} -> Nat]
        /\ count'["records"] = count["records"] + 1 /\ count'["records"] <= MaxRecords
        /\ count'["prints"] = count["prints"]
    BY <1>1, <2>1, CountedTyped
  <2> QED BY <2>1, <2>2 DEF WorldTyped
<1>3. CASE MoveMouse
  <2>1. Counted("records", MaxRecords) /\ UNCHANGED <<typed, window>>
    BY <1>3 DEF MoveMouse
  <2>2. /\ count' \in [{"records", "resizes", "prints"} -> Nat]
        /\ count'["records"] = count["records"] + 1 /\ count'["records"] <= MaxRecords
        /\ count'["prints"] = count["prints"]
    BY <1>1, <2>1, CountedTyped
  <2> QED BY <2>1, <2>2 DEF WorldTyped
<1>4. CASE ResizeWindow
  <2>1. Counted("resizes", MaxResized) /\ window' \in Windows /\ UNCHANGED typed
    BY <1>4 DEF ResizeWindow
  <2>2. /\ count' \in [{"records", "resizes", "prints"} -> Nat]
        /\ count'["records"] = count["records"] /\ count'["prints"] = count["prints"]
    BY <1>1, <2>1, CountedTyped
  <2> QED BY <2>1, <2>2 DEF WorldTyped
<1>5. CASE ServerPrints
  <2>1. Counted("prints", Len(Texts)) /\ UNCHANGED <<typed, window>>
    BY <1>5 DEF ServerPrints
  <2>2. /\ count' \in [{"records", "resizes", "prints"} -> Nat]
        /\ count'["records"] = count["records"] /\ count'["prints"] <= Len(Texts)
    BY <1>1, <2>1, CountedTyped
  <2> QED BY <2>1, <2>2 DEF WorldTyped
<1>6. CASE Proceeds \/ Fails \/ Tick \/ Ended \/ UNCHANGED vars
  <2>1. UNCHANGED world
    BY <1>6 DEF Proceeds, Fails, GetModes, SetInputMode, SetOutputMode, ReassertWrap, Turn, Drain,
               DrainEnds, Peek, Signaled, WaitTimesOut, ReadReturns, Resize, WaitFails, ReadAborted, PollFails,
               Tick, Ended, vars
  <2> QED BY <2>1 DEF world, WorldTyped
<1> QED BY <1>2, <1>3, <1>4, <1>5, <1>6 DEF Next, World

\* What most steps leave alone.
LEMMA DataKept ==
    ASSUME DataTyped, UNCHANGED <<queue, sent, last_ti, typed>>, left' \in 0 .. PollTime
    PROVE  DataTyped'
BY DEF DataTyped

LEMMA DrainTyped == DataTyped /\ Drain => DataTyped'
BY DEF Drain, DataTyped, world

\* Of a read: which records are its own, and which stay.
LEMMA ReadTyped ==
    ASSUME WorldTyped, DataTyped, ReadReturns
    PROVE  /\ DataTyped'
           /\ Read \in 0 .. Len(queue)
           /\ BytesOf(SubSeq(queue, 1, Read)) \in Reads
<1> DEFINE bytes == BytesOf(SubSeq(queue, 1, Read))
<1>1. /\ sent' = Append(sent, Input(bytes))
      /\ queue' = SubSeq(queue, Read + 1, Len(queue))
      /\ UNCHANGED <<left, last_ti, typed>>
  BY DEF ReadReturns, world
<1>2. queue \in Seq(Records(1 .. typed)) /\ \E i \in DOMAIN queue : queue[i].is = "key"
  BY DEF ReadReturns, DataTyped
<1>3. Read \in 0 .. Len(queue) /\ bytes \in Seq(1 .. typed) /\ Len(bytes) \in 1 .. BufferSize
  BY <1>2, ReadTakes
<1>4. typed \in Nat /\ typed <= MaxRecords
  BY ConsoleAssumption DEF WorldTyped
<1> HIDE DEF bytes
<1>5. bytes \in Reads /\ Input(bytes) \in Told
  BY <1>3, <1>4, InputTold
<1>6. queue' \in Seq(Records(1 .. typed))
  BY <1>1, <1>2, <1>3, BytesOfParts
<1>7. sent' \in Seq(Told)
  BY <1>1, <1>5 DEF DataTyped
<1>8. DataTyped'
  BY <1>1, <1>6, <1>7 DEF DataTyped
<1> QED BY <1>3, <1>5, <1>8 DEF bytes

LEMMA ResizeTyped == WorldTyped /\ DataTyped /\ Resize => DataTyped'
<1> SUFFICES ASSUME WorldTyped, DataTyped, Resize PROVE DataTyped'
  OBVIOUS
<1>1. window \in Windows /\ TerminalSize = SizeOf(window)
  BY DEF WorldTyped, TerminalSize
<1>2. Size(TerminalSize) \in Told /\ TerminalSize \in Seq(Nat \ {0})
  BY <1>1, SizeTyped DEF Told
<1>3. UNCHANGED <<queue, left, typed>>
  BY DEF Resize, world
<1>4. CASE TerminalSize # last_ti
  <2>1. last_ti' = TerminalSize /\ sent' = Append(sent, Size(TerminalSize))
    BY <1>4 DEF Resize
  <2>2. sent' \in Seq(Told)
    BY <1>2, <2>1 DEF DataTyped
  <2> QED BY <1>2, <1>3, <2>1, <2>2 DEF DataTyped
<1>5. CASE TerminalSize = last_ti
  BY <1>3, <1>5 DEF Resize, DataTyped
<1> QED BY <1>4, <1>5

LEMMA TypeTyped == WorldTyped /\ DataTyped /\ Type => DataTyped'
<1> SUFFICES ASSUME WorldTyped, DataTyped, Type PROVE DataTyped'
  OBVIOUS
<1>1. UNCHANGED <<left, sent, last_ti>> /\ typed \in Nat
  BY DEF Type, WorldTyped
<1>2. CASE queue' = queue \o <<Pressed(typed + 1), Other>> /\ typed' = typed + 1
  <2>1. 1 .. typed \subseteq 1 .. typed' /\ typed + 1 \in 1 .. typed'
    BY <1>1, <1>2
  <2>2. queue \in Seq(Records(1 .. typed')) /\ <<Pressed(typed + 1), Other>> \in Seq(Records(1 .. typed'))
    BY <2>1, RecordsMonotonic DEF DataTyped, Records
  <2> QED BY <1>1, <1>2, <2>2 DEF DataTyped
<1>3. CASE queue' = queue \o <<Modifier, Other>> /\ typed' = typed
  <2>1. <<Modifier, Other>> \in Seq(Records(1 .. typed))
    BY DEF Records
  <2> QED BY <1>1, <1>3, <2>1 DEF DataTyped
<1> QED BY <1>2, <1>3 DEF Type

LEMMA OtherTyped == DataTyped /\ (MoveMouse \/ ResizeWindow) => DataTyped'
<1> SUFFICES ASSUME DataTyped, MoveMouse \/ ResizeWindow PROVE DataTyped'
  OBVIOUS
<1>1. queue' = Append(queue, Other) /\ UNCHANGED <<left, sent, last_ti, typed>>
  BY DEF MoveMouse, ResizeWindow
<1>2. Other \in Records(1 .. typed)
  BY DEF Records
<1> QED BY <1>1, <1>2 DEF DataTyped

LEMMA StepData == WorldTyped /\ DataTyped /\ [Next]_vars => DataTyped'
<1> SUFFICES ASSUME WorldTyped, DataTyped, [Next]_vars PROVE DataTyped'
  OBVIOUS
<1>1. PollTime \in Nat /\ left \in 0 .. PollTime
  BY ConsoleAssumption DEF DataTyped
<1>2. CASE GetModes \/ SetInputMode \/ SetOutputMode \/ ReassertWrap \/ DrainEnds \/ Peek \/ Signaled
           \/ WaitTimesOut \/ WaitFails \/ ReadAborted \/ PollFails \/ Ended \/ UNCHANGED vars
  <2>1. UNCHANGED <<queue, sent, last_ti, typed, left>>
    BY <1>2 DEF GetModes, SetInputMode, SetOutputMode, ReassertWrap, DrainEnds, Peek, Signaled,
               WaitTimesOut, WaitFails, ReadAborted, PollFails, Ended, vars, poll, world
  <2> QED BY <1>1, <2>1, DataKept
<1>3. CASE Turn \/ Tick \/ ServerPrints
  <2>1. UNCHANGED <<queue, sent, last_ti, typed>> /\ left' \in 0 .. PollTime
    BY <1>1, <1>3 DEF Turn, Tick, ServerPrints, world, poll
  <2> QED BY <2>1, DataKept
<1> QED BY <1>2, <1>3, DrainTyped, ReadTyped, ResizeTyped, TypeTyped, OtherTyped
       DEF Next, Proceeds, Fails, World

LEMMA TypingHolds == TypeInv => ConsoleTypeOK
<1> SUFFICES ASSUME TypeInv PROVE ConsoleTypeOK
  OBVIOUS
<1>1. \A i \in DOMAIN queue : queue[i] \in {Modifier, Other} \cup {Pressed(b) : b \in 1 .. typed}
  BY DEF TypeInv, DataTyped, Records
<1>2. ASSUME NEW i \in DOMAIN sent, sent[i].type = "TerminalBuffer"
      PROVE  Len(sent[i].values[1][1]) \in 1 .. BufferSize
  <2>1. sent[i] \in Told
    BY <1>2 DEF TypeInv, DataTyped
  <2>2. PICK bytes \in Reads : sent[i] = Input(bytes)
    BY <1>2, <2>1 DEF Told, Size, Message
  <2>3. PICK n \in 1 .. BufferSize : bytes \in [1 .. n -> 1 .. MaxRecords]
    BY DEF Reads
  <2>4. Len(bytes) = n
    BY <2>3
  <2>5. sent[i].values[1][1] = bytes
    BY <2>2 DEF Input, Message
  <2> QED BY <2>4, <2>5
<1> QED BY <1>1, <1>2 DEF TypeInv, ControlTyped, DataTyped, ConsoleTypeOK, InLoop

LEMMA TypingInvariance == Spec => []TypeInv
<1>1. TypeInv /\ [Next]_vars => TypeInv'
  BY StepControl, StepWorld, StepData DEF TypeInv
<1> QED BY <1>1, InitTyped, PTL DEF Spec

\* The variables of the console keep their types: no step of the loop runs
\* without the modes set, a byte in the queue is that of a key pressed, and no
\* packet holds more of them than the read's buffer or none.
THEOREM ConsoleTyping == Spec => []ConsoleTypeOK
BY TypingInvariance, TypingHolds, PTL

-----------------------------------------------------------------------------
(* Bytes, in both directions, and the size. *)

Arriving == UNION {Payloads[n] : n \in DOMAIN Texts}

DataInv ==
    /\ BytesIntact
    /\ arrived \in Seq(Arriving) /\ shown \in Seq(Nat)

LEMMA SizeFits ==
    ASSUME NEW w \in Windows
    PROVE  SizeOf(w)[1] \in 1 .. (Word \div 2) - 1 /\ SizeOf(w)[2] \in 1 .. (Word \div 2) - 1
<1>1. /\ DefaultSize \in Seq(Nat \ {0}) /\ Len(DefaultSize) = 2
      /\ \A i \in {1, 2} : DefaultSize[i] < Word \div 2
      /\ w \in Seq(Nat)
  BY ConsoleAssumption, SizesAssumption
<1>2. Word \in Nat /\ Word >= 16
  BY CodecAssumption
<1>3. CASE w = << >>
  <2>1. SizeOf(w) = DefaultSize
    BY <1>3 DEF SizeOf
  <2>2. DefaultSize[1] \in Nat \ {0} /\ DefaultSize[2] \in Nat \ {0}
    <3>1. \A i \in 1 .. Len(DefaultSize) : DefaultSize[i] \in Nat \ {0}
      BY <1>1, ElementOfSeq
    <3>2. 1 .. 2 = {1, 2}
      OBVIOUS
    <3> QED BY <1>1, <3>1, <3>2
  <2> QED BY <1>1, <1>2, <2>1, <2>2
<1>4. CASE w # << >>
  <2>1. Len(w) = 2 /\ \A i \in {1, 2} : w[i] < Word \div 2
    BY <1>4, SizesAssumption
  <2>2. w[1] \in Nat /\ w[2] \in Nat /\ DOMAIN w = {1, 2}
    <3>1. \A i \in 1 .. Len(w) : w[i] \in Nat
      BY <1>1
    <3>2. DOMAIN w = 1 .. Len(w) /\ 1 .. 2 = {1, 2}
      BY <1>1
    <3> QED BY <2>1, <3>1, <3>2
  <2>3. SizeOf(w) = [i \in DOMAIN w |-> Max({w[i], 1})]
    BY <1>4 DEF SizeOf
  <2>4. SizeOf(w)[1] = Max({w[1], 1}) /\ SizeOf(w)[2] = Max({w[2], 1})
    BY <2>2, <2>3
  <2>5. ASSUME NEW n \in Nat, n < Word \div 2
        PROVE  Max({n, 1}) \in 1 .. (Word \div 2) - 1
    <3>1. {n, 1} \subseteq Nat /\ {n, 1} # {} /\ \A x \in {n, 1} : x <= n + 1
      OBVIOUS
    <3>2. \E m \in {n, 1} : \A x \in {n, 1} : x <= m
      OBVIOUS
    <3>3. Max({n, 1}) \in {n, 1} /\ \A x \in {n, 1} : x <= Max({n, 1})
      BY <3>2 DEF Max
    <3>4. Word \div 2 >= 8
      BY <1>2
    <3> QED BY <2>5, <3>3, <3>4, <1>2
  <2> QED BY <2>1, <2>2, <2>4, <2>5
<1> QED BY <1>3, <1>4

LEMMA ReadLength ==
    ASSUME NEW bytes \in Reads
    PROVE  bytes \in Seq(Nat) /\ Len(bytes) < Long
<1>1. PICK n \in 1 .. BufferSize : bytes \in [1 .. n -> 1 .. MaxRecords]
  BY DEF Reads
<1>2. BufferSize \in Nat /\ MaxRecords \in Nat /\ BufferSize < Long /\ Long \in Nat
  BY ConsoleAssumption, SizesAssumption, CodecAssumption
<1>3. bytes \in Seq(Nat) /\ Len(bytes) = n
  BY <1>1, <1>2
<1> QED BY <1>1, <1>2, <1>3

\* A read's bytes and a text are a TerminalBuffer's one field.
LEMMA BufferBody ==
    ASSUME NEW bytes \in Seq(Nat), Len(bytes) < Long
    PROVE  /\ <<<<bytes>>>> \in Bodies("TerminalBuffer")
           /\ Decode("TerminalBuffer", Encode("TerminalBuffer", <<<<bytes>>>>)) = <<<<bytes>>>>
<1>1. "TerminalBuffer" \in DOMAIN Fields /\ Fields["TerminalBuffer"] = <<"bytes">>
  BY DEF Fields
<1>2. bytes \in ValuesOf("bytes") /\ "bytes" \in AllTypes
  BY DEF ValuesOf, WireType, AllTypes
<1>3. <<bytes>> \in Contained("bytes")
  BY <1>2, OneContained
<1> DEFINE values == <<<<bytes>>>>
<1>4. values \in Seq(Contained("bytes")) /\ Len(values) = 1 /\ values[1] = <<bytes>>
  BY <1>3
<1>5. Len(Fields["TerminalBuffer"]) = 1 /\ Fields["TerminalBuffer"][1] = "bytes"
  BY <1>1
<1> HIDE DEF values
<1>6. \A f \in 1 .. Len(values) : values[f] \in Contained(Fields["TerminalBuffer"][f])
  BY <1>3, <1>4, <1>5
<1>7. values \in Bodies("TerminalBuffer") /\ Decode("TerminalBuffer", Encode("TerminalBuffer", values)) = values
  BY <1>1, <1>4, <1>5, <1>6, ReadBack
<1> QED BY <1>7 DEF values

LEMMA SizeBody ==
    ASSUME NEW r \in ValuesOf("int32"), NEW c \in ValuesOf("int32")
    PROVE  LET values == <<<< >>, <<r>>, <<c>>, << >>, << >>>>
           IN  Decode("TerminalInfo", Encode("TerminalInfo", values)) = values
<1> DEFINE values == <<<< >>, <<r>>, <<c>>, << >>, << >>>>
           types == Fields["TerminalInfo"]
           T == Contained("bytes") \cup Contained("int32")
<1>1. "TerminalInfo" \in DOMAIN Fields /\ types = <<"bytes", "int32", "int32", "int32", "int32">>
  BY DEF Fields
<1>2. "bytes" \in AllTypes /\ "int32" \in AllTypes
  BY DEF AllTypes
<1>3. <<r>> \in Contained("int32") /\ <<c>> \in Contained("int32")
  BY <1>2, OneContained
<1>4. << >> \in Contained("bytes") /\ << >> \in Contained("int32")
  BY <1>2, NoneContained
<1>5. values \in Seq(T) /\ Len(values) = 5
  BY <1>3, <1>4
<1>6. /\ values[1] = << >> /\ values[2] = <<r>> /\ values[3] = <<c>>
      /\ values[4] = << >> /\ values[5] = << >>
  OBVIOUS
<1>7. /\ Len(types) = 5 /\ types[1] = "bytes" /\ types[2] = "int32" /\ types[3] = "int32"
      /\ types[4] = "int32" /\ types[5] = "int32"
  BY <1>1
<1> HIDE DEF values, types, T
<1>8. ASSUME NEW f \in 1 .. Len(values) PROVE values[f] \in Contained(types[f])
  <2>1. f \in {1, 2, 3, 4, 5}
    BY <1>5
  <2> QED BY <1>3, <1>4, <1>6, <1>7, <2>1
<1>9. Decode("TerminalInfo", Encode("TerminalInfo", values)) = values
  BY <1>1, <1>5, <1>7, <1>8, ReadBack DEF types
<1> QED BY <1>9 DEF values

\* The fields that a TerminalBuffer does not have are skipped.
LEMMA UnknownSkipped ==
    ASSUME NEW fields \in Unknown
    PROVE  /\ fields \in Seq(Nat)
           /\ \E a \in Seq(Known) :
                 ReadsAs(fields, a) /\ \A i \in 1 .. Len(a) : a[i].number \notin {1}
<1>1. CASE fields = << >>
  <2>1. << >> \in Seq(Nat) /\ << >> \in Seq(Known) /\ Len(<< >>) = 0
    OBVIOUS
  <2>2. \A i \in 1 .. Len(<< >>) : << >>[i].number \notin {1}
    BY <2>1
  <2>3. ReadsAs(<< >>, << >>)
    BY ReadsNothing
  <2>4. \E a \in Seq(Known) : ReadsAs(<< >>, a) /\ \A i \in 1 .. Len(a) : a[i].number \notin {1}
    BY <2>1, <2>2, <2>3
  <2> QED BY <1>1, <2>1, <2>4
<1>2. CASE fields # << >>
  <2> DEFINE s == WriteTag(9, FIXED32) \o <<1, 2, 3, 0>>
             t == WriteField(2, "int32", -1)
             x == [number |-> 9, wire |-> FIXED32, value |-> <<1, 2, 3, 0>>, error |-> FALSE]
             y == FieldOf(2, "int32", -1)
  <2>1. fields = s \o t
    BY <1>2 DEF Unknown
  <2>2. 9 < Word /\ 2 < Word /\ Word \in Nat /\ Word >= 16
    BY CodecAssumption
  <2>3. <<1, 2, 3, 0>> \in Seq(Nat) /\ Len(<<1, 2, 3, 0>>) = 4
    OBVIOUS
  <2>4. FIXED32 \in 0 .. 7
    BY DEF FIXED32
  <2>5. TakesAs(FIXED32, <<1, 2, 3, 0>>, <<1, 2, 3, 0>>)
    BY <2>3, TakesFixed32
  <2>6. ReadsAs(s, <<x>>)
    <3>1. 9 \in Nat
      OBVIOUS
    <3> QED BY <2>2, <2>3, <2>4, <2>5, <3>1, ReadsField
  <2>7. s \in Seq(Nat)
    <3>1. WriteTag(9, FIXED32) \in Seq(Nat)
      BY <2>2, <2>4, TagType
    <3> QED BY <2>3, <3>1, ConcatProperties
  <2>8. x \in Known /\ x.number = 9
    <3>1. x.number = 9
      OBVIOUS
    <3> QED BY <2>3, <2>4, <3>1 DEF Known
  <2>9. -1 \in ValuesOf("int32") /\ "int32" \in AllTypes
    BY <2>2 DEF ValuesOf, WireType, VARINT, DELIMITED, AllTypes
  <2>10. t \in Seq(Nat) /\ ReadsAs(t, <<y>>) /\ y \in Known
    BY <2>2, <2>9, FieldWritten
  <2>11. y.number = 2
    BY DEF FieldOf
  <2> HIDE DEF s, t, x, y
  <2>12. <<x>> \in Seq(AnyField) /\ <<y>> \in Seq(AnyField)
    BY <2>8, <2>10 DEF AnyField
  <2>13. ReadsAs(fields, <<x>> \o <<y>>)
    BY <2>1, <2>6, <2>7, <2>10, <2>12, ReadsConcat
  <2>14. /\ <<x>> \o <<y>> \in Seq(Known) /\ Len(<<x>> \o <<y>>) = 2
         /\ (<<x>> \o <<y>>)[1] = x /\ (<<x>> \o <<y>>)[2] = y
    BY <2>8, <2>10
  <2>15. \A i \in 1 .. Len(<<x>> \o <<y>>) : (<<x>> \o <<y>>)[i].number \notin {1}
    <3>1. ASSUME NEW i \in 1 .. 2 PROVE i = 1 \/ i = 2
      OBVIOUS
    <3> QED BY <2>8, <2>11, <2>14, <3>1
  <2>16. fields \in Seq(Nat)
    BY <2>1, <2>7, <2>10, ConcatProperties
  <2> QED BY <2>13, <2>14, <2>15, <2>16
<1> QED BY <1>1, <1>2

LEMMA MeantIs ==
    ASSUME NEW m \in Told
    PROVE  Meant[m] = Decode(m.type, Encode(m.type, m.values))
BY DEF Meant, Meanings, Told

\* Every packet of the client is read as it was written, and every payload of
\* the server: whatever is typed, printed, and known of the window, and though
\* there are fields before it that the client does not know.
THEOREM PacketsReadAsWritten == ReadAsWritten
<1>1. ASSUME NEW bytes \in Reads PROVE InputIn(Input(bytes)) = bytes
  <2> DEFINE packet == Input(bytes)
  <2>1. bytes \in Seq(Nat) /\ Len(bytes) < Long
    BY ReadLength
  <2>2. packet \in Told
    BY DEF Told
  <2>3. packet.type = "TerminalBuffer" /\ packet.values = <<<<bytes>>>>
    BY DEF Input, Message
  <2> HIDE DEF packet
  <2>4. Meant[packet] = <<<<bytes>>>>
    BY <2>1, <2>2, <2>3, MeantIs, BufferBody
  <2>5. Meant[packet][1] = <<bytes>>
    BY <2>4
  <2>6. InputIn(packet) = FlattenSeq(<<bytes>>)
    BY <2>3, <2>5 DEF InputIn
  <2>7. FlattenSeq(<<bytes>>) = bytes
    BY <2>1, FlattenOfSingle
  <2> QED BY <2>6, <2>7 DEF packet
<1>2. ASSUME NEW w \in Windows PROVE Meant[Size(SizeOf(w))] = Size(SizeOf(w)).values
  <2> DEFINE packet == Size(SizeOf(w))
             r == SizeOf(w)[1]
             c == SizeOf(w)[2]
  <2>1. Word \in Nat /\ Word >= 16
    BY CodecAssumption
  <2>2. r \in ValuesOf("int32") /\ c \in ValuesOf("int32")
    <3>1. r \in 1 .. (Word \div 2) - 1 /\ c \in 1 .. (Word \div 2) - 1
      BY SizeFits
    <3> QED BY <2>1, <3>1 DEF ValuesOf, WireType, VARINT, DELIMITED
  <2>3. packet \in Told
    BY DEF Told
  <2>4. packet.type = "TerminalInfo" /\ packet.values = <<<< >>, <<r>>, <<c>>, << >>, << >>>>
    BY DEF Size, Message
  <2> HIDE DEF packet, r, c
  <2>5. Meant[packet] = packet.values
    BY <2>2, <2>3, <2>4, MeantIs, SizeBody
  <2> QED BY <2>5 DEF packet
<1>3. ASSUME NEW n \in DOMAIN Texts, NEW payload \in Payloads[n] PROVE Contents[payload] = Texts[n]
  <2> DEFINE text == Texts[n]
             values == <<<<text>>>>
  <2>1. text \in Seq(Nat) /\ Len(text) < Long
    BY ConsoleAssumption, SizesAssumption
  <2>2. PICK fields \in Unknown : payload = fields \o Encode("TerminalBuffer", values)
    BY DEF Payloads
  <2>3. /\ fields \in Seq(Nat)
        /\ \E a \in Seq(Known) : ReadsAs(fields, a) /\ \A i \in 1 .. Len(a) : a[i].number \notin {1}
    BY UnknownSkipped
  <2>4. PICK a \in Seq(Known) : ReadsAs(fields, a) /\ \A i \in 1 .. Len(a) : a[i].number \notin {1}
    BY <2>3
  <2>5. "TerminalBuffer" \in DOMAIN Fields /\ DOMAIN Fields["TerminalBuffer"] = {1}
    <3>1. "TerminalBuffer" \in DOMAIN Fields /\ Fields["TerminalBuffer"] = <<"bytes">>
      BY DEF Fields
    <3>2. DOMAIN <<"bytes">> = {1}
      OBVIOUS
    <3> QED BY <3>1, <3>2
  <2> HIDE DEF text
  <2>6. values \in Bodies("TerminalBuffer")
    BY <2>1, BufferBody
  <2>7. values[1] = <<text>>
    OBVIOUS
  <2> HIDE DEF values
  <2>8. Decode("TerminalBuffer", payload) = values
    BY <2>2, <2>3, <2>4, <2>5, <2>6, DecodeBehind
  <2>9. payload \in UNION Range(Payloads)
    <3>1. n \in DOMAIN Payloads
      BY DEF Payloads
    <3> QED BY <3>1 DEF Range
  <2>10. Contents[payload] = FlattenSeq(Decode("TerminalBuffer", payload)[1])
    BY <2>9 DEF Contents
  <2>11. FlattenSeq(<<text>>) = text
    BY <2>1, FlattenOfSingle
  <2> QED BY <2>7, <2>8, <2>10, <2>11 DEF text
<1> QED BY <1>1, <1>2, <1>3 DEF ReadAsWritten

LEMMA InputInTyped ==
    ASSUME NEW packet \in Told
    PROVE  InputIn(packet) \in Seq(Nat)
<1>1. CASE \E bytes \in Reads : packet = Input(bytes)
  <2>1. PICK bytes \in Reads : packet = Input(bytes)
    BY <1>1
  <2>2. InputIn(packet) = bytes
    BY <2>1, PacketsReadAsWritten DEF ReadAsWritten
  <2>3. PICK n \in 1 .. BufferSize : bytes \in [1 .. n -> 1 .. MaxRecords]
    BY DEF Reads
  <2>4. MaxRecords \in Nat
    BY ConsoleAssumption
  <2> QED BY <2>2, <2>3, <2>4
<1>2. CASE \E w \in Windows : packet = Size(SizeOf(w))
  <2>1. InputIn(packet) = << >>
    BY <1>2 DEF InputIn, Size, Message
  <2> QED BY <2>1
<1> QED BY <1>1, <1>2 DEF Told

LEMMA InputOfType ==
    ASSUME NEW packets \in Seq(Told)
    PROVE  InputOf(packets) \in Seq(Nat)
<1> DEFINE ins == [i \in DOMAIN packets |-> InputIn(packets[i])]
<1>1. \A i \in 1 .. Len(packets) : InputIn(packets[i]) \in Seq(Nat)
  BY InputInTyped
<1>2. ins = [i \in 1 .. Len(packets) |-> InputIn(packets[i])] /\ Len(packets) \in Nat
  OBVIOUS
<1>3. ins \in Seq(Seq(Nat))
  BY <1>1, <1>2
<1>4. InputOf(packets) = FlattenSeq(ins)
  BY DEF InputOf
<1> HIDE DEF ins
<1> QED BY <1>3, <1>4, FlattenType

LEMMA InputOfAppend ==
    ASSUME NEW packets \in Seq(Told), NEW p \in Told
    PROVE  InputOf(Append(packets, p)) = InputOf(packets) \o InputIn(p)
<1> DEFINE Ins(s) == [i \in DOMAIN s |-> InputIn(s[i])]
<1>1. ASSUME NEW s \in Seq(Told) PROVE Ins(s) \in Seq(Seq(Nat))
  <2>1. \A i \in 1 .. Len(s) : InputIn(s[i]) \in Seq(Nat)
    BY InputInTyped
  <2>2. Ins(s) = [i \in 1 .. Len(s) |-> InputIn(s[i])] /\ Len(s) \in Nat
    OBVIOUS
  <2> QED BY <2>1, <2>2
<1>2. Ins(Append(packets, p)) = Append(Ins(packets), InputIn(p))
  <2> DEFINE q == Append(packets, p)
  <2>1. /\ q \in Seq(Told) /\ Len(q) = Len(packets) + 1 /\ q[Len(q)] = p
        /\ \A i \in 1 .. Len(packets) : q[i] = packets[i]
    OBVIOUS
  <2> HIDE DEF q
  <2>2. Ins(q) \in Seq(Seq(Nat)) /\ Ins(packets) \in Seq(Seq(Nat)) /\ InputIn(p) \in Seq(Nat)
    BY <1>1, <2>1, InputInTyped
  <2>3. /\ Len(Ins(q)) = Len(q) /\ Len(Ins(packets)) = Len(packets) /\ Len(packets) \in Nat
        /\ \A i \in 1 .. Len(q) : Ins(q)[i] = InputIn(q[i])
        /\ \A i \in 1 .. Len(packets) : Ins(packets)[i] = InputIn(packets[i])
    BY <2>1
  <2> HIDE DEF Ins
  <2>4. Len(Ins(q)) \in 1 .. Len(q) /\ Ins(q)[Len(Ins(q))] = InputIn(p)
    BY <2>1, <2>3
  <2>6. /\ Len(Ins(q)) = Len(Ins(packets)) + 1
        /\ \A i \in 1 .. Len(Ins(packets)) : Ins(q)[i] = Ins(packets)[i]
    BY <2>1, <2>3
  <2>5. Ins(q) = Append(Ins(packets), InputIn(p))
    BY <2>2, <2>4, <2>6, LongerByOne, Zenon
  <2> QED BY <2>5 DEF q
<1>3. InputOf(packets) = FlattenSeq(Ins(packets)) /\ InputOf(Append(packets, p)) = FlattenSeq(Ins(Append(packets, p)))
  BY DEF InputOf
<1> HIDE DEF Ins
<1>4. Ins(packets) \in Seq(Seq(Nat)) /\ InputIn(p) \in Seq(Nat)
  BY <1>1, InputInTyped
<1> QED BY <1>2, <1>3, <1>4, FlattenOfAppend

LEMMA ContentsTyped ==
    ASSUME NEW payload \in Arriving
    PROVE  Contents[payload] \in Seq(Nat)
<1>1. PICK n \in DOMAIN Texts : payload \in Payloads[n]
  BY DEF Arriving
<1>2. Contents[payload] = Texts[n]
  BY <1>1, PacketsReadAsWritten DEF ReadAsWritten
<1> QED BY <1>2, ConsoleAssumption

LEMMA ContentsOfAppend ==
    ASSUME NEW payloads \in Seq(Arriving), NEW p \in Arriving
    PROVE  ContentsOf(Append(payloads, p)) = ContentsOf(payloads) \o Contents[p]
<1> DEFINE Ins(s) == [i \in DOMAIN s |-> Contents[s[i]]]
<1>1. ASSUME NEW s \in Seq(Arriving) PROVE Ins(s) \in Seq(Seq(Nat))
  <2>1. \A i \in 1 .. Len(s) : Contents[s[i]] \in Seq(Nat)
    BY ContentsTyped
  <2>2. Ins(s) = [i \in 1 .. Len(s) |-> Contents[s[i]]] /\ Len(s) \in Nat
    OBVIOUS
  <2> QED BY <2>1, <2>2
<1>2. Ins(Append(payloads, p)) = Append(Ins(payloads), Contents[p])
  <2> DEFINE q == Append(payloads, p)
  <2>1. /\ q \in Seq(Arriving) /\ Len(q) = Len(payloads) + 1 /\ q[Len(q)] = p
        /\ \A i \in 1 .. Len(payloads) : q[i] = payloads[i]
    OBVIOUS
  <2> HIDE DEF q
  <2>2. Ins(q) \in Seq(Seq(Nat)) /\ Ins(payloads) \in Seq(Seq(Nat)) /\ Contents[p] \in Seq(Nat)
    BY <1>1, <2>1, ContentsTyped
  <2>3. /\ Len(Ins(q)) = Len(q) /\ Len(Ins(payloads)) = Len(payloads) /\ Len(payloads) \in Nat
        /\ \A i \in 1 .. Len(q) : Ins(q)[i] = Contents[q[i]]
        /\ \A i \in 1 .. Len(payloads) : Ins(payloads)[i] = Contents[payloads[i]]
    BY <2>1
  <2> HIDE DEF Ins
  <2>4. Len(Ins(q)) \in 1 .. Len(q) /\ Ins(q)[Len(Ins(q))] = Contents[p]
    BY <2>1, <2>3
  <2>6. /\ Len(Ins(q)) = Len(Ins(payloads)) + 1
        /\ \A i \in 1 .. Len(Ins(payloads)) : Ins(q)[i] = Ins(payloads)[i]
    BY <2>1, <2>3
  <2>5. Ins(q) = Append(Ins(payloads), Contents[p])
    BY <2>2, <2>4, <2>6, LongerByOne, Zenon
  <2> QED BY <2>5 DEF q
<1>3. ContentsOf(payloads) = FlattenSeq(Ins(payloads)) /\ ContentsOf(Append(payloads, p)) = FlattenSeq(Ins(Append(payloads, p)))
  BY DEF ContentsOf
<1> HIDE DEF Ins
<1>4. Ins(payloads) \in Seq(Seq(Nat)) /\ Contents[p] \in Seq(Nat)
  BY <1>1, ContentsTyped
<1> QED BY <1>2, <1>3, <1>4, FlattenOfAppend

LEMMA ContentsOfType ==
    ASSUME NEW payloads \in Seq(Arriving)
    PROVE  ContentsOf(payloads) \in Seq(Nat)
<1> DEFINE ins == [i \in DOMAIN payloads |-> Contents[payloads[i]]]
<1>1. \A i \in 1 .. Len(payloads) : Contents[payloads[i]] \in Seq(Nat)
  BY ContentsTyped
<1>2. ins = [i \in 1 .. Len(payloads) |-> Contents[payloads[i]]] /\ Len(payloads) \in Nat
  OBVIOUS
<1>3. ins \in Seq(Seq(Nat))
  BY <1>1, <1>2
<1>4. ContentsOf(payloads) = FlattenSeq(ins)
  BY DEF ContentsOf
<1> HIDE DEF ins
<1> QED BY <1>3, <1>4, FlattenType

LEMMA NothingYet == InputOf(<< >>) = << >> /\ ContentsOf(<< >>) = << >>
<1>1. [i \in DOMAIN << >> |-> InputIn(<< >>[i])] = << >> /\ [i \in DOMAIN << >> |-> Contents[<< >>[i]]] = << >>
  OBVIOUS
<1> QED BY <1>1, FlattenOfNone DEF InputOf, ContentsOf

LEMMA InitData == Init => DataInv
<1> SUFFICES ASSUME Init PROVE DataInv
  OBVIOUS
<1>1. << >> \in Seq(Arriving) /\ << >> \in Seq(Nat)
  OBVIOUS
<1>2. InputOf(sent) \o BytesOf(queue) = << >> /\ [i \in 1 .. typed |-> i] = << >>
  BY NothingYet, BytesOfNone DEF Init
<1>3. shown \o ContentsOf(arrived) = printed
  BY NothingYet DEF Init
<1>4. SizesSent = {}
  BY DEF Init, SizesSent
<1> QED BY <1>1, <1>2, <1>3, <1>4 DEF Init, DataInv, BytesIntact

\* The three parts of it, each changed by some steps only.
InputIntact == InputOf(sent) \o BytesOf(queue) = [i \in 1 .. typed |-> i]

OutputIntact ==
    /\ shown \o ContentsOf(arrived) = printed
    /\ arrived \in Seq(Arriving) /\ shown \in Seq(Nat)

SizeIntact ==
    \A i \in SizesSent : (\A j \in SizesSent : j <= i) => Meant[sent[i]] = Size(last_ti).values

LEMMA DrainIntact ==
    ASSUME TypeInv, InputIntact, Drain
    PROVE  InputIntact'
<1>1. /\ queue # << >> /\ ~KeyDown(Head(queue)) /\ queue' = Tail(queue)
      /\ UNCHANGED <<sent, typed>>
  BY DEF Drain, world
<1>2. queue \in Seq(Records(1 .. typed)) /\ Head(queue) \in Records(1 .. typed)
  BY <1>1 DEF TypeInv, DataTyped
<1>3. Head(queue).is # "key"
  BY <1>1, <1>2, RecordIs
<1>4. BytesOf(queue') = BytesOf(queue)
  BY <1>1, <1>2, <1>3, BytesOfTail
<1>5. InputOf(sent') = InputOf(sent) /\ typed' = typed
  BY <1>1
<1> QED BY <1>4, <1>5 DEF InputIntact

\* What a read takes from the front of the queue it puts at the end of the input.
LEMMA ReadIntact ==
    ASSUME TypeInv, InputIntact, SizeIntact, ReadReturns
    PROVE  InputIntact' /\ SizeIntact'
<1> DEFINE bytes == BytesOf(SubSeq(queue, 1, Read))
           rest == SubSeq(queue, Read + 1, Len(queue))
<1>1. /\ sent' = Append(sent, Input(bytes)) /\ queue' = rest
      /\ UNCHANGED <<last_ti, typed>>
  BY DEF ReadReturns, world
<1>2. bytes \in Reads /\ Read \in 0 .. Len(queue)
  BY ReadTyped DEF TypeInv
<1>3. queue \in Seq(Records(1 .. typed)) /\ sent \in Seq(Told)
  BY DEF TypeInv, DataTyped
<1>4. rest \in Seq(Records(1 .. typed)) /\ bytes \o BytesOf(rest) = BytesOf(queue)
      /\ SubSeq(queue, 1, Read) \in Seq(Records(1 .. typed))
  BY <1>2, <1>3, BytesOfParts
<1>5. bytes \in Seq(1 .. typed) /\ BytesOf(rest) \in Seq(1 .. typed)
  BY <1>4, BytesType
<1> HIDE DEF bytes, rest
<1>6. Input(bytes) \in Told
  BY <1>2 DEF Told
<1>7. InputIn(Input(bytes)) = bytes
  BY <1>2, PacketsReadAsWritten DEF ReadAsWritten
<1>8. InputOf(sent) \in Seq(Nat) /\ InputOf(sent') = InputOf(sent) \o bytes
  BY <1>1, <1>3, <1>6, <1>7, InputOfType, InputOfAppend
<1>9. bytes \in Seq(Nat) /\ BytesOf(rest) \in Seq(Nat)
  <2>1. 1 .. typed \subseteq Nat
    OBVIOUS
  <2> QED BY <1>5, <2>1, SeqMonotonic
<1>10. (InputOf(sent) \o bytes) \o BytesOf(rest) = InputOf(sent) \o (bytes \o BytesOf(rest))
  <2> DEFINE a == InputOf(sent)
             c == BytesOf(rest)
  <2>1. a \in Seq(Nat) /\ bytes \in Seq(Nat) /\ c \in Seq(Nat)
    BY <1>8, <1>9
  <2> HIDE DEF a, c
  <2>2. (a \o bytes) \o c = a \o (bytes \o c)
    BY <2>1, SMTT(60)
  <2> QED BY <2>2 DEF a, c
<1>11. InputIntact'
  <2>1. InputOf(sent') \o BytesOf(queue') = InputOf(sent) \o BytesOf(queue)
    BY <1>1, <1>4, <1>8, <1>10
  <2> QED BY <1>1, <2>1 DEF InputIntact
<1>12. SizeIntact'
  <2>1. /\ Len(sent') = Len(sent) + 1 /\ Len(sent) \in Nat
        /\ sent'[Len(sent) + 1] = Input(bytes)
        /\ \A i \in 1 .. Len(sent) : sent'[i] = sent[i]
        /\ DOMAIN sent = 1 .. Len(sent) /\ DOMAIN sent' = 1 .. Len(sent')
    BY <1>1, <1>3, <1>6
  <2>2. Input(bytes).type # "TerminalInfo"
    BY DEF Input, Message
  <2>3. SizesSent' = SizesSent /\ \A i \in SizesSent : sent'[i] = sent[i]
    BY <2>1, <2>2 DEF SizesSent
  <2>4. \A i \in SizesSent : Meant[sent'[i]] = Meant[sent[i]]
    BY <2>3
  <2> QED BY <1>1, <2>3, <2>4 DEF SizeIntact
<1> QED BY <1>11, <1>12

LEMMA ResizeIntact ==
    ASSUME TypeInv, InputIntact, SizeIntact, Resize
    PROVE  InputIntact' /\ SizeIntact'
<1>1. window \in Windows /\ TerminalSize = SizeOf(window) /\ sent \in Seq(Told)
  BY DEF TypeInv, WorldTyped, DataTyped, TerminalSize
<1>2. UNCHANGED <<queue, typed>>
  BY DEF Resize, world
<1>3. CASE TerminalSize = last_ti
  <2>1. UNCHANGED <<last_ti, sent>>
    BY <1>3 DEF Resize
  <2> QED BY <1>2, <2>1 DEF InputIntact, SizeIntact, SizesSent
<1>4. CASE TerminalSize # last_ti
  <2> DEFINE told == Size(TerminalSize)
  <2>1. last_ti' = TerminalSize /\ sent' = Append(sent, told)
    BY <1>4 DEF Resize
  <2>2. told \in Told /\ Meant[told] = told.values
    BY <1>1, PacketsReadAsWritten DEF Told, ReadAsWritten
  <2>3. told.type = "TerminalInfo" /\ InputIn(told) = << >>
    BY DEF InputIn, Size, Message
  <2> HIDE DEF told
  <2>4. InputOf(sent') = InputOf(sent)
    <3>1. InputOf(sent) \in Seq(Nat) /\ InputOf(sent') = InputOf(sent) \o InputIn(told)
      BY <1>1, <2>1, <2>2, InputOfType, InputOfAppend
    <3> QED BY <2>3, <3>1, ConcatEmptySeq
  <2>5. InputIntact'
    BY <1>2, <2>4 DEF InputIntact
  <2>6. /\ Len(sent') = Len(sent) + 1 /\ Len(sent) \in Nat
        /\ sent'[Len(sent) + 1] = told /\ DOMAIN sent' = 1 .. Len(sent) + 1
    BY <1>1, <2>1, <2>2
  <2>7. Len(sent) + 1 \in SizesSent' /\ \A i \in SizesSent' : i \in 1 .. Len(sent) + 1
    BY <2>3, <2>6 DEF SizesSent
  <2>8. ASSUME NEW i \in SizesSent', \A j \in SizesSent' : j <= i
        PROVE  Meant[sent'[i]] = Size(last_ti').values
    <3>1. i = Len(sent) + 1
      BY <2>6, <2>7, <2>8
    <3>2. Meant[sent'[i]] = told.values
      BY <2>2, <2>6, <3>1
    <3> QED BY <2>1, <3>2 DEF told
  <2> QED BY <2>5, <2>8 DEF SizeIntact
<1> QED BY <1>3, <1>4

LEMMA TypeIntact ==
    ASSUME TypeInv, InputIntact, Type
    PROVE  InputIntact'
<1>1. UNCHANGED sent /\ typed \in Nat /\ queue \in Seq(Records(1 .. typed)) /\ sent \in Seq(Told)
  BY DEF Type, TypeInv, WorldTyped, DataTyped
<1> DEFINE B == 1 .. typed + 1
<1>2. queue \in Seq(Records(B))
  <2>1. 1 .. typed \subseteq B
    BY <1>1
  <2> QED BY <1>1, <2>1, RecordsMonotonic
<1>3. Other \in Records(B) /\ Modifier \in Records(B) /\ Pressed(typed + 1) \in Records(B)
  <2>1. typed + 1 \in B
    BY <1>1
  <2> QED BY <2>1 DEF Records
<1>4. BytesOf(queue) \in Seq(B) /\ InputOf(sent) \in Seq(Nat)
  <2>1. BytesOf(queue) \in Seq(B)
    BY <1>2, BytesType
  <2> QED BY <1>1, <2>1, InputOfType
<1>5. ASSUME NEW r \in Records(B) PROVE BytesOf(queue \o <<r, Other>>) = With(BytesOf(queue), r)
  <2>1. queue \o <<r, Other>> = Append(Append(queue, r), Other) /\ Append(queue, r) \in Seq(Records(B))
    BY <1>2, <1>3
  <2>2. BytesOf(Append(queue, r)) = With(BytesOf(queue), r)
    BY <1>2, BytesOfAppend
  <2>3. BytesOf(Append(Append(queue, r), Other)) = With(BytesOf(Append(queue, r)), Other)
    BY <1>3, <2>1, BytesOfAppend
  <2> QED BY <2>1, <2>2, <2>3 DEF With, Other
<1>6. CASE queue' = queue \o <<Pressed(typed + 1), Other>> /\ typed' = typed + 1
  <2> DEFINE so_far == [i \in 1 .. typed |-> i]
  <2>1. BytesOf(queue') = Append(BytesOf(queue), typed + 1)
    BY <1>3, <1>5, <1>6 DEF With, Pressed
  <2>2. [i \in 1 .. typed' |-> i] = Append(so_far, typed + 1)
    <3>1. so_far \in Seq(Nat) /\ [i \in 1 .. typed + 1 |-> i] \in Seq(Nat)
      BY <1>1
    <3>2. /\ Len(so_far) = typed /\ Len([i \in 1 .. typed + 1 |-> i]) = typed + 1
          /\ \A i \in 1 .. typed : [k \in 1 .. typed + 1 |-> k][i] = so_far[i]
          /\ [k \in 1 .. typed + 1 |-> k][typed + 1] = typed + 1
      BY <1>1
    <3> HIDE DEF so_far
    <3> QED BY <1>6, <3>1, <3>2, LongerByOne
  <2>3. BytesOf(queue) \in Seq(Nat) /\ typed + 1 \in Nat
    <3>1. B \subseteq Nat
      OBVIOUS
    <3> QED BY <1>1, <1>4, <3>1, SeqMonotonic
  <2> HIDE DEF so_far
  <2>4. InputOf(sent) \o Append(BytesOf(queue), typed + 1) = Append(InputOf(sent) \o BytesOf(queue), typed + 1)
    BY <1>4, <2>3, AppendConcat, SMTT(30)
  <2> QED BY <1>1, <2>1, <2>2, <2>4 DEF InputIntact, so_far
<1>7. CASE queue' = queue \o <<Modifier, Other>> /\ UNCHANGED typed
  <2>1. BytesOf(queue') = BytesOf(queue)
    BY <1>3, <1>5, <1>7 DEF With, Modifier
  <2> QED BY <1>1, <1>7, <2>1 DEF InputIntact
<1> QED BY <1>6, <1>7 DEF Type

LEMMA OtherIntact ==
    ASSUME TypeInv, InputIntact, MoveMouse \/ ResizeWindow
    PROVE  InputIntact'
<1>1. queue' = Append(queue, Other) /\ UNCHANGED <<sent, typed>>
  BY DEF MoveMouse, ResizeWindow
<1>2. queue \in Seq(Records(1 .. typed)) /\ Other \in Records(1 .. typed)
  BY DEF TypeInv, DataTyped, Records
<1>3. BytesOf(queue') = BytesOf(queue)
  BY <1>1, <1>2, BytesOfAppend DEF With, Other
<1> QED BY <1>1, <1>3 DEF InputIntact

LEMMA TurnIntact ==
    ASSUME OutputIntact, Turn
    PROVE  OutputIntact'
<1>1. UNCHANGED printed
  BY DEF Turn, world
<1>2. CASE UNCHANGED <<shown, arrived>>
  BY <1>1, <1>2 DEF OutputIntact
<1>3. CASE shown' = shown \o ContentsOf(arrived) /\ arrived' = << >>
  <2>1. ContentsOf(arrived) \in Seq(Nat) /\ shown \in Seq(Nat)
    BY ContentsOfType DEF OutputIntact
  <2>2. shown' \in Seq(Nat) /\ << >> \in Seq(Arriving) /\ shown' \o << >> = shown'
    BY <1>3, <2>1
  <2> QED BY <1>1, <1>3, <2>2, NothingYet DEF OutputIntact
<1> QED BY <1>2, <1>3 DEF Turn

LEMMA PrintsIntact ==
    ASSUME TypeInv, OutputIntact, ServerPrints
    PROVE  OutputIntact'
<1> DEFINE n == count'["prints"]
<1>1. n \in DOMAIN Texts
  <2>1. Len(Texts) \in Nat /\ Counted("prints", Len(Texts)) /\ WorldTyped
    BY ConsoleAssumption DEF ServerPrints, TypeInv
  <2>2. n = count["prints"] + 1 /\ n <= Len(Texts) /\ count["prints"] \in Nat
    BY <2>1, CountedTyped DEF WorldTyped
  <2>3. DOMAIN Texts = 1 .. Len(Texts)
    BY ConsoleAssumption
  <2> QED BY <2>1, <2>2, <2>3
<1>2. PICK payload \in Payloads[n] : arrived' = Append(arrived, payload)
  BY DEF ServerPrints
<1>3. printed' = printed \o Texts[n] /\ UNCHANGED shown
  BY DEF ServerPrints
<1> HIDE DEF n
<1>4. payload \in Arriving /\ Contents[payload] = Texts[n]
  BY <1>1, PacketsReadAsWritten DEF Arriving, ReadAsWritten
<1>5. ContentsOf(arrived) \in Seq(Nat) /\ Texts[n] \in Seq(Nat)
  BY <1>4, ContentsOfType, ContentsTyped DEF OutputIntact
<1>6. ContentsOf(arrived') = ContentsOf(arrived) \o Texts[n]
  BY <1>2, <1>4, ContentsOfAppend DEF OutputIntact
<1>7. shown \o (ContentsOf(arrived) \o Texts[n]) = (shown \o ContentsOf(arrived)) \o Texts[n]
  <2>1. shown \in Seq(Nat)
    BY DEF OutputIntact
  <2>2. \A x, y, z \in Seq(Nat) : x \o (y \o z) = (x \o y) \o z
    BY SMTT(60)
  <2> QED BY <1>5, <2>1, <2>2
<1>8. arrived' \in Seq(Arriving)
  BY <1>2, <1>4 DEF OutputIntact
<1> QED BY <1>3, <1>6, <1>7, <1>8 DEF OutputIntact

LEMMA StepIntact ==
    ASSUME TypeInv, DataInv, [Next]_vars
    PROVE  DataInv'
<1> SUFFICES InputIntact' /\ OutputIntact' /\ SizeIntact'
  BY DEF DataInv, BytesIntact, InputIntact, OutputIntact, SizeIntact
<1>12. InputIntact /\ OutputIntact /\ SizeIntact
  BY DEF DataInv, BytesIntact, InputIntact, OutputIntact, SizeIntact
<1>1. ASSUME UNCHANGED <<queue, sent, typed>> PROVE InputIntact'
  <2>1. InputOf(sent') = InputOf(sent) /\ BytesOf(queue') = BytesOf(queue) /\ typed' = typed
    BY <1>1
  <2> QED BY <1>12, <2>1 DEF InputIntact
<1>2. ASSUME UNCHANGED <<arrived, shown, printed>> PROVE OutputIntact'
  <2>1. ContentsOf(arrived') = ContentsOf(arrived)
    BY <1>2
  <2> QED BY <1>2, <1>12, <2>1 DEF OutputIntact
<1>3. ASSUME UNCHANGED <<sent, last_ti>> PROVE SizeIntact'
  BY <1>3, <1>12 DEF SizeIntact, SizesSent
<1>4. CASE GetModes \/ SetInputMode \/ SetOutputMode \/ ReassertWrap \/ DrainEnds \/ Peek \/ Signaled
           \/ WaitTimesOut \/ WaitFails \/ ReadAborted \/ PollFails \/ Tick \/ Ended \/ UNCHANGED vars
  <2>1. UNCHANGED <<queue, sent, last_ti, typed, arrived, shown, printed>>
    BY <1>4 DEF GetModes, SetInputMode, SetOutputMode, ReassertWrap, DrainEnds, Peek, Signaled,
               WaitTimesOut, WaitFails, ReadAborted, PollFails, Tick, Ended, vars, poll, world
  <2> QED BY <1>1, <1>2, <1>3, <2>1
<1>5. CASE Turn
  <2>1. UNCHANGED <<queue, sent, last_ti, typed>>
    BY <1>5 DEF Turn, world
  <2> QED BY <1>1, <1>3, <1>5, <2>1, <1>12, TurnIntact
<1>6. CASE Drain
  <2>1. UNCHANGED <<sent, last_ti, arrived, shown, printed>>
    BY <1>6 DEF Drain, world
  <2> QED BY <1>2, <1>3, <1>6, <2>1, <1>12, DrainIntact
<1>7. CASE ReadReturns
  <2>1. UNCHANGED <<arrived, shown, printed>>
    BY <1>7 DEF ReadReturns, world
  <2> QED BY <1>2, <1>7, <2>1, <1>12, ReadIntact
<1>8. CASE Resize
  <2>1. UNCHANGED <<arrived, shown, printed>>
    BY <1>8 DEF Resize, world
  <2> QED BY <1>2, <1>8, <2>1, <1>12, ResizeIntact
<1>9. CASE Type
  <2>1. UNCHANGED <<sent, last_ti, arrived, shown, printed>>
    BY <1>9 DEF Type
  <2> QED BY <1>2, <1>3, <1>9, <2>1, <1>12, TypeIntact
<1>10. CASE MoveMouse \/ ResizeWindow
  <2>1. UNCHANGED <<sent, last_ti, arrived, shown, printed>>
    BY <1>10 DEF MoveMouse, ResizeWindow
  <2> QED BY <1>2, <1>3, <1>10, <2>1, <1>12, OtherIntact
<1>11. CASE ServerPrints
  <2>1. UNCHANGED <<queue, sent, last_ti, typed>>
    BY <1>11 DEF ServerPrints, poll
  <2> QED BY <1>1, <1>3, <1>11, <2>1, <1>12, PrintsIntact
<1> QED BY <1>4, <1>5, <1>6, <1>7, <1>8, <1>9, <1>10, <1>11 DEF Next, Proceeds, Fails, World

\* If every packet is read as it was written, all that is typed is in the packets
\* written and the records still queued, in its order, and all that was printed
\* on the screen and in the packets unread; the last size told is the one the
\* loop remembers.  However often the console is asked, drained, interrupted or
\* resized, and wherever a read ends.
THEOREM BytesIntactTheorem == Spec => []BytesIntact
<1>1. Init => TypeInv /\ DataInv
  BY InitTyped, InitData
<1>2. TypeInv /\ DataInv /\ [Next]_vars => (TypeInv /\ DataInv)'
  BY StepControl, StepWorld, StepData, StepIntact DEF TypeInv
<1>3. DataInv => BytesIntact
  BY DEF DataInv
<1> QED BY <1>1, <1>2, <1>3, PTL DEF Spec
=============================================================================
