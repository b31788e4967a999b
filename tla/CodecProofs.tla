----------------------------- MODULE CodecProofs -----------------------------
(***************************************************************************)
(* What the codec writes of a message it reads, whatever the values of its *)
(* fields, for bytes of any size: RoundTrip.                               *)
(*                                                                         *)
(* First, induction on numbers and on the length of a sequence, and what   *)
(* it shows of FlattenSeq.  The induction is on sets, where the library's  *)
(* has an operator for its hypothesis: it rests on the order of the        *)
(* numbers being well-founded.  A function that is recursive is the choice *)
(* of one that satisfies its equation, so of each it is shown that there   *)
(* is one, by induction, before the equation is used.                      *)
(*                                                                         *)
(* Then, of bytes that are anywhere among others: a varint that is written *)
(* there is read as its number (ReadVarintOfWritten), a value as the value *)
(* (TakesAs), a field as the field, and what is behind is read as if it    *)
(* were alone (ReadsAs), so that fields are read one by one (ReadsConcat,  *)
(* ReadsAll).  Of those each value takes the ones with its number.         *)
(***************************************************************************)
EXTENDS Codec, TLAPS

LOCAL INSTANCE SequencesExt
LOCAL INSTANCE FiniteSetsExt
LOCAL INSTANCE SequenceTheorems
LOCAL INSTANCE WellFoundedInduction

LEMMA LeastNumber ==
    ASSUME NEW T, T \subseteq Nat, T # {}
    PROVE  \E x \in T : \A y \in T : x <= y
<1> DEFINE R == OpToRel(<, Nat)
<1>1. \A x, y \in Nat : <<x, y>> \in R <=> x < y
  BY DEF OpToRel
<1>2. IsWellFoundedOn(R, Nat)
  BY NatLessThanWellFounded
<1> HIDE DEF R
<1>3. PICK x \in T : \A y \in T : ~(<<y, x>> \in R)
  BY <1>2, WFMin
<1>4. \A y \in T : x \in Nat /\ y \in Nat /\ ~(y < x)
  BY <1>1, <1>3, Zenon
<1> QED BY <1>4

LEMMA GreatestNumber ==
    ASSUME NEW m \in Nat, NEW T, T \subseteq 0 .. m, T # {}
    PROVE  \E x \in T : \A y \in T : x >= y
<1> DEFINE S == {n \in Nat : m - n \in T}
<1>1. PICK y \in T : TRUE
  OBVIOUS
<1>2. y \in 0 .. m /\ m - y \in Nat /\ m - (m - y) = y
  BY <1>1
<1>3. m - y \in S
  BY <1>1, <1>2
<1>4. PICK n \in S : \A k \in S : n <= k
  <2>1. S \subseteq Nat /\ S # {}
    BY <1>3
  <2> HIDE DEF S
  <2> QED BY <2>1, LeastNumber
<1>5. ASSUME NEW z \in T PROVE m - n >= z
  <2>1. z \in 0 .. m /\ m - z \in Nat /\ m - (m - z) = z
    BY <1>5
  <2>2. m - z \in S
    BY <1>5, <2>1
  <2>3. n \in Nat /\ n <= m - z
    BY <1>4, <2>2
  <2> QED BY <2>1, <2>3
<1>6. m - n \in T
  BY <1>4
<1> QED BY <1>5, <1>6

\* A set of numbers with 0 and with the successor of each of its members has all.
LEMMA Induction ==
    ASSUME NEW S, 0 \in S, \A n \in Nat : n \in S => n + 1 \in S
    PROVE  Nat \subseteq S
<1> DEFINE T == Nat \ S
<1>1. SUFFICES ASSUME T # {} PROVE FALSE
  OBVIOUS
<1>2. PICK x \in T : \A y \in T : x <= y
  BY <1>1, LeastNumber
<1>3. x # 0 /\ x - 1 \in Nat /\ x - 1 \notin T
  BY <1>2
<1>4. x - 1 \in S /\ (x - 1) + 1 = x
  BY <1>2, <1>3
<1> QED BY <1>2, <1>3, <1>4

\* The same, with all smaller numbers in the hypothesis.
LEMMA StrongInduction ==
    ASSUME NEW S, \A n \in Nat : 0 .. n - 1 \subseteq S => n \in S
    PROVE  Nat \subseteq S
<1> DEFINE T == {n \in Nat : 0 .. n - 1 \subseteq S}
<1>1. 0 \in T
  OBVIOUS
<1>2. ASSUME NEW n \in Nat, n \in T PROVE n + 1 \in T
  <2>1. n \in S /\ 0 .. n - 1 \subseteq S
    BY <1>2
  <2>2. \A i \in 0 .. n : i = n \/ i \in 0 .. n - 1
    OBVIOUS
  <2> QED BY <2>1, <2>2
<1> HIDE DEF T
<1>3. Nat \subseteq T
  BY <1>1, <1>2, Induction
<1> USE DEF T
<1> QED BY <1>3

\* A set of sequences with the empty one and with each that is longer by one
\* than one of its members has all.
LEMMA SequenceInduction ==
    ASSUME NEW T, NEW S, << >> \in S,
           \A s \in Seq(T), x \in T : s \in S => Append(s, x) \in S
    PROVE  Seq(T) \subseteq S
<1> DEFINE L == {n \in Nat : \A s \in Seq(T) : Len(s) = n => s \in S}
<1>1. 0 \in L
  <2>1. \A s \in Seq(T) : Len(s) = 0 => s = << >>
    BY EmptySeq
  <2> QED BY <2>1
<1>2. ASSUME NEW n \in Nat, n \in L PROVE n + 1 \in L
  <2>1. SUFFICES ASSUME NEW s \in Seq(T), Len(s) = n + 1 PROVE s \in S
    OBVIOUS
  <2>2. PICK t \in Seq(T), x \in T : s = Append(t, x)
    <3>1. s # << >>
      BY <2>1
    <3> QED BY <3>1, SequenceEmptyOrAppend
  <2>3. Len(t) = n
    BY <2>1, <2>2
  <2> QED BY <1>2, <2>2, <2>3
<1> HIDE DEF L
<1>3. Nat \subseteq L
  BY <1>1, <1>2, Induction
<1> USE DEF L
<1> QED BY <1>3

\* Sequences that follow one another do so however they are grouped.
LEMMA Regrouped ==
    ASSUME NEW T, NEW x \in Seq(T), NEW y \in Seq(T), NEW z \in Seq(T)
    PROVE  x \o (y \o z) = (x \o y) \o z
OBVIOUS

LEMMA AppendConcat ==
    ASSUME NEW T, NEW s \in Seq(T), NEW t \in Seq(T), NEW x \in T
    PROVE  s \o Append(t, x) = Append(s \o t, x)
<1>1. <<x>> \in Seq(T) /\ s \o t \in Seq(T)
  OBVIOUS
<1>2. Append(s \o t, x) = (s \o t) \o <<x>> /\ Append(t, x) = t \o <<x>>
  BY <1>1, AppendIsConcat
<1> QED BY <1>1, <1>2, Regrouped

LEMMA LongerByOne ==
    ASSUME NEW T, NEW s \in Seq(T), NEW q \in Seq(T), Len(q) = Len(s) + 1,
           \A i \in 1 .. Len(s) : q[i] = s[i]
    PROVE  q = Append(s, q[Len(q)])
<1> DEFINE x == q[Len(q)]
           t == Append(s, x)
<1>1. Len(s) \in Nat /\ x \in T
  OBVIOUS
<1> HIDE DEF x
<1>2. /\ t \in Seq(T) /\ Len(t) = Len(q) /\ t[Len(s) + 1] = x
      /\ \A i \in 1 .. Len(s) : t[i] = q[i]
  BY <1>1
<1> HIDE DEF t
<1>3. ASSUME NEW i \in 1 .. Len(q) PROVE t[i] = q[i]
  BY <1>1, <1>2 DEF x
<1>4. t = q
  BY <1>2, <1>3, SeqEqual
<1> QED BY <1>4 DEF t, x

-----------------------------------------------------------------------------
(* FlattenSeq *)

\* The function that FlattenSeq is the last value of.
Flattens(s, f) ==
    f = [i \in 1 .. Len(s) |-> IF i = 1 THEN s[i] ELSE f[i - 1] \o s[i]]

Flattening(s) == CHOOSE f : Flattens(s, f)

LEMMA FlattenIs ==
    ASSUME NEW s
    PROVE  FlattenSeq(s) = IF Len(s) = 0 THEN s ELSE Flattening(s)[Len(s)]
BY DEF FlattenSeq, Flattening, Flattens

LEMMA FlattenOfNone == FlattenSeq(<< >>) = << >>
BY FlattenIs

LEMMA FlattensAt ==
    ASSUME NEW s, NEW f, Flattens(s, f), NEW i \in 1 .. Len(s)
    PROVE  f[i] = IF i = 1 THEN s[i] ELSE f[i - 1] \o s[i]
<1> DEFINE h == [k \in 1 .. Len(s) |-> IF k = 1 THEN s[k] ELSE f[k - 1] \o s[k]]
<1>1. f = h
  BY DEF Flattens
<1>2. h[i] = IF i = 1 THEN s[i] ELSE f[i - 1] \o s[i]
  OBVIOUS
<1> HIDE DEF h
<1> QED BY <1>1, <1>2

\* There is one, whose values are sequences ...
LEMMA FlatteningExists ==
    ASSUME NEW T, NEW s \in Seq(Seq(T))
    PROVE  \E f \in [1 .. Len(s) -> Seq(T)] : Flattens(s, f)
<1> DEFINE S == {r \in Seq(Seq(T)) : \E f \in [1 .. Len(r) -> Seq(T)] : Flattens(r, f)}
<1>1. << >> \in S
  <2> DEFINE f == [i \in 1 .. 0 |-> << >>]
  <2>1. f \in [1 .. Len(<< >>) -> Seq(T)] /\ Flattens(<< >>, f)
    BY DEF Flattens
  <2> HIDE DEF f
  <2>2. \E g \in [1 .. Len(<< >>) -> Seq(T)] : Flattens(<< >>, g)
    BY <2>1
  <2>3. << >> \in Seq(Seq(T))
    OBVIOUS
  <2> QED BY <2>2, <2>3, Zenon
<1>2. ASSUME NEW r \in Seq(Seq(T)), NEW x \in Seq(T), r \in S PROVE Append(r, x) \in S
  <2>1. PICK f \in [1 .. Len(r) -> Seq(T)] : Flattens(r, f)
    BY <1>2
  <2> DEFINE q == Append(r, x)
             g == [i \in 1 .. Len(q) |->
                     IF i <= Len(r) THEN f[i] ELSE IF i = 1 THEN x ELSE f[Len(r)] \o x]
  <2>2. /\ q \in Seq(Seq(T)) /\ Len(q) = Len(r) + 1 /\ q[Len(q)] = x
        /\ \A i \in 1 .. Len(r) : q[i] = r[i]
    OBVIOUS
  <2>6. ASSUME NEW i \in 1 .. Len(q) PROVE g[i] \in Seq(T)
    <3>1. CASE i <= Len(r)
      BY <2>1, <3>1
    <3>2. CASE ~(i <= Len(r)) /\ i = 1
      BY <3>2
    <3>3. CASE ~(i <= Len(r)) /\ i # 1
      <4>1. Len(r) \in 1 .. Len(r)
        BY <2>2, <3>3
      <4>2. f[Len(r)] \in Seq(T)
        BY <2>1, <4>1
      <4>3. f[Len(r)] \o x \in Seq(T)
        BY <4>2
      <4> QED BY <3>3, <4>3
    <3> QED BY <3>1, <3>2, <3>3
  <2>3. g \in [1 .. Len(q) -> Seq(T)]
    BY <2>6
  <2>4. ASSUME NEW i \in 1 .. Len(q)
        PROVE  g[i] = IF i = 1 THEN q[i] ELSE g[i - 1] \o q[i]
    <3>1. CASE i <= Len(r)
      <4>2. i \in 1 .. Len(r)
        BY <3>1
      <4>1. f[i] = IF i = 1 THEN r[i] ELSE f[i - 1] \o r[i]
        BY <2>1, <4>2, FlattensAt
      <4>3. q[i] = r[i] /\ g[i] = f[i]
        BY <2>2, <4>2
      <4>4. i # 1 => g[i - 1] = f[i - 1]
        BY <2>2, <4>2
      <4> HIDE DEF g
      <4> QED BY <4>1, <4>3, <4>4
    <3>2. CASE i = Len(q)
      BY <2>2, <3>2
    <3> QED BY <2>2, <3>1, <3>2
  <2> HIDE DEF q
  <2>5. Flattens(q, g)
    BY <2>4 DEF Flattens
  <2> HIDE DEF g
  <2> QED BY <2>2, <2>3, <2>5 DEF q
<1> HIDE DEF S
<1>3. Seq(Seq(T)) \subseteq S
  BY <1>1, <1>2, SequenceInduction
<1> USE DEF S
<1> QED BY <1>3

\* ... and no other.
LEMMA FlatteningUnique ==
    ASSUME NEW s, Len(s) \in Nat, NEW f, Flattens(s, f), NEW g, Flattens(s, g)
    PROVE  f = g
<1> DEFINE S == {n \in Nat : n \in 1 .. Len(s) => f[n] = g[n]}
<1>1. 0 \in S
  OBVIOUS
<1>2. \A i \in 1 .. Len(s) : /\ f[i] = IF i = 1 THEN s[i] ELSE f[i - 1] \o s[i]
                             /\ g[i] = IF i = 1 THEN s[i] ELSE g[i - 1] \o s[i]
  BY FlattensAt
<1>3. ASSUME NEW n \in Nat, n \in S PROVE n + 1 \in S
  <2>1. SUFFICES ASSUME n + 1 \in 1 .. Len(s) PROVE f[n + 1] = g[n + 1]
    OBVIOUS
  <2>2. n = 0 \/ n \in 1 .. Len(s)
    BY <2>1
  <2> QED BY <1>2, <1>3, <2>1, <2>2
<1> HIDE DEF S
<1>4. Nat \subseteq S
  BY <1>1, <1>3, Induction
<1> USE DEF S
<1>5. \A i \in 1 .. Len(s) : f[i] = g[i]
  BY <1>4
<1>6. \E h : f = [i \in 1 .. Len(s) |-> h[i]]
  <2> DEFINE h == [i \in 1 .. Len(s) |-> IF i = 1 THEN s[i] ELSE f[i - 1] \o s[i]]
  <2>1. f = h
    BY DEF Flattens
  <2> QED BY <2>1
<1>7. \E h : g = [i \in 1 .. Len(s) |-> h[i]]
  <2> DEFINE h == [i \in 1 .. Len(s) |-> IF i = 1 THEN s[i] ELSE g[i - 1] \o s[i]]
  <2>1. g = h
    BY DEF Flattens
  <2> QED BY <2>1
<1> QED BY <1>5, <1>6, <1>7

LEMMA FlatteningIs ==
    ASSUME NEW T, NEW s \in Seq(Seq(T)), NEW f, Flattens(s, f)
    PROVE  Flattening(s) = f
BY FlatteningUnique DEF Flattening

LEMMA FlattenType ==
    ASSUME NEW T, NEW s \in Seq(Seq(T))
    PROVE  FlattenSeq(s) \in Seq(T)
<1>1. PICK f \in [1 .. Len(s) -> Seq(T)] : Flattens(s, f)
  BY FlatteningExists
<1>2. Flattening(s) = f
  BY <1>1, FlatteningIs
<1>3. CASE Len(s) = 0
  <2>1. s = << >>
    BY <1>3, EmptySeq
  <2>2. << >> \in Seq(T)
    OBVIOUS
  <2>3. FlattenSeq(s) = << >>
    BY <2>1, FlattenOfNone
  <2> QED BY <2>2, <2>3
<1>4. CASE Len(s) # 0
  <2>1. Len(s) \in 1 .. Len(s)
    BY <1>4
  <2>2. f[Len(s)] \in Seq(T)
    BY <1>1, <2>1
  <2> QED BY <1>2, <1>4, <2>2, FlattenIs
<1> QED BY <1>3, <1>4

LEMMA FlattenOfAppend ==
    ASSUME NEW T, NEW s \in Seq(Seq(T)), NEW x \in Seq(T)
    PROVE  FlattenSeq(Append(s, x)) = FlattenSeq(s) \o x
<1> DEFINE q == Append(s, x)
<1>1. /\ q \in Seq(Seq(T)) /\ Len(q) = Len(s) + 1 /\ q[Len(q)] = x
      /\ \A i \in 1 .. Len(s) : q[i] = s[i]
  OBVIOUS
<1> HIDE DEF q
<1>2. PICK f \in [1 .. Len(q) -> Seq(T)] : Flattens(q, f)
  BY <1>1, FlatteningExists
<1>3. \A i \in 1 .. Len(q) : f[i] = IF i = 1 THEN q[i] ELSE f[i - 1] \o q[i]
  BY <1>2, FlattensAt
<1>4. FlattenSeq(q) = f[Len(q)]
  BY <1>1, <1>2, FlatteningIs, FlattenIs
<1>5. CASE s = << >>
  <2>1. f[Len(q)] = x
    BY <1>1, <1>3, <1>5
  <2> QED BY <1>4, <1>5, <2>1, FlattenOfNone DEF q
<1>6. CASE s # << >>
  <2> DEFINE g == [i \in 1 .. Len(s) |-> f[i]]
  <2>6. ASSUME NEW i \in 1 .. Len(s) PROVE g[i] = IF i = 1 THEN s[i] ELSE g[i - 1] \o s[i]
    <3>1. i \in 1 .. Len(q) /\ q[i] = s[i]
      BY <1>1
    <3>2. f[i] = IF i = 1 THEN s[i] ELSE f[i - 1] \o s[i]
      BY <1>3, <3>1
    <3> QED BY <3>2
  <2>1. \A i \in 1 .. Len(s) : g[i] = IF i = 1 THEN s[i] ELSE g[i - 1] \o s[i]
    BY <2>6
  <2>2. Flattens(s, g)
    BY <2>1 DEF Flattens
  <2>3. Len(s) \in Nat \ {0}
    BY <1>6, EmptySeq
  <2>4. FlattenSeq(s) = g[Len(s)]
    BY <2>2, <2>3, FlatteningIs, FlattenIs
  <2>5. f[Len(q)] = f[Len(s)] \o x
    <3>1. Len(q) \in 1 .. Len(q) /\ Len(q) # 1 /\ Len(q) - 1 = Len(s)
      BY <1>1, <2>3
    <3> QED BY <1>1, <1>3, <3>1
  <2> HIDE DEF g
  <2>7. g[Len(s)] = f[Len(s)]
    BY <2>3 DEF g
  <2> QED BY <2>7, <1>4, <2>3, <2>4, <2>5 DEF q
<1> QED BY <1>5, <1>6

LEMMA FlattenOfConcat ==
    ASSUME NEW T, NEW s \in Seq(Seq(T)), NEW t \in Seq(Seq(T))
    PROVE  FlattenSeq(s \o t) = FlattenSeq(s) \o FlattenSeq(t)
<1> DEFINE S == {r \in Seq(Seq(T)) : FlattenSeq(s \o r) = FlattenSeq(s) \o FlattenSeq(r)}
<1>1. << >> \in S
  <2>1. s \o << >> = s /\ << >> \in Seq(Seq(T))
    BY ConcatEmptySeq, EmptySeq
  <2>2. FlattenSeq(s) \in Seq(T)
    BY FlattenType
  <2>3. FlattenSeq(s) \o << >> = FlattenSeq(s)
    BY <2>2, ConcatEmptySeq
  <2> QED BY <2>1, <2>3, FlattenOfNone
<1>2. ASSUME NEW r \in Seq(Seq(T)), NEW x \in Seq(T), r \in S PROVE Append(r, x) \in S
  <2>1. s \o Append(r, x) = Append(s \o r, x)
    BY AppendConcat, SMTT(30)
  <2>2. s \o r \in Seq(Seq(T)) /\ Append(r, x) \in Seq(Seq(T))
    OBVIOUS
  <2>3. FlattenSeq(Append(s \o r, x)) = FlattenSeq(s \o r) \o x
    BY <2>2, FlattenOfAppend
  <2>4. FlattenSeq(Append(r, x)) = FlattenSeq(r) \o x
    BY FlattenOfAppend
  <2>5. FlattenSeq(s) \in Seq(T) /\ FlattenSeq(r) \in Seq(T)
    BY FlattenType
  <2>6. (FlattenSeq(s) \o FlattenSeq(r)) \o x = FlattenSeq(s) \o (FlattenSeq(r) \o x)
    BY <2>5, SMTT(60)
  <2> QED BY <1>2, <2>1, <2>2, <2>3, <2>4, <2>6
<1> HIDE DEF S
<1>3. Seq(Seq(T)) \subseteq S
  BY <1>1, <1>2, SequenceInduction
<1> USE DEF S
<1> QED BY <1>3

-----------------------------------------------------------------------------
(* Numbers *)

LEMMA Divide ==
    ASSUME NEW n \in Int, NEW d \in Nat \ {0}
    PROVE  n = d * (n \div d) + (n % d) /\ n % d \in 0 .. d - 1 /\ n \div d \in Int
OBVIOUS

LEMMA Quotient ==
    ASSUME NEW q \in Int, NEW d \in Nat \ {0}, NEW r \in 0 .. d - 1
    PROVE  (d * q + r) \div d = q /\ (d * q + r) % d = r
OBVIOUS

LEMMA Remainder ==
    ASSUME NEW n \in Nat, NEW d \in Nat \ {0}
    PROVE  n % d \in Nat /\ (n < d => n % d = n)
OBVIOUS

LEMMA DivideNat ==
    ASSUME NEW n \in Nat, NEW d \in Nat \ {0}
    PROVE  n \div d \in Nat /\ n \div d <= n /\ (d > 1 /\ n > 0 => n \div d < n)
<1>1. n = d * (n \div d) + (n % d) /\ n % d \in 0 .. d - 1 /\ n \div d \in Int
  BY Divide
<1> DEFINE q == n \div d
           r == n % d
<1> HIDE DEF q, r
<1>2. q \in Int /\ r \in 0 .. d - 1 /\ n = d * q + r
  BY <1>1 DEF q, r
<1>3. q >= 0
  <2>1. SUFFICES ASSUME q <= -1 PROVE FALSE
    BY <1>2
  <2>2. d * q <= d * (-1)
    BY <1>2, <2>1
  <2> QED BY <1>2, <2>2
<1>4. q <= n
  BY <1>2, <1>3
<1>5. ASSUME d > 1, n > 0 PROVE q < n
  <2>1. CASE q = 0
    BY <2>1, <1>5
  <2>2. CASE q > 0
    <3>1. q < d * q
      BY <2>2, <1>2, <1>5
    <3> QED BY <3>1, <1>2
  <2> QED BY <1>3, <1>2, <2>1, <2>2
<1> QED BY <1>2, <1>3, <1>4, <1>5 DEF q

-----------------------------------------------------------------------------
(* Varints *)

\* The function that WriteVarint is a value of.
Writes(v, f) ==
    f = [n \in 0 .. v |-> IF n >= Half THEN <<(n % Half) + Half>> \o f[n \div Half] ELSE <<n>>]

Digiting(v) == CHOOSE f : Writes(v, f)

LEMMA WriteVarintIs == ASSUME NEW v PROVE WriteVarint(v) = Digiting(v)[v]
BY DEF WriteVarint, Digiting, Writes

LEMMA WritesAt ==
    ASSUME NEW v, NEW f, Writes(v, f), NEW n \in 0 .. v
    PROVE  f[n] = IF n >= Half THEN <<(n % Half) + Half>> \o f[n \div Half] ELSE <<n>>
<1> DEFINE h == [k \in 0 .. v |-> IF k >= Half THEN <<(k % Half) + Half>> \o f[k \div Half] ELSE <<k>>]
<1>1. f = h
  BY DEF Writes
<1>2. h[n] = IF n >= Half THEN <<(n % Half) + Half>> \o f[n \div Half] ELSE <<n>>
  OBVIOUS
<1> HIDE DEF h
<1> QED BY <1>1, <1>2

LEMMA HalfType == Half \in Nat /\ Half > 1
BY CodecAssumption

LEMMA Smaller ==
    ASSUME NEW n \in Nat, n >= Half
    PROVE  n \div Half \in 0 .. n - 1 /\ n % Half \in 0 .. Half - 1
<1>1. Half \in Nat \ {0} /\ n > 0
  BY HalfType
<1>2. n \div Half \in Nat /\ n \div Half < n
  BY <1>1, HalfType, DivideNat
<1>3. n % Half \in 0 .. Half - 1
  BY <1>1, Divide
<1> QED BY <1>2, <1>3

LEMMA LowDigit ==
    ASSUME NEW n \in Nat
    PROVE  n % Half \in 0 .. Half - 1
BY HalfType, Divide

LEMMA WritesExists ==
    ASSUME NEW v \in Nat
    PROVE  \E f \in [0 .. v -> Seq(Nat)] : Writes(v, f)
<1> DEFINE S == {n \in Nat : \E f \in [0 .. n -> Seq(Nat)] : Writes(n, f)}
<1>1. 0 \in S
  <2> DEFINE f == [n \in 0 .. 0 |-> <<0>>]
  <2>1. <<0>> \in Seq(Nat)
    OBVIOUS
  <2>2. f \in [0 .. 0 -> Seq(Nat)]
    BY <2>1
  <2>3. ASSUME NEW n \in 0 .. 0
        PROVE  f[n] = IF n >= Half THEN <<(n % Half) + Half>> \o f[n \div Half] ELSE <<n>>
    BY HalfType
  <2>4. Writes(0, f)
    BY <2>3 DEF Writes
  <2> HIDE DEF f
  <2> QED BY <2>2, <2>4
<1>2. ASSUME NEW n \in Nat, n \in S PROVE n + 1 \in S
  <2>1. PICK f \in [0 .. n -> Seq(Nat)] : Writes(n, f)
    BY <1>2
  <2> DEFINE Next == IF n + 1 >= Half THEN <<((n + 1) % Half) + Half>> \o f[(n + 1) \div Half]
                     ELSE <<n + 1>>
             g == [k \in 0 .. n + 1 |-> IF k <= n THEN f[k] ELSE Next]
  <2>2. Next \in Seq(Nat)
    <3>1. CASE n + 1 >= Half
      <4>1. (n + 1) \div Half \in 0 .. n /\ (n + 1) % Half \in 0 .. Half - 1
        BY <3>1, Smaller
      <4>2. f[(n + 1) \div Half] \in Seq(Nat)
        BY <2>1, <4>1
      <4>3. ((n + 1) % Half) + Half \in Nat
        BY <4>1, HalfType
      <4>4. <<((n + 1) % Half) + Half>> \in Seq(Nat)
        BY <4>3
      <4> QED BY <3>1, <4>2, <4>4, ConcatProperties
    <3>2. CASE ~(n + 1 >= Half)
      BY <3>2
    <3> QED BY <3>1, <3>2
  <2> HIDE DEF Next
  <2>3. g \in [0 .. n + 1 -> Seq(Nat)]
    BY <2>1, <2>2
  <2>6. \A k \in 0 .. n : g[k] = f[k]
    OBVIOUS
  <2>7. g[n + 1] = Next
    OBVIOUS
  <2> HIDE DEF g
  <2>4. ASSUME NEW k \in 0 .. n + 1
        PROVE  g[k] = IF k >= Half THEN <<(k % Half) + Half>> \o g[k \div Half] ELSE <<k>>
    <3>2. k >= Half => k \div Half \in 0 .. k - 1
      BY Smaller
    <3>1. k >= Half => g[k \div Half] = f[k \div Half]
      BY <3>2, <2>6
    <3>3. CASE k <= n
      <4>1. k \in 0 .. n
        BY <3>3
      <4>2. f[k] = IF k >= Half THEN <<(k % Half) + Half>> \o f[k \div Half] ELSE <<k>>
        BY <2>1, <4>1, WritesAt
      <4> QED BY <3>1, <4>1, <4>2, <2>6
    <3>4. CASE k = n + 1
      <4>1. Next = IF k >= Half THEN <<(k % Half) + Half>> \o f[k \div Half] ELSE <<k>>
        BY <3>4 DEF Next
      <4> QED BY <3>1, <3>4, <4>1, <2>7
    <3> QED BY <3>3, <3>4
  <2>5. Writes(n + 1, g)
    <3> DEFINE h == [k \in 0 .. n + 1 |-> IF k >= Half THEN <<(k % Half) + Half>> \o g[k \div Half] ELSE <<k>>]
    <3>1. \A k \in 0 .. n + 1 : g[k] = h[k]
      BY <2>4
    <3>2. g = h
      BY <3>1, <2>3
    <3> QED BY <3>2 DEF Writes
  <2> QED BY <2>3, <2>5
<1> HIDE DEF S
<1>3. Nat \subseteq S
  BY <1>1, <1>2, Induction
<1> USE DEF S
<1> QED BY <1>3

LEMMA WritesSame ==
    ASSUME NEW v \in Nat, NEW u \in Nat, NEW f, Writes(v, f), NEW g, Writes(u, g)
    PROVE  \A n \in Nat : n <= v /\ n <= u => f[n] = g[n]
<1> DEFINE S == {n \in Nat : n <= v /\ n <= u => f[n] = g[n]}
<1>1. ASSUME NEW n \in Nat, 0 .. n - 1 \subseteq S PROVE n \in S
  <2>1. SUFFICES ASSUME n <= v, n <= u PROVE f[n] = g[n]
    OBVIOUS
  <2>2. f[n] = IF n >= Half THEN <<(n % Half) + Half>> \o f[n \div Half] ELSE <<n>>
    BY <2>1, WritesAt
  <2>3. g[n] = IF n >= Half THEN <<(n % Half) + Half>> \o g[n \div Half] ELSE <<n>>
    BY <2>1, WritesAt
  <2>4. ASSUME n >= Half PROVE f[n \div Half] = g[n \div Half]
    <3>1. n \div Half \in 0 .. n - 1
      BY <2>4, Smaller
    <3>2. n \div Half \in S
      BY <3>1, <1>1
    <3> QED BY <3>1, <3>2, <2>1
  <2> QED BY <2>2, <2>3, <2>4
<1> HIDE DEF S
<1>2. Nat \subseteq S
  BY <1>1, StrongInduction
<1> USE DEF S
<1> QED BY <1>2

LEMMA WriteVarintAt ==
    ASSUME NEW v \in Nat, NEW f, Writes(v, f), NEW n \in 0 .. v
    PROVE  WriteVarint(n) = f[n]
<1>4. n \in Nat
  OBVIOUS
<1>1. \E g : Writes(n, g)
  BY <1>4, WritesExists
<1>2. Writes(n, Digiting(n))
  BY <1>1 DEF Digiting
<1>3. Digiting(n)[n] = f[n]
  BY <1>2, <1>4, WritesSame
<1> QED BY <1>3, WriteVarintIs

LEMMA WriteVarintStep ==
    ASSUME NEW n \in Nat
    PROVE  /\ WriteVarint(n) \in Seq(Nat)
           /\ WriteVarint(n) = IF n >= Half THEN <<(n % Half) + Half>> \o WriteVarint(n \div Half)
                               ELSE <<n>>
<1>1. PICK f \in [0 .. n -> Seq(Nat)] : Writes(n, f)
  BY WritesExists
<1>2. WriteVarint(n) = f[n]
  BY <1>1, WriteVarintAt
<1>8. n \in 0 .. n
  OBVIOUS
<1>3. f[n] = IF n >= Half THEN <<(n % Half) + Half>> \o f[n \div Half] ELSE <<n>>
  BY <1>1, <1>8, WritesAt
<1>4. ASSUME n >= Half PROVE WriteVarint(n \div Half) = f[n \div Half]
  <2>1. n \div Half \in 0 .. n
    BY <1>4, Smaller
  <2> QED BY <1>1, <2>1, WriteVarintAt
<1>5. f[n] \in Seq(Nat)
  BY <1>1
<1>6. CASE n >= Half
  BY <1>2, <1>3, <1>4, <1>5, <1>6
<1>7. CASE ~(n >= Half)
  BY <1>2, <1>3, <1>5, <1>7
<1> QED BY <1>6, <1>7

\* All digits but the last say that more come.
LEMMA WriteVarintDigits ==
    ASSUME NEW v \in Nat
    PROVE  /\ Len(WriteVarint(v)) \in Nat \ {0}
           /\ \A i \in 1 .. Len(WriteVarint(v)) - 1 : WriteVarint(v)[i] >= Half
           /\ WriteVarint(v)[Len(WriteVarint(v))] < Half
<1> DEFINE Good(w) == /\ Len(w) \in Nat \ {0}
                      /\ \A i \in 1 .. Len(w) - 1 : w[i] >= Half
                      /\ w[Len(w)] < Half
           S == {n \in Nat : Good(WriteVarint(n))}
<1>1. ASSUME NEW n \in Nat, 0 .. n - 1 \subseteq S PROVE n \in S
  <2>1. CASE ~(n >= Half)
    <3>1. WriteVarint(n) = <<n>>
      BY <2>1, WriteVarintStep
    <3>2. n < Half
      BY <2>1, HalfType
    <3>3. Good(<<n>>)
      BY <3>2
    <3> QED BY <3>1, <3>3
  <2>2. CASE n >= Half
    <3>1. n \div Half \in 0 .. n - 1 /\ n % Half \in 0 .. Half - 1
      BY <2>2, Smaller
    <3> DEFINE w == WriteVarint(n \div Half)
               a == (n % Half) + Half
    <3>2. Good(w) /\ w \in Seq(Nat)
      <4>1. n \div Half \in S
        BY <1>1, <3>1
      <4> QED BY <4>1, <3>1, WriteVarintStep
    <3>3. WriteVarint(n) = <<a>> \o w
      BY <2>2, WriteVarintStep
    <3>4. a \in Nat /\ a >= Half
      BY <3>1, HalfType
    <3> HIDE DEF w, a
    <3>5. /\ Len(<<a>> \o w) = Len(w) + 1 /\ (<<a>> \o w)[1] = a
          /\ \A i \in 1 .. Len(w) : (<<a>> \o w)[i + 1] = w[i]
      BY <3>2, <3>4
    <3> DEFINE u == <<a>> \o w
    <3> HIDE DEF u
    <3>6. /\ Len(u) = Len(w) + 1 /\ u[1] = a
          /\ \A i \in 1 .. Len(w) : u[i + 1] = w[i]
      BY <3>5 DEF u
    <3>7. ASSUME NEW i \in 1 .. Len(u) - 1 PROVE u[i] >= Half
      <4>1. CASE i = 1
        BY <4>1, <3>6, <3>4
      <4>2. CASE i # 1
        <5>1. i - 1 \in 1 .. Len(w) - 1 /\ (i - 1) + 1 = i
          BY <4>2, <3>6, <3>2
        <5>3. i - 1 \in 1 .. Len(w)
          BY <5>1, <3>2
        <5>4. u[(i - 1) + 1] = w[i - 1]
          BY <5>3, <3>6
        <5>2. w[i - 1] >= Half
          BY <5>1, <3>2
        <5> QED BY <5>1, <5>2, <5>4
      <4> QED BY <4>1, <4>2
    <3>8. u[Len(u)] < Half
      <4>1. Len(w) \in 1 .. Len(w)
        BY <3>2
      <4> QED BY <4>1, <3>2, <3>6
    <3>9. Good(u)
      BY <3>2, <3>6, <3>7, <3>8
    <3> QED BY <3>3, <3>9 DEF u
  <2> QED BY <2>1, <2>2
<1> HIDE DEF S
<1>2. Nat \subseteq S
  BY <1>1, StrongInduction
<1> USE DEF S
<1> QED BY <1>2

-----------------------------------------------------------------------------
(* Their length *)

Powers(f) == f = [d \in 0 .. Digits |-> IF d = 0 THEN 1 ELSE Half * f[d - 1]]

LEMMA CapacityIs == Capacity = (CHOOSE f : Powers(f))[Digits]
BY DEF Capacity, Powers

LEMMA PowersExists == \E f : Powers(f)
<1> DEFINE P(m, f) == /\ f \in [0 .. m -> Nat]
                      /\ \A d \in 0 .. m : f[d] = IF d = 0 THEN 1 ELSE Half * f[d - 1]
           S == {m \in Nat : \E f : P(m, f)}
<1>1. 0 \in S
  <2>1. P(0, [d \in 0 .. 0 |-> 1])
    OBVIOUS
  <2> HIDE DEF P
  <2> QED BY <2>1
<1>2. ASSUME NEW m \in Nat, m \in S PROVE m + 1 \in S
  <2>1. PICK f : P(m, f)
    BY <1>2
  <2> DEFINE g == [d \in 0 .. m + 1 |-> IF d <= m THEN f[d] ELSE Half * f[m]]
  <2>5. Half * f[m] \in Nat
    BY <2>1, HalfType
  <2>2. g \in [0 .. m + 1 -> Nat]
    BY <2>1, <2>5
  <2>3. ASSUME NEW d \in 0 .. m + 1 PROVE g[d] = IF d = 0 THEN 1 ELSE Half * g[d - 1]
    <3>1. CASE d <= m
      BY <3>1, <2>1
    <3>2. CASE d = m + 1
      BY <3>2, <2>1
    <3> QED BY <3>1, <3>2
  <2>4. P(m + 1, g)
    BY <2>2, <2>3
  <2> HIDE DEF P
  <2> QED BY <2>4
<1> HIDE DEF S
<1>3. Nat \subseteq S
  BY <1>1, <1>2, Induction
<1> USE DEF S
<1>4. Digits \in Nat
  BY CodecAssumption
<1>5. PICK f : P(Digits, f)
  BY <1>3, <1>4
<1> DEFINE h == [d \in 0 .. Digits |-> IF d = 0 THEN 1 ELSE Half * f[d - 1]]
<1>6. \A d \in 0 .. Digits : f[d] = h[d]
  BY <1>5
<1>7. f = h
  BY <1>5, <1>6
<1> QED BY <1>7 DEF Powers

\* Of a u64 no more than what is read.
LEMMA WriteVarintLength ==
    ASSUME NEW v \in Nat, v < Long
    PROVE  Len(WriteVarint(v)) <= Digits
<1>1. PICK f : Powers(f) /\ Capacity = f[Digits]
  BY CapacityIs, PowersExists
<1>2. ASSUME NEW d \in 0 .. Digits PROVE f[d] = IF d = 0 THEN 1 ELSE Half * f[d - 1]
  <2> DEFINE h == [k \in 0 .. Digits |-> IF k = 0 THEN 1 ELSE Half * f[k - 1]]
  <2>1. f = h
    BY <1>1 DEF Powers
  <2>2. h[d] = IF d = 0 THEN 1 ELSE Half * f[d - 1]
    OBVIOUS
  <2> HIDE DEF h
  <2> QED BY <2>1, <2>2
<1>3. Digits \in Nat \ {0}
  BY CodecAssumption
<1> DEFINE S == {d \in Nat : d + 1 <= Digits =>
                    /\ f[d + 1] \in Nat
                    /\ \A n \in Nat : n < f[d + 1] => Len(WriteVarint(n)) <= d + 1}
<1>4. 0 \in S
  <2>1. f[0] = 1 /\ f[1] = Half * f[0]
    BY <1>2, <1>3
  <2>2. f[1] = Half
    BY <2>1, HalfType
  <2>3. ASSUME NEW n \in Nat, n < Half PROVE Len(WriteVarint(n)) <= 1
    <3>1. ~(n >= Half)
      BY <2>3, HalfType
    <3>2. WriteVarint(n) = <<n>>
      BY <3>1, WriteVarintStep
    <3> QED BY <3>2
  <2> QED BY <2>2, <2>3, HalfType, SMTT(30)
<1>5. ASSUME NEW d \in Nat, d \in S PROVE d + 1 \in S
  <2>1. SUFFICES ASSUME d + 2 <= Digits
                 PROVE  /\ f[d + 2] \in Nat
                        /\ \A n \in Nat : n < f[d + 2] => Len(WriteVarint(n)) <= d + 2
    OBVIOUS
  <2>2. f[d + 2] = Half * f[d + 1]
    <3>1. d + 2 \in 0 .. Digits /\ d + 2 # 0 /\ (d + 2) - 1 = d + 1
      BY <2>1, <1>3
    <3> QED BY <3>1, <1>2
  <2>3. /\ f[d + 1] \in Nat
        /\ \A n \in Nat : n < f[d + 1] => Len(WriteVarint(n)) <= d + 1
    BY <1>5, <2>1, <1>3
  <2>4. f[d + 2] \in Nat
    BY <2>2, <2>3, HalfType
  <2>5. ASSUME NEW n \in Nat, n < f[d + 2] PROVE Len(WriteVarint(n)) <= d + 2
    <3>1. CASE n >= Half
      <4>1. n \div Half \in 0 .. n - 1 /\ n % Half \in 0 .. Half - 1
        BY <3>1, Smaller
      <4>2. n = Half * (n \div Half) + (n % Half)
        BY HalfType, Divide
      <4>3. n \div Half < f[d + 1]
        <5> DEFINE q == n \div Half
                   k == f[d + 1]
        <5>1. q \in Nat /\ k \in Nat /\ Half * q <= n /\ n < Half * k
          BY <4>1, <4>2, <2>2, <2>3, <2>5, HalfType
        <5> HIDE DEF q, k
        <5>2. k <= q => Half * k <= Half * q
          BY <5>1, HalfType
        <5>3. q < k
          BY <5>1, <5>2, HalfType
        <5> QED BY <5>3 DEF q, k
      <4>4. Len(WriteVarint(n \div Half)) <= d + 1
        BY <4>1, <4>3, <2>3
      <4> DEFINE w == WriteVarint(n \div Half)
                 a == (n % Half) + Half
      <4>11. n \div Half \in Nat
        BY <4>1
      <4>8. w \in Seq(Nat)
        BY <4>11, WriteVarintStep
      <4>9. a \in Nat
        BY <4>1, HalfType
      <4>10. WriteVarint(n) = <<a>> \o w
        BY <3>1, WriteVarintStep
      <4>5. w \in Seq(Nat) /\ a \in Nat /\ WriteVarint(n) = <<a>> \o w
        BY <4>8, <4>9, <4>10
      <4>6. Len(w) <= d + 1
        BY <4>4
      <4> HIDE DEF w, a
      <4>7. Len(<<a>> \o w) = Len(w) + 1
        BY <4>5
      <4> QED BY <4>5, <4>6, <4>7
    <3>2. CASE ~(n >= Half)
      <4>1. WriteVarint(n) = <<n>>
        BY <3>2, WriteVarintStep
      <4> QED BY <4>1
    <3> QED BY <3>1, <3>2
  <2> QED BY <2>4, <2>5
<1> HIDE DEF S
<1>6. Nat \subseteq S
  BY <1>4, <1>5, Induction
<1> USE DEF S
<1>7. Digits - 1 \in S /\ (Digits - 1) + 1 = Digits
  BY <1>3, <1>6, SMTT(30)
<1>8. Long <= f[Digits] /\ Long \in Nat
  BY <1>1, CodecAssumption
<1> QED BY <1>3, <1>7, <1>8

-----------------------------------------------------------------------------
(* Reading a varint *)

Numbers(bytes, first, last, f) ==
    f = [i \in first .. last |-> (bytes[i] % Half) + (IF i = last THEN 0 ELSE Half * f[i + 1])]

LEMMA NumberIs ==
    ASSUME NEW bytes, NEW first, NEW last
    PROVE  Number(bytes, first, last) = (CHOOSE f : Numbers(bytes, first, last, f))[first]
BY DEF Number, Numbers

LEMMA NumbersAt ==
    ASSUME NEW bytes, NEW first, NEW last, NEW f, Numbers(bytes, first, last, f), NEW i \in first .. last
    PROVE  f[i] = (bytes[i] % Half) + (IF i = last THEN 0 ELSE Half * f[i + 1])
<1> DEFINE h == [k \in first .. last |-> (bytes[k] % Half) + (IF k = last THEN 0 ELSE Half * f[k + 1])]
<1>1. f = h
  BY DEF Numbers
<1>2. h[i] = (bytes[i] % Half) + (IF i = last THEN 0 ELSE Half * f[i + 1])
  OBVIOUS
<1> HIDE DEF h
<1> QED BY <1>1, <1>2

LEMMA NumbersExists ==
    ASSUME NEW bytes, NEW first \in Nat, NEW last \in Nat, first <= last,
           \A i \in first .. last : bytes[i] \in Nat
    PROVE  \E f : Numbers(bytes, first, last, f)
<1> DEFINE From(n, f) ==
             /\ f \in [last - n .. last -> Nat]
             /\ \A i \in last - n .. last :
                   f[i] = (bytes[i] % Half) + (IF i = last THEN 0 ELSE Half * f[i + 1])
           S == {n \in Nat : n <= last - first => \E f : From(n, f)}
<1>0. \A i \in first .. last : bytes[i] % Half \in Nat
  BY HalfType, LowDigit
<1>1. 0 \in S
  <2> DEFINE f == [i \in last - 0 .. last |-> bytes[i] % Half]
  <2>1. From(0, f)
    BY <1>0
  <2> HIDE DEF f
  <2>2. \E g : From(0, g)
    BY <2>1
  <2> HIDE DEF From
  <2> QED BY <2>2
<1>2. ASSUME NEW n \in Nat, n \in S PROVE n + 1 \in S
  <2> HIDE DEF From
  <2>0. SUFFICES ASSUME n + 1 <= last - first PROVE \E g : From(n + 1, g)
    OBVIOUS
  <2>1. PICK f : From(n, f)
    BY <1>2, <2>0
  <2> USE DEF From
  <2> DEFINE new == last - (n + 1)
             value == (bytes[new] % Half) + Half * f[new + 1]
             g == [i \in new .. last |-> IF i = new THEN value ELSE f[i]]
  <2>2. new \in first .. last /\ new + 1 = last - n /\ new # last
    BY <2>0
  <2> HIDE DEF new
  <2>3. f[new + 1] \in Nat
    <3>1. last - n \in last - n .. last
      OBVIOUS
    <3> QED BY <2>1, <2>2, <3>1
  <2>4. value \in Nat
    BY <2>2, <2>3, <1>0, HalfType
  <2>5. g \in [new .. last -> Nat]
    <3>1. ASSUME NEW i \in new .. last, i # new PROVE f[i] \in Nat
      <4>1. i \in last - n .. last
        BY <3>1, <2>2
      <4> QED BY <4>1, <2>1
    <3> HIDE DEF value
    <3> QED BY <2>4, <3>1
  <2>6. ASSUME NEW i \in new .. last
        PROVE  g[i] = (bytes[i] % Half) + (IF i = last THEN 0 ELSE Half * g[i + 1])
    <3>1. i # last => g[i + 1] = f[i + 1]
      BY <2>2
    <3>2. CASE i = new
      <4>1. g[i] = value
        BY <3>2
      <4> HIDE DEF g
      <4> QED BY <4>1, <3>1, <3>2, <2>2
    <3>3. CASE i # new
      <4>1. i \in last - n .. last
        BY <3>3, <2>2
      <4>2. f[i] = (bytes[i] % Half) + (IF i = last THEN 0 ELSE Half * f[i + 1])
        BY <4>1, <2>1
      <4>3. g[i] = f[i]
        BY <3>3
      <4> HIDE DEF g
      <4> QED BY <3>1, <4>2, <4>3
    <3> QED BY <3>2, <3>3
  <2> HIDE DEF g
  <2>7. From(n + 1, g)
    BY <2>5, <2>6 DEF new
  <2> HIDE DEF From
  <2> QED BY <2>7
<1> HIDE DEF S
<1>3. Nat \subseteq S
  BY <1>1, <1>2, Induction
<1>4. last - first \in S /\ last - (last - first) = first
  BY <1>3
<1> HIDE DEF From
<1> USE DEF S
<1>5. PICK f : From(last - first, f)
  BY <1>4
<1> USE DEF From
<1> DEFINE h == [i \in first .. last |-> (bytes[i] % Half) + (IF i = last THEN 0 ELSE Half * f[i + 1])]
<1>6. f \in [first .. last -> Nat] /\ \A i \in first .. last : f[i] = h[i]
  BY <1>4, <1>5
<1>7. f = h
  BY <1>6
<1> QED BY <1>7 DEF Numbers

LEMMA NumberType ==
    ASSUME NEW bytes, NEW first \in Nat, NEW last \in Nat, first <= last,
           \A i \in first .. last : bytes[i] \in Nat
    PROVE  Number(bytes, first, last) \in Nat
<1>1. PICK f : Numbers(bytes, first, last, f) /\ Number(bytes, first, last) = f[first]
  BY NumberIs, NumbersExists
<1>2. \A i \in first .. last :
         f[i] = (bytes[i] % Half) + (IF i = last THEN 0 ELSE Half * f[i + 1])
  BY <1>1, NumbersAt
<1>3. \A i \in first .. last : bytes[i] % Half \in Nat
  BY HalfType, LowDigit
<1> DEFINE S == {n \in Nat : n <= last - first => f[last - n] \in Nat}
<1>4. 0 \in S
  BY <1>2, <1>3
<1>5. ASSUME NEW n \in Nat, n \in S PROVE n + 1 \in S
  <2> DEFINE i == last - (n + 1)
  <2>1. SUFFICES ASSUME n + 1 <= last - first PROVE f[i] \in Nat
    OBVIOUS
  <2>2. i \in first .. last /\ i # last /\ i + 1 = last - n /\ f[last - n] \in Nat
    BY <1>5, <2>1
  <2> HIDE DEF i
  <2>3. f[i] = (bytes[i] % Half) + Half * f[i + 1]
    BY <2>2, <1>2
  <2> QED BY <2>2, <2>3, <1>3, HalfType
<1> HIDE DEF S
<1>6. Nat \subseteq S
  BY <1>4, <1>5, Induction
<1> USE DEF S
<1>7. last - first \in S /\ last - (last - first) = first
  BY <1>6
<1> QED BY <1>1, <1>7

\* These bytes are at that position.
Holds(bytes, at, s) ==
    /\ at \in Nat \ {0} /\ at + Len(s) - 1 <= Len(bytes)
    /\ \A k \in 1 .. Len(s) : bytes[at + k - 1] = s[k]

LEMMA HoldsConcat ==
    ASSUME NEW bytes \in Seq(Nat), NEW at, NEW s \in Seq(Nat), NEW t \in Seq(Nat),
           Holds(bytes, at, s \o t)
    PROVE  Holds(bytes, at, s) /\ Holds(bytes, at + Len(s), t)
<1> DEFINE u == s \o t
<1>1. /\ Len(u) = Len(s) + Len(t) /\ Len(s) \in Nat /\ Len(t) \in Nat
      /\ \A k \in 1 .. Len(s) : u[k] = s[k]
      /\ \A k \in 1 .. Len(t) : u[Len(s) + k] = t[k]
  OBVIOUS
<1> HIDE DEF u
<1>2. /\ at \in Nat \ {0} /\ at + Len(u) - 1 <= Len(bytes)
      /\ \A k \in 1 .. Len(u) : bytes[at + k - 1] = u[k]
  BY DEF Holds, u
<1>3. ASSUME NEW k \in 1 .. Len(s) PROVE bytes[at + k - 1] = s[k]
  <2>1. k \in 1 .. Len(u)
    BY <1>1
  <2>2. bytes[at + k - 1] = u[k]
    BY <1>2, <2>1
  <2> QED BY <1>1, <2>2
<1>4. ASSUME NEW k \in 1 .. Len(t) PROVE bytes[(at + Len(s)) + k - 1] = t[k]
  <2>1. Len(s) + k \in 1 .. Len(u) /\ at + (Len(s) + k) - 1 = (at + Len(s)) + k - 1
    BY <1>1, <1>2
  <2>2. bytes[at + (Len(s) + k) - 1] = u[Len(s) + k]
    BY <1>2, <2>1
  <2>3. u[Len(s) + k] = t[k]
    BY <1>1
  <2> QED BY <2>1, <2>2, <2>3
<1>6. at + Len(s) \in Nat \ {0} /\ (at + Len(s)) + Len(t) - 1 = at + Len(u) - 1
  BY <1>1, <1>2
<1> QED BY <1>1, <1>2, <1>3, <1>4, <1>6 DEF Holds

\* The digits of a number are read as this number, wherever they are.
LEMMA NumberOfDigits ==
    ASSUME NEW bytes \in Seq(Nat), NEW at, NEW v \in Nat, Holds(bytes, at, WriteVarint(v))
    PROVE  Number(bytes, at, at + Len(WriteVarint(v)) - 1) = v
<1> DEFINE last == at + Len(WriteVarint(v)) - 1
           Ends(n, i) == /\ i + Len(WriteVarint(n)) - 1 = last
                         /\ \A k \in 1 .. Len(WriteVarint(n)) : bytes[i + k - 1] = WriteVarint(n)[k]
<1>1. at \in Nat \ {0} /\ Len(WriteVarint(v)) \in Nat \ {0} /\ last <= Len(bytes)
  BY WriteVarintDigits DEF Holds
<1>2. Ends(v, at)
  BY DEF Holds
<1> HIDE DEF last
<1>3. last \in Nat /\ at <= last
  BY <1>1 DEF last
<1>4. \A i \in at .. last : bytes[i] \in Nat
  BY <1>1, <1>3
<1>5. PICK f : Numbers(bytes, at, last, f) /\ Number(bytes, at, last) = f[at]
  BY <1>1, <1>3, <1>4, NumberIs, NumbersExists
<1>6. \A i \in at .. last :
         f[i] = (bytes[i] % Half) + (IF i = last THEN 0 ELSE Half * f[i + 1])
  BY <1>5, NumbersAt
<1> DEFINE S == {n \in Nat : \A i \in at .. last : Ends(n, i) => f[i] = n}
<1>7. ASSUME NEW n \in Nat, 0 .. n - 1 \subseteq S PROVE n \in S
  <2>1. SUFFICES ASSUME NEW i \in at .. last, Ends(n, i) PROVE f[i] = n
    <3> HIDE DEF Ends
    <3> QED OBVIOUS
  <2>2. f[i] = (bytes[i] % Half) + (IF i = last THEN 0 ELSE Half * f[i + 1])
    BY <1>6
  <2>3. i \in Nat
    BY <1>1, <1>3
  <2>4. CASE ~(n >= Half)
    <3>1. WriteVarint(n) = <<n>>
      BY <2>4, WriteVarintStep
    <3>2. i = last /\ bytes[i] = n
      BY <2>1, <2>3, <3>1
    <3>3. n % Half = n
      BY <2>4, HalfType
    <3> QED BY <2>2, <3>2, <3>3
  <2>5. CASE n >= Half
    <3> DEFINE q == n \div Half
               r == n % Half
               w == WriteVarint(q)
               u == WriteVarint(n)
    <3>1. q \in 0 .. n - 1 /\ r \in 0 .. Half - 1 /\ n = Half * q + r
      <4>1. q \in 0 .. n - 1 /\ r \in 0 .. Half - 1
        BY <2>5, Smaller
      <4>2. n = Half * q + r
        BY Divide, HalfType
      <4> QED BY <4>1, <4>2
    <3>2. q \in Nat
      BY <3>1
    <3>3. w \in Seq(Nat) /\ Len(w) \in Nat \ {0}
      BY <3>2, WriteVarintStep, WriteVarintDigits
    <3>4. u = <<r + Half>> \o w
      BY <2>5, WriteVarintStep
    <3>5. q \in S
      BY <1>7, <3>1
    <3>14. r + Half \in Nat
      BY <3>1, HalfType
    <3>15. /\ i + Len(u) - 1 = last
           /\ \A k \in 1 .. Len(u) : bytes[i + k - 1] = u[k]
      BY <2>1
    <3>16. i + 1 \in at .. last /\ Ends(q, i + 1) => f[i + 1] = q
      <4> HIDE DEF Ends
      <4> QED BY <3>5
    <3> DEFINE x == r + Half
    <3> HIDE DEF q, r, w, u, x, S, Ends
    <3>6. x \in Nat /\ u = <<x>> \o w
      BY <3>4, <3>14 DEF x
    <3>7. /\ Len(u) = Len(w) + 1 /\ u[1] = x
          /\ \A k \in 1 .. Len(w) : u[k + 1] = w[k]
      BY <3>3, <3>6
    <3>8. bytes[i] = x
      BY <2>3, <3>3, <3>7, <3>15
    <3>9. x % Half = r
      BY <3>1, HalfType DEF x
    <3>10. i # last /\ i + 1 \in at .. last /\ (i + 1) + Len(w) - 1 = last
      <4>1. i + Len(w) = last
        BY <2>3, <3>3, <3>7, <3>15
      <4>2. \A m \in Nat \ {0} :
               i + m = last => i # last /\ i + 1 \in at .. last /\ (i + 1) + m - 1 = last
        BY <1>1, <1>3, <2>3
      <4> QED BY <3>3, <4>1, <4>2
    <3>11. ASSUME NEW k \in 1 .. Len(w) PROVE bytes[(i + 1) + k - 1] = w[k]
      <4>1. k + 1 \in 1 .. Len(u) /\ i + (k + 1) - 1 = (i + 1) + k - 1
        BY <2>3, <3>3, <3>7
      <4> QED BY <3>7, <3>15, <4>1
    <3>12. Ends(q, i + 1)
      BY <3>10, <3>11 DEF Ends, w
    <3>13. f[i + 1] = q
      BY <3>10, <3>12, <3>16
    <3> QED BY <2>2, <3>1, <3>2, <3>8, <3>9, <3>10, <3>13, HalfType
  <2> QED BY <2>4, <2>5
<1> HIDE DEF S, Ends
<1>8. Nat \subseteq S
  BY <1>7, StrongInduction
<1> USE DEF S
<1>9. at \in at .. last
  BY <1>1, <1>3
<1>10. f[at] = v
  BY <1>2, <1>8, <1>9
<1> QED BY <1>5, <1>10 DEF last

-----------------------------------------------------------------------------
LEMMA LeastIs ==
    ASSUME NEW S, NEW n \in S, S \subseteq Int, \A k \in S : n <= k
    PROVE  Min(S) = n
<1>1. \A m \in S : (\A k \in S : m =< k) <=> m = n
  OBVIOUS
<1> QED BY <1>1 DEF Min

LEMMA LowerOf ==
    ASSUME NEW a \in Int, NEW b \in Int
    PROVE  Min({a, b}) = IF a <= b THEN a ELSE b
<1>1. CASE a <= b
  <2>1. a \in {a, b} /\ {a, b} \subseteq Int /\ \A k \in {a, b} : a <= k
    BY <1>1
  <2> QED BY <1>1, <2>1, LeastIs
<1>2. CASE ~(a <= b)
  <2>1. b \in {a, b} /\ {a, b} \subseteq Int /\ \A k \in {a, b} : b <= k
    BY <1>2
  <2> QED BY <1>2, <2>1, LeastIs
<1> QED BY <1>1, <1>2

LEMMA LeastType ==
    ASSUME NEW S, S \subseteq Nat, S # {}
    PROVE  Min(S) \in S /\ \A k \in S : Min(S) <= k
<1>1. \E n \in S : \A k \in S : n =< k
  BY LeastNumber
<1> QED BY <1>1 DEF Min

\* A varint is read as it was written ...
LEMMA ReadVarintOfWritten ==
    ASSUME NEW bytes \in Seq(Nat), NEW at, NEW v \in Nat, v < Long, Holds(bytes, at, WriteVarint(v))
    PROVE  ReadVarint(bytes, at) = [value |-> v, next |-> at + Len(WriteVarint(v)), error |-> FALSE]
<1> DEFINE w == WriteVarint(v)
           most == Min({Len(bytes), at + Digits - 1})
           ends == {i \in at .. most : bytes[i] < Half}
           end == at + Len(w) - 1
<1>1. /\ at \in Nat \ {0} /\ end <= Len(bytes) /\ Len(w) \in Nat \ {0}
      /\ \A k \in 1 .. Len(w) : bytes[at + k - 1] = w[k]
  BY WriteVarintDigits DEF Holds
<1>2. Len(w) <= Digits
  BY WriteVarintLength
<1>3. \A i \in 1 .. Len(w) - 1 : w[i] >= Half
  BY WriteVarintDigits
<1>4. w[Len(w)] < Half
  BY WriteVarintDigits
<1>5. Digits \in Nat /\ Half \in Nat /\ Len(bytes) \in Nat
  BY CodecAssumption
<1>6. Number(bytes, at, end) = v
  BY NumberOfDigits
<1>18. w \in Seq(Nat)
  BY WriteVarintStep
<1> HIDE DEF w
<1>7. end \in Nat /\ at <= end
  BY <1>1
<1>8. most \in Int /\ end <= most
  <2>1. at + Digits - 1 \in Int
    BY <1>1, <1>5
  <2>2. most = IF Len(bytes) <= at + Digits - 1 THEN Len(bytes) ELSE at + Digits - 1
    BY <1>5, <2>1, LowerOf
  <2> HIDE DEF most
  <2> QED BY <1>1, <1>2, <1>5, <2>2
<1> HIDE DEF most
<1>9. bytes[end] = w[Len(w)]
  <2>1. Len(w) \in 1 .. Len(w)
    BY <1>1
  <2> QED BY <1>1, <2>1
<1>10. end \in ends
  BY <1>1, <1>4, <1>7, <1>8, <1>9
<1>11. ASSUME NEW i \in ends PROVE end <= i
  <2>1. SUFFICES ASSUME i < end PROVE FALSE
    BY <1>1, <1>8
  <2>2. i - at + 1 \in 1 .. Len(w) - 1 /\ at + (i - at + 1) - 1 = i
    BY <1>1, <2>1
  <2>3. bytes[i] = w[i - at + 1]
    BY <1>1, <2>2
  <2>4. w[i - at + 1] \in Nat
    BY <1>18, <2>2, SMTT(30)
  <2>5. w[i - at + 1] >= Half
    BY <1>3, <2>2
  <2>6. bytes[i] < Half
    OBVIOUS
  <2>7. ~(w[i - at + 1] < Half)
    BY <1>5, <2>4, <2>5
  <2> QED BY <2>3, <2>6, <2>7
<1>12. ends # {} /\ ends \subseteq Int
  <2>1. at .. most \subseteq Int
    BY <1>1, <1>8
  <2> QED BY <1>10, <2>1
<1> HIDE DEF ends
<1>13. Min(ends) = end
  BY <1>10, <1>11, <1>12, LeastIs
<1>14. v % Long = v
  <2>1. Long \in Nat \ {0}
    BY CodecAssumption
  <2> QED BY <2>1, Remainder
<1>15. end + 1 = at + Len(w)
  BY <1>1
<1>16. ReadVarint(bytes, at) =
          IF ends = {} THEN Error
          ELSE [value |-> Number(bytes, at, Min(ends)) % Long, next |-> Min(ends) + 1, error |-> FALSE]
  BY DEF ReadVarint, ends, most
<1>17. ReadVarint(bytes, at) = [value |-> v, next |-> at + Len(w), error |-> FALSE]
  BY <1>6, <1>12, <1>13, <1>14, <1>15, <1>16
<1> QED BY <1>17 DEF w

\* ... and whatever bytes there are, what is read is a number that ends behind
\* its first byte.
LEMMA ReadVarintType ==
    ASSUME NEW bytes \in Seq(Nat), NEW at \in Nat \ {0}
    PROVE  \/ ReadVarint(bytes, at) = Error
           \/ ReadVarint(bytes, at) \in [value : Nat, next : at + 1 .. Len(bytes) + 1, error : {FALSE}]
<1> DEFINE most == Min({Len(bytes), at + Digits - 1})
           ends == {i \in at .. most : bytes[i] < Half}
<1>1. Digits \in Nat /\ Half \in Nat /\ Len(bytes) \in Nat /\ Long \in Nat \ {0}
  BY CodecAssumption
<1>2. most \in Int /\ most <= Len(bytes)
  <2>1. at + Digits - 1 \in Int
    BY <1>1
  <2>2. most = IF Len(bytes) <= at + Digits - 1 THEN Len(bytes) ELSE at + Digits - 1
    BY <1>1, <2>1, LowerOf
  <2> HIDE DEF most
  <2> QED BY <1>1, <2>2
<1> HIDE DEF most
<1>3. ends \subseteq Nat
  BY <1>2
<1>4. SUFFICES ASSUME ends # {}
               PROVE  ReadVarint(bytes, at) \in [value : Nat, next : at + 1 .. Len(bytes) + 1, error : {FALSE}]
  BY DEF ReadVarint, ends, most
<1> DEFINE end == Min(ends)
<1>5. end \in ends
  BY <1>3, <1>4, LeastType
<1>6. end \in Nat /\ at <= end /\ end <= Len(bytes)
  BY <1>1, <1>2, <1>5
<1>7. \A i \in at .. end : bytes[i] \in Nat
  BY <1>6
<1>8. Number(bytes, at, end) \in Nat
  BY <1>6, <1>7, NumberType
<1>9. Number(bytes, at, end) % Long \in Nat
  <2>1. \A n \in Nat, d \in Nat \ {0} : n % d \in Nat
    BY Remainder
  <2> QED BY <1>1, <1>8, <2>1, Zenon
<1>10. ReadVarint(bytes, at) = [value |-> Number(bytes, at, end) % Long, next |-> end + 1, error |-> FALSE]
  BY <1>4 DEF ReadVarint, ends, most
<1> HIDE DEF end
<1> QED BY <1>6, <1>9, <1>10

-----------------------------------------------------------------------------
(* Reading fields *)

Known == [number : Nat, wire : Nat, value : Nat \cup Seq(Nat), error : {FALSE}]
AnyField == {Error} \cup Known

LEMMA ReadFieldsOf ==
    ASSUME NEW V, NEW N, NEW x \in [value : V, next : N, error : {FALSE}]
    PROVE  x.value \in V /\ x.next \in N /\ x.error = FALSE
OBVIOUS

LEMMA ReadMore ==
    ASSUME NEW V, NEW N, NEW W, NEW M, V \subseteq W, N \subseteq M,
           NEW x \in [value : V, next : N, error : {FALSE}]
    PROVE  x \in [value : W, next : M, error : {FALSE}]
OBVIOUS

LEMMA ErrorIs == Error.error = TRUE
BY DEF Error

LEMMA ReadValueType ==
    ASSUME NEW bytes \in Seq(Nat), NEW at \in Nat \ {0}, NEW wire
    PROVE  \/ ReadValue(wire, bytes, at) = Error
           \/ ReadValue(wire, bytes, at)
                 \in [value : Nat \cup Seq(Nat), next : at .. Len(bytes) + 1, error : {FALSE}]
<1> DEFINE Taken(from, length) ==
             IF from + length - 1 > Len(bytes) THEN Error
             ELSE [value |-> SubSeq(bytes, from, from + length - 1), next |-> from + length,
                   error |-> FALSE]
           Good(x) == x = Error \/ x \in [value : Nat \cup Seq(Nat), next : at .. Len(bytes) + 1, error : {FALSE}]
<1>1. ASSUME NEW from \in Nat \ {0}, NEW length \in Nat, at <= from
      PROVE  Good(Taken(from, length))
  <2>1. CASE from + length - 1 > Len(bytes)
    BY <2>1
  <2>2. CASE ~(from + length - 1 > Len(bytes))
    <3>1. Taken(from, length) = [value |-> SubSeq(bytes, from, from + length - 1), next |-> from + length,
                                 error |-> FALSE]
      BY <2>2
    <3>2. from + length \in at .. Len(bytes) + 1
      BY <1>1, <2>2
    <3>3. \A i \in from .. from + length - 1 : bytes[i] \in Nat
      BY <2>2
    <3>4. SubSeq(bytes, from, from + length - 1) \in Seq(Nat)
      <4>1. from \in Int /\ from + length - 1 \in Int
        OBVIOUS
      <4> QED BY <3>3, <4>1, SubSeqProperties
    <3> QED BY <3>1, <3>2, <3>4
  <2> QED BY <2>1, <2>2
<1> HIDE DEF Taken
<1>2. ReadVarint(bytes, at) = Error
      \/ ReadVarint(bytes, at) \in [value : Nat, next : at + 1 .. Len(bytes) + 1, error : {FALSE}]
  BY ReadVarintType
<1>3. CASE wire = VARINT
  <2>1. ReadValue(wire, bytes, at) = ReadVarint(bytes, at)
    BY <1>3 DEF ReadValue, Taken, VARINT, FIXED64, FIXED32, DELIMITED
  <2>2. CASE ReadVarint(bytes, at) = Error
    BY <2>1, <2>2
  <2>3. CASE ReadVarint(bytes, at) \in [value : Nat, next : at + 1 .. Len(bytes) + 1, error : {FALSE}]
    <3>1. Nat \subseteq Nat \cup Seq(Nat) /\ at + 1 .. Len(bytes) + 1 \subseteq at .. Len(bytes) + 1
      OBVIOUS
    <3>2. ReadVarint(bytes, at) \in [value : Nat \cup Seq(Nat), next : at .. Len(bytes) + 1, error : {FALSE}]
      BY <2>3, <3>1, ReadMore
    <3> QED BY <2>1, <3>2
  <2> QED BY <1>2, <2>2, <2>3
<1>4. CASE wire = FIXED64
  <2>1. ReadValue(wire, bytes, at) = Taken(at, 8)
    BY <1>4 DEF ReadValue, Taken, VARINT, FIXED64, FIXED32, DELIMITED
  <2>2. Good(Taken(at, 8)) /\ Good(Taken(at, 4))
    <3>1. at <= at /\ at \in Nat \ {0} /\ 8 \in Nat /\ 4 \in Nat
      OBVIOUS
    <3> HIDE DEF Good
    <3> QED BY <1>1, <3>1
  <2> QED BY <2>1, <2>2
<1>5. CASE wire = FIXED32
  <2>1. ReadValue(wire, bytes, at) = Taken(at, 4)
    BY <1>5 DEF ReadValue, Taken, VARINT, FIXED64, FIXED32, DELIMITED
  <2>2. Good(Taken(at, 8)) /\ Good(Taken(at, 4))
    <3>1. at <= at /\ at \in Nat \ {0} /\ 8 \in Nat /\ 4 \in Nat
      OBVIOUS
    <3> HIDE DEF Good
    <3> QED BY <1>1, <3>1
  <2> QED BY <2>1, <2>2
<1>6. CASE wire = DELIMITED
  <2> DEFINE length == ReadVarint(bytes, at)
  <2>1. ReadValue(wire, bytes, at) = IF length.error THEN Error ELSE Taken(length.next, length.value)
    BY <1>6 DEF ReadValue, Taken, VARINT, FIXED64, FIXED32, DELIMITED
  <2> HIDE DEF length
  <2>2. CASE length = Error
    <3>1. length.error
      BY <2>2 DEF Error
    <3> QED BY <2>1, <3>1
  <2>3. CASE length \in [value : Nat, next : at + 1 .. Len(bytes) + 1, error : {FALSE}]
    <3>0. length.value \in Nat /\ length.next \in at + 1 .. Len(bytes) + 1 /\ length.error = FALSE
      BY <2>3, ReadFieldsOf
    <3>1. length.next \in Nat \ {0} /\ length.value \in Nat /\ at <= length.next /\ ~length.error
      BY <3>0
    <3>2. Good(Taken(length.next, length.value))
      BY <1>1, <3>1
    <3> QED BY <2>1, <3>1, <3>2
  <2> QED BY <1>2, <2>2, <2>3 DEF length
<1>7. CASE wire \notin {VARINT, FIXED64, FIXED32, DELIMITED}
  BY <1>7 DEF ReadValue, VARINT, FIXED64, FIXED32, DELIMITED
<1> QED BY <1>3, <1>4, <1>5, <1>6, <1>7

LEMMA ReadFieldType ==
    ASSUME NEW bytes \in Seq(Nat), NEW at \in Nat \ {0}
    PROVE  \/ ReadField(bytes, at) = Error
           \/ ReadField(bytes, at) \in [field : Known, next : at + 1 .. Len(bytes) + 1, error : {FALSE}]
<1> DEFINE tag == ReadVarint(bytes, at)
           wire == tag.value % 8
           read == ReadValue(wire, bytes, tag.next)
<1>1. tag = Error \/ tag \in [value : Nat, next : at + 1 .. Len(bytes) + 1, error : {FALSE}]
  BY ReadVarintType
<1>2. tag.error \in BOOLEAN
  <2>1. CASE tag = Error
    BY <2>1, ErrorIs
  <2>2. CASE tag \in [value : Nat, next : at + 1 .. Len(bytes) + 1, error : {FALSE}]
    <3>1. tag.error = FALSE
      BY <2>2, ReadFieldsOf
    <3> QED BY <3>1
  <2> QED BY <1>1, <2>1, <2>2
<1>3. ReadField(bytes, at) =
         IF tag.error \/ read.error THEN Error
         ELSE [field |-> [number |-> (tag.value \div 8) % Word, wire |-> wire, value |-> read.value,
                          error |-> FALSE],
               next |-> read.next, error |-> FALSE]
  BY DEF ReadField
<1> HIDE DEF tag, read
<1>4. CASE tag.error
  BY <1>3, <1>4
<1>5. CASE ~tag.error
  <2>1. tag \in [value : Nat, next : at + 1 .. Len(bytes) + 1, error : {FALSE}]
    BY <1>1, <1>5, ErrorIs
  <2>6. tag.value \in Nat /\ tag.next \in at + 1 .. Len(bytes) + 1
    BY <2>1, ReadFieldsOf
  <2>2. tag.value \in Nat /\ tag.next \in Nat \ {0} /\ tag.next \in at + 1 .. Len(bytes) + 1
    BY <2>6
  <2>3. read = Error
        \/ read \in [value : Nat \cup Seq(Nat), next : tag.next .. Len(bytes) + 1, error : {FALSE}]
    BY <2>2, ReadValueType DEF read
  <2>4. CASE read = Error
    <3>1. read.error
      BY <2>4 DEF Error
    <3> QED BY <1>3, <3>1
  <2>5. CASE read \in [value : Nat \cup Seq(Nat), next : tag.next .. Len(bytes) + 1, error : {FALSE}]
    <3>1. read.value \in Nat \cup Seq(Nat) /\ read.next \in tag.next .. Len(bytes) + 1 /\ ~read.error
      BY <2>5
    <3>2. wire \in Nat
      <4>1. \A n \in Nat : n % 8 \in Nat
        BY Remainder
      <4> QED BY <2>2, <4>1
    <3>3. (tag.value \div 8) % Word \in Nat
      <4>1. Word \in Nat \ {0}
        BY CodecAssumption
      <4>2. \A n \in Nat : n \div 8 \in Nat
        BY DivideNat
      <4>3. tag.value \div 8 \in Nat
        BY <2>2, <4>2
      <4>4. \A n \in Nat : n % Word \in Nat
        BY <4>1, Remainder
      <4> QED BY <4>3, <4>4
    <3> HIDE DEF wire
    <3>4. [number |-> (tag.value \div 8) % Word, wire |-> wire, value |-> read.value, error |-> FALSE] \in Known
      BY <3>1, <3>2, <3>3 DEF Known
    <3>5. read.next \in at + 1 .. Len(bytes) + 1
      BY <2>2, <3>1
    <3> QED BY <1>3, <1>5, <3>1, <3>4, <3>5
  <2> QED BY <2>3, <2>4, <2>5
<1> QED BY <1>2, <1>4, <1>5

-----------------------------------------------------------------------------
(* Parsing *)

ParsedBy(bytes, f) ==
    f = [at \in 1 .. Len(bytes) + 1 |->
            IF at > Len(bytes) THEN << >>
            ELSE LET read == ReadField(bytes, at)
                 IN  IF read.error THEN <<Error>> ELSE <<read.field>> \o f[read.next]]

\* The fields from a position on.
FieldsFrom(bytes, at) == (CHOOSE f : ParsedBy(bytes, f))[at]

LEMMA ParseMessageIs == ASSUME NEW bytes PROVE ParseMessage(bytes) = FieldsFrom(bytes, 1)
BY DEF ParseMessage, FieldsFrom, ParsedBy

LEMMA ParsedAt ==
    ASSUME NEW bytes \in Seq(Nat), NEW f, ParsedBy(bytes, f), NEW at \in 1 .. Len(bytes) + 1
    PROVE  f[at] = IF at > Len(bytes) THEN << >>
                   ELSE LET read == ReadField(bytes, at)
                        IN  IF read.error THEN <<Error>> ELSE <<read.field>> \o f[read.next]
<1> DEFINE h == [k \in 1 .. Len(bytes) + 1 |->
                    IF k > Len(bytes) THEN << >>
                    ELSE LET read == ReadField(bytes, k)
                         IN  IF read.error THEN <<Error>> ELSE <<read.field>> \o f[read.next]]
<1>1. f = h
  BY DEF ParsedBy
<1>2. h[at] = IF at > Len(bytes) THEN << >>
              ELSE LET read == ReadField(bytes, at)
                   IN  IF read.error THEN <<Error>> ELSE <<read.field>> \o f[read.next]
  OBVIOUS
<1> HIDE DEF h
<1> QED BY <1>1, <1>2

LEMMA ParsedExists ==
    ASSUME NEW bytes \in Seq(Nat)
    PROVE  \E f : ParsedBy(bytes, f)
<1> DEFINE end == Len(bytes) + 1
           Value(f, at) == IF at > Len(bytes) THEN << >>
                           ELSE LET read == ReadField(bytes, at)
                                IN  IF read.error THEN <<Error>> ELSE <<read.field>> \o f[read.next]
           From(n, f) == f = [at \in end - n .. end |-> f[at]] /\ \A at \in end - n .. end : f[at] = Value(f, at)
           S == {n \in Nat : n < end => \E f : From(n, f)}
<1>1. 0 \in S
  <2> DEFINE f == [at \in end - 0 .. end |-> << >>]
  <2>1. \A at \in end - 0 .. end : Value(f, at) = << >>
    OBVIOUS
  <2>2. \A at \in end - 0 .. end : f[at] = << >>
    OBVIOUS
  <2>4. f = [at \in end - 0 .. end |-> f[at]]
    OBVIOUS
  <2> HIDE DEF f, Value
  <2>3. From(0, f)
    BY <2>1, <2>2, <2>4
  <2> HIDE DEF From
  <2> QED BY <2>3
<1>2. ASSUME NEW n \in Nat, n \in S PROVE n + 1 \in S
  <2> HIDE DEF From
  <2>0. SUFFICES ASSUME n + 1 < end PROVE \E g : From(n + 1, g)
    OBVIOUS
  <2>1. PICK f : From(n, f)
    BY <1>2, <2>0
  <2> DEFINE new == end - (n + 1)
             g == [at \in new .. end |-> IF at = new THEN Value(f, at) ELSE f[at]]
  <2>2. new \in Nat \ {0} /\ new + 1 = end - n /\ new <= Len(bytes)
    BY <2>0
  <2>3. ASSUME NEW at \in new .. end PROVE Value(g, at) = Value(f, at)
    <3> DEFINE read == ReadField(bytes, at)
    <3>1. CASE at > Len(bytes)
      BY <3>1
    <3>2. CASE ~(at > Len(bytes))
      <4>1. at \in Nat \ {0}
        BY <2>2
      <4>2. read = Error \/ read \in [field : Known, next : at + 1 .. Len(bytes) + 1, error : {FALSE}]
        BY <4>1, ReadFieldType
      <4> DEFINE V(h) == IF read.error THEN <<Error>> ELSE <<read.field>> \o h[read.next]
      <4>6. Value(g, at) = V(g) /\ Value(f, at) = V(f)
        BY <3>2
      <4> HIDE DEF read, Value
      <4>3. CASE read = Error
        <5>1. read.error
          BY <4>3 DEF Error
        <5> QED BY <4>6, <5>1
      <4>4. CASE read \in [field : Known, next : at + 1 .. Len(bytes) + 1, error : {FALSE}]
        <5>1. read.next \in new + 1 .. end
          BY <4>4, <2>2
        <5>2. g[read.next] = f[read.next]
          BY <5>1, <2>2
        <5> HIDE DEF g
        <5> QED BY <5>2, <4>6
      <4> QED BY <4>2, <4>3, <4>4
    <3> QED BY <3>1, <3>2
  <2> HIDE DEF Value
  <2>4. ASSUME NEW at \in new .. end PROVE g[at] = Value(f, at)
    <3>1. CASE at = new
      BY <3>1
    <3>2. CASE at # new
      <4>1. at \in end - n .. end
        BY <3>2, <2>2
      <4>2. f[at] = Value(f, at)
        BY <4>1, <2>1 DEF From
      <4> QED BY <3>2, <4>2
    <3> QED BY <3>1, <3>2
  <2>5. g = [at \in new .. end |-> g[at]]
    OBVIOUS
  <2> HIDE DEF g
  <2>6. From(n + 1, g)
    BY <2>3, <2>4, <2>5 DEF From
  <2> QED BY <2>6
<1> HIDE DEF S
<1>3. Nat \subseteq S
  BY <1>1, <1>2, Induction
<1>4. Len(bytes) \in S /\ Len(bytes) < end /\ end - Len(bytes) = 1
  BY <1>3
<1> HIDE DEF From
<1> USE DEF S
<1>5. PICK f : From(Len(bytes), f)
  BY <1>4
<1> HIDE DEF Value
<1>6. f = [at \in 1 .. end |-> f[at]] /\ \A at \in 1 .. end : f[at] = Value(f, at)
  BY <1>4, <1>5 DEF From
<1>7. f = [at \in 1 .. end |-> Value(f, at)]
  BY <1>6
<1> QED BY <1>7 DEF ParsedBy, Value

LEMMA FieldsFromAt ==
    ASSUME NEW bytes \in Seq(Nat), NEW at \in 1 .. Len(bytes) + 1
    PROVE  FieldsFrom(bytes, at) =
              IF at > Len(bytes) THEN << >>
              ELSE LET read == ReadField(bytes, at)
                   IN  IF read.error THEN <<Error>> ELSE <<read.field>> \o FieldsFrom(bytes, read.next)
<1> DEFINE f == CHOOSE g : ParsedBy(bytes, g)
<1>1. ParsedBy(bytes, f)
  BY ParsedExists
<1>2. \A k : FieldsFrom(bytes, k) = f[k]
  BY DEF FieldsFrom
<1> HIDE DEF f
<1>3. f[at] = IF at > Len(bytes) THEN << >>
              ELSE LET read == ReadField(bytes, at)
                   IN  IF read.error THEN <<Error>> ELSE <<read.field>> \o f[read.next]
  BY <1>1, ParsedAt
<1> QED BY <1>2, <1>3

LEMMA FieldsFromEnd ==
    ASSUME NEW bytes \in Seq(Nat)
    PROVE  FieldsFrom(bytes, Len(bytes) + 1) = << >>
<1>1. Len(bytes) + 1 \in 1 .. Len(bytes) + 1 /\ Len(bytes) + 1 > Len(bytes)
  OBVIOUS
<1> QED BY <1>1, FieldsFromAt

LEMMA ReadFieldFields ==
    ASSUME NEW N, NEW x \in [field : Known, next : N, error : {FALSE}]
    PROVE  x.field \in Known /\ x.next \in N /\ x.error = FALSE
OBVIOUS

LEMMA FieldsFromType ==
    ASSUME NEW bytes \in Seq(Nat), NEW at \in 1 .. Len(bytes) + 1
    PROVE  FieldsFrom(bytes, at) \in Seq(AnyField)
<1> DEFINE end == Len(bytes) + 1
           S == {n \in Nat : n < end => FieldsFrom(bytes, end - n) \in Seq(AnyField)}
<1>1. ASSUME NEW n \in Nat, 0 .. n - 1 \subseteq S PROVE n \in S
  <2> DEFINE k == end - n
             read == ReadField(bytes, k)
  <2>1. SUFFICES ASSUME n < end PROVE FieldsFrom(bytes, k) \in Seq(AnyField)
    OBVIOUS
  <2>2. k \in 1 .. end /\ end - k = n
    BY <2>1
  <2> HIDE DEF k
  <2>3. FieldsFrom(bytes, k) =
           IF k > Len(bytes) THEN << >>
           ELSE IF read.error THEN <<Error>> ELSE <<read.field>> \o FieldsFrom(bytes, read.next)
    BY <2>2, FieldsFromAt
  <2>8. k \in Nat \ {0}
    BY <2>2
  <2>4. read = Error \/ read \in [field : Known, next : k + 1 .. end, error : {FALSE}]
    BY <2>8, ReadFieldType
  <2> HIDE DEF read
  <2>5. CASE k > Len(bytes)
    BY <2>3, <2>5
  <2>6. CASE ~(k > Len(bytes)) /\ read = Error
    <3>1. FieldsFrom(bytes, k) = <<Error>>
      BY <2>3, <2>6, ErrorIs
    <3>2. <<Error>> \in Seq(AnyField)
      BY DEF AnyField
    <3> QED BY <3>1, <3>2
  <2>7. CASE ~(k > Len(bytes)) /\ read \in [field : Known, next : k + 1 .. end, error : {FALSE}]
    <3>1. read.field \in Known /\ read.next \in k + 1 .. end /\ read.error = FALSE
      BY <2>7, ReadFieldFields
    <3>2. FieldsFrom(bytes, k) = <<read.field>> \o FieldsFrom(bytes, read.next)
      BY <2>3, <2>7, <3>1
    <3>3. end - read.next \in 0 .. n - 1 /\ end - read.next < end /\ end - (end - read.next) = read.next
      <4>1. \A m \in k + 1 .. end : end - m \in 0 .. n - 1 /\ end - m < end /\ end - (end - m) = m
        BY <2>2
      <4> QED BY <3>1, <4>1
    <3>4. FieldsFrom(bytes, read.next) \in Seq(AnyField)
      BY <1>1, <3>3
    <3>5. <<read.field>> \in Seq(AnyField)
      BY <3>1 DEF AnyField
    <3> QED BY <3>2, <3>4, <3>5, ConcatProperties
  <2> QED BY <2>4, <2>5, <2>6, <2>7
<1> HIDE DEF S
<1>2. Nat \subseteq S
  BY <1>1, StrongInduction
<1> USE DEF S
<1>3. end - at \in S /\ end - at < end /\ end - (end - at) = at
  BY <1>2
<1> QED BY <1>3

\* These bytes are read as these fields, wherever they are.
ReadsAs(s, fields) ==
    \A bytes \in Seq(Nat) : \A at :
        Holds(bytes, at, s) => FieldsFrom(bytes, at) = fields \o FieldsFrom(bytes, at + Len(s))

LEMMA HoldsEnds ==
    ASSUME NEW bytes \in Seq(Nat), NEW at, NEW s \in Seq(Nat), Holds(bytes, at, s)
    PROVE  /\ at \in Nat \ {0} /\ at \in 1 .. Len(bytes) + 1
           /\ at + Len(s) \in 1 .. Len(bytes) + 1 /\ at + Len(s) \in Nat \ {0}
BY DEF Holds

LEMMA ReadsNothing == ReadsAs(<< >>, << >>)
<1>1. ASSUME NEW bytes \in Seq(Nat), NEW at, Holds(bytes, at, << >>)
      PROVE  FieldsFrom(bytes, at) = << >> \o FieldsFrom(bytes, at + Len(<< >>))
  <2>1. << >> \in Seq(Nat) /\ Len(<< >>) = 0
    OBVIOUS
  <2>2. at \in 1 .. Len(bytes) + 1
    BY <1>1, <2>1, HoldsEnds
  <2>3. at + Len(<< >>) = at
    BY <2>1, <2>2
  <2>4. FieldsFrom(bytes, at) \in Seq(AnyField)
    BY <2>2, FieldsFromType
  <2> QED BY <2>3, <2>4, ConcatEmptySeq
<1> QED BY <1>1 DEF ReadsAs

LEMMA ReadsConcat ==
    ASSUME NEW s \in Seq(Nat), NEW t \in Seq(Nat), NEW a \in Seq(AnyField), NEW b \in Seq(AnyField),
           ReadsAs(s, a), ReadsAs(t, b)
    PROVE  ReadsAs(s \o t, a \o b)
<1>1. ASSUME NEW bytes \in Seq(Nat), NEW at, Holds(bytes, at, s \o t)
      PROVE  FieldsFrom(bytes, at) = (a \o b) \o FieldsFrom(bytes, at + Len(s \o t))
  <2> DEFINE mid == at + Len(s)
             end == at + Len(s \o t)
  <2>1. Holds(bytes, at, s) /\ Holds(bytes, mid, t)
    BY <1>1, HoldsConcat
  <2>2. at \in Nat \ {0} /\ mid + Len(t) \in 1 .. Len(bytes) + 1
    BY <2>1, HoldsEnds
  <2>3. mid + Len(t) = end
    BY <2>2
  <2> HIDE DEF mid, end
  <2>4. FieldsFrom(bytes, at) = a \o FieldsFrom(bytes, mid)
    BY <2>1 DEF ReadsAs, mid
  <2>5. FieldsFrom(bytes, mid) = b \o FieldsFrom(bytes, end)
    BY <2>1, <2>3 DEF ReadsAs
  <2>6. FieldsFrom(bytes, end) \in Seq(AnyField)
    BY <2>2, <2>3, FieldsFromType
  <2>7. a \o (b \o FieldsFrom(bytes, end)) = (a \o b) \o FieldsFrom(bytes, end)
    BY <2>6, SMTT(60)
  <2> QED BY <2>4, <2>5, <2>7 DEF end
<1> QED BY <1>1 DEF ReadsAs

LEMMA ReadsAll ==
    ASSUME NEW s \in Seq(Seq(Nat)), NEW a \in Seq(Seq(AnyField)), Len(s) = Len(a),
           \A i \in 1 .. Len(s) : ReadsAs(s[i], a[i])
    PROVE  ReadsAs(FlattenSeq(s), FlattenSeq(a))
<1> DEFINE S == {n \in Nat : \A r \in Seq(Seq(Nat)), b \in Seq(Seq(AnyField)) :
                    Len(r) = n /\ Len(b) = n /\ (\A i \in 1 .. n : ReadsAs(r[i], b[i]))
                       => ReadsAs(FlattenSeq(r), FlattenSeq(b))}
<1>1. 0 \in S
  <2>1. ASSUME NEW r \in Seq(Seq(Nat)), NEW b \in Seq(Seq(AnyField)), Len(r) = 0, Len(b) = 0
        PROVE  ReadsAs(FlattenSeq(r), FlattenSeq(b))
    <3>1. r = << >> /\ b = << >>
      BY <2>1, EmptySeq
    <3> QED BY <3>1, FlattenOfNone, ReadsNothing
  <2> QED BY <2>1
<1>2. ASSUME NEW n \in Nat, n \in S PROVE n + 1 \in S
  <2>1. SUFFICES ASSUME NEW r \in Seq(Seq(Nat)), NEW b \in Seq(Seq(AnyField)),
                        Len(r) = n + 1, Len(b) = n + 1, \A i \in 1 .. n + 1 : ReadsAs(r[i], b[i])
                 PROVE  ReadsAs(FlattenSeq(r), FlattenSeq(b))
    OBVIOUS
  <2>2. r # << >> /\ b # << >>
    BY <2>1
  <2>3. PICK q \in Seq(Seq(Nat)), x \in Seq(Nat) : r = Append(q, x)
    BY <2>2, SequenceEmptyOrAppend
  <2>4. PICK c \in Seq(Seq(AnyField)), y \in Seq(AnyField) : b = Append(c, y)
    BY <2>2, SequenceEmptyOrAppend
  <2>5. /\ Len(q) = n /\ Len(c) = n /\ r[n + 1] = x /\ b[n + 1] = y
        /\ \A i \in 1 .. n : r[i] = q[i] /\ b[i] = c[i]
    BY <2>1, <2>3, <2>4
  <2>6. ReadsAs(FlattenSeq(q), FlattenSeq(c))
    <3>1. \A i \in 1 .. n : ReadsAs(q[i], c[i])
      BY <2>1, <2>5
    <3> QED BY <1>2, <2>5, <3>1
  <2>7. ReadsAs(x, y)
    <3>1. n + 1 \in 1 .. n + 1
      OBVIOUS
    <3> QED BY <2>1, <2>5, <3>1
  <2>8. FlattenSeq(r) = FlattenSeq(q) \o x /\ FlattenSeq(b) = FlattenSeq(c) \o y
    BY <2>3, <2>4, FlattenOfAppend
  <2>9. FlattenSeq(q) \in Seq(Nat) /\ FlattenSeq(c) \in Seq(AnyField)
    BY FlattenType
  <2> QED BY <2>6, <2>7, <2>8, <2>9, ReadsConcat
<1> HIDE DEF S
<1>3. Nat \subseteq S
  BY <1>1, <1>2, Induction
<1> USE DEF S
<1>4. Len(s) \in S
  BY <1>3
<1> QED BY <1>4

-----------------------------------------------------------------------------
\* These bytes are read as this value, wherever they are.
TakesAs(wire, s, x) ==
    \A bytes \in Seq(Nat) : \A at :
        Holds(bytes, at, s)
            => ReadValue(wire, bytes, at) = [value |-> x, next |-> at + Len(s), error |-> FALSE]

LEMMA TakesVarint ==
    ASSUME NEW v \in Nat, v < Long
    PROVE  TakesAs(VARINT, WriteVarint(v), v)
<1>1. ASSUME NEW bytes \in Seq(Nat), NEW at, Holds(bytes, at, WriteVarint(v))
      PROVE  ReadValue(VARINT, bytes, at)
                = [value |-> v, next |-> at + Len(WriteVarint(v)), error |-> FALSE]
  <2>1. ReadValue(VARINT, bytes, at) = ReadVarint(bytes, at)
    BY DEF ReadValue, VARINT, FIXED64, FIXED32, DELIMITED
  <2> QED BY <1>1, <2>1, ReadVarintOfWritten
<1> QED BY <1>1 DEF TakesAs

LEMMA HeldIs ==
    ASSUME NEW bytes \in Seq(Nat), NEW at, NEW s \in Seq(Nat), Holds(bytes, at, s)
    PROVE  ~(at + Len(s) - 1 > Len(bytes)) /\ SubSeq(bytes, at, at + Len(s) - 1) = s
<1>1. /\ at \in Nat \ {0} /\ at + Len(s) - 1 <= Len(bytes)
      /\ \A k \in 1 .. Len(s) : bytes[at + k - 1] = s[k]
  BY DEF Holds
<1> DEFINE t == SubSeq(bytes, at, at + Len(s) - 1)
<1>2. \A i \in at .. at + Len(s) - 1 : bytes[i] \in Nat
  BY <1>1
<1>3. at \in Int /\ at + Len(s) - 1 \in Int
  BY <1>1
<1>4. /\ t \in Seq(Nat)
      /\ Len(t) = IF at <= at + Len(s) - 1 THEN at + Len(s) - 1 - at + 1 ELSE 0
      /\ \A i \in 1 .. at + Len(s) - 1 - at + 1 : t[i] = bytes[at + i - 1]
  BY <1>2, <1>3, SubSeqProperties
<1> HIDE DEF t
<1>5. Len(t) = Len(s)
  BY <1>1, <1>4
<1>6. ASSUME NEW i \in 1 .. Len(t) PROVE t[i] = s[i]
  BY <1>1, <1>4, <1>5
<1>7. t = s
  BY <1>4, <1>5, <1>6, SeqEqual
<1> QED BY <1>1, <1>7 DEF t

LEMMA TakesFixed32 ==
    ASSUME NEW s \in Seq(Nat), Len(s) = 4
    PROVE  TakesAs(FIXED32, s, s)
<1>1. ASSUME NEW bytes \in Seq(Nat), NEW at, Holds(bytes, at, s)
      PROVE  ReadValue(FIXED32, bytes, at) = [value |-> s, next |-> at + Len(s), error |-> FALSE]
  <2>1. ReadValue(FIXED32, bytes, at) =
           IF at + 4 - 1 > Len(bytes) THEN Error
           ELSE [value |-> SubSeq(bytes, at, at + 4 - 1), next |-> at + 4, error |-> FALSE]
    BY DEF ReadValue, VARINT, FIXED64, FIXED32, DELIMITED
  <2>2. ~(at + Len(s) - 1 > Len(bytes)) /\ SubSeq(bytes, at, at + Len(s) - 1) = s
    BY <1>1, HeldIs
  <2> QED BY <2>1, <2>2
<1> QED BY <1>1 DEF TakesAs

LEMMA TakesDelimited ==
    ASSUME NEW v \in Seq(Nat), Len(v) < Long
    PROVE  TakesAs(DELIMITED, WriteVarint(Len(v)) \o v, v)
<1> DEFINE w == WriteVarint(Len(v))
<1>1. ASSUME NEW bytes \in Seq(Nat), NEW at, Holds(bytes, at, w \o v)
      PROVE  ReadValue(DELIMITED, bytes, at)
                = [value |-> v, next |-> at + Len(w \o v), error |-> FALSE]
  <2> DEFINE length == ReadVarint(bytes, at)
             from == at + Len(w)
  <2>1. ReadValue(DELIMITED, bytes, at) =
           IF length.error THEN Error
           ELSE IF length.next + length.value - 1 > Len(bytes) THEN Error
           ELSE [value |-> SubSeq(bytes, length.next, length.next + length.value - 1),
                 next |-> length.next + length.value, error |-> FALSE]
    BY DEF ReadValue, VARINT, FIXED64, FIXED32, DELIMITED
  <2>10. Len(v) \in Nat
    OBVIOUS
  <2>2. Len(v) \in Nat /\ w \in Seq(Nat)
    BY <2>10, WriteVarintStep
  <2>3. Holds(bytes, at, w) /\ Holds(bytes, from, v)
    BY <1>1, <2>2, HoldsConcat
  <2>4. length = [value |-> Len(v), next |-> from, error |-> FALSE]
    BY <2>2, <2>3, ReadVarintOfWritten
  <2>5. ~(from + Len(v) - 1 > Len(bytes)) /\ SubSeq(bytes, from, from + Len(v) - 1) = v
    BY <2>3, HeldIs
  <2>7. at \in Nat
    BY <2>2, <2>3, HoldsEnds
  <2> HIDE DEF length, w
  <2>6. from + Len(v) = at + Len(w \o v)
    BY <2>2, <2>7
  <2> HIDE DEF from
  <2>8. length.value = Len(v) /\ length.next = from /\ length.error = FALSE
    BY <2>4
  <2>9. ReadValue(DELIMITED, bytes, at) = [value |-> v, next |-> from + Len(v), error |-> FALSE]
    BY <2>1, <2>5, <2>8
  <2> QED BY <2>6, <2>9
<1> HIDE DEF w
<1>2. TakesAs(DELIMITED, w \o v, v)
  BY <1>1 DEF TakesAs
<1> QED BY <1>2 DEF w

-----------------------------------------------------------------------------
(* A field *)

LEMMA TagType ==
    ASSUME NEW f \in Nat, f < Word, NEW wire \in 0 .. 7
    PROVE  /\ (f * 8) + wire \in Nat /\ (f * 8) + wire < Long
           /\ ((f * 8) + wire) % 8 = wire /\ (((f * 8) + wire) \div 8) % Word = f
           /\ WriteTag(f, wire) \in Seq(Nat) /\ Len(WriteTag(f, wire)) \in Nat \ {0}
<1> DEFINE v == (f * 8) + wire
<1>1. Word \in Nat \ {0} /\ Long \in Nat \ {0} /\ 8 * Word <= Long
  BY CodecAssumption
<1>2. v \in Nat /\ v < Long
  BY <1>1
<1>3. v % 8 = wire /\ v \div 8 = f
  OBVIOUS
<1>4. f % Word = f
  BY <1>1, Remainder
<1>5. WriteTag(f, wire) = WriteVarint(v)
  BY DEF WriteTag
<1> HIDE DEF v
<1>6. WriteVarint(v) \in Seq(Nat) /\ Len(WriteVarint(v)) \in Nat \ {0}
  BY <1>2, WriteVarintStep, WriteVarintDigits
<1> QED BY <1>2, <1>3, <1>4, <1>5, <1>6 DEF v

LEMMA ReadsField ==
    ASSUME NEW f \in Nat, f < Word, NEW wire \in 0 .. 7, NEW s \in Seq(Nat), NEW x, TakesAs(wire, s, x)
    PROVE  ReadsAs(WriteTag(f, wire) \o s, <<[number |-> f, wire |-> wire, value |-> x, error |-> FALSE]>>)
<1> DEFINE v == (f * 8) + wire
           t == WriteTag(f, wire)
           field == [number |-> f, wire |-> wire, value |-> x, error |-> FALSE]
<1>1. v \in Nat /\ v < Long /\ v % 8 = wire /\ (v \div 8) % Word = f
  BY TagType
<1>2. t \in Seq(Nat) /\ Len(t) \in Nat \ {0} /\ t = WriteVarint(v)
  BY TagType DEF WriteTag
<1> HIDE DEF v, t
<1>3. ASSUME NEW bytes \in Seq(Nat), NEW at, Holds(bytes, at, t \o s)
      PROVE  FieldsFrom(bytes, at) = <<field>> \o FieldsFrom(bytes, at + Len(t \o s))
  <2> DEFINE tag == ReadVarint(bytes, at)
             mid == at + Len(t)
             read == ReadValue(tag.value % 8, bytes, tag.next)
  <2>1. Holds(bytes, at, t) /\ Holds(bytes, mid, s)
    BY <1>2, <1>3, HoldsConcat
  <2>2. tag = [value |-> v, next |-> mid, error |-> FALSE]
    BY <1>1, <1>2, <2>1, ReadVarintOfWritten
  <2>3. at \in Nat \ {0} /\ mid \in 1 .. Len(bytes) + 1
    BY <1>2, <2>1, HoldsEnds
  <2>4. mid + Len(s) = at + Len(t \o s)
    BY <1>2, <2>3
  <2>5. at \in 1 .. Len(bytes) + 1 /\ ~(at > Len(bytes))
    BY <1>2, <2>3
  <2>6. ReadField(bytes, at) =
           IF tag.error \/ read.error THEN Error
           ELSE [field |-> [number |-> (tag.value \div 8) % Word, wire |-> tag.value % 8,
                            value |-> read.value, error |-> FALSE],
                 next |-> read.next, error |-> FALSE]
    BY DEF ReadField
  <2> HIDE DEF tag, mid
  <2>7. tag.value = v /\ tag.next = mid /\ tag.error = FALSE
    BY <2>2
  <2>8. read = [value |-> x, next |-> mid + Len(s), error |-> FALSE]
    BY <1>1, <2>1, <2>7 DEF TakesAs
  <2> HIDE DEF read
  <2>9. read.value = x /\ read.next = mid + Len(s) /\ read.error = FALSE
    BY <2>8
  <2>10. ReadField(bytes, at) = [field |-> field, next |-> mid + Len(s), error |-> FALSE]
    BY <1>1, <2>6, <2>7, <2>9
  <2> HIDE DEF field
  <2> DEFINE got == ReadField(bytes, at)
  <2>11. FieldsFrom(bytes, at) =
           IF at > Len(bytes) THEN << >>
           ELSE IF got.error THEN <<Error>> ELSE <<got.field>> \o FieldsFrom(bytes, got.next)
    BY <2>5, FieldsFromAt
  <2> HIDE DEF got
  <2>12. got.field = field /\ got.next = mid + Len(s) /\ got.error = FALSE
    BY <2>10 DEF got
  <2> QED BY <2>4, <2>5, <2>11, <2>12
<1> HIDE DEF field
<1>4. ReadsAs(t \o s, <<field>>)
  BY <1>3 DEF ReadsAs
<1> QED BY <1>4 DEF t, field

\* The values that a field of a type has, and those of an optional field or a list.
ValuesOf(type) ==
    IF WireType(type) = DELIMITED THEN {v \in Seq(Nat) : Len(v) < Long}
    ELSE IF type = "flag" THEN {TRUE}
    ELSE IF type = "status" THEN {Statuses[s] : s \in DOMAIN Statuses}
    ELSE -(Word \div 2) .. (Word \div 2) - 1

Contained(type) ==
    IF type = "list" THEN Seq(ValuesOf(type)) ELSE {<< >>} \cup {<<v>> : v \in ValuesOf(type)}

\* What is read for it.
WireValue(type, v) ==
    IF WireType(type) = DELIMITED THEN v ELSE IF type = "flag" THEN 1 ELSE v % Long

FieldOf(f, type, v) ==
    [number |-> f, wire |-> WireType(type), value |-> WireValue(type, v), error |-> FALSE]

AllTypes == {"bytes", "list", "message", "flag", "status", "int32"}

LEMMA StatusNumbers == {Statuses[s] : s \in DOMAIN Statuses} = 1 .. 4
<1>1. DOMAIN Statuses = {"NewClient", "ReturningClient", "InvalidKey", "MismatchedProtocol"}
  BY DEF Statuses
<1>2. /\ Statuses["NewClient"] = 1 /\ Statuses["ReturningClient"] = 2
      /\ Statuses["InvalidKey"] = 3 /\ Statuses["MismatchedProtocol"] = 4
  BY DEF Statuses
<1>3. {Statuses[s] : s \in DOMAIN Statuses} = {1, 2, 3, 4}
  BY <1>1, <1>2
<1> QED BY <1>3

LEMMA FieldWritten ==
    ASSUME NEW f \in Nat, f < Word, NEW type \in AllTypes, NEW v \in ValuesOf(type)
    PROVE  /\ WriteField(f, type, v) \in Seq(Nat)
           /\ ReadsAs(WriteField(f, type, v), <<FieldOf(f, type, v)>>)
           /\ FieldOf(f, type, v) \in Known
<1> DEFINE wire == WireType(type)
           tag == WriteTag(f, wire)
           s == WriteValue(type, v)
           x == WireValue(type, v)
<1>1. wire \in 0 .. 7 /\ wire \in Nat
  BY DEF WireType, VARINT, DELIMITED
<1>2. s \in Seq(Nat) /\ TakesAs(wire, s, x) /\ x \in Nat \cup Seq(Nat)
  <2>1. CASE wire = DELIMITED
    <3>1. v \in Seq(Nat) /\ Len(v) < Long /\ Len(v) \in Nat
      BY <2>1 DEF ValuesOf
    <3>2. s = WriteVarint(Len(v)) \o v /\ x = v
      BY <2>1 DEF WriteValue, WireValue, WireType, DELIMITED, VARINT
    <3>3. TakesAs(DELIMITED, WriteVarint(Len(v)) \o v, v)
      BY <3>1, TakesDelimited
    <3>4. WriteVarint(Len(v)) \in Seq(Nat)
      BY <3>1, WriteVarintStep
    <3> HIDE DEF s, x, wire
    <3> QED BY <2>1, <3>1, <3>2, <3>3, <3>4, ConcatProperties
  <2>2. CASE wire # DELIMITED
    <3>1. wire = VARINT
      BY <2>2 DEF WireType
    <3>2. PICK n \in Nat : n < Long /\ s = WriteVarint(n) /\ x = n
      <4>1. CASE type = "flag"
        <5>1. s = WriteVarint(1) /\ x = 1
          BY <2>2, <4>1 DEF WriteValue, WireValue
        <5>2. 1 \in Nat /\ 1 < Long
          BY CodecAssumption
        <5> QED BY <5>1, <5>2
      <4>2. CASE type # "flag"
        <5>1. s = WriteVarint(v % Long) /\ x = v % Long
          BY <2>2, <4>2 DEF WriteValue, WireValue
        <5>2. Long \in Nat \ {0} /\ Word \in Nat
          BY CodecAssumption
        <5>3. v \in Int
          <6>1. CASE type = "status"
            BY <2>2, <4>2, <6>1, StatusNumbers DEF ValuesOf
          <6>2. CASE type # "status"
            BY <2>2, <4>2, <6>2 DEF ValuesOf
          <6> QED BY <6>1, <6>2
        <5>4. v % Long \in 0 .. Long - 1
          BY <5>2, <5>3, Divide
        <5>5. v % Long \in Nat /\ v % Long < Long
          BY <5>2, <5>4
        <5> QED BY <5>1, <5>5
      <4> QED BY <4>1, <4>2
    <3>3. WriteVarint(n) \in Seq(Nat) /\ TakesAs(VARINT, WriteVarint(n), n)
      BY <3>2, WriteVarintStep, TakesVarint
    <3> HIDE DEF s, x, wire
    <3> QED BY <3>1, <3>2, <3>3
  <2> QED BY <2>1, <2>2
<1>3. tag \in Seq(Nat)
  BY <1>1, TagType
<1>4. WriteField(f, type, v) = tag \o s
  BY DEF WriteField
<1>5. FieldOf(f, type, v) = [number |-> f, wire |-> wire, value |-> x, error |-> FALSE]
  BY DEF FieldOf
<1> HIDE DEF wire, s, x
<1>6. ReadsAs(tag \o s, <<[number |-> f, wire |-> wire, value |-> x, error |-> FALSE]>>)
  BY <1>1, <1>2, ReadsField
<1>7. [number |-> f, wire |-> wire, value |-> x, error |-> FALSE] \in Known
  BY <1>1, <1>2 DEF Known
<1> HIDE DEF tag
<1> QED BY <1>2, <1>3, <1>4, <1>5, <1>6, <1>7, ConcatProperties

-----------------------------------------------------------------------------
(* More on FlattenSeq *)

LEMMA FlattenOfSingles ==
    ASSUME NEW T, NEW q \in Seq(T)
    PROVE  FlattenSeq([i \in 1 .. Len(q) |-> <<q[i]>>]) = q
<1> DEFINE Singles(r) == [i \in 1 .. Len(r) |-> <<r[i]>>]
           S == {r \in Seq(T) : FlattenSeq(Singles(r)) = r}
<1>0. ASSUME NEW r \in Seq(T) PROVE Singles(r) \in Seq(Seq(T)) /\ Len(Singles(r)) = Len(r)
  <2>1. \A i \in 1 .. Len(r) : <<r[i]>> \in Seq(T)
    OBVIOUS
  <2>2. Len(r) \in Nat
    OBVIOUS
  <2> QED BY <2>1, <2>2
<1>1. << >> \in S
  <2>1. << >> \in Seq(T) /\ Len(<< >>) = 0
    OBVIOUS
  <2>2. Singles(<< >>) = << >>
    <3>1. Singles(<< >>) \in Seq(Seq(T)) /\ Len(Singles(<< >>)) = 0
      BY <1>0, <2>1
    <3> HIDE DEF Singles
    <3> QED BY <3>1, EmptySeq
  <2> HIDE DEF Singles
  <2> QED BY <2>1, <2>2, FlattenOfNone
<1>2. ASSUME NEW r \in Seq(T), NEW x \in T, r \in S PROVE Append(r, x) \in S
  <2> DEFINE p == Append(r, x)
             a == Singles(p)
             b == Append(Singles(r), <<x>>)
  <2>1. /\ p \in Seq(T) /\ Len(p) = Len(r) + 1 /\ p[Len(r) + 1] = x
        /\ \A i \in 1 .. Len(r) : p[i] = r[i]
    OBVIOUS
  <2>2. <<x>> \in Seq(T)
    OBVIOUS
  <2>3. Singles(r) \in Seq(Seq(T)) /\ Len(Singles(r)) = Len(r)
    BY <1>0
  <2>9. \A i \in 1 .. Len(r) : Singles(r)[i] = <<r[i]>>
    OBVIOUS
  <2> HIDE DEF p
  <2>4. /\ a \in Seq(Seq(T)) /\ Len(a) = Len(r) + 1
        /\ \A i \in 1 .. Len(r) + 1 : a[i] = <<p[i]>>
    BY <1>0, <2>1
  <2> HIDE DEF Singles, a
  <2>5. /\ b \in Seq(Seq(T)) /\ Len(b) = Len(r) + 1 /\ b[Len(r) + 1] = <<x>>
        /\ \A i \in 1 .. Len(r) : b[i] = Singles(r)[i]
    BY <2>2, <2>3
  <2> HIDE DEF b
  <2>6. ASSUME NEW i \in 1 .. Len(a) PROVE a[i] = b[i]
    <3>1. CASE i = Len(r) + 1
      BY <2>1, <2>4, <2>5, <3>1
    <3>2. CASE i # Len(r) + 1
      <4>1. i \in 1 .. Len(r) /\ i \in 1 .. Len(r) + 1
        BY <2>4, <3>2
      <4> QED BY <4>1, <2>1, <2>4, <2>5, <2>9
    <3> QED BY <3>1, <3>2
  <2>7. a = b
    BY <2>4, <2>5, <2>6, SeqEqual
  <2>8. FlattenSeq(b) = FlattenSeq(Singles(r)) \o <<x>>
    BY <2>2, <2>3, FlattenOfAppend DEF b
  <2>10. FlattenSeq(Singles(r)) = r
    BY <1>2
  <2>11. r \o <<x>> = p
    BY AppendIsConcat DEF p
  <2> QED BY <2>1, <2>7, <2>8, <2>10, <2>11 DEF a, p
<1> HIDE DEF S
<1>3. Seq(T) \subseteq S
  BY <1>1, <1>2, SequenceInduction
<1> USE DEF S
<1> QED BY <1>3

LEMMA FlattenOfEmpties ==
    ASSUME NEW T, NEW s \in Seq(Seq(T)), \A i \in 1 .. Len(s) : s[i] = << >>
    PROVE  FlattenSeq(s) = << >>
<1> DEFINE S == {r \in Seq(Seq(T)) : (\A i \in 1 .. Len(r) : r[i] = << >>) => FlattenSeq(r) = << >>}
<1>1. << >> \in S
  BY FlattenOfNone
<1>2. ASSUME NEW r \in Seq(Seq(T)), NEW x \in Seq(T), r \in S PROVE Append(r, x) \in S
  <2> DEFINE p == Append(r, x)
  <2>1. /\ p \in Seq(Seq(T)) /\ Len(p) = Len(r) + 1 /\ p[Len(r) + 1] = x
        /\ \A i \in 1 .. Len(r) : p[i] = r[i]
    OBVIOUS
  <2> HIDE DEF p
  <2>2. SUFFICES ASSUME \A i \in 1 .. Len(p) : p[i] = << >> PROVE FlattenSeq(p) = << >>
    BY <2>1 DEF p
  <2>3. x = << >> /\ \A i \in 1 .. Len(r) : r[i] = << >>
    <3>1. Len(r) + 1 \in 1 .. Len(p) /\ \A i \in 1 .. Len(r) : i \in 1 .. Len(p)
      BY <2>1
    <3> QED BY <2>1, <2>2, <3>1
  <2>4. FlattenSeq(p) = FlattenSeq(r) \o x
    BY FlattenOfAppend DEF p
  <2>5. FlattenSeq(r) = << >>
    BY <1>2, <2>3
  <2>6. << >> \o << >> = << >>
    BY ConcatEmptySeq, EmptySeq
  <2> QED BY <2>3, <2>4, <2>5, <2>6
<1> HIDE DEF S
<1>3. Seq(Seq(T)) \subseteq S
  BY <1>1, <1>2, SequenceInduction
<1> USE DEF S
<1> QED BY <1>3

LEMMA FlattenOfOne ==
    ASSUME NEW T, NEW s \in Seq(Seq(T)), NEW k \in 1 .. Len(s),
           \A i \in 1 .. Len(s) : i # k => s[i] = << >>
    PROVE  FlattenSeq(s) = s[k]
<1> DEFINE S == {r \in Seq(Seq(T)) :
                    \A j \in 1 .. Len(r) :
                       (\A i \in 1 .. Len(r) : i # j => r[i] = << >>) => FlattenSeq(r) = r[j]}
<1>1. << >> \in S
  OBVIOUS
<1>2. ASSUME NEW r \in Seq(Seq(T)), NEW x \in Seq(T), r \in S PROVE Append(r, x) \in S
  <2> DEFINE p == Append(r, x)
  <2>1. /\ p \in Seq(Seq(T)) /\ Len(p) = Len(r) + 1 /\ p[Len(r) + 1] = x
        /\ \A i \in 1 .. Len(r) : p[i] = r[i]
    OBVIOUS
  <2>4. FlattenSeq(p) = FlattenSeq(r) \o x
    BY FlattenOfAppend
  <2> HIDE DEF p
  <2>2. SUFFICES ASSUME NEW j \in 1 .. Len(p), \A i \in 1 .. Len(p) : i # j => p[i] = << >>
                 PROVE  FlattenSeq(p) = p[j]
    BY <2>1 DEF p
  <2>3. CASE j = Len(r) + 1
    <3>1. \A i \in 1 .. Len(r) : i \in 1 .. Len(p) /\ i # j
      BY <2>1, <2>3
    <3>2. \A i \in 1 .. Len(r) : r[i] = << >>
      BY <2>1, <2>2, <3>1
    <3>3. FlattenSeq(r) = << >>
      BY <3>2, FlattenOfEmpties
    <3>4. << >> \o x = x
      BY ConcatEmptySeq
    <3> QED BY <2>1, <2>3, <2>4, <3>3, <3>4
  <2>5. CASE j # Len(r) + 1
    <3>1. j \in 1 .. Len(r) /\ Len(r) + 1 \in 1 .. Len(p) /\ \A i \in 1 .. Len(r) : i \in 1 .. Len(p)
      BY <2>1, <2>5, SMTT(30)
    <3>2. x = << >> /\ \A i \in 1 .. Len(r) : i # j => r[i] = << >>
      BY <2>1, <2>2, <2>5, <3>1
    <3>3. FlattenSeq(r) = r[j] /\ r[j] = p[j]
      BY <1>2, <2>1, <3>1, <3>2
    <3>5. r[j] \in Seq(T)
      BY <3>1
    <3>4. r[j] \o << >> = r[j]
      BY <3>5, ConcatEmptySeq
    <3> QED BY <2>4, <3>2, <3>3, <3>4
  <2> QED BY <2>3, <2>5
<1> HIDE DEF S
<1>3. Seq(Seq(T)) \subseteq S
  BY <1>1, <1>2, SequenceInduction
<1> USE DEF S
<1> QED BY <1>3

-----------------------------------------------------------------------------
(* The values of a field, and a message *)

LEMMA FlattenOfSingle ==
    ASSUME NEW T, NEW s \in Seq(T)
    PROVE  FlattenSeq(<<s>>) = s
<1> DEFINE p == <<s>>
<1>1. p \in Seq(Seq(T)) /\ Len(p) = 1 /\ p[1] = s
  OBVIOUS
<1> HIDE DEF p
<1>2. 1 \in 1 .. Len(p) /\ \A i \in 1 .. Len(p) : i # 1 => p[i] = << >>
  BY <1>1
<1>3. FlattenSeq(p) = p[1]
  BY <1>1, <1>2, FlattenOfOne
<1> QED BY <1>1, <1>3 DEF p

LEMMA IsSequence ==
    ASSUME NEW T, NEW n \in Nat, NEW s, s = [i \in 1 .. n |-> s[i]], \A i \in 1 .. n : s[i] \in T
    PROVE  s \in Seq(T) /\ Len(s) = n
OBVIOUS

FieldsOf(f, type, values) == [i \in 1 .. Len(values) |-> FieldOf(f, type, values[i])]

LEMMA ValuesWritten ==
    ASSUME NEW f \in Nat, f < Word, NEW type \in AllTypes, NEW values \in Seq(ValuesOf(type))
    PROVE  /\ WriteValues(f, type, values) \in Seq(Nat)
           /\ FieldsOf(f, type, values) \in Seq(Known)
           /\ Len(FieldsOf(f, type, values)) = Len(values)
           /\ ReadsAs(WriteValues(f, type, values), FieldsOf(f, type, values))
<1> DEFINE n == Len(values)
           s == [i \in 1 .. n |-> WriteField(f, type, values[i])]
           q == FieldsOf(f, type, values)
           a == [i \in 1 .. n |-> <<q[i]>>]
<1>1. n \in Nat /\ DOMAIN values = 1 .. n /\ \A i \in 1 .. n : values[i] \in ValuesOf(type)
  OBVIOUS
<1>2. WriteValues(f, type, values) = FlattenSeq(s)
  BY <1>1 DEF WriteValues
<1>3. ASSUME NEW i \in 1 .. n
      PROVE  /\ WriteField(f, type, values[i]) \in Seq(Nat)
             /\ ReadsAs(WriteField(f, type, values[i]), <<FieldOf(f, type, values[i])>>)
             /\ FieldOf(f, type, values[i]) \in Known
  BY <1>1, FieldWritten
<1> HIDE DEF n
<1>14. s = [i \in 1 .. n |-> s[i]] /\ \A i \in 1 .. n : s[i] = WriteField(f, type, values[i])
  OBVIOUS
<1>15. q = [i \in 1 .. n |-> q[i]] /\ \A i \in 1 .. n : q[i] = FieldOf(f, type, values[i])
  BY DEF FieldsOf, n
<1> HIDE DEF s, q
<1>16. (\A i \in 1 .. n : s[i] \in Seq(Nat)) /\ \A i \in 1 .. n : q[i] \in Known
  BY <1>3, <1>14, <1>15
<1>4. s \in Seq(Seq(Nat)) /\ Len(s) = n /\ \A i \in 1 .. n : s[i] = WriteField(f, type, values[i])
  BY <1>1, <1>14, <1>16, IsSequence
<1>5. q \in Seq(Known) /\ Len(q) = n /\ \A i \in 1 .. n : q[i] = FieldOf(f, type, values[i])
  BY <1>1, <1>15, <1>16, IsSequence
<1>6. Known \subseteq AnyField
  BY DEF AnyField
<1>7. q \in Seq(AnyField)
  BY <1>5, <1>6, SeqMonotonic
<1>8. ASSUME NEW i \in 1 .. n PROVE <<q[i]>> \in Seq(AnyField)
  BY <1>5, <1>7, <1>8
<1>9. a \in Seq(Seq(AnyField)) /\ Len(a) = n /\ \A i \in 1 .. n : a[i] = <<q[i]>>
  BY <1>1, <1>8
<1>10. FlattenSeq(a) = q
  BY <1>5, <1>7, FlattenOfSingles
<1> HIDE DEF a
<1>11. \A i \in 1 .. n : ReadsAs(s[i], a[i])
  BY <1>3, <1>4, <1>5, <1>9
<1>12. ReadsAs(FlattenSeq(s), FlattenSeq(a))
  BY <1>4, <1>9, <1>11, ReadsAll
<1>13. FlattenSeq(s) \in Seq(Nat)
  BY <1>4, FlattenType
<1> QED BY <1>2, <1>5, <1>10, <1>12, <1>13 DEF q, n

LEMMA FieldTypes ==
    ASSUME NEW message \in DOMAIN Fields
    PROVE  Fields[message] \in Seq(AllTypes) /\ Len(Fields[message]) < 16
<1>1. message \in {"ConnectRequest", "ConnectResponse", "SequenceHeader", "CatchupBuffer",
                   "TerminalBuffer", "TerminalInfo", "InitialPayload", "EnvironmentEntry",
                   "InitialResponse", "PortForwardSourceRequest", "SocketEndpoint"}
  BY DEF Fields
<1>2. CASE message = "ConnectRequest"
  <2>1. Fields[message] = <<"bytes", "int32">>
    BY <1>2 DEF Fields
  <2> QED BY <2>1 DEF AllTypes
<1>3. CASE message = "ConnectResponse"
  <2>1. Fields[message] = <<"status", "bytes">>
    BY <1>3 DEF Fields
  <2> QED BY <2>1 DEF AllTypes
<1>4. CASE message = "SequenceHeader"
  <2>1. Fields[message] = <<"int32">>
    BY <1>4 DEF Fields
  <2> QED BY <2>1 DEF AllTypes
<1>5. CASE message = "CatchupBuffer"
  <2>1. Fields[message] = <<"list">>
    BY <1>5 DEF Fields
  <2> QED BY <2>1 DEF AllTypes
<1>6. CASE message \in {"TerminalBuffer", "InitialResponse"}
  <2>1. Fields[message] = <<"bytes">>
    BY <1>6 DEF Fields
  <2> QED BY <2>1 DEF AllTypes
<1>7. CASE message = "TerminalInfo"
  <2>1. Fields[message] = <<"bytes", "int32", "int32", "int32", "int32">>
    BY <1>7 DEF Fields
  <2> QED BY <2>1 DEF AllTypes
<1>8. CASE message = "InitialPayload"
  <2>1. Fields[message] = <<"flag", "list", "list">>
    BY <1>8 DEF Fields
  <2> QED BY <2>1 DEF AllTypes
<1>9. CASE message = "EnvironmentEntry"
  <2>1. Fields[message] = <<"bytes", "bytes">>
    BY <1>9 DEF Fields
  <2> QED BY <2>1 DEF AllTypes
<1>10. CASE message = "PortForwardSourceRequest"
  <2>1. Fields[message] = <<"message", "message", "bytes">>
    BY <1>10 DEF Fields
  <2> QED BY <2>1 DEF AllTypes
<1>11. CASE message = "SocketEndpoint"
  <2>1. Fields[message] = <<"bytes", "int32">>
    BY <1>11 DEF Fields
  <2> QED BY <2>1 DEF AllTypes
<1> QED BY <1>1, <1>2, <1>3, <1>4, <1>5, <1>6, <1>7, <1>8, <1>9, <1>10, <1>11

LEMMA ContainedType ==
    ASSUME NEW type \in AllTypes, NEW values \in Contained(type)
    PROVE  values \in Seq(ValuesOf(type)) /\ Written(type, values) = values
<1>1. CASE type = "list"
  BY <1>1 DEF Contained, Written
<1>2. CASE type # "list"
  <2>1. CASE values = << >>
    BY <2>1 DEF Written
  <2>2. CASE values # << >>
    <3>1. PICK v \in ValuesOf(type) : values = <<v>>
      BY <1>2, <2>2 DEF Contained
    <3>2. <<v>> \in Seq(ValuesOf(type))
      OBVIOUS
    <3>3. type = "flag" => v = TRUE
      BY DEF ValuesOf, WireType, VARINT, DELIMITED
    <3>4. ~(type = "flag" /\ values = <<FALSE>>)
      <4>1. <<FALSE>>[1] = FALSE /\ <<v>>[1] = v
        OBVIOUS
      <4> QED BY <3>1, <3>3, <4>1
    <3> QED BY <3>1, <3>2, <3>4 DEF Written
  <2> QED BY <2>1, <2>2
<1> QED BY <1>1, <1>2

\* What the fields of a message may hold.
Bodies(message) ==
    {values \in [DOMAIN Fields[message] -> UNION {Contained(type) : type \in AllTypes}] :
        \A f \in DOMAIN Fields[message] : values[f] \in Contained(Fields[message][f])}

Groups(message, values) ==
    [f \in 1 .. Len(Fields[message]) |-> FieldsOf(f, Fields[message][f], values[f])]

LEMMA MessageWritten ==
    ASSUME NEW message \in DOMAIN Fields, NEW values \in Bodies(message)
    PROVE  /\ Encode(message, values) \in Seq(Nat)
           /\ Groups(message, values) \in Seq(Seq(Known))
           /\ ReadsAs(Encode(message, values), FlattenSeq(Groups(message, values)))
<1> DEFINE types == Fields[message]
           n == Len(types)
           s == [f \in 1 .. n |-> WriteValues(f, types[f], values[f])]
           a == Groups(message, values)
<1>1. types \in Seq(AllTypes) /\ n \in Nat /\ n < 16 /\ DOMAIN types = 1 .. n
  BY FieldTypes
<1>2. \A f \in 1 .. n : types[f] \in AllTypes /\ values[f] \in Contained(types[f])
  BY <1>1 DEF Bodies
<1>3. ASSUME NEW f \in 1 .. n PROVE f \in Nat /\ f < Word
  BY <1>1, CodecAssumption
<1> HIDE DEF types
<1>4. ASSUME NEW f \in 1 .. n
      PROVE  /\ Written(types[f], values[f]) = values[f]
             /\ values[f] \in Seq(ValuesOf(types[f]))
             /\ WriteValues(f, types[f], values[f]) \in Seq(Nat)
             /\ FieldsOf(f, types[f], values[f]) \in Seq(Known)
             /\ ReadsAs(WriteValues(f, types[f], values[f]), FieldsOf(f, types[f], values[f]))
  <2>1. Written(types[f], values[f]) = values[f] /\ values[f] \in Seq(ValuesOf(types[f]))
    BY <1>2, ContainedType
  <2> QED BY <1>2, <1>3, <2>1, ValuesWritten
<1> DEFINE e == [f \in DOMAIN types |-> WriteValues(f, types[f], Written(types[f], values[f]))]
<1>5. Encode(message, values) = FlattenSeq(e)
  BY DEF Encode, types
<1>6. e = s
  BY <1>1, <1>4
<1> HIDE DEF n, e
<1>7. s \in Seq(Seq(Nat)) /\ Len(s) = n /\ \A f \in 1 .. n : s[f] = WriteValues(f, types[f], values[f])
  BY <1>1, <1>4
<1>8. a = [f \in 1 .. n |-> FieldsOf(f, types[f], values[f])]
  BY DEF Groups, types, n
<1> HIDE DEF a, s
<1>9. a \in Seq(Seq(Known)) /\ Len(a) = n /\ \A f \in 1 .. n : a[f] = FieldsOf(f, types[f], values[f])
  BY <1>1, <1>4, <1>8
<1>10. a \in Seq(Seq(AnyField))
  <2>1. \A f \in 1 .. n : a[f] \in Seq(AnyField)
    <3>1. Known \subseteq AnyField
      BY DEF AnyField
    <3>2. ASSUME NEW f \in 1 .. n PROVE a[f] \in Seq(AnyField)
      <4>1. a[f] \in Seq(Known)
        BY <1>9
      <4> QED BY <3>1, <4>1, SeqMonotonic
    <3> QED BY <3>2
  <2>2. a = [f \in 1 .. n |-> a[f]]
    BY <1>8
  <2> QED BY <1>1, <2>1, <2>2
<1>11. \A f \in 1 .. n : ReadsAs(s[f], a[f])
  BY <1>4, <1>7, <1>9
<1>12. ReadsAs(FlattenSeq(s), FlattenSeq(a))
  BY <1>7, <1>9, <1>10, <1>11, ReadsAll
<1>13. FlattenSeq(s) \in Seq(Nat)
  BY <1>7, FlattenType
<1> QED BY <1>5, <1>6, <1>9, <1>12, <1>13 DEF a

-----------------------------------------------------------------------------
(* The fields that count *)

Picked(f, type, fields) ==
    [i \in DOMAIN fields |-> IF Counts(f, type, fields[i]) THEN <<fields[i]>> ELSE << >>]

LEMMA OccurrencesIs ==
    ASSUME NEW f, NEW type, NEW fields
    PROVE  Occurrences(f, type, fields) = FlattenSeq(Picked(f, type, fields))
BY DEF Occurrences, Picked

LEMMA PickedType ==
    ASSUME NEW f, NEW type, NEW fields \in Seq(Known)
    PROVE  /\ Picked(f, type, fields) \in Seq(Seq(Known))
           /\ Len(Picked(f, type, fields)) = Len(fields)
           /\ \A i \in 1 .. Len(fields) :
                 Picked(f, type, fields)[i] = IF Counts(f, type, fields[i]) THEN <<fields[i]>> ELSE << >>
<1> DEFINE p == Picked(f, type, fields)
           n == Len(fields)
<1>1. n \in Nat /\ DOMAIN fields = 1 .. n /\ \A i \in 1 .. n : fields[i] \in Known
  OBVIOUS
<1>2. p = [i \in 1 .. n |-> IF Counts(f, type, fields[i]) THEN <<fields[i]>> ELSE << >>]
  BY <1>1 DEF Picked
<1> HIDE DEF n, p
<1>3. p = [i \in 1 .. n |-> p[i]]
  BY <1>2
<1>4. \A i \in 1 .. n : p[i] = IF Counts(f, type, fields[i]) THEN <<fields[i]>> ELSE << >>
  BY <1>2
<1>5. ASSUME NEW i \in 1 .. n PROVE p[i] \in Seq(Known)
  <2>1. <<fields[i]>> \in Seq(Known) /\ << >> \in Seq(Known)
    BY <1>1
  <2> QED BY <1>4, <2>1
<1>6. p \in Seq(Seq(Known)) /\ Len(p) = n
  BY <1>1, <1>3, <1>5, IsSequence
<1> QED BY <1>4, <1>6 DEF p, n

LEMMA OccurrencesOfConcat ==
    ASSUME NEW f, NEW type, NEW a \in Seq(Known), NEW b \in Seq(Known)
    PROVE  Occurrences(f, type, a \o b) = Occurrences(f, type, a) \o Occurrences(f, type, b)
<1> DEFINE c == a \o b
           P(x) == IF Counts(f, type, x) THEN <<x>> ELSE << >>
           pa == Picked(f, type, a)
           pb == Picked(f, type, b)
           pc == Picked(f, type, c)
           q == pa \o pb
<1>1. /\ c \in Seq(Known) /\ Len(c) = Len(a) + Len(b) /\ Len(a) \in Nat /\ Len(b) \in Nat
      /\ \A i \in 1 .. Len(a) + Len(b) : c[i] = IF i <= Len(a) THEN a[i] ELSE b[i - Len(a)]
  BY ConcatProperties
<1> HIDE DEF c
<1>2. /\ pa \in Seq(Seq(Known)) /\ Len(pa) = Len(a) /\ \A i \in 1 .. Len(a) : pa[i] = P(a[i])
      /\ pb \in Seq(Seq(Known)) /\ Len(pb) = Len(b) /\ \A i \in 1 .. Len(b) : pb[i] = P(b[i])
      /\ pc \in Seq(Seq(Known)) /\ Len(pc) = Len(c) /\ \A i \in 1 .. Len(c) : pc[i] = P(c[i])
  BY <1>1, PickedType
<1> HIDE DEF P, pa, pb, pc
<1>3. /\ q \in Seq(Seq(Known)) /\ Len(q) = Len(a) + Len(b)
      /\ \A i \in 1 .. Len(a) + Len(b) : q[i] = IF i <= Len(a) THEN pa[i] ELSE pb[i - Len(a)]
  <2>1. pa \in Seq(Seq(Known)) /\ pb \in Seq(Seq(Known)) /\ Len(pa) = Len(a) /\ Len(pb) = Len(b)
    BY <1>2
  <2>2. /\ q \in Seq(Seq(Known)) /\ Len(q) = Len(pa) + Len(pb)
        /\ \A i \in 1 .. Len(pa) + Len(pb) : q[i] = IF i <= Len(pa) THEN pa[i] ELSE pb[i - Len(pa)]
    BY <2>1, ConcatProperties
  <2> HIDE DEF q
  <2> QED BY <2>1, <2>2
<1> HIDE DEF q
<1>4. ASSUME NEW i \in 1 .. Len(pc) PROVE pc[i] = q[i]
  <2>1. i \in 1 .. Len(a) + Len(b) /\ i \in 1 .. Len(c)
    BY <1>1, <1>2
  <2>2. CASE i <= Len(a)
    <3>1. i \in 1 .. Len(a)
      BY <2>1, <2>2
    <3> QED BY <1>1, <1>2, <1>3, <2>1, <2>2, <3>1
  <2>3. CASE ~(i <= Len(a))
    <3>1. i - Len(a) \in 1 .. Len(b)
      BY <1>1, <2>1, <2>3
    <3> QED BY <1>1, <1>2, <1>3, <2>1, <2>3, <3>1
  <2> QED BY <2>2, <2>3
<1>5. pc = q
  <2>1. pc \in Seq(Seq(Known)) /\ q \in Seq(Seq(Known)) /\ Len(pc) = Len(q)
    BY <1>1, <1>2, <1>3
  <2> QED BY <1>4, <2>1, SeqEqual
<1>6. FlattenSeq(q) = FlattenSeq(pa) \o FlattenSeq(pb)
  BY <1>2, FlattenOfConcat DEF q
<1> QED BY <1>5, <1>6, OccurrencesIs DEF pa, pb, pc, c

LEMMA OccurrencesOfAll ==
    ASSUME NEW f, NEW type, NEW a \in Seq(Known), \A i \in 1 .. Len(a) : Counts(f, type, a[i])
    PROVE  Occurrences(f, type, a) = a
<1> DEFINE p == Picked(f, type, a)
           s == [i \in 1 .. Len(a) |-> <<a[i]>>]
<1>1. p = s
  <2>1. DOMAIN a = 1 .. Len(a)
    OBVIOUS
  <2> QED BY <2>1 DEF Picked
<1>2. FlattenSeq(s) = a
  BY FlattenOfSingles
<1> HIDE DEF s, p
<1> QED BY <1>1, <1>2, OccurrencesIs DEF p

LEMMA OccurrencesOfNone ==
    ASSUME NEW f, NEW type, NEW a \in Seq(Known), \A i \in 1 .. Len(a) : ~Counts(f, type, a[i])
    PROVE  Occurrences(f, type, a) = << >>
<1> DEFINE p == Picked(f, type, a)
<1>1. /\ p \in Seq(Seq(Known)) /\ Len(p) = Len(a)
      /\ \A i \in 1 .. Len(a) : p[i] = IF Counts(f, type, a[i]) THEN <<a[i]>> ELSE << >>
  BY PickedType
<1> HIDE DEF p
<1>2. \A i \in 1 .. Len(p) : p[i] = << >>
  BY <1>1
<1>3. FlattenSeq(p) = << >>
  BY <1>1, <1>2, FlattenOfEmpties
<1> QED BY <1>3, OccurrencesIs DEF p

\* Of groups of fields, one has all that count and no other.
OnlyIn(f, type, s, k) ==
    /\ \A i \in 1 .. Len(s) : i # k => \A j \in 1 .. Len(s[i]) : ~Counts(f, type, s[i][j])
    /\ \A j \in 1 .. Len(s[k]) : Counts(f, type, s[k][j])

LEMMA OccurrencesOfGroups ==
    ASSUME NEW f, NEW type, NEW s \in Seq(Seq(Known)), NEW k \in 1 .. Len(s), OnlyIn(f, type, s, k)
    PROVE  Occurrences(f, type, FlattenSeq(s)) = s[k]
<1> DEFINE O(x) == Occurrences(f, type, x)
           o(r) == [i \in 1 .. Len(r) |-> O(r[i])]
           S == {r \in Seq(Seq(Known)) : O(FlattenSeq(r)) = FlattenSeq(o(r))}
<1>0. ASSUME NEW x \in Seq(Known) PROVE O(x) \in Seq(Known)
  BY PickedType, OccurrencesIs, FlattenType
<1>7. O(<< >>) = << >>
  <2>1. << >> \in Seq(Known) /\ Len(<< >>) = 0
    OBVIOUS
  <2>2. \A i \in 1 .. Len(<< >>) : ~Counts(f, type, << >>[i])
    BY <2>1
  <2> QED BY <2>1, <2>2, OccurrencesOfNone
<1>8. ASSUME NEW x \in Seq(Known), NEW y \in Seq(Known) PROVE O(x \o y) = O(x) \o O(y)
  BY OccurrencesOfConcat
<1> HIDE DEF O
<1>9. ASSUME NEW r \in Seq(Seq(Known))
      PROVE  o(r) \in Seq(Seq(Known)) /\ Len(o(r)) = Len(r) /\ \A i \in 1 .. Len(r) : o(r)[i] = O(r[i])
  <2> DEFINE q == o(r)
  <2>1. q = [i \in 1 .. Len(r) |-> q[i]] /\ \A i \in 1 .. Len(r) : q[i] = O(r[i])
    OBVIOUS
  <2>2. Len(r) \in Nat /\ \A i \in 1 .. Len(r) : O(r[i]) \in Seq(Known)
    BY <1>0
  <2> HIDE DEF q
  <2>3. q \in Seq(Seq(Known)) /\ Len(q) = Len(r)
    BY <2>1, <2>2, IsSequence
  <2> QED BY <2>1, <2>3 DEF q
<1> HIDE DEF o
<1>1. << >> \in S
  <2>1. << >> \in Seq(Seq(Known)) /\ Len(<< >>) = 0
    OBVIOUS
  <2>2. o(<< >>) = << >>
    <3>1. o(<< >>) \in Seq(Seq(Known)) /\ Len(o(<< >>)) = 0
      BY <1>9, <2>1
    <3> QED BY <3>1, EmptySeq
  <2> QED BY <1>7, <2>1, <2>2, FlattenOfNone
<1>2. ASSUME NEW r \in Seq(Seq(Known)), NEW x \in Seq(Known), r \in S PROVE Append(r, x) \in S
  <2> DEFINE p == Append(r, x)
             a == o(p)
             b == Append(o(r), O(x))
  <2>1. /\ p \in Seq(Seq(Known)) /\ Len(p) = Len(r) + 1 /\ p[Len(r) + 1] = x /\ Len(r) \in Nat
        /\ \A i \in 1 .. Len(r) : p[i] = r[i]
    OBVIOUS
  <2>8. FlattenSeq(p) = FlattenSeq(r) \o x
    BY FlattenOfAppend
  <2> HIDE DEF p
  <2>2. a \in Seq(Seq(Known)) /\ Len(a) = Len(p) /\ \A i \in 1 .. Len(p) : a[i] = O(p[i])
    BY <1>9, <2>1
  <2> HIDE DEF a
  <2>3. o(r) \in Seq(Seq(Known)) /\ Len(o(r)) = Len(r) /\ \A i \in 1 .. Len(r) : o(r)[i] = O(r[i])
    BY <1>9
  <2>4. O(x) \in Seq(Known)
    BY <1>0
  <2>5. /\ b \in Seq(Seq(Known)) /\ Len(b) = Len(r) + 1 /\ b[Len(r) + 1] = O(x)
        /\ \A i \in 1 .. Len(r) : b[i] = o(r)[i]
    BY <2>3, <2>4
  <2>9. FlattenSeq(b) = FlattenSeq(o(r)) \o O(x)
    BY <2>3, <2>4, FlattenOfAppend
  <2> HIDE DEF b
  <2>6. ASSUME NEW i \in 1 .. Len(a) PROVE a[i] = b[i]
    <3>1. CASE i = Len(r) + 1
      <4>1. i \in 1 .. Len(p)
        BY <2>2
      <4> QED BY <2>1, <2>2, <2>5, <3>1, <4>1
    <3>2. CASE i # Len(r) + 1
      <4>1. i \in 1 .. Len(r) /\ i \in 1 .. Len(p)
        BY <2>1, <2>2, <3>2
      <4> QED BY <4>1, <2>1, <2>2, <2>3, <2>5
    <3> QED BY <3>1, <3>2
  <2>7. a = b
    BY <2>1, <2>2, <2>5, <2>6, SeqEqual, SMTT(30)
  <2>10. FlattenSeq(r) \in Seq(Known)
    BY FlattenType
  <2>11. O(FlattenSeq(p)) = O(FlattenSeq(r)) \o O(x)
    BY <1>8, <2>8, <2>10
  <2>12. O(FlattenSeq(r)) = FlattenSeq(o(r))
    BY <1>2
  <2> QED BY <2>1, <2>7, <2>9, <2>11, <2>12 DEF a, p
<1> HIDE DEF S
<1>3. Seq(Seq(Known)) \subseteq S
  BY <1>1, <1>2, SequenceInduction
<1> USE DEF S
<1>4. O(FlattenSeq(s)) = FlattenSeq(o(s))
  BY <1>3
<1>5. \A i \in 1 .. Len(s) : s[i] \in Seq(Known)
  OBVIOUS
<1>6. o(s)[k] = s[k]
  <2>1. O(s[k]) = s[k]
    BY <1>5, OccurrencesOfAll DEF O, OnlyIn
  <2> QED BY <1>9, <2>1
<1>10. \A i \in 1 .. Len(o(s)) : i # k => o(s)[i] = << >>
  <2>1. ASSUME NEW i \in 1 .. Len(s), i # k PROVE O(s[i]) = << >>
    BY <1>5, <2>1, OccurrencesOfNone DEF O, OnlyIn
  <2> QED BY <1>9, <2>1
<1>11. k \in 1 .. Len(o(s)) /\ o(s) \in Seq(Seq(Known))
  BY <1>9
<1>12. FlattenSeq(o(s)) = o(s)[k]
  BY <1>10, <1>11, FlattenOfOne
<1> QED BY <1>4, <1>6, <1>12 DEF O

-----------------------------------------------------------------------------
(* The message that is read *)

LEMMA ParsedWhole ==
    ASSUME NEW s \in Seq(Nat), NEW a \in Seq(AnyField), ReadsAs(s, a)
    PROVE  ParseMessage(s) = a
<1>1. Holds(s, 1, s)
  <2>1. Len(s) \in Nat /\ 1 + Len(s) - 1 <= Len(s) /\ \A k \in 1 .. Len(s) : 1 + k - 1 = k
    OBVIOUS
  <2> QED BY <2>1 DEF Holds
<1>2. FieldsFrom(s, 1) = a \o FieldsFrom(s, 1 + Len(s))
  BY <1>1 DEF ReadsAs
<1>3. FieldsFrom(s, 1 + Len(s)) = << >>
  <2>1. 1 + Len(s) = Len(s) + 1
    OBVIOUS
  <2> QED BY <2>1, FieldsFromEnd
<1> QED BY <1>2, <1>3, ParseMessageIs, ConcatEmptySeq

LEMMA AsI32Of ==
    ASSUME NEW v \in -(Word \div 2) .. (Word \div 2) - 1
    PROVE  AsI32(v % Long) = v
<1> DEFINE h == Word \div 2
           k == Long \div Word
<1>1. /\ Word \in Nat \ {0} /\ Long \in Nat \ {0} /\ Word % 2 = 0 /\ Long % Word = 0 /\ 8 * Word <= Long
  BY CodecAssumption
<1>2. Word = 2 * h /\ h \in Nat
  BY <1>1
<1>3. Long = Word * k /\ k \in Int
  BY <1>1, Divide
<1> HIDE DEF h, k
<1>4. v \in Int /\ v >= -h /\ v < h /\ v + h \in 0 .. Word - 1 /\ h < Long
  BY <1>1, <1>2 DEF h
<1>5. CASE v >= 0
  <2>1. v % Long = v
    BY <1>1, <1>4, <1>5, Remainder
  <2>2. (v + h) % Word = v + h
    BY <1>1, <1>4, Remainder
  <2>3. AsI32(v) = ((v + h) % Word) - h
    BY DEF AsI32, h
  <2> QED BY <1>2, <1>4, <2>1, <2>2, <2>3
<1>6. CASE v < 0
  <2>1. v % Long = v + Long
    <3>1. Long * (-1) + (v + Long) = v /\ v + Long \in 0 .. Long - 1
      BY <1>1, <1>4, <1>6
    <3>2. (Long * (-1) + (v + Long)) % Long = v + Long
      BY <1>1, <3>1, Quotient
    <3> QED BY <3>1, <3>2
  <2>2. ((v + Long) + h) % Word = v + h
    <3>1. (v + Long) + h = Word * k + (v + h)
      BY <1>2, <1>3, <1>4
    <3>3. \A q \in Int, r \in 0 .. Word - 1 : (Word * q + r) % Word = r
      BY <1>1, Quotient
    <3>2. (Word * k + (v + h)) % Word = v + h
      BY <1>3, <1>4, <3>3
    <3> QED BY <3>1, <3>2
  <2>3. AsI32(v + Long) = (((v + Long) + h) % Word) - h
    BY DEF AsI32, h
  <2> QED BY <1>2, <1>4, <2>1, <2>2, <2>3
<1> QED BY <1>4, <1>5, <1>6

\* What is written for a field is what is read of it.

LEMMA FieldRead ==
    ASSUME NEW f, NEW type \in AllTypes, type # "list", NEW v \in ValuesOf(type)
    PROVE  /\ Fits(type, FieldOf(f, type, v))
           /\ FieldAs(type, FieldOf(f, type, v).value) = <<v>>
<1>1. Fits(type, FieldOf(f, type, v)) /\ FieldOf(f, type, v).value = WireValue(type, v)
  BY DEF Fits, FieldOf
<1>2. CASE type \in {"bytes", "message"}
  <2>1. WireValue(type, v) = v
    BY <1>2 DEF WireValue, WireType, VARINT, DELIMITED
  <2> QED BY <1>1, <1>2, <2>1 DEF FieldAs
<1>3. CASE type = "flag"
  <2>1. WireValue(type, v) = 1 /\ v = TRUE
    BY <1>3 DEF WireValue, ValuesOf, WireType, VARINT, DELIMITED
  <2>2. FieldAs(type, 1) = <<1 # 0>>
    BY <1>3 DEF FieldAs
  <2>3. (1 # 0) = TRUE
    OBVIOUS
  <2> QED BY <1>1, <2>1, <2>2, <2>3
<1>4. CASE type = "int32"
  <2>1. WireValue(type, v) = v % Long /\ v \in -(Word \div 2) .. (Word \div 2) - 1
    BY <1>4 DEF WireValue, ValuesOf, WireType, VARINT, DELIMITED
  <2>2. AsI32(v % Long) = v
    BY <2>1, AsI32Of
  <2>3. FieldAs(type, v % Long) = <<AsI32(v % Long)>>
    BY <1>4 DEF FieldAs
  <2> QED BY <1>1, <2>1, <2>2, <2>3
<1>5. CASE type = "status"
  <2>1. WireValue(type, v) = v % Long /\ v \in {Statuses[s] : s \in DOMAIN Statuses}
    BY <1>5 DEF WireValue, ValuesOf, WireType, VARINT, DELIMITED
  <2>2. v \in -(Word \div 2) .. (Word \div 2) - 1
    <3>1. Word \in Nat /\ Word >= 16 /\ Word % 2 = 0
      BY CodecAssumption
    <3>2. v \in 1 .. 4
      BY <2>1, StatusNumbers
    <3> QED BY <3>1, <3>2
  <2>3. AsI32(v % Long) = v
    BY <2>2, AsI32Of
  <2>4. FieldAs(type, v % Long) =
           IF \E s \in DOMAIN Statuses : Statuses[s] = AsI32(v % Long) THEN <<AsI32(v % Long)>> ELSE << >>
    BY <1>5 DEF FieldAs
  <2>5. \E s \in DOMAIN Statuses : Statuses[s] = v
    BY <2>1
  <2> QED BY <1>1, <2>1, <2>3, <2>4, <2>5
<1> QED BY <1>2, <1>3, <1>4, <1>5 DEF AllTypes

LEMMA FieldValueOf ==
    ASSUME NEW f \in Nat, f < Word, NEW type \in AllTypes, NEW values \in Contained(type)
    PROVE  FieldValue(type, FieldsOf(f, type, values)) = values
<1> DEFINE q == FieldsOf(f, type, values)
           n == Len(values)
<1>1. values \in Seq(ValuesOf(type)) /\ n \in Nat
  BY ContainedType
<1>2. /\ q \in Seq(Known) /\ Len(q) = n
      /\ \A i \in 1 .. n : q[i] = FieldOf(f, type, values[i])
  BY <1>1, ValuesWritten DEF FieldsOf
<1> HIDE DEF q
<1>3. CASE n = 0
  <2>1. values = << >> /\ q = << >>
    BY <1>1, <1>2, <1>3, EmptySeq
  <2> QED BY <2>1 DEF FieldValue, q
<1>4. CASE n # 0 /\ type = "list"
  <2>1. q # << >>
    BY <1>1, <1>2, <1>4, EmptySeq
  <2>2. FieldValue(type, q) = [i \in DOMAIN q |-> q[i].value]
    BY <1>4, <2>1 DEF FieldValue
  <2>3. ASSUME NEW i \in 1 .. n PROVE q[i].value = values[i]
    <3>1. q[i].value = WireValue(type, values[i])
      <4>1. q[i] = FieldOf(f, type, values[i])
        BY <1>2
      <4>2. FieldOf(f, type, values[i]).value = WireValue(type, values[i])
        BY DEF FieldOf
      <4> QED BY <4>1, <4>2
    <3>2. WireValue(type, values[i]) = values[i]
      BY <1>4 DEF WireValue, WireType
    <3> QED BY <3>1, <3>2
  <2>4. DOMAIN q = 1 .. n /\ values = [i \in 1 .. n |-> values[i]]
    BY <1>1, <1>2
  <2>5. FieldValue(type, q) = values
    BY <2>2, <2>3, <2>4
  <2> QED BY <2>5 DEF q
<1>5. CASE n # 0 /\ type # "list"
  <2>1. PICK v \in ValuesOf(type) : values = <<v>>
    <3>1. values # << >>
      BY <1>5
    <3> QED BY <1>5, <3>1 DEF Contained
  <2>2. n = 1 /\ values[1] = v
    BY <2>1
  <2>7. q # << >>
    BY <1>1, <1>2, <1>5, EmptySeq
  <2>8. 1 \in 1 .. n
    BY <2>2
  <2>3. q[1] = FieldOf(f, type, v) /\ q # << >>
    BY <1>2, <2>2, <2>7, <2>8
  <2>4. Last(q) = FieldOf(f, type, v)
    BY <1>2, <2>2, <2>3 DEF Last
  <2>5. FieldValue(type, q) = IF Fits(type, Last(q)) THEN FieldAs(type, Last(q).value) ELSE << >>
    BY <1>5, <2>3 DEF FieldValue
  <2>6. FieldValue(type, q) = <<v>>
    BY <1>5, <2>4, <2>5, FieldRead
  <2> QED BY <2>1, <2>6 DEF q
<1> QED BY <1>3, <1>4, <1>5

\* Behind fields that the message does not have, a message is read as it was
\* written.
LEMMA DecodeBehind ==
    ASSUME NEW message \in DOMAIN Fields, NEW values \in Bodies(message),
           NEW s \in Seq(Nat), NEW a \in Seq(Known), ReadsAs(s, a),
           \A i \in 1 .. Len(a) : a[i].number \notin DOMAIN Fields[message]
    PROVE  Decode(message, s \o Encode(message, values)) = values
<1> DEFINE types == Fields[message]
           n == Len(types)
           g == Groups(message, values)
           e == Encode(message, values)
           fields == a \o FlattenSeq(g)
<1>1. types \in Seq(AllTypes) /\ n \in Nat /\ n < 16 /\ DOMAIN types = 1 .. n
  BY FieldTypes
<1>2. \A f \in 1 .. n : types[f] \in AllTypes /\ values[f] \in Contained(types[f])
  BY <1>1 DEF Bodies
<1>3. values = [f \in 1 .. n |-> values[f]]
  <2>1. values \in [DOMAIN types -> UNION {Contained(type) : type \in AllTypes}]
    BY DEF Bodies
  <2> HIDE DEF types
  <2> QED BY <1>1, <2>1
<1>4. ASSUME NEW f \in 1 .. n PROVE f \in Nat /\ f < Word
  BY <1>1, CodecAssumption
<1>5. e \in Seq(Nat) /\ g \in Seq(Seq(Known)) /\ ReadsAs(e, FlattenSeq(g))
  BY MessageWritten
<1>6. FlattenSeq(g) \in Seq(Known)
  BY <1>5, FlattenType
<1>7. Len(g) = n /\ \A f \in 1 .. n : g[f] = FieldsOf(f, types[f], values[f])
  <2>1. g = [f \in 1 .. n |-> FieldsOf(f, types[f], values[f])]
    BY DEF Groups
  <2> HIDE DEF g, n, types
  <2> QED BY <1>1, <2>1
<1> HIDE DEF e, g
<1>8. a \in Seq(AnyField) /\ FlattenSeq(g) \in Seq(AnyField)
  <2>1. Known \subseteq AnyField
    BY DEF AnyField
  <2> QED BY <1>6, <2>1, SeqMonotonic
<1>9. s \o e \in Seq(Nat) /\ fields \in Seq(AnyField) /\ fields \in Seq(Known)
  BY <1>5, <1>6, <1>8, ConcatProperties
<1>10. ReadsAs(s \o e, fields)
  BY <1>5, <1>8, ReadsConcat
<1>11. ParseMessage(s \o e) = fields
  BY <1>9, <1>10, ParsedWhole
<1>12. ASSUME NEW f \in 1 .. n PROVE Occurrences(f, types[f], fields) = g[f]
  <2> DEFINE type == types[f]
  <2>1. Occurrences(f, type, fields) = Occurrences(f, type, a) \o Occurrences(f, type, FlattenSeq(g))
    BY <1>6, OccurrencesOfConcat
  <2>2. Occurrences(f, type, a) = << >>
    <3>1. \A i \in 1 .. Len(a) : ~Counts(f, type, a[i])
      BY <1>1 DEF Counts
    <3> QED BY <3>1, OccurrencesOfNone
  <2>3. ASSUME NEW k \in 1 .. n
        PROVE  \A j \in 1 .. Len(g[k]) : g[k][j].number = k /\ Fits(types[k], g[k][j])
    <3>1. values[k] \in Seq(ValuesOf(types[k]))
      BY <1>2, ContainedType
    <3>2. Len(g[k]) = Len(values[k])
      BY <1>2, <1>4, <1>7, <3>1, ValuesWritten
    <3>3. ASSUME NEW j \in 1 .. Len(g[k]) PROVE g[k][j] = FieldOf(k, types[k], values[k][j])
      BY <1>7, <3>2 DEF FieldsOf
    <3>4. ASSUME NEW j \in 1 .. Len(g[k])
          PROVE  g[k][j].number = k /\ Fits(types[k], g[k][j])
      <4>1. g[k][j] = FieldOf(k, types[k], values[k][j])
        BY <3>3
      <4>2. /\ FieldOf(k, types[k], values[k][j]).number = k
            /\ Fits(types[k], FieldOf(k, types[k], values[k][j]))
        BY DEF FieldOf, Fits
      <4> HIDE DEF types
      <4> QED BY <4>1, <4>2
    <3> QED BY <3>4
  <2>4. \A i \in 1 .. Len(g) : i # f => \A j \in 1 .. Len(g[i]) : ~Counts(f, type, g[i][j])
    BY <1>7, <2>3 DEF Counts
  <2>5. \A j \in 1 .. Len(g[f]) : Counts(f, type, g[f][j])
    BY <2>3 DEF Counts
  <2>6. f \in 1 .. Len(g)
    BY <1>7
  <2> HIDE DEF type, fields
  <2>10. g \in Seq(Seq(Known))
    BY <1>5
  <2>7. Occurrences(f, type, FlattenSeq(g)) = g[f]
    <3>1. OnlyIn(f, type, g, f)
      BY <2>4, <2>5 DEF OnlyIn
    <3> QED BY <2>6, <2>10, <3>1, OccurrencesOfGroups
  <2>8. g[f] \in Seq(Known)
    BY <1>5, <2>6
  <2>9. << >> \o g[f] = g[f]
    BY <2>8, ConcatEmptySeq
  <2> QED BY <2>1, <2>2, <2>7, <2>9 DEF type
<1>13. ASSUME NEW f \in 1 .. n PROVE FieldValue(types[f], Occurrences(f, types[f], fields)) = values[f]
  BY <1>2, <1>4, <1>7, <1>12, FieldValueOf
<1>14. ~\E i \in DOMAIN fields : fields[i].error
  <2>1. ASSUME NEW i \in DOMAIN fields PROVE fields[i].error = FALSE
    <3>1. fields[i] \in Known
      BY <1>9
    <3> QED BY <3>1 DEF Known
  <2> QED BY <2>1
<1> HIDE DEF fields
<1>15. FieldValues(message, fields) =
          [f \in DOMAIN types |-> IF \E i \in DOMAIN fields : fields[i].error THEN << >>
                                  ELSE FieldValue(types[f], Occurrences(f, types[f], fields))]
  BY DEF FieldValues
<1>16. FieldValues(message, fields) = [f \in 1 .. n |-> values[f]]
  BY <1>1, <1>13, <1>14, <1>15
<1> QED BY <1>3, <1>11, <1>16 DEF Decode, e

\* Codec: what write_proto writes of a message, read_proto reads.
THEOREM RoundTrip ==
    \A message \in DOMAIN Fields : \A values \in Bodies(message) :
        Decode(message, Encode(message, values)) = values
<1>1. SUFFICES ASSUME NEW message \in DOMAIN Fields, NEW values \in Bodies(message)
               PROVE  Decode(message, Encode(message, values)) = values
  OBVIOUS
<1>2. << >> \in Seq(Nat) /\ << >> \in Seq(Known) /\ Len(<< >>) = 0
  OBVIOUS
<1>3. \A i \in 1 .. Len(<< >>) : << >>[i].number \notin DOMAIN Fields[message]
  BY <1>2
<1>4. Encode(message, values) \in Seq(Nat)
  BY MessageWritten
<1>5. << >> \o Encode(message, values) = Encode(message, values)
  BY <1>4, ConcatEmptySeq
<1>6. Decode(message, << >> \o Encode(message, values)) = values
  BY <1>2, <1>3, ReadsNothing, DecodeBehind
<1> QED BY <1>5, <1>6

\* The same with the values one by one.
LEMMA ReadBack ==
    ASSUME NEW message \in DOMAIN Fields, NEW T, NEW values \in Seq(T), Len(values) = Len(Fields[message]),
           \A f \in 1 .. Len(values) : values[f] \in Contained(Fields[message][f])
    PROVE  values \in Bodies(message) /\ Decode(message, Encode(message, values)) = values
<1> DEFINE types == Fields[message]
           n == Len(types)
<1>1. types \in Seq(AllTypes) /\ n \in Nat /\ DOMAIN types = 1 .. n
  BY FieldTypes
<1>2. \A f \in 1 .. n : types[f] \in AllTypes /\ values[f] \in Contained(types[f])
  BY <1>1
<1>3. values = [f \in 1 .. n |-> values[f]]
  OBVIOUS
<1> HIDE DEF types, n
<1>4. \A f \in 1 .. n : values[f] \in UNION {Contained(type) : type \in AllTypes}
  BY <1>2
<1>5. values \in [1 .. n -> UNION {Contained(type) : type \in AllTypes}]
  BY <1>3, <1>4
<1>6. values \in Bodies(message)
  BY <1>1, <1>2, <1>5 DEF Bodies, types
<1> QED BY <1>6, RoundTrip

LEMMA OneContained ==
    ASSUME NEW type \in AllTypes, NEW v \in ValuesOf(type)
    PROVE  <<v>> \in Contained(type)
<1>1. <<v>> \in Seq(ValuesOf(type))
  OBVIOUS
<1> QED BY <1>1 DEF Contained

LEMMA NoneContained ==
    ASSUME NEW type \in AllTypes
    PROVE  << >> \in Contained(type)
<1>1. << >> \in Seq(ValuesOf(type))
  OBVIOUS
<1> QED BY <1>1 DEF Contained
=============================================================================
