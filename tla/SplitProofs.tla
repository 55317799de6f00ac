----------------------------- MODULE SplitProofs ----------------------------
(***************************************************************************)
(* Large payloads: no byte is lost, repeated, made up or moved within its  *)
(* payload (Conservation), and payloads written one at a time are          *)
(* delivered whole and in order (Whole, FifoRefinement), for every set of  *)
(* goroutines, every set of lengths and every size of fragment.            *)
(*                                                                         *)
(* The stream of bytes is a FlattenSeq, a recursive definition; what it    *)
(* gives is proved by induction, with a set in the place of a predicate.   *)
(***************************************************************************)
EXTENDS Split, SequenceTheorems, WellFoundedInduction, TLAPS

-----------------------------------------------------------------------------
(***************************************************************************)
(* Induction, and FlattenSeq.                                              *)
(***************************************************************************)

\* Induction over the natural numbers: a number out of S would have a least one.
LEMMA SetInduction ==
  ASSUME NEW S, 0 \in S, \A n \in Nat : n \in S => n + 1 \in S
  PROVE  Nat \subseteq S
  <1> DEFINE R == OpToRel(<, Nat)
             T == Nat \ S
  <1>1. SUFFICES ASSUME T # {} PROVE FALSE
    OBVIOUS
  <1>2. IsWellFoundedOn(R, Nat)
    BY NatLessThanWellFounded
  <1>3. \A x, y \in Nat : x < y => <<x, y>> \in R
    BY DEF OpToRel
  <1>4. T \subseteq Nat
    OBVIOUS
  <1>5. PICK x \in T : \A y \in T : <<y, x>> \notin R
    <2> HIDE DEF R, T
    <2> QED BY <1>1, <1>2, <1>4, WFMin
  <1>6. x # 0 /\ x \in Nat
    BY <1>5
  <1>7. x - 1 \in Nat /\ x - 1 < x /\ (x - 1) + 1 = x
    BY <1>6
  <1>8. x - 1 \in S
    BY <1>3, <1>5, <1>6, <1>7
  <1> QED BY <1>5, <1>7, <1>8

\* f is the recursive function that FlattenSeq takes its result from.
IsFlatten(f, ss, n) ==
  f = [i \in 1 .. n |-> IF i = 1 THEN ss[i] ELSE f[i-1] \o ss[i]]

\* There is one, for sequences of any length.
LEMMA FlattenExists ==
  ASSUME NEW ss, NEW n \in Nat
  PROVE  \E f : IsFlatten(f, ss, n)
  <1> DEFINE S == {k \in Nat : \E f : IsFlatten(f, ss, k)}
  <1>1. 0 \in S
    <2>1. IsFlatten([i \in 1 .. 0 |-> i], ss, 0)
      BY DEF IsFlatten
    <2> QED BY <2>1
  <1>2. ASSUME NEW k \in Nat, k \in S PROVE k + 1 \in S
    <2>1. PICK f : IsFlatten(f, ss, k)
      BY <1>2
    <2> DEFINE last == IF k = 0 THEN ss[1] ELSE f[k] \o ss[k + 1]
               g == [i \in 1 .. k + 1 |-> IF i = k + 1 THEN last ELSE f[i]]
    <2>a. \A i \in 1 .. k : f[i] = IF i = 1 THEN ss[i] ELSE f[i-1] \o ss[i]
      BY <2>1 DEF IsFlatten
    <2>2. ASSUME NEW i \in 1 .. k + 1
          PROVE  g[i] = IF i = 1 THEN ss[i] ELSE g[i-1] \o ss[i]
      <3>1. CASE i = k + 1 /\ k = 0
        BY <3>1
      <3>2. CASE i = k + 1 /\ k # 0
        <4>1. k \in 1 .. k + 1 /\ k # k + 1 /\ i - 1 = k /\ i # 1
          BY <3>2
        <4>2. g[i] = f[k] \o ss[k + 1] /\ g[k] = f[k]
          BY <3>2, <4>1
        <4> QED BY <3>2, <4>1, <4>2
      <3>3. CASE i # k + 1
        <4>1. g[i] = f[i] /\ i \in 1 .. k
          BY <3>3
        <4>2. i # 1 => g[i-1] = f[i-1]
          BY <3>3
        <4> HIDE DEF g
        <4> QED BY <2>a, <4>1, <4>2
      <3> QED BY <3>1, <3>2, <3>3
    <2>3. IsFlatten(g, ss, k + 1)
      <3>1. g = [i \in 1 .. k + 1 |-> g[i]]
        OBVIOUS
      <3> HIDE DEF g
      <3>2. [i \in 1 .. k + 1 |-> g[i]] = [i \in 1 .. k + 1 |-> IF i = 1 THEN ss[i] ELSE g[i-1] \o ss[i]]
        BY <2>2, Zenon
      <3> QED BY <3>1, <3>2 DEF IsFlatten
    <2> QED BY <2>3
  <1>3. Nat \subseteq S
    <2> HIDE DEF S
    <2> QED BY <1>1, <1>2, SetInduction
  <1> QED BY <1>3

\* So FlattenSeq has the value its definition says.
LEMMA FlattenDef ==
  ASSUME NEW ss, Len(ss) \in Nat, Len(ss) # 0
  PROVE  \E f : IsFlatten(f, ss, Len(ss)) /\ FlattenSeq(ss) = f[Len(ss)]
  BY FlattenExists DEF FlattenSeq, IsFlatten

\* One step of the recursion.
LEMMA FlattenStep ==
  ASSUME NEW f, NEW ss, NEW n \in Nat, IsFlatten(f, ss, n), NEW i \in 1 .. n
  PROVE  /\ i = 1 => f[i] = ss[i]
         /\ i # 1 => f[i] = f[i-1] \o ss[i]
  BY DEF IsFlatten

\* A sequence with a length has an element.
LEMMA NotEmpty == \A s : Len(s) # 0 => s # << >>
  BY EmptySeq, Zenon

\* On the elements two sequences share, their functions agree.
LEMMA FlattenAgree ==
  ASSUME NEW f, NEW ss, NEW m \in Nat, IsFlatten(f, ss, m),
         NEW g, NEW tt, NEW n \in Nat, IsFlatten(g, tt, n),
         NEW k \in 1 .. m, k <= n, \A i \in 1 .. k : ss[i] = tt[i]
  PROVE  f[k] = g[k]
  <1> DEFINE S == {j \in Nat : j \in 1 .. k => f[j] = g[j]}
  <1>1. 0 \in S
    OBVIOUS
  <1>2. ASSUME NEW j \in Nat, j \in S PROVE j + 1 \in S
    <2> SUFFICES ASSUME j + 1 \in 1 .. k PROVE f[j + 1] = g[j + 1]
      OBVIOUS
    <2> DEFINE i == j + 1
    <2>0. i \in 1 .. m /\ i \in 1 .. n /\ i - 1 = j /\ (i = 1 <=> j = 0) /\ ss[i] = tt[i]
      OBVIOUS
    <2> HIDE DEF i
    <2>1. /\ i = 1 => f[i] = ss[i]
          /\ i # 1 => f[i] = f[i-1] \o ss[i]
      BY <2>0, FlattenStep, ZenonT(30)
    <2>2. /\ i = 1 => g[i] = tt[i]
          /\ i # 1 => g[i] = g[i-1] \o tt[i]
      <3>1. i \in 1 .. n /\ IsFlatten(g, tt, n)
        BY <2>0
      <3> QED BY <3>1, FlattenStep, ZenonT(60)
    <2>3. j # 0 => f[j] = g[j]
      BY <1>2
    <2>4. f[i] = g[i]
      BY <2>0, <2>1, <2>2, <2>3
    <2> QED BY <2>4 DEF i
  <1>3. Nat \subseteq S
    <2> HIDE DEF S
    <2> QED BY <1>1, <1>2, SetInduction
  <1> QED BY <1>3

\* What FlattenSeq gives for an empty sequence.
LEMMA FlattenEmpty == FlattenSeq(<< >>) = << >>
  BY DEF FlattenSeq

\* One more element at the end adds to the end.
LEMMA FlattenAppend ==
  ASSUME NEW S, NEW ss \in Seq(Seq(S)), NEW s \in Seq(S)
  PROVE  FlattenSeq(Append(ss, s)) = FlattenSeq(ss) \o s
  <1> DEFINE tt == Append(ss, s)
             n == Len(ss)
  <1>1. /\ n \in Nat /\ Len(tt) = n + 1 /\ tt[n + 1] = s
        /\ \A i \in 1 .. n : tt[i] = ss[i]
    BY AppendProperties, LenProperties
  <1> HIDE DEF tt, n
  <1>2. PICK g : IsFlatten(g, tt, n + 1) /\ FlattenSeq(tt) = g[n + 1]
    BY <1>1, FlattenDef
  <1>3. CASE n = 0
    <2>1. ss = << >> /\ FlattenSeq(ss) = << >>
      BY <1>3, FlattenEmpty, EmptySeq DEF n
    <2>2. g[1] = tt[1]
      BY <1>2, <1>3 DEF IsFlatten
    <2>3. FlattenSeq(tt) = s
      BY <2>2, <1>1, <1>2, <1>3
    <2> QED BY <2>1, <2>3, ConcatEmptySeq DEF tt
  <1>4. CASE n # 0
    <2>1. PICK f : IsFlatten(f, ss, n) /\ FlattenSeq(ss) = f[n]
      BY <1>1, <1>4, FlattenDef DEF n
    <2>2. n \in 1 .. n + 1 /\ n + 1 \in 1 .. n + 1 /\ n + 1 # 1 /\ (n + 1) - 1 = n /\ n + 1 \in Nat
      BY <1>1, <1>4
    <2>3. g[n] = f[n]
      BY <1>1, <1>2, <2>1, <2>2, FlattenAgree
    <2>4. g[n + 1] = g[n] \o tt[n + 1]
      BY <1>2, <2>2 DEF IsFlatten
    <2> QED BY <1>1, <1>2, <2>1, <2>3, <2>4 DEF tt
  <1> QED BY <1>3, <1>4

\* The elements of the result are those of the parts.
LEMMA FlattenType ==
  ASSUME NEW S, NEW ss \in Seq(Seq(S))
  PROVE  FlattenSeq(ss) \in Seq(S)
  <1> DEFINE N == {n \in Nat : \A tt \in Seq(Seq(S)) : Len(tt) = n => FlattenSeq(tt) \in Seq(S)}
  <1>1. 0 \in N
    BY EmptySeq, FlattenEmpty
  <1>2. ASSUME NEW n \in Nat, n \in N PROVE n + 1 \in N
    <2> SUFFICES ASSUME NEW tt \in Seq(Seq(S)), Len(tt) = n + 1
                 PROVE  FlattenSeq(tt) \in Seq(S)
      OBVIOUS
    <2>1. tt # << >>
      BY EmptySeq
    <2>2. PICK uu \in Seq(Seq(S)), u \in Seq(S) : tt = Append(uu, u)
      BY <2>1, SequenceEmptyOrAppend
    <2>3. Len(uu) = n
      BY <2>2, AppendProperties, LenProperties
    <2>4. FlattenSeq(uu) \in Seq(S)
      BY <1>2, <2>3
    <2> QED BY <2>2, <2>4, FlattenAppend, ConcatProperties
  <1>3. Nat \subseteq N
    <2> HIDE DEF N
    <2> QED BY <1>1, <1>2, SetInduction
  <1>4. Len(ss) \in Nat
    BY LenProperties
  <1> QED BY <1>3, <1>4

\* The first part comes first.
LEMMA FlattenHeadTail ==
  ASSUME NEW S, NEW ss \in Seq(Seq(S)), ss # << >>
  PROVE  FlattenSeq(ss) = Head(ss) \o FlattenSeq(Tail(ss))
  <1> DEFINE Holds(tt) == FlattenSeq(tt) = Head(tt) \o FlattenSeq(Tail(tt))
             N == {n \in Nat : \A tt \in Seq(Seq(S)) : Len(tt) = n + 1 => Holds(tt)}
  <1>1. 0 \in N
    <2> SUFFICES ASSUME NEW tt \in Seq(Seq(S)), Len(tt) = 1 PROVE Holds(tt)
      OBVIOUS
    <2>1. tt # << >>
      <3>1. Len(tt) # 0
        OBVIOUS
      <3> QED BY <3>1, NotEmpty, Zenon
    <2>2. PICK uu \in Seq(Seq(S)), u \in Seq(S) : tt = Append(uu, u)
      BY <2>1, SequenceEmptyOrAppend, Zenon
    <2>3. uu = << >>
      BY <2>2, AppendProperties, LenProperties, EmptySeq
    <2>4. Head(tt) = u /\ Tail(tt) = << >>
      BY <2>2, <2>3, HeadTailAppend
    <2>5. FlattenSeq(tt) = << >> \o u
      BY <2>2, <2>3, FlattenAppend, FlattenEmpty
    <2> QED BY <2>4, <2>5, FlattenEmpty, ConcatEmptySeq
  <1>2. ASSUME NEW n \in Nat, n \in N PROVE n + 1 \in N
    <2> SUFFICES ASSUME NEW tt \in Seq(Seq(S)), Len(tt) = (n + 1) + 1 PROVE Holds(tt)
      OBVIOUS
    <2>1. tt # << >>
      <3>1. Len(tt) # 0
        OBVIOUS
      <3> QED BY <3>1, NotEmpty, Zenon
    <2>2. PICK uu \in Seq(Seq(S)), u \in Seq(S) : tt = Append(uu, u)
      BY <2>1, SequenceEmptyOrAppend, Zenon
    <2>3. Len(uu) = n + 1
      BY <2>2, AppendProperties, LenProperties
    <2>4. uu # << >>
      BY <2>3, EmptySeq
    <2>5. Holds(uu)
      BY <1>2, <2>3
    <2>6. Head(tt) = Head(uu) /\ Tail(tt) = Append(Tail(uu), u)
      BY <2>2, <2>4, HeadTailAppend
    <2>7. Head(uu) \in Seq(S) /\ Tail(uu) \in Seq(Seq(S))
      <3> DEFINE B == Seq(S)
      <3>1. uu \in Seq(B)
        OBVIOUS
      <3> HIDE DEF B
      <3>2. Head(uu) \in B /\ Tail(uu) \in Seq(B)
        BY <2>4, <3>1, HeadTailProperties
      <3> QED BY <3>2 DEF B
    <2>8. FlattenSeq(Tail(uu)) \in Seq(S)
      BY <2>7, FlattenType
    <2>9. FlattenSeq(tt) = (Head(uu) \o FlattenSeq(Tail(uu))) \o u
      BY <2>2, <2>5, FlattenAppend
    <2>10. FlattenSeq(Tail(tt)) = FlattenSeq(Tail(uu)) \o u
      BY <2>6, <2>7, FlattenAppend
    <2>11. (Head(uu) \o FlattenSeq(Tail(uu))) \o u = Head(uu) \o (FlattenSeq(Tail(uu)) \o u)
      <3> DEFINE a == Head(uu)
                 b == FlattenSeq(Tail(uu))
      <3>1. a \in Seq(S) /\ b \in Seq(S) /\ u \in Seq(S)
        BY <2>2, <2>7, <2>8
      <3> HIDE DEF a, b
      <3>2. (a \o b) \o u = a \o (b \o u)
        BY <3>1, SMTT(60)
      <3> QED BY <3>2 DEF a, b
    <2> QED BY <2>6, <2>9, <2>10, <2>11
  <1>3. Nat \subseteq N
    <2> HIDE DEF N
    <2> QED BY <1>1, <1>2, SetInduction
  <1>4. Len(ss) \in Nat /\ Len(ss) # 0
    BY LenProperties, EmptySeq
  <1>5. Len(ss) - 1 \in N /\ (Len(ss) - 1) + 1 = Len(ss)
    <2> HIDE DEF N
    <2> QED BY <1>3, <1>4
  <1> QED BY <1>5


-----------------------------------------------------------------------------
(***************************************************************************)
(* Stretches of a payload, and the bytes of a row of fragments.            *)
(***************************************************************************)

\* What the wire holds.
Fragments == [bytes : Seq(Byte), split : BOOLEAN]

\* Bytes gives a sequence of bytes, as long as the stretch.
LEMMA BytesProperties ==
  ASSUME NEW p \in Nat, NEW i \in Nat, NEW j \in Nat, i <= j
  PROVE  /\ Bytes(p, i, j) \in Seq(Byte)
         /\ Len(Bytes(p, i, j)) = j - i
         /\ \A k \in 1 .. j - i : Bytes(p, i, j)[k] = <<p, i + k - 1>>
  <1>1. PICK n \in Nat : n = j - i
    OBVIOUS
  <1>2. \A k \in 1 .. n : <<p, i + k - 1>> \in Byte
    BY DEF Byte
  <1>3. Bytes(p, i, j) = [k \in 1 .. n |-> <<p, i + k - 1>>]
    BY <1>1 DEF Bytes
  <1>4. Bytes(p, i, j) \in [1 .. n -> Byte]
    BY <1>2, <1>3
  <1>5. Bytes(p, i, j) \in Seq(Byte)
    BY <1>4, SeqDef
  <1>6. Len(Bytes(p, i, j)) = n
    BY <1>4, <1>5, LenProperties
  <1> QED BY <1>1, <1>3, <1>5, <1>6

\* Two stretches that meet make one.
LEMMA BytesConcat ==
  ASSUME NEW p \in Nat, NEW i \in Nat, NEW j \in Nat, NEW k \in Nat, i <= j, j <= k
  PROVE  Bytes(p, i, j) \o Bytes(p, j, k) = Bytes(p, i, k)
  <1> DEFINE a == Bytes(p, i, j)
             b == Bytes(p, j, k)
             c == Bytes(p, i, k)
  <1>1. /\ a \in Seq(Byte) /\ Len(a) = j - i
        /\ \A m \in 1 .. j - i : a[m] = <<p, i + m - 1>>
    BY BytesProperties
  <1>2. /\ b \in Seq(Byte) /\ Len(b) = k - j
        /\ \A m \in 1 .. k - j : b[m] = <<p, j + m - 1>>
    BY BytesProperties
  <1>3. /\ c \in Seq(Byte) /\ Len(c) = k - i
        /\ \A m \in 1 .. k - i : c[m] = <<p, i + m - 1>>
    <2>1. i <= k
      OBVIOUS
    <2> QED BY <2>1, BytesProperties
  <1> HIDE DEF a, b, c
  <1>4. /\ a \o b \in Seq(Byte) /\ Len(a \o b) = Len(a) + Len(b)
        /\ \A m \in 1 .. Len(a) + Len(b) :
              (a \o b)[m] = IF m <= Len(a) THEN a[m] ELSE b[m - Len(a)]
    BY <1>1, <1>2, ConcatProperties
  <1>5. PICK d : d = a \o b
    OBVIOUS
  <1>6. d \in Seq(Byte) /\ Len(d) = Len(c)
    <2>1. d \in Seq(Byte) /\ Len(d) = Len(a) + Len(b)
      BY <1>4, <1>5, Zenon
    <2> QED BY <2>1, <1>1, <1>2, <1>3
  <1>7. ASSUME NEW m \in 1 .. Len(d) PROVE d[m] = c[m]
    <2>1. m \in 1 .. k - i /\ m \in 1 .. Len(a) + Len(b) /\ c[m] = <<p, i + m - 1>>
      BY <1>1, <1>2, <1>3, <1>6
    <2>2. CASE m <= Len(a)
      BY <2>1, <2>2, <1>1, <1>4, <1>5, SMTT(15)
    <2>3. CASE ~(m <= Len(a))
      <3>1. PICK q \in 1 .. k - j : q = m - Len(a)
        BY <2>1, <2>3, <1>1, <1>2
      <3>2. d[m] = <<p, j + q - 1>>
        BY <2>1, <2>3, <3>1, <1>2, <1>4, <1>5
      <3>3. j + q - 1 = i + m - 1
        BY <3>1, <2>1, <1>1
      <3> QED BY <2>1, <3>2, <3>3
    <2> QED BY <2>2, <2>3
  <1>8. d = c
    BY <1>3, <1>6, <1>7, SeqEqual
  <1> QED BY <1>5, <1>8 DEF a, b, c

\* The bytes that fragments carry.
Pieces(w) == [i \in 1 .. Len(w) |-> w[i].bytes]

\* One sequence of bytes for each fragment.
LEMMA PiecesType ==
  ASSUME NEW w \in Seq(Fragments)
  PROVE  Pieces(w) \in Seq(Seq(Byte)) /\ Len(Pieces(w)) = Len(w)
  <1> DEFINE B == Seq(Byte)
  <1>1. PICK n \in Nat : n = Len(w)
    BY LenProperties
  <1>2. \A i \in 1 .. n : w[i].bytes \in B
    <2>1. \A i \in 1 .. n : w[i] \in Fragments
      BY <1>1, ElementOfSeq
    <2> HIDE DEF B
    <2>2. \A f \in Fragments : f.bytes \in B
      BY DEF Fragments, B
    <2> QED BY <2>1, <2>2
  <1>3. Pieces(w) = [i \in 1 .. n |-> w[i].bytes]
    BY <1>1 DEF Pieces
  <1> HIDE DEF B
  <1>4. Pieces(w) \in [1 .. n -> B]
    BY <1>2, <1>3
  <1>5. Pieces(w) \in Seq(B)
    BY <1>4, SeqDef
  <1>6. Len(Pieces(w)) = n
    BY <1>4, <1>5, LenProperties
  <1> QED BY <1>1, <1>5, <1>6 DEF B

\* A fragment at the end adds its bytes at the end.
LEMMA PiecesAppend ==
  ASSUME NEW w \in Seq(Fragments), NEW f \in Fragments
  PROVE  Pieces(Append(w, f)) = Append(Pieces(w), f.bytes)
  <1> DEFINE B == Seq(Byte)
             v == Append(w, f)
             a == Pieces(w)
             b == Pieces(v)
  <1>1. /\ v \in Seq(Fragments) /\ Len(v) = Len(w) + 1 /\ Len(w) \in Nat
        /\ v[Len(w) + 1] = f /\ \A i \in 1 .. Len(w) : v[i] = w[i]
    BY AppendProperties, LenProperties
  <1>2. a \in Seq(B) /\ b \in Seq(B) /\ Len(a) = Len(w) /\ Len(b) = Len(w) + 1 /\ f.bytes \in B
    BY <1>1, PiecesType DEF Fragments
  <1>3. /\ \A i \in 1 .. Len(w) : a[i] = w[i].bytes
        /\ \A i \in 1 .. Len(w) + 1 : b[i] = v[i].bytes
    BY <1>1 DEF Pieces
  <1> HIDE DEF B, v, a, b
  <1>4. PICK c : c = Append(a, f.bytes)
    OBVIOUS
  <1>5. /\ c \in Seq(B) /\ Len(c) = Len(w) + 1 /\ c[Len(w) + 1] = f.bytes
        /\ \A i \in 1 .. Len(w) : c[i] = a[i]
    BY <1>2, <1>4, AppendProperties
  <1>6. ASSUME NEW i \in 1 .. Len(b) PROVE b[i] = c[i]
    <2>1. i \in 1 .. Len(w) + 1 /\ b[i] = v[i].bytes
      BY <1>2, <1>3
    <2>2. CASE i = Len(w) + 1
      BY <2>1, <2>2, <1>1, <1>5
    <2>3. CASE i # Len(w) + 1
      <3>1. i \in 1 .. Len(w)
        BY <2>1, <2>3, <1>1
      <3>2. v[i] = w[i] /\ a[i] = w[i].bytes /\ c[i] = a[i]
        BY <3>1, <1>1, <1>3, <1>5
      <3> QED BY <2>1, <3>2
    <2> QED BY <2>2, <2>3
  <1>7. b = c
    BY <1>2, <1>5, <1>6, SeqEqual
  <1> QED BY <1>4, <1>7 DEF a, b, v

\* The fragment received has the first bytes, the others keep theirs.
LEMMA PiecesHeadTail ==
  ASSUME NEW w \in Seq(Fragments), w # << >>
  PROVE  /\ Pieces(w) # << >>
         /\ Head(Pieces(w)) = Head(w).bytes
         /\ Tail(Pieces(w)) = Pieces(Tail(w))
  <1> DEFINE B == Seq(Byte)
             v == Tail(w)
             a == Pieces(w)
             b == Pieces(v)
  <1>1. /\ v \in Seq(Fragments) /\ Len(v) = Len(w) - 1 /\ Len(w) \in Nat /\ Len(w) # 0
        /\ \A i \in 1 .. Len(v) : v[i] = w[i + 1]
    BY HeadTailProperties, LenProperties, EmptySeq
  <1>2. a \in Seq(B) /\ b \in Seq(B) /\ Len(a) = Len(w) /\ Len(b) = Len(v)
    BY <1>1, PiecesType
  <1>3. /\ \A i \in 1 .. Len(w) : a[i] = w[i].bytes
        /\ \A i \in 1 .. Len(v) : b[i] = v[i].bytes
    BY <1>1 DEF Pieces
  <1> HIDE DEF B, v, a, b
  <1>4. a # << >>
    BY <1>1, <1>2, NotEmpty
  <1>5. PICK c : c = Tail(a)
    OBVIOUS
  <1>6. /\ c \in Seq(B) /\ Len(c) = Len(a) - 1
        /\ \A i \in 1 .. Len(c) : c[i] = a[i + 1]
    BY <1>2, <1>4, <1>5, HeadTailProperties
  <1>7. ASSUME NEW i \in 1 .. Len(b) PROVE b[i] = c[i]
    <2>1. i \in 1 .. Len(v) /\ b[i] = v[i].bytes
      BY <1>2, <1>3
    <2>2. i \in 1 .. Len(c) /\ i + 1 \in 1 .. Len(w)
      BY <2>1, <1>1, <1>2, <1>6
    <2>3. v[i] = w[i + 1] /\ c[i] = a[i + 1]
      BY <2>1, <2>2, <1>1, <1>6
    <2>4. a[i + 1] = w[i + 1].bytes
      BY <2>2, <1>3
    <2> QED BY <2>1, <2>3, <2>4
  <1>8. b = c
    BY <1>1, <1>2, <1>6, <1>7, SeqEqual
  <1>9. Head(a) = a[1] /\ Head(w) = w[1]
    BY <1>2, <1>4
  <1>10. a[1] = w[1].bytes
    BY <1>1, <1>3
  <1> QED BY <1>4, <1>5, <1>8, <1>9, <1>10 DEF a, b, v

\* Nothing on the wire, no bytes.
LEMMA PiecesEmpty == Pieces(<< >>) = << >>
  BY DEF Pieces

-----------------------------------------------------------------------------
(***************************************************************************)
(* Type correctness.                                                       *)
(***************************************************************************)

\* What a goroutine sends next is a fragment of at most MaxDataLen bytes.
LEMMA FragmentType ==
  ASSUME TypeOK, NEW w \in Writers, writing[w] # Idle
  PROVE  /\ writing[w] \in Nat /\ sent[w] \in Nat /\ Rest(w) \in Nat
         /\ length[writing[w] + 1] \in Nat
         /\ length[writing[w] + 1] = sent[w] + Rest(w)
         /\ MaxDataLen \in Nat \ {0}
  <1>1. /\ writing[w] \in Payloads /\ writing[w] < Len(length)
        /\ sent[w] <= length[writing[w] + 1] /\ sent[w] \in Nat
        /\ length \in Seq(Lengths)
    BY DEF TypeOK
  <1>2. writing[w] \in Nat /\ MaxPayloads \in Nat
    BY <1>1, SplitAssumption DEF Payloads
  <1>3. Len(length) \in Nat
    BY <1>1, LenProperties
  <1>4. PICK k \in 1 .. Len(length) : k = writing[w] + 1
    BY <1>1, <1>2, <1>3
  <1>5. length[k] \in Nat
    BY <1>1, <1>4, ElementOfSeq, SplitAssumption
  <1>6. PICK n \in Nat : n = length[writing[w] + 1]
    BY <1>4, <1>5
  <1>7. Rest(w) = n - sent[w]
    BY <1>6 DEF Rest
  <1> QED BY <1>1, <1>2, <1>6, <1>7, SplitAssumption

\* A fragment appended to the wire keeps what TypeOK says of the wire.
LEMMA WireAppend ==
  ASSUME NEW u \in Seq(Fragments), NEW f \in Fragments, Len(f.bytes) <= MaxDataLen,
         f.split => Len(f.bytes) = MaxDataLen,
         \A i \in 1 .. Len(u) : u[i].split => Len(u[i].bytes) = MaxDataLen,
         \A i \in 1 .. Len(u) : Len(u[i].bytes) <= MaxDataLen
  PROVE  LET v == Append(u, f)
         IN  /\ v \in Seq(Fragments)
             /\ \A i \in 1 .. Len(v) : v[i].split => Len(v[i].bytes) = MaxDataLen
             /\ \A i \in 1 .. Len(v) : Len(v[i].bytes) <= MaxDataLen
  <1> DEFINE v == Append(u, f)
  <1>1. /\ v \in Seq(Fragments) /\ Len(v) = Len(u) + 1 /\ Len(u) \in Nat
        /\ v[Len(u) + 1] = f /\ \A i \in 1 .. Len(u) : v[i] = u[i]
    BY AppendProperties, LenProperties
  <1> HIDE DEF v
  <1>2. ASSUME NEW i \in 1 .. Len(v)
        PROVE  (v[i].split => Len(v[i].bytes) = MaxDataLen) /\ Len(v[i].bytes) <= MaxDataLen
    <2>1. CASE i = Len(u) + 1
      BY <2>1, <1>1
    <2>2. CASE i # Len(u) + 1
      <3>1. i \in 1 .. Len(u)
        BY <2>2, <1>1
      <3> QED BY <3>1, <1>1
    <2> QED BY <2>1, <2>2
  <1> QED BY <1>1, <1>2 DEF v

\* Taking the first fragment from the wire keeps it too.
LEMMA WireTail ==
  ASSUME NEW u \in Seq(Fragments), u # << >>,
         \A i \in 1 .. Len(u) : u[i].split => Len(u[i].bytes) = MaxDataLen,
         \A i \in 1 .. Len(u) : Len(u[i].bytes) <= MaxDataLen
  PROVE  LET v == Tail(u)
         IN  /\ v \in Seq(Fragments)
             /\ \A i \in 1 .. Len(v) : v[i].split => Len(v[i].bytes) = MaxDataLen
             /\ \A i \in 1 .. Len(v) : Len(v[i].bytes) <= MaxDataLen
             /\ Head(u) \in Fragments
  <1> DEFINE v == Tail(u)
  <1>1. /\ v \in Seq(Fragments) /\ Len(v) = Len(u) - 1 /\ Len(u) \in Nat
        /\ Head(u) \in Fragments /\ \A i \in 1 .. Len(v) : v[i] = u[i + 1]
    BY HeadTailProperties, LenProperties
  <1> HIDE DEF v
  <1>2. ASSUME NEW i \in 1 .. Len(v)
        PROVE  (v[i].split => Len(v[i].bytes) = MaxDataLen) /\ Len(v[i].bytes) <= MaxDataLen
    <2>1. PICK j \in 1 .. Len(u) : j = i + 1
      BY <1>1
    <2>2. v[i] = u[j]
      BY <2>1, <1>1
    <2> QED BY <2>2
  <1> QED BY <1>1, <1>2 DEF v

\* The variables start with their types.
LEMMA TypeInit == Init => TypeOK
  <1> SUFFICES ASSUME Init PROVE TypeOK
    OBVIOUS
  <1>1. /\ << >> \in Seq(Lengths) /\ << >> \in Seq(Byte) /\ << >> \in Seq(Seq(Byte))
        /\ << >> \in Seq([bytes : Seq(Byte), split : BOOLEAN]) /\ Len(<< >>) = 0
    BY EmptySeq
  <1>2. /\ exclusive \in BOOLEAN /\ length = << >> /\ destroyed = FALSE /\ combine = FALSE
        /\ wire = << >> /\ data = << >> /\ delivered = << >>
        /\ writing = [w \in Writers |-> Idle] /\ sent = [w \in Writers |-> 0]
    BY DEF Init
  <1>3. /\ length \in Seq(Lengths) /\ data \in Seq(Byte) /\ delivered \in Seq(Seq(Byte))
        /\ wire \in Seq([bytes : Seq(Byte), split : BOOLEAN])
    BY <1>1, <1>2, Zenon
  <1>4. Len(length) = 0 /\ Len(wire) = 0
    BY <1>1, <1>2, Zenon
  <1>5. writing \in [Writers -> Payloads \cup {Idle}] /\ sent \in [Writers -> Nat]
    BY <1>2
  <1>6. \A w \in Writers : writing[w] = Idle
    BY <1>2
  <1>7. exclusive \in BOOLEAN /\ destroyed \in BOOLEAN /\ combine \in BOOLEAN
    BY <1>2
  <1>8. Len(length) <= MaxPayloads /\ \A i \in 1 .. Len(wire) : FALSE
    BY <1>4, SplitAssumption
  <1> QED BY <1>3, <1>5, <1>6, <1>7, <1>8 DEF TypeOK

\* The type of what combinePacket has and gives, by the branches of Combine.
LEMMA CombineType ==
  ASSUME NEW f \in Fragments, data \in Seq(Byte), delivered \in Seq(Seq(Byte)),
         combine \in BOOLEAN, Combine(f)
  PROVE  data' \in Seq(Byte) /\ delivered' \in Seq(Seq(Byte)) /\ combine' \in BOOLEAN
  <1> DEFINE b == f.bytes
             B == Seq(Byte)
  <1>1. b \in Seq(Byte)
    BY DEF Fragments
  <1>2. data \o b \in Seq(Byte)
    <2> HIDE DEF b
    <2> QED BY <1>1, ConcatProperties
  <1>3. Append(delivered, b) \in Seq(Seq(Byte)) /\ Append(delivered, data \o b) \in Seq(Seq(Byte))
    <2>1. delivered \in Seq(B) /\ b \in B /\ data \o b \in B
      BY <1>1, <1>2
    <2> HIDE DEF b, B
    <2>2. Append(delivered, b) \in Seq(B) /\ Append(delivered, data \o b) \in Seq(B)
      BY <2>1, AppendProperties
    <2> QED BY <2>2 DEF B
  <1>4. << >> \in Seq(Byte)
    BY EmptySeq
  <1> QED BY <1>1, <1>2, <1>3, <1>4 DEF Combine

\* Every step of a goroutine and of the reader keeps them.
LEMMA TypeStep == TypeOK /\ [Next]_vars => TypeOK'
  <1> SUFFICES ASSUME TypeOK, [Next]_vars PROVE TypeOK'
    OBVIOUS
  <1> DEFINE WireOK(u) ==
        /\ u \in Seq(Fragments)
        /\ \A i \in 1 .. Len(u) : u[i].split => Len(u[i].bytes) = MaxDataLen
        /\ \A i \in 1 .. Len(u) : Len(u[i].bytes) <= MaxDataLen
  <1>a. WireOK(wire) /\ Len(length) \in Nat /\ MaxPayloads \in Nat /\ MaxDataLen \in Nat \ {0}
    BY LenProperties, SplitAssumption DEF TypeOK, Fragments
  <1>1. ASSUME NEW w \in Writers, NEW n \in Lengths, WriteTo(w, n) PROVE TypeOK'
    <2> DEFINE l == Append(length, n)
    <2>1. /\ l \in Seq(Lengths) /\ Len(l) = Len(length) + 1 /\ l[Len(length) + 1] = n
          /\ \A i \in 1 .. Len(length) : l[i] = length[i]
      BY AppendProperties DEF TypeOK
    <2>2. length' = l /\ writing[w] = Idle /\ writing' = [writing EXCEPT ![w] = Len(length)]
          /\ sent' = [sent EXCEPT ![w] = 0] /\ Len(length) < MaxPayloads
      BY <1>1 DEF WriteTo
    <2> HIDE DEF l
    <2>3. length' \in Seq(Lengths) /\ Len(length') <= MaxPayloads
      BY <2>1, <2>2, <1>a
    <2>4. writing' \in [Writers -> Payloads \cup {Idle}] /\ sent' \in [Writers -> Nat]
      BY <2>2, <1>a DEF TypeOK, Payloads
    <2>5. ASSUME NEW v \in Writers, writing'[v] # Idle
          PROVE  writing'[v] < Len(length') /\ sent'[v] <= length'[writing'[v] + 1]
      <3>1. CASE v = w
        <4>1. writing'[v] = Len(length) /\ sent'[v] = 0
          BY <3>1, <2>2 DEF TypeOK
        <4>2. n \in Nat
          BY SplitAssumption
        <4>3. length'[writing'[v] + 1] = n /\ Len(length') = Len(length) + 1
          BY <4>1, <2>1, <2>2
        <4> QED BY <4>1, <4>2, <4>3, <1>a
      <3>2. CASE v # w
        <4>1. writing'[v] = writing[v] /\ sent'[v] = sent[v] /\ writing[v] # Idle
          BY <3>2, <2>2, <2>5 DEF TypeOK
        <4>2. writing[v] < Len(length) /\ sent[v] <= length[writing[v] + 1] /\ writing[v] \in Nat
          BY <4>1, FragmentType DEF TypeOK
        <4>3. PICK k \in 1 .. Len(length) : k = writing[v] + 1
          BY <4>2, <1>a
        <4>4. length'[writing'[v] + 1] = length[writing[v] + 1]
          BY <4>1, <4>3, <2>1, <2>2
        <4> QED BY <4>1, <4>2, <4>4, <2>1, <2>2, <1>a
      <3> QED BY <3>1, <3>2
    <2>6. UNCHANGED <<exclusive, destroyed, wire, combine, data, delivered>>
      BY <1>1 DEF WriteTo
    <2> QED BY <2>3, <2>4, <2>5, <2>6 DEF TypeOK
  <1>2. ASSUME NEW w \in Writers, WriteFragment(w) PROVE TypeOK'
    <2> DEFINE b == Bytes(writing[w], sent[w], sent[w] + MaxDataLen)
               f == Fragment(b, TRUE)
    <2>1. /\ writing[w] \in Nat /\ sent[w] \in Nat /\ Rest(w) \in Nat
          /\ length[writing[w] + 1] = sent[w] + Rest(w)
          /\ length[writing[w] + 1] \in Nat
          /\ Rest(w) > MaxDataLen /\ writing[w] # Idle
      BY <1>2, FragmentType DEF WriteFragment
    <2>2. b \in Seq(Byte) /\ Len(b) = MaxDataLen
      <3>0. writing[w] \in Nat /\ sent[w] \in Nat
        BY <2>1
      <3>1. PICK m \in Nat : m = sent[w] + MaxDataLen /\ sent[w] <= m
        BY <3>0, <1>a
      <3>2. Bytes(writing[w], sent[w], m) \in Seq(Byte) /\ Len(Bytes(writing[w], sent[w], m)) = m - sent[w]
        BY <3>0, <3>1, BytesProperties
      <3> QED BY <3>1, <3>2, <2>1, <1>a
    <2>3. wire' = Append(wire, f) /\ sent' = [sent EXCEPT ![w] = sent[w] + MaxDataLen]
      BY <1>2 DEF WriteFragment
    <2>4. f \in Fragments /\ f.bytes = b
      <3> HIDE DEF b
      <3> QED BY <2>2 DEF Fragment, Fragments
    <2>5. WireOK(wire')
      <3> HIDE DEF f, b
      <3> QED BY <1>a, <2>2, <2>3, <2>4, WireAppend
    <2>6. sent' \in [Writers -> Nat]
      BY <2>1, <2>3, <1>a DEF TypeOK
    <2>7. UNCHANGED <<exclusive, length, writing, destroyed, combine, data, delivered>>
      BY <1>2 DEF WriteFragment
    <2>8. ASSUME NEW v \in Writers, writing'[v] # Idle
          PROVE  writing'[v] < Len(length') /\ sent'[v] <= length'[writing'[v] + 1]
      <3>1. CASE v = w
        <4>1. sent'[v] = sent[w] + MaxDataLen
          BY <3>1, <2>3 DEF TypeOK
        <4>2. writing'[v] = writing[w] /\ length' = length
          BY <3>1, <2>7
        <4> QED BY <4>1, <4>2, <2>1, <1>a DEF TypeOK
      <3>2. CASE v # w
        BY <3>2, <2>3, <2>7, <2>8 DEF TypeOK
      <3> QED BY <3>1, <3>2
    <2> QED BY <2>5, <2>6, <2>7, <2>8 DEF TypeOK, Fragments
  <1>3. ASSUME NEW w \in Writers, WriteLast(w) PROVE TypeOK'
    <2> DEFINE b == Bytes(writing[w], sent[w], sent[w] + Rest(w))
               f == Fragment(b, FALSE)
    <2>1. /\ writing[w] \in Nat /\ sent[w] \in Nat /\ Rest(w) \in Nat
          /\ Rest(w) <= MaxDataLen /\ writing[w] # Idle
      BY <1>3, FragmentType DEF WriteLast
    <2>2. b \in Seq(Byte) /\ Len(b) <= MaxDataLen
      <3>1. PICK m \in Nat : m = sent[w] + Rest(w) /\ sent[w] <= m
        BY <2>1, <1>a
      <3>2. Bytes(writing[w], sent[w], m) \in Seq(Byte) /\ Len(Bytes(writing[w], sent[w], m)) = m - sent[w]
        BY <2>1, <3>1, BytesProperties, ZenonT(30)
      <3> QED BY <3>1, <3>2, <2>1, <1>a
    <2>3. wire' = Append(wire, f) /\ writing' = [writing EXCEPT ![w] = Idle]
      BY <1>3 DEF WriteLast
    <2>4. f \in Fragments /\ f.bytes = b /\ ~f.split
      <3> HIDE DEF b
      <3> QED BY <2>2 DEF Fragment, Fragments
    <2>5. WireOK(wire')
      <3> HIDE DEF f, b
      <3> QED BY <1>a, <2>2, <2>3, <2>4, WireAppend
    <2>6. UNCHANGED <<exclusive, length, sent, destroyed, combine, data, delivered>>
      BY <1>3 DEF WriteLast
    <2>7. writing' \in [Writers -> Payloads \cup {Idle}]
      BY <2>3 DEF TypeOK
    <2>8. ASSUME NEW v \in Writers, writing'[v] # Idle PROVE writing'[v] = writing[v]
      BY <2>3, <2>8 DEF TypeOK
    <2> QED BY <2>5, <2>6, <2>7, <2>8 DEF TypeOK, Fragments
  <1>4. ASSUME NEW w \in Writers, WriteFails(w) PROVE TypeOK'
    <2>1. UNCHANGED <<exclusive, length, sent, destroyed, wire, combine, data, delivered>>
      BY <1>4 DEF WriteFails
    <2>2. writing' = [writing EXCEPT ![w] = Idle]
      BY <1>4 DEF WriteFails
    <2>3. writing' \in [Writers -> Payloads \cup {Idle}]
      BY <2>2 DEF TypeOK
    <2>4. ASSUME NEW v \in Writers, writing'[v] # Idle PROVE writing'[v] = writing[v]
      BY <2>2, <2>4 DEF TypeOK
    <2> QED BY <2>1, <2>3, <2>4 DEF TypeOK
  <1>5. CASE Destroy
    BY <1>5 DEF Destroy, TypeOK
  <1>6. CASE Receive
    <2>1. /\ wire # << >> /\ Combine(Head(wire)) /\ wire' = Tail(wire)
          /\ UNCHANGED <<exclusive, length, writing, sent, destroyed>>
      BY <1>6 DEF Receive
    <2>2. WireOK(wire') /\ Head(wire) \in Fragments
      BY <1>a, <2>1, WireTail
    <2>3. data' \in Seq(Byte) /\ delivered' \in Seq(Seq(Byte)) /\ combine' \in BOOLEAN
      BY <2>1, <2>2, CombineType DEF TypeOK
    <2> QED BY <2>1, <2>2, <2>3 DEF TypeOK, Fragments
  <1>7. CASE UNCHANGED vars
    BY <1>7 DEF vars, TypeOK
  <1> QED BY <1>1, <1>2, <1>3, <1>4, <1>5, <1>6, <1>7 DEF Next

\* The variables have their types: in particular no fragment is longer than
\* maxDataLen, all but the last of a payload are as long, and no goroutine sends
\* more than its payload has.
THEOREM TypeCorrect == Spec => []TypeOK
  <1>1. Init => TypeOK
    BY TypeInit
  <1>2. TypeOK /\ [Next]_vars => TypeOK'
    BY TypeStep
  <1> QED BY <1>1, <1>2, PTL DEF Spec

-----------------------------------------------------------------------------
(***************************************************************************)
(* The stream: receiving a fragment does not change it, sending one adds   *)
(* its bytes at the end.                                                   *)
(***************************************************************************)

\* combinePacket keeps nothing between two payloads.
DataInv == ~combine => data = << >>

\* The stream as a function of what is delivered, being joined and on the wire.
StreamOf(ss, d, u) == FlattenSeq(ss) \o d \o FlattenSeq(Pieces(u))

\* It is the one Split names.
LEMMA StreamDef == Stream = StreamOf(delivered, data, wire)
  BY DEF Stream, StreamOf, Pieces

\* The stream is a sequence of bytes.
LEMMA StreamType ==
  ASSUME NEW ss \in Seq(Seq(Byte)), NEW d \in Seq(Byte), NEW u \in Seq(Fragments)
  PROVE  StreamOf(ss, d, u) \in Seq(Byte)
  <1> DEFINE a == FlattenSeq(ss)
             b == FlattenSeq(Pieces(u))
  <1>1. a \in Seq(Byte) /\ b \in Seq(Byte)
    BY PiecesType, FlattenType
  <1> HIDE DEF a, b
  <1>2. a \o d \in Seq(Byte)
    BY <1>1, ConcatProperties
  <1>3. (a \o d) \o b \in Seq(Byte)
    <2> DEFINE c == a \o d
    <2>1. c \in Seq(Byte)
      BY <1>2
    <2> HIDE DEF c
    <2>2. c \o b \in Seq(Byte)
      BY <1>1, <2>1, ConcatProperties
    <2> QED BY <2>2 DEF c
  <1> QED BY <1>3 DEF StreamOf, a, b

\* A fragment sent adds its bytes at the end of the stream.
LEMMA StreamSend ==
  ASSUME NEW ss \in Seq(Seq(Byte)), NEW d \in Seq(Byte),
         NEW u \in Seq(Fragments), NEW f \in Fragments
  PROVE  StreamOf(ss, d, Append(u, f)) = StreamOf(ss, d, u) \o f.bytes
  <1> DEFINE a == FlattenSeq(ss)
             b == FlattenSeq(Pieces(u))
             c == f.bytes
  <1>1. a \in Seq(Byte) /\ b \in Seq(Byte)
    BY PiecesType, FlattenType
  <1>2. Pieces(Append(u, f)) = Append(Pieces(u), c)
    BY PiecesAppend
  <1>3. c \in Seq(Byte)
    BY DEF Fragments
  <1>4. FlattenSeq(Pieces(Append(u, f))) = b \o c
    <2> HIDE DEF c
    <2>1. FlattenSeq(Append(Pieces(u), c)) = FlattenSeq(Pieces(u)) \o c
      BY <1>3, PiecesType, FlattenAppend
    <2> QED BY <2>1, <1>2
  <1>5. StreamOf(ss, d, Append(u, f)) = (a \o d) \o (b \o c)
    BY <1>4 DEF StreamOf
  <1>6. StreamOf(ss, d, u) = (a \o d) \o b
    BY DEF StreamOf
  <1> HIDE DEF a, b, c
  <1>7. a \o d \in Seq(Byte)
    BY <1>1, ConcatProperties
  <1>8. (a \o d) \o (b \o c) = ((a \o d) \o b) \o c
    BY <1>1, <1>3, <1>7, ConcatAssociative, SMTT(60)
  <1> QED BY <1>5, <1>6, <1>8 DEF c

\* What is received moves from the wire to data or to delivered.
LEMMA StreamReceive ==
  ASSUME TypeOK, DataInv, Receive
  PROVE  Stream' = Stream
  <1> DEFINE h == Head(wire).bytes
             a == FlattenSeq(delivered)
             b == FlattenSeq(Pieces(Tail(wire)))
  <1>1. /\ wire # << >> /\ wire \in Seq(Fragments) /\ Combine(Head(wire)) /\ wire' = Tail(wire)
        /\ delivered \in Seq(Seq(Byte)) /\ data \in Seq(Byte)
    BY DEF Receive, TypeOK, Fragments
  <1>2. Tail(wire) \in Seq(Fragments) /\ Head(wire) \in Fragments
    BY <1>1, HeadTailProperties
  <1>3. h \in Seq(Byte)
    BY <1>2 DEF Fragments
  <1>4. a \in Seq(Byte) /\ b \in Seq(Byte)
    BY <1>1, <1>2, PiecesType, FlattenType
  <1>5. FlattenSeq(Pieces(wire)) = h \o b
    <2>1. /\ Pieces(wire) # << >> /\ Pieces(wire) \in Seq(Seq(Byte))
          /\ Head(Pieces(wire)) = h /\ Tail(Pieces(wire)) = Pieces(Tail(wire))
      BY <1>1, PiecesHeadTail, PiecesType
    <2> HIDE DEF h, b
    <2>2. FlattenSeq(Pieces(wire)) = Head(Pieces(wire)) \o FlattenSeq(Tail(Pieces(wire)))
      BY <2>1, FlattenHeadTail
    <2> QED BY <2>1, <2>2 DEF b
  <1>6. Stream = (a \o data) \o (h \o b)
    BY <1>5, StreamDef DEF StreamOf
  <1>7. Stream' = (FlattenSeq(delivered') \o data') \o b
    <2>1. (Stream = StreamOf(delivered, data, wire))'
      BY StreamDef, PTL
    <2> QED BY <2>1, <1>1 DEF StreamOf
  <1>8. \A s \in Seq(Byte) : FlattenSeq(Append(delivered, s)) = a \o s
    BY <1>1, FlattenAppend
  <1>9. /\ ~combine => data = << >>
        /\ \/ ~combine /\ Head(wire).split /\ data' = h /\ delivered' = delivered
           \/ combine /\ Head(wire).split /\ data' = data \o h /\ delivered' = delivered
           \/ combine /\ delivered' = Append(delivered, data \o h) /\ data' = << >>
           \/ ~combine /\ delivered' = Append(delivered, h) /\ data' = data
    BY <1>1 DEF Combine, DataInv
  <1> HIDE DEF h, b
  <1>10. CASE ~combine /\ data' = h /\ delivered' = delivered
    <2> HIDE DEF a
    <2>1. Stream = (a \o << >>) \o (h \o b) /\ Stream' = (a \o h) \o b
      BY <1>6, <1>7, <1>9, <1>10 DEF a
    <2>2. (a \o << >>) \o (h \o b) = (a \o h) \o b
      BY <1>3, <1>4, SMTT(60)
    <2> QED BY <2>1, <2>2
  <1>11. CASE data' = data \o h /\ delivered' = delivered
    <2> HIDE DEF a
    <2>1. Stream' = (a \o (data \o h)) \o b
      BY <1>7, <1>11 DEF a
    <2>2. (a \o data) \o (h \o b) = (a \o (data \o h)) \o b
      BY <1>1, <1>3, <1>4, SMTT(60)
    <2> QED BY <2>1, <2>2, <1>6
  <1>12. CASE delivered' = Append(delivered, data \o h) /\ data' = << >>
    <2>0. data \o h \in Seq(Byte)
      BY <1>1, <1>3, ConcatProperties
    <2>1. FlattenSeq(delivered') = a \o (data \o h)
      <3> DEFINE s == data \o h
      <3>1. s \in Seq(Byte) /\ delivered' = Append(delivered, s)
        BY <2>0, <1>12
      <3> HIDE DEF s, a
      <3>2. FlattenSeq(delivered') = a \o s
        BY <3>1, <1>8
      <3> QED BY <3>2 DEF s
    <2> HIDE DEF a
    <2>2. Stream' = ((a \o (data \o h)) \o << >>) \o b
      BY <1>7, <1>12, <2>1
    <2>3. (a \o data) \o (h \o b) = ((a \o (data \o h)) \o << >>) \o b
      BY <1>1, <1>3, <1>4, SMTT(60)
    <2> QED BY <2>2, <2>3, <1>6
  <1>13. CASE ~combine /\ delivered' = Append(delivered, h) /\ data' = data
    <2>1. FlattenSeq(delivered') = a \o h /\ data = << >>
      BY <1>3, <1>8, <1>9, <1>13
    <2> HIDE DEF a
    <2>2. Stream = (a \o << >>) \o (h \o b) /\ Stream' = ((a \o h) \o << >>) \o b
      BY <1>6, <1>7, <1>13, <2>1
    <2>3. (a \o << >>) \o (h \o b) = ((a \o h) \o << >>) \o b
      BY <1>3, <1>4, SMTT(60)
    <2> QED BY <2>2, <2>3
  <1> QED BY <1>9, <1>10, <1>11, <1>12, <1>13

-----------------------------------------------------------------------------
(***************************************************************************)
(* No byte is lost, repeated or made up.                                   *)
(***************************************************************************)

\* A stream of bytes with a stretch of a payload added.
Adds(new, st, l, p, n, m) ==
  /\ l = Len(st) /\ l \in Nat /\ Len(new) = l + (m - n)
  /\ new \in Seq(Byte)
  /\ \A i \in 1 .. l : new[i] = st[i] /\ st[i][1] \in Nat /\ st[i][2] \in Nat
  /\ \A k \in 1 .. m - n : new[l + k] = <<p, n + k - 1>>
  /\ \A i \in 1 .. Len(new) :
        i \in 1 .. l \/ \E k \in 1 .. m - n : i = l + k /\ new[i] = <<p, n + k - 1>>

\* That is what concatenation does.
LEMMA AddBytes ==
  ASSUME NEW st \in Seq(Byte), NEW p \in Nat, NEW n \in Nat, NEW m \in Nat, n <= m
  PROVE  Adds(st \o Bytes(p, n, m), st, Len(st), p, n, m)
  <1> DEFINE t == Bytes(p, n, m)
  <1>0. PICK new, l : new = st \o Bytes(p, n, m) /\ l = Len(st)
    OBVIOUS
  <1>1. /\ t \in Seq(Byte) /\ Len(t) = m - n
        /\ \A k \in 1 .. m - n : t[k] = <<p, n + k - 1>>
    BY BytesProperties
  <1>a. new = st \o t
    BY <1>0
  <1> HIDE DEF t
  <1>2. l = Len(st) /\ l \in Nat
    BY <1>0, LenProperties
  <1>3. /\ Len(new) = Len(st) + Len(t) /\ new \in Seq(Byte)
        /\ \A i \in 1 .. Len(st) + Len(t) : new[i] = IF i <= Len(st) THEN st[i] ELSE t[i - Len(st)]
    <2>1. t \in Seq(Byte)
      BY <1>1
    <2>2. /\ Len(st \o t) = Len(st) + Len(t) /\ st \o t \in Seq(Byte)
          /\ \A i \in 1 .. Len(st) + Len(t) : (st \o t)[i] = IF i <= Len(st) THEN st[i] ELSE t[i - Len(st)]
      BY <2>1, ConcatProperties
    <2> QED BY <1>a, <2>2, Zenon
  <1>4. /\ Len(new) = l + (m - n) /\ new \in Seq(Byte)
        /\ \A i \in 1 .. l + (m - n) : new[i] = IF i <= l THEN st[i] ELSE t[i - l]
    BY <1>1, <1>2, <1>3
  <1>5. \A i \in 1 .. l : new[i] = st[i] /\ st[i][1] \in Nat /\ st[i][2] \in Nat
    <2> TAKE i \in 1 .. l
    <2>1. st[i] \in Byte
      BY <1>2, ElementOfSeq
    <2>2. new[i] = st[i]
      BY <1>2, <1>4
    <2> QED BY <2>1, <2>2 DEF Byte
  <1>6. \A k \in 1 .. m - n : new[l + k] = <<p, n + k - 1>>
    <2> TAKE k \in 1 .. m - n
    <2>1. PICK i \in 1 .. l + (m - n) : i = l + k
      BY <1>2
    <2>2. ~(i <= l) /\ i - l = k
      BY <1>2, <2>1
    <2>3. new[i] = t[k]
      BY <1>4, <2>2
    <2> QED BY <1>1, <2>1, <2>3
  <1>7. \A i \in 1 .. Len(new) :
           i \in 1 .. l \/ \E k \in 1 .. m - n : i = l + k /\ new[i] = <<p, n + k - 1>>
    <2> TAKE i \in 1 .. Len(new)
    <2>1. CASE i <= l
      BY <2>1, <1>2, <1>4
    <2>2. CASE ~(i <= l)
      <3>0. i \in Nat /\ i <= l + (m - n)
        BY <1>4
      <3>1. PICK k : k = i - l
        OBVIOUS
      <3>2. k \in 1 .. m - n /\ i = l + k
        BY <3>0, <3>1, <2>2, <1>2
      <3> QED BY <3>2, <1>6
    <2> QED BY <2>1, <2>2
  <1>8. Adds(new, st, l, p, n, m)
    BY <1>2, <1>4, <1>5, <1>6, <1>7 DEF Adds
  <1> QED BY <1>0, <1>8

\* A stretch of payload p that goes on where the stream left off.
LEMMA CarriesMore ==
  ASSUME NEW st \in Seq(Byte), NEW p \in Nat, NEW n \in Nat, NEW m \in Nat, n <= m,
         Carries(st, p, n)
  PROVE  Carries(st \o Bytes(p, n, m), p, m)
  <1>0. Adds(st \o Bytes(p, n, m), st, Len(st), p, n, m)
    BY AddBytes
  <1>1. PICK new, l : new = st \o Bytes(p, n, m) /\ l = Len(st)
    OBVIOUS
  <1>2. /\ l \in Nat /\ Len(new) = l + (m - n)
        /\ \A i \in 1 .. l : new[i] = st[i] /\ st[i][1] \in Nat /\ st[i][2] \in Nat
        /\ \A j \in 1 .. m - n : new[l + j] = <<p, n + j - 1>>
        /\ \A i \in 1 .. Len(new) :
              i \in 1 .. l \/ \E j \in 1 .. m - n : i = l + j /\ new[i] = <<p, n + j - 1>>
    BY <1>0, <1>1 DEF Adds
  <1>3. Len(new) = l + (m - n)
    BY <1>1, <1>2
  <1>4. \A i \in 1 .. l : new[i] = st[i] /\ st[i][1] \in Nat /\ st[i][2] \in Nat
    BY <1>1, <1>2
  <1>5. \A k \in 1 .. m - n : new[l + k] = <<p, n + k - 1>>
    BY <1>1, <1>2
  <1>6. /\ \A i \in 1 .. l : st[i][1] = p => st[i][2] \in 0 .. n - 1
        /\ \A x \in 0 .. n - 1 : \E i \in 1 .. l : st[i][1] = p /\ st[i][2] = x
        /\ \A i, j \in 1 .. l : st[i][1] = p /\ st[j][1] = p /\ i < j => st[i][2] < st[j][2]
    BY <1>1, <1>2 DEF Carries
  <1>7. \A i \in 1 .. Len(new) :
           i \in 1 .. l \/ \E k \in 1 .. m - n : i = l + k /\ new[i] = <<p, n + k - 1>>
    BY <1>1, <1>2
  <1>8. \A i \in 1 .. Len(new) : new[i][1] = p =>
           \/ i \in 1 .. l /\ new[i] = st[i]
           \/ \E k \in 1 .. m - n : i = l + k /\ new[i][2] = n + k - 1
    <2> TAKE i \in 1 .. Len(new)
    <2>1. CASE i \in 1 .. l
      BY <2>1, <1>4
    <2>2. CASE \E k \in 1 .. m - n : i = l + k /\ new[i] = <<p, n + k - 1>>
      BY <2>2
    <2> QED BY <2>1, <2>2, <1>7
  <1>9. \A i \in 1 .. Len(new) : new[i][1] = p => new[i][2] \in 0 .. m - 1
    BY <1>4, <1>6, <1>8, SMTT(15)
  <1>10. \A x \in 0 .. m - 1 : \E i \in 1 .. Len(new) : new[i][1] = p /\ new[i][2] = x
    <2> TAKE x \in 0 .. m - 1
    <2>1. CASE x < n
      <3>1. PICK i \in 1 .. l : st[i][1] = p /\ st[i][2] = x
        BY <2>1, <1>6
      <3>2. i \in 1 .. Len(new) /\ new[i] = st[i]
        BY <1>2, <1>3, <1>4
      <3> QED BY <3>1, <3>2
    <2>2. CASE ~(x < n)
      <3>1. PICK k \in 1 .. m - n : k = x - n + 1
        BY <2>2
      <3>2. PICK i \in 1 .. Len(new) : i = l + k
        BY <1>2, <1>3
      <3>3. new[i] = <<p, x>>
        <4>1. new[i] = <<p, n + k - 1>>
          BY <3>2, <1>5
        <4>2. n + k - 1 = x
          BY <3>1
        <4> QED BY <4>1, <4>2
      <3>4. new[i][1] = p /\ new[i][2] = x
        BY <3>3
      <3> QED BY <3>4
    <2> QED BY <2>1, <2>2
  <1>11. \A i, j \in 1 .. Len(new) : new[i][1] = p /\ new[j][1] = p /\ i < j => new[i][2] < new[j][2]
    <2> SUFFICES ASSUME NEW i \in 1 .. Len(new), NEW j \in 1 .. Len(new),
                        new[i][1] = p, new[j][1] = p, i < j
                 PROVE  new[i][2] < new[j][2]
      OBVIOUS
    <2>1. CASE j \in 1 .. l
      <3>1. i \in 1 .. l
        BY <2>1, <1>2
      <3> QED BY <2>1, <3>1, <1>4, <1>6
    <2>2. CASE \E k \in 1 .. m - n : j = l + k /\ new[j][2] = n + k - 1
      <3>1. PICK k \in 1 .. m - n : j = l + k /\ new[j][2] = n + k - 1
        BY <2>2
      <3>2. CASE i \in 1 .. l
        <4>1. new[i][2] \in 0 .. n - 1
          BY <3>2, <1>4, <1>6
        <4> QED BY <3>1, <4>1
      <3>3. CASE \E k2 \in 1 .. m - n : i = l + k2 /\ new[i][2] = n + k2 - 1
        BY <3>1, <3>3, <1>2
      <3> QED BY <3>2, <3>3, <1>8
    <2> QED BY <2>1, <2>2, <1>8
  <1>12. {new[i][2] : i \in {i \in 1 .. Len(new) : new[i][1] = p}} = 0 .. m - 1
    BY <1>9, <1>10
  <1> QED BY <1>11, <1>12, <1>1 DEF Carries

\* Bytes of another payload change nothing.
LEMMA CarriesSame ==
  ASSUME NEW st \in Seq(Byte), NEW p \in Nat, NEW n \in Nat, NEW m \in Nat, n <= m,
         NEW q, q # p, NEW k, Carries(st, q, k)
  PROVE  Carries(st \o Bytes(p, n, m), q, k)
  <1>0. Adds(st \o Bytes(p, n, m), st, Len(st), p, n, m)
    BY AddBytes
  <1>1. PICK new, l : new = st \o Bytes(p, n, m) /\ l = Len(st)
    OBVIOUS
  <1>2. /\ l \in Nat /\ Len(new) = l + (m - n)
        /\ \A i \in 1 .. l : new[i] = st[i] /\ st[i][1] \in Nat /\ st[i][2] \in Nat
        /\ \A j \in 1 .. m - n : new[l + j] = <<p, n + j - 1>>
        /\ \A i \in 1 .. Len(new) :
              i \in 1 .. l \/ \E j \in 1 .. m - n : i = l + j /\ new[i] = <<p, n + j - 1>>
    BY <1>0, <1>1 DEF Adds
  <1>3. Len(new) = l + (m - n)
    BY <1>1, <1>2
  <1>4. ASSUME NEW i \in 1 .. Len(new)
        PROVE  (new[i][1] = q) <=> (i \in 1 .. l /\ st[i][1] = q)
    <2>1. CASE i \in 1 .. l
      BY <2>1, <1>1, <1>2
    <2>2. CASE \E j \in 1 .. m - n : i = l + j /\ new[i] = <<p, n + j - 1>>
      <3>1. new[i][1] = p /\ i \notin 1 .. l
        BY <2>2, <1>2
      <3> QED BY <3>1
    <2> QED BY <2>1, <2>2, <1>1, <1>2
  <1>5. \A i \in 1 .. l : i \in 1 .. Len(new) /\ new[i] = st[i]
    BY <1>1, <1>2, <1>3
  <1>6. {i \in 1 .. Len(new) : new[i][1] = q} = {i \in 1 .. l : st[i][1] = q}
    BY <1>4, <1>5
  <1> DEFINE at == {i \in 1 .. l : st[i][1] = q}
  <1>7. \A i \in at : new[i] = st[i]
    BY <1>5
  <1>8. {st[i][2] : i \in at} = 0 .. k - 1 /\ \A i, j \in at : i < j => st[i][2] < st[j][2]
    BY <1>1, <1>2 DEF Carries
  <1>9. {i \in 1 .. Len(new) : new[i][1] = q} = at
    BY <1>6
  <1> HIDE DEF at
  <1>10. {new[i][2] : i \in at} = 0 .. k - 1 /\ \A i, j \in at : i < j => new[i][2] < new[j][2]
    BY <1>7, <1>8
  <1>11. Carries(new, q, k)
    BY <1>9, <1>10 DEF Carries
  <1> QED BY <1>11, <1>1

\* A payload nobody has sent a byte of.
LEMMA CarriesNone ==
  ASSUME NEW st, NEW p, \A i \in 1 .. Len(st) : st[i][1] # p
  PROVE  Carries(st, p, 0)
  <1>1. {i \in 1 .. Len(st) : st[i][1] = p} = {}
    OBVIOUS
  <1>2. 0 .. 0 - 1 = {}
    OBVIOUS
  <1> QED BY <1>1, <1>2 DEF Carries

\* The bytes added belong to a payload, like the others.
LEMMA BytesOwner ==
  ASSUME NEW st \in Seq(Byte), NEW p \in Nat, NEW n \in Nat, NEW m \in Nat, n <= m,
         NEW k \in Nat, p < k, \A i \in 1 .. Len(st) : st[i][1] < k
  PROVE  \A i \in 1 .. Len(st \o Bytes(p, n, m)) : (st \o Bytes(p, n, m))[i][1] < k
  <1>0. Adds(st \o Bytes(p, n, m), st, Len(st), p, n, m)
    BY AddBytes
  <1>1. PICK new, l : new = st \o Bytes(p, n, m) /\ l = Len(st)
    OBVIOUS
  <1>2. /\ l \in Nat /\ Len(new) = l + (m - n)
        /\ \A i \in 1 .. l : new[i] = st[i] /\ st[i][1] \in Nat /\ st[i][2] \in Nat
        /\ \A j \in 1 .. m - n : new[l + j] = <<p, n + j - 1>>
        /\ \A i \in 1 .. Len(new) :
              i \in 1 .. l \/ \E j \in 1 .. m - n : i = l + j /\ new[i] = <<p, n + j - 1>>
    BY <1>0, <1>1 DEF Adds
  <1>3. ASSUME NEW i \in 1 .. Len(new)
        PROVE  new[i][1] < k
    <2>1. CASE i \in 1 .. l
      BY <2>1, <1>1, <1>2
    <2>2. CASE \E j \in 1 .. m - n : i = l + j /\ new[i] = <<p, n + j - 1>>
      <3>1. new[i][1] = p
        BY <2>2
      <3> QED BY <3>1
    <2> QED BY <2>1, <2>2, <1>1, <1>2
  <1> QED BY <1>1, <1>3

\* Two goroutines never write the same payload.
OwnInv ==
  \A v, w \in Writers : writing[v] # Idle /\ writing[v] = writing[w] => v = w

\* Only WriteTo gives a goroutine a payload, and each time a new one.
LEMMA OwnStep == TypeOK /\ DataInv /\ OwnInv /\ [Next]_vars => DataInv' /\ OwnInv'
  <1> SUFFICES ASSUME TypeOK, DataInv, OwnInv, [Next]_vars PROVE DataInv' /\ OwnInv'
    OBVIOUS
  <1>a. \A v \in Writers : writing[v] # Idle => writing[v] < Len(length) /\ writing[v] \in Nat
    BY FragmentType DEF TypeOK
  <1>b. Len(length) \in Nat /\ DOMAIN writing = Writers
    BY LenProperties DEF TypeOK
  <1>1. ASSUME NEW w \in Writers, NEW n \in Lengths, WriteTo(w, n) PROVE DataInv' /\ OwnInv'
    <2>1. writing' = [writing EXCEPT ![w] = Len(length)] /\ combine' = combine /\ data' = data
      BY <1>1 DEF WriteTo
    <2>2. \A v \in Writers : writing'[v] = IF v = w THEN Len(length) ELSE writing[v]
      BY <2>1, <1>b
    <2>3. \A v \in Writers : v # w => writing[v] # Len(length)
      BY <1>a, <1>b DEF Idle
    <2> QED BY <2>1, <2>2, <2>3 DEF DataInv, OwnInv
  <1>2. ASSUME NEW w \in Writers, WriteFragment(w) PROVE DataInv' /\ OwnInv'
    BY <1>2 DEF WriteFragment, DataInv, OwnInv
  <1>3. ASSUME NEW w \in Writers, WriteLast(w) \/ WriteFails(w) PROVE DataInv' /\ OwnInv'
    <2>1. writing' = [writing EXCEPT ![w] = Idle] /\ combine' = combine /\ data' = data
      BY <1>3 DEF WriteLast, WriteFails
    <2>2. \A v \in Writers : writing'[v] = IF v = w THEN Idle ELSE writing[v]
      BY <2>1, <1>b
    <2> QED BY <2>1, <2>2 DEF DataInv, OwnInv
  <1>4. CASE Destroy
    BY <1>4 DEF Destroy, DataInv, OwnInv
  <1>5. CASE Receive
    BY <1>5 DEF Receive, Combine, DataInv, OwnInv
  <1>6. CASE UNCHANGED vars
    BY <1>6 DEF vars, DataInv, OwnInv
  <1> QED BY <1>1, <1>2, <1>3, <1>4, <1>5, <1>6 DEF Next

\* A fragment sent: its bytes go at the end of the stream.
LEMMA StreamGrows ==
  ASSUME TypeOK, NEW p \in Nat, NEW n \in Nat, NEW m \in Nat, n <= m, NEW split \in BOOLEAN,
         wire' = Append(wire, Fragment(Bytes(p, n, m), split)),
         UNCHANGED <<delivered, data>>
  PROVE  Stream' = Stream \o Bytes(p, n, m) /\ Stream \in Seq(Byte)
  <1> DEFINE b == Bytes(p, n, m)
             f == Fragment(b, split)
  <1>1. b \in Seq(Byte)
    BY BytesProperties
  <1>2. f \in Fragments /\ f.bytes = b
    <2> HIDE DEF b
    <2> QED BY <1>1 DEF Fragment, Fragments
  <1>3. wire \in Seq(Fragments) /\ delivered \in Seq(Seq(Byte)) /\ data \in Seq(Byte)
    BY DEF TypeOK, Fragments
  <1>4. wire' = Append(wire, f)
    OBVIOUS
  <1>5. Stream' = StreamOf(delivered', data', wire')
    <2>1. (Stream = StreamOf(delivered, data, wire))'
      BY StreamDef, PTL
    <2> QED BY <2>1
  <1> HIDE DEF f, b
  <1>6. StreamOf(delivered, data, Append(wire, f)) = StreamOf(delivered, data, wire) \o f.bytes
    BY <1>2, <1>3, StreamSend
  <1>7. Stream' = StreamOf(delivered, data, Append(wire, f))
    BY <1>4, <1>5
  <1>8. Stream \in Seq(Byte)
    BY <1>3, StreamType, StreamDef
  <1> QED BY <1>2, <1>6, <1>7, <1>8, StreamDef DEF b

\* Every step conserves the stream.
LEMMA StreamStep ==
  TypeOK /\ DataInv /\ OwnInv /\ StreamConserved /\ [Next]_vars => StreamConserved'
  <1> SUFFICES ASSUME TypeOK, DataInv, OwnInv, StreamConserved, [Next]_vars
               PROVE  StreamConserved'
    OBVIOUS
  <1>a. /\ \A i \in 1 .. Len(Stream) : Stream[i][1] < Len(length)
        /\ \A w \in Writers : writing[w] # Idle => Carries(Stream, writing[w], sent[w])
        /\ \A p \in 0 .. Len(length) - 1 : (\A w \in Writers : writing[w] # p) =>
              \/ Carries(Stream, p, length[p + 1])
              \/ destroyed /\ \E n \in 0 .. length[p + 1] : Carries(Stream, p, n)
    BY DEF StreamConserved
  <1>b. Len(length) \in Nat /\ length \in Seq(Lengths) /\ DOMAIN writing = Writers /\ DOMAIN sent = Writers
    BY LenProperties DEF TypeOK
  <1>c. \A w \in Writers : writing[w] # Idle =>
          /\ writing[w] \in 0 .. Len(length) - 1
          /\ sent[w] \in Nat
          /\ sent[w] \in 0 .. length[writing[w] + 1]
          /\ length[writing[w] + 1] \in Nat
    BY FragmentType, <1>b DEF TypeOK
  <1>d. Idle \notin Nat /\ MaxDataLen \in Nat
    BY SplitAssumption DEF Idle
  <1>1. ASSUME NEW w \in Writers, NEW n \in Lengths, WriteTo(w, n) PROVE StreamConserved'
    <2>1. /\ length' = Append(length, n) /\ writing[w] = Idle
          /\ writing' = [writing EXCEPT ![w] = Len(length)]
          /\ sent' = [sent EXCEPT ![w] = 0]
          /\ UNCHANGED <<exclusive, destroyed, wire, combine, data, delivered>>
      BY <1>1 DEF WriteTo
    <2>2. Stream' = Stream
      BY <2>1 DEF Stream
    <2>3. /\ Len(length') = Len(length) + 1
          /\ \A i \in 1 .. Len(length) : length'[i] = length[i]
      BY <2>1, <1>b, AppendProperties
    <2>4. \A v \in Writers : /\ writing'[v] = IF v = w THEN Len(length) ELSE writing[v]
                             /\ sent'[v] = IF v = w THEN 0 ELSE sent[v]
      BY <2>1, <1>b
    <2>5. Carries(Stream, Len(length), 0)
      <3>1. \A i \in 1 .. Len(Stream) : Stream[i][1] # Len(length)
        BY <1>a, <1>b
      <3> QED BY <3>1, CarriesNone
    <2>6. \A i \in 1 .. Len(Stream') : Stream'[i][1] < Len(length')
      <3>1. Stream \in Seq(Byte)
        BY StreamType, StreamDef DEF TypeOK, Fragments
      <3>2. \A i \in 1 .. Len(Stream) : Stream[i][1] \in Nat
        <4> TAKE i \in 1 .. Len(Stream)
        <4>1. Stream[i] \in Byte
          BY <3>1, ElementOfSeq
        <4> QED BY <4>1 DEF Byte
      <3> QED BY <3>2, <2>2, <2>3, <1>a, <1>b
    <2>7. \A v \in Writers : writing'[v] # Idle => Carries(Stream', writing'[v], sent'[v])
      BY <2>2, <2>4, <2>5, <1>a
    <2>8. ASSUME NEW p \in 0 .. Len(length') - 1, \A v \in Writers : writing'[v] # p
          PROVE  \/ Carries(Stream', p, length'[p + 1])
                 \/ destroyed' /\ \E k \in 0 .. length'[p + 1] : Carries(Stream', p, k)
      <3>1. p # Len(length)
        BY <2>4, <2>8
      <3>2. p \in 0 .. Len(length) - 1 /\ p + 1 \in 1 .. Len(length)
        BY <3>1, <2>3, <1>b
      <3>3. \A v \in Writers : writing[v] # p
        BY <2>1, <2>4, <2>8, <3>2, <1>d
      <3>4. length'[p + 1] = length[p + 1]
        BY <3>2, <2>3
      <3> QED BY <3>2, <3>3, <3>4, <2>1, <2>2, <1>a
    <2> QED BY <2>6, <2>7, <2>8 DEF StreamConserved
  <1>2. ASSUME NEW w \in Writers, WriteFragment(w) PROVE StreamConserved'
    <2>1. /\ writing[w] # Idle
          /\ wire' = Append(wire, Fragment(Bytes(writing[w], sent[w], sent[w] + MaxDataLen), TRUE))
          /\ sent' = [sent EXCEPT ![w] = sent[w] + MaxDataLen]
          /\ UNCHANGED <<exclusive, length, writing, destroyed, combine, data, delivered>>
      BY <1>2 DEF WriteFragment
    <2>2. PICK q \in Nat, s \in Nat, t \in Nat :
             q = writing[w] /\ s = sent[w] /\ t = sent[w] + MaxDataLen /\ s <= t /\ q < Len(length)
      BY <2>1, <1>b, <1>c, <1>d
    <2>3. wire' = Append(wire, Fragment(Bytes(q, s, t), TRUE)) /\ UNCHANGED <<delivered, data>>
      BY <2>1, <2>2
    <2>4. Stream' = Stream \o Bytes(q, s, t) /\ Stream \in Seq(Byte)
      BY <2>2, <2>3, StreamGrows
    <2>5. Carries(Stream', q, t)
      <3>1. Carries(Stream, q, s)
        BY <2>1, <2>2, <1>a
      <3> QED BY <2>2, <2>4, <3>1, CarriesMore
    <2>6. \A p, k : p # q /\ Carries(Stream, p, k) => Carries(Stream', p, k)
      BY <2>2, <2>4, CarriesSame
    <2>7. \A i \in 1 .. Len(Stream') : Stream'[i][1] < Len(length')
      BY <2>1, <2>2, <2>4, <1>a, <1>b, BytesOwner
    <2>8. \A v \in Writers : sent'[v] = IF v = w THEN t ELSE sent[v]
      BY <2>1, <2>2, <1>b
    <2>9. \A v \in Writers : writing'[v] # Idle => Carries(Stream', writing'[v], sent'[v])
      BY <2>1, <2>2, <2>5, <2>6, <2>8, <1>a DEF OwnInv
    <2>10. \A p \in 0 .. Len(length') - 1 : (\A v \in Writers : writing'[v] # p) =>
              \/ Carries(Stream', p, length'[p + 1])
              \/ destroyed' /\ \E n \in 0 .. length'[p + 1] : Carries(Stream', p, n)
      BY <2>1, <2>2, <2>6, <1>a
    <2> QED BY <2>7, <2>9, <2>10 DEF StreamConserved
  <1>3. ASSUME NEW w \in Writers, WriteLast(w) PROVE StreamConserved'
    <2>1. /\ writing[w] # Idle
          /\ wire' = Append(wire, Fragment(Bytes(writing[w], sent[w], sent[w] + Rest(w)), FALSE))
          /\ writing' = [writing EXCEPT ![w] = Idle]
          /\ UNCHANGED <<exclusive, length, sent, destroyed, combine, data, delivered>>
      BY <1>3 DEF WriteLast
    <2>2. PICK q \in Nat, s \in Nat, t \in Nat :
             /\ q = writing[w] /\ s = sent[w] /\ t = sent[w] + Rest(w) /\ s <= t /\ q < Len(length)
             /\ t = length[q + 1]
      BY <2>1, <1>b, <1>c, FragmentType
    <2>3. wire' = Append(wire, Fragment(Bytes(q, s, t), FALSE)) /\ UNCHANGED <<delivered, data>>
      BY <2>1, <2>2
    <2>4. Stream' = Stream \o Bytes(q, s, t) /\ Stream \in Seq(Byte)
      BY <2>2, <2>3, StreamGrows
    <2>5. Carries(Stream', q, t)
      <3>1. Carries(Stream, q, s)
        BY <2>1, <2>2, <1>a
      <3> QED BY <2>2, <2>4, <3>1, CarriesMore
    <2>6. \A p, k : p # q /\ Carries(Stream, p, k) => Carries(Stream', p, k)
      BY <2>2, <2>4, CarriesSame
    <2>7. \A i \in 1 .. Len(Stream') : Stream'[i][1] < Len(length')
      BY <2>1, <2>2, <2>4, <1>a, <1>b, BytesOwner
    <2>8. \A v \in Writers : writing'[v] = IF v = w THEN Idle ELSE writing[v]
      BY <2>1, <1>b
    <2>9. \A v \in Writers : writing'[v] # Idle => Carries(Stream', writing'[v], sent'[v])
      <3> TAKE v \in Writers
      <3> HAVE writing'[v] # Idle
      <3>1. v # w /\ writing'[v] = writing[v] /\ writing[v] # Idle /\ sent'[v] = sent[v]
        BY <2>1, <2>8
      <3>2. writing[v] # q /\ Carries(Stream, writing[v], sent[v])
        BY <3>1, <2>2, <1>a DEF OwnInv
      <3> QED BY <3>1, <3>2, <2>6
    <2>10. ASSUME NEW p \in 0 .. Len(length') - 1, \A v \in Writers : writing'[v] # p
           PROVE  \/ Carries(Stream', p, length'[p + 1])
                  \/ destroyed' /\ \E n \in 0 .. length'[p + 1] : Carries(Stream', p, n)
      <3>1. CASE p = q
        BY <3>1, <2>1, <2>2, <2>5
      <3>2. CASE p # q
        <4>1. \A v \in Writers : writing[v] # p
          BY <3>2, <2>2, <2>8, <2>10
        <4> QED BY <4>1, <3>2, <2>1, <2>6, <2>10, <1>a
      <3> QED BY <3>1, <3>2
    <2> QED BY <2>7, <2>9, <2>10 DEF StreamConserved
  <1>4. ASSUME NEW w \in Writers, WriteFails(w) PROVE StreamConserved'
    <2>1. /\ writing[w] # Idle /\ destroyed
          /\ writing' = [writing EXCEPT ![w] = Idle]
          /\ UNCHANGED <<exclusive, length, sent, destroyed, wire, combine, data, delivered>>
      BY <1>4 DEF WriteFails
    <2>2. Stream' = Stream
      BY <2>1 DEF Stream
    <2>3. \A v \in Writers : writing'[v] = IF v = w THEN Idle ELSE writing[v]
      BY <2>1, <1>b
    <2>4. ASSUME NEW p \in 0 .. Len(length') - 1, \A v \in Writers : writing'[v] # p
          PROVE  \/ Carries(Stream', p, length'[p + 1])
                 \/ destroyed' /\ \E n \in 0 .. length'[p + 1] : Carries(Stream', p, n)
      <3>1. CASE p = writing[w]
        <4>1. sent[w] \in 0 .. length[p + 1] /\ Carries(Stream, p, sent[w])
          BY <3>1, <2>1, <1>a, <1>c
        <4> QED BY <4>1, <2>1, <2>2
      <3>2. CASE p # writing[w]
        <4>1. \A v \in Writers : writing[v] # p
          BY <3>2, <2>3, <2>4
        <4> QED BY <4>1, <2>1, <2>2, <2>4, <1>a
      <3> QED BY <3>1, <3>2
    <2> QED BY <2>1, <2>2, <2>3, <2>4, <1>a DEF StreamConserved
  <1>5. CASE Destroy
    <2>1. UNCHANGED <<exclusive, length, writing, sent, wire, combine, data, delivered>>
          /\ ~destroyed
      BY <1>5 DEF Destroy
    <2>2. Stream' = Stream
      BY <2>1 DEF Stream
    <2> QED BY <2>1, <2>2, <1>a DEF StreamConserved
  <1>6. CASE Receive
    <2>1. UNCHANGED <<exclusive, length, writing, sent, destroyed>>
      BY <1>6 DEF Receive
    <2>2. Stream' = Stream
      BY <1>6, StreamReceive
    <2> QED BY <2>1, <2>2, <1>a DEF StreamConserved
  <1>7. CASE UNCHANGED vars
    <2>1. UNCHANGED <<length, writing, sent, destroyed, wire, data, delivered>>
      BY <1>7 DEF vars
    <2>2. Stream' = Stream
      BY <2>1 DEF Stream
    <2> QED BY <2>1, <2>2, <1>a DEF StreamConserved
  <1> QED BY <1>1, <1>2, <1>3, <1>4, <1>5, <1>6, <1>7 DEF Next

\* At first there is no byte and no payload.
LEMMA StreamInit == Init => DataInv /\ OwnInv /\ StreamConserved
  <1> SUFFICES ASSUME Init PROVE DataInv /\ OwnInv /\ StreamConserved
    OBVIOUS
  <1>1. /\ length = << >> /\ data = << >> /\ wire = << >> /\ delivered = << >>
        /\ \A w \in Writers : writing[w] = Idle
    BY DEF Init
  <1>2. Len(length) = 0 /\ << >> \in Seq(Byte)
    BY <1>1, EmptySeq
  <1>3. Stream = << >>
    <2>1. Stream = (<< >> \o << >>) \o << >>
      BY <1>1, StreamDef, FlattenEmpty, PiecesEmpty DEF StreamOf
    <2> QED BY <2>1, <1>2, ConcatEmptySeq
  <1>4. 1 .. Len(Stream) = {} /\ 0 .. Len(length) - 1 = {}
    BY <1>2, <1>3, EmptySeq
  <1> QED BY <1>1, <1>4 DEF DataInv, OwnInv, StreamConserved

\* Whoever writes, the reader's bytes of each payload are those written, in
\* their order, none twice and none made up, however the fragments of two
\* payloads get between each other.
THEOREM Conservation == Spec => []StreamConserved
  <1> DEFINE Inv == TypeOK /\ DataInv /\ OwnInv /\ StreamConserved
  <1>1. Init => Inv
    BY TypeInit, StreamInit
  <1>2. Inv /\ [Next]_vars => Inv'
    BY TypeStep, OwnStep, StreamStep
  <1>3. Inv => StreamConserved
    OBVIOUS
  <1> QED BY <1>1, <1>2, <1>3, PTL DEF Spec

-----------------------------------------------------------------------------
(***************************************************************************)
(* Payloads written one at a time.  The fragments on the wire continue     *)
(* what the reader has: the i-th is a stretch of payload who[i] that       *)
(* begins at its byte from[i], and the goroutine that is writing goes on   *)
(* where the last one ends.                                                *)
(***************************************************************************)

\* Fragment i of the row u, when the payloads have the lengths l.
Link(u, l, who, from, i) ==
  /\ who[i] < Len(l)
  /\ from[i] <= l[who[i] + 1]
  /\ \/ /\ u[i].split
        /\ who[i + 1] = who[i]
        /\ from[i + 1] = from[i] + MaxDataLen
        /\ from[i + 1] <= l[who[i] + 1]
        /\ u[i].bytes = Bytes(who[i], from[i], from[i + 1])
     \/ /\ ~u[i].split
        /\ who[i + 1] = who[i] + 1
        /\ from[i + 1] = 0
        /\ u[i].bytes = Bytes(who[i], from[i], l[who[i] + 1])

\* The row u begins at byte b of payload p and ends before byte e of payload q.
Row(u, l, p, b, q, e) ==
  \E who, from \in [1 .. Len(u) + 1 -> Nat] :
    /\ who[1] = p /\ from[1] = b
    /\ who[Len(u) + 1] = q /\ from[Len(u) + 1] = e
    /\ \A i \in 1 .. Len(u) : Link(u, l, who, from, i)

\* A row of no fragments ends where it begins.
LEMMA RowEmpty ==
  ASSUME NEW l, NEW p \in Nat, NEW b \in Nat
  PROVE  Row(<< >>, l, p, b, p, b)
  <1> DEFINE who == [i \in 1 .. 1 |-> p]
             from == [i \in 1 .. 1 |-> b]
  <1>1. Len(<< >>) + 1 = 1 /\ 1 .. Len(<< >>) = {}
    BY EmptySeq
  <1>2. who \in [1 .. 1 -> Nat] /\ from \in [1 .. 1 -> Nat] /\ who[1] = p /\ from[1] = b
    OBVIOUS
  <1> HIDE DEF who, from
  <1> QED BY <1>1, <1>2 DEF Row

\* One more payload: the row is the same.
LEMMA RowLonger ==
  ASSUME NEW u \in Seq(Fragments), NEW l \in Seq(Lengths), NEW n \in Lengths,
         NEW p, NEW b, NEW q, NEW e, Row(u, l, p, b, q, e)
  PROVE  Row(u, Append(l, n), p, b, q, e)
  <1>1. PICK who \in [1 .. Len(u) + 1 -> Nat], from \in [1 .. Len(u) + 1 -> Nat] :
          /\ who[1] = p /\ from[1] = b
          /\ who[Len(u) + 1] = q /\ from[Len(u) + 1] = e
          /\ \A i \in 1 .. Len(u) : Link(u, l, who, from, i)
    BY DEF Row
  <1> DEFINE k == Append(l, n)
  <1>2. Len(k) = Len(l) + 1 /\ Len(l) \in Nat /\ \A i \in 1 .. Len(l) : k[i] = l[i]
    BY AppendProperties, LenProperties
  <1>3. Len(u) \in Nat
    BY LenProperties
  <1> HIDE DEF k
  <1>4. ASSUME NEW i \in 1 .. Len(u) PROVE Link(u, k, who, from, i)
    <2>1. Link(u, l, who, from, i) /\ who[i] \in Nat
      <3>1. i \in 1 .. Len(u) + 1
        BY <1>3
      <3> QED BY <1>1, <3>1
    <2>2. who[i] < Len(k) /\ k[who[i] + 1] = l[who[i] + 1]
      <3>1. PICK j \in 1 .. Len(l) : j = who[i] + 1
        BY <2>1, <1>2 DEF Link
      <3> QED BY <2>1, <3>1, <1>2
    <2> QED BY <2>1, <2>2 DEF Link
  <1> QED BY <1>1, <1>4 DEF Row, k

\* A fragment sent at the end of the row.
LEMMA RowAppend ==
  ASSUME NEW u \in Seq(Fragments), NEW f \in Fragments, NEW l,
         NEW p, NEW b, NEW q \in Nat, NEW e \in Nat, Row(u, l, p, b, q, e),
         NEW q2 \in Nat, NEW e2 \in Nat,
         q < Len(l), e <= l[q + 1],
         \/ /\ f.split /\ q2 = q /\ e2 = e + MaxDataLen /\ e2 <= l[q + 1]
            /\ f.bytes = Bytes(q, e, e2)
         \/ /\ ~f.split /\ q2 = q + 1 /\ e2 = 0
            /\ f.bytes = Bytes(q, e, l[q + 1])
  PROVE  Row(Append(u, f), l, p, b, q2, e2)
  <1>1. PICK who \in [1 .. Len(u) + 1 -> Nat], from \in [1 .. Len(u) + 1 -> Nat] :
          /\ who[1] = p /\ from[1] = b
          /\ who[Len(u) + 1] = q /\ from[Len(u) + 1] = e
          /\ \A i \in 1 .. Len(u) : Link(u, l, who, from, i)
    BY DEF Row
  <1> DEFINE v == Append(u, f)
  <1>2. PICK n \in Nat : n = Len(u)
    BY LenProperties
  <1>3. Len(v) = n + 1 /\ v[n + 1] = f /\ \A i \in 1 .. n : v[i] = u[i]
    BY <1>2, AppendProperties
  <1> HIDE DEF v
  <1> DEFINE who2 == [i \in 1 .. n + 2 |-> IF i = n + 2 THEN q2 ELSE who[i]]
             from2 == [i \in 1 .. n + 2 |-> IF i = n + 2 THEN e2 ELSE from[i]]
  <1>4. /\ who2 \in [1 .. n + 2 -> Nat] /\ from2 \in [1 .. n + 2 -> Nat]
        /\ \A i \in 1 .. n + 1 : who2[i] = who[i] /\ from2[i] = from[i]
        /\ who2[n + 2] = q2 /\ from2[n + 2] = e2
    BY <1>1, <1>2
  <1> HIDE DEF who2, from2
  <1>5. ASSUME NEW i \in 1 .. n + 1 PROVE Link(v, l, who2, from2, i)
    <2>1. CASE i = n + 1
      <3>1. /\ v[i] = f /\ who2[i] = q /\ from2[i] = e
            /\ who2[i + 1] = q2 /\ from2[i + 1] = e2
        <4>1. i + 1 = n + 2 /\ n + 1 \in 1 .. n + 1
          BY <2>1
        <4> QED BY <4>1, <2>1, <1>1, <1>2, <1>3, <1>4
      <3> QED BY <3>1 DEF Link
    <2>2. CASE i # n + 1
      <3>1. i \in 1 .. n /\ i + 1 \in 1 .. n + 1
        BY <2>2
      <3>2. /\ v[i] = u[i] /\ who2[i] = who[i] /\ from2[i] = from[i]
            /\ who2[i + 1] = who[i + 1] /\ from2[i + 1] = from[i + 1]
        BY <3>1, <1>3, <1>4
      <3>3. Link(u, l, who, from, i)
        BY <3>1, <1>1, <1>2
      <3> QED BY <3>2, <3>3 DEF Link
    <2> QED BY <2>1, <2>2
  <1>6. Len(v) + 1 = n + 2 /\ 1 \in 1 .. n + 1
    BY <1>3
  <1>7. /\ who2[1] = p /\ from2[1] = b
        /\ who2[Len(v) + 1] = q2 /\ from2[Len(v) + 1] = e2
    BY <1>1, <1>4, <1>6
  <1>8. \A i \in 1 .. Len(v) : Link(v, l, who2, from2, i)
    BY <1>3, <1>5
  <1>9. Row(v, l, p, b, q2, e2)
    BY <1>4, <1>6, <1>7, <1>8 DEF Row
  <1> QED BY <1>9 DEF v

\* The first fragment taken from the row.
LEMMA RowTail ==
  ASSUME NEW u \in Seq(Fragments), u # << >>, NEW l,
         NEW p, NEW b, NEW q, NEW e, Row(u, l, p, b, q, e)
  PROVE  \E p2, b2 \in Nat :
           /\ Row(Tail(u), l, p2, b2, q, e)
           /\ p \in Nat /\ b \in Nat /\ p < Len(l) /\ b <= l[p + 1]
           /\ \/ /\ Head(u).split
                 /\ p2 = p /\ b2 = b + MaxDataLen /\ b2 <= l[p + 1]
                 /\ Head(u).bytes = Bytes(p, b, b2)
              \/ /\ ~Head(u).split
                 /\ p2 = p + 1 /\ b2 = 0
                 /\ Head(u).bytes = Bytes(p, b, l[p + 1])
  <1>1. PICK who \in [1 .. Len(u) + 1 -> Nat], from \in [1 .. Len(u) + 1 -> Nat] :
          /\ who[1] = p /\ from[1] = b
          /\ who[Len(u) + 1] = q /\ from[Len(u) + 1] = e
          /\ \A i \in 1 .. Len(u) : Link(u, l, who, from, i)
    BY DEF Row
  <1> DEFINE v == Tail(u)
  <1>2. PICK n \in Nat \ {0} : n = Len(u)
    BY EmptySeq
  <1>3. Len(v) = n - 1 /\ \A i \in 1 .. n - 1 : v[i] = u[i + 1]
    BY <1>2, HeadTailProperties
  <1>4. Head(u) = u[1]
    OBVIOUS
  <1> HIDE DEF v
  <1> DEFINE who2 == [i \in 1 .. n |-> who[i + 1]]
             from2 == [i \in 1 .. n |-> from[i + 1]]
  <1>5. who2 \in [1 .. n -> Nat] /\ from2 \in [1 .. n -> Nat]
    BY <1>1, <1>2
  <1>6. \A i \in 1 .. n : who2[i] = who[i + 1] /\ from2[i] = from[i + 1]
    OBVIOUS
  <1> HIDE DEF who2, from2
  <1>7. ASSUME NEW i \in 1 .. n - 1 PROVE Link(v, l, who2, from2, i)
    <2>1. PICK j \in 1 .. n : j = i + 1 /\ j \in 1 .. n - 1 + 1
      BY <1>2
    <2>2. i \in 1 .. n
      BY <1>2
    <2>3. /\ v[i] = u[j] /\ who2[i] = who[j] /\ from2[i] = from[j]
          /\ who2[i + 1] = who[j + 1] /\ from2[i + 1] = from[j + 1]
      BY <2>1, <2>2, <1>3, <1>6
    <2>4. Link(u, l, who, from, j)
      BY <2>1, <1>1, <1>2
    <2> QED BY <2>3, <2>4 DEF Link
  <1>8. Len(v) + 1 = n /\ 1 \in 1 .. n /\ n \in 1 .. n
    BY <1>2, <1>3
  <1>9. /\ who2[1] = who[2] /\ from2[1] = from[2]
        /\ who2[Len(v) + 1] = q /\ from2[Len(v) + 1] = e
    BY <1>1, <1>2, <1>6, <1>8
  <1>10. \A i \in 1 .. Len(v) : Link(v, l, who2, from2, i)
    BY <1>3, <1>7
  <1>11. Row(v, l, who[2], from[2], q, e)
    BY <1>5, <1>8, <1>9, <1>10 DEF Row
  <1>12. Link(u, l, who, from, 1) /\ who[2] \in Nat /\ from[2] \in Nat /\ p \in Nat /\ b \in Nat
    BY <1>1, <1>2
  <1>13. /\ p < Len(l) /\ b <= l[p + 1]
         /\ \/ /\ Head(u).split
               /\ who[2] = p /\ from[2] = b + MaxDataLen /\ from[2] <= l[p + 1]
               /\ Head(u).bytes = Bytes(p, b, from[2])
            \/ /\ ~Head(u).split
               /\ who[2] = p + 1 /\ from[2] = 0
               /\ Head(u).bytes = Bytes(p, b, l[p + 1])
    BY <1>1, <1>4, <1>12 DEF Link
  <1> QED BY <1>11, <1>12, <1>13 DEF v

\* The one goroutine in splitPacket has the newest payload.
AloneInv ==
  exclusive =>
    /\ \A v, w \in Writers : writing[v] # Idle /\ writing[w] # Idle => v = w
    /\ \A w \in Writers : writing[w] # Idle => writing[w] = Len(length) - 1

\* Where what is sent so far ends.
SentTo(q, e) ==
  /\ \A w \in Writers : writing[w] # Idle => q = writing[w] /\ e = sent[w]
  /\ (\A w \in Writers : writing[w] = Idle) => q = Len(length) /\ e = 0

\* The reader has whole payloads in the order written and the beginning of the
\* next, and the wire holds what follows.
OrderInv ==
  exclusive =>
    /\ Len(delivered) <= Len(length)
    /\ \A i \in 1 .. Len(delivered) : delivered[i] = Payload(i - 1)
    /\ data = Bytes(Len(delivered), 0, Len(data))
    /\ \E q, e \in Nat :
         /\ Row(wire, length, Len(delivered), Len(data), q, e)
         /\ ~destroyed => SentTo(q, e)

\* A goroutine begins when no other writes, with the newest payload.
LEMMA AloneStep == TypeOK /\ AloneInv /\ [Next]_vars => AloneInv'
  <1> SUFFICES ASSUME TypeOK, AloneInv, [Next]_vars, exclusive' PROVE AloneInv'
    BY DEF AloneInv
  <1>a. exclusive /\ exclusive' = exclusive
    BY DEF Next, WriteTo, WriteFragment, WriteLast, WriteFails, Destroy, Receive, vars
  <1>b. /\ \A v, w \in Writers : writing[v] # Idle /\ writing[w] # Idle => v = w
        /\ \A w \in Writers : writing[w] # Idle => writing[w] = Len(length) - 1
    BY <1>a DEF AloneInv
  <1>c. Len(length) \in Nat /\ DOMAIN writing = Writers /\ length \in Seq(Lengths)
    BY LenProperties DEF TypeOK
  <1>1. ASSUME NEW w \in Writers, NEW n \in Lengths, WriteTo(w, n) PROVE AloneInv'
    <2>1. /\ length' = Append(length, n)
          /\ writing' = [writing EXCEPT ![w] = Len(length)]
          /\ \A v \in Writers : writing[v] = Idle
      BY <1>1, <1>a DEF WriteTo
    <2>2. Len(length') = Len(length) + 1
      BY <2>1, <1>c, AppendProperties
    <2>3. \A v \in Writers : writing'[v] = IF v = w THEN Len(length) ELSE Idle
      BY <2>1, <1>c
    <2> QED BY <2>2, <2>3, <1>c DEF AloneInv
  <1>2. ASSUME NEW w \in Writers, WriteFragment(w) PROVE AloneInv'
    BY <1>2, <1>b DEF WriteFragment, AloneInv
  <1>3. ASSUME NEW w \in Writers, WriteLast(w) \/ WriteFails(w) PROVE AloneInv'
    <2>1. writing' = [writing EXCEPT ![w] = Idle] /\ length' = length
      BY <1>3 DEF WriteLast, WriteFails
    <2>2. \A v \in Writers : writing'[v] = IF v = w THEN Idle ELSE writing[v]
      BY <2>1, <1>c
    <2> QED BY <2>1, <2>2, <1>b DEF AloneInv
  <1>4. CASE Destroy
    BY <1>4, <1>b DEF Destroy, AloneInv
  <1>5. CASE Receive
    BY <1>5, <1>b DEF Receive, AloneInv
  <1>6. CASE UNCHANGED vars
    BY <1>6, <1>b DEF vars, AloneInv
  <1> QED BY <1>1, <1>2, <1>3, <1>4, <1>5, <1>6 DEF Next

\* A payload written before keeps its length.
LEMMA PayloadKept ==
  ASSUME TypeOK, NEW n \in Lengths, length' = Append(length, n)
  PROVE  \A i \in 1 .. Len(length) : Payload(i - 1)' = Payload(i - 1)
  <1>1. /\ length \in Seq(Lengths) /\ Len(length) \in Nat
        /\ \A i \in 1 .. Len(length) : Append(length, n)[i] = length[i]
    BY AppendProperties, LenProperties DEF TypeOK
  <1> TAKE i \in 1 .. Len(length)
  <1>2. length'[i] = length[i] /\ (i - 1) + 1 = i
    BY <1>1
  <1> QED BY <1>2 DEF Payload

\* What combinePacket makes of a fragment that continues the payload it is at.
LEMMA CombineNext ==
  ASSUME TypeOK, DataInv, NEW f \in Fragments, Combine(f),
         NEW p \in Nat, NEW b2 \in Nat, Len(data) <= b2,
         data = Bytes(p, 0, Len(data)), f.bytes = Bytes(p, Len(data), b2)
  PROVE  /\ f.split => delivered' = delivered /\ data' = Bytes(p, 0, b2)
         /\ ~f.split => delivered' = Append(delivered, Bytes(p, 0, b2)) /\ data' = << >>
  <1>1. PICK k \in Nat : k = Len(data)
    BY LenProperties DEF TypeOK
  <1>2. Bytes(p, 0, k) \o Bytes(p, k, b2) = Bytes(p, 0, b2)
    <2>1. 0 \in Nat /\ 0 <= k /\ k <= b2
      BY <1>1
    <2> QED BY <2>1, BytesConcat, ZenonT(30)
  <1>3. data \o f.bytes = Bytes(p, 0, b2)
    BY <1>1, <1>2
  <1>4. ~combine => data = << >> /\ f.bytes = Bytes(p, 0, b2)
    <2> SUFFICES ASSUME ~combine PROVE data = << >> /\ f.bytes = Bytes(p, 0, b2)
      OBVIOUS
    <2>1. data = << >>
      BY DEF DataInv
    <2>2. Len(data) = 0
      BY <2>1, EmptySeq
    <2> QED BY <2>1, <2>2
  <1> QED BY <1>3, <1>4 DEF Combine

\* Receiving keeps the order, and gives the reader at most the next payload.
LEMMA OrderReceive ==
  ASSUME TypeOK, DataInv, OrderInv, Receive, exclusive
  PROVE  /\ OrderInv'
         /\ \/ Len(delivered') = Len(delivered) /\ delivered' = delivered
            \/ /\ Len(delivered) < Len(length)
               /\ delivered' = Append(delivered, Payload(Len(delivered)))
  <1>1. /\ wire # << >> /\ Combine(Head(wire)) /\ wire' = Tail(wire)
        /\ UNCHANGED <<exclusive, length, writing, sent, destroyed>>
        /\ wire \in Seq(Fragments) /\ delivered \in Seq(Seq(Byte)) /\ data \in Seq(Byte)
    BY DEF Receive, TypeOK, Fragments
  <1>2. Head(wire) \in Fragments
    BY <1>1, HeadTailProperties
  <1>3. PICK q \in Nat, e \in Nat :
          /\ Row(wire, length, Len(delivered), Len(data), q, e)
          /\ ~destroyed => SentTo(q, e)
    BY DEF OrderInv
  <1>a. /\ Len(delivered) <= Len(length)
        /\ \A i \in 1 .. Len(delivered) : delivered[i] = Payload(i - 1)
        /\ data = Bytes(Len(delivered), 0, Len(data))
        /\ exclusive'
    BY <1>1 DEF OrderInv
  <1>4. PICK p \in Nat, b \in Nat : p = Len(delivered) /\ b = Len(data)
    BY <1>1, LenProperties
  <1>5. PICK p2 \in Nat, b2 \in Nat :
           /\ Row(Tail(wire), length, p2, b2, q, e)
           /\ p < Len(length) /\ b <= length[p + 1]
           /\ \/ /\ Head(wire).split
                 /\ p2 = p /\ b2 = b + MaxDataLen /\ b2 <= length[p + 1]
                 /\ Head(wire).bytes = Bytes(p, b, b2)
              \/ /\ ~Head(wire).split
                 /\ p2 = p + 1 /\ b2 = 0
                 /\ Head(wire).bytes = Bytes(p, b, length[p + 1])
    BY <1>1, <1>3, <1>4, RowTail, SMTT(15)
  <1>6. ~destroyed' => SentTo(q, e)'
    BY <1>1, <1>3 DEF SentTo
  <1>7. \A i \in Nat : Payload(i)' = Payload(i)
    BY <1>1 DEF Payload
  <1>8. Len(length) \in Nat /\ length[p + 1] \in Nat
    <2>1. length \in Seq(Lengths) /\ Len(length) \in Nat
      BY LenProperties DEF TypeOK
    <2>2. PICK j \in 1 .. Len(length) : j = p + 1
      BY <2>1, <1>5
    <2> QED BY <2>1, <2>2, ElementOfSeq, SplitAssumption
  <1>9. CASE Head(wire).split
    <2>1. /\ p2 = p /\ b <= b2
          /\ Head(wire).bytes = Bytes(p, b, b2)
      BY <1>5, <1>9, SplitAssumption
    <2>2. delivered' = delivered /\ data' = Bytes(p, 0, b2)
      BY <1>1, <1>2, <1>4, <1>9, <1>a, <2>1, CombineNext
    <2>3. Len(data') = b2
      <3>1. 0 \in Nat /\ 0 <= b2
        OBVIOUS
      <3>2. Len(Bytes(p, 0, b2)) = b2 - 0
        BY <3>1, BytesProperties
      <3> QED BY <2>2, <3>2
    <2>4. Row(wire', length', Len(delivered'), Len(data'), q, e)
      BY <1>1, <1>4, <1>5, <2>1, <2>2, <2>3
    <2>5. data' = Bytes(Len(delivered'), 0, Len(data'))
      BY <1>4, <2>2, <2>3
    <2>6. \A i \in 1 .. Len(delivered') : delivered'[i] = Payload(i - 1)'
      BY <1>4, <1>7, <1>a, <2>2
    <2>7. OrderInv'
      BY <1>1, <1>6, <1>a, <2>2, <2>4, <2>5, <2>6 DEF OrderInv
    <2> QED BY <2>2, <2>7
  <1>10. CASE ~Head(wire).split
    <2>1. /\ p2 = p + 1 /\ b2 = 0
          /\ Head(wire).bytes = Bytes(p, b, length[p + 1])
      BY <1>5, <1>10
    <2>2. delivered' = Append(delivered, Bytes(p, 0, length[p + 1])) /\ data' = << >>
      BY <1>1, <1>2, <1>4, <1>5, <1>8, <1>10, <1>a, <2>1, CombineNext
    <2>3. delivered' = Append(delivered, Payload(p))
      BY <2>2 DEF Payload
    <2>4. Payload(p) \in Seq(Byte)
      <3>1. PICK m \in Nat : m = length[p + 1] /\ 0 \in Nat /\ 0 <= m
        BY <1>8
      <3>2. Bytes(p, 0, m) \in Seq(Byte)
        BY <3>1, BytesProperties
      <3> QED BY <3>1, <3>2 DEF Payload
    <2>5. /\ Len(delivered') = p + 1 /\ delivered'[p + 1] = Payload(p)
          /\ \A i \in 1 .. p : delivered'[i] = delivered[i]
      <3> DEFINE B == Seq(Byte)
                 x == Payload(p)
      <3>1. delivered \in Seq(B) /\ x \in B
        BY <1>1, <2>4
      <3>2. delivered' = Append(delivered, x)
        BY <2>3
      <3> HIDE DEF B, x
      <3>3. /\ Len(delivered') = p + 1 /\ delivered'[p + 1] = x
            /\ \A i \in 1 .. p : delivered'[i] = delivered[i]
        BY <3>1, <3>2, <1>4, AppendProperties
      <3> QED BY <3>3 DEF x
    <2>6. Len(data') = 0 /\ data' = Bytes(Len(delivered'), 0, Len(data'))
      <3>1. Len(data') = 0 /\ data' \in Seq(Byte)
        BY <2>2, EmptySeq
      <3>2. PICK d \in Nat : d = Len(delivered')
        BY <2>5
      <3>3. Bytes(d, 0, 0) \in Seq(Byte) /\ Len(Bytes(d, 0, 0)) = 0
        <4>1. 0 \in Nat /\ 0 <= 0 /\ 0 - 0 = 0
          OBVIOUS
        <4> QED BY <4>1, BytesProperties
      <3>4. Bytes(d, 0, 0) = << >>
        BY <3>3, EmptySeq
      <3> QED BY <2>2, <3>1, <3>2, <3>4
    <2>7. Row(wire', length', Len(delivered'), Len(data'), q, e)
      BY <1>1, <1>5, <2>1, <2>5, <2>6
    <2>8. \A i \in 1 .. Len(delivered') : delivered'[i] = Payload(i - 1)'
      <3> TAKE i \in 1 .. Len(delivered')
      <3>1. CASE i = p + 1
        BY <3>1, <2>5, <1>7
      <3>2. CASE i # p + 1
        <4>1. i \in 1 .. p /\ i - 1 \in Nat
          BY <3>2, <2>5
        <4>2. delivered[i] = Payload(i - 1)
          BY <4>1, <1>4, <1>a
        <4> QED BY <4>1, <4>2, <2>5, <1>7
      <3> QED BY <3>1, <3>2
    <2>9. Len(delivered') <= Len(length')
      BY <1>1, <1>5, <1>8, <2>5
    <2>10. OrderInv'
      BY <1>1, <1>6, <1>a, <2>6, <2>7, <2>8, <2>9 DEF OrderInv
    <2> QED BY <2>3, <2>10, <1>4, <1>5
  <1> QED BY <1>9, <1>10

\* So does every other step.
LEMMA OrderStep ==
  TypeOK /\ DataInv /\ AloneInv /\ OrderInv /\ [Next]_vars => OrderInv'
  <1> SUFFICES ASSUME TypeOK, DataInv, AloneInv, OrderInv, [Next]_vars, exclusive'
               PROVE  OrderInv'
    BY DEF OrderInv
  <1>a. exclusive /\ exclusive' = exclusive
    BY DEF Next, WriteTo, WriteFragment, WriteLast, WriteFails, Destroy, Receive, vars
  <1>b. /\ Len(delivered) <= Len(length)
        /\ \A i \in 1 .. Len(delivered) : delivered[i] = Payload(i - 1)
        /\ data = Bytes(Len(delivered), 0, Len(data))
    BY <1>a DEF OrderInv
  <1>c. PICK q \in Nat, e \in Nat :
          /\ Row(wire, length, Len(delivered), Len(data), q, e)
          /\ ~destroyed => SentTo(q, e)
    BY <1>a DEF OrderInv
  <1>d. /\ Len(length) \in Nat /\ length \in Seq(Lengths) /\ wire \in Seq(Fragments)
        /\ DOMAIN writing = Writers /\ DOMAIN sent = Writers
        /\ Len(delivered) \in Nat /\ Len(data) \in Nat /\ MaxDataLen \in Nat
    BY LenProperties, SplitAssumption DEF TypeOK, Fragments
  <1>e. /\ \A v, w \in Writers : writing[v] # Idle /\ writing[w] # Idle => v = w
        /\ \A w \in Writers : writing[w] # Idle => writing[w] = Len(length) - 1
    BY <1>a DEF AloneInv
  <1>1. ASSUME NEW w \in Writers, NEW n \in Lengths, WriteTo(w, n) PROVE OrderInv'
    <2>1. /\ length' = Append(length, n)
          /\ writing' = [writing EXCEPT ![w] = Len(length)]
          /\ sent' = [sent EXCEPT ![w] = 0]
          /\ \A v \in Writers : writing[v] = Idle
          /\ UNCHANGED <<exclusive, destroyed, wire, combine, data, delivered>>
      BY <1>1, <1>a DEF WriteTo
    <2>2. Len(length') = Len(length) + 1
      BY <2>1, <1>d, AppendProperties
    <2>3. \A v \in Writers : /\ writing'[v] = IF v = w THEN Len(length) ELSE Idle
                             /\ sent'[v] = IF v = w THEN 0 ELSE sent[v]
      BY <2>1, <1>d
    <2>4. Row(wire', length', Len(delivered'), Len(data'), q, e)
      BY <2>1, <1>c, <1>d, RowLonger
    <2>5. ~destroyed' => SentTo(q, e)'
      <3> SUFFICES ASSUME ~destroyed PROVE SentTo(q, e)'
        BY <2>1
      <3>1. q = Len(length) /\ e = 0
        BY <2>1, <1>c DEF SentTo
      <3>2. writing'[w] # Idle
        BY <2>3, <1>d DEF Idle
      <3> QED BY <3>1, <3>2, <2>3 DEF SentTo
    <2>6. \A i \in 1 .. Len(delivered') : delivered'[i] = Payload(i - 1)'
      <3> TAKE i \in 1 .. Len(delivered')
      <3>1. i \in 1 .. Len(length) /\ delivered'[i] = Payload(i - 1)
        BY <2>1, <1>b, <1>d
      <3> QED BY <3>1, <2>1, PayloadKept
    <2>7. Len(delivered') <= Len(length') /\ data' = Bytes(Len(delivered'), 0, Len(data'))
      BY <2>1, <2>2, <1>b, <1>d
    <2> QED BY <2>4, <2>5, <2>6, <2>7 DEF OrderInv
  <1>2. ASSUME NEW w \in Writers, WriteFragment(w) PROVE OrderInv'
    <2> DEFINE f == Fragment(Bytes(writing[w], sent[w], sent[w] + MaxDataLen), TRUE)
    <2>1. /\ writing[w] # Idle /\ ~destroyed /\ Rest(w) > MaxDataLen
          /\ wire' = Append(wire, f)
          /\ sent' = [sent EXCEPT ![w] = sent[w] + MaxDataLen]
          /\ UNCHANGED <<exclusive, length, writing, destroyed, combine, data, delivered>>
      BY <1>2 DEF WriteFragment
    <2>2. q = writing[w] /\ e = sent[w]
      BY <2>1, <1>c DEF SentTo
    <2>3. PICK e2 \in Nat : e2 = e + MaxDataLen /\ e <= e2
      BY <1>d
    <2>4. /\ q < Len(length) /\ e <= length[q + 1] /\ e2 <= length[q + 1]
      BY <2>1, <2>2, <2>3, <1>d, FragmentType DEF TypeOK
    <2>5. f \in Fragments /\ f.split /\ f.bytes = Bytes(q, e, e2)
      <3> DEFINE t == Bytes(q, e, e2)
      <3>1. t \in Seq(Byte)
        BY <2>3, BytesProperties
      <3>2. f = [bytes |-> t, split |-> TRUE]
        BY <2>2, <2>3 DEF Fragment
      <3> HIDE DEF t, f
      <3>3. f \in Fragments /\ f.split /\ f.bytes = t
        BY <3>1, <3>2 DEF Fragments
      <3> QED BY <3>3 DEF t
    <2>6. Row(Append(wire, f), length, Len(delivered), Len(data), q, e2)
      <3> HIDE DEF f
      <3> QED BY <1>c, <1>d, <2>3, <2>4, <2>5, RowAppend
    <2>7. Row(wire', length', Len(delivered'), Len(data'), q, e2)
      BY <2>1, <2>6
    <2>8. SentTo(q, e2)'
      <3>1. sent'[w] = e2 /\ writing' = writing /\ \A v \in Writers : writing[v] # Idle => v = w
        BY <2>1, <2>2, <2>3, <1>d, <1>e
      <3> QED BY <3>1, <2>1, <2>2 DEF SentTo
    <2>9. \A i \in 1 .. Len(delivered') : delivered'[i] = Payload(i - 1)'
      BY <2>1, <1>b DEF Payload
    <2> QED BY <2>1, <2>7, <2>8, <2>9, <1>b DEF OrderInv
  <1>3. ASSUME NEW w \in Writers, WriteLast(w) PROVE OrderInv'
    <2> DEFINE f == Fragment(Bytes(writing[w], sent[w], sent[w] + Rest(w)), FALSE)
    <2>1. /\ writing[w] # Idle /\ ~destroyed
          /\ wire' = Append(wire, f)
          /\ writing' = [writing EXCEPT ![w] = Idle]
          /\ UNCHANGED <<exclusive, length, sent, destroyed, combine, data, delivered>>
      BY <1>3 DEF WriteLast
    <2>2. q = writing[w] /\ e = sent[w]
      BY <2>1, <1>c DEF SentTo
    <2>3. /\ q < Len(length) /\ e <= length[q + 1] /\ length[q + 1] = sent[w] + Rest(w)
          /\ length[q + 1] \in Nat
      BY <2>1, <2>2, <1>d, FragmentType DEF TypeOK
    <2>4. f \in Fragments /\ ~f.split /\ f.bytes = Bytes(q, e, length[q + 1])
      <3> DEFINE t == Bytes(q, e, length[q + 1])
      <3>1. t \in Seq(Byte)
        BY <2>3, BytesProperties
      <3>2. f = [bytes |-> t, split |-> FALSE]
        BY <2>2, <2>3 DEF Fragment
      <3> HIDE DEF t, f
      <3>3. f \in Fragments /\ ~f.split /\ f.bytes = t
        BY <3>1, <3>2 DEF Fragments
      <3> QED BY <3>3 DEF t
    <2>5. Row(Append(wire, f), length, Len(delivered), Len(data), q + 1, 0)
      <3> HIDE DEF f
      <3>1. q + 1 \in Nat /\ 0 \in Nat
        OBVIOUS
      <3> QED BY <1>c, <1>d, <2>3, <2>4, <3>1, RowAppend
    <2>6. Row(wire', length', Len(delivered'), Len(data'), q + 1, 0)
      BY <2>1, <2>5
    <2>7. SentTo(q + 1, 0)'
      <3>1. \A v \in Writers : writing'[v] = Idle
        BY <2>1, <1>d, <1>e
      <3>2. q + 1 = Len(length')
        BY <2>1, <2>2, <1>d, <1>e
      <3> QED BY <3>1, <3>2 DEF SentTo
    <2>8. \A i \in 1 .. Len(delivered') : delivered'[i] = Payload(i - 1)'
      BY <2>1, <1>b DEF Payload
    <2>9. q + 1 \in Nat /\ 0 \in Nat
      OBVIOUS
    <2> QED BY <2>1, <2>6, <2>7, <2>8, <2>9, <1>b DEF OrderInv
  <1>4. CASE Destroy \/ (\E w \in Writers : WriteFails(w)) \/ UNCHANGED vars
    <2>1. /\ UNCHANGED <<exclusive, length, sent, wire, data, delivered>>
          /\ ~destroyed' => ~destroyed /\ writing' = writing
      <3>1. CASE Destroy
        BY <3>1 DEF Destroy
      <3>2. CASE \E w \in Writers : WriteFails(w)
        <4>1. PICK w \in Writers : WriteFails(w)
          BY <3>2
        <4>2. /\ destroyed /\ destroyed' = destroyed
              /\ UNCHANGED <<exclusive, length, sent, wire, data, delivered>>
          BY <4>1 DEF WriteFails
        <4>3. destroyed'
          BY <4>2
        <4> QED BY <4>2, <4>3
      <3>3. CASE UNCHANGED vars
        BY <3>3 DEF vars
      <3> QED BY <1>4, <3>1, <3>2, <3>3
    <2>2. ~destroyed' => SentTo(q, e)'
      BY <2>1, <1>c DEF SentTo
    <2>3. \A i \in 1 .. Len(delivered') : delivered'[i] = Payload(i - 1)'
      BY <2>1, <1>b DEF Payload
    <2>4. Row(wire', length', Len(delivered'), Len(data'), q, e)
      BY <2>1, <1>c
    <2> QED BY <2>1, <2>2, <2>3, <2>4, <1>b DEF OrderInv
  <1>5. CASE Receive
    BY <1>5, <1>a, OrderReceive
  <1> QED BY <1>1, <1>2, <1>3, <1>4, <1>5 DEF Next

\* At first nothing is written.
LEMMA OrderInit == Init => AloneInv /\ OrderInv
  <1> SUFFICES ASSUME Init PROVE AloneInv /\ OrderInv
    OBVIOUS
  <1>1. /\ length = << >> /\ data = << >> /\ wire = << >> /\ delivered = << >>
        /\ \A w \in Writers : writing[w] = Idle
    BY DEF Init
  <1>2. Len(length) = 0 /\ Len(data) = 0 /\ Len(delivered) = 0
    BY <1>1, EmptySeq
  <1>3. data = Bytes(Len(delivered), 0, Len(data))
    <2>1. Bytes(0, 0, 0) \in Seq(Byte) /\ Len(Bytes(0, 0, 0)) = 0
      BY BytesProperties
    <2>2. Bytes(0, 0, 0) = << >>
      BY <2>1, EmptySeq
    <2> QED BY <2>2, <1>1, <1>2
  <1>4. Row(wire, length, Len(delivered), Len(data), 0, 0)
    BY <1>1, <1>2, RowEmpty
  <1>5. SentTo(0, 0)
    BY <1>1, <1>2 DEF SentTo
  <1> QED BY <1>1, <1>2, <1>3, <1>4, <1>5 DEF AloneInv, OrderInv

\* The inductive invariant of the two results below.
AllInv == TypeOK /\ DataInv /\ OwnInv /\ AloneInv /\ OrderInv

\* It holds always.
LEMMA AllInvariant == Spec => []AllInv
  <1>1. Init => AllInv
    BY TypeInit, StreamInit, OrderInit DEF AllInv
  <1>2. AllInv /\ [Next]_vars => AllInv'
    BY TypeStep, OwnStep, AloneStep, OrderStep DEF AllInv
  <1> QED BY <1>1, <1>2, PTL DEF Spec

\* Payloads written one at a time reach the reader whole.
THEOREM Whole == Spec => []WholeWhenExclusive
  <1>1. AllInv => WholeWhenExclusive
    <2> SUFFICES ASSUME AllInv, exclusive, NEW i \in 1 .. Len(delivered)
                 PROVE  \E p \in 0 .. Len(length) - 1 : delivered[i] = Payload(p)
      BY DEF WholeWhenExclusive, WholePayloads
    <2>1. /\ Len(delivered) <= Len(length) /\ delivered[i] = Payload(i - 1)
          /\ Len(delivered) \in Nat /\ Len(length) \in Nat
      BY LenProperties DEF AllInv, OrderInv, TypeOK
    <2>2. i - 1 \in 0 .. Len(length) - 1
      BY <2>1
    <2> QED BY <2>1, <2>2
  <1> QED BY <1>1, AllInvariant, PTL

\* As the abstract FIFO of ReliableFifo says of packets, so for payloads of any
\* length: those written one at a time are delivered whole, in the order
\* written, each once, and none before it was written.
THEOREM FifoRefinement == Spec => ImplementsFifo
  <1> DEFINE Named1 == [i \in 1 .. Len(delivered) |-> Named(i)]
  <1>1. Init => (exclusive => Fifo!FifoInit)
    <2> SUFFICES ASSUME Init PROVE Fifo!FifoInit
      OBVIOUS
    <2>1. length = << >> /\ delivered = << >>
      BY DEF Init
    <2>2. Len(length) = 0 /\ Len(delivered) = 0
      BY <2>1, EmptySeq
    <2>3. [i \in 1 .. Len(delivered) |-> Named(i)] = << >>
      BY <2>2
    <2> QED BY <2>2, <2>3 DEF Fifo!FifoInit
  <1>2. AllInv /\ AllInv' /\ [Next]_vars => [exclusive => Fifo!FifoNext]_<<length, delivered>>
    <2> SUFFICES ASSUME AllInv, AllInv', [Next]_vars, exclusive,
                        ~UNCHANGED <<length, delivered>>
                 PROVE  Fifo!FifoNext
      OBVIOUS
    <2>a. exclusive'
      BY DEF Next, WriteTo, WriteFragment, WriteLast, WriteFails, Destroy, Receive, vars
    <2>1. /\ Len(delivered) \in Nat /\ Len(length) \in Nat /\ length \in Seq(Lengths)
          /\ Len(delivered) <= Len(length)
          /\ \A i \in 1 .. Len(delivered) : Named(i) = i - 1
      <3>1. TypeOK /\ OrderInv
        BY DEF AllInv
      <3>2. Len(delivered) \in Nat /\ Len(length) \in Nat /\ length \in Seq(Lengths)
        BY <3>1, LenProperties DEF TypeOK
      <3>3. Len(delivered) <= Len(length) /\ \A i \in 1 .. Len(delivered) : delivered[i] = Payload(i - 1)
        BY <3>1 DEF OrderInv
      <3>4. \A i \in 1 .. Len(delivered) : i <= Len(length)
        BY <3>2, <3>3
      <3>5. \A i \in 1 .. Len(delivered) : Named(i) = i - 1
        BY <3>3, <3>4 DEF Named
      <3> QED BY <3>2, <3>3, <3>5
    <2>2. /\ Len(delivered') \in Nat /\ Len(length') \in Nat
          /\ Len(delivered') <= Len(length')
          /\ \A i \in 1 .. Len(delivered') : Named(i)' = i - 1
      <3>1. TypeOK' /\ OrderInv'
        BY DEF AllInv
      <3>2. Len(delivered') \in Nat /\ Len(length') \in Nat
        BY <3>1, LenProperties DEF TypeOK
      <3>3. Len(delivered') <= Len(length') /\ \A i \in 1 .. Len(delivered') : delivered'[i] = Payload(i - 1)'
        BY <2>a, <3>1 DEF OrderInv
      <3>4. \A i \in 1 .. Len(delivered') : i <= Len(length')
        BY <3>2, <3>3
      <3>5. \A i \in 1 .. Len(delivered') : Named(i)' = i - 1
        BY <3>3, <3>4 DEF Named
      <3> QED BY <3>2, <3>3, <3>5
    <2>3. CASE \E w \in Writers, n \in Lengths : WriteTo(w, n)
      <3>1. PICK w \in Writers, n \in Lengths : WriteTo(w, n)
        BY <2>3
      <3>2. delivered' = delivered /\ length' = Append(length, n)
        BY <3>1 DEF WriteTo
      <3>3. Len(length') = Len(length) + 1
        BY <3>2, <2>1, AppendProperties
      <3>4. Named1' = Named1
        BY <3>2, <2>1, <2>2
      <3> QED BY <3>3, <3>4 DEF Fifo!FifoNext, Fifo!Accept
    <2>4. CASE Receive
      <3>1. /\ Len(delivered) < Len(length)
            /\ delivered' = Append(delivered, Payload(Len(delivered)))
            /\ length' = length
        <4>1. TypeOK /\ DataInv /\ OrderInv
          BY DEF AllInv
        <4>2. length' = length
          BY <2>4 DEF Receive
        <4> QED BY <4>1, <4>2, <2>4, OrderReceive
      <3>2. Len(delivered') = Len(delivered) + 1
        <4> DEFINE x == Payload(Len(delivered))
                   B == Seq(Byte)
        <4>1. delivered \in Seq(B) /\ delivered' \in Seq(B)
          BY DEF AllInv, TypeOK
        <4>2. delivered' = Append(delivered, x)
          BY <3>1
        <4> HIDE DEF x, B
        <4> QED BY <4>1, <4>2
      <3>3. PICK d \in Nat : d = Len(delivered)
        BY <2>1
      <3>4. Named1 = [i \in 1 .. d |-> i - 1] /\ Named1' = [i \in 1 .. d + 1 |-> i - 1]
        BY <3>2, <3>3, <2>1, <2>2
      <3>5. [i \in 1 .. d + 1 |-> i - 1] = Append([i \in 1 .. d |-> i - 1], d)
        <4> DEFINE s == [i \in 1 .. d |-> i - 1]
                   t == [i \in 1 .. d + 1 |-> i - 1]
        <4>1. s \in [1 .. d -> Nat] /\ t \in [1 .. d + 1 -> Nat] /\ d + 1 \in Nat
          OBVIOUS
        <4>2. s \in Seq(Nat) /\ t \in Seq(Nat)
          BY <4>1, SeqDef
        <4>3. Len(s) = d /\ Len(t) = d + 1
          BY <4>1, <4>2, LenProperties
        <4>4. \A i \in 1 .. d : s[i] = i - 1 /\ t[i] = i - 1
          OBVIOUS
        <4>5. t[d + 1] = d
          OBVIOUS
        <4> HIDE DEF s, t
        <4>6. PICK u : u = Append(s, d)
          OBVIOUS
        <4>7. /\ u \in Seq(Nat) /\ Len(u) = d + 1 /\ u[d + 1] = d
              /\ \A i \in 1 .. d : u[i] = s[i]
          BY <4>2, <4>3, <4>6, AppendProperties
        <4>8. \A i \in 1 .. d + 1 : t[i] = u[i]
          BY <4>4, <4>5, <4>7
        <4>9. t = u
          BY <4>2, <4>3, <4>7, <4>8, SeqEqual
        <4> QED BY <4>6, <4>9 DEF s, t
      <3>6. Len([i \in 1 .. d |-> i - 1]) = d
        <4>1. [i \in 1 .. d |-> i - 1] \in [1 .. d -> Nat]
          OBVIOUS
        <4> QED BY <4>1, SeqDef, LenProperties
      <3> QED BY <3>1, <3>3, <3>4, <3>5, <3>6 DEF Fifo!FifoNext, Fifo!Deliver
    <2>5. CASE ~Receive /\ ~\E w \in Writers, n \in Lengths : WriteTo(w, n)
      <3>1. UNCHANGED <<length, delivered>>
        BY <2>5 DEF Next, WriteFragment, WriteLast, WriteFails, Destroy, vars
      <3> QED BY <3>1
    <2> QED BY <2>3, <2>4, <2>5
  <1> QED BY <1>1, <1>2, AllInvariant, PTL DEF Spec, ImplementsFifo

=============================================================================
