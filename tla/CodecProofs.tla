---------------------------- MODULE CodecProofs -----------------------------
(***************************************************************************)
(* The octets of frames and fragments, for every block size, every payload *)
(* and every line: what is encoded is decoded, damage is noticed, and a    *)
(* reader that has lost its place on a serial line finds it again.  Then   *)
(* the fragments, for every list of objects: each is read where it stands, *)
(* padded, cut off or sent as events.                                      *)
(***************************************************************************)
EXTENDS Codecs, FrameStream, Integers, SequenceTheorems, FiniteSetTheorems,
        WellFoundedInduction, TLAPS

(* The arithmetic and the lemmas about lists of points.                     *)
App == INSTANCE AppObjectsProofs
           WITH Slots <- 1, Datum <- {}, MaxPoints <- 0, kind <- "binary", points <- <<>>

-----------------------------------------------------------------------------
(* Induction over the natural numbers, for a set in the place of a property.*)
LEMMA SmallestElement ==
  ASSUME NEW T \in SUBSET Nat, T # {}
  PROVE  \E x \in T : \A y \in T : x <= y
<1>1. PICK x \in T : \A y \in T : ~ (<<y, x>> \in OpToRel(<, Nat))
  BY NatLessThanWellFounded, WFMin
<1>2. ASSUME NEW y \in T PROVE x <= y
  <2>1. x \in Nat /\ y \in Nat  OBVIOUS
  <2>2. ~ (y < x)  BY <1>1, <2>1 DEF OpToRel
  <2> QED  BY <2>1, <2>2
<1> QED  BY <1>2

LEMMA SetInduction ==
  ASSUME NEW T, 0 \in T, \A n \in Nat : n \in T => n + 1 \in T
  PROVE  Nat \subseteq T
<1> SUFFICES ASSUME Nat \ T # {} PROVE FALSE
  OBVIOUS
<1>1. PICK x \in Nat \ T : \A y \in Nat \ T : x <= y
  BY SmallestElement
<1>2. x \in Nat /\ x # 0  OBVIOUS
<1>3. x - 1 \in Nat /\ x = (x - 1) + 1 /\ ~ (x <= x - 1)  BY <1>2
<1>4. x - 1 \in T  BY <1>1, <1>3
<1> QED  BY <1>1, <1>3, <1>4

(* A function that each value of which is made from the one before.         *)
Follows(f, n, base, step) ==
    f = [i \in 0 .. n |-> IF i = 0 THEN base ELSE step[i][f[i - 1]]]

LEMMA RecursionExists ==
  ASSUME NEW n \in Nat, NEW V, NEW base \in V, NEW step \in [1 .. n -> [V -> V]]
  PROVE  \E f \in [0 .. n -> V] : Follows(f, n, base, step)
<1> DEFINE T == {m \in Nat : m <= n =>
                   \E f \in [0 .. m -> V] : Follows(f, m, base, step)}
<1>1. 0 \in T
  <2> DEFINE f == [i \in 0 .. 0 |-> base]
  <2>1. f \in [0 .. 0 -> V] /\ Follows(f, 0, base, step)  BY DEF Follows
  <2> QED  BY <2>1
<1>2. ASSUME NEW m \in Nat, m \in T
      PROVE  m + 1 \in T
  <2> SUFFICES ASSUME m + 1 <= n
               PROVE  \E f \in [0 .. m + 1 -> V] : Follows(f, m + 1, base, step)
    OBVIOUS
  <2>1. PICK g \in [0 .. m -> V] : Follows(g, m, base, step)  BY <1>2
  <2>2. g[m] \in V /\ m + 1 \in 1 .. n  OBVIOUS
  <2> DEFINE f == [i \in 0 .. m + 1 |-> IF i = m + 1 THEN step[m + 1][g[m]] ELSE g[i]]
  <2>3. f \in [0 .. m + 1 -> V]  BY <2>2
  <2>4. ASSUME NEW i \in 0 .. m + 1
        PROVE  f[i] = IF i = 0 THEN base ELSE step[i][f[i - 1]]
    <3>1. CASE i = m + 1  BY <3>1
    <3>2. CASE i # m + 1
      <4>1. i \in 0 .. m /\ f[i] = g[i]  BY <3>2
      <4>2. g[i] = IF i = 0 THEN base ELSE step[i][g[i - 1]]
        BY <2>1, <4>1 DEF Follows
      <4>3. i # 0 => f[i - 1] = g[i - 1]  BY <4>1
      <4> QED  BY <4>1, <4>2, <4>3
    <3> QED  BY <3>1, <3>2
  <2> HIDE DEF f
  <2>5. f = [i \in 0 .. m + 1 |-> f[i]]  BY <2>3
  <2>6. Follows(f, m + 1, base, step)  BY <2>4, <2>5 DEF Follows
  <2> QED  BY <2>3, <2>6
<1> HIDE DEF T
<1>3. Nat \subseteq T  BY <1>1, <1>2, SetInduction
<1> QED  BY <1>3 DEF T

-----------------------------------------------------------------------------
(* Sequences put one after the other.                                       *)
FlatStep(f, ss, n) ==
    f = [i \in 1 .. n |-> IF i = 1 THEN ss[i] ELSE f[i - 1] \o ss[i]]

LEMMA FlatExists ==
  ASSUME NEW S, NEW n \in Nat, n > 0, NEW ss \in [1 .. n -> Seq(S)]
  PROVE  \E f \in [1 .. n -> Seq(S)] : FlatStep(f, ss, n)
<1> DEFINE step == [i \in 1 .. n |-> [v \in Seq(S) |-> v \o ss[i]]]
<1>1. step \in [1 .. n -> [Seq(S) -> Seq(S)]]  BY ConcatProperties
<1>2. <<>> \in Seq(S)  BY EmptySeq
<1> HIDE DEF step
<1>3. PICK f \in [0 .. n -> Seq(S)] : Follows(f, n, <<>>, step)
  BY <1>1, <1>2, RecursionExists
<1> DEFINE g == [i \in 1 .. n |-> f[i]]
<1>4. ASSUME NEW i \in 1 .. n
      PROVE  f[i] = IF i = 1 THEN ss[i] ELSE f[i - 1] \o ss[i]
  <2>1. f[i] = step[i][f[i - 1]]  BY <1>3 DEF Follows
  <2>2. f[i - 1] \in Seq(S)  OBVIOUS
  <2>3. f[i] = f[i - 1] \o ss[i]  BY <2>1, <2>2 DEF step
  <2>4. i = 1 => f[i - 1] = <<>>  BY <1>3 DEF Follows
  <2>5. i = 1 => f[i - 1] \o ss[i] = ss[i]  BY <2>4, ConcatEmptySeq
  <2> QED  BY <2>3, <2>5
<1>5. ASSUME NEW i \in 1 .. n
      PROVE  g[i] = IF i = 1 THEN ss[i] ELSE g[i - 1] \o ss[i]
  <2>1. i # 1 => g[i - 1] = f[i - 1]  OBVIOUS
  <2>2. g[i] = f[i]  OBVIOUS
  <2> QED  BY <1>4, <2>1, <2>2
<1>6. g \in [1 .. n -> Seq(S)]  OBVIOUS
<1> HIDE DEF g
<1>7. g = [i \in 1 .. n |-> g[i]]  BY DEF g
<1>8. FlatStep(g, ss, n)  BY <1>5, <1>7 DEF FlatStep
<1> QED  BY <1>6, <1>8

(* Any such function says what FlattenSeq is.                               *)
LEMMA FlatUnique ==
  ASSUME NEW S, NEW n \in Nat, NEW ss \in [1 .. n -> Seq(S)],
         NEW f, FlatStep(f, ss, n), NEW g, FlatStep(g, ss, n), NEW i \in 1 .. n
  PROVE  f[i] = g[i]
<1> DEFINE T == {m \in Nat : m \in 1 .. n => f[m] = g[m]}
<1>1. 0 \in T  OBVIOUS
<1>2. ASSUME NEW m \in Nat, m \in T
      PROVE  m + 1 \in T
  <2> SUFFICES ASSUME m + 1 \in 1 .. n PROVE f[m + 1] = g[m + 1]
    OBVIOUS
  <2>1. /\ f[m + 1] = IF m + 1 = 1 THEN ss[m + 1] ELSE f[(m + 1) - 1] \o ss[m + 1]
        /\ g[m + 1] = IF m + 1 = 1 THEN ss[m + 1] ELSE g[(m + 1) - 1] \o ss[m + 1]
    BY DEF FlatStep
  <2>2. (m + 1) - 1 = m  OBVIOUS
  <2>3. CASE m = 0  BY <2>1, <2>3
  <2>4. CASE m # 0
    <3>1. f[m] = g[m]  BY <1>2, <2>4
    <3> QED  BY <2>1, <2>2, <3>1
  <2> QED  BY <2>3, <2>4
<1> HIDE DEF T
<1>3. Nat \subseteq T  BY <1>1, <1>2, SetInduction
<1> QED  BY <1>3 DEF T

LEMMA FlattenIs ==
  ASSUME NEW S, NEW n \in Nat, n > 0, NEW ss \in [1 .. n -> Seq(S)],
         NEW f, FlatStep(f, ss, n)
  PROVE  FlattenSeq(ss) = f[n]
<1> DEFINE flatten[i \in 1 .. n] == IF i = 1 THEN ss[i] ELSE flatten[i - 1] \o ss[i]
<1>1. Len(ss) = n  OBVIOUS
<1>2. FlattenSeq(ss) = flatten[n]  BY <1>1 DEF FlattenSeq
<1>3. flatten = [i \in 1 .. n |-> IF i = 1 THEN ss[i] ELSE flatten[i - 1] \o ss[i]]
  <2>1. f = [i \in 1 .. n |-> IF i = 1 THEN ss[i] ELSE f[i - 1] \o ss[i]]
    BY DEF FlatStep
  <2> QED  BY <2>1, Zenon
<1> HIDE DEF flatten
<1>4. FlatStep(flatten, ss, n)  BY <1>3 DEF FlatStep
<1>5. n \in 1 .. n  OBVIOUS
<1>6. flatten[n] = f[n]  BY <1>4, <1>5, FlatUnique
<1> QED  BY <1>2, <1>6

(* An element put before a sequence.                                        *)
LEMMA Joined ==
  ASSUME NEW E, NEW a \in Seq(E), Len(a) = 1, NEW b \in Seq(E), NEW n \in Nat, Len(b) = n
  PROVE  /\ a \o b \in Seq(E) /\ Len(a \o b) = n + 1
         /\ \A i \in 1 .. n + 1 : (a \o b)[i] = IF i <= 1 THEN a[i] ELSE b[i - 1]
<1>1. a \o b \in Seq(E)  BY ConcatProperties
<1>2. Len(a \o b) = n + 1  BY ConcatProperties
<1>3. ASSUME NEW i \in 1 .. n + 1
      PROVE  (a \o b)[i] = IF i <= 1 THEN a[i] ELSE b[i - 1]
  <2>1. i \in 1 .. 1 + n  OBVIOUS
  <2>2. \A j \in 1 .. Len(a) + Len(b) :
           (a \o b)[j] = IF j <= Len(a) THEN a[j] ELSE b[j - Len(a)]
    BY ConcatProperties, Zenon
  <2>3. i \in 1 .. Len(a) + Len(b)  BY <2>1
  <2>4. (a \o b)[i] = IF i <= Len(a) THEN a[i] ELSE b[i - Len(a)]
    BY <2>2, <2>3, Zenon
  <2> QED  BY <2>4
<1> QED  BY <1>1, <1>2, <1>3

LEMMA Regrouped ==
  ASSUME NEW E, NEW a \in Seq(E)
  PROVE  \A b, c \in Seq(E) : a \o (b \o c) = (a \o b) \o c
<1> TAKE b, c \in Seq(E)
<1>1. (a \o b) \o c = a \o (b \o c)  BY ConcatAssociative
<1> QED  BY <1>1

LEMMA FlattenEmpty == FlattenSeq(<<>>) = <<>>
BY DEF FlattenSeq

(* A sequence of sequences, as a function that the lemmas above are about.  *)
LEMMA SeqOfSeqs ==
  ASSUME NEW S, NEW ss \in Seq(Seq(S))
  PROVE  /\ Len(ss) \in Nat /\ DOMAIN ss = 1 .. Len(ss)
         /\ ss \in [1 .. Len(ss) -> Seq(S)]
         /\ Len(ss) = 0 => ss = <<>>
OBVIOUS

LEMMA FlattenType ==
  ASSUME NEW S, NEW ss \in Seq(Seq(S))
  PROVE  FlattenSeq(ss) \in Seq(S)
<1> DEFINE n == Len(ss)
<1>1. n \in Nat /\ ss \in [1 .. n -> Seq(S)] /\ (n = 0 => ss = <<>>)  BY SeqOfSeqs
<1>2. CASE n = 0  BY <1>1, <1>2, FlattenEmpty, EmptySeq
<1>3. CASE n > 0
  <2> HIDE DEF n
  <2>1. PICK f \in [1 .. n -> Seq(S)] : FlatStep(f, ss, n)  BY <1>1, <1>3, FlatExists
  <2>2. FlattenSeq(ss) = f[n]  BY <1>1, <1>3, <2>1, FlattenIs
  <2>3. n \in 1 .. n  BY <1>1, <1>3
  <2> QED  BY <2>1, <2>2, <2>3
<1> QED  BY <1>1, <1>2, <1>3

LEMMA FlattenCons ==
  ASSUME NEW S, NEW s \in Seq(S), NEW ss \in Seq(Seq(S))
  PROVE  FlattenSeq(<<s>> \o ss) = s \o FlattenSeq(ss)
<1> DEFINE n == Len(ss)
           t == <<s>> \o ss
<1>1. n \in Nat /\ ss \in [1 .. n -> Seq(S)] /\ (n = 0 => ss = <<>>)  BY SeqOfSeqs
<1>2. /\ t \in [1 .. n + 1 -> Seq(S)]
      /\ t[1] = s /\ \A i \in 1 .. n : t[i + 1] = ss[i]
  <2>1. <<s>> \in Seq(Seq(S)) /\ Len(<<s>>) = 1 /\ <<s>>[1] = s  OBVIOUS
  <2>2. /\ t \in Seq(Seq(S)) /\ Len(t) = n + 1
        /\ \A i \in 1 .. n + 1 : t[i] = IF i <= 1 THEN <<s>>[i] ELSE ss[i - 1]
    BY <1>1, <2>1, Joined
  <2>3. t \in [1 .. n + 1 -> Seq(S)]  BY <2>2, SeqOfSeqs
  <2> HIDE DEF t, n
  <2>4. 1 \in 1 .. n + 1 /\ \A i \in 1 .. n : /\ i + 1 \in 1 .. n + 1
                                               /\ ~ (i + 1 <= 1) /\ (i + 1) - 1 = i
    BY <1>1
  <2> QED  BY <2>1, <2>2, <2>3, <2>4
<1> HIDE DEF t
<1>3. CASE n = 0
  <2> DEFINE g == [i \in 1 .. 1 |-> s]
  <2> HIDE DEF n
  <2>0. 1 \in Nat /\ 1 > 0 /\ n + 1 = 1  BY <1>3
  <2>1. FlatStep(g, t, 1)
    <3>1. ASSUME NEW i \in 1 .. 1
          PROVE  g[i] = IF i = 1 THEN t[i] ELSE g[i - 1] \o t[i]
      <4>1. i = 1  OBVIOUS
      <4> QED  BY <1>2, <4>1
    <3>2. g = [i \in 1 .. 1 |-> g[i]]  OBVIOUS
    <3> HIDE DEF g
    <3> QED  BY <3>1, <3>2 DEF FlatStep
  <2>2. t \in [1 .. 1 -> Seq(S)]  BY <1>2, <2>0
  <2>3. FlattenSeq(t) = g[1]
    <3> HIDE DEF g
    <3> QED  BY <2>0, <2>1, <2>2, FlattenIs
  <2>4. g[1] = s  OBVIOUS
  <2>5. s \o FlattenSeq(ss) = s  BY <1>1, <1>3, FlattenEmpty, ConcatEmptySeq
  <2> QED  BY <2>3, <2>4, <2>5 DEF t
<1>4. CASE n > 0
  <2> HIDE DEF n
  <2>1. PICK f \in [1 .. n -> Seq(S)] : FlatStep(f, ss, n)  BY <1>1, <1>4, FlatExists
  <2>2. FlattenSeq(ss) = f[n]  BY <1>1, <1>4, <2>1, FlattenIs
  <2> DEFINE g == [i \in 1 .. n + 1 |-> IF i = 1 THEN s ELSE s \o f[i - 1]]
  <2>3. ASSUME NEW i \in 1 .. n + 1
        PROVE  g[i] = IF i = 1 THEN t[i] ELSE g[i - 1] \o t[i]
    <3>1. CASE i = 1  BY <3>1, <1>2
    <3>2. CASE i = 2
      <4>1. g[i] = s \o f[1]
        <5>1. ~ (i = 1) /\ i - 1 = 1  BY <3>2
        <5> QED  BY <5>1
      <4>2. f[1] = ss[1] /\ 1 \in 1 .. n  BY <2>1, <1>1, <1>4 DEF FlatStep
      <4>3. t[2] = ss[1]  BY <1>2, <4>2
      <4>4. g[1] = s  BY <1>1
      <4>5. ~ (i = 1) /\ i - 1 = 1  BY <3>2
      <4> HIDE DEF g
      <4> QED  BY <3>2, <4>1, <4>2, <4>3, <4>4, <4>5
    <3>3. CASE i > 2
      <4>1. i - 1 \in 1 .. n /\ i - 1 # 1 /\ i - 2 \in 1 .. n /\ (i - 1) - 1 = i - 2
            /\ i - 1 \in 1 .. n + 1
        BY <3>3, <1>1
      <4>2. f[i - 1] = f[i - 2] \o ss[i - 1]  BY <2>1, <4>1 DEF FlatStep
      <4>3. g[i] = s \o f[i - 1] /\ g[i - 1] = s \o f[i - 2]  BY <3>3, <4>1
      <4>4. t[i] = ss[i - 1]
        <5>1. (i - 1) + 1 = i  OBVIOUS
        <5> QED  BY <1>2, <4>1, <5>1
      <4>5. f[i - 2] \in Seq(S) /\ ss[i - 1] \in Seq(S)  BY <4>1, <1>1
      <4>6. \A a, b \in Seq(S) : s \o (a \o b) = (s \o a) \o b
        BY Regrouped, SMTT(30)
      <4> HIDE DEF g
      <4>7. ~ (i = 1)  BY <3>3
      <4> QED  BY <4>2, <4>3, <4>4, <4>5, <4>6, <4>7
    <3> QED  BY <3>1, <3>2, <3>3, <1>1
  <2>4. g[n + 1] = s \o f[n]  BY <1>1, <1>4
  <2>5. g = [i \in 1 .. n + 1 |-> g[i]]  OBVIOUS
  <2> HIDE DEF g
  <2>6. FlatStep(g, t, n + 1)  BY <2>3, <2>5 DEF FlatStep
  <2>7. n + 1 \in Nat /\ n + 1 > 0  BY <1>1
  <2>8. FlattenSeq(t) = g[n + 1]  BY <1>2, <2>6, <2>7, FlattenIs
  <2> QED  BY <2>2, <2>4, <2>8 DEF t
<1>5. n = 0 \/ n > 0  BY <1>1
<1> QED  BY <1>3, <1>4, <1>5 DEF t

LEMMA FlattenOne ==
  ASSUME NEW S, NEW s \in Seq(S)
  PROVE  FlattenSeq(<<s>>) = s
<1>1. <<>> \in Seq(Seq(S)) /\ <<s>> \in Seq(Seq(S))  OBVIOUS
<1>2. <<s>> \o <<>> = <<s>>  BY <1>1, ConcatEmptySeq
<1>3. FlattenSeq(<<s>> \o <<>>) = s \o <<>>  BY <1>1, FlattenCons, FlattenEmpty
<1> QED  BY <1>2, <1>3, ConcatEmptySeq

LEMMA FlattenConcat ==
  ASSUME NEW S, NEW ss \in Seq(Seq(S)), NEW tt \in Seq(Seq(S))
  PROVE  FlattenSeq(ss \o tt) = FlattenSeq(ss) \o FlattenSeq(tt)
<1> DEFINE Splits(xs) == FlattenSeq(xs \o tt) = FlattenSeq(xs) \o FlattenSeq(tt)
           T == {m \in Nat : \A xs \in Seq(Seq(S)) : Len(xs) = m => Splits(xs)}
<1>1. 0 \in T
  <2> SUFFICES ASSUME NEW xs \in Seq(Seq(S)), Len(xs) = 0 PROVE Splits(xs)
    OBVIOUS
  <2>1. xs = <<>>  BY SeqOfSeqs
  <2>2. <<>> \o tt = tt  BY ConcatEmptySeq
  <2>3. <<>> \o FlattenSeq(tt) = FlattenSeq(tt)  BY FlattenType, ConcatEmptySeq
  <2> QED  BY <2>1, <2>2, <2>3, FlattenEmpty
<1>2. ASSUME NEW m \in Nat, m \in T
      PROVE  m + 1 \in T
  <2> SUFFICES ASSUME NEW xs \in Seq(Seq(S)), Len(xs) = m + 1 PROVE Splits(xs)
    OBVIOUS
  <2> DEFINE x == Head(xs)
             rest == Tail(xs)
  <2>1. xs # <<>> /\ x \in Seq(S) /\ rest \in Seq(Seq(S)) /\ Len(rest) = m
    BY HeadTailProperties
  <2>2. xs = <<x>> \o rest
    <3>1. <<x>> \in Seq(Seq(S)) /\ Len(<<x>>) = 1 /\ <<x>>[1] = x  BY <2>1
    <3>2. /\ <<x>> \o rest \in Seq(Seq(S)) /\ Len(<<x>> \o rest) = m + 1
          /\ \A i \in 1 .. m + 1 :
                (<<x>> \o rest)[i] = IF i <= 1 THEN <<x>>[i] ELSE rest[i - 1]
      BY <2>1, <3>1, Joined
    <3>3. \A i \in 1 .. m : rest[i] = xs[i + 1]  BY <2>1, HeadTailProperties
    <3>4. xs[1] = x  OBVIOUS
    <3> DEFINE ys == <<x>> \o rest
    <3> HIDE DEF rest, x
    <3>5. ASSUME NEW i \in 1 .. m + 1
          PROVE  xs[i] = ys[i]
      <4>1. CASE i = 1  BY <3>1, <3>2, <3>4, <4>1
      <4>2. CASE i # 1
        <5>1. i - 1 \in 1 .. m /\ (i - 1) + 1 = i /\ ~ (i <= 1)  BY <4>2
        <5>2. rest[i - 1] = xs[i]  BY <3>3, <5>1
        <5> QED  BY <3>2, <5>1, <5>2
      <4> QED  BY <4>1, <4>2
    <3> HIDE DEF ys
    <3>6. ys \in Seq(Seq(S)) /\ Len(ys) = m + 1  BY <3>2 DEF ys
    <3> QED  BY <3>5, <3>6, SeqEqual DEF ys
  <2> HIDE DEF x, rest
  <2>3. Splits(rest)  BY <1>2, <2>1
  <2>4. <<x>> \in Seq(Seq(S)) /\ rest \o tt \in Seq(Seq(S))
    BY <2>1, ConcatProperties
  <2>5. xs \o tt = <<x>> \o (rest \o tt)
    BY <2>1, <2>2, <2>4, ConcatAssociative
  <2>6. FlattenSeq(xs \o tt) = x \o (FlattenSeq(rest) \o FlattenSeq(tt))
    <3>1. x \in Seq(S)  BY <2>1
    <3>2. FlattenSeq(<<x>> \o (rest \o tt)) = x \o FlattenSeq(rest \o tt)
      BY <2>4, <3>1, FlattenCons
    <3> QED  BY <2>3, <2>5, <3>2
  <2>7. FlattenSeq(xs) = x \o FlattenSeq(rest)  BY <2>1, <2>2, FlattenCons
  <2>8. FlattenSeq(rest) \in Seq(S) /\ FlattenSeq(tt) \in Seq(S)
    BY <2>1, FlattenType
  <2>9. \A a, b \in Seq(S) : x \o (a \o b) = (x \o a) \o b
    <3>1. x \in Seq(S)  BY <2>1
    <3> HIDE DEF Splits
    <3> QED  BY <3>1, Regrouped, SMTT(30)
  <2> QED  BY <2>6, <2>7, <2>8, <2>9
<1> HIDE DEF T
<1>3. Nat \subseteq T  BY <1>1, <1>2, SetInduction
<1>4. Len(ss) \in Nat  OBVIOUS
<1> QED  BY <1>3, <1>4 DEF T

-----------------------------------------------------------------------------
(* A part of a sequence.                                                    *)
LEMMA Part ==
  ASSUME NEW S, NEW s \in Seq(S), NEW m \in Nat, m > 0,
         NEW n \in Int, n <= Len(s), m <= n + 1
  PROVE  /\ SubSeq(s, m, n) \in Seq(S)
         /\ Len(SubSeq(s, m, n)) = n - m + 1
         /\ \A i \in 1 .. n - m + 1 : SubSeq(s, m, n)[i] = s[m + i - 1]
<1>1. \A i \in m .. n : s[i] \in S  OBVIOUS
<1>2. /\ SubSeq(s, m, n) \in Seq(S)
      /\ Len(SubSeq(s, m, n)) = IF m <= n THEN n - m + 1 ELSE 0
      /\ \A i \in 1 .. n - m + 1 : SubSeq(s, m, n)[i] = s[m + i - 1]
  BY <1>1, SubSeqProperties
<1>3. ~ (m <= n) => n - m + 1 = 0  OBVIOUS
<1> QED  BY <1>2, <1>3

(* Parts of one sequence followed by another.                               *)
LEMMA PartOfFirst ==
  ASSUME NEW s \in Seq(Octet), NEW t \in Seq(Octet), NEW m \in Nat, m > 0,
         NEW n \in Int, n <= Len(s), m <= n + 1
  PROVE  SubSeq(s \o t, m, n) = SubSeq(s, m, n)
<1> DEFINE c == s \o t
<1>1. /\ c \in Seq(Octet) /\ Len(c) = Len(s) + Len(t)
      /\ \A i \in 1 .. Len(s) + Len(t) : c[i] = IF i <= Len(s) THEN s[i] ELSE t[i - Len(s)]
  BY ConcatProperties
<1> HIDE DEF c
<1>2. Len(s) \in Nat /\ Len(t) \in Nat  OBVIOUS
<1>3. /\ SubSeq(c, m, n) \in Seq(Octet) /\ Len(SubSeq(c, m, n)) = n - m + 1
      /\ \A i \in 1 .. n - m + 1 : SubSeq(c, m, n)[i] = c[m + i - 1]
  <2>1. n <= Len(c)  BY <1>1, <1>2
  <2> QED  BY <1>1, <2>1, Part
<1>4. /\ SubSeq(s, m, n) \in Seq(Octet) /\ Len(SubSeq(s, m, n)) = n - m + 1
      /\ \A i \in 1 .. n - m + 1 : SubSeq(s, m, n)[i] = s[m + i - 1]
  BY Part
<1>5. ASSUME NEW i \in 1 .. n - m + 1
      PROVE  SubSeq(c, m, n)[i] = SubSeq(s, m, n)[i]
  <2>1. m + i - 1 \in 1 .. Len(s) + Len(t) /\ m + i - 1 <= Len(s)  BY <1>2
  <2> QED  BY <1>1, <1>3, <1>4, <2>1
<1>6. SubSeq(c, m, n) = SubSeq(s, m, n)  BY <1>3, <1>4, <1>5, SeqEqual
<1> QED  BY <1>6 DEF c

LEMMA PartOfSecond ==
  ASSUME NEW s \in Seq(Octet), NEW t \in Seq(Octet), NEW m \in Nat, m > 0,
         NEW n \in Int, n <= Len(t), m <= n + 1,
         NEW first, first = Len(s) + m, NEW last, last = Len(s) + n
  PROVE  SubSeq(s \o t, first, last) = SubSeq(t, m, n)
<1> DEFINE k == Len(s)
<1>0. k \in Nat /\ k = Len(s) /\ first = k + m /\ last = k + n  OBVIOUS
<1> HIDE DEF k
<1> SUFFICES SubSeq(s \o t, k + m, k + n) = SubSeq(t, m, n)
  BY <1>0
<1> DEFINE c == s \o t
<1>1. /\ c \in Seq(Octet) /\ Len(c) = k + Len(t)
      /\ \A i \in 1 .. k + Len(t) : c[i] = IF i <= k THEN s[i] ELSE t[i - k]
  BY <1>0, ConcatProperties
<1> HIDE DEF c
<1>2. Len(t) \in Nat /\ k \in Nat  BY <1>0
<1>3. /\ SubSeq(c, k + m, k + n) \in Seq(Octet) /\ Len(SubSeq(c, k + m, k + n)) = n - m + 1
      /\ \A i \in 1 .. n - m + 1 : SubSeq(c, k + m, k + n)[i] = c[(k + m) + i - 1]
  <2>1. /\ k + n <= Len(c) /\ k + m \in Nat /\ k + m > 0 /\ k + n \in Int
        /\ k + m <= (k + n) + 1 /\ (k + n) - (k + m) + 1 = n - m + 1
    BY <1>1, <1>2
  <2> DEFINE km == k + m
             kn == k + n
  <2> HIDE DEF km, kn
  <2>2. /\ SubSeq(c, km, kn) \in Seq(Octet) /\ Len(SubSeq(c, km, kn)) = kn - km + 1
        /\ \A i \in 1 .. kn - km + 1 : SubSeq(c, km, kn)[i] = c[km + i - 1]
    <3>1. km \in Nat /\ km > 0 /\ kn \in Int /\ kn <= Len(c) /\ km <= kn + 1
      BY <2>1 DEF km, kn
    <3> QED  BY <1>1, <3>1, Part
  <2> QED  BY <2>1, <2>2 DEF km, kn
<1>4. /\ SubSeq(t, m, n) \in Seq(Octet) /\ Len(SubSeq(t, m, n)) = n - m + 1
      /\ \A i \in 1 .. n - m + 1 : SubSeq(t, m, n)[i] = t[m + i - 1]
  BY Part
<1>5. ASSUME NEW i \in 1 .. n - m + 1
      PROVE  SubSeq(c, k + m, k + n)[i] = SubSeq(t, m, n)[i]
  <2>1. /\ (k + m) + i - 1 \in 1 .. k + Len(t) /\ ~ ((k + m) + i - 1 <= k)
        /\ (k + m) + i - 1 - k = m + i - 1
    BY <1>2
  <2>2. SubSeq(c, k + m, k + n)[i] = c[(k + m) + i - 1]  BY <1>3
  <2>3. SubSeq(t, m, n)[i] = t[m + i - 1]  BY <1>4
  <2> DEFINE j == (k + m) + i - 1
  <2>4. j \in 1 .. k + Len(t) /\ ~ (j <= k) /\ j - k = m + i - 1
    <3>1. j = (k + m) + i - 1  OBVIOUS
    <3> HIDE DEF j
    <3> QED  BY <1>2, <3>1
  <2> HIDE DEF j
  <2>5. c[j] = t[j - k]  BY <1>1, <2>4
  <2> QED  BY <2>2, <2>3, <2>4, <2>5 DEF j
<1>6. SubSeq(c, k + m, k + n) = SubSeq(t, m, n)  BY <1>3, <1>4, <1>5, SeqEqual
<1> QED  BY <1>6 DEF c

(* What stands between two others.                                          *)
LEMMA Middle ==
  ASSUME NEW a \in Seq(Octet), NEW b \in Seq(Octet), NEW c \in Seq(Octet),
         NEW m \in Nat, m > 0, NEW n \in Int, n <= Len(b), m <= n + 1,
         NEW first, first = Len(a) + m, NEW last, last = Len(a) + n
  PROVE  SubSeq(a \o (b \o c), first, last) = SubSeq(b, m, n)
<1> DEFINE bc == b \o c
<1>1. bc \in Seq(Octet) /\ Len(bc) = Len(b) + Len(c)  BY ConcatProperties
<1>2. SubSeq(bc, m, n) = SubSeq(b, m, n)  BY PartOfFirst
<1> HIDE DEF bc
<1>3. n <= Len(bc)  BY <1>1
<1>4. SubSeq(a \o bc, first, last) = SubSeq(bc, m, n)  BY <1>1, <1>3, PartOfSecond, SMTT(30)
<1> QED  BY <1>2, <1>4 DEF bc

(* The same of octets, with names for \o and SubSeq and for what is said of *)
(* them: the provers, who know both operators, would otherwise try every    *)
(* sequence at hand with every number.                                      *)
Cat(a, b) == a \o b
Cut(s, m, n) == SubSeq(s, m, n)

Within(s, m, n) ==
    s \in Seq(Octet) /\ m \in Nat /\ m > 0 /\ n \in Int /\ n <= Len(s) /\ m <= n + 1

CatTyped(a, b) ==
    (a \in Seq(Octet) /\ b \in Seq(Octet)) =>
        Cat(a, b) \in Seq(Octet) /\ Len(Cat(a, b)) = Len(a) + Len(b)

CatAt(a, b, i) ==
    (a \in Seq(Octet) /\ b \in Seq(Octet) /\ i \in 1 .. Len(a) + Len(b)) =>
        Cat(a, b)[i] = IF i <= Len(a) THEN a[i] ELSE b[i - Len(a)]

CutTyped(s, m, n) ==
    Within(s, m, n) =>
        /\ Cut(s, m, n) \in Seq(Octet) /\ Len(Cut(s, m, n)) = n - m + 1
        /\ \A i \in 1 .. n - m + 1 : Cut(s, m, n)[i] = s[m + i - 1]

CutWhole(s, n) == (s \in Seq(Octet) /\ n = Len(s)) => Cut(s, 1, n) = s

CutFirst(a, b, m, n) ==
    (Within(a, m, n) /\ b \in Seq(Octet)) => Cut(Cat(a, b), m, n) = Cut(a, m, n)

CutSecond(a, b, m, n, first, last) ==
    (Within(b, m, n) /\ a \in Seq(Octet) /\ first = Len(a) + m /\ last = Len(a) + n) =>
        Cut(Cat(a, b), first, last) = Cut(b, m, n)

CutMiddle(a, b, c, m, n, first, last) ==
    ( /\ Within(b, m, n) /\ a \in Seq(Octet) /\ c \in Seq(Octet)
      /\ first = Len(a) + m /\ last = Len(a) + n ) =>
        Cut(Cat(a, Cat(b, c)), first, last) = Cut(b, m, n)

Regroups(a, b, c) ==
    (a \in Seq(Octet) /\ b \in Seq(Octet) /\ c \in Seq(Octet)) =>
        Cat(Cat(a, b), c) = Cat(a, Cat(b, c))

LEMMA Cats ==
  ASSUME NEW a, NEW b
  PROVE  CatTyped(a, b) /\ \A c, i : CatAt(a, b, i) /\ Regroups(a, b, c)
<1>1. CatTyped(a, b)  BY ConcatProperties DEF CatTyped, Cat
<1>2. ASSUME NEW i PROVE CatAt(a, b, i)  BY ConcatProperties DEF CatAt, Cat
<1>3. ASSUME NEW c PROVE Regroups(a, b, c)  BY ConcatAssociative DEF Regroups, Cat
<1> QED  BY <1>1, <1>2, <1>3

LEMMA Cuts ==
  ASSUME NEW a, NEW m, NEW n
  PROVE  CutTyped(a, m, n) /\ CutWhole(a, n) /\ \A b : CutFirst(a, b, m, n)
<1>1. CutTyped(a, m, n)
  <2> SUFFICES ASSUME Within(a, m, n)
               PROVE  /\ Cut(a, m, n) \in Seq(Octet) /\ Len(Cut(a, m, n)) = n - m + 1
                      /\ \A i \in 1 .. n - m + 1 : Cut(a, m, n)[i] = a[m + i - 1]
    BY DEF CutTyped
  <2> QED  BY Part DEF Cut, Within
<1>2. CutWhole(a, n)  BY SubSeqFull DEF CutWhole, Cut
<1>3. ASSUME NEW b PROVE CutFirst(a, b, m, n)
  BY PartOfFirst DEF CutFirst, Within, Cut, Cat
<1> QED  BY <1>1, <1>2, <1>3

LEMMA SecondCut ==
  ASSUME NEW a, NEW b, NEW m, NEW n, NEW first, NEW last
  PROVE  CutSecond(a, b, m, n, first, last)
BY PartOfSecond DEF CutSecond, Within, Cut, Cat

LEMMA MiddleCut ==
  ASSUME NEW a, NEW b, NEW c, NEW m, NEW n, NEW first, NEW last
  PROVE  CutMiddle(a, b, c, m, n, first, last)
BY Middle DEF CutMiddle, Within, Cut, Cat

(* A sequence in two parts.                                                 *)
LEMMA TwoParts ==
  ASSUME NEW S, NEW s \in Seq(S), NEW n \in 0 .. Len(s)
  PROVE  s = SubSeq(s, 1, n) \o SubSeq(s, n + 1, Len(s))
<1>1. 1 \in 1 .. Len(s) + 1 /\ n \in 1 - 1 .. Len(s) /\ Len(s) \in n .. Len(s)  OBVIOUS
<1>2. SubSeq(s, 1, n) \o SubSeq(s, n + 1, Len(s)) = SubSeq(s, 1, Len(s))
  BY <1>1, ConcatAdjacentSubSeq
<1> QED  BY <1>2, SubSeqFull

-----------------------------------------------------------------------------
(* What stands before one of the sequences that are put one after another.  *)
Before(ss, i) == FlattenSeq(SubSeq(ss, 1, i))

LEMMA BeforeNext ==
  ASSUME NEW S, NEW ss \in Seq(Seq(S)), NEW i \in 1 .. Len(ss)
  PROVE  /\ Before(ss, i) \in Seq(S) /\ Before(ss, i - 1) \in Seq(S)
         /\ ss[i] \in Seq(S)
         /\ Before(ss, i) = Before(ss, i - 1) \o ss[i]
<1>1. 1 \in 1 .. Len(ss) /\ i \in 1 .. Len(ss) /\ i - 1 <= Len(ss) /\ i - 1 \in Int
      /\ ss[i] \in Seq(S)
  OBVIOUS
<1>2. SubSeq(ss, 1, i) = SubSeq(ss, 1, i - 1) \o <<ss[i]>>
  BY <1>1, SubSeqRecursiveSecond
<1>3. SubSeq(ss, 1, i) \in Seq(Seq(S)) /\ SubSeq(ss, 1, i - 1) \in Seq(Seq(S))
  BY <1>1, Part
<1>4. <<ss[i]>> \in Seq(Seq(S))  BY <1>1
<1> DEFINE x == ss[i]
           p == SubSeq(ss, 1, i - 1)
<1>5. x \in Seq(S) /\ p \in Seq(Seq(S)) /\ <<x>> \in Seq(Seq(S))  BY <1>1, <1>3, <1>4
<1> HIDE DEF x, p
<1>6. FlattenSeq(p \o <<x>>) = FlattenSeq(p) \o FlattenSeq(<<x>>)  BY <1>5, FlattenConcat
<1>7. FlattenSeq(<<x>>) = x  BY <1>5, FlattenOne
<1>8. FlattenSeq(p) \in Seq(S) /\ FlattenSeq(SubSeq(ss, 1, i)) \in Seq(S)
  BY <1>3, <1>5, FlattenType
<1>9. FlattenSeq(p \o <<x>>) = FlattenSeq(p) \o x  BY <1>6, <1>7
<1> QED  BY <1>2, <1>5, <1>8, <1>9 DEF Before, p, x

LEMMA BeforeNone ==
  ASSUME NEW ss
  PROVE  Before(ss, 0) = <<>>
<1>1. SubSeq(ss, 1, 0) = <<>>  BY SubSeqEmpty
<1> QED  BY <1>1, FlattenEmpty DEF Before

LEMMA BeforeAll ==
  ASSUME NEW S, NEW ss \in Seq(Seq(S))
  PROVE  Before(ss, Len(ss)) = FlattenSeq(ss)
BY SubSeqFull DEF Before

(* One of them stands where those before it end.                            *)
LEMMA Placed ==
  ASSUME NEW S, NEW ss \in Seq(Seq(S)), NEW i \in 1 .. Len(ss)
  PROVE  \E behind \in Seq(S) : FlattenSeq(ss) = Before(ss, i - 1) \o (ss[i] \o behind)
<1> DEFINE p == SubSeq(ss, 1, i)
           r == SubSeq(ss, i + 1, Len(ss))
<1>1. i \in 0 .. Len(ss) /\ i + 1 \in Nat /\ i + 1 > 0 /\ Len(ss) \in Int /\ i + 1 <= Len(ss) + 1
  OBVIOUS
<1>2. ss = p \o r  BY <1>1, TwoParts
<1>3. p \in Seq(Seq(S)) /\ r \in Seq(Seq(S))  BY <1>1, Part
<1> HIDE DEF p, r
<1>4. FlattenSeq(p \o r) = FlattenSeq(p) \o FlattenSeq(r)  BY <1>3, FlattenConcat
<1>5. FlattenSeq(r) \in Seq(S)  BY <1>3, FlattenType
<1>6. /\ FlattenSeq(p) = Before(ss, i - 1) \o ss[i]
      /\ Before(ss, i - 1) \in Seq(S) /\ ss[i] \in Seq(S)
  <2>1. FlattenSeq(p) = Before(ss, i)  BY DEF Before, p
  <2> QED  BY <2>1, BeforeNext
<1> DEFINE a == Before(ss, i - 1)
           x == ss[i]
           f == FlattenSeq(r)
<1>7. a \in Seq(S) /\ x \in Seq(S) /\ f \in Seq(S)  BY <1>5, <1>6
<1>8. FlattenSeq(ss) = (a \o x) \o f  BY <1>2, <1>4, <1>6
<1> HIDE DEF a, x, f
<1>9. (a \o x) \o f = a \o (x \o f)  BY <1>7, ConcatAssociative, SMTT(30)
<1>10. FlattenSeq(ss) = a \o (x \o f)  BY <1>8, <1>9
<1> QED  BY <1>7, <1>10 DEF a, x

-----------------------------------------------------------------------------
(* Blocks.  `Stop` is where the i-th of the blocks of n octets ends.        *)
USE BlockAssumption

Stop(n, i) == IF i = BlockCount(n) THEN n ELSE i * BlockSize

LEMMA BlocksFit ==
  ASSUME NEW n \in Nat
  PROVE  /\ BlockCount(n) \in Nat
         /\ Stop(n, 0) = 0
         /\ Stop(n, BlockCount(n)) = n
         /\ \A i \in 1 .. BlockCount(n) :
               /\ BlockLength(n, i) \in 1 .. BlockSize
               /\ Stop(n, i - 1) = (i - 1) * BlockSize
               /\ Stop(n, i) = ((i - 1) * BlockSize) + BlockLength(n, i)
               /\ Stop(n, i) \in 1 .. n
<1> DEFINE a == n + BlockSize - 1
           k == a \div BlockSize
           r == a % BlockSize
<1>0. a \in Nat /\ BlockSize \in Nat /\ BlockSize > 0  OBVIOUS
<1>1. a = BlockSize * k + r /\ k \in Int /\ r \in 0 .. BlockSize - 1
  BY <1>0, App!DivMod
<1>2. k \in Nat /\ k * BlockSize >= n  BY <1>0, App!RowsSuffice
<1>3. BlockCount(n) = k  BY DEF BlockCount
<1>4. n = BlockSize * k + r - BlockSize + 1 /\ a = n + BlockSize - 1  BY <1>0, <1>1
<1> HIDE DEF a, k, r
<1>5. n = 0 => k = 0
  <2> SUFFICES ASSUME n = 0, k >= 1 PROVE FALSE
    BY <1>2
  <2>1. BlockSize * k >= BlockSize  BY <1>0, <1>2
  <2> QED  BY <1>0, <1>1, <1>4, <2>1
<1>6. k = 0 => n = 0
  <2> SUFFICES ASSUME k = 0 PROVE n = 0
    OBVIOUS
  <2>1. k * BlockSize = 0  BY <1>0
  <2> QED  BY <1>2, <2>1
<1>7. Stop(n, 0) = 0
  <2>1. 0 * BlockSize = 0  BY <1>0
  <2> QED  BY <1>3, <1>5, <1>6, <2>1 DEF Stop
<1>8. ASSUME NEW i \in 1 .. k
      PROVE  /\ BlockLength(n, i) \in 1 .. BlockSize
             /\ Stop(n, i - 1) = (i - 1) * BlockSize
             /\ Stop(n, i) = ((i - 1) * BlockSize) + BlockLength(n, i)
             /\ Stop(n, i) \in 1 .. n
  <2>0. i \in Nat /\ i - 1 # k  BY <1>2
  <2>1. Stop(n, i - 1) = (i - 1) * BlockSize  BY <1>3, <2>0 DEF Stop
  <2>2. (i - 1) * BlockSize = (i * BlockSize) - BlockSize  BY <1>0, <2>0
  <2>3. i * BlockSize \in Nat /\ i * BlockSize >= BlockSize  BY <1>0, <2>0
  <2>4. k * BlockSize = BlockSize * k  BY <1>0, <1>2
  <2>5. CASE i < k
    <3>1. i * BlockSize <= (k - 1) * BlockSize  BY <1>0, <1>2, <2>5
    <3>2. (k - 1) * BlockSize = (k * BlockSize) - BlockSize  BY <1>0, <1>2
    <3>3. i * BlockSize <= n  BY <1>0, <1>1, <1>4, <2>3, <2>4, <3>1, <3>2
    <3>4. BlockLength(n, i) = BlockSize  BY <3>3 DEF BlockLength
    <3>5. Stop(n, i) = i * BlockSize  BY <1>3, <2>5 DEF Stop
    <3> QED  BY <1>0, <2>1, <2>2, <2>3, <3>3, <3>4, <3>5
  <2>6. CASE i = k
    <3>1. Stop(n, i) = n  BY <1>3, <2>6 DEF Stop
    <3>2. n > (i * BlockSize) - BlockSize /\ n <= i * BlockSize
      BY <1>0, <1>1, <1>2, <1>4, <2>4, <2>6
    <3>3. BlockLength(n, i) = n - ((i * BlockSize) - BlockSize)
      <4>1. CASE i * BlockSize <= n
        <5>1. i * BlockSize = n  BY <3>2, <4>1, <2>3
        <5> QED  BY <1>0, <4>1, <5>1 DEF BlockLength
      <4>2. CASE ~ (i * BlockSize <= n)
        <5>1. n - ((i - 1) * BlockSize) \in 0 .. BlockSize - 1
          BY <1>0, <2>2, <2>3, <3>2, <4>2
        <5>2. n = BlockSize * (i - 1) + (n - ((i - 1) * BlockSize))
          <6>1. (i - 1) * BlockSize = BlockSize * (i - 1) /\ BlockSize * (i - 1) \in Int
            BY <1>0, <2>0
          <6> QED  BY <6>1
        <5>3. n % BlockSize = n - ((i - 1) * BlockSize)
          <6> DEFINE q == i - 1
                     t == n - ((i - 1) * BlockSize)
          <6>1. q \in Int /\ t \in 0 .. BlockSize - 1 /\ n = BlockSize * q + t
            BY <2>0, <5>1, <5>2
          <6> HIDE DEF q, t
          <6>2. n % BlockSize = t  BY <1>0, <6>1, App!ModUnique
          <6> QED  BY <6>2 DEF t
        <5> QED  BY <2>2, <4>2, <5>3 DEF BlockLength
      <4> QED  BY <4>1, <4>2
    <3> QED  BY <1>0, <2>1, <2>2, <2>3, <3>1, <3>2, <3>3
  <2> QED  BY <2>5, <2>6, <1>2
<1>9. Stop(n, k) = n  BY <1>3 DEF Stop
<1> QED  BY <1>2, <1>3, <1>7, <1>8, <1>9

LEMMA NextBlock ==
  ASSUME NEW n \in Nat, NEW i \in Nat, i + 1 <= BlockCount(n)
  PROVE  /\ BlockLength(n, i + 1) \in Nat /\ Stop(n, i) = i * BlockSize
         /\ Stop(n, i + 1) = (i * BlockSize) + BlockLength(n, i + 1)
         /\ Stop(n, i + 1) \in 1 .. n
<1> DEFINE j == i + 1
<1>1. j \in 1 .. BlockCount(n) /\ j - 1 = i
  <2>1. BlockCount(n) \in Nat  BY BlocksFit
  <2> QED  BY <2>1
<1> HIDE DEF j
<1>2. /\ BlockLength(n, j) \in 1 .. BlockSize /\ Stop(n, j - 1) = (j - 1) * BlockSize
      /\ Stop(n, j) = ((j - 1) * BlockSize) + BlockLength(n, j)
      /\ Stop(n, j) \in 1 .. n
  BY <1>1, BlocksFit
<1> QED  BY <1>1, <1>2 DEF j

LEMMA Monotone ==
  ASSUME NEW g \in Nat, NEW i \in Nat, NEW k \in Nat, i <= k
  PROVE  g * i <= g * k /\ g * i \in Nat /\ g * k \in Nat
<1> DEFINE d == k - i
<1>1. d \in Nat /\ k = i + d  OBVIOUS
<1> HIDE DEF d
<1>2. g * (i + d) = g * i + g * d /\ g * i \in Nat /\ g * d \in Nat  BY <1>1
<1> QED  BY <1>1, <1>2

(* Blocks with a gap after each, one after the other.                       *)
PlaceAfter(n, gap, i) == Stop(n, i) + gap * i

AreBlocks(ss, n, gap) ==
    /\ ss \in Seq(Seq(Octet)) /\ Len(ss) = BlockCount(n)
    /\ \A i \in 1 .. BlockCount(n) : Len(ss[i]) = BlockLength(n, i) + gap

LEMMA LengthBefore ==
  ASSUME NEW n \in Nat, NEW gap \in Nat, NEW ss, AreBlocks(ss, n, gap),
         NEW j \in 0 .. BlockCount(n)
  PROVE  Len(Before(ss, j)) = PlaceAfter(n, gap, j)
<1> USE DEF AreBlocks
<1> SUFFICES Len(Before(ss, j)) = Stop(n, j) + gap * j
  BY DEF PlaceAfter
<1> DEFINE k == BlockCount(n)
           T == {i \in Nat : i <= k => Len(Before(ss, i)) = Stop(n, i) + gap * i}
<1>1. k \in Nat  BY BlocksFit
<1>2. 0 \in T
  <2>1. Before(ss, 0) = <<>> /\ Stop(n, 0) = 0  BY BeforeNone, BlocksFit
  <2>2. gap * 0 = 0 /\ Len(<<>>) = 0  OBVIOUS
  <2> QED  BY <2>1, <2>2
<1>3. ASSUME NEW i \in Nat, i \in T
      PROVE  i + 1 \in T
  <2> SUFFICES ASSUME i + 1 <= k
               PROVE  Len(Before(ss, i + 1)) = Stop(n, i + 1) + gap * (i + 1)
    OBVIOUS
  <2>1. i + 1 \in 1 .. k /\ (i + 1) - 1 = i /\ i <= k  BY <1>1
  <2>2. Len(Before(ss, i)) = Stop(n, i) + gap * i  BY <1>3, <2>1
  <2>3. /\ Before(ss, i) \in Seq(Octet) /\ ss[i + 1] \in Seq(Octet)
        /\ Before(ss, i + 1) = Before(ss, i) \o ss[i + 1]
    <3> DEFINE j1 == i + 1
    <3>1. j1 \in 1 .. Len(ss) /\ j1 - 1 = i  BY <2>1
    <3> HIDE DEF j1
    <3>2. /\ Before(ss, j1 - 1) \in Seq(Octet) /\ ss[j1] \in Seq(Octet)
          /\ Before(ss, j1) = Before(ss, j1 - 1) \o ss[j1]
      BY <3>1, BeforeNext
    <3> QED  BY <3>1, <3>2 DEF j1
  <2>4. Len(Before(ss, i + 1)) = Len(Before(ss, i)) + Len(ss[i + 1])
    BY <2>3, ConcatProperties
  <2>5. /\ BlockLength(n, i + 1) \in Nat /\ Stop(n, i) = i * BlockSize
        /\ Stop(n, i + 1) = (i * BlockSize) + BlockLength(n, i + 1)
    BY <2>1, NextBlock
  <2>6. gap * (i + 1) = gap * i + gap /\ gap * i \in Nat /\ i * BlockSize \in Nat  OBVIOUS
  <2>7. Len(ss[i + 1]) = BlockLength(n, i + 1) + gap  BY <2>1
  <2> DEFINE x == i * BlockSize
             y == gap * i
             z == gap * (i + 1)
             l == BlockLength(n, i + 1)
             b == Before(ss, i + 1)
  <2>8. /\ Len(b) = x + y + (l + gap) /\ Stop(n, i + 1) = x + l /\ z = y + gap
        /\ x \in Nat /\ y \in Nat /\ l \in Nat
    BY <2>2, <2>4, <2>5, <2>6, <2>7
  <2> HIDE DEF x, y, z, l, b
  <2>9. Len(b) = Stop(n, i + 1) + z  BY <2>8
  <2> QED  BY <2>9 DEF z, b
<1> HIDE DEF T
<1>4. Nat \subseteq T  BY <1>2, <1>3, SetInduction
<1> QED  BY <1>1, <1>4 DEF T

LEMMA BlockPlaced ==
  ASSUME NEW n \in Nat, NEW gap \in Nat, NEW o \in Seq(Octet),
         Len(o) = n + gap * BlockCount(n), NEW i \in 1 .. BlockCount(n)
  PROVE  /\ BlockAt(o, n, i, gap) \in Seq(Octet)
         /\ Len(BlockAt(o, n, i, gap)) = BlockLength(n, i)
         /\ (i - 1) * (BlockSize + gap) = Stop(n, i - 1) + gap * (i - 1)
         /\ (i - 1) * (BlockSize + gap) \in Nat
         /\ Stop(n, i - 1) + BlockLength(n, i) + gap * i <= Len(o)
<1> DEFINE k == BlockCount(n)
           start == (i - 1) * (BlockSize + gap)
           len == BlockLength(n, i)
<1>1. /\ k \in Nat /\ len \in 1 .. BlockSize /\ Stop(n, i - 1) = (i - 1) * BlockSize
      /\ Stop(n, i) = ((i - 1) * BlockSize) + len /\ Stop(n, i) \in 1 .. n
  BY BlocksFit
<1>2. i \in Nat /\ i - 1 \in Nat /\ i <= k  BY <1>1
<1>3. start = (i - 1) * BlockSize + gap * (i - 1) /\ start \in Nat
      /\ gap * i = gap * (i - 1) + gap
  BY <1>2
<1>4. gap * i <= gap * k /\ gap * i \in Nat /\ gap * k \in Nat
  <2> HIDE DEF k
  <2> QED  BY <1>1, <1>2, Monotone
<1>5. start + len + gap <= Len(o)
  <2> HIDE DEF start, len, k
  <2> QED  BY <1>1, <1>3, <1>4 DEF k
<1>6. start + 1 \in Nat /\ start + 1 > 0 /\ start + len \in Int
      /\ start + len <= Len(o) /\ start + 1 <= (start + len) + 1
      /\ (start + len) - (start + 1) + 1 = len
  <2> HIDE DEF start, len
  <2>1. Len(o) \in Nat  OBVIOUS
  <2> QED  BY <1>1, <1>3, <1>5, <2>1
<1>7. SubSeq(o, start + 1, start + len) \in Seq(Octet)
      /\ Len(SubSeq(o, start + 1, start + len)) = len
  <2> DEFINE m == start + 1
             l == start + len
  <2>1. m \in Nat /\ m > 0 /\ l \in Int /\ l <= Len(o) /\ m <= l + 1 /\ l - m + 1 = len
    BY <1>6
  <2> HIDE DEF m, l, start, len
  <2>2. SubSeq(o, m, l) \in Seq(Octet) /\ Len(SubSeq(o, m, l)) = l - m + 1  BY <2>1, Part
  <2> QED  BY <2>1, <2>2 DEF m, l
<1>8. Stop(n, i - 1) + len + gap * i <= Len(o)
  <2> HIDE DEF start, len
  <2> QED  BY <1>1, <1>2, <1>3, <1>5
<1> QED  BY <1>1, <1>3, <1>7, <1>8 DEF BlockAt

LEMMA BlockTyped ==
  ASSUME NEW n \in Nat, NEW gap \in Nat, NEW o \in Seq(Octet),
         NEW len, len = n + gap * BlockCount(n), Len(o) = len,
         NEW i \in 1 .. BlockCount(n)
  PROVE  /\ BlockAt(o, n, i, gap) \in Seq(Octet)
         /\ Len(BlockAt(o, n, i, gap)) = BlockLength(n, i)
BY BlockPlaced

LEMMA BlockOfData ==
  ASSUME NEW data \in Seq(Octet), NEW i \in 1 .. BlockCount(Len(data))
  PROVE  /\ BlockAt(data, Len(data), i, 0) \in Seq(Octet)
         /\ Len(BlockAt(data, Len(data), i, 0)) = BlockLength(Len(data), i)
<1> DEFINE n == Len(data)
<1>1. n \in Nat /\ Len(data) = n /\ i \in 1 .. BlockCount(n)  OBVIOUS
<1> HIDE DEF n
<1>2. BlockCount(n) \in Nat  BY <1>1, BlocksFit
<1>3. 0 \in Nat /\ n = n + 0 * BlockCount(n)  BY <1>1, <1>2
<1>4. /\ BlockAt(data, n, i, 0) \in Seq(Octet)
      /\ Len(BlockAt(data, n, i, 0)) = BlockLength(n, i)
  BY <1>1, <1>3, BlockTyped
<1> QED  BY <1>4 DEF n

(* The blocks of n octets are n octets.                                     *)
BlocksOf(o, n, gap) == [i \in 1 .. BlockCount(n) |-> BlockAt(o, n, i, gap)]

LEMMA BlocksFlat ==
  ASSUME NEW n \in Nat, NEW gap \in Nat, NEW o \in Seq(Octet),
         Len(o) = n + gap * BlockCount(n)
  PROVE  /\ BlocksOf(o, n, gap) \in Seq(Seq(Octet))
         /\ Len(BlocksOf(o, n, gap)) = BlockCount(n)
         /\ FlattenSeq(BlocksOf(o, n, gap)) \in Seq(Octet)
         /\ Len(FlattenSeq(BlocksOf(o, n, gap))) = n
<1> DEFINE bs == BlocksOf(o, n, gap)
           k == BlockCount(n)
<1>1. k \in Nat /\ Stop(n, k) = n  BY BlocksFit
<1>2. \A i \in 1 .. k : /\ BlockAt(o, n, i, gap) \in Seq(Octet)
                        /\ Len(BlockAt(o, n, i, gap)) = BlockLength(n, i)
  BY BlockTyped
<1>3. bs \in [1 .. k -> Seq(Octet)]  BY <1>2 DEF BlocksOf
<1>4. bs \in Seq(Seq(Octet)) /\ Len(bs) = k  BY <1>1, <1>3
<1>5. \A i \in 1 .. k : Len(bs[i]) = BlockLength(n, i) + 0
  <2> SUFFICES ASSUME NEW i \in 1 .. k PROVE Len(bs[i]) = BlockLength(n, i) + 0
    OBVIOUS
  <2>1. BlockLength(n, i) \in Nat
    <3>1. BlockLength(n, i) \in 1 .. BlockSize  BY BlocksFit, Zenon
    <3> QED  BY <3>1
  <2>2. bs[i] = BlockAt(o, n, i, gap)  BY DEF BlocksOf
  <2> QED  BY <1>2, <2>1, <2>2
<1> HIDE DEF bs
<1>6. k \in 0 .. k /\ 0 \in Nat  BY <1>1
<1>7. Len(Before(bs, k)) = Stop(n, k) + 0 * k
  <2>1. AreBlocks(bs, n, 0)  BY <1>4, <1>5 DEF AreBlocks
  <2>2. Len(Before(bs, k)) = PlaceAfter(n, 0, k)  BY <1>6, <2>1, LengthBefore
  <2> QED  BY <2>2 DEF PlaceAfter
<1>8. 0 * k = 0  BY <1>1
<1>9. Before(bs, k) = FlattenSeq(bs) /\ FlattenSeq(bs) \in Seq(Octet)
  BY <1>4, BeforeAll, FlattenType
<1> QED  BY <1>1, <1>4, <1>7, <1>8, <1>9 DEF bs

LEMMA BlocksTogether ==
  ASSUME NEW data \in Seq(Octet)
  PROVE  FlattenSeq(BlocksOf(data, Len(data), 0)) = data
<1> DEFINE n == Len(data)
           bs == BlocksOf(data, n, 0)
           k == BlockCount(n)
           T == {i \in Nat : i <= k => Before(bs, i) = SubSeq(data, 1, Stop(n, i))}
<1>0. n \in Nat /\ 0 \in Nat  OBVIOUS
<1> HIDE DEF n
<1>1. /\ k \in Nat /\ Stop(n, 0) = 0 /\ Stop(n, k) = n  BY <1>0, BlocksFit
<1>2. Len(data) = n + 0 * k /\ Len(data) = n  BY <1>0, <1>1 DEF n
<1>3. bs \in Seq(Seq(Octet)) /\ Len(bs) = k  BY <1>0, <1>2, BlocksFlat
<1>4. 0 \in T
  <2>1. Before(bs, 0) = <<>> /\ SubSeq(data, 1, 0) = <<>>  BY BeforeNone, SubSeqEmpty
  <2> QED  BY <1>1, <2>1
<1>5. ASSUME NEW i \in Nat, i \in T
      PROVE  i + 1 \in T
  <2> SUFFICES ASSUME i + 1 <= k
               PROVE  Before(bs, i + 1) = SubSeq(data, 1, Stop(n, i + 1))
    OBVIOUS
  <2> DEFINE j == i + 1
             a == Stop(n, i)
             b == Stop(n, j)
  <2>1. j \in 1 .. k /\ j - 1 = i /\ i <= k /\ j \in 1 .. Len(bs)  BY <1>1, <1>3
  <2>2. Before(bs, i) = SubSeq(data, 1, a)  BY <1>5, <2>1
  <2> HIDE DEF bs
  <2>3. Before(bs, j) = Before(bs, i) \o bs[j]
    <3> HIDE DEF j
    <3> QED  BY <1>3, <2>1, BeforeNext
  <2>4. /\ BlockLength(n, j) \in Nat /\ a = i * BlockSize
        /\ b = (i * BlockSize) + BlockLength(n, j) /\ b \in 1 .. n
    <3> HIDE DEF j
    <3> QED  BY <1>0, <2>1, BlocksFit
  <2>5. bs[j] = SubSeq(data, a + 1, b)
    <3>1. BlockSize + 0 = BlockSize /\ i * BlockSize \in Nat  OBVIOUS
    <3>2. BlockAt(data, n, j, 0) = SubSeq(data, i * (BlockSize + 0) + 1,
                                          i * (BlockSize + 0) + BlockLength(n, j))
      BY <2>1 DEF BlockAt
    <3>3. bs[j] = BlockAt(data, n, j, 0)  BY <2>1 DEF bs, BlocksOf
    <3> HIDE DEF j, a, b
    <3> QED  BY <2>4, <3>1, <3>2, <3>3
  <2> HIDE DEF j, a, b
  <2>6. 1 \in 1 .. Len(data) + 1 /\ a \in 1 - 1 .. Len(data) /\ b \in a .. Len(data)
    <3>1. i * BlockSize \in Nat  OBVIOUS
    <3> QED  BY <1>0, <1>2, <2>4, <3>1
  <2>7. SubSeq(data, 1, a) \o SubSeq(data, a + 1, b) = SubSeq(data, 1, b)
    BY <2>6, ConcatAdjacentSubSeq
  <2>8. Before(bs, j) = SubSeq(data, 1, b)  BY <2>2, <2>3, <2>5, <2>7
  <2> QED  BY <2>8 DEF j, b
<1> HIDE DEF T, bs
<1>6. Nat \subseteq T  BY <1>4, <1>5, SetInduction
<1>7. Before(bs, k) = SubSeq(data, 1, n)  BY <1>1, <1>6 DEF T
<1>8. Before(bs, k) = FlattenSeq(bs)  BY <1>3, BeforeAll
<1>9. SubSeq(data, 1, n) = data  BY SubSeqFull DEF n
<1> QED  BY <1>7, <1>8, <1>9 DEF bs, n

-----------------------------------------------------------------------------
(* Numbers of 16 bits and their octets.                                     *)
LEMMA OctetRange == \A n : n \in Octet <=> n \in Nat /\ n <= 255
<1>1. \A n : n \in Octet => n \in Int  BY SMT DEF Octet
<1>2. ASSUME NEW n \in Int
      PROVE  n \in Octet <=> n \in Nat /\ n <= 255
  BY SMT DEF Octet
<1>3. \A n : n \in Nat => n \in Int  OBVIOUS
<1> QED  BY <1>1, <1>2, <1>3, SMT

LEMMA WordRange == \A n : n \in Word <=> n \in Nat /\ n <= 65535
<1> DEFINE top == 65535
<1>1. Word = 0 .. top /\ top \in Nat  BY DEF Word
<1> HIDE DEF top
<1>2. \A n : n \in Word <=> n \in Nat /\ n <= top  BY <1>1
<1> QED  BY <1>2 DEF top

LEMMA LittleEndianInverse ==
  ASSUME NEW n \in Word
  PROVE  /\ LittleEndian(n) \in Seq(Octet) /\ Len(LittleEndian(n)) = 2
         /\ FromLittleEndian(LittleEndian(n)) = n
<1> DEFINE q == n \div 256
           r == n % 256
<1>0. n \in Nat /\ n <= 65535  BY WordRange
<1>1. r \in 0 .. 256 - 1 /\ q \in Int /\ n = 256 * q + r
  BY <1>0, App!DivMod
<1>2. LittleEndian(n) = <<r, q>>  BY DEF LittleEndian
<1> HIDE DEF q, r
<1>3. r \in Nat /\ r <= 255 /\ q \in Nat /\ q <= 255 /\ r + 256 * q = n  BY <1>0, <1>1
<1>4. r \in Octet /\ q \in Octet  BY <1>3, OctetRange
<1> QED  BY <1>2, <1>3, <1>4 DEF FromLittleEndian

LEMMA FromLittleEndianType ==
  ASSUME NEW o \in Seq(Octet), Len(o) = 2
  PROVE  FromLittleEndian(o) \in Word
<1>1. o[1] \in Octet /\ o[2] \in Octet
  <2>1. 1 \in 1 .. Len(o) /\ 2 \in 1 .. Len(o)  OBVIOUS
  <2> QED  BY <2>1, ElementOfSeq
<1>2. o[1] \in Nat /\ o[1] <= 255 /\ o[2] \in Nat /\ o[2] <= 255  BY <1>1, OctetRange
<1>3. o[1] + 256 * o[2] \in Nat /\ o[1] + 256 * o[2] <= 65535  BY <1>2
<1> QED  BY <1>3, WordRange DEF FromLittleEndian

LEMMA Weights ==
  /\ Weight[0 + 1] = 1 /\ Weight[1 + 1] = 2 /\ Weight[2 + 1] = 4 /\ Weight[3 + 1] = 8
  /\ Weight[4 + 1] = 16 /\ Weight[5 + 1] = 32 /\ Weight[6 + 1] = 64
  /\ Weight[7 + 1] = 128 /\ Weight[8 + 1] = 256 /\ Weight[9 + 1] = 512
  /\ Weight[10 + 1] = 1024 /\ Weight[11 + 1] = 2048 /\ Weight[12 + 1] = 4096
  /\ Weight[13 + 1] = 8192 /\ Weight[14 + 1] = 16384 /\ Weight[15 + 1] = 32768
BY DEF Weight

LEMMA ValueType ==
  ASSUME NEW bits
  PROVE  Value(bits) \in Word
<1> DEFINE bit(b) == IF b \in bits THEN Weight[b + 1] ELSE 0
<1>1. /\ bit(0) \in {0, 1} /\ bit(1) \in {0, 2} /\ bit(2) \in {0, 4} /\ bit(3) \in {0, 8}
      /\ bit(4) \in {0, 16} /\ bit(5) \in {0, 32} /\ bit(6) \in {0, 64}
      /\ bit(7) \in {0, 128} /\ bit(8) \in {0, 256} /\ bit(9) \in {0, 512}
      /\ bit(10) \in {0, 1024} /\ bit(11) \in {0, 2048} /\ bit(12) \in {0, 4096}
      /\ bit(13) \in {0, 8192} /\ bit(14) \in {0, 16384} /\ bit(15) \in {0, 32768}
  BY Weights
<1>2. Value(bits) =
          bit(0) + bit(1) + bit(2) + bit(3) + bit(4) + bit(5) + bit(6) + bit(7)
          + bit(8) + bit(9) + bit(10) + bit(11) + bit(12) + bit(13) + bit(14) + bit(15)
  BY DEF Value
<1> HIDE DEF bit
<1> DEFINE a == bit(0) + bit(1) + bit(2) + bit(3)
           b == bit(4) + bit(5) + bit(6) + bit(7)
           c == bit(8) + bit(9) + bit(10) + bit(11)
           d == bit(12) + bit(13) + bit(14) + bit(15)
<1>3. /\ a \in Nat /\ a <= 15 /\ b \in Nat /\ b <= 240
      /\ c \in Nat /\ c <= 3840 /\ d \in Nat /\ d <= 61440
  BY <1>1
<1>4. Value(bits) = a + b + c + d
  <2>1. /\ bit(0) \in Nat /\ bit(1) \in Nat /\ bit(2) \in Nat /\ bit(3) \in Nat
        /\ bit(4) \in Nat /\ bit(5) \in Nat /\ bit(6) \in Nat /\ bit(7) \in Nat
        /\ bit(8) \in Nat /\ bit(9) \in Nat /\ bit(10) \in Nat /\ bit(11) \in Nat
        /\ bit(12) \in Nat /\ bit(13) \in Nat /\ bit(14) \in Nat /\ bit(15) \in Nat
    BY <1>1
  <2> QED  BY <1>2, <2>1
<1> HIDE DEF a, b, c, d
<1>5. Value(bits) \in Nat /\ Value(bits) <= 65535  BY <1>3, <1>4
<1> QED  BY <1>5, WordRange

LEMMA CrcOctetsType ==
  ASSUME NEW block
  PROVE  CrcOctets(block) \in Seq(Octet) /\ Len(CrcOctets(block)) = 2
<1>1. Value(Crc16(block)) \in Word  BY ValueType
<1> QED  BY <1>1, LittleEndianInverse DEF CrcOctets

-----------------------------------------------------------------------------
(* Each block of data is found again behind the ones before it, with its    *)
(* CRC.                                                                     *)
WithCrc(data) ==
    [i \in 1 .. BlockCount(Len(data)) |->
        LET block == BlockAt(data, Len(data), i, 0)
        IN  block \o CrcOctets(block)]

LEMMA EncodedBlocks ==
  ASSUME NEW data \in Seq(Octet), NEW n \in Nat, n = Len(data)
  PROVE  /\ WithCrc(data) \in Seq(Seq(Octet))
         /\ Len(WithCrc(data)) = BlockCount(n)
         /\ EncodeCrcBlocks(data) = FlattenSeq(WithCrc(data))
         /\ EncodeCrcBlocks(data) \in Seq(Octet)
         /\ Len(EncodeCrcBlocks(data)) = n + 2 * BlockCount(n)
         /\ \A i \in 1 .. BlockCount(n) :
               /\ WithCrc(data)[i] =
                     BlockAt(data, n, i, 0) \o CrcOctets(BlockAt(data, n, i, 0))
               /\ BlockAt(data, n, i, 0) \in Seq(Octet)
               /\ Len(BlockAt(data, n, i, 0)) = BlockLength(n, i)
               /\ Len(Before(WithCrc(data), i - 1)) = (i - 1) * (BlockSize + 2)
<1> DEFINE k == BlockCount(n)
           xs == WithCrc(data)
           block(i) == BlockAt(data, n, i, 0)
<1>1. k \in Nat /\ Stop(n, k) = n  BY BlocksFit
<1>2. ASSUME NEW i \in 1 .. k
      PROVE  block(i) \in Seq(Octet) /\ Len(block(i)) = BlockLength(n, i)
  BY BlockOfData
<1>3. ASSUME NEW i \in 1 .. k
      PROVE  /\ xs[i] = block(i) \o CrcOctets(block(i))
             /\ xs[i] \in Seq(Octet) /\ Len(xs[i]) = BlockLength(n, i) + 2
  <2>1. xs[i] = block(i) \o CrcOctets(block(i))  BY DEF WithCrc
  <2>2. CrcOctets(block(i)) \in Seq(Octet) /\ Len(CrcOctets(block(i))) = 2
    BY CrcOctetsType
  <2>3. block(i) \in Seq(Octet) /\ Len(block(i)) = BlockLength(n, i)  BY <1>2
  <2>4. /\ block(i) \o CrcOctets(block(i)) \in Seq(Octet)
        /\ Len(block(i) \o CrcOctets(block(i))) = Len(block(i)) + Len(CrcOctets(block(i)))
    BY <2>2, <2>3, ConcatProperties, Zenon
  <2> HIDE DEF block, xs
  <2> QED  BY <2>1, <2>2, <2>3, <2>4, Zenon
<1>4. xs \in [1 .. k -> Seq(Octet)]
  <2>1. xs = [i \in 1 .. k |-> xs[i]]  BY DEF WithCrc
  <2> HIDE DEF xs
  <2> QED  BY <1>3, <2>1
<1>5. xs \in Seq(Seq(Octet)) /\ Len(xs) = k  BY <1>1, <1>4
<1>6. EncodeCrcBlocks(data) = FlattenSeq(xs)  BY DEF EncodeCrcBlocks, WithCrc
<1> HIDE DEF xs
<1>7. \A i \in 1 .. k : Len(xs[i]) = BlockLength(n, i) + 2  BY <1>3
<1>8. \A j \in 0 .. k : Len(Before(xs, j)) = Stop(n, j) + 2 * j
  <2> TAKE j \in 0 .. k
  <2>1. AreBlocks(xs, n, 2)  BY <1>5, <1>7 DEF AreBlocks
  <2>2. Len(Before(xs, j)) = PlaceAfter(n, 2, j)  BY <2>1, LengthBefore
  <2> QED  BY <2>2 DEF PlaceAfter
<1>9. FlattenSeq(xs) \in Seq(Octet) /\ Before(xs, k) = FlattenSeq(xs)
  BY <1>5, FlattenType, BeforeAll
<1>10. Len(FlattenSeq(xs)) = n + 2 * k
  <2>1. k \in 0 .. k  BY <1>1
  <2> QED  BY <1>1, <1>8, <1>9, <2>1
<1>11. ASSUME NEW i \in 1 .. k
       PROVE  Len(Before(xs, i - 1)) = (i - 1) * (BlockSize + 2)
  <2>1. i - 1 \in 0 .. k /\ i - 1 \in Nat  BY <1>1
  <2>2. Stop(n, i - 1) = (i - 1) * BlockSize  BY BlocksFit
  <2>3. (i - 1) * (BlockSize + 2) = (i - 1) * BlockSize + 2 * (i - 1)  BY <2>1
  <2> QED  BY <1>8, <2>1, <2>2, <2>3
<1> QED  BY <1>2, <1>3, <1>5, <1>6, <1>9, <1>10, <1>11 DEF xs

LEMMA BlockFound ==
  ASSUME NEW data \in Seq(Octet), NEW n \in Nat, n = Len(data),
         NEW i \in 1 .. BlockCount(n)
  PROVE  /\ BlockAt(EncodeCrcBlocks(data), n, i, 2) = BlockAt(data, n, i, 0)
         /\ CrcMatches(EncodeCrcBlocks(data), n, i)
<1> DEFINE enc == EncodeCrcBlocks(data)
           xs == WithCrc(data)
           b == BlockAt(data, n, i, 0)
           c == CrcOctets(b)
           x == xs[i]
           before == Before(xs, i - 1)
           l == BlockLength(n, i)
           start == (i - 1) * (BlockSize + 2)
<1>1. /\ xs \in Seq(Seq(Octet)) /\ Len(xs) = BlockCount(n) /\ enc = FlattenSeq(xs)
      /\ x = Cat(b, c) /\ b \in Seq(Octet) /\ Len(b) = l /\ Len(before) = start
  BY EncodedBlocks DEF Cat
<1>2. l \in Nat /\ BlockCount(n) \in Nat  BY BlocksFit
<1>3. start \in Nat
  <2>1. i - 1 \in Nat  BY <1>2
  <2> QED  BY <2>1
<1>4. c \in Seq(Octet) /\ Len(c) = 2  BY CrcOctetsType
<1> HIDE DEF xs
<1>5. i \in 1 .. Len(xs)  BY <1>1
<1>6. before \in Seq(Octet) /\ x \in Seq(Octet)  BY <1>1, <1>5, BeforeNext
<1>7. PICK behind \in Seq(Octet) : FlattenSeq(xs) = Cat(before, Cat(x, behind))
  <2>1. \E behind \in Seq(Octet) : FlattenSeq(xs) = before \o (x \o behind)
    BY <1>1, <1>5, Placed
  <2> QED  BY <2>1 DEF Cat
<1> HIDE DEF enc, b, c, x, before, l, start
<1>t. /\ b \in Seq(Octet) /\ c \in Seq(Octet) /\ before \in Seq(Octet) /\ x \in Seq(Octet)
      /\ Len(b) = l /\ Len(c) = 2 /\ Len(before) = start /\ x = Cat(b, c)
  BY <1>1, <1>4, <1>6, Zenon
<1>8. Len(x) = l + 2
  <2>1. CatTyped(b, c)  BY Cats
  <2> QED  BY <1>2, <1>t, <2>1 DEF CatTyped
<1>9. Cut(enc, start + 1, start + l) = b
  <2>1. CutMiddle(before, x, behind, 1, l, start + 1, start + l)  BY MiddleCut
  <2>2. Cut(Cat(before, Cat(x, behind)), start + 1, start + l) = Cut(x, 1, l)
    BY <1>2, <1>3, <1>8, <1>t, <2>1 DEF CutMiddle, Within
  <2>3. CutFirst(b, c, 1, l) /\ CutWhole(b, l)  BY Cuts
  <2>4. Cut(x, 1, l) = b  BY <1>2, <1>t, <2>3 DEF CutFirst, CutWhole, Within
  <2> QED  BY <1>1, <1>7, <2>2, <2>4
<1>10. Cut(enc, start + l + 1, start + l + 2) = c
  <2>1. CutMiddle(before, x, behind, l + 1, l + 2, start + l + 1, start + l + 2)
    BY MiddleCut
  <2>2. Cut(Cat(before, Cat(x, behind)), start + l + 1, start + l + 2) = Cut(x, l + 1, l + 2)
    BY <1>2, <1>3, <1>8, <1>t, <2>1 DEF CutMiddle, Within
  <2>3. CutSecond(b, c, 1, 2, l + 1, l + 2) /\ CutWhole(c, 2)  BY SecondCut, Cuts
  <2>4. Cut(x, l + 1, l + 2) = c  BY <1>2, <1>t, <2>3 DEF CutSecond, CutWhole, Within
  <2> QED  BY <1>1, <1>7, <2>2, <2>4
<1>11. BlockAt(enc, n, i, 2) = b  BY <1>9 DEF BlockAt, Cut, start, l
<1>12. CrcMatches(enc, n, i)
  BY <1>1, <1>10, <1>11 DEF CrcMatches, Cut, c, start
<1> QED  BY <1>11, <1>12 DEF enc, b

(* Blocks round trip.                                                       *)
LEMMA BlocksRoundTrip ==
  ASSUME NEW data \in Seq(Octet)
  PROVE  DecodeCrcBlocks(EncodeCrcBlocks(data), Len(data)) = <<data>>
<1> DEFINE n == Len(data)
           enc == EncodeCrcBlocks(data)
<1>1. n \in Nat  OBVIOUS
<1>2. Len(enc) = n + 2 * BlockCount(n)  BY <1>1, EncodedBlocks
<1>3. \A i \in 1 .. BlockCount(n) : /\ CrcMatches(enc, n, i)
                                    /\ BlockAt(enc, n, i, 2) = BlockAt(data, n, i, 0)
  BY <1>1, BlockFound
<1>4. [i \in 1 .. BlockCount(n) |-> BlockAt(enc, n, i, 2)] = BlocksOf(data, n, 0)
  BY <1>3 DEF BlocksOf
<1>5. FlattenSeq(BlocksOf(data, n, 0)) = data  BY BlocksTogether
<1> QED  BY <1>2, <1>3, <1>4, <1>5 DEF DecodeCrcBlocks

(* What blocks decode to has the length that was asked for.                 *)
LEMMA DecodedBlocks ==
  ASSUME NEW o \in Seq(Octet), NEW n \in Nat
  PROVE  /\ DOMAIN DecodeCrcBlocks(o, n) \in {{}, {1}}
         /\ \A i \in DOMAIN DecodeCrcBlocks(o, n) :
               /\ DecodeCrcBlocks(o, n)[i] \in Seq(Octet)
               /\ Len(DecodeCrcBlocks(o, n)[i]) = n
         /\ DecodeCrcBlocks(o, n) = <<>> \/ Len(o) = n + 2 * BlockCount(n)
<1>1. CASE DecodeCrcBlocks(o, n) = <<>>  BY <1>1
<1>2. CASE DecodeCrcBlocks(o, n) # <<>>
  <2>1. Len(o) = n + 2 * BlockCount(n)  BY <1>2 DEF DecodeCrcBlocks
  <2>2. DecodeCrcBlocks(o, n) = <<FlattenSeq(BlocksOf(o, n, 2))>>
    BY <1>2 DEF DecodeCrcBlocks, BlocksOf
  <2>3. FlattenSeq(BlocksOf(o, n, 2)) \in Seq(Octet) /\ Len(FlattenSeq(BlocksOf(o, n, 2))) = n
    <3>1. 2 \in Nat  OBVIOUS
    <3> QED  BY <2>1, <3>1, BlocksFlat
  <2> QED  BY <2>1, <2>2, <2>3
<1> QED  BY <1>1, <1>2

-----------------------------------------------------------------------------
(* The sequence of a set of one element or none.                            *)
LEMMA SequenceOfOne ==
  ASSUME NEW x
  PROVE  SetToSeq({x}) = <<x>>
<1>1. Cardinality({x}) = 1  BY FS_Singleton
<1>2. <<x>> \in [1 .. 1 -> {x}] /\ IsInjective(<<x>>)  BY DEF IsInjective
<1>3. \A f \in [1 .. 1 -> {x}] : f = <<x>>  OBVIOUS
<1>4. SetToSeq({x}) = CHOOSE f \in [1 .. 1 -> {x}] : IsInjective(f)
  BY <1>1 DEF SetToSeq
<1> QED  BY <1>2, <1>3, <1>4

LEMMA SequenceOfNone == SetToSeq({}) = <<>>
<1>1. Cardinality({}) = 0  BY FS_EmptySet
<1>2. <<>> \in [1 .. 0 -> {}] /\ IsInjective(<<>>)  BY DEF IsInjective
<1>3. \A f \in [1 .. 0 -> {}] : f = <<>>  OBVIOUS
<1>4. SetToSeq({}) = CHOOSE f \in [1 .. 0 -> {}] : IsInjective(f)
  BY <1>1 DEF SetToSeq
<1> QED  BY <1>2, <1>3, <1>4

-----------------------------------------------------------------------------
(* The control octet of a frame.                                            *)
LEMMA CodesDiffer ==
  /\ \A f \in PrimaryFunction : PrimaryCode[f] \in Nat /\ PrimaryCode[f] <= 15
  /\ \A f \in SecondaryFunction : SecondaryCode[f] \in Nat /\ SecondaryCode[f] <= 15
  /\ \A f, g \in PrimaryFunction : PrimaryCode[f] = PrimaryCode[g] => f = g
  /\ \A f, g \in SecondaryFunction : SecondaryCode[f] = SecondaryCode[g] => f = g
  /\ PrimaryFunction \cap SecondaryFunction = {}
BY DEF PrimaryFunction, SecondaryFunction, PrimaryCode, SecondaryCode

LEMMA FunctionOfOctet ==
  ASSUME NEW octet
  PROVE  /\ FunctionsOf(octet) \subseteq PrimaryFunction \cup SecondaryFunction
         /\ \A f, g \in FunctionsOf(octet) : f = g
BY CodesDiffer DEF FunctionsOf

LEMMA ControlDecoded ==
  ASSUME NEW octet, DecodeControl(octet) # <<>>
  PROVE  DecodeControl(octet)[1] \in ControlField
<1> DEFINE F == FunctionsOf(octet)
           C(f) == Control(IF IsBitSet(octet, 128) THEN "OutstationToMaster"
                           ELSE "MasterToOutstation",
                           f, IsBitSet(octet, 32), IsBitSet(octet, 16))
<1>1. DecodeControl(octet) = SetToSeq({C(f) : f \in F})  BY DEF DecodeControl
<1>2. F # {}
  <2> SUFFICES ASSUME F = {} PROVE FALSE
    OBVIOUS
  <2>1. {C(f) : f \in F} = {}  OBVIOUS
  <2> QED  BY <1>1, <2>1, SequenceOfNone
<1>3. PICK f \in F : F = {f}  BY <1>2, FunctionOfOctet
<1>4. {C(g) : g \in F} = {C(f)}  BY <1>3
<1>5. DecodeControl(octet) = <<C(f)>>  BY <1>1, <1>4, SequenceOfOne
<1>6. C(f) \in ControlField
  <2>1. f \in PrimaryFunction \cup SecondaryFunction  BY FunctionOfOctet
  <2> QED  BY <2>1 DEF Control, ControlField, Direction, IsBitSet
<1> QED  BY <1>5, <1>6

LEMMA ControlRoundTrip ==
  ASSUME NEW c \in ControlField
  PROVE  EncodeControl(c) \in Octet /\ DecodeControl(EncodeControl(c)) = <<c>>
<1> DEFINE d == IF c.direction = "OutstationToMaster" THEN 1 ELSE 0
           p == IF c.function \in PrimaryFunction THEN 1 ELSE 0
           b == IF c.fcb THEN 1 ELSE 0
           v == IF c.fcv THEN 1 ELSE 0
           code == IF c.function \in PrimaryFunction THEN PrimaryCode[c.function]
                   ELSE SecondaryCode[c.function]
           n == EncodeControl(c)
<1>1. /\ c.direction \in Direction /\ c.fcb \in BOOLEAN /\ c.fcv \in BOOLEAN
      /\ c.function \in PrimaryFunction \cup SecondaryFunction
      /\ c = Control(c.direction, c.function, c.fcb, c.fcv)
  BY DEF ControlField, Control
<1>2. d \in {0, 1} /\ p \in {0, 1} /\ b \in {0, 1} /\ v \in {0, 1}  OBVIOUS
<1>3. code \in Nat /\ code <= 15  BY <1>1, CodesDiffer
<1>4. n = 128 * d + 64 * p + 32 * b + 16 * v + code
  <2>1. Bit(c.direction = "OutstationToMaster", 128) = 128 * d  BY DEF Bit
  <2>2. Bit(c.function \in PrimaryFunction, 64) = 64 * p  BY DEF Bit
  <2>3. Bit(c.fcb, 32) = 32 * b  BY DEF Bit
  <2>4. Bit(c.fcv, 16) = 16 * v  BY DEF Bit
  <2> QED  BY <2>1, <2>2, <2>3, <2>4 DEF EncodeControl
<1>f. /\ d = 1 <=> c.direction = "OutstationToMaster"
      /\ p = 1 <=> c.function \in PrimaryFunction
      /\ (b = 1) = c.fcb /\ (v = 1) = c.fcv
  BY <1>1
<1>c. p = 1 => code = PrimaryCode[c.function]  OBVIOUS
<1>s. p = 0 => code = SecondaryCode[c.function] /\ c.function \in SecondaryFunction
  BY <1>1
<1> HIDE DEF d, p, b, v, code, n
<1>5. n \in Nat /\ n <= 255  BY <1>2, <1>3, <1>4
<1>6. (n \div 128) % 2 = d
  <2>1. 0 \in Nat /\ 128 \in Nat /\ 128 > 0 /\ 64 * p + 32 * b + 16 * v + code \in Nat
        /\ 64 * p + 32 * b + 16 * v + code < 128
        /\ n = 128 * (2 * 0 + d) + (64 * p + 32 * b + 16 * v + code)
    BY <1>2, <1>3, <1>4
  <2> DEFINE lo == 64 * p + 32 * b + 16 * v + code
  <2> HIDE DEF lo
  <2> QED  BY <1>2, <2>1, App!BitIsThere DEF lo
<1>7. (n \div 64) % 2 = p
  <2> DEFINE lo == 32 * b + 16 * v + code
  <2>1. d \in Nat /\ 64 \in Nat /\ 64 > 0 /\ lo \in Nat /\ lo < 64 /\ n = 64 * (2 * d + p) + lo
    BY <1>2, <1>3, <1>4
  <2> HIDE DEF lo
  <2> QED  BY <1>2, <2>1, App!BitIsThere
<1>8. (n \div 32) % 2 = b
  <2> DEFINE lo == 16 * v + code
             hi == 2 * d + p
  <2>1. hi \in Nat /\ 32 \in Nat /\ 32 > 0 /\ lo \in Nat /\ lo < 32 /\ n = 32 * (2 * hi + b) + lo
    BY <1>2, <1>3, <1>4
  <2> HIDE DEF lo, hi
  <2> QED  BY <1>2, <2>1, App!BitIsThere
<1>9. (n \div 16) % 2 = v
  <2> DEFINE hi == 4 * d + 2 * p + b
  <2>1. hi \in Nat /\ 16 \in Nat /\ 16 > 0 /\ code < 16 /\ n = 16 * (2 * hi + v) + code
    BY <1>2, <1>3, <1>4
  <2> HIDE DEF hi
  <2> QED  BY <1>2, <1>3, <2>1, App!BitIsThere
<1>10. n % 16 = code
  <2> DEFINE q == 8 * d + 4 * p + 2 * b + v
  <2>1. q \in Int /\ 16 \in Nat /\ 16 > 0 /\ code \in 0 .. 16 - 1 /\ n = 16 * q + code
    BY <1>2, <1>3, <1>4
  <2> HIDE DEF q
  <2> QED  BY <1>5, <2>1, App!ModUnique
<1>11. FunctionsOf(n) = {c.function}
  <2>1. CASE p = 1
    <3>1. FunctionsOf(n) = {f \in PrimaryFunction : PrimaryCode[f] = code}
      BY <1>7, <1>10, <2>1 DEF FunctionsOf, IsBitSet
    <3> QED  BY <1>c, <1>f, <2>1, <3>1, CodesDiffer
  <2>2. CASE p = 0
    <3>1. FunctionsOf(n) = {f \in SecondaryFunction : SecondaryCode[f] = code}
      BY <1>7, <1>10, <2>2 DEF FunctionsOf, IsBitSet
    <3> QED  BY <1>s, <2>2, <3>1, CodesDiffer
  <2> QED  BY <1>2, <2>1, <2>2
<1>12. /\ c.direction = IF IsBitSet(n, 128) THEN "OutstationToMaster" ELSE "MasterToOutstation"
       /\ IsBitSet(n, 32) = c.fcb /\ IsBitSet(n, 16) = c.fcv
  <2>1. /\ IsBitSet(n, 128) = (d = 1) /\ IsBitSet(n, 32) = (b = 1) /\ IsBitSet(n, 16) = (v = 1)
    BY <1>6, <1>8, <1>9 DEF IsBitSet
  <2>2. c.direction = IF d = 1 THEN "OutstationToMaster" ELSE "MasterToOutstation"
    BY <1>1, <1>f DEF Direction
  <2>3. c.direction = IF IsBitSet(n, 128) THEN "OutstationToMaster" ELSE "MasterToOutstation"
    BY <2>1, <2>2
  <2>4. IsBitSet(n, 32) = c.fcb /\ IsBitSet(n, 16) = c.fcv  BY <1>f, <2>1, Zenon
  <2> QED  BY <2>3, <2>4
<1> DEFINE C(f) == Control(IF IsBitSet(n, 128) THEN "OutstationToMaster"
                           ELSE "MasterToOutstation",
                           f, IsBitSet(n, 32), IsBitSet(n, 16))
<1>13. C(c.function) = c  BY <1>1, <1>12
<1>14. DecodeControl(n) = SetToSeq({C(f) : f \in FunctionsOf(n)})  BY DEF DecodeControl
<1> HIDE DEF C
<1>15. {C(f) : f \in FunctionsOf(n)} = {c}  BY <1>11, <1>13
<1>16. DecodeControl(n) = <<c>>  BY <1>14, <1>15, SequenceOfOne
<1>17. n \in Octet  BY <1>5, OctetRange
<1> QED  BY <1>16, <1>17 DEF n

-----------------------------------------------------------------------------
(* A frame and its octets.                                                  *)
Header(f) ==
    Cat(Cat(StartBytes, <<MinLengthField + Len(f.payload), EncodeControl(f.control)>>),
        Cat(LittleEndian(f.destination), LittleEndian(f.source)))

LEMMA FrameFields ==
  ASSUME NEW f \in AnyFrame
  PROVE  /\ f.control \in ControlField /\ f.destination \in Word /\ f.source \in Word
         /\ f.payload \in Seq(Octet) /\ Len(f.payload) \in Nat /\ Len(f.payload) <= 250
         /\ f = LinkFrame(f.control, f.destination, f.source, f.payload)
<1>1. PayloadLimit = 250  BY SMT DEF PayloadLimit, MaxLengthField, MinLengthField
<1>2. /\ f.control \in ControlField /\ f.destination \in Word /\ f.source \in Word
      /\ f.payload \in Seq(Octet) /\ Len(f.payload) <= PayloadLimit
      /\ f = LinkFrame(f.control, f.destination, f.source, f.payload)
  BY DEF AnyFrame, LinkFrame
<1> QED  BY <1>1, <1>2

LEMMA HeaderParts ==
  ASSUME NEW f \in AnyFrame
  PROVE  /\ Header(f) \in Seq(Octet) /\ Len(Header(f)) = 8
         /\ Header(f)[3] = MinLengthField + Len(f.payload)
         /\ Header(f)[4] = EncodeControl(f.control)
         /\ Cut(Header(f), 1, 2) = StartBytes
         /\ Cut(Header(f), 5, 6) = LittleEndian(f.destination)
         /\ Cut(Header(f), 7, 8) = LittleEndian(f.source)
<1> DEFINE a == StartBytes
           l == MinLengthField + Len(f.payload)
           k == EncodeControl(f.control)
           b == <<l, k>>
           d == LittleEndian(f.destination)
           s == LittleEndian(f.source)
           ab == Cat(a, b)
           ds == Cat(d, s)
<1>1. /\ f.control \in ControlField /\ f.destination \in Word /\ f.source \in Word
      /\ Len(f.payload) \in Nat /\ Len(f.payload) <= 250
  BY FrameFields
<1>2. a \in Seq(Octet) /\ Len(a) = 2
  <2>1. a = <<5, 100>> /\ 5 \in Octet /\ 100 \in Octet  BY OctetRange DEF StartBytes
  <2> HIDE DEF a
  <2> QED  BY <2>1
<1>3. b \in Seq(Octet) /\ Len(b) = 2 /\ b[1] = l /\ b[2] = k
  <2>1. k \in Octet  BY <1>1, ControlRoundTrip
  <2>2. l \in Nat /\ l <= 255  BY <1>1 DEF MinLengthField
  <2>3. l \in Octet  BY <2>2, OctetRange
  <2> HIDE DEF l, k
  <2> QED  BY <2>1, <2>3
<1>4. d \in Seq(Octet) /\ Len(d) = 2 /\ s \in Seq(Octet) /\ Len(s) = 2
  BY <1>1, LittleEndianInverse
<1> HIDE DEF a, b, d, s, l, k
<1>5. ab \in Seq(Octet) /\ Len(ab) = 4 /\ ds \in Seq(Octet) /\ Len(ds) = 4
  <2>1. CatTyped(a, b) /\ CatTyped(d, s)  BY Cats
  <2> QED  BY <1>2, <1>3, <1>4, <2>1 DEF CatTyped
<1>6. Header(f) = Cat(ab, ds)  BY DEF Header, a, b, d, s, l, k
<1>7. Cut(ab, 1, 2) = a /\ ab[3] = l /\ ab[4] = k
  <2>1. CutFirst(a, b, 1, 2) /\ CutWhole(a, 2) /\ CatAt(a, b, 3) /\ CatAt(a, b, 4)
    BY Cats, Cuts
  <2>2. Within(a, 1, 2)  BY <1>2 DEF Within
  <2>3. 3 \in 1 .. 4 /\ 4 \in 1 .. 4 /\ ~ (3 <= 2) /\ ~ (4 <= 2) /\ 3 - 2 = 1 /\ 4 - 2 = 2
    OBVIOUS
  <2> QED  BY <1>2, <1>3, <2>1, <2>2, <2>3 DEF CutFirst, CutWhole, CatAt
<1>8. Cut(ds, 1, 2) = d /\ Cut(ds, 3, 4) = s
  <2>1. CutFirst(d, s, 1, 2) /\ CutWhole(d, 2) /\ CutSecond(d, s, 1, 2, 3, 4) /\ CutWhole(s, 2)
    BY Cuts, SecondCut
  <2>2. Within(d, 1, 2) /\ Within(s, 1, 2)  BY <1>4 DEF Within
  <2> QED  BY <1>4, <2>1, <2>2 DEF CutFirst, CutWhole, CutSecond
<1> HIDE DEF ab, ds
<1>9. /\ CatTyped(ab, ds) /\ CatAt(ab, ds, 3) /\ CatAt(ab, ds, 4) /\ CutFirst(ab, ds, 1, 2)
      /\ CutSecond(ab, ds, 1, 2, 5, 6) /\ CutSecond(ab, ds, 3, 4, 7, 8)
  BY Cats, Cuts, SecondCut
<1>10. Header(f) \in Seq(Octet) /\ Len(Header(f)) = 8
  BY <1>5, <1>6, <1>9 DEF CatTyped
<1>11. Header(f)[3] = l /\ Header(f)[4] = k
  <2>1. 3 \in 1 .. Len(ab) + Len(ds) /\ 4 \in 1 .. Len(ab) + Len(ds) /\ 3 <= Len(ab)
        /\ 4 <= Len(ab)
    BY <1>5
  <2> QED  BY <1>5, <1>6, <1>7, <1>9, <2>1 DEF CatAt
<1>12. Within(ab, 1, 2) /\ Within(ds, 1, 2) /\ Within(ds, 3, 4)  BY <1>5 DEF Within
<1>13. Cut(Header(f), 1, 2) = a  BY <1>5, <1>6, <1>7, <1>9, <1>12 DEF CutFirst
<1>14. Cut(Header(f), 5, 6) = d /\ Cut(Header(f), 7, 8) = s
  BY <1>5, <1>6, <1>8, <1>9, <1>12 DEF CutSecond
<1> QED  BY <1>10, <1>11, <1>13, <1>14 DEF a, d, s, l, k

LEMMA FrameParts ==
  ASSUME NEW f \in AnyFrame
  PROVE  /\ EncodeFrame(f)
              = Cat(Header(f), Cat(CrcOctets(Header(f)), EncodeCrcBlocks(f.payload)))
         /\ CrcOctets(Header(f)) \in Seq(Octet) /\ Len(CrcOctets(Header(f))) = 2
         /\ EncodeCrcBlocks(f.payload) \in Seq(Octet)
         /\ Len(EncodeCrcBlocks(f.payload)) = EncodedPayloadLen(Len(f.payload))
<1> DEFINE a == StartBytes
           b == <<MinLengthField + Len(f.payload), EncodeControl(f.control)>>
           d == LittleEndian(f.destination)
           s == LittleEndian(f.source)
           h == Header(f)
           c == CrcOctets(Header(f))
           p == EncodeCrcBlocks(f.payload)
<1>1. /\ f.control \in ControlField /\ f.destination \in Word /\ f.source \in Word
      /\ f.payload \in Seq(Octet) /\ Len(f.payload) \in Nat /\ Len(f.payload) <= 250
  BY FrameFields
<1>2. a \in Seq(Octet)
  <2>1. a = <<5, 100>> /\ 5 \in Octet /\ 100 \in Octet  BY OctetRange DEF StartBytes
  <2> HIDE DEF a
  <2> QED  BY <2>1
<1>3. b \in Seq(Octet)
  <2>1. EncodeControl(f.control) \in Octet  BY <1>1, ControlRoundTrip
  <2> DEFINE l == MinLengthField + Len(f.payload)
  <2>2. l \in Nat /\ l <= 255  BY <1>1 DEF MinLengthField
  <2>3. l \in Octet  BY <2>2, OctetRange
  <2> HIDE DEF l
  <2>4. <<l, EncodeControl(f.control)>> \in Seq(Octet)  BY <2>1, <2>3
  <2> QED  BY <2>4 DEF l
<1>4. d \in Seq(Octet) /\ s \in Seq(Octet)  BY <1>1, LittleEndianInverse
<1>5. c \in Seq(Octet) /\ Len(c) = 2 /\ h \in Seq(Octet)  BY HeaderParts, CrcOctetsType
<1>6. p \in Seq(Octet) /\ Len(p) = EncodedPayloadLen(Len(f.payload))
  <2>1. EncodeCrcBlocks(f.payload) \in Seq(Octet)
        /\ Len(EncodeCrcBlocks(f.payload)) = Len(f.payload) + 2 * BlockCount(Len(f.payload))
    BY <1>1, EncodedBlocks
  <2> QED  BY <2>1 DEF EncodedPayloadLen
<1>7. h = ((a \o b) \o d) \o s
  <2>1. h = Cat(Cat(a, b), Cat(d, s))  BY DEF Header
  <2> HIDE DEF a, b, d, s, h
  <2>2. CatTyped(a, b) /\ Regroups(Cat(a, b), d, s)  BY Cats
  <2>3. Cat(a, b) \in Seq(Octet)  BY <1>2, <1>3, <2>2 DEF CatTyped
  <2>4. h = Cat(Cat(Cat(a, b), d), s)  BY <1>4, <2>1, <2>2, <2>3 DEF Regroups
  <2> QED  BY <2>4 DEF Cat
<1>8. EncodeFrame(f) = (h \o c) \o p  BY <1>7 DEF EncodeFrame
<1> HIDE DEF h, c, p
<1>9. Cat(Cat(h, c), p) = Cat(h, Cat(c, p))
  <2>1. Regroups(h, c, p)  BY Cats
  <2> QED  BY <1>5, <1>6, <2>1 DEF Regroups
<1>10. EncodeFrame(f) = Cat(h, Cat(c, p))  BY <1>8, <1>9 DEF Cat
<1> QED  BY <1>5, <1>6, <1>10 DEF h, c, p

LEMMA FrameOctets ==
  ASSUME NEW f \in AnyFrame, NEW o, o = EncodeFrame(f), NEW n, n = Len(f.payload)
  PROVE  /\ o \in Seq(Octet) /\ Len(o) = HeaderOctets + EncodedPayloadLen(n)
         /\ EncodedPayloadLen(n) \in Nat
         /\ Cut(o, 1, 2) = StartBytes
         /\ o[3] = MinLengthField + n
         /\ o[4] = EncodeControl(f.control)
         /\ Cut(o, 5, 6) = LittleEndian(f.destination)
         /\ Cut(o, 7, 8) = LittleEndian(f.source)
         /\ Cut(o, 1, 8) = Header(f)
         /\ Cut(o, 9, 10) = CrcOctets(Header(f))
         /\ Cut(o, 11, Len(o)) = EncodeCrcBlocks(f.payload)
<1> DEFINE h == Header(f)
           c == CrcOctets(Header(f))
           p == EncodeCrcBlocks(f.payload)
           l == EncodedPayloadLen(n)
<1>1. /\ h \in Seq(Octet) /\ Len(h) = 8
      /\ h[3] = MinLengthField + n /\ h[4] = EncodeControl(f.control)
      /\ Cut(h, 1, 2) = StartBytes
      /\ Cut(h, 5, 6) = LittleEndian(f.destination)
      /\ Cut(h, 7, 8) = LittleEndian(f.source)
  BY HeaderParts
<1>2. /\ o = Cat(h, Cat(c, p)) /\ c \in Seq(Octet) /\ Len(c) = 2
      /\ p \in Seq(Octet) /\ Len(p) = l
  BY FrameParts
<1> HIDE DEF h, c, p, l
<1>3. l \in Nat  BY <1>2
<1>4. Cat(c, p) \in Seq(Octet) /\ Len(Cat(c, p)) = 2 + l
  <2>1. CatTyped(c, p)  BY Cats
  <2> QED  BY <1>2, <2>1 DEF CatTyped
<1>5. o \in Seq(Octet) /\ Len(o) = 10 + l
  <2>1. CatTyped(h, Cat(c, p))  BY Cats
  <2>2. 8 + (2 + l) = 10 + l  BY <1>3
  <2> QED  BY <1>1, <1>2, <1>4, <2>1, <2>2 DEF CatTyped
<1>6. o[3] = h[3] /\ o[4] = h[4]
  <2>1. CatAt(h, Cat(c, p), 3) /\ CatAt(h, Cat(c, p), 4)  BY Cats
  <2>2. 3 \in 1 .. 8 + (2 + l) /\ 4 \in 1 .. 8 + (2 + l) /\ 3 <= 8 /\ 4 <= 8  BY <1>3
  <2> QED  BY <1>1, <1>2, <1>4, <2>1, <2>2 DEF CatAt
<1>7. /\ Cut(o, 1, 2) = Cut(h, 1, 2) /\ Cut(o, 5, 6) = Cut(h, 5, 6)
      /\ Cut(o, 7, 8) = Cut(h, 7, 8) /\ Cut(o, 1, 8) = h
  <2>1. Within(h, 1, 2) /\ Within(h, 5, 6) /\ Within(h, 7, 8) /\ Within(h, 1, 8)
    BY <1>1 DEF Within
  <2>2. /\ CutFirst(h, Cat(c, p), 1, 2) /\ CutFirst(h, Cat(c, p), 5, 6)
        /\ CutFirst(h, Cat(c, p), 7, 8) /\ CutFirst(h, Cat(c, p), 1, 8)
    BY Cuts
  <2>3. CutWhole(h, 8)  BY Cuts
  <2>4. Cut(h, 1, 8) = h  BY <1>1, <2>3 DEF CutWhole
  <2> QED  BY <1>2, <1>4, <2>1, <2>2, <2>4 DEF CutFirst
<1>8. Cut(o, 9, 10) = c
  <2>1. CutMiddle(h, c, p, 1, 2, 9, 10)  BY MiddleCut
  <2>2. CutWhole(c, 2)  BY Cuts
  <2>3. Within(c, 1, 2)  BY <1>2 DEF Within
  <2>4. Cut(c, 1, 2) = c  BY <1>2, <2>2 DEF CutWhole
  <2> QED  BY <1>1, <1>2, <2>1, <2>3, <2>4 DEF CutMiddle
<1>9. Cut(o, 11, Len(o)) = p
  <2> DEFINE hc == Cat(h, c)
             e == 10 + l
  <2>1. CatTyped(h, c) /\ Regroups(h, c, p)  BY Cats
  <2>2. hc \in Seq(Octet) /\ Len(hc) = 10  BY <1>1, <1>2, <2>1 DEF CatTyped
  <2>3. o = Cat(hc, p)  BY <1>1, <1>2, <2>1 DEF Regroups
  <2> HIDE DEF hc, e
  <2>4. CutSecond(hc, p, 1, l, 11, e) /\ CutWhole(p, l)  BY SecondCut, Cuts
  <2>5. Within(p, 1, l)  BY <1>2, <1>3 DEF Within
  <2>6. 11 = 10 + 1 /\ e = 10 + l  BY DEF e
  <2>7. Cut(p, 1, l) = p  BY <1>2, <2>4 DEF CutWhole
  <2>8. Cut(o, 11, e) = p  BY <2>2, <2>3, <2>4, <2>5, <2>6, <2>7 DEF CutSecond
  <2> QED  BY <1>5, <2>6, <2>8
<1>10. HeaderOctets + l = 10 + l  BY DEF HeaderOctets
<1> QED  BY <1>1, <1>3, <1>5, <1>6, <1>7, <1>8, <1>9, <1>10 DEF h, c, p, l

LEMMA FrameRoundTrip ==
  ASSUME NEW f \in AnyFrame
  PROVE  DecodeFrame(EncodeFrame(f)) = <<f>>
<1> DEFINE o == EncodeFrame(f)
           n == Len(f.payload)
<1> HIDE DEF o, n
<1>1. /\ f.control \in ControlField /\ f.destination \in Word /\ f.source \in Word
      /\ f.payload \in Seq(Octet) /\ n \in Nat
      /\ f = LinkFrame(f.control, f.destination, f.source, f.payload)
  BY FrameFields DEF n
<1>2. /\ o \in Seq(Octet) /\ Len(o) = HeaderOctets + EncodedPayloadLen(n)
      /\ EncodedPayloadLen(n) \in Nat
      /\ SubSeq(o, 1, 2) = StartBytes
      /\ o[3] = MinLengthField + n
      /\ o[4] = EncodeControl(f.control)
      /\ SubSeq(o, 5, 6) = LittleEndian(f.destination)
      /\ SubSeq(o, 7, 8) = LittleEndian(f.source)
      /\ SubSeq(o, 1, 8) = Header(f)
      /\ SubSeq(o, 9, 10) = CrcOctets(Header(f))
      /\ SubSeq(o, 11, Len(o)) = EncodeCrcBlocks(f.payload)
  BY FrameOctets DEF Cut, o, n
<1>3. DecodeControl(o[4]) = <<f.control>>  BY <1>1, <1>2, ControlRoundTrip
<1>4. o[3] - MinLengthField = n /\ o[3] >= MinLengthField /\ Len(o) >= HeaderOctets
  BY <1>1, <1>2 DEF MinLengthField, HeaderOctets
<1> DEFINE payload == DecodeCrcBlocks(SubSeq(o, 11, Len(o)), o[3] - MinLengthField)
<1>5. payload = <<f.payload>>
  BY <1>1, <1>2, <1>4, BlocksRoundTrip DEF n
<1>6. DecodeFrame(o) = [i \in DOMAIN payload |->
                          LinkFrame(DecodeControl(o[4])[1],
                                    FromLittleEndian(SubSeq(o, 5, 6)),
                                    FromLittleEndian(SubSeq(o, 7, 8)), payload[i])]
  <2>1. DecodeControl(o[4]) # <<>>  BY <1>3
  <2> HIDE DEF payload
  <2>2. SubSeq(o, 9, 10) = CrcOctets(SubSeq(o, 1, 8))  BY <1>2
  <2>3. PlausibleHeader(o)  BY <1>2, <1>4 DEF PlausibleHeader
  <2> QED  BY <1>4, <2>1, <2>2, <2>3 DEF DecodeFrame, payload
<1> HIDE DEF payload
<1>7. DecodeControl(o[4])[1] = f.control  BY <1>3
<1>8. /\ FromLittleEndian(SubSeq(o, 5, 6)) = f.destination
      /\ FromLittleEndian(SubSeq(o, 7, 8)) = f.source
  BY <1>1, <1>2, LittleEndianInverse
<1>9. DecodeFrame(o) = [i \in DOMAIN payload |->
                          LinkFrame(f.control, f.destination, f.source, payload[i])]
  BY <1>6, <1>7, <1>8
<1>10. DOMAIN payload = {1} /\ payload[1] = f.payload  BY <1>5
<1>11. DecodeFrame(o) = [i \in {1} |-> f]  BY <1>1, <1>9, <1>10
<1>12. [i \in {1} |-> f] = <<f>>
  <2>1. 1 .. 1 = {1}  OBVIOUS
  <2>2. ASSUME NEW x PROVE [i \in 1 .. 1 |-> x] = <<x>>  OBVIOUS
  <2> QED  BY <2>1, <2>2
<1> QED  BY <1>11, <1>12 DEF o

-----------------------------------------------------------------------------
(* Every frame that a program can build decodes to itself, whatever its     *)
(* payload, and takes the octets that read_frame asks the line for.         *)
FrameTyped == frame = None \/ (frame \in AnyFrame /\ Len(frame.payload) <= MaxPayload)

LEMMA BuildingTyped == Building => []FrameTyped
<1>1. Begin => FrameTyped
  <2> SUFFICES ASSUME Begin, frame # None PROVE FrameTyped
    BY DEF FrameTyped
  <2>1. PICK control \in ControlField : frame = LinkFrame(control, 10, 1024, <<>>)
    BY Zenon DEF Begin
  <2>2. 10 \in Word /\ 1024 \in Word  BY WordRange
  <2>3. <<>> \in Seq(Octet) /\ Len(<<>>) = 0  OBVIOUS
  <2>4. PayloadLimit = 250  BY SMT DEF PayloadLimit, MaxLengthField, MinLengthField
  <2>5. MaxPayload \in Nat  BY <2>4, AlphabetAssumption
  <2>6. frame \in AnyFrame  BY <2>1, <2>2, <2>3, <2>4 DEF AnyFrame, LinkFrame
  <2>7. Len(frame.payload) = 0  BY <2>1, <2>3 DEF LinkFrame
  <2> QED  BY <2>5, <2>6, <2>7 DEF FrameTyped
<1>2. FrameTyped /\ [Grow]_<<frame, fragment>> => FrameTyped'
  <2> SUFFICES ASSUME FrameTyped, [Grow]_<<frame, fragment>> PROVE FrameTyped'
    OBVIOUS
  <2>1. CASE UNCHANGED <<frame, fragment>>  BY <2>1 DEF FrameTyped
  <2>2. CASE AddObject  BY <2>2 DEF FrameTyped, AddObject
  <2>3. CASE AddOctet
    <3>1. PICK o \in Alphabet : frame' = [frame EXCEPT !.payload = Append(@, o)]
      BY <2>3 DEF AddOctet
    <3>2. frame \in AnyFrame /\ Len(frame.payload) < MaxPayload
      BY <2>3 DEF AddOctet, FrameTyped
    <3>3. o \in Octet  BY AlphabetAssumption
    <3>4. PayloadLimit = 250 /\ MaxPayload \in Nat /\ MaxPayload <= PayloadLimit
      <4>1. PayloadLimit = 250  BY SMT DEF PayloadLimit, MaxLengthField, MinLengthField
      <4> QED  BY <4>1, AlphabetAssumption
    <3> DEFINE p == frame.payload
               q == Append(p, o)
    <3>5. p \in Seq(Octet) /\ Len(p) < MaxPayload  BY <3>2, FrameFields
    <3> HIDE DEF p
    <3>6. q \in Seq(Octet) /\ Len(q) = Len(p) + 1  BY <3>3, <3>5, AppendProperties
    <3> HIDE DEF q
    <3>7. Len(q) <= MaxPayload /\ Len(q) <= PayloadLimit  BY <3>4, <3>5, <3>6
    <3>8. frame' = [frame EXCEPT !.payload = q]  BY <3>1 DEF q, p
    <3>9. frame' \in AnyFrame /\ frame'.payload = q
      BY <3>2, <3>6, <3>7, <3>8 DEF AnyFrame
    <3> QED  BY <3>7, <3>9 DEF FrameTyped
  <2> QED  BY <2>1, <2>2, <2>3 DEF Grow
<1> QED  BY <1>1, <1>2, PTL DEF Building

THEOREM FramesRead == Building => []FramesRoundTrip
<1>1. FrameTyped => FramesRoundTrip
  <2> SUFFICES ASSUME frame \in AnyFrame
               PROVE  /\ DecodeFrame(EncodeFrame(frame)) = <<frame>>
                      /\ Len(EncodeFrame(frame)) = HeaderOctets
                            + EncodedPayloadLen(EncodeFrame(frame)[3] - MinLengthField)
    BY DEF FrameTyped, FramesRoundTrip
  <2> DEFINE o == EncodeFrame(frame)
             n == Len(frame.payload)
  <2>1. Len(o) = HeaderOctets + EncodedPayloadLen(n) /\ o[3] = MinLengthField + n
    BY FrameOctets
  <2>2. n \in Nat  BY FrameFields
  <2> HIDE DEF o, n
  <2>3. o[3] - MinLengthField = n  BY <2>1, <2>2 DEF MinLengthField
  <2> QED  BY <2>1, <2>3, FrameRoundTrip DEF o
<1> QED  BY <1>1, BuildingTyped, PTL

-----------------------------------------------------------------------------
(* What a decoder returns is a frame, or nothing.                           *)
LEMMA LimitIs == PayloadLimit = 250
BY SMT DEF PayloadLimit, MaxLengthField, MinLengthField

LEMMA DecodedFrames ==
  ASSUME NEW o \in Seq(Octet)
  PROVE  DecodeFrame(o) \in Seq(AnyFrame)
<1>1. CASE DecodeFrame(o) = <<>>  BY <1>1
<1>2. CASE DecodeFrame(o) # <<>>
  <2> DEFINE k == DecodeControl(o[4])
             d == FromLittleEndian(SubSeq(o, 5, 6))
             s == FromLittleEndian(SubSeq(o, 7, 8))
             rest == SubSeq(o, 11, Len(o))
             n == o[3] - MinLengthField
             ps == DecodeCrcBlocks(rest, n)
  <2>1. /\ Len(o) >= HeaderOctets /\ PlausibleHeader(o) /\ k # <<>>
        /\ DecodeFrame(o) = [i \in DOMAIN ps |-> LinkFrame(k[1], d, s, ps[i])]
    BY <1>2 DEF DecodeFrame
  <2>2. k[1] \in ControlField  BY <2>1, ControlDecoded
  <2>3. Len(o) \in Nat /\ Len(o) >= 10  BY <2>1 DEF HeaderOctets
  <2>4. d \in Word /\ s \in Word
    <3>1. CutTyped(o, 5, 6) /\ CutTyped(o, 7, 8)  BY Cuts
    <3>2. Within(o, 5, 6) /\ Within(o, 7, 8)  BY <2>3 DEF Within
    <3>3. /\ Cut(o, 5, 6) \in Seq(Octet) /\ Len(Cut(o, 5, 6)) = 2
          /\ Cut(o, 7, 8) \in Seq(Octet) /\ Len(Cut(o, 7, 8)) = 2
      BY <3>1, <3>2 DEF CutTyped
    <3> QED  BY <3>3, FromLittleEndianType DEF Cut
  <2>5. n \in Nat /\ n <= 250
    <3>1. o[3] \in Octet
      <4>1. 3 \in 1 .. Len(o)  BY <2>3
      <4> QED  BY <4>1, ElementOfSeq
    <3>2. o[3] \in Nat /\ o[3] <= 255  BY <3>1, OctetRange
    <3> QED  BY <2>1, <3>2 DEF PlausibleHeader, MinLengthField
  <2>6. rest \in Seq(Octet)
    <3> DEFINE e == Len(o)
    <3> HIDE DEF e
    <3>1. Within(o, 11, e)  BY <2>3 DEF Within, e
    <3>2. CutTyped(o, 11, e)  BY Cuts
    <3>3. Cut(o, 11, e) \in Seq(Octet)  BY <3>1, <3>2 DEF CutTyped
    <3> QED  BY <3>3 DEF Cut, e
  <2> HIDE DEF k, d, s, rest, n
  <2>7. /\ DOMAIN ps \in {{}, {1}}
        /\ \A i \in DOMAIN ps : ps[i] \in Seq(Octet) /\ Len(ps[i]) = n
    BY <2>5, <2>6, DecodedBlocks
  <2> HIDE DEF ps
  <2>8. \A i \in DOMAIN ps : LinkFrame(k[1], d, s, ps[i]) \in AnyFrame
    BY <2>2, <2>4, <2>5, <2>7, LimitIs DEF LinkFrame, AnyFrame
  <2>9. 1 .. 0 = {} /\ 1 .. 1 = {1} /\ 0 \in Nat /\ 1 \in Nat  OBVIOUS
  <2>10. PICK l \in Nat : DOMAIN ps = 1 .. l  BY <2>7, <2>9
  <2> DEFINE fs == [i \in 1 .. l |-> LinkFrame(k[1], d, s, ps[i])]
  <2>11. fs \in [1 .. l -> AnyFrame]  BY <2>8, <2>10
  <2>12. fs \in Seq(AnyFrame)  BY <2>11, SeqDef
  <2> QED  BY <2>1, <2>10, <2>12
<1> QED  BY <1>1, <1>2

(* More octets take more blocks.                                            *)
LEMMA EncodedLengths ==
  ASSUME NEW m \in Nat, NEW n \in Nat, m <= n
  PROVE  EncodedPayloadLen(m) \in Nat /\ EncodedPayloadLen(m) <= EncodedPayloadLen(n)
<1>1. BlockCount(m) \in Nat /\ BlockCount(n) \in Nat  BY BlocksFit
<1>2. BlockCount(m) <= BlockCount(n)
  <2> DEFINE a == m + BlockSize - 1
             b == n + BlockSize - 1
             q == a \div BlockSize
             p == b \div BlockSize
  <2>0. BlockSize \in Nat /\ BlockSize > 0  OBVIOUS
  <2>1. a \in Nat /\ b \in Nat /\ a <= b  BY <2>0
  <2>2. q = BlockCount(m) /\ p = BlockCount(n)  BY DEF BlockCount
  <2> HIDE DEF a, b
  <2>3. /\ a = BlockSize * q + (a % BlockSize) /\ a % BlockSize \in 0 .. BlockSize - 1
        /\ b = BlockSize * p + (b % BlockSize) /\ b % BlockSize \in 0 .. BlockSize - 1
    BY <2>0, <2>1, App!DivMod
  <2> HIDE DEF q, p
  <2> SUFFICES ASSUME p < q PROVE FALSE
    BY <1>1, <2>2
  <2>4. p + 1 <= q /\ p \in Nat /\ q \in Nat /\ p + 1 \in Nat  BY <1>1, <2>2
  <2>5. BlockSize * (p + 1) <= BlockSize * q
    <3> DEFINE p1 == p + 1
    <3>1. p1 \in Nat /\ p1 <= q  BY <2>4
    <3> HIDE DEF p1
    <3>2. BlockSize * p1 <= BlockSize * q  BY <2>0, <2>4, <3>1, Monotone
    <3> QED  BY <3>2 DEF p1
  <2>6. BlockSize * (p + 1) = BlockSize * p + BlockSize /\ BlockSize * p \in Nat
        /\ BlockSize * q \in Nat
    BY <2>0, <2>4
  <2> DEFINE ra == a % BlockSize
             rb == b % BlockSize
             x == BlockSize * p
             y == BlockSize * q
  <2>7. /\ a = y + ra /\ ra \in Nat /\ b = x + rb /\ rb \in Nat /\ rb <= BlockSize - 1
        /\ x + BlockSize <= y /\ x \in Nat /\ y \in Nat
    BY <2>3, <2>5, <2>6
  <2> HIDE DEF ra, rb, x, y
  <2> QED  BY <2>0, <2>1, <2>7
<1> QED  BY <1>1, <1>2 DEF EncodedPayloadLen

-----------------------------------------------------------------------------
(* The frames that may be sent on a serial line.                            *)
Sendable == {Numbered(n, p) : n \in 1 .. MaxSent, p \in Payloads}

LEMMA SendableTyped ==
  ASSUME NEW f \in Sendable
  PROVE  f \in AnyFrame /\ Encoded[f.source][f.payload] = EncodeFrame(f)
<1>1. PICK n \in 1 .. MaxSent, p \in Payloads : f = Numbered(n, p)  BY DEF Sendable
<1>2. f.source = n /\ f.payload = p  BY <1>1 DEF Numbered, LinkFrame
<1>3. Encoded[n][p] = EncodeFrame(f)  BY <1>1 DEF Encoded
<1>4. n \in Word /\ 10 \in Word
  <2>1. MaxSent \in Nat /\ MaxSent <= 65535  BY BoundAssumption, WordRange
  <2>2. n \in Nat /\ n <= 65535  BY <2>1
  <2> QED  BY <2>2, WordRange
<1>5. f \in AnyFrame
  <2>1. p \in Seq(Octet) /\ Len(p) <= PayloadLimit  BY PayloadAssumption
  <2>2. Control("OutstationToMaster", "UnconfirmedUserData", FALSE, FALSE) \in ControlField
    BY DEF Control, ControlField, Direction, PrimaryFunction
  <2> QED  BY <1>1, <1>4, <2>1, <2>2 DEF AnyFrame, Numbered, LinkFrame
<1> QED  BY <1>2, <1>3, <1>5

(* Parts of a line.                                                         *)
LEMMA LineParts ==
  ASSUME NEW s \in Seq(Octet), NEW n \in Nat, n <= Len(s)
  PROVE  /\ Cut(s, 1, n) \in Seq(Octet) /\ Len(Cut(s, 1, n)) = n
         /\ Cut(s, n + 1, Len(s)) \in Seq(Octet) /\ Len(Cut(s, n + 1, Len(s))) = Len(s) - n
         /\ Cat(Cut(s, 1, n), Cut(s, n + 1, Len(s))) = s
<1> DEFINE e == Len(s)
           m == n + 1
<1>0. e \in Nat /\ e = Len(s) /\ m = n + 1 /\ n <= e  OBVIOUS
<1> HIDE DEF e, m
<1>1. CutTyped(s, 1, n) /\ CutTyped(s, m, e)  BY Cuts
<1>2. Within(s, 1, n) /\ Within(s, m, e)  BY <1>0 DEF Within
<1>3. /\ Cut(s, 1, n) \in Seq(Octet) /\ Len(Cut(s, 1, n)) = n
      /\ Cut(s, m, e) \in Seq(Octet) /\ Len(Cut(s, m, e)) = e - n
  BY <1>0, <1>1, <1>2 DEF CutTyped
<1>4. Cat(Cut(s, 1, n), Cut(s, m, e)) = s
  <2>1. n \in 0 .. Len(s)  BY <1>0
  <2>2. s = SubSeq(s, 1, n) \o SubSeq(s, n + 1, Len(s))  BY <2>1, TwoParts
  <2> QED  BY <1>0, <2>2 DEF Cat, Cut
<1> QED  BY <1>0, <1>3, <1>4

(* What TypeOK says of the header that is held.                             *)
Held(h) ==
    /\ h \in Seq(Octet)
    /\ Len(h) = HeaderOctets
    /\ SubSeq(h, 1, 2) = StartBytes
    /\ h[3] >= MinLengthField
    /\ RestLength(h) \in 1 .. EncodedPayloadLen(PayloadLimit)

LEMMA RestLengths ==
  ASSUME NEW h \in Seq(Octet), Len(h) = HeaderOctets, PlausibleHeader(h)
  PROVE  RestLength(h) \in Nat /\ RestLength(h) <= EncodedPayloadLen(PayloadLimit)
<1>1. h[3] \in Octet
  <2>1. 3 \in 1 .. Len(h)  BY DEF HeaderOctets
  <2> QED  BY <2>1, ElementOfSeq
<1>2. h[3] \in Nat /\ h[3] <= 255  BY <1>1, OctetRange
<1> DEFINE n == h[3] - MinLengthField
<1>3. n \in Nat /\ n <= 250 /\ 250 \in Nat
  BY <1>2 DEF PlausibleHeader, MinLengthField
<1> HIDE DEF n
<1>4. EncodedPayloadLen(n) \in Nat /\ EncodedPayloadLen(n) <= EncodedPayloadLen(250)
  BY <1>3, EncodedLengths
<1> QED  BY <1>4, LimitIs DEF RestLength, n

(* What the reader takes at once: the octets it needs, when they are there. *)
LEMMA TakenTyped ==
  ASSUME TypeOK
  PROVE  /\ Needed \in Nat
         /\ Len(line) \in Nat
         /\ Len(line) >= Needed =>
               /\ Taken \in Seq(Octet) /\ Len(Taken) = Needed
               /\ SubSeq(line, Needed + 1, Len(line)) \in Seq(Octet)
               /\ Cat(Taken, SubSeq(line, Needed + 1, Len(line))) = line
<1>1. line \in Seq(Octet) /\ (fixed = <<>> \/ Held(fixed))  BY DEF TypeOK, Held
<1>2. Needed \in Nat
  <2>1. CASE fixed = <<>>  BY <2>1 DEF Needed, HeaderOctets
  <2>2. CASE fixed # <<>>
    <3>1. Held(fixed)  BY <1>1, <2>2
    <3>2. RestLength(fixed) \in Nat  BY <3>1, RestLengths DEF Held, PlausibleHeader
    <3> QED  BY <2>2, <3>2 DEF Needed
  <2> QED  BY <2>1, <2>2
<1> DEFINE n == Needed
<1> HIDE DEF n
<1>3. Len(line) >= n => n <= Len(line) /\ n \in Nat  BY <1>1, <1>2 DEF n
<1>4. ASSUME Len(line) >= n
      PROVE  /\ Cut(line, 1, n) \in Seq(Octet) /\ Len(Cut(line, 1, n)) = n
             /\ Cut(line, n + 1, Len(line)) \in Seq(Octet)
             /\ Cat(Cut(line, 1, n), Cut(line, n + 1, Len(line))) = line
  BY <1>1, <1>3, <1>4, LineParts
<1>5. Len(line) \in Nat  BY <1>1
<1> QED  BY <1>2, <1>4, <1>5 DEF Cut, n, Taken

LEMMA ReaderStarts == Init => TypeOK
<1> SUFFICES ASSUME Init PROVE TypeOK
  OBVIOUS
<1>1. MaxSent \in Nat /\ MaxFaults \in Nat  BY BoundAssumption, WordRange
<1>2. <<>> \in Seq(Sendable) /\ <<>> \in Seq(Octet) /\ <<>> \in Seq(AnyFrame)
      /\ Len(<<>>) = 0 /\ DOMAIN <<>> = {}
  OBVIOUS
<1>3. 0 <= MaxSent /\ 0 \in 0 .. MaxFaults /\ 0 \in 0 .. 0  BY <1>1
<1> QED  BY <1>2, <1>3 DEF Init, TypeOK, Sendable

LEMMA SendTyped == TypeOK /\ Send => TypeOK'
<1> SUFFICES ASSUME TypeOK, Send PROVE TypeOK'
  OBVIOUS
<1>1. /\ sent \in Seq(Sendable) /\ Len(sent) \in Nat /\ Len(sent) < MaxSent
      /\ \A n \in DOMAIN sent : sent[n].source = n
      /\ MaxSent \in Nat
  BY BoundAssumption, WordRange DEF TypeOK, Send, Sendable
<1> DEFINE n == Len(sent) + 1
<1>2. PICK p \in Payloads : sent' = Append(sent, Numbered(n, p))
                            /\ line' = line \o Encoded[n][p]
  BY DEF Send
<1> DEFINE f == Numbered(n, p)
<1>3. n \in 1 .. MaxSent /\ n \in Nat  BY <1>1
<1> HIDE DEF n
<1>4. f \in Sendable /\ f.source = n /\ f.payload = p
  <2>1. f \in Sendable  BY <1>3 DEF Sendable
  <2>2. f.source = n /\ f.payload = p  BY DEF Numbered, LinkFrame
  <2> QED  BY <2>1, <2>2
<1> HIDE DEF f
<1>5. /\ sent' \in Seq(Sendable) /\ Len(sent') = n /\ n <= MaxSent
      /\ \A i \in DOMAIN sent' : sent'[i].source = i
  <2>1. sent' = Append(sent, f) /\ Len(sent) + 1 = n  BY <1>2 DEF f, n
  <2>2. /\ sent' \in Seq(Sendable) /\ Len(sent') = n
        /\ \A i \in 1 .. Len(sent) : sent'[i] = sent[i]
        /\ sent'[n] = f
    BY <1>1, <1>4, <2>1, AppendProperties
  <2>3. ASSUME NEW i \in DOMAIN sent'
        PROVE  sent'[i].source = i
    <3>1. i \in 1 .. n  BY <1>3, <2>2
    <3>2. i = n \/ i \in 1 .. Len(sent)  BY <1>1, <1>3, <2>1, <3>1
    <3> QED  BY <1>1, <1>4, <2>2, <3>2
  <2> QED  BY <1>3, <2>2, <2>3
<1>6. line' \in Seq(Octet)
  <2>1. f \in AnyFrame /\ Encoded[n][p] = EncodeFrame(f)  BY <1>4, SendableTyped
  <2>2. EncodeFrame(f) \in Seq(Octet)  BY <2>1, FrameOctets
  <2>3. CatTyped(line, EncodeFrame(f))  BY Cats
  <2> QED  BY <1>2, <2>1, <2>2, <2>3 DEF TypeOK, CatTyped, Cat
<1>7. inStep' = None \/ (inStep'.sent \in 0 .. Len(sent') /\ inStep'.heard \in 0 .. Len(heard'))
  <2>1. inStep' = inStep /\ heard' = heard  BY DEF Send
  <2>2. \A i \in 0 .. Len(sent) : i \in 0 .. Len(sent')  BY <1>1, <1>5 DEF n
  <2> QED  BY <2>1, <2>2 DEF TypeOK
<1>8. fixed' = fixed /\ heard' = heard /\ faults' = faults  BY DEF Send
<1>9. Len(sent') <= MaxSent  BY <1>5
<1> QED  BY <1>5, <1>6, <1>7, <1>8, <1>9 DEF TypeOK, Sendable, RestLength

LEMMA FaultTyped == TypeOK /\ Fault => faults' \in 0 .. MaxFaults /\ inStep' = None
<1>1. MaxFaults \in Nat  BY BoundAssumption
<1> QED  BY <1>1 DEF TypeOK, Fault

LEMMA LossTyped == TypeOK /\ (LoseOctet \/ DamageOctet) => TypeOK'
<1> SUFFICES ASSUME TypeOK, LoseOctet \/ DamageOctet PROVE TypeOK'
  OBVIOUS
<1>1. faults' \in 0 .. MaxFaults /\ inStep' = None
  BY FaultTyped DEF LoseOctet, DamageOctet
<1>2. sent' = sent /\ fixed' = fixed /\ heard' = heard  BY DEF LoseOctet, DamageOctet
<1>3. line \in Seq(Octet)  BY DEF TypeOK
<1>4. line' \in Seq(Octet)
  <2>1. CASE LoseOctet
    <3>1. PICK i \in DOMAIN line : line' = RemoveAt(line, i)  BY <2>1 DEF LoseOctet
    <3> DEFINE a == i - 1
               b == i + 1
               e == Len(line)
    <3>2. /\ line' = SubSeq(line, 1, a) \o SubSeq(line, b, e)
          /\ a \in Nat /\ a <= e /\ b \in Nat /\ b > 0 /\ b <= e + 1 /\ e \in Nat
          /\ e = Len(line)
      BY <1>3, <3>1 DEF RemoveAt
    <3> HIDE DEF a, b, e
    <3>3. Within(line, 1, a) /\ Within(line, b, e)  BY <1>3, <3>2 DEF Within
    <3>4. CutTyped(line, 1, a) /\ CutTyped(line, b, e)  BY Cuts
    <3>5. Cut(line, 1, a) \in Seq(Octet) /\ Cut(line, b, e) \in Seq(Octet)
      BY <3>3, <3>4 DEF CutTyped
    <3>6. CatTyped(Cut(line, 1, a), Cut(line, b, e))  BY Cats
    <3> QED  BY <3>2, <3>5, <3>6 DEF CatTyped, Cat, Cut
  <2>2. CASE DamageOctet
    <3>1. PICK i \in DOMAIN line, g \in Glitches : line' = [line EXCEPT ![i] = g]
      BY <2>2 DEF DamageOctet
    <3>2. g \in Octet /\ i \in 1 .. Len(line)  BY <1>3, GlitchAssumption
    <3> QED  BY <1>3, <3>1, <3>2, ExceptSeq
  <2> QED  BY <2>1, <2>2
<1> QED  BY <1>1, <1>2, <1>4 DEF TypeOK, RestLength

LEMMA HeardGrows ==
  ASSUME TypeOK, NEW x \in Seq(AnyFrame), heard' = heard \o x
  PROVE  heard' \in Seq(AnyFrame) /\ \A i \in 0 .. Len(heard) : i \in 0 .. Len(heard')
<1>1. heard \in Seq(AnyFrame)  BY DEF TypeOK
<1>2. heard' \in Seq(AnyFrame) /\ Len(heard') = Len(heard) + Len(x)
  BY <1>1, ConcatProperties
<1>3. Len(heard) \in Nat /\ Len(x) \in Nat  BY <1>1
<1> QED  BY <1>2, <1>3

LEMMA ReadTyped == TypeOK /\ (ReadHeader \/ ReadRest) => TypeOK'
<1> SUFFICES ASSUME TypeOK, ReadHeader \/ ReadRest PROVE TypeOK'
  OBVIOUS
<1>1. /\ Len(line) >= Needed
      /\ sent' = sent /\ inStep' = inStep /\ faults' = faults
      /\ line' = SubSeq(line, Needed + 1, Len(line))
  BY DEF ReadHeader, ReadRest, Needed
<1>2. Taken \in Seq(Octet) /\ Len(Taken) = Needed /\ line' \in Seq(Octet)
  BY <1>1, TakenTyped
<1>3. /\ fixed' = <<>> \/ Held(fixed')
      /\ heard' = heard \/ \E x \in Seq(AnyFrame) : heard' = heard \o x
  <2>1. CASE ReadHeader
    <3>1. Len(Taken) = HeaderOctets  BY <1>2, <2>1 DEF ReadHeader, Needed
    <3>2. CASE PlausibleHeader(Taken) /\ RestLength(Taken) > 0
      <4>1. fixed' = Taken /\ heard' = heard  BY <2>1, <3>2 DEF ReadHeader
      <4>2. RestLength(Taken) \in Nat /\ RestLength(Taken) <= EncodedPayloadLen(PayloadLimit)
        BY <1>2, <3>1, <3>2, RestLengths
      <4>3. EncodedPayloadLen(PayloadLimit) \in Nat  BY EncodedLengths, LimitIs
      <4>4. RestLength(Taken) \in 1 .. EncodedPayloadLen(PayloadLimit)
        BY <3>2, <4>2, <4>3
      <4> QED  BY <1>2, <3>1, <3>2, <4>1, <4>4 DEF Held, PlausibleHeader
    <3>3. CASE ~ (PlausibleHeader(Taken) /\ RestLength(Taken) > 0)
      <4>1. heard' = heard \o DecodeFrame(Taken) /\ fixed' = <<>>
        BY <2>1, <3>3 DEF ReadHeader
      <4> QED  BY <1>2, <4>1, DecodedFrames
    <3> QED  BY <3>2, <3>3
  <2>2. CASE ReadRest
    <3>1. heard' = heard \o DecodeFrame(Cat(fixed, Taken)) /\ fixed' = <<>> /\ fixed # <<>>
      BY <2>2 DEF ReadRest, Cat
    <3>2. fixed \in Seq(Octet)  BY <3>1 DEF TypeOK
    <3>3. Cat(fixed, Taken) \in Seq(Octet)
      <4>1. CatTyped(fixed, Taken)  BY Cats
      <4> QED  BY <1>2, <3>2, <4>1 DEF CatTyped
    <3> QED  BY <3>1, <3>3, DecodedFrames
  <2> QED  BY <2>1, <2>2
<1>4. heard' \in Seq(AnyFrame) /\ \A i \in 0 .. Len(heard) : i \in 0 .. Len(heard')
  <2>1. CASE heard' = heard  BY <2>1 DEF TypeOK
  <2>2. CASE \E x \in Seq(AnyFrame) : heard' = heard \o x  BY <2>2, HeardGrows
  <2> QED  BY <1>3, <2>1, <2>2
<1> QED  BY <1>1, <1>2, <1>3, <1>4 DEF TypeOK, Held, RestLength

LEMMA TimeoutTyped == TypeOK /\ Timeout => TypeOK'
<1> SUFFICES ASSUME TypeOK, Timeout PROVE TypeOK'
  OBVIOUS
<1>1. PICK taken \in 0 .. Len(line) :
        /\ taken < Needed
        /\ IF taken < Len(line) THEN Fault
           ELSE /\ inStep' = IF inStep # None THEN inStep
                             ELSE [sent |-> Len(sent), heard |-> Len(heard)]
                /\ UNCHANGED faults
        /\ fixed' = AfterTimeout
        /\ line' = SubSeq(line, taken + 1, Len(line))
        /\ UNCHANGED <<sent, heard>>
  BY DEF Timeout
<1>2. line \in Seq(Octet) /\ Len(sent) \in Nat /\ Len(heard) \in Nat  BY DEF TypeOK
<1>3. line' \in Seq(Octet)
  <2>1. taken \in Nat /\ taken <= Len(line)  BY <1>2
  <2>2. Cut(line, taken + 1, Len(line)) \in Seq(Octet)  BY <1>2, <2>1, LineParts
  <2> QED  BY <1>1, <2>2 DEF Cut
<1>4. faults' \in 0 .. MaxFaults
  <2>1. CASE taken < Len(line)  BY <1>1, <2>1, FaultTyped
  <2>2. CASE ~ (taken < Len(line))  BY <1>1, <2>2 DEF TypeOK
  <2> QED  BY <2>1, <2>2
<1>5. inStep' = None \/ (inStep'.sent \in 0 .. Len(sent) /\ inStep'.heard \in 0 .. Len(heard))
  <2>1. CASE taken < Len(line)  BY <1>1, <2>1, FaultTyped
  <2>2. CASE ~ (taken < Len(line)) /\ inStep # None  BY <1>1, <2>2 DEF TypeOK
  <2>3. CASE ~ (taken < Len(line)) /\ inStep = None
    <3>1. inStep' = [sent |-> Len(sent), heard |-> Len(heard)]  BY <1>1, <2>3
    <3>2. Len(sent) \in 0 .. Len(sent) /\ Len(heard) \in 0 .. Len(heard)  BY <1>2
    <3> QED  BY <3>1, <3>2
  <2> QED  BY <2>1, <2>2, <2>3
<1>6. fixed' = <<>> /\ sent' = sent /\ heard' = heard  BY <1>1 DEF AfterTimeout
<1> QED  BY <1>3, <1>4, <1>5, <1>6 DEF TypeOK

(* What read_frame holds is a header worth waiting for: it asks the line    *)
(* for no more octets than the longest frame has, and what it returns is a  *)
(* frame.                                                                   *)
THEOREM ReaderTyped == Spec => []TypeOK
<1>1. Init => TypeOK  BY ReaderStarts
<1>2. TypeOK /\ [Next]_vars => TypeOK'
  <2>1. TypeOK /\ UNCHANGED vars => TypeOK'  BY DEF TypeOK, vars, RestLength
  <2> QED  BY <2>1, SendTyped, LossTyped, ReadTyped, TimeoutTyped DEF Next
<1> QED  BY <1>1, <1>2, PTL DEF Spec

-----------------------------------------------------------------------------
(* What comes behind the first n elements of a sequence.                    *)
Behind(s, n) == SubSeq(s, n + 1, Len(s))

LEMMA BehindTyped ==
  ASSUME NEW S, NEW s \in Seq(S), NEW n \in 0 .. Len(s)
  PROVE  Behind(s, n) \in Seq(S) /\ Len(Behind(s, n)) = Len(s) - n
<1> DEFINE m == n + 1
           e == Len(s)
<1>1. m \in Nat /\ m > 0 /\ e \in Int /\ e <= Len(s) /\ m <= e + 1 /\ e - m + 1 = e - n
  OBVIOUS
<1> HIDE DEF m, e
<1>2. SubSeq(s, m, e) \in Seq(S) /\ Len(SubSeq(s, m, e)) = e - n  BY <1>1, Part
<1>3. Behind(s, n) = SubSeq(s, m, e) /\ Len(s) = e  BY DEF Behind, m, e
<1> QED  BY <1>2, <1>3, Zenon

LEMMA BehindAll ==
  ASSUME NEW S, NEW s \in Seq(S)
  PROVE  Behind(s, Len(s)) = <<>>
<1>1. Len(s) + 1 \in Int /\ Len(s) \in Int /\ Len(s) < Len(s) + 1  OBVIOUS
<1> QED  BY <1>1, SubSeqEmpty DEF Behind

LEMMA BehindFirst ==
  ASSUME NEW S, NEW s \in Seq(S), NEW n \in Nat, n < Len(s)
  PROVE  /\ s[n + 1] \in S /\ Behind(s, n + 1) \in Seq(S)
         /\ Behind(s, n) = <<s[n + 1]>> \o Behind(s, n + 1)
<1> DEFINE m == n + 1
           e == Len(s)
<1>1. m \in 1 .. Len(s) /\ e \in m .. Len(s) /\ m \in 0 .. Len(s)  OBVIOUS
<1> HIDE DEF m, e
<1>2. SubSeq(s, m, e) = <<s[m]>> \o SubSeq(s, m + 1, e)  BY <1>1, SubSeqRecursiveFirst
<1>3. s[m] \in S /\ Behind(s, m) \in Seq(S)  BY <1>1, BehindTyped, ElementOfSeq
<1> QED  BY <1>2, <1>3 DEF Behind, m, e

Moves(a, b, x) ==
    (a \in Seq(AnyFrame) /\ b \in Seq(AnyFrame) /\ x \in AnyFrame) =>
        /\ Append(a, x) \o b = a \o (<<x>> \o b)
        /\ Append(a \o b, x) = a \o Append(b, x)

LEMMA MoveOne ==
  ASSUME NEW a, NEW b, NEW x
  PROVE  Moves(a, b, x)
<1> SUFFICES ASSUME a \in Seq(AnyFrame), b \in Seq(AnyFrame), x \in AnyFrame
             PROVE  /\ Append(a, x) \o b = a \o (<<x>> \o b)
                    /\ Append(a \o b, x) = a \o Append(b, x)
  BY DEF Moves
<1> DEFINE one == <<x>>
<1>1. one \in Seq(AnyFrame) /\ a \o b \in Seq(AnyFrame)  BY ConcatProperties
<1>2. Append(a, x) = a \o one /\ Append(b, x) = b \o one /\ Append(a \o b, x) = (a \o b) \o one
  BY <1>1, AppendIsConcat
<1> HIDE DEF one
<1>3. (a \o one) \o b = a \o (one \o b)  BY <1>1, ConcatAssociative
<1>4. (a \o b) \o one = a \o (b \o one)  BY <1>1, ConcatAssociative
<1> QED  BY <1>2, <1>3, <1>4, Zenon DEF one

LEMMA BehindAppend ==
  ASSUME NEW S, NEW s \in Seq(S), NEW x \in S, NEW n \in 0 .. Len(s)
  PROVE  Behind(Append(s, x), n) = Append(Behind(s, n), x)
<1> DEFINE t == Append(s, x)
           b == Behind(s, n)
           c == Behind(t, n)
<1>1. /\ t \in Seq(S) /\ Len(t) = Len(s) + 1
      /\ \A i \in 1 .. Len(s) : t[i] = s[i]
      /\ t[Len(s) + 1] = x
  BY AppendProperties
<1> HIDE DEF t
<1>2. Len(s) \in Nat /\ n \in Nat /\ n <= Len(s) /\ n \in 0 .. Len(t)  BY <1>1
<1>3. /\ b \in Seq(S) /\ Len(b) = Len(s) - n /\ c \in Seq(S) /\ Len(c) = Len(t) - n
  BY <1>1, <1>2, BehindTyped
<1>4. ASSUME NEW i \in 1 .. Len(b) PROVE b[i] = s[n + i]
  <2>1. i \in 1 .. Len(s) - n  BY <1>3
  <2> QED  BY <1>2, <2>1 DEF Behind
<1>5. ASSUME NEW i \in 1 .. Len(c) PROVE c[i] = t[n + i]
  <2>1. i \in 1 .. Len(t) - n  BY <1>3
  <2> QED  BY <1>1, <1>2, <2>1 DEF Behind
<1> DEFINE a == Append(b, x)
<1> HIDE DEF b, c
<1>6. /\ a \in Seq(S) /\ Len(a) = Len(b) + 1
      /\ \A i \in 1 .. Len(b) : a[i] = b[i]
      /\ a[Len(b) + 1] = x
  BY <1>3, AppendProperties
<1> HIDE DEF a
<1>7. Len(c) = Len(a)  BY <1>1, <1>2, <1>3, <1>6
<1>8. ASSUME NEW i \in 1 .. Len(c) PROVE c[i] = a[i]
  <2>1. i \in 1 .. Len(b) \/ i = Len(b) + 1
    <3> DEFINE l == Len(b)
    <3>1. l \in Nat /\ i \in 1 .. l + 1  BY <1>2, <1>3, <1>6, <1>7
    <3> HIDE DEF l
    <3>2. i \in 1 .. l \/ i = l + 1  BY <3>1
    <3> QED  BY <3>2 DEF l
  <2>2. CASE i \in 1 .. Len(b)
    <3>1. n + i \in 1 .. Len(s)  BY <1>2, <1>3, <2>2
    <3> QED  BY <1>1, <1>4, <1>5, <1>6, <2>2, <3>1
  <2>3. CASE i = Len(b) + 1
    <3>1. n + i = Len(s) + 1  BY <1>2, <1>3, <2>3
    <3> QED  BY <1>1, <1>5, <1>6, <2>3, <3>1
  <2> QED  BY <2>1, <2>2, <2>3
<1>9. c = a  BY <1>3, <1>6, <1>7, <1>8, SeqEqual
<1> QED  BY <1>9 DEF c, t, a, b

-----------------------------------------------------------------------------
(* The octets of frames that are sent one after the other.                  *)
Octets(frames) == [i \in DOMAIN frames |-> Encoded[frames[i].source][frames[i].payload]]

LEMMA OctetsTyped ==
  ASSUME NEW frames \in Seq(Sendable)
  PROVE  /\ Octets(frames) \in Seq(Seq(Octet)) /\ Len(Octets(frames)) = Len(frames)
         /\ \A i \in 1 .. Len(frames) : Octets(frames)[i] = EncodeFrame(frames[i])
         /\ OctetsOf(frames) = FlattenSeq(Octets(frames))
         /\ OctetsOf(frames) \in Seq(Octet)
<1>1. Len(frames) \in Nat /\ DOMAIN frames = 1 .. Len(frames)
      /\ \A i \in 1 .. Len(frames) : frames[i] \in Sendable
  OBVIOUS
<1>2. ASSUME NEW i \in 1 .. Len(frames)
      PROVE  Octets(frames)[i] = EncodeFrame(frames[i]) /\ EncodeFrame(frames[i]) \in Seq(Octet)
  <2>1. frames[i] \in Sendable  BY <1>1
  <2>2. frames[i] \in AnyFrame
        /\ Encoded[frames[i].source][frames[i].payload] = EncodeFrame(frames[i])
    BY <2>1, SendableTyped
  <2> QED  BY <1>1, <2>2, FrameOctets DEF Octets
<1>3. Octets(frames) = [i \in 1 .. Len(frames) |-> Octets(frames)[i]]
  BY <1>1 DEF Octets
<1>4. Octets(frames) \in [1 .. Len(frames) -> Seq(Octet)]
  <2> DEFINE o == Octets(frames)
  <2> HIDE DEF o
  <2>1. \A i \in 1 .. Len(frames) : o[i] \in Seq(Octet)  BY <1>2 DEF o
  <2>2. o = [i \in 1 .. Len(frames) |-> o[i]]  BY <1>3 DEF o
  <2> QED  BY <2>1, <2>2 DEF o
<1>5. Octets(frames) \in Seq(Seq(Octet)) /\ Len(Octets(frames)) = Len(frames)
  BY <1>1, <1>4
<1>6. OctetsOf(frames) = FlattenSeq(Octets(frames))  BY DEF OctetsOf, Octets
<1>7. FlattenSeq(Octets(frames)) \in Seq(Octet)  BY <1>5, FlattenType
<1> QED  BY <1>2, <1>5, <1>6, <1>7

LEMMA OctetsOfNone == OctetsOf(<<>>) = <<>>
<1>1. [i \in DOMAIN <<>> |-> Encoded[<<>>[i].source][<<>>[i].payload]] = <<>>  OBVIOUS
<1> QED  BY <1>1, FlattenEmpty DEF OctetsOf

LEMMA OctetsOfMore ==
  ASSUME NEW frames \in Seq(Sendable), NEW f \in Sendable
  PROVE  /\ OctetsOf(Append(frames, f)) = Cat(OctetsOf(frames), EncodeFrame(f))
         /\ OctetsOf(<<f>> \o frames) = Cat(EncodeFrame(f), OctetsOf(frames))
<1> DEFINE xs == Octets(frames)
           e == EncodeFrame(f)
           n == Len(frames)
<1>1. /\ xs \in Seq(Seq(Octet)) /\ Len(xs) = n /\ OctetsOf(frames) = FlattenSeq(xs)
      /\ \A i \in 1 .. n : xs[i] = EncodeFrame(frames[i])
  BY OctetsTyped
<1>2. e \in Seq(Octet)
  <2>1. f \in AnyFrame  BY SendableTyped
  <2> QED  BY <2>1, FrameOctets
<1>3. n \in Nat  OBVIOUS
<1> HIDE DEF xs
<1>4. <<e>> \in Seq(Seq(Octet)) /\ FlattenSeq(<<e>>) = e
  <2> HIDE DEF e
  <2>1. <<e>> \in Seq(Seq(Octet))  BY <1>2
  <2> QED  BY <1>2, <2>1, FlattenOne
<1>5. OctetsOf(Append(frames, f)) = FlattenSeq(xs \o <<e>>)
  <2> DEFINE fs == Append(frames, f)
             ys == Octets(fs)
             zs == xs \o <<e>>
  <2>1. /\ fs \in Seq(Sendable) /\ Len(fs) = n + 1 /\ fs[n + 1] = f
        /\ \A i \in 1 .. n : fs[i] = frames[i]
    BY AppendProperties
  <2> HIDE DEF fs
  <2>2. /\ ys \in Seq(Seq(Octet)) /\ Len(ys) = n + 1 /\ OctetsOf(fs) = FlattenSeq(ys)
        /\ \A i \in 1 .. n + 1 : ys[i] = EncodeFrame(fs[i])
    BY <2>1, OctetsTyped
  <2> HIDE DEF ys, e
  <2>3. /\ zs \in Seq(Seq(Octet)) /\ Len(zs) = n + 1
        /\ \A i \in 1 .. n : zs[i] = xs[i]
        /\ zs[n + 1] = e
    <3>1. zs = Append(xs, e)  BY <1>1, <1>2, AppendIsConcat
    <3> QED  BY <1>1, <1>2, <3>1, AppendProperties
  <2> HIDE DEF zs
  <2>4. ASSUME NEW i \in 1 .. n + 1 PROVE ys[i] = zs[i]
    <3>1. i \in 1 .. n \/ i = n + 1  BY <1>3
    <3> QED  BY <1>1, <2>1, <2>2, <2>3, <3>1 DEF e
  <2>5. ys = zs  BY <2>2, <2>3, <2>4, SeqEqual
  <2> QED  BY <2>2, <2>5 DEF fs, zs
<1>6. OctetsOf(<<f>> \o frames) = FlattenSeq(<<e>> \o xs)
  <2> DEFINE fs == <<f>> \o frames
             ys == Octets(fs)
             zs == <<e>> \o xs
  <2>1. /\ fs \in Seq(Sendable) /\ Len(fs) = n + 1 /\ fs[1] = f
        /\ \A i \in 1 .. n : fs[i + 1] = frames[i]
    <3>1. <<f>> \in Seq(Sendable) /\ Len(<<f>>) = 1 /\ <<f>>[1] = f  OBVIOUS
    <3> DEFINE one == <<f>>
    <3> HIDE DEF one
    <3>2. /\ one \o frames \in Seq(Sendable) /\ Len(one \o frames) = 1 + n
          /\ \A i \in 1 .. 1 + n : (one \o frames)[i] = IF i <= 1 THEN one[i] ELSE frames[i - 1]
      BY <3>1, ConcatProperties DEF one
    <3> QED  BY <1>3, <3>1, <3>2 DEF one
  <2> HIDE DEF fs
  <2>2. /\ ys \in Seq(Seq(Octet)) /\ Len(ys) = n + 1 /\ OctetsOf(fs) = FlattenSeq(ys)
        /\ \A i \in 1 .. n + 1 : ys[i] = EncodeFrame(fs[i])
    BY <2>1, OctetsTyped
  <2> HIDE DEF ys, e
  <2>3. /\ zs \in Seq(Seq(Octet)) /\ Len(zs) = n + 1 /\ zs[1] = e
        /\ \A i \in 1 .. n : zs[i + 1] = xs[i]
    <3>1. <<e>> \in Seq(Seq(Octet)) /\ Len(<<e>>) = 1 /\ <<e>>[1] = e  BY <1>2
    <3> DEFINE one == <<e>>
    <3> HIDE DEF one
    <3>2. /\ one \o xs \in Seq(Seq(Octet)) /\ Len(one \o xs) = 1 + n
          /\ \A i \in 1 .. 1 + n : (one \o xs)[i] = IF i <= 1 THEN one[i] ELSE xs[i - 1]
      BY <1>1, <3>1, ConcatProperties DEF one
    <3> QED  BY <1>3, <3>1, <3>2 DEF one
  <2> HIDE DEF zs
  <2>4. ASSUME NEW i \in 1 .. n + 1 PROVE ys[i] = zs[i]
    <3>1. CASE i = 1  BY <2>1, <2>2, <2>3, <3>1 DEF e
    <3>2. CASE i # 1
      <4>1. i - 1 \in 1 .. n /\ (i - 1) + 1 = i  BY <1>3, <3>2
      <4> DEFINE j == i - 1
      <4>2. ys[i] = EncodeFrame(fs[j + 1])  BY <2>2, <4>1
      <4>3. zs[j + 1] = xs[j] /\ xs[j] = EncodeFrame(frames[j]) /\ fs[j + 1] = frames[j]
        <5> HIDE DEF j
        <5>1. j \in 1 .. n  BY <4>1 DEF j
        <5> QED  BY <1>1, <2>1, <2>3, <5>1
      <4> QED  BY <4>1, <4>2, <4>3, Zenon
    <3> QED  BY <3>1, <3>2
  <2>5. ys = zs  BY <2>2, <2>3, <2>4, SeqEqual
  <2> QED  BY <2>2, <2>5 DEF fs, zs
<1> HIDE DEF e
<1>7. FlattenSeq(xs \o <<e>>) = FlattenSeq(xs) \o e
  <2> DEFINE one == <<e>>
  <2>1. one \in Seq(Seq(Octet)) /\ FlattenSeq(one) = e  BY <1>4
  <2> HIDE DEF one
  <2>2. FlattenSeq(xs \o one) = FlattenSeq(xs) \o FlattenSeq(one)
    BY <1>1, <2>1, FlattenConcat
  <2> QED  BY <2>1, <2>2, Zenon DEF one
<1>8. FlattenSeq(<<e>> \o xs) = e \o FlattenSeq(xs)  BY <1>1, <1>2, FlattenCons
<1> QED  BY <1>1, <1>5, <1>6, <1>7, <1>8 DEF Cat, e

-----------------------------------------------------------------------------
(* Octets that begin with a frame begin with its header.                    *)
LEMMA SameStart ==
  ASSUME NEW a \in Seq(Octet), NEW b \in Seq(Octet), NEW c \in Seq(Octet),
         NEW d \in Seq(Octet), Cat(a, b) = Cat(c, d), Len(a) = Len(c)
  PROVE  a = c /\ b = d
<1> DEFINE n == Len(a)
           p == Len(b)
           q == Len(d)
           first == n + 1
           last == n + p
<1>0. n \in Nat /\ p \in Nat /\ q \in Nat /\ n = Len(a) /\ n = Len(c) /\ p = Len(b)
      /\ q = Len(d) /\ first = n + 1 /\ last = n + p
  OBVIOUS
<1> HIDE DEF n, p, q, first, last
<1>1. CatTyped(a, b) /\ CatTyped(c, d)  BY Cats
<1>2. p = q
  <2>1. Len(Cat(a, b)) = n + p /\ Len(Cat(c, d)) = n + q  BY <1>0, <1>1 DEF CatTyped
  <2>2. n + p = n + q  BY <2>1
  <2> QED  BY <1>0, <2>2
<1>3. CutFirst(a, b, 1, n) /\ CutFirst(c, d, 1, n) /\ CutWhole(a, n) /\ CutWhole(c, n)
      /\ CutSecond(a, b, 1, p, first, last) /\ CutSecond(c, d, 1, p, first, last)
      /\ CutWhole(b, p) /\ CutWhole(d, p)
  BY Cuts, SecondCut
<1>4. Within(a, 1, n) /\ Within(c, 1, n) /\ Within(b, 1, p) /\ Within(d, 1, p)
  BY <1>0, <1>2 DEF Within
<1>5. Cut(Cat(a, b), 1, n) = a /\ Cut(Cat(c, d), 1, n) = c
  BY <1>0, <1>3, <1>4 DEF CutFirst, CutWhole
<1>6. Cut(Cat(a, b), first, last) = b /\ Cut(Cat(c, d), first, last) = d
  BY <1>0, <1>2, <1>3, <1>4 DEF CutSecond, CutWhole
<1> QED  BY <1>5, <1>6

LEMMA HeaderFirst ==
  ASSUME NEW f \in AnyFrame, NEW r \in Seq(Octet), NEW h \in Seq(Octet), NEW t \in Seq(Octet),
         Len(h) = HeaderOctets, Cat(h, t) = Cat(EncodeFrame(f), r)
  PROVE  /\ PlausibleHeader(h)
         /\ RestLength(h) = EncodedPayloadLen(Len(f.payload))
         /\ Len(EncodeFrame(f)) = HeaderOctets + RestLength(h)
         /\ RestLength(h) \in Nat
         /\ RestLength(h) <= Len(t)
<1> DEFINE e == EncodeFrame(f)
           n == Len(f.payload)
           l == EncodedPayloadLen(n)
           a == Cut(e, 1, 10)
           b == Cut(e, 10 + 1, Len(e))
<1>1. /\ e \in Seq(Octet) /\ Len(e) = HeaderOctets + l /\ l \in Nat
      /\ Cut(e, 1, 2) = StartBytes /\ e[3] = MinLengthField + n
  BY FrameOctets
<1>2. n \in Nat  BY FrameFields
<1> HIDE DEF e, l, n
<1>3. Len(e) = 10 + l /\ Len(h) = 10  BY <1>1 DEF HeaderOctets
<1>4. a \in Seq(Octet) /\ Len(a) = 10 /\ b \in Seq(Octet) /\ Len(b) = l /\ Cat(a, b) = e
  <2>1. 10 \in Nat /\ 10 <= Len(e) /\ Len(e) - 10 = l  BY <1>1, <1>3
  <2> QED  BY <1>1, <2>1, LineParts
<1> HIDE DEF a, b
<1>5. Cat(b, r) \in Seq(Octet) /\ Cat(a, Cat(b, r)) = Cat(h, t) /\ Len(Cat(b, r)) = l + Len(r)
  <2>1. CatTyped(b, r) /\ Regroups(a, b, r)  BY Cats
  <2> QED  BY <1>4, <2>1 DEF CatTyped, Regroups, e
<1>6. a = h /\ Cat(b, r) = t  BY <1>3, <1>4, <1>5, SameStart
<1>7. Cut(h, 1, 2) = StartBytes /\ h[3] = MinLengthField + n
  <2>1. CutFirst(h, b, 1, 2) /\ CatAt(h, b, 3)  BY Cuts, Cats
  <2>2. Within(h, 1, 2) /\ 3 \in 1 .. 10 + l /\ 3 <= 10  BY <1>1, <1>3 DEF Within
  <2> QED  BY <1>1, <1>3, <1>4, <1>6, <2>1, <2>2 DEF CutFirst, CatAt
<1>8. h[3] >= MinLengthField /\ h[3] - MinLengthField = n  BY <1>2, <1>7 DEF MinLengthField
<1>9. RestLength(h) = l  BY <1>8 DEF RestLength, l
<1>10. l <= Len(t)
  <2>1. Len(r) \in Nat  OBVIOUS
  <2>2. Len(t) = l + Len(r)  BY <1>5, <1>6
  <2> QED  BY <1>1, <2>1, <2>2
<1> QED  BY <1>1, <1>7, <1>8, <1>9, <1>10 DEF PlausibleHeader, Cut, e, l, n

-----------------------------------------------------------------------------
(* What InStep says, in the words of the lemmas.                            *)
Known == Behind(heard, inStep.heard)
Coming == Behind(sent, inStep.sent + Len(Known))

LEMMA InStepIs ==
  InStep <=> (inStep # None => /\ Known \o Coming = Behind(sent, inStep.sent)
                               /\ Cat(fixed, line) = OctetsOf(Coming))
BY DEF InStep, Known, Coming, From, Behind, Cat

LEMMA StepFacts ==
  ASSUME TypeOK, InStep, inStep # None
  PROVE  /\ inStep.sent + Len(Known) \in 0 .. Len(sent)
         /\ inStep.sent \in 0 .. Len(sent) /\ inStep.heard \in 0 .. Len(heard)
         /\ sent \in Seq(Sendable) /\ heard \in Seq(AnyFrame)
         /\ Known \in Seq(AnyFrame) /\ Coming \in Seq(Sendable) /\ Coming \in Seq(AnyFrame)
         /\ Known \o Coming = Behind(sent, inStep.sent)
         /\ Cat(fixed, line) = OctetsOf(Coming)
         /\ fixed \in Seq(Octet) /\ line \in Seq(Octet)
<1>1. /\ inStep.sent \in 0 .. Len(sent) /\ inStep.heard \in 0 .. Len(heard)
      /\ sent \in Seq(Sendable) /\ heard \in Seq(AnyFrame)
      /\ fixed \in Seq(Octet) /\ line \in Seq(Octet)
  <2>1. inStep.sent \in 0 .. Len(sent) /\ inStep.heard \in 0 .. Len(heard)  BY DEF TypeOK
  <2>2. sent \in Seq(Sendable) /\ heard \in Seq(AnyFrame) /\ line \in Seq(Octet)
    BY DEF TypeOK, Sendable
  <2>3. fixed = <<>> \/ fixed \in Seq(Octet)  BY DEF TypeOK
  <2>4. <<>> \in Seq(Octet)  OBVIOUS
  <2> QED  BY <2>1, <2>2, <2>3, <2>4
<1>2. Known \in Seq(AnyFrame)  BY <1>1, BehindTyped DEF Known
<1> DEFINE k == inStep.sent + Len(Known)
           n == Len(sent)
<1>3. k \in Nat /\ n \in Nat /\ Len(Known) \in Nat  BY <1>1, <1>2
<1>4. Coming = Behind(sent, k)  BY DEF Coming
<1>5. Coming \in Seq(Sendable)
  <2> HIDE DEF k, n
  <2>1. CASE k <= n
    <3>1. k \in 0 .. Len(sent)  BY <1>3, <2>1 DEF n
    <3> QED  BY <1>1, <1>4, <3>1, BehindTyped
  <2>2. CASE ~ (k <= n)
    <3>1. n < k + 1 /\ k + 1 \in Int /\ n \in Int  BY <1>3, <2>2
    <3>2. SubSeq(sent, k + 1, n) = <<>>  BY <3>1, SubSeqEmpty
    <3>3. Coming = <<>>  BY <1>4, <3>2 DEF Behind, n
    <3>4. <<>> \in Seq(Sendable)  OBVIOUS
    <3> QED  BY <3>3, <3>4
  <2> QED  BY <2>1, <2>2
<1>6. Coming \in Seq(AnyFrame)
  <2>1. Sendable \subseteq AnyFrame  BY SendableTyped
  <2> QED  BY <1>5, <2>1
<1>7. Known \o Coming = Behind(sent, inStep.sent) /\ Cat(fixed, line) = OctetsOf(Coming)
  BY InStepIs
<1>8. k <= n
  <2>1. Len(Known \o Coming) = Len(Known) + Len(Coming)  BY <1>2, <1>6, ConcatProperties
  <2>2. Len(Behind(sent, inStep.sent)) = n - inStep.sent  BY <1>1, BehindTyped
  <2>3. Len(Coming) \in Nat  BY <1>5
  <2> DEFINE x == Len(Known)
             y == Len(Coming)
             z == inStep.sent
  <2>4. x + y = n - z  BY <1>7, <2>1, <2>2
  <2>5. z \in 0 .. n  BY <1>1
  <2>6. x \in Nat /\ y \in Nat /\ n \in Nat /\ k = z + x  BY <1>3, <2>3
  <2> HIDE DEF x, y, z, k, n
  <2> QED  BY <2>4, <2>5, <2>6
<1>9. k \in 0 .. n  BY <1>3, <1>8
<1> QED  BY <1>1, <1>2, <1>5, <1>6, <1>7, <1>9

(* The first of the frames to come is the first on the line.                *)
LEMMA NextFrame ==
  ASSUME TypeOK, InStep, inStep # None, NEW k, k = inStep.sent + Len(Known), k < Len(sent)
  PROVE  /\ k \in Nat /\ sent[k + 1] \in Sendable /\ sent[k + 1] \in AnyFrame
         /\ Behind(sent, k + 1) \in Seq(Sendable)
         /\ Coming = <<sent[k + 1]>> \o Behind(sent, k + 1)
         /\ OctetsOf(Behind(sent, k + 1)) \in Seq(Octet)
         /\ Cat(fixed, line)
              = Cat(EncodeFrame(sent[k + 1]), OctetsOf(Behind(sent, k + 1)))
<1>1. /\ k \in 0 .. Len(sent) /\ sent \in Seq(Sendable) /\ Coming = Behind(sent, k)
      /\ Cat(fixed, line) = OctetsOf(Coming)
  BY StepFacts DEF Coming
<1>2. k \in Nat  BY <1>1
<1>3. /\ sent[k + 1] \in Sendable /\ Behind(sent, k + 1) \in Seq(Sendable)
      /\ Behind(sent, k) = <<sent[k + 1]>> \o Behind(sent, k + 1)
  BY <1>1, <1>2, BehindFirst
<1> DEFINE f == sent[k + 1]
           r == Behind(sent, k + 1)
<1> HIDE DEF f, r
<1>4. f \in AnyFrame  BY <1>3, SendableTyped DEF f
<1>5. OctetsOf(<<f>> \o r) = Cat(EncodeFrame(f), OctetsOf(r)) /\ OctetsOf(r) \in Seq(Octet)
  BY <1>3, OctetsOfMore, OctetsTyped DEF f, r
<1> QED  BY <1>1, <1>2, <1>3, <1>4, <1>5 DEF f, r

(* No frame is to come: the line is silent.                                 *)
LEMMA NoFrame ==
  ASSUME TypeOK, InStep, inStep # None, inStep.sent + Len(Known) = Len(sent)
  PROVE  Coming = <<>> /\ fixed = <<>> /\ line = <<>>
<1>1. /\ sent \in Seq(Sendable) /\ Cat(fixed, line) = OctetsOf(Coming)
      /\ fixed \in Seq(Octet) /\ line \in Seq(Octet)
  BY StepFacts
<1>2. Coming = <<>>  BY <1>1, BehindAll DEF Coming
<1>3. fixed \o line = <<>>  BY <1>1, <1>2, OctetsOfNone DEF Cat
<1> QED  BY <1>1, <1>2, <1>3, ConcatEqualIffEmpty

LEMMA SendInStep == TypeOK /\ InStep /\ Send => InStep'
<1> SUFFICES ASSUME TypeOK, InStep, Send, inStep # None
             PROVE  InStep'
  BY DEF Send, InStep
<1>1. /\ inStep.sent + Len(Known) \in 0 .. Len(sent) /\ inStep.sent \in 0 .. Len(sent)
      /\ sent \in Seq(Sendable)
      /\ Known \in Seq(AnyFrame) /\ Coming \in Seq(Sendable) /\ Coming \in Seq(AnyFrame)
      /\ Known \o Coming = Behind(sent, inStep.sent)
      /\ Cat(fixed, line) = OctetsOf(Coming)
      /\ fixed \in Seq(Octet) /\ line \in Seq(Octet)
  BY StepFacts
<1> DEFINE k == inStep.sent + Len(Known)
           n == Len(sent) + 1
<1>2. PICK p \in Payloads : sent' = Append(sent, Numbered(n, p))
                            /\ line' = line \o Encoded[n][p]
  BY DEF Send
<1> DEFINE f == Numbered(n, p)
<1>3. f \in Sendable /\ f.source = n /\ f.payload = p
  <2>1. Len(sent) \in Nat /\ Len(sent) < MaxSent /\ MaxSent \in Nat
    BY <1>1, BoundAssumption, WordRange DEF Send
  <2>2. n \in 1 .. MaxSent  BY <2>1
  <2> HIDE DEF n
  <2>3. f \in Sendable  BY <2>2 DEF Sendable
  <2>4. f.source = n /\ f.payload = p  BY DEF Numbered, LinkFrame
  <2> QED  BY <2>3, <2>4
<1> HIDE DEF f, n
<1> DEFINE e == EncodeFrame(f)
<1>4. sent' = Append(sent, f) /\ line' = Cat(line, e) /\ e \in Seq(Octet) /\ f \in AnyFrame
  <2>1. f \in AnyFrame /\ Encoded[n][p] = e  BY <1>3, SendableTyped
  <2>2. e \in Seq(Octet)  BY <2>1, FrameOctets
  <2> QED  BY <1>2, <2>1, <2>2 DEF Cat, f
<1> HIDE DEF e
<1>5. inStep' = inStep /\ heard' = heard /\ fixed' = fixed  BY DEF Send
<1>6. Known' = Known  BY <1>5 DEF Known, Behind
<1>7. Coming' = Append(Coming, f)
  <2>1. Coming' = Behind(Append(sent, f), k)  BY <1>4, <1>5, <1>6 DEF Coming, Behind
  <2>2. Behind(sent, k) = Coming  BY DEF Coming
  <2> HIDE DEF k
  <2>3. k \in 0 .. Len(sent)  BY <1>1 DEF k
  <2> QED  BY <1>1, <1>3, <2>1, <2>2, <2>3, BehindAppend
<1>8. Known \o Append(Coming, f) = Behind(Append(sent, f), inStep.sent)
  <2>1. Behind(Append(sent, f), inStep.sent) = Append(Behind(sent, inStep.sent), f)
    BY <1>1, <1>3, BehindAppend
  <2>2. Append(Known \o Coming, f) = Known \o Append(Coming, f)
    <3>1. Moves(Known, Coming, f)  BY MoveOne
    <3> QED  BY <1>1, <1>4, <3>1 DEF Moves
  <2> QED  BY <1>1, <2>1, <2>2, Zenon
<1>9. Cat(fixed, Cat(line, e)) = OctetsOf(Append(Coming, f))
  <2>1. OctetsOf(Append(Coming, f)) = Cat(OctetsOf(Coming), e)
    BY <1>1, <1>3, OctetsOfMore DEF e
  <2>2. Regroups(fixed, line, e)  BY Cats
  <2> QED  BY <1>1, <1>4, <2>1, <2>2 DEF Regroups
<1>10. (Known \o Coming = Behind(sent, inStep.sent) /\ Cat(fixed, line) = OctetsOf(Coming))'
  <2>1. Behind(sent, inStep.sent)' = Behind(Append(sent, f), inStep.sent)
    BY <1>4, <1>5 DEF Behind
  <2>2. OctetsOf(Coming)' = OctetsOf(Append(Coming, f))  BY <1>7, Zenon DEF OctetsOf
  <2> QED  BY <1>4, <1>5, <1>6, <1>7, <1>8, <1>9, <2>1, <2>2 DEF Cat
<1> QED  BY <1>10, InStepIs DEF InStep, Known, Coming, From, Behind, Cat

(* The next frame has been heard, and what comes behind it is on the line.  *)
LEMMA FrameHeard ==
  ASSUME TypeOK, InStep, inStep # None, NEW k, k = inStep.sent + Len(Known), k < Len(sent),
         heard' = heard \o <<sent[k + 1]>>, sent' = sent, inStep' = inStep,
         Cat(fixed', line') = OctetsOf(Behind(sent, k + 1))
  PROVE  InStep'
<1> DEFINE f == sent[k + 1]
           r == Behind(sent, k + 1)
<1>1. /\ inStep.heard \in 0 .. Len(heard) /\ heard \in Seq(AnyFrame)
      /\ Known \in Seq(AnyFrame) /\ Known \o Coming = Behind(sent, inStep.sent)
      /\ inStep.sent \in 0 .. Len(sent)
  BY StepFacts
<1>2. /\ k \in Nat /\ f \in AnyFrame /\ r \in Seq(Sendable) /\ Coming = <<f>> \o r
  BY NextFrame
<1>3. r \in Seq(AnyFrame)
  <2>1. Sendable \subseteq AnyFrame  BY SendableTyped
  <2> QED  BY <1>2, <2>1
<1> HIDE DEF f, r
<1>4. heard' = Append(heard, f)  BY <1>1, <1>2, AppendIsConcat DEF f
<1>5. Known' = Append(Known, f)
  <2>1. Behind(Append(heard, f), inStep.heard) = Append(Behind(heard, inStep.heard), f)
    BY <1>1, <1>2, BehindAppend
  <2>2. Known' = Behind(Append(heard, f), inStep.heard)  BY <1>4 DEF Known, Behind
  <2> QED  BY <2>1, <2>2 DEF Known
<1>6. Len(Append(Known, f)) = Len(Known) + 1 /\ Len(Known) \in Nat
  BY <1>1, <1>2, AppendProperties
<1>7. inStep.sent + (Len(Known) + 1) = k + 1  BY <1>1, <1>6
<1>8. Coming' = r
  <2>1. Coming' = Behind(sent, inStep.sent + Len(Append(Known, f)))
    BY <1>5 DEF Coming, Behind
  <2> QED  BY <1>6, <1>7, <2>1 DEF r
<1>9. Append(Known, f) \o r = Behind(sent, inStep.sent)
  <2>1. Append(Known, f) \o r = Known \o (<<f>> \o r)
    <3>1. Moves(Known, r, f)  BY MoveOne
    <3> QED  BY <1>1, <1>2, <1>3, <3>1 DEF Moves
  <2> QED  BY <1>1, <1>2, <2>1, Zenon
<1>10. (Known \o Coming = Behind(sent, inStep.sent) /\ Cat(fixed, line) = OctetsOf(Coming))'
  <2>1. Behind(sent, inStep.sent)' = Behind(sent, inStep.sent)  BY DEF Behind
  <2>2. OctetsOf(Coming)' = OctetsOf(r)  BY <1>8 DEF OctetsOf
  <2>3. Cat(fixed, line)' = OctetsOf(r)  BY DEF Cat, r
  <2> QED  BY <1>5, <1>8, <1>9, <2>1, <2>2, <2>3
<1> QED  BY <1>10 DEF InStep, Known, Coming, From, Behind, Cat

LEMMA NothingBefore ==
  ASSUME NEW s \in Seq(Octet)
  PROVE  Cat(<<>>, s) = s
BY ConcatEmptySeq DEF Cat

(* A line that is not silent begins with a frame.                           *)
LEMMA SomeFrame ==
  ASSUME TypeOK, InStep, inStep # None, fixed # <<>> \/ line # <<>>,
         NEW k, k = inStep.sent + Len(Known)
  PROVE  k < Len(sent)
<1>1. k \in 0 .. Len(sent) /\ Len(sent) \in Nat  BY StepFacts
<1>2. k # Len(sent)  BY NoFrame
<1> QED  BY <1>1, <1>2

(* The octets are taken from the line, and stay in the order they were in.  *)
LEMMA OnlyMoved ==
  ASSUME InStep, inStep # None, sent' = sent, heard' = heard, inStep' = inStep,
         Cat(fixed', line') = Cat(fixed, line)
  PROVE  InStep'
<1>1. Known \o Coming = Behind(sent, inStep.sent) /\ Cat(fixed, line) = OctetsOf(Coming)
  BY InStepIs
<1>2. Known' = Known  BY DEF Known, Behind
<1>3. Coming' = Coming  BY <1>2 DEF Coming, Behind
<1>4. (Known \o Coming = Behind(sent, inStep.sent) /\ Cat(fixed, line) = OctetsOf(Coming))'
  <2>1. Behind(sent, inStep.sent)' = Behind(sent, inStep.sent)  BY DEF Behind
  <2>2. OctetsOf(Coming)' = OctetsOf(Coming)  BY <1>3 DEF OctetsOf
  <2>3. Cat(fixed, line)' = Cat(fixed, line)  BY DEF Cat
  <2> QED  BY <1>1, <1>2, <1>3, <2>1, <2>2, <2>3
<1> QED  BY <1>4 DEF InStep, Known, Coming, From, Behind, Cat

LEMMA HeaderInStep == TypeOK /\ InStep /\ ReadHeader => InStep'
<1> SUFFICES ASSUME TypeOK, InStep, ReadHeader, inStep # None
             PROVE  InStep'
  BY DEF ReadHeader, InStep
<1> DEFINE k == inStep.sent + Len(Known)
           f == sent[k + 1]
           e == EncodeFrame(f)
           r == OctetsOf(Behind(sent, k + 1))
           h == Taken
           t == SubSeq(line, Needed + 1, Len(line))
<1>1. /\ fixed = <<>> /\ Needed = HeaderOctets /\ Len(line) >= Needed
      /\ line' = t /\ sent' = sent /\ inStep' = inStep
  BY DEF ReadHeader, Needed
<1>2. line \in Seq(Octet)  BY DEF TypeOK
<1>3. h \in Seq(Octet) /\ Len(h) = HeaderOctets /\ t \in Seq(Octet) /\ Cat(h, t) = line
  BY <1>1, TakenTyped
<1>4. k < Len(sent)
  <2>1. line # <<>>
    <3>1. Len(line) >= 10  BY <1>1 DEF HeaderOctets
    <3>2. Len(<<>>) = 0  OBVIOUS
    <3> QED  BY <3>1, <3>2
  <2> HIDE DEF k
  <2>2. k = inStep.sent + Len(Known)  BY DEF k
  <2> QED  BY <2>1, <2>2, SomeFrame
<1>5. f \in AnyFrame /\ r \in Seq(Octet) /\ Cat(fixed, line) = Cat(e, r)  BY <1>4, NextFrame
<1>6. Cat(fixed, line) = line  BY <1>1, <1>2, NothingBefore
<1> HIDE DEF k, f, r, h, t
<1>7. /\ PlausibleHeader(h) /\ Len(e) = HeaderOctets + RestLength(h)
      /\ RestLength(h) \in Nat
  <2>1. Cat(h, t) = Cat(EncodeFrame(f), r)  BY <1>3, <1>5, <1>6
  <2> QED  BY <1>3, <1>5, <2>1, HeaderFirst
<1>8. CASE RestLength(h) > 0
  <2>1. fixed' = h /\ heard' = heard  BY <1>7, <1>8 DEF ReadHeader, h
  <2>2. Cat(fixed', line') = Cat(fixed, line)  BY <1>1, <1>3, <1>6, <2>1
  <2> QED  BY <1>1, <2>1, <2>2, OnlyMoved
<1>9. CASE ~ (RestLength(h) > 0)
  <2>1. heard' = heard \o DecodeFrame(h) /\ fixed' = <<>>
    BY <1>1, <1>9 DEF ReadHeader, h
  <2>2. e \in Seq(Octet)  BY <1>5, FrameOctets
  <2>3. Len(e) = Len(h)  BY <1>3, <1>7, <1>9 DEF HeaderOctets
  <2> HIDE DEF e
  <2>4. h = e /\ t = r
    <3>1. Cat(h, t) = Cat(e, r)  BY <1>3, <1>5, <1>6
    <3> QED  BY <1>3, <1>5, <2>2, <2>3, <3>1, SameStart
  <2>5. DecodeFrame(h) = <<f>>  BY <1>5, <2>4, FrameRoundTrip DEF e
  <2>6. Cat(fixed', line') = r  BY <1>1, <1>3, <2>1, <2>4, NothingBefore
  <2>7. heard' = heard \o <<sent[k + 1]>>  BY <2>1, <2>5 DEF f
  <2>8. Cat(fixed', line') = OctetsOf(Behind(sent, k + 1))  BY <2>6 DEF r
  <2>9. k = inStep.sent + Len(Known)  BY DEF k
  <2> QED  BY <1>1, <1>4, <2>7, <2>8, <2>9, FrameHeard
<1> QED  BY <1>8, <1>9

LEMMA RestInStep == TypeOK /\ InStep /\ ReadRest => InStep'
<1> SUFFICES ASSUME TypeOK, InStep, ReadRest, inStep # None
             PROVE  InStep'
  BY DEF ReadRest, InStep
<1> DEFINE k == inStep.sent + Len(Known)
           f == sent[k + 1]
           e == EncodeFrame(f)
           r == OctetsOf(Behind(sent, k + 1))
           h == fixed
           t == SubSeq(line, Needed + 1, Len(line))
<1>1. /\ h # <<>> /\ Needed = RestLength(h) /\ Len(line) >= Needed
      /\ line' = t /\ sent' = sent /\ inStep' = inStep /\ fixed' = <<>>
      /\ heard' = heard \o DecodeFrame(Cat(h, Taken))
  BY DEF ReadRest, Needed, Cat
<1>2. line \in Seq(Octet) /\ h \in Seq(Octet) /\ Len(h) = HeaderOctets
  BY <1>1 DEF TypeOK
<1>3. /\ Taken \in Seq(Octet) /\ Len(Taken) = RestLength(h) /\ t \in Seq(Octet)
      /\ Cat(Taken, t) = line
  BY <1>1, TakenTyped
<1>4. k < Len(sent)
  <2> HIDE DEF k
  <2>2. k = inStep.sent + Len(Known)  BY DEF k
  <2> QED  BY <1>1, <2>2, SomeFrame
<1>5. f \in AnyFrame /\ r \in Seq(Octet) /\ Cat(h, line) = Cat(e, r)  BY <1>4, NextFrame
<1> HIDE DEF k, f, r, h, t
<1>6. Len(e) = HeaderOctets + RestLength(h) /\ RestLength(h) \in Nat
  BY <1>2, <1>5, HeaderFirst
<1>7. e \in Seq(Octet)  BY <1>5, FrameOctets
<1> HIDE DEF e
<1>8. Cat(h, Taken) \in Seq(Octet) /\ Len(Cat(h, Taken)) = Len(e)
  <2>1. CatTyped(h, Taken)  BY Cats
  <2> QED  BY <1>2, <1>3, <1>6, <2>1 DEF CatTyped
<1>9. Cat(Cat(h, Taken), t) = Cat(e, r)
  <2>1. Regroups(h, Taken, t)  BY Cats
  <2> QED  BY <1>2, <1>3, <1>5, <2>1 DEF Regroups
<1>10. Cat(h, Taken) = e /\ t = r  BY <1>3, <1>5, <1>7, <1>8, <1>9, SameStart
<1>11. DecodeFrame(Cat(h, Taken)) = <<f>>  BY <1>5, <1>10, FrameRoundTrip DEF e
<1>12. Cat(fixed', line') = OctetsOf(Behind(sent, k + 1))
  <2>1. Cat(<<>>, t) = t  BY <1>3, NothingBefore
  <2> QED  BY <1>1, <1>10, <2>1 DEF r
<1>13. heard' = heard \o <<sent[k + 1]>>  BY <1>1, <1>11 DEF f
<1>14. k = inStep.sent + Len(Known)  BY DEF k
<1> QED  BY <1>1, <1>4, <1>12, <1>13, <1>14, FrameHeard

(* A timeout with nothing left to read: had a frame begun, its rest would   *)
(* be on the line.                                                          *)
LEMMA SilentLine ==
  ASSUME TypeOK, InStep, inStep # None, Len(line) < Needed
  PROVE  fixed = <<>> /\ line = <<>>
<1> SUFFICES ASSUME fixed # <<>> \/ line # <<>> PROVE FALSE
  OBVIOUS
<1> DEFINE k == inStep.sent + Len(Known)
           f == sent[k + 1]
           e == EncodeFrame(f)
           r == OctetsOf(Behind(sent, k + 1))
<1>1. line \in Seq(Octet) /\ Len(line) \in Nat  BY DEF TypeOK
<1>2. k < Len(sent)
  <2> HIDE DEF k
  <2>2. k = inStep.sent + Len(Known)  BY DEF k
  <2> QED  BY <2>2, SomeFrame
<1>3. f \in AnyFrame /\ r \in Seq(Octet) /\ Cat(fixed, line) = Cat(e, r)  BY <1>2, NextFrame
<1> HIDE DEF k, f, r
<1>4. e \in Seq(Octet) /\ Len(e) = HeaderOctets + EncodedPayloadLen(Len(f.payload))
      /\ EncodedPayloadLen(Len(f.payload)) \in Nat
  BY <1>3, FrameOctets
<1>5. CASE fixed = <<>>
  <2>1. Cat(fixed, line) = line  BY <1>1, <1>5, NothingBefore
  <2>2. Len(line) < 10  BY <1>5 DEF Needed, HeaderOctets
  <2>3. CatTyped(e, r)  BY Cats
  <2> HIDE DEF e
  <2>4. Len(line) = Len(e) + Len(r)  BY <1>3, <1>4, <2>1, <2>3 DEF CatTyped
  <2>5. Len(e) >= 10 /\ Len(r) \in Nat  BY <1>3, <1>4 DEF HeaderOctets
  <2> QED  BY <1>1, <2>2, <2>4, <2>5
<1>6. CASE fixed # <<>>
  <2>1. fixed \in Seq(Octet) /\ Len(fixed) = HeaderOctets /\ Needed = RestLength(fixed)
    BY <1>6 DEF TypeOK, Needed
  <2>2. RestLength(fixed) <= Len(line) /\ RestLength(fixed) \in Nat
    BY <1>1, <1>3, <2>1, HeaderFirst
  <2> QED  BY <1>1, <2>1, <2>2
<1> QED  BY <1>5, <1>6

LEMMA TimeoutInStep == TypeOK /\ InStep /\ Timeout => InStep'
<1> SUFFICES ASSUME TypeOK, InStep, Timeout PROVE InStep'
  OBVIOUS
<1>1. PICK taken \in 0 .. Len(line) :
        /\ taken < Needed
        /\ IF taken < Len(line) THEN Fault
           ELSE /\ inStep' = IF inStep # None THEN inStep
                             ELSE [sent |-> Len(sent), heard |-> Len(heard)]
                /\ UNCHANGED faults
        /\ fixed' = AfterTimeout
        /\ line' = SubSeq(line, taken + 1, Len(line))
        /\ UNCHANGED <<sent, heard>>
  BY DEF Timeout
<1>2. CASE taken < Len(line)
  <2>1. inStep' = None  BY <1>1, <1>2 DEF Fault
  <2> QED  BY <2>1 DEF InStep
<1>3. CASE ~ (taken < Len(line))
  <2>1. /\ line \in Seq(Octet) /\ Len(line) \in Nat
        /\ sent \in Seq(Sendable) /\ heard \in Seq(AnyFrame)
    BY DEF TypeOK, Sendable
  <2>2. taken = Len(line)  BY <1>3, <2>1
  <2>3. line' = <<>>
    <3>1. Behind(line, Len(line)) = <<>>  BY <2>1, BehindAll
    <3> QED  BY <1>1, <2>2, <3>1 DEF Behind
  <2>4. fixed' = <<>> /\ sent' = sent /\ heard' = heard  BY <1>1 DEF AfterTimeout
  <2>5. CASE inStep # None
    <3>1. fixed = <<>> /\ line = <<>>  BY <1>1, <2>2, <2>5, SilentLine
    <3>2. inStep' = inStep  BY <1>1, <1>3, <2>5
    <3> QED  BY <2>3, <2>4, <2>5, <3>1, <3>2, OnlyMoved
  <2>6. CASE inStep = None
    <3>1. inStep' = [sent |-> Len(sent), heard |-> Len(heard)]  BY <1>1, <1>3, <2>6
    <3>2. inStep'.sent = Len(sent) /\ inStep'.heard = Len(heard)  BY <3>1
    <3>3. Behind(heard, Len(heard)) = <<>> /\ Behind(sent, Len(sent)) = <<>>
      BY <2>1, BehindAll
    <3>4. Known' = <<>>  BY <2>4, <3>2, <3>3 DEF Known, Behind
    <3>5. Coming' = <<>>
      <4>1. Len(<<>>) = 0 /\ Len(sent) + 0 = Len(sent)  BY <2>1
      <4>2. Coming' = Behind(sent, Len(sent) + Len(<<>>))
        BY <2>4, <3>2, <3>4 DEF Coming, Behind
      <4> QED  BY <3>3, <4>1, <4>2
    <3>6. (Known \o Coming = Behind(sent, inStep.sent) /\ Cat(fixed, line) = OctetsOf(Coming))'
      <4>1. Behind(sent, inStep.sent)' = <<>>  BY <2>4, <3>2, <3>3 DEF Behind
      <4>2. OctetsOf(Coming)' = <<>>  BY <3>5, OctetsOfNone DEF OctetsOf
      <4>3. <<>> \o <<>> = <<>>  OBVIOUS
      <4> QED  BY <2>3, <2>4, <3>4, <3>5, <4>1, <4>2, <4>3 DEF Cat
    <3> QED  BY <3>6 DEF InStep, Known, Coming, From, Behind, Cat
  <2> QED  BY <2>5, <2>6
<1> QED  BY <1>2, <1>3

(* Once the line has been silent for one timeout the reader is in step,     *)
(* whatever had gone wrong before: as long as nothing else does, it hears   *)
(* the frames that are sent from then on, in order, and the octets it has   *)
(* not used are those of the frames it has not heard, from the first to the *)
(* last.  No run of zeros, no false start and no length that is too long    *)
(* outlives the silence.                                                    *)
THEOREM ReaderInStep == Spec => []InStep
<1>1. Init => InStep
  <2> SUFFICES ASSUME Init PROVE InStep
    OBVIOUS
  <2>1. sent = <<>> /\ heard = <<>> /\ fixed = <<>> /\ line = <<>> /\ inStep.sent = 0
        /\ inStep.heard = 0
    BY DEF Init
  <2>2. Behind(<<>>, 0) = <<>>
    <3>1. Len(<<>>) = 0 /\ <<>> \in Seq(Octet)  OBVIOUS
    <3>2. Behind(<<>>, Len(<<>>)) = <<>>  BY <3>1, BehindAll
    <3> QED  BY <3>1, <3>2
  <2>3. Known = <<>> /\ Coming = <<>>
    <3>1. Known = <<>>  BY <2>1, <2>2 DEF Known
    <3>2. 0 + Len(<<>>) = 0  OBVIOUS
    <3> QED  BY <2>1, <2>2, <3>1, <3>2 DEF Coming
  <2>4. <<>> \o <<>> = <<>>  OBVIOUS
  <2> QED  BY <2>1, <2>2, <2>3, <2>4, OctetsOfNone, InStepIs DEF Cat
<1>2. TypeOK /\ InStep /\ [Next]_vars => InStep'
  <2> SUFFICES ASSUME TypeOK, InStep, [Next]_vars PROVE InStep'
    BY Zenon
  <2>1. CASE UNCHANGED vars  BY <2>1, Zenon DEF InStep, From, OctetsOf, vars
  <2>2. CASE LoseOctet \/ DamageOctet
    <3>1. inStep' = None  BY <2>2 DEF LoseOctet, DamageOctet, Fault
    <3> QED  BY <3>1 DEF InStep
  <2> QED  BY <2>1, <2>2, SendInStep, HeaderInStep, RestInStep, TimeoutInStep DEF Next
<1> QED  BY <1>1, <1>2, ReaderTyped, PTL DEF Spec

(* On a line that nothing has disturbed, the frames heard are the first of  *)
(* the frames sent: read_frame and write_frame invent, change, repeat and   *)
(* lose nothing of their own, pauses between two frames included.           *)
THEOREM NothingInventedUndisturbed == Spec => [](faults = 0 => NothingInvented)
<1> DEFINE Undisturbed == faults = 0 => inStep = [sent |-> 0, heard |-> 0]
<1>1. Init => Undisturbed  BY DEF Init
<1>2. TypeOK /\ Undisturbed /\ [Next]_vars => Undisturbed'
  <2> SUFFICES ASSUME TypeOK, Undisturbed, [Next]_vars, faults' = 0
               PROVE  inStep' = [sent |-> 0, heard |-> 0]
    OBVIOUS
  <2>1. faults \in Nat  BY BoundAssumption DEF TypeOK
  <2>2. ~ Fault  BY <2>1 DEF Fault
  <2>3. CASE UNCHANGED vars  BY <2>3 DEF vars
  <2>4. CASE Send \/ ReadHeader \/ ReadRest  BY <2>4 DEF Send, ReadHeader, ReadRest
  <2>5. CASE LoseOctet \/ DamageOctet  BY <2>2, <2>5 DEF LoseOctet, DamageOctet
  <2>6. CASE Timeout
    <3>1. /\ inStep' = IF inStep # None THEN inStep
                       ELSE [sent |-> Len(sent), heard |-> Len(heard)]
          /\ UNCHANGED faults
      BY <2>2, <2>6 DEF Timeout
    <3>2. inStep = [sent |-> 0, heard |-> 0]  BY <3>1
    <3> QED  BY <3>1, <3>2, RecordAssumption
  <2> QED  BY <2>3, <2>4, <2>5, <2>6 DEF Next
<1>3. TypeOK /\ InStep /\ Undisturbed => (faults = 0 => NothingInvented)
  <2> SUFFICES ASSUME TypeOK, InStep, Undisturbed, faults = 0 PROVE NothingInvented
    OBVIOUS
  <2>1. inStep # None /\ inStep.sent = 0 /\ inStep.heard = 0
    BY RecordAssumption
  <2>2. /\ sent \in Seq(Sendable) /\ heard \in Seq(AnyFrame)
        /\ \A n \in DOMAIN sent : sent[n].source = n
    BY DEF TypeOK, Sendable
  <2>3. Behind(sent, 0) = sent /\ Behind(heard, 0) = heard
    <3>1. \A S : \A s \in Seq(S) : Behind(s, 0) = s  BY DEF Behind
    <3> QED  BY <2>2, <3>1
  <2>4. heard \o Coming = sent  BY <2>1, <2>3, InStepIs DEF Known
  <2>5. Coming \in Seq(AnyFrame) /\ sent \in Seq(AnyFrame)
    <3>1. Coming \in Seq(AnyFrame)  BY <2>1, StepFacts
    <3>2. heard \o Coming \in Seq(AnyFrame)  BY <2>2, <3>1, ConcatProperties, Zenon
    <3> QED  BY <2>4, <3>1, <3>2
  <2> HIDE DEF Undisturbed
  <2>6. \A i \in DOMAIN heard : i \in DOMAIN sent /\ heard[i] = sent[i]
    <3> DEFINE c == Coming
    <3>1. heard \in Seq(AnyFrame) /\ c \in Seq(AnyFrame)  BY <2>2, <2>5
    <3>2. sent = heard \o c  BY <2>4
    <3> HIDE DEF c
    <3> QED  BY <3>1, <3>2
  <2>7. \A i \in DOMAIN heard : heard[i].source = i  BY <2>2, <2>6
  <2> QED  BY <2>6, <2>7 DEF NothingInvented
<1> QED  BY <1>1, <1>2, <1>3, ReaderTyped, ReaderInStep, PTL DEF Spec

-----------------------------------------------------------------------------
(* The bits of a number, one after the other.                               *)
Power == 0 .. 15

LEMMA PowerIs == \A b : b \in Power <=> b \in Nat /\ b <= 15
BY DEF Power

LEMMA PowersAre ==
  \A b \in Power : \/ b = 0 \/ b = 1 \/ b = 2 \/ b = 3 \/ b = 4 \/ b = 5 \/ b = 6 \/ b = 7
                   \/ b = 8 \/ b = 9 \/ b = 10 \/ b = 11 \/ b = 12 \/ b = 13 \/ b = 14
                   \/ b = 15
BY DEF Power

LEMMA BitsOf == \A n : Bits(n) = {b \in Power : (n \div Weight[b + 1]) % 2 = 1}
BY DEF Bits, Power

LEMMA Peel ==
  ASSUME NEW bit \in {0, 1}, NEW q \in Nat, NEW n, n = bit + 2 * q
  PROVE  n \in Nat /\ n % 2 = bit /\ n \div 2 = q
OBVIOUS

LEMMA Halves ==
  ASSUME NEW n \in Nat, NEW M \in Nat, M > 0, NEW N, N = 2 * M
  PROVE  n \div M \in Nat /\ n \div N = (n \div M) \div 2
<1> DEFINE q == n \div M
           r == n % M
           h == q \div 2
           s == q % 2
<1>1. n = M * q + r /\ q \in Int /\ r \in 0 .. M - 1  BY App!DivMod
<1> HIDE DEF q, r
<1>2. q \in Nat
  <2> SUFFICES ASSUME q <= -1 PROVE FALSE
    BY <1>1
  <2>1. M * q <= -M  BY <1>1
  <2> QED  BY <1>1, <2>1
<1>3. q = 2 * h + s /\ h \in Nat /\ s \in {0, 1}  BY <1>2
<1> HIDE DEF h, s
<1>4. M * q = N * h + M * s /\ M * s \in Nat /\ N * h \in Nat /\ M * s <= M /\ N \in Nat /\ N > 0
  BY <1>3
<1> DEFINE t == M * s + r
<1>5. n = N * h + t /\ t \in 0 .. N - 1  BY <1>1, <1>4
<1> HIDE DEF t
<1>6. n \div N = h
  <2> DEFINE a == n \div N
             b == n % N
  <2>1. n = N * a + b /\ a \in Int /\ b \in 0 .. N - 1  BY <1>4, App!DivMod
  <2>2. b = t
    <3> HIDE DEF a, b
    <3>1. N \in Nat /\ N > 0 /\ h \in Int /\ t \in 0 .. N - 1 /\ n = N * h + t
      BY <1>3, <1>4, <1>5
    <3>2. n % N = t  BY <3>1, App!ModUnique
    <3> QED  BY <3>2 DEF b
  <2> HIDE DEF a, b
  <2> DEFINE k == a - h
             d == N * k
  <2>3. N * k = N * a - N * h  BY <1>3, <1>4, <2>1
  <2>4. d = 0 /\ k \in Int  BY <1>3, <1>4, <1>5, <2>1, <2>2, <2>3
  <2> HIDE DEF k
  <2>5. k = 0  BY <1>4, <2>4
  <2>6. a = h  BY <1>3, <2>1, <2>5 DEF k
  <2> QED  BY <2>6 DEF a
<1> QED  BY <1>2, <1>6 DEF q, h

(* A number shifted right by b bits.                                        *)
Right(n, b) == n \div Weight[b + 1]

LEMMA WeightsDouble ==
  \A b \in 0 .. 14 : /\ Weight[b + 1] \in Nat /\ Weight[b + 1] > 0
                     /\ Weight[(b + 1) + 1] = 2 * Weight[b + 1]
<1> TAKE b \in 0 .. 14
<1>1. \/ b = 0 \/ b = 1 \/ b = 2 \/ b = 3 \/ b = 4 \/ b = 5 \/ b = 6 \/ b = 7
      \/ b = 8 \/ b = 9 \/ b = 10 \/ b = 11 \/ b = 12 \/ b = 13 \/ b = 14
  OBVIOUS
<1> QED  BY <1>1, Weights

ShiftsOnce(n, b) == Right(n, b) \in Nat /\ Right(n, b + 1) = Right(n, b) \div 2

LEMMA EachShift == \A n \in Nat : \A b \in 0 .. 14 : ShiftsOnce(n, b)
<1> TAKE n \in Nat
<1> TAKE b \in 0 .. 14
<1> DEFINE M == Weight[b + 1]
           N == Weight[(b + 1) + 1]
<1>1. M \in Nat /\ M > 0 /\ N = 2 * M  BY WeightsDouble
<1> HIDE DEF M, N
<1>2. n \div M \in Nat /\ n \div N = (n \div M) \div 2  BY <1>1, Halves
<1> QED  BY <1>2 DEF ShiftsOnce, Right, M, N

LEMMA Shifts ==
  ASSUME NEW n \in Nat
  PROVE  /\ \A b \in 0 .. 14 : /\ Right(n, b) \in Nat
                               /\ Right(n, b + 1) = Right(n, b) \div 2
         /\ Right(n, 15) \in Nat
         /\ Right(n, 0) = n /\ n \div 256 = Right(n, 8)
         /\ n \div 65536 = Right(n, 15) \div 2
<1>1. ASSUME NEW b \in 0 .. 14
      PROVE  Right(n, b) \in Nat /\ Right(n, b + 1) = Right(n, b) \div 2
  <2>1. ShiftsOnce(n, b)  BY EachShift, Zenon
  <2> QED  BY <2>1 DEF ShiftsOnce
<1>2. Right(n, 0) = n
  <2>1. n \div 1 = n  OBVIOUS
  <2> QED  BY <2>1, Weights DEF Right
<1>3. n \div 256 = Right(n, 8)  BY Weights DEF Right
<1>4. Right(n, 15) \in Nat /\ n \div 65536 = Right(n, 15) \div 2
  <2> DEFINE M == Weight[15 + 1]
  <2>1. M = 32768  BY Weights
  <2>2. M \in Nat /\ M > 0 /\ 65536 = 2 * M  BY <2>1
  <2> HIDE DEF M
  <2>3. n \div M \in Nat /\ n \div 65536 = (n \div M) \div 2  BY <2>2, Halves
  <2> QED  BY <2>3 DEF Right, M
<1> QED  BY <1>1, <1>2, <1>3, <1>4

LEMMA ValueRight ==
  ASSUME NEW s \in SUBSET Power, NEW n, n = Value(s)
  PROVE  /\ n \in Nat
         /\ \A b \in Power : Right(n, b) % 2 = IF b \in s THEN 1 ELSE 0
         /\ (\A b \in s : b <= 7) => n \div 256 = 0
<1> DEFINE x(b) == IF b \in s THEN 1 ELSE 0
           v15 == x(15) + 2 * 0
           v14 == x(14) + 2 * v15
           v13 == x(13) + 2 * v14
           v12 == x(12) + 2 * v13
           v11 == x(11) + 2 * v12
           v10 == x(10) + 2 * v11
           v9 == x(9) + 2 * v10
           v8 == x(8) + 2 * v9
           v7 == x(7) + 2 * v8
           v6 == x(6) + 2 * v7
           v5 == x(5) + 2 * v6
           v4 == x(4) + 2 * v5
           v3 == x(3) + 2 * v4
           v2 == x(2) + 2 * v3
           v1 == x(1) + 2 * v2
           v0 == x(0) + 2 * v1
<1>1. \A b : x(b) \in {0, 1}  OBVIOUS
<1>2. (\A b \in s : b <= 7) =>
          /\ x(8) = 0 /\ x(9) = 0 /\ x(10) = 0 /\ x(11) = 0
          /\ x(12) = 0 /\ x(13) = 0 /\ x(14) = 0 /\ x(15) = 0
  OBVIOUS
<1>3. n = v0
  <2> DEFINE bit(b) == IF b \in s THEN Weight[b + 1] ELSE 0
  <2>1. /\ bit(0) = 1 * x(0) /\ bit(1) = 2 * x(1)
        /\ bit(2) = 4 * x(2) /\ bit(3) = 8 * x(3)
        /\ bit(4) = 16 * x(4) /\ bit(5) = 32 * x(5)
        /\ bit(6) = 64 * x(6) /\ bit(7) = 128 * x(7)
        /\ bit(8) = 256 * x(8) /\ bit(9) = 512 * x(9)
        /\ bit(10) = 1024 * x(10) /\ bit(11) = 2048 * x(11)
        /\ bit(12) = 4096 * x(12) /\ bit(13) = 8192 * x(13)
        /\ bit(14) = 16384 * x(14) /\ bit(15) = 32768 * x(15)
    BY Weights
  <2>2. n = bit(0) + bit(1) + bit(2) + bit(3) + bit(4) + bit(5) + bit(6) + bit(7)
            + bit(8) + bit(9) + bit(10) + bit(11) + bit(12) + bit(13) + bit(14) + bit(15)
    BY DEF Value
  <2>t. /\ x(0) \in Nat /\ x(1) \in Nat /\ x(2) \in Nat /\ x(3) \in Nat
        /\ x(4) \in Nat /\ x(5) \in Nat /\ x(6) \in Nat /\ x(7) \in Nat
        /\ x(8) \in Nat /\ x(9) \in Nat /\ x(10) \in Nat /\ x(11) \in Nat
        /\ x(12) \in Nat /\ x(13) \in Nat /\ x(14) \in Nat /\ x(15) \in Nat
    OBVIOUS
  <2> HIDE DEF bit, x
  <2>3. /\ v12 = x(12) + 2 * x(13) + 4 * x(14) + 8 * x(15) /\ v12 \in Nat
    BY <2>t
  <2> HIDE DEF v12
  <2>4. v8 = x(8) + 2 * x(9) + 4 * x(10) + 8 * x(11) + 16 * v12 /\ v8 \in Nat
    BY <2>t, <2>3
  <2> HIDE DEF v8
  <2>5. v4 = x(4) + 2 * x(5) + 4 * x(6) + 8 * x(7) + 16 * v8 /\ v4 \in Nat
    BY <2>t, <2>4
  <2> HIDE DEF v4
  <2>6. v0 = x(0) + 2 * x(1) + 4 * x(2) + 8 * x(3) + 16 * v4
    BY <2>t, <2>5
  <2> HIDE DEF v0
  <2>7. bit(0) + bit(1) + bit(2) + bit(3) = v0 - 16 * v4 /\ v0 \in Nat
    BY <2>1, <2>5, <2>6, <2>t
  <2>8. bit(4) + bit(5) + bit(6) + bit(7) = 16 * v4 - 256 * v8  BY <2>1, <2>4, <2>5, <2>t
  <2>9. bit(8) + bit(9) + bit(10) + bit(11) = 256 * v8 - 4096 * v12
    BY <2>1, <2>3, <2>4, <2>t
  <2>10. bit(12) + bit(13) + bit(14) + bit(15) = 4096 * v12  BY <2>1, <2>3, <2>t
  <2>12. /\ bit(0) \in Nat /\ bit(1) \in Nat /\ bit(2) \in Nat /\ bit(3) \in Nat
         /\ bit(4) \in Nat /\ bit(5) \in Nat /\ bit(6) \in Nat /\ bit(7) \in Nat
         /\ bit(8) \in Nat /\ bit(9) \in Nat /\ bit(10) \in Nat /\ bit(11) \in Nat
         /\ bit(12) \in Nat /\ bit(13) \in Nat /\ bit(14) \in Nat /\ bit(15) \in Nat
    BY <2>1, <2>t
  <2> DEFINE a == bit(0) + bit(1) + bit(2) + bit(3)
             b == bit(4) + bit(5) + bit(6) + bit(7)
             c == bit(8) + bit(9) + bit(10) + bit(11)
             d == bit(12) + bit(13) + bit(14) + bit(15)
  <2>13. n = a + b + c + d  BY <2>2, <2>12
  <2>14. a = v0 - 16 * v4 /\ b = 16 * v4 - 256 * v8 /\ c = 256 * v8 - 4096 * v12
         /\ d = 4096 * v12
    BY <2>7, <2>8, <2>9, <2>10, SMT
  <2> HIDE DEF a, b, c, d
  <2> QED  BY <2>3, <2>4, <2>5, <2>7, <2>13, <2>14
<1> HIDE DEF x
<1>n15. v15 \in Nat /\ v15 % 2 = x(15) /\ v15 \div 2 = 0
  <2> DEFINE bit == x(15)
  <2>1. bit \in {0, 1} /\ 0 \in Nat /\ v15 = bit + 2 * 0
    BY <1>1
  <2> HIDE DEF bit, v15
  <2>2. v15 \in Nat /\ v15 % 2 = bit /\ v15 \div 2 = 0  BY <2>1, Peel
  <2> QED  BY <2>2 DEF bit
<1>n14. v14 \in Nat /\ v14 % 2 = x(14) /\ v14 \div 2 = v15
  <2> DEFINE bit == x(14)
  <2>1. bit \in {0, 1} /\ v15 \in Nat /\ v14 = bit + 2 * v15
    <3>1. bit \in {0, 1}  BY <1>1
    <3>2. v14 = bit + 2 * v15  OBVIOUS
    <3> QED  BY <3>1, <3>2, <1>n15, Zenon
  <2> HIDE DEF bit, v14, v15
  <2>2. v14 \in Nat /\ v14 % 2 = bit /\ v14 \div 2 = v15  BY <2>1, Peel
  <2> QED  BY <2>2 DEF bit
<1>n13. v13 \in Nat /\ v13 % 2 = x(13) /\ v13 \div 2 = v14
  <2> DEFINE bit == x(13)
  <2>1. bit \in {0, 1} /\ v14 \in Nat /\ v13 = bit + 2 * v14
    <3>1. bit \in {0, 1}  BY <1>1
    <3>2. v13 = bit + 2 * v14  OBVIOUS
    <3> QED  BY <3>1, <3>2, <1>n14, Zenon
  <2> HIDE DEF bit, v13, v14
  <2>2. v13 \in Nat /\ v13 % 2 = bit /\ v13 \div 2 = v14  BY <2>1, Peel
  <2> QED  BY <2>2 DEF bit
<1>n12. v12 \in Nat /\ v12 % 2 = x(12) /\ v12 \div 2 = v13
  <2> DEFINE bit == x(12)
  <2>1. bit \in {0, 1} /\ v13 \in Nat /\ v12 = bit + 2 * v13
    <3>1. bit \in {0, 1}  BY <1>1
    <3>2. v12 = bit + 2 * v13  OBVIOUS
    <3> QED  BY <3>1, <3>2, <1>n13, Zenon
  <2> HIDE DEF bit, v12, v13
  <2>2. v12 \in Nat /\ v12 % 2 = bit /\ v12 \div 2 = v13  BY <2>1, Peel
  <2> QED  BY <2>2 DEF bit
<1>n11. v11 \in Nat /\ v11 % 2 = x(11) /\ v11 \div 2 = v12
  <2> DEFINE bit == x(11)
  <2>1. bit \in {0, 1} /\ v12 \in Nat /\ v11 = bit + 2 * v12
    <3>1. bit \in {0, 1}  BY <1>1
    <3>2. v11 = bit + 2 * v12  OBVIOUS
    <3> QED  BY <3>1, <3>2, <1>n12, Zenon
  <2> HIDE DEF bit, v11, v12
  <2>2. v11 \in Nat /\ v11 % 2 = bit /\ v11 \div 2 = v12  BY <2>1, Peel
  <2> QED  BY <2>2 DEF bit
<1>n10. v10 \in Nat /\ v10 % 2 = x(10) /\ v10 \div 2 = v11
  <2> DEFINE bit == x(10)
  <2>1. bit \in {0, 1} /\ v11 \in Nat /\ v10 = bit + 2 * v11
    <3>1. bit \in {0, 1}  BY <1>1
    <3>2. v10 = bit + 2 * v11  OBVIOUS
    <3> QED  BY <3>1, <3>2, <1>n11, Zenon
  <2> HIDE DEF bit, v10, v11
  <2>2. v10 \in Nat /\ v10 % 2 = bit /\ v10 \div 2 = v11  BY <2>1, Peel
  <2> QED  BY <2>2 DEF bit
<1>n9. v9 \in Nat /\ v9 % 2 = x(9) /\ v9 \div 2 = v10
  <2> DEFINE bit == x(9)
  <2>1. bit \in {0, 1} /\ v10 \in Nat /\ v9 = bit + 2 * v10
    <3>1. bit \in {0, 1}  BY <1>1
    <3>2. v9 = bit + 2 * v10  OBVIOUS
    <3> QED  BY <3>1, <3>2, <1>n10, Zenon
  <2> HIDE DEF bit, v9, v10
  <2>2. v9 \in Nat /\ v9 % 2 = bit /\ v9 \div 2 = v10  BY <2>1, Peel
  <2> QED  BY <2>2 DEF bit
<1>n8. v8 \in Nat /\ v8 % 2 = x(8) /\ v8 \div 2 = v9
  <2> DEFINE bit == x(8)
  <2>1. bit \in {0, 1} /\ v9 \in Nat /\ v8 = bit + 2 * v9
    <3>1. bit \in {0, 1}  BY <1>1
    <3>2. v8 = bit + 2 * v9  OBVIOUS
    <3> QED  BY <3>1, <3>2, <1>n9, Zenon
  <2> HIDE DEF bit, v8, v9
  <2>2. v8 \in Nat /\ v8 % 2 = bit /\ v8 \div 2 = v9  BY <2>1, Peel
  <2> QED  BY <2>2 DEF bit
<1>n7. v7 \in Nat /\ v7 % 2 = x(7) /\ v7 \div 2 = v8
  <2> DEFINE bit == x(7)
  <2>1. bit \in {0, 1} /\ v8 \in Nat /\ v7 = bit + 2 * v8
    <3>1. bit \in {0, 1}  BY <1>1
    <3>2. v7 = bit + 2 * v8  OBVIOUS
    <3> QED  BY <3>1, <3>2, <1>n8, Zenon
  <2> HIDE DEF bit, v7, v8
  <2>2. v7 \in Nat /\ v7 % 2 = bit /\ v7 \div 2 = v8  BY <2>1, Peel
  <2> QED  BY <2>2 DEF bit
<1>n6. v6 \in Nat /\ v6 % 2 = x(6) /\ v6 \div 2 = v7
  <2> DEFINE bit == x(6)
  <2>1. bit \in {0, 1} /\ v7 \in Nat /\ v6 = bit + 2 * v7
    <3>1. bit \in {0, 1}  BY <1>1
    <3>2. v6 = bit + 2 * v7  OBVIOUS
    <3> QED  BY <3>1, <3>2, <1>n7, Zenon
  <2> HIDE DEF bit, v6, v7
  <2>2. v6 \in Nat /\ v6 % 2 = bit /\ v6 \div 2 = v7  BY <2>1, Peel
  <2> QED  BY <2>2 DEF bit
<1>n5. v5 \in Nat /\ v5 % 2 = x(5) /\ v5 \div 2 = v6
  <2> DEFINE bit == x(5)
  <2>1. bit \in {0, 1} /\ v6 \in Nat /\ v5 = bit + 2 * v6
    <3>1. bit \in {0, 1}  BY <1>1
    <3>2. v5 = bit + 2 * v6  OBVIOUS
    <3> QED  BY <3>1, <3>2, <1>n6, Zenon
  <2> HIDE DEF bit, v5, v6
  <2>2. v5 \in Nat /\ v5 % 2 = bit /\ v5 \div 2 = v6  BY <2>1, Peel
  <2> QED  BY <2>2 DEF bit
<1>n4. v4 \in Nat /\ v4 % 2 = x(4) /\ v4 \div 2 = v5
  <2> DEFINE bit == x(4)
  <2>1. bit \in {0, 1} /\ v5 \in Nat /\ v4 = bit + 2 * v5
    <3>1. bit \in {0, 1}  BY <1>1
    <3>2. v4 = bit + 2 * v5  OBVIOUS
    <3> QED  BY <3>1, <3>2, <1>n5, Zenon
  <2> HIDE DEF bit, v4, v5
  <2>2. v4 \in Nat /\ v4 % 2 = bit /\ v4 \div 2 = v5  BY <2>1, Peel
  <2> QED  BY <2>2 DEF bit
<1>n3. v3 \in Nat /\ v3 % 2 = x(3) /\ v3 \div 2 = v4
  <2> DEFINE bit == x(3)
  <2>1. bit \in {0, 1} /\ v4 \in Nat /\ v3 = bit + 2 * v4
    <3>1. bit \in {0, 1}  BY <1>1
    <3>2. v3 = bit + 2 * v4  OBVIOUS
    <3> QED  BY <3>1, <3>2, <1>n4, Zenon
  <2> HIDE DEF bit, v3, v4
  <2>2. v3 \in Nat /\ v3 % 2 = bit /\ v3 \div 2 = v4  BY <2>1, Peel
  <2> QED  BY <2>2 DEF bit
<1>n2. v2 \in Nat /\ v2 % 2 = x(2) /\ v2 \div 2 = v3
  <2> DEFINE bit == x(2)
  <2>1. bit \in {0, 1} /\ v3 \in Nat /\ v2 = bit + 2 * v3
    <3>1. bit \in {0, 1}  BY <1>1
    <3>2. v2 = bit + 2 * v3  OBVIOUS
    <3> QED  BY <3>1, <3>2, <1>n3, Zenon
  <2> HIDE DEF bit, v2, v3
  <2>2. v2 \in Nat /\ v2 % 2 = bit /\ v2 \div 2 = v3  BY <2>1, Peel
  <2> QED  BY <2>2 DEF bit
<1>n1. v1 \in Nat /\ v1 % 2 = x(1) /\ v1 \div 2 = v2
  <2> DEFINE bit == x(1)
  <2>1. bit \in {0, 1} /\ v2 \in Nat /\ v1 = bit + 2 * v2
    <3>1. bit \in {0, 1}  BY <1>1
    <3>2. v1 = bit + 2 * v2  OBVIOUS
    <3> QED  BY <3>1, <3>2, <1>n2, Zenon
  <2> HIDE DEF bit, v1, v2
  <2>2. v1 \in Nat /\ v1 % 2 = bit /\ v1 \div 2 = v2  BY <2>1, Peel
  <2> QED  BY <2>2 DEF bit
<1>n0. v0 \in Nat /\ v0 % 2 = x(0) /\ v0 \div 2 = v1
  <2> DEFINE bit == x(0)
  <2>1. bit \in {0, 1} /\ v1 \in Nat /\ v0 = bit + 2 * v1
    <3>1. bit \in {0, 1}  BY <1>1
    <3>2. v0 = bit + 2 * v1  OBVIOUS
    <3> QED  BY <3>1, <3>2, <1>n1, Zenon
  <2> HIDE DEF bit, v0, v1
  <2>2. v0 \in Nat /\ v0 % 2 = bit /\ v0 \div 2 = v1  BY <2>1, Peel
  <2> QED  BY <2>2 DEF bit
<1> HIDE DEF v0, v1, v2, v3, v4, v5, v6, v7, v8, v9, v10, v11, v12, v13, v14, v15
<1>5. n \in Nat  BY <1>3, <1>n0
<1>r0. Right(n, 0) = v0  BY <1>3, <1>5, Shifts
<1>r1. Right(n, 1) = v1
  <2>1. 0 \in 0 .. 14 /\ 0 + 1 = 1  OBVIOUS
  <2>2. Right(n, 0 + 1) = Right(n, 0) \div 2  BY <1>5, <2>1, Shifts
  <2> QED  BY <1>n0, <1>r0, <2>1, <2>2
<1>r2. Right(n, 2) = v2
  <2>1. 1 \in 0 .. 14 /\ 1 + 1 = 2  OBVIOUS
  <2>2. Right(n, 1 + 1) = Right(n, 1) \div 2  BY <1>5, <2>1, Shifts
  <2> QED  BY <1>n1, <1>r1, <2>1, <2>2
<1>r3. Right(n, 3) = v3
  <2>1. 2 \in 0 .. 14 /\ 2 + 1 = 3  OBVIOUS
  <2>2. Right(n, 2 + 1) = Right(n, 2) \div 2  BY <1>5, <2>1, Shifts
  <2> QED  BY <1>n2, <1>r2, <2>1, <2>2
<1>r4. Right(n, 4) = v4
  <2>1. 3 \in 0 .. 14 /\ 3 + 1 = 4  OBVIOUS
  <2>2. Right(n, 3 + 1) = Right(n, 3) \div 2  BY <1>5, <2>1, Shifts
  <2> QED  BY <1>n3, <1>r3, <2>1, <2>2
<1>r5. Right(n, 5) = v5
  <2>1. 4 \in 0 .. 14 /\ 4 + 1 = 5  OBVIOUS
  <2>2. Right(n, 4 + 1) = Right(n, 4) \div 2  BY <1>5, <2>1, Shifts
  <2> QED  BY <1>n4, <1>r4, <2>1, <2>2
<1>r6. Right(n, 6) = v6
  <2>1. 5 \in 0 .. 14 /\ 5 + 1 = 6  OBVIOUS
  <2>2. Right(n, 5 + 1) = Right(n, 5) \div 2  BY <1>5, <2>1, Shifts
  <2> QED  BY <1>n5, <1>r5, <2>1, <2>2
<1>r7. Right(n, 7) = v7
  <2>1. 6 \in 0 .. 14 /\ 6 + 1 = 7  OBVIOUS
  <2>2. Right(n, 6 + 1) = Right(n, 6) \div 2  BY <1>5, <2>1, Shifts
  <2> QED  BY <1>n6, <1>r6, <2>1, <2>2
<1>r8. Right(n, 8) = v8
  <2>1. 7 \in 0 .. 14 /\ 7 + 1 = 8  OBVIOUS
  <2>2. Right(n, 7 + 1) = Right(n, 7) \div 2  BY <1>5, <2>1, Shifts
  <2> QED  BY <1>n7, <1>r7, <2>1, <2>2
<1>r9. Right(n, 9) = v9
  <2>1. 8 \in 0 .. 14 /\ 8 + 1 = 9  OBVIOUS
  <2>2. Right(n, 8 + 1) = Right(n, 8) \div 2  BY <1>5, <2>1, Shifts
  <2> QED  BY <1>n8, <1>r8, <2>1, <2>2
<1>r10. Right(n, 10) = v10
  <2>1. 9 \in 0 .. 14 /\ 9 + 1 = 10  OBVIOUS
  <2>2. Right(n, 9 + 1) = Right(n, 9) \div 2  BY <1>5, <2>1, Shifts
  <2> QED  BY <1>n9, <1>r9, <2>1, <2>2
<1>r11. Right(n, 11) = v11
  <2>1. 10 \in 0 .. 14 /\ 10 + 1 = 11  OBVIOUS
  <2>2. Right(n, 10 + 1) = Right(n, 10) \div 2  BY <1>5, <2>1, Shifts
  <2> QED  BY <1>n10, <1>r10, <2>1, <2>2
<1>r12. Right(n, 12) = v12
  <2>1. 11 \in 0 .. 14 /\ 11 + 1 = 12  OBVIOUS
  <2>2. Right(n, 11 + 1) = Right(n, 11) \div 2  BY <1>5, <2>1, Shifts
  <2> QED  BY <1>n11, <1>r11, <2>1, <2>2
<1>r13. Right(n, 13) = v13
  <2>1. 12 \in 0 .. 14 /\ 12 + 1 = 13  OBVIOUS
  <2>2. Right(n, 12 + 1) = Right(n, 12) \div 2  BY <1>5, <2>1, Shifts
  <2> QED  BY <1>n12, <1>r12, <2>1, <2>2
<1>r14. Right(n, 14) = v14
  <2>1. 13 \in 0 .. 14 /\ 13 + 1 = 14  OBVIOUS
  <2>2. Right(n, 13 + 1) = Right(n, 13) \div 2  BY <1>5, <2>1, Shifts
  <2> QED  BY <1>n13, <1>r13, <2>1, <2>2
<1>r15. Right(n, 15) = v15
  <2>1. 14 \in 0 .. 14 /\ 14 + 1 = 15  OBVIOUS
  <2>2. Right(n, 14 + 1) = Right(n, 14) \div 2  BY <1>5, <2>1, Shifts
  <2> QED  BY <1>n14, <1>r14, <2>1, <2>2
<1>7. ASSUME NEW b \in Power
      PROVE  Right(n, b) % 2 = x(b)
  <2>1. \/ b = 0 \/ b = 1 \/ b = 2 \/ b = 3 \/ b = 4 \/ b = 5 \/ b = 6 \/ b = 7
        \/ b = 8 \/ b = 9 \/ b = 10 \/ b = 11 \/ b = 12 \/ b = 13 \/ b = 14 \/ b = 15
    BY PowersAre
  <2>2. CASE \/ b = 0 \/ b = 1 \/ b = 2 \/ b = 3 \/ b = 4 \/ b = 5 \/ b = 6 \/ b = 7
    BY <2>2, <1>n0, <1>n1, <1>n2, <1>n3, <1>n4, <1>n5, <1>n6, <1>n7,
       <1>r0, <1>r1, <1>r2, <1>r3, <1>r4, <1>r5, <1>r6, <1>r7, Zenon
  <2>3. CASE \/ b = 8 \/ b = 9 \/ b = 10 \/ b = 11 \/ b = 12 \/ b = 13 \/ b = 14 \/ b = 15
    BY <2>3, <1>n8, <1>n9, <1>n10, <1>n11, <1>n12, <1>n13, <1>n14, <1>n15,
       <1>r8, <1>r9, <1>r10, <1>r11, <1>r12, <1>r13, <1>r14, <1>r15, Zenon
  <2> QED  BY <2>1, <2>2, <2>3
<1>8. ASSUME NEW b \in Power
      PROVE  Right(n, b) % 2 = IF b \in s THEN 1 ELSE 0
  <2>1. Right(n, b) % 2 = x(b)  BY <1>7
  <2> QED  BY <2>1, Zenon DEF x
<1>9. (\A b \in s : b <= 7) => n \div 256 = 0
  <2> SUFFICES ASSUME \A b \in s : b <= 7 PROVE n \div 256 = 0
    OBVIOUS
  <2>1. v8 = 0
    BY <1>2 DEF v8, v9, v10, v11, v12, v13, v14, v15
  <2> QED  BY <1>5, <1>r8, <2>1, Shifts
<1> QED  BY <1>5, <1>8, <1>9

LEMMA BitsOfValue ==
  ASSUME NEW s \in SUBSET Power
  PROVE  Bits(Value(s)) = s /\ ((\A b \in s : b <= 7) => Value(s) \in Octet)
<1> DEFINE n == Value(s)
<1> HIDE DEF n
<1>1. /\ n \in Nat
      /\ \A b \in Power : Right(n, b) % 2 = IF b \in s THEN 1 ELSE 0
      /\ (\A b \in s : b <= 7) => n \div 256 = 0
  BY ValueRight DEF n
<1>2. Bits(n) = s
  <2>1. Bits(n) = {b \in Power : Right(n, b) % 2 = 1}  BY BitsOf DEF Right
  <2> QED  BY <1>1, <2>1
<1>3. ASSUME \A b \in s : b <= 7 PROVE n \in Octet
  <2>1. n \div 256 = 0  BY <1>1, <1>3
  <2>2. n <= 255  BY <1>1, <2>1
  <2> QED  BY <1>1, <2>2, OctetRange
<1> QED  BY <1>2, <1>3 DEF n

(* The high octet holds the bits from the eighth on.                        *)
LEMMA HighOctet ==
  ASSUME NEW m \in Nat, NEW n \in Nat, m \div 256 = n \div 256,
         NEW b \in Power, b >= 8
  PROVE  b \in Bits(m) <=> b \in Bits(n)
<1>1. Right(m, 8) = Right(n, 8)
  <2>1. m \div 256 = Right(m, 8)  BY Shifts
  <2>2. n \div 256 = Right(n, 8)  BY Shifts
  <2> QED  BY <2>1, <2>2
<1>2. ASSUME NEW c \in 0 .. 14, Right(m, c) = Right(n, c)
      PROVE  Right(m, c + 1) = Right(n, c + 1)
  <2>1. ShiftsOnce(m, c) /\ ShiftsOnce(n, c)  BY EachShift, Zenon
  <2> QED  BY <1>2, <2>1 DEF ShiftsOnce
<1>3. Right(m, 9) = Right(n, 9)
  <2>1. 8 \in 0 .. 14 /\ 8 + 1 = 9  OBVIOUS
  <2> QED  BY <1>1, <1>2, <2>1
<1>4. Right(m, 10) = Right(n, 10)
  <2>1. 9 \in 0 .. 14 /\ 9 + 1 = 10  OBVIOUS
  <2> QED  BY <1>2, <1>3, <2>1
<1>5. Right(m, 11) = Right(n, 11)
  <2>1. 10 \in 0 .. 14 /\ 10 + 1 = 11  OBVIOUS
  <2> QED  BY <1>2, <1>4, <2>1
<1>6. Right(m, 12) = Right(n, 12)
  <2>1. 11 \in 0 .. 14 /\ 11 + 1 = 12  OBVIOUS
  <2> QED  BY <1>2, <1>5, <2>1
<1>7. Right(m, 13) = Right(n, 13)
  <2>1. 12 \in 0 .. 14 /\ 12 + 1 = 13  OBVIOUS
  <2> QED  BY <1>2, <1>6, <2>1
<1>8. Right(m, 14) = Right(n, 14)
  <2>1. 13 \in 0 .. 14 /\ 13 + 1 = 14  OBVIOUS
  <2> QED  BY <1>2, <1>7, <2>1
<1>9. Right(m, 15) = Right(n, 15)
  <2>1. 14 \in 0 .. 14 /\ 14 + 1 = 15  OBVIOUS
  <2> QED  BY <1>2, <1>8, <2>1
<1>10. b = 8 \/ b = 9 \/ b = 10 \/ b = 11 \/ b = 12 \/ b = 13 \/ b = 14 \/ b = 15
  BY PowerIs
<1>11. Right(m, b) = Right(n, b)
  BY <1>1, <1>3, <1>4, <1>5, <1>6, <1>7, <1>8, <1>9, <1>10
<1> QED  BY <1>11, BitsOf DEF Right

(* The bits of an octet, of which there are some unless it is zero.         *)
LEMMA OctetBits ==
  ASSUME NEW o \in Octet
  PROVE  /\ Bits(o) \in SUBSET Power /\ \A b \in Bits(o) : b <= 7
         /\ o # 0 => Bits(o) # {}
<1>1. o \in Nat /\ o <= 255  BY OctetRange
<1>2. o \div 256 = 0 /\ 0 \div 256 = 0 /\ 0 \in Nat  BY <1>1
<1>3. Bits(0) = {}
  <2> SUFFICES ASSUME NEW b \in Power, (0 \div Weight[b + 1]) % 2 = 1 PROVE FALSE
    BY BitsOf
  <2>1. \/ b = 0 \/ b = 1 \/ b = 2 \/ b = 3 \/ b = 4 \/ b = 5 \/ b = 6 \/ b = 7
        \/ b = 8 \/ b = 9 \/ b = 10 \/ b = 11 \/ b = 12 \/ b = 13 \/ b = 14 \/ b = 15
    BY PowersAre
  <2>2. Weight[b + 1] \in Nat /\ Weight[b + 1] > 0  BY <2>1, Weights
  <2> DEFINE M == Weight[b + 1]
  <2>3. 0 \in 0 .. M - 1 /\ 0 \in Int  BY <2>2
  <2> HIDE DEF M
  <2>4. M \in Nat /\ M > 0  BY <2>2 DEF M
  <2>5. 0 \div M = 0  BY <2>4
  <2>6. 0 % 2 = 0  OBVIOUS
  <2> QED  BY <2>5, <2>6 DEF M
<1>4. Bits(o) \in SUBSET Power  BY BitsOf
<1>5. ASSUME NEW b \in Bits(o) PROVE b <= 7
  <2> SUFFICES ASSUME ~ (b <= 7) PROVE FALSE
    OBVIOUS
  <2>1. b \in Power /\ b >= 8  BY <1>4, PowerIs
  <2>2. b \in Bits(0)  BY <1>1, <1>2, <2>1, HighOctet
  <2> QED  BY <1>3, <2>2
<1>6. ASSUME Bits(o) = {} PROVE o = 0
  <2>1. Right(o, 8) = 0 /\ Right(o, 0) = o
    <3>1. o \in Nat  BY <1>1
    <3>2. o \div 256 = Right(o, 8) /\ Right(o, 0) = o  BY <3>1, Shifts
    <3> QED  BY <1>2, <3>2
  <2>2. ASSUME NEW b \in 0 .. 7, Right(o, b + 1) = 0
        PROVE  Right(o, b) = 0
    <3>1. b \in 0 .. 14 /\ b \in Power  BY PowerIs
    <3>o. o \in Nat  BY <1>1
    <3>s. ShiftsOnce(o, b)  BY <3>o, <3>1, EachShift, Zenon
    <3>2. Right(o, b) \in Nat /\ Right(o, b + 1) = Right(o, b) \div 2  BY <3>s DEF ShiftsOnce
    <3>3. Right(o, b) % 2 # 1  BY <1>6, <3>1, BitsOf DEF Right
    <3> DEFINE q == Right(o, b)
    <3>4. q \in Nat /\ q \div 2 = 0 /\ q % 2 # 1  BY <2>2, <3>2, <3>3
    <3> HIDE DEF q
    <3>5. q = 0  BY <3>4
    <3> QED  BY <3>5 DEF q
  <2>3. \A b \in 0 .. 7 : Right(o, b + 1) = 0 => Right(o, b) = 0  BY <2>2
  <2>4. Right(o, 7) = 0 /\ Right(o, 6) = 0 /\ Right(o, 5) = 0 /\ Right(o, 4) = 0
    <3>1. 7 \in 0 .. 7 /\ 6 \in 0 .. 7 /\ 5 \in 0 .. 7 /\ 4 \in 0 .. 7
          /\ 7 + 1 = 8 /\ 6 + 1 = 7 /\ 5 + 1 = 6 /\ 4 + 1 = 5
      OBVIOUS
    <3> QED  BY <2>1, <2>3, <3>1
  <2>5. Right(o, 3) = 0 /\ Right(o, 2) = 0 /\ Right(o, 1) = 0 /\ Right(o, 0) = 0
    <3>1. 3 \in 0 .. 7 /\ 2 \in 0 .. 7 /\ 1 \in 0 .. 7 /\ 0 \in 0 .. 7
          /\ 3 + 1 = 4 /\ 2 + 1 = 3 /\ 1 + 1 = 2 /\ 0 + 1 = 1
      OBVIOUS
    <3> QED  BY <2>3, <2>4, <3>1
  <2> QED  BY <2>1, <2>5
<1> QED  BY <1>4, <1>5, <1>6

-----------------------------------------------------------------------------
(* The register of the CRC.                                                 *)
Register == SUBSET Power

LEMMA SymDiffIs ==
  \A A, B : \A x : x \in SymDiff(A, B) <=> (x \in A /\ x \notin B) \/ (x \in B /\ x \notin A)
BY DEF SymDiff

LEMMA PolynomialIs == Polynomial \in Register /\ 15 \in Polynomial
<1>1. Polynomial = {b \in Power : (42684 \div Weight[b + 1]) % 2 = 1}
  BY BitsOf DEF Polynomial
<1>2. 15 \in Power  BY PowerIs
<1>3. (42684 \div 32768) % 2 = 1  OBVIOUS
<1> QED  BY <1>1, <1>2, <1>3, Weights DEF Register

LEMMA RightIs ==
  ASSUME NEW r \in Register
  PROVE  /\ ShiftedRight(r) \in Register /\ 15 \notin ShiftedRight(r)
         /\ \A x \in Power : x \in ShiftedRight(r) <=> x + 1 \in r
<1>1. ASSUME NEW x \in ShiftedRight(r)
      PROVE  x \in Power /\ x # 15 /\ x + 1 \in r
  <2>1. PICK b \in r \ {0} : x = b - 1  BY DEF ShiftedRight
  <2>2. b \in Nat /\ b <= 15  BY PowerIs DEF Register
  <2>3. x \in Nat /\ x <= 14 /\ x + 1 = b  BY <2>1, <2>2
  <2>4. x <= 15 /\ x # 15  BY <2>3
  <2> QED  BY <2>1, <2>3, <2>4, PowerIs
<1>2. ASSUME NEW x \in Power, x + 1 \in r PROVE x \in ShiftedRight(r)
  <2>1. x \in Nat  BY PowerIs
  <2>2. x + 1 # 0 /\ (x + 1) - 1 = x  BY <2>1
  <2> QED  BY <1>2, <2>2 DEF ShiftedRight
<1> QED  BY <1>1, <1>2 DEF Register

(* One shift, and eight, of the exclusive or of two registers.              *)
LEMMA ShiftLinear ==
  ASSUME NEW a \in Register, NEW b \in Register
  PROVE  /\ ShiftOnce(a) \in Register /\ SymDiff(a, b) \in Register
         /\ ShiftOnce(SymDiff(a, b)) = SymDiff(ShiftOnce(a), ShiftOnce(b))
<1> DEFINE c == SymDiff(a, b)
           P == Polynomial
<1>1. c \in Register  BY SymDiffIs DEF Register
<1>2. /\ 0 \in c <=> ~ (0 \in a <=> 0 \in b)
      /\ \A x : x \in c <=> ~ (x \in a <=> x \in b)
  BY SymDiffIs
<1>3. P \in Register  BY PolynomialIs
<1> HIDE DEF c, P
<1>4. ASSUME NEW r \in Register
      PROVE  /\ ShiftOnce(r) \in Register
             /\ \A x \in Power : x \in ShiftOnce(r) <=>
                    IF 0 \in r THEN ~ (x + 1 \in r <=> x \in P) ELSE x + 1 \in r
  <2>1. /\ ShiftedRight(r) \in Register
        /\ \A x \in Power : x \in ShiftedRight(r) <=> x + 1 \in r
    BY RightIs
  <2>2. CASE 0 \in r
    <3>1. ShiftOnce(r) = SymDiff(ShiftedRight(r), P)  BY <2>2 DEF ShiftOnce, P
    <3> QED  BY <1>3, <2>1, <2>2, <3>1, SymDiffIs DEF Register
  <2>3. CASE 0 \notin r
    <3>1. ShiftOnce(r) = ShiftedRight(r)  BY <2>3 DEF ShiftOnce
    <3> QED  BY <2>1, <2>3, <3>1
  <2> QED  BY <2>2, <2>3
<1>5. ShiftOnce(a) \in Register /\ ShiftOnce(b) \in Register /\ ShiftOnce(c) \in Register
  BY <1>1, <1>4
<1>6. ASSUME NEW x \in Power
      PROVE  x \in ShiftOnce(c) <=> x \in SymDiff(ShiftOnce(a), ShiftOnce(b))
  <2>1. x \in ShiftOnce(a) <=> IF 0 \in a THEN ~ (x + 1 \in a <=> x \in P) ELSE x + 1 \in a
    BY <1>4
  <2>2. x \in ShiftOnce(b) <=> IF 0 \in b THEN ~ (x + 1 \in b <=> x \in P) ELSE x + 1 \in b
    BY <1>4
  <2>3. x \in ShiftOnce(c) <=> IF 0 \in c THEN ~ (x + 1 \in c <=> x \in P) ELSE x + 1 \in c
    BY <1>1, <1>4
  <2>4. x \in SymDiff(ShiftOnce(a), ShiftOnce(b))
           <=> ~ (x \in ShiftOnce(a) <=> x \in ShiftOnce(b))
    BY SymDiffIs
  <2>5. x + 1 \in c <=> ~ (x + 1 \in a <=> x + 1 \in b)  BY <1>2
  <2> QED  BY <1>2, <2>1, <2>2, <2>3, <2>4, <2>5
<1>7. SymDiff(ShiftOnce(a), ShiftOnce(b)) \in Register  BY <1>5, SymDiffIs DEF Register
<1>8. ShiftOnce(c) = SymDiff(ShiftOnce(a), ShiftOnce(b))  BY <1>5, <1>6, <1>7 DEF Register
<1> QED  BY <1>1, <1>5, <1>8 DEF c

(* After n shifts of what was one of the low eight bits, either a one has   *)
(* been shifted out, and the generator has left a high bit, or one of the   *)
(* bits is still to come.                                                   *)
Remains(r, n) == \E b \in r : b + n >= 16 \/ b + n <= 7

LEMMA ShiftRemains ==
  ASSUME NEW r \in Register
  PROVE  /\ r # {} => ShiftOnce(r) # {}
         /\ \A n \in Nat : Remains(r, n) => Remains(ShiftOnce(r), n + 1)
<1>1. /\ ShiftedRight(r) \in Register /\ 15 \notin ShiftedRight(r)
      /\ \A x \in Power : x \in ShiftedRight(r) <=> x + 1 \in r
  BY RightIs
<1>2. CASE 0 \in r
  <2>1. ShiftOnce(r) = SymDiff(ShiftedRight(r), Polynomial)  BY <1>2 DEF ShiftOnce
  <2>2. 15 \in ShiftOnce(r)  BY <1>1, <2>1, PolynomialIs, SymDiffIs
  <2>3. \A n \in Nat : 15 + (n + 1) >= 16  OBVIOUS
  <2> QED  BY <2>2, <2>3 DEF Remains
<1>3. CASE 0 \notin r
  <2>1. ShiftOnce(r) = ShiftedRight(r)  BY <1>3 DEF ShiftOnce
  <2>2. ASSUME NEW b \in r
        PROVE  b - 1 \in ShiftedRight(r) /\ b \in Nat
    <3>1. b \in Nat /\ b # 0  BY <1>3, PowerIs DEF Register
    <3> QED  BY <3>1 DEF ShiftedRight
  <2>3. r # {} => ShiftOnce(r) # {}  BY <2>1, <2>2
  <2>4. ASSUME NEW n \in Nat, Remains(r, n) PROVE Remains(ShiftOnce(r), n + 1)
    <3>1. PICK b \in r : b + n >= 16 \/ b + n <= 7  BY <2>4 DEF Remains
    <3>2. b - 1 \in ShiftedRight(r) /\ b \in Nat  BY <2>2
    <3>3. (b - 1) + (n + 1) = b + n  BY <3>2
    <3> QED  BY <2>1, <3>1, <3>2, <3>3 DEF Remains
  <2> QED  BY <2>3, <2>4
<1> QED  BY <1>2, <1>3

(* Eight shifts, in two halves of two halves.                               *)
ShiftTwice(r) == ShiftOnce(ShiftOnce(r))
ShiftFour(r) == ShiftTwice(ShiftTwice(r))

ShiftStep == [i \in 1 .. 8 |-> [v \in Register |-> ShiftOnce(v)]]

LEMMA ShiftOctetIs ==
  ASSUME NEW r \in Register
  PROVE  ShiftOctet(r) = ShiftFour(ShiftFour(r))
<1> DEFINE shifted[n \in 0 .. 8] ==
               IF n = 0 THEN r ELSE LET last == shifted[n - 1] IN ShiftOnce(last)
<1>1. ShiftOctet(r) = shifted[8]  BY DEF ShiftOctet
<1>2. ShiftStep \in [1 .. 8 -> [Register -> Register]]  BY ShiftLinear DEF ShiftStep
<1>3. PICK f \in [0 .. 8 -> Register] : Follows(f, 8, r, ShiftStep)
  <2>1. 8 \in Nat  OBVIOUS
  <2> QED  BY <1>2, <2>1, RecursionExists
<1>4. f = [n \in 0 .. 8 |-> IF n = 0 THEN r ELSE ShiftOnce(f[n - 1])]
  <2>1. ASSUME NEW n \in 0 .. 8, n # 0
        PROVE  ShiftStep[n][f[n - 1]] = ShiftOnce(f[n - 1])
    <3>1. n \in 1 .. 8 /\ n - 1 \in 0 .. 8  BY <2>1
    <3>2. f[n - 1] \in Register  BY <3>1
    <3> HIDE DEF Register
    <3> QED  BY <3>1, <3>2 DEF ShiftStep
  <2>2. f = [n \in 0 .. 8 |-> IF n = 0 THEN r ELSE ShiftStep[n][f[n - 1]]]
    BY <1>3 DEF Follows
  <2> QED  BY <2>1, <2>2
<1>5. shifted = [n \in 0 .. 8 |-> IF n = 0 THEN r ELSE ShiftOnce(shifted[n - 1])]
  BY <1>4
<1> HIDE DEF shifted
<1>6. ASSUME NEW n \in 0 .. 8
      PROVE  shifted[n] = IF n = 0 THEN r ELSE ShiftOnce(shifted[n - 1])
  BY <1>5
<1>7. /\ shifted[0] = r /\ shifted[1] = ShiftOnce(shifted[0])
      /\ shifted[2] = ShiftOnce(shifted[1]) /\ shifted[3] = ShiftOnce(shifted[2])
      /\ shifted[4] = ShiftOnce(shifted[3]) /\ shifted[5] = ShiftOnce(shifted[4])
      /\ shifted[6] = ShiftOnce(shifted[5]) /\ shifted[7] = ShiftOnce(shifted[6])
      /\ shifted[8] = ShiftOnce(shifted[7])
  BY <1>6
<1> QED  BY <1>1, <1>7, Zenon DEF ShiftFour, ShiftTwice

LEMMA ShiftTwiceLinear ==
  ASSUME NEW a \in Register, NEW b \in Register
  PROVE  /\ ShiftTwice(a) \in Register
         /\ ShiftTwice(SymDiff(a, b)) = SymDiff(ShiftTwice(a), ShiftTwice(b))
         /\ a # {} => ShiftTwice(a) # {}
         /\ \A n \in Nat : Remains(a, n) => Remains(ShiftTwice(a), n + 2)
<1> DEFINE c == ShiftOnce(a)
           d == ShiftOnce(b)
<1>1. c \in Register /\ d \in Register /\ ShiftOnce(SymDiff(a, b)) = SymDiff(c, d)
  BY ShiftLinear
<1>2. /\ a # {} => c # {}
      /\ \A n \in Nat : Remains(a, n) => Remains(c, n + 1)
  BY ShiftRemains
<1> HIDE DEF c, d
<1>3. ShiftOnce(c) \in Register /\ ShiftOnce(SymDiff(c, d)) = SymDiff(ShiftOnce(c), ShiftOnce(d))
  BY <1>1, ShiftLinear
<1>4. /\ c # {} => ShiftOnce(c) # {}
      /\ \A n \in Nat : Remains(c, n) => Remains(ShiftOnce(c), n + 1)
  BY <1>1, ShiftRemains
<1>5. \A n \in Nat : n + 1 \in Nat /\ (n + 1) + 1 = n + 2  OBVIOUS
<1>6. ShiftTwice(a) = ShiftOnce(c) /\ ShiftTwice(b) = ShiftOnce(d)  BY DEF ShiftTwice, c, d
<1>7. ShiftTwice(SymDiff(a, b)) = ShiftOnce(SymDiff(c, d))  BY <1>1 DEF ShiftTwice
<1> QED  BY <1>2, <1>3, <1>4, <1>5, <1>6, <1>7

LEMMA ShiftFourLinear ==
  ASSUME NEW a \in Register, NEW b \in Register
  PROVE  /\ ShiftFour(a) \in Register
         /\ ShiftFour(SymDiff(a, b)) = SymDiff(ShiftFour(a), ShiftFour(b))
         /\ a # {} => ShiftFour(a) # {}
         /\ \A n \in Nat : Remains(a, n) => Remains(ShiftFour(a), n + 4)
<1> DEFINE c == ShiftTwice(a)
           d == ShiftTwice(b)
<1>1. /\ c \in Register /\ d \in Register /\ ShiftTwice(SymDiff(a, b)) = SymDiff(c, d)
      /\ a # {} => c # {}
      /\ \A n \in Nat : Remains(a, n) => Remains(c, n + 2)
  BY ShiftTwiceLinear
<1> HIDE DEF c, d
<1>2. /\ ShiftTwice(c) \in Register
      /\ ShiftTwice(SymDiff(c, d)) = SymDiff(ShiftTwice(c), ShiftTwice(d))
      /\ c # {} => ShiftTwice(c) # {}
      /\ \A n \in Nat : Remains(c, n) => Remains(ShiftTwice(c), n + 2)
  BY <1>1, ShiftTwiceLinear
<1>3. \A n \in Nat : n + 2 \in Nat /\ (n + 2) + 2 = n + 4  OBVIOUS
<1>4. ShiftFour(a) = ShiftTwice(c) /\ ShiftFour(b) = ShiftTwice(d)  BY DEF ShiftFour, c, d
<1>5. ShiftFour(SymDiff(a, b)) = ShiftTwice(SymDiff(c, d))  BY <1>1 DEF ShiftFour
<1> QED  BY <1>1, <1>2, <1>3, <1>4, <1>5

(* What an octet's eight shifts do to a register, and to two that differ.   *)
HighBit(r) == \E b \in r : b >= 8

LEMMA ShiftOctetLinear ==
  ASSUME NEW a \in Register, NEW b \in Register
  PROVE  /\ ShiftOctet(a) \in Register
         /\ ShiftOctet(SymDiff(a, b)) = SymDiff(ShiftOctet(a), ShiftOctet(b))
         /\ a # {} => ShiftOctet(a) # {}
         /\ (a # {} /\ \A x \in a : x <= 7) => HighBit(ShiftOctet(a))
<1> DEFINE c == ShiftFour(a)
           d == ShiftFour(b)
<1>1. /\ c \in Register /\ d \in Register /\ ShiftFour(SymDiff(a, b)) = SymDiff(c, d)
      /\ a # {} => c # {}
      /\ \A n \in Nat : Remains(a, n) => Remains(c, n + 4)
  BY ShiftFourLinear
<1> HIDE DEF c, d
<1>2. /\ ShiftFour(c) \in Register
      /\ ShiftFour(SymDiff(c, d)) = SymDiff(ShiftFour(c), ShiftFour(d))
      /\ c # {} => ShiftFour(c) # {}
      /\ \A n \in Nat : Remains(c, n) => Remains(ShiftFour(c), n + 4)
  BY <1>1, ShiftFourLinear
<1>3. ShiftOctet(a) = ShiftFour(c) /\ ShiftOctet(b) = ShiftFour(d)
  BY ShiftOctetIs DEF c, d
<1>4. SymDiff(a, b) \in Register  BY ShiftLinear
<1>5. ShiftOctet(SymDiff(a, b)) = ShiftFour(SymDiff(c, d))  BY <1>1, <1>4, ShiftOctetIs
<1>6. ASSUME a # {}, \A x \in a : x <= 7
      PROVE  HighBit(ShiftOctet(a))
  <2>1. Remains(a, 0)
    <3>1. PICK x \in a : TRUE  BY <1>6
    <3>2. x \in Nat /\ x <= 7  BY <1>6, PowerIs DEF Register
    <3>3. x + 0 <= 7  BY <3>2
    <3> QED  BY <3>1, <3>3 DEF Remains
  <2>2. Remains(ShiftFour(c), 8)
    <3>1. 0 \in Nat /\ 4 \in Nat /\ 0 + 4 = 4 /\ 4 + 4 = 8  OBVIOUS
    <3>2. Remains(c, 4)  BY <1>1, <2>1, <3>1
    <3> QED  BY <1>2, <3>1, <3>2
  <2>3. PICK x \in ShiftFour(c) : x + 8 >= 16 \/ x + 8 <= 7  BY <2>2 DEF Remains
  <2>4. x \in Nat  BY <1>2, PowerIs DEF Register
  <2>5. x >= 8  BY <2>3, <2>4
  <2> QED  BY <1>3, <2>5 DEF HighBit
<1> QED  BY <1>1, <1>2, <1>3, <1>5, <1>6

(* The register of crc16, octet by octet.                                   *)
AfterOctets(f, block) ==
    /\ f \in [0 .. Len(block) -> Register]
    /\ f[0] = {}
    /\ \A i \in 1 .. Len(block) : f[i] = ShiftOctet(SymDiff(f[i - 1], Bits(block[i])))

OctetSteps(block) ==
    [i \in 1 .. Len(block) |-> [v \in Register |-> ShiftOctet(SymDiff(v, Bits(block[i])))]]

LEMMA BitsInRegister == \A n : Bits(n) \in Register
BY BitsOf DEF Register

LEMMA OctetStep ==
  ASSUME NEW v \in Register, NEW n
  PROVE  ShiftOctet(SymDiff(v, Bits(n))) \in Register
<1>1. Bits(n) \in Register  BY BitsInRegister
<1> DEFINE a == Bits(n)
<1> HIDE DEF a
<1>2. SymDiff(v, a) \in Register  BY <1>1, ShiftLinear DEF a
<1>3. ShiftOctet(SymDiff(v, a)) \in Register  BY <1>2, ShiftOctetLinear
<1> QED  BY <1>3 DEF a

LEMMA CrcAfter ==
  ASSUME NEW block \in Seq(Octet)
  PROVE  \E f : AfterOctets(f, block) /\ Crc16(block) = Power \ f[Len(block)]
<1> DEFINE after[i \in 0 .. Len(block)] ==
               IF i = 0 THEN {}
               ELSE LET last == SymDiff(after[i - 1], BitsOfOctet[block[i]])
                    IN  ShiftOctet(last)
           n == Len(block)
           step == OctetSteps(block)
<1>1. Crc16(block) = Power \ after[n]  BY DEF Crc16, Power
<1>2. n \in Nat /\ n = Len(block)  OBVIOUS
<1>3. \A i \in 1 .. n : BitsOfOctet[block[i]] = Bits(block[i])
  <2> TAKE i \in 1 .. n
  <2>1. block[i] \in Octet  BY ElementOfSeq
  <2> QED  BY <2>1 DEF BitsOfOctet
<1> HIDE DEF n
<1>4. step \in [1 .. n -> [Register -> Register]]
  <2>1. step = [i \in 1 .. n |-> [v \in Register |-> ShiftOctet(SymDiff(v, Bits(block[i])))]]
    BY <1>2 DEF OctetSteps
  <2> HIDE DEF step, Register
  <2> QED  BY <2>1, OctetStep
<1>5. {} \in Register  BY DEF Register
<1> HIDE DEF step
<1>6. PICK f \in [0 .. n -> Register] : Follows(f, n, {}, step)
  BY <1>2, <1>4, <1>5, RecursionExists
<1>7. ASSUME NEW i \in 0 .. n, i # 0
      PROVE  /\ i \in 1 .. n /\ i - 1 \in 0 .. n
             /\ step[i][f[i - 1]] = ShiftOctet(SymDiff(f[i - 1], Bits(block[i])))
             /\ f[i] = step[i][f[i - 1]]
  <2>1. i \in 1 .. n /\ i - 1 \in 0 .. n  BY <1>7, <1>2
  <2>2. f[i - 1] \in Register  BY <2>1
  <2>3. f[i] = step[i][f[i - 1]]  BY <1>6, <1>7 DEF Follows
  <2> HIDE DEF Register
  <2> QED  BY <1>2, <2>1, <2>2, <2>3 DEF step, OctetSteps
<1>8. f[0] = {}
  <2>1. 0 \in 0 .. n  BY <1>2
  <2> QED  BY <1>6, <2>1 DEF Follows
<1>9. f = [i \in 0 .. n |-> IF i = 0 THEN {}
                            ELSE ShiftOctet(SymDiff(f[i - 1], BitsOfOctet[block[i]]))]
  <2>1. ASSUME NEW i \in 0 .. n
        PROVE  f[i] = IF i = 0 THEN {}
                      ELSE ShiftOctet(SymDiff(f[i - 1], BitsOfOctet[block[i]]))
    BY <1>3, <1>7, <1>8
  <2>2. f = [i \in 0 .. n |-> f[i]]  OBVIOUS
  <2> QED  BY <2>1, <2>2
<1>10. after = [i \in 0 .. n |-> IF i = 0 THEN {}
                              ELSE ShiftOctet(SymDiff(after[i - 1], BitsOfOctet[block[i]]))]
  BY <1>2, <1>9
<1> HIDE DEF after
<1>11. after[0] = {}
  <2>1. 0 \in 0 .. n  BY <1>2
  <2> QED  BY <1>10, <2>1
<1>12. \A i \in 1 .. n : after[i] = ShiftOctet(SymDiff(after[i - 1], Bits(block[i])))
  <2> TAKE i \in 1 .. n
  <2>1. i \in 0 .. n /\ i # 0  BY <1>2
  <2>2. after[i] = ShiftOctet(SymDiff(after[i - 1], BitsOfOctet[block[i]]))
    BY <1>10, <2>1
  <2> QED  BY <1>3, <2>2
<1> DEFINE T == {m \in Nat : m <= n => after[m] \in Register}
<1>13. 0 \in T  BY <1>5, <1>11
<1>14. ASSUME NEW m \in Nat, m \in T
       PROVE  m + 1 \in T
  <2> DEFINE j == m + 1
  <2>1. j \in Nat /\ j - 1 = m /\ (j <= n => m <= n /\ j \in 1 .. n)  BY <1>2
  <2> HIDE DEF j
  <2>2. ASSUME j <= n PROVE after[j] \in Register
    <3>1. after[j - 1] \in Register  BY <1>14, <2>1, <2>2
    <3>2. after[j] = ShiftOctet(SymDiff(after[j - 1], Bits(block[j])))  BY <1>12, <2>1, <2>2
    <3> HIDE DEF Register
    <3> QED  BY <3>1, <3>2, OctetStep
  <2>3. j \in T  BY <2>1, <2>2
  <2> QED  BY <2>3 DEF j
<1> HIDE DEF T
<1>15. Nat \subseteq T  BY <1>13, <1>14, SetInduction
<1>16. \A i \in 0 .. n : after[i] \in Register  BY <1>2, <1>15 DEF T
<1>17. after \in [0 .. n -> Register]
  <2>1. after = [i \in 0 .. n |-> after[i]]  BY <1>10
  <2> HIDE DEF Register
  <2> QED  BY <1>16, <2>1
<1>18. AfterOctets(after, block)  BY <1>2, <1>11, <1>12, <1>17 DEF AfterOctets
<1> QED  BY <1>1, <1>2, <1>18

-----------------------------------------------------------------------------
(* Two runs of crc16 over octets that begin to differ at one place: their   *)
(* registers differ from there on, and right there in one of the high bits, *)
(* which the next octet cannot make up for.                                 *)
LEMMA SymDiffTwice ==
  ASSUME NEW a, NEW b, NEW c, NEW d
  PROVE  SymDiff(SymDiff(a, b), SymDiff(c, d)) = SymDiff(SymDiff(a, c), SymDiff(b, d))
<1> DEFINE l == SymDiff(SymDiff(a, b), SymDiff(c, d))
           r == SymDiff(SymDiff(a, c), SymDiff(b, d))
<1>1. ASSUME NEW x PROVE x \in l <=> x \in r
  <2>1. x \in SymDiff(a, b) <=> ~ (x \in a <=> x \in b)  BY SymDiffIs
  <2>2. x \in SymDiff(c, d) <=> ~ (x \in c <=> x \in d)  BY SymDiffIs
  <2>3. x \in SymDiff(a, c) <=> ~ (x \in a <=> x \in c)  BY SymDiffIs
  <2>4. x \in SymDiff(b, d) <=> ~ (x \in b <=> x \in d)  BY SymDiffIs
  <2>5. x \in l <=> ~ (x \in SymDiff(a, b) <=> x \in SymDiff(c, d))  BY SymDiffIs
  <2>6. x \in r <=> ~ (x \in SymDiff(a, c) <=> x \in SymDiff(b, d))  BY SymDiffIs
  <2> HIDE DEF l, r
  <2> QED  BY <2>1, <2>2, <2>3, <2>4, <2>5, <2>6
<1> HIDE DEF l, r
<1>2. l = r  BY <1>1
<1> QED  BY <1>2 DEF l, r

LEMMA SymDiffNone ==
  ASSUME NEW a, NEW b
  PROVE  (SymDiff(a, b) = {}) <=> a = b
BY SymDiffIs

(* One octet more.                                                          *)
LEMMA OctetApart ==
  ASSUME NEW u \in Register, NEW v \in Register, NEW m \in Octet, NEW n \in Octet
  PROVE  LET x == ShiftOctet(SymDiff(u, Bits(m)))
             y == ShiftOctet(SymDiff(v, Bits(n)))
             d == SymDiff(u, v)
         IN  /\ m = n => (d = {} => SymDiff(x, y) = {}) /\ (d # {} => SymDiff(x, y) # {})
             /\ (d = {} /\ Bits(m) # Bits(n)) => HighBit(SymDiff(x, y))
             /\ HighBit(d) => SymDiff(x, y) # {}
<1> DEFINE p == Bits(m)
           q == Bits(n)
           x == ShiftOctet(SymDiff(u, p))
           y == ShiftOctet(SymDiff(v, q))
           d == SymDiff(u, v)
           e == SymDiff(p, q)
           z == SymDiff(d, e)
<1>1. p \in Register /\ q \in Register /\ (\A b \in p : b <= 7) /\ (\A b \in q : b <= 7)
  BY OctetBits DEF Register
<1>2. m = n => p = q  OBVIOUS
<1> HIDE DEF p, q
<1>3. SymDiff(u, p) \in Register /\ SymDiff(v, q) \in Register /\ d \in Register /\ e \in Register
  BY <1>1, ShiftLinear
<1> DEFINE up == SymDiff(u, p)
           vq == SymDiff(v, q)
<1>4. SymDiff(up, vq) = z  BY SymDiffTwice
<1>5. up \in Register /\ vq \in Register  BY <1>3
<1>5x. x = ShiftOctet(up) /\ y = ShiftOctet(vq)  OBVIOUS
<1> HIDE DEF up, vq, x, y
<1>6. ShiftOctet(z) = SymDiff(x, y)
  <2>1. ShiftOctet(SymDiff(up, vq)) = SymDiff(ShiftOctet(up), ShiftOctet(vq))
    BY <1>5, ShiftOctetLinear
  <2> HIDE DEF z
  <2> QED  BY <1>4, <1>5x, <2>1
<1>7. z \in Register  BY <1>3, ShiftLinear
<1>8. \A b \in e : b <= 7  BY <1>1, SymDiffIs
<1>9. \A b : b \in z <=> ~ (b \in d <=> b \in e)  BY SymDiffIs
<1>10. (p = q) <=> e = {}  BY SymDiffNone
<1> HIDE DEF d, e, z
<1>11. ASSUME e = {} PROVE z = d  BY <1>9, <1>11
<1>12. ASSUME z = {} PROVE SymDiff(x, y) = {}
  <2>1. SymDiff({}, {}) = {}  BY SymDiffNone
  <2>2. {} \in Register  BY DEF Register
  <2>3. ShiftOctet(SymDiff({}, {})) = SymDiff(ShiftOctet({}), ShiftOctet({}))
    BY <2>2, ShiftOctetLinear
  <2>4. SymDiff(ShiftOctet({}), ShiftOctet({})) = {}  BY SymDiffNone
  <2>5. ShiftOctet({}) = {}  BY <2>1, <2>3, <2>4
  <2> QED  BY <1>6, <1>12, <2>5
<1>13. /\ z # {} => SymDiff(x, y) # {}
       /\ (z # {} /\ \A b \in z : b <= 7) => HighBit(SymDiff(x, y))
  BY <1>6, <1>7, ShiftOctetLinear
<1>14. ASSUME d = {}, p # q PROVE HighBit(SymDiff(x, y))
  <2>1. z = e /\ e # {}  BY <1>9, <1>10, <1>14
  <2> QED  BY <1>8, <1>13, <2>1
<1>15. ASSUME HighBit(d) PROVE SymDiff(x, y) # {}
  <2>1. PICK b \in d : b >= 8  BY <1>15 DEF HighBit
  <2>2. b \in Nat  BY <1>3, PowerIs DEF Register
  <2>3. ~ (b <= 7)  BY <2>1, <2>2
  <2>4. b \in z  BY <1>8, <1>9, <2>1, <2>3
  <2> QED  BY <1>13, <2>4
<1>16. m = n => (d = {} => SymDiff(x, y) = {}) /\ (d # {} => SymDiff(x, y) # {})
  BY <1>2, <1>10, <1>11, <1>12, <1>13
<1> QED  BY <1>14, <1>15, <1>16 DEF x, y, d, p, q, up, vq

LEMMA SymDiffEmpty ==
  ASSUME NEW s
  PROVE  SymDiff({}, s) = s /\ SymDiff(s, {}) = s
<1> DEFINE a == SymDiff({}, s)
           b == SymDiff(s, {})
<1>1. \A x : (x \in a <=> x \in s) /\ (x \in b <=> x \in s)  BY SymDiffIs
<1> HIDE DEF a, b
<1>2. a = s /\ b = s  BY <1>1
<1> QED  BY <1>2 DEF a, b

(* Octets that differ at place j, and maybe at the next, but nowhere else.  *)
Apart(a, b, j) ==
    /\ a \in Seq(Octet) /\ b \in Seq(Octet) /\ Len(a) = Len(b) /\ j \in 1 .. Len(a)
    /\ Bits(a[j]) # Bits(b[j])
    /\ \A i \in 1 .. Len(a) : i # j /\ i # j + 1 => a[i] = b[i]

LEMMA RegistersApart ==
  ASSUME NEW a, NEW b, NEW j, Apart(a, b, j), NEW n \in Nat, n = Len(a),
         NEW f, AfterOctets(f, a), NEW g, AfterOctets(g, b)
  PROVE  /\ f[n] \in Register /\ g[n] \in Register
         /\ SymDiff(f[n], g[n]) # {}
         /\ j = n => HighBit(SymDiff(f[n], g[n]))
<1> DEFINE d(i) == SymDiff(f[i], g[i])
           T == {m \in Nat : m <= n => /\ m < j => d(m) = {}
                                       /\ m = j => HighBit(d(m))
                                       /\ m > j => d(m) # {}}
<1>1. /\ n = Len(b) /\ j \in 1 .. n /\ j \in Nat /\ j > 0
      /\ \A i \in 1 .. n : a[i] \in Octet /\ b[i] \in Octet
      /\ Bits(a[j]) # Bits(b[j])
      /\ \A i \in 1 .. n : i # j /\ i # j + 1 => a[i] = b[i]
  BY ElementOfSeq DEF Apart
<1>2. /\ f[0] = {} /\ g[0] = {}
      /\ \A i \in 0 .. n : f[i] \in Register /\ g[i] \in Register
      /\ \A i \in 1 .. n : /\ f[i] = ShiftOctet(SymDiff(f[i - 1], Bits(a[i])))
                           /\ g[i] = ShiftOctet(SymDiff(g[i - 1], Bits(b[i])))
  <2> HIDE DEF Register
  <2> QED  BY <1>1 DEF AfterOctets
<1>3. 0 \in T
  <2>1. d(0) = {}  BY <1>2, SymDiffNone
  <2>2. ~ (0 = j) /\ ~ (0 > j)  BY <1>1
  <2> HIDE DEF d
  <2> QED  BY <2>1, <2>2
<1>4. ASSUME NEW m \in Nat, m \in T
      PROVE  m + 1 \in T
  <2> DEFINE k == m + 1
  <2>1. k \in Nat /\ k - 1 = m /\ (k <= n => m <= n /\ m \in 0 .. n /\ k \in 1 .. n)
    OBVIOUS
  <2>2. /\ k < j => m < j /\ k # j /\ k # j + 1
        /\ k = j => m < j
        /\ k > j => m = j \/ (m > j /\ k # j /\ k # j + 1)
    BY <1>1
  <2> HIDE DEF k
  <2>3. ASSUME k <= n
        PROVE  (k < j => d(k) = {}) /\ (k = j => HighBit(d(k))) /\ (k > j => d(k) # {})
    <3>1. (m < j => d(m) = {}) /\ (m = j => HighBit(d(m))) /\ (m > j => d(m) # {})
      BY <1>4, <2>1, <2>3
    <3> DEFINE u == f[m]
               v == g[m]
               o == a[k]
               p == b[k]
    <3>2. u \in Register /\ v \in Register /\ o \in Octet /\ p \in Octet
      BY <1>1, <1>2, <2>1, <2>3
    <3>3. f[k] = ShiftOctet(SymDiff(u, Bits(o))) /\ g[k] = ShiftOctet(SymDiff(v, Bits(p)))
      BY <1>2, <2>1, <2>3
    <3>4. (k = j => Bits(o) # Bits(p)) /\ (k # j /\ k # j + 1 => o = p)
      BY <1>1, <2>1, <2>3
    <3>5. d(m) = SymDiff(u, v) /\ d(k) = SymDiff(f[k], g[k])  OBVIOUS
    <3> HIDE DEF u, v, o, p, d
    <3>6. /\ o = p => (d(m) = {} => d(k) = {}) /\ (d(m) # {} => d(k) # {})
          /\ (d(m) = {} /\ Bits(o) # Bits(p)) => HighBit(d(k))
          /\ HighBit(d(m)) => d(k) # {}
      BY <3>2, <3>3, <3>5, OctetApart
    <3>7. CASE k < j  BY <3>7, <2>1, <2>2, <3>1, <3>4, <3>6, <1>1
    <3>8. CASE k = j  BY <3>8, <2>1, <2>2, <3>1, <3>4, <3>6, <1>1
    <3>9. CASE k > j  BY <3>9, <2>1, <2>2, <3>1, <3>4, <3>6, <1>1
    <3> QED  BY <3>7, <3>8, <3>9, <2>1, <1>1
  <2>4. k \in T  BY <2>1, <2>3
  <2> QED  BY <2>4 DEF k
<1> HIDE DEF T
<1>5. Nat \subseteq T  BY <1>3, <1>4, SetInduction
<1>6. (n = j => HighBit(d(n))) /\ (n > j => d(n) # {}) /\ n >= j
  BY <1>1, <1>5 DEF T
<1>7. n \in 0 .. n  OBVIOUS
<1>8. HighBit(d(n)) => d(n) # {}  BY DEF HighBit
<1> HIDE DEF Register
<1>9. f[n] \in Register /\ g[n] \in Register  BY <1>2, <1>7
<1>10. d(n) # {} /\ (j = n => HighBit(d(n)))
  <2>1. n = j \/ n > j  BY <1>1, <1>6
  <2> HIDE DEF d
  <2> QED  BY <1>6, <1>8, <2>1
<1> QED  BY <1>9, <1>10

LEMMA CrcApart ==
  ASSUME NEW a, NEW b, NEW j, Apart(a, b, j)
  PROVE  /\ Crc16(a) \in Register /\ Crc16(b) \in Register
         /\ Crc16(a) # Crc16(b)
         /\ j = Len(a) => HighBit(SymDiff(Crc16(a), Crc16(b)))
<1> DEFINE n == Len(a)
<1>1. a \in Seq(Octet) /\ b \in Seq(Octet) /\ n \in Nat /\ n = Len(a) /\ n = Len(b)
  BY DEF Apart
<1> HIDE DEF n
<1>2. PICK f : AfterOctets(f, a) /\ Crc16(a) = Power \ f[n]  BY <1>1, CrcAfter
<1>3. PICK g : AfterOctets(g, b) /\ Crc16(b) = Power \ g[n]  BY <1>1, CrcAfter
<1>4. /\ f[n] \in Register /\ g[n] \in Register /\ SymDiff(f[n], g[n]) # {}
      /\ j = n => HighBit(SymDiff(f[n], g[n]))
  BY <1>1, <1>2, <1>3, RegistersApart
<1> DEFINE u == f[n]
           v == g[n]
           x == Crc16(a)
           y == Crc16(b)
<1>5. /\ u \in SUBSET Power /\ v \in SUBSET Power /\ x = Power \ u /\ y = Power \ v
      /\ SymDiff(u, v) # {} /\ (j = n => HighBit(SymDiff(u, v)))
  BY <1>2, <1>3, <1>4 DEF Register
<1> HIDE DEF u, v, x, y
<1>6. SymDiff(x, y) = SymDiff(u, v)
  <2>1. ASSUME NEW e PROVE e \in SymDiff(x, y) <=> e \in SymDiff(u, v)
    <3>1. e \in SymDiff(x, y) <=> ~ (e \in x <=> e \in y)  BY SymDiffIs
    <3>2. e \in SymDiff(u, v) <=> ~ (e \in u <=> e \in v)  BY SymDiffIs
    <3>3. /\ e \in x <=> e \in Power /\ e \notin u
          /\ e \in y <=> e \in Power /\ e \notin v
          /\ (e \in u => e \in Power) /\ (e \in v => e \in Power)
      BY <1>5
    <3> QED  BY <3>1, <3>2, <3>3
  <2> DEFINE xy == SymDiff(x, y)
             uv == SymDiff(u, v)
  <2> HIDE DEF xy, uv
  <2>2. \A e : e \in xy <=> e \in uv  BY <2>1 DEF xy, uv
  <2>3. xy = uv  BY <2>2
  <2> QED  BY <2>3 DEF xy, uv
<1>7. x # y  BY <1>5, <1>6, SymDiffNone
<1>8. x \in Register /\ y \in Register  BY <1>5 DEF Register
<1> QED  BY <1>1, <1>5, <1>6, <1>7, <1>8 DEF x, y

(* The CRCs of two such blocks differ; and in their second octets when it   *)
(* is in their last octets that the blocks differ.                          *)
LEMMA CrcOctetsApart ==
  ASSUME NEW a, NEW b, NEW j, Apart(a, b, j)
  PROVE  /\ CrcOctets(a) # CrcOctets(b)
         /\ j = Len(a) => CrcOctets(a)[2] # CrcOctets(b)[2]
<1> DEFINE x == Crc16(a)
           y == Crc16(b)
           m == Value(x)
           n == Value(y)
<1>1. /\ x \in Register /\ y \in Register /\ x # y
      /\ j = Len(a) => HighBit(SymDiff(x, y))
  BY CrcApart
<1>2. CrcOctets(a) = LittleEndian(m) /\ CrcOctets(b) = LittleEndian(n)  BY DEF CrcOctets
<1> HIDE DEF x, y
<1>3. Bits(m) = x /\ Bits(n) = y  BY <1>1, BitsOfValue DEF Register
<1>4. m \in Word /\ n \in Word  BY ValueType
<1> HIDE DEF m, n
<1>5. m \in Nat /\ n \in Nat  BY <1>4, WordRange
<1>6. LittleEndian(m) # LittleEndian(n)
  <2>1. FromLittleEndian(LittleEndian(m)) = m /\ FromLittleEndian(LittleEndian(n)) = n
    BY <1>4, LittleEndianInverse
  <2>2. m # n  BY <1>1, <1>3
  <2> QED  BY <2>1, <2>2
<1>7. LittleEndian(m)[2] = m \div 256 /\ LittleEndian(n)[2] = n \div 256
  BY DEF LittleEndian
<1>8. ASSUME HighBit(SymDiff(x, y)), m \div 256 = n \div 256 PROVE FALSE
  <2>1. PICK b8 \in SymDiff(x, y) : b8 >= 8  BY <1>8 DEF HighBit
  <2>2. b8 \in x \/ b8 \in y  BY SymDiffIs
  <2>3. b8 \in Power  BY <1>1, <2>2 DEF Register
  <2>4. b8 \in Bits(m) <=> b8 \in Bits(n)  BY <1>5, <1>8, <2>1, <2>3, HighOctet
  <2>5. b8 \in x <=> b8 \in y  BY <1>3, <2>4
  <2> QED  BY <2>1, <2>5, SymDiffIs
<1> QED  BY <1>1, <1>2, <1>6, <1>7, <1>8

-----------------------------------------------------------------------------
(* Octets and the CRC that follows them, with `at` octets before.           *)
Protected(o, at, l) == Cut(o, at + l + 1, at + l + 2) = CrcOctets(Cut(o, at + 1, at + l))

(* Octets of which one, and maybe the next, is damaged.                     *)
Hurt(o, p, i) ==
    /\ o \in Seq(Octet) /\ p \in Seq(Octet) /\ Len(o) = Len(p) /\ i \in 1 .. Len(o)
    /\ Bits(o[i]) # Bits(p[i])
    /\ \A k \in 1 .. Len(o) : k # i /\ k # i + 1 => o[k] = p[k]

CutSame(o, p, m, n) ==
    ( /\ Within(o, m, n) /\ Within(p, m, n)
      /\ \A k \in m .. n : o[k] = p[k] ) => Cut(o, m, n) = Cut(p, m, n)

LEMMA SameCut ==
  ASSUME NEW o, NEW p, NEW m, NEW n
  PROVE  CutSame(o, p, m, n)
<1> SUFFICES ASSUME Within(o, m, n), Within(p, m, n), \A k \in m .. n : o[k] = p[k]
             PROVE  Cut(o, m, n) = Cut(p, m, n)
  BY DEF CutSame
<1> DEFINE x == Cut(o, m, n)
           y == Cut(p, m, n)
           l == n - m + 1
<1>1. l \in Nat /\ \A k \in 1 .. l : m + k - 1 \in m .. n
  <2>1. m \in Nat /\ n \in Int /\ m <= n + 1  BY DEF Within
  <2> QED  BY <2>1
<1>2. CutTyped(o, m, n) /\ CutTyped(p, m, n)  BY Cuts
<1>4. /\ x \in Seq(Octet) /\ Len(x) = l /\ \A k \in 1 .. l : x[k] = o[m + k - 1]
      /\ y \in Seq(Octet) /\ Len(y) = l /\ \A k \in 1 .. l : y[k] = p[m + k - 1]
  BY <1>2 DEF CutTyped
<1> HIDE DEF x, y, l
<1>5. \A k \in 1 .. l : x[k] = y[k]  BY <1>1, <1>4
<1>6. x = y  BY <1>1, <1>4, <1>5, SeqEqual
<1> QED  BY <1>6 DEF x, y

(* Wherever damage begins in them, the CRC no longer fits.                  *)
LEMMA DamageInBlock ==
  ASSUME NEW o, NEW p, NEW i, Hurt(o, p, i),
         NEW at \in Nat, NEW l \in Nat, at + l + 2 <= Len(o),
         at < i, i <= at + l + 2, Protected(o, at, l)
  PROVE  ~ Protected(p, at, l)
<1> SUFFICES ASSUME Protected(p, at, l) PROVE FALSE
  OBVIOUS
<1> DEFINE m == at + l
           a == Cut(o, at + 1, m)
           b == Cut(p, at + 1, m)
           c == Cut(o, m + 1, m + 2)
           d == Cut(p, m + 1, m + 2)
           n == Len(o)
<1>1. /\ o \in Seq(Octet) /\ p \in Seq(Octet) /\ n = Len(o) /\ n = Len(p) /\ n \in Nat
      /\ i \in 1 .. n
      /\ Bits(o[i]) # Bits(p[i])
      /\ \A k \in 1 .. n : k # i /\ k # i + 1 => o[k] = p[k]
  BY DEF Hurt
<1>2. m \in Nat /\ m = at + l /\ m + 2 <= n /\ i \in Nat /\ i <= m + 2  BY <1>1
<1>3. c = CrcOctets(a) /\ d = CrcOctets(b)  BY DEF Protected
<1>4. /\ CutTyped(o, at + 1, m) /\ CutTyped(p, at + 1, m)
      /\ CutTyped(o, m + 1, m + 2) /\ CutTyped(p, m + 1, m + 2)
  <2> HIDE DEF m
  <2> QED  BY Cuts
<1> HIDE DEF n, m
<1>5. /\ Within(o, at + 1, m) /\ Within(p, at + 1, m)
      /\ Within(o, m + 1, m + 2) /\ Within(p, m + 1, m + 2)
  BY <1>1, <1>2 DEF Within
<1>6. m - (at + 1) + 1 = l /\ (m + 2) - (m + 1) + 1 = 2  BY <1>2
<1>7. /\ a \in Seq(Octet) /\ Len(a) = l /\ b \in Seq(Octet) /\ Len(b) = l
      /\ \A k \in 1 .. l : a[k] = o[(at + 1) + k - 1] /\ b[k] = p[(at + 1) + k - 1]
      /\ c \in Seq(Octet) /\ Len(c) = 2 /\ d \in Seq(Octet) /\ Len(d) = 2
      /\ \A k \in 1 .. 2 : c[k] = o[(m + 1) + k - 1] /\ d[k] = p[(m + 1) + k - 1]
  BY <1>4, <1>5, <1>6 DEF CutTyped
<1> HIDE DEF a, b, c, d
<1>8. CASE i <= m
  <2> DEFINE j == i - at
  <2>1. /\ j \in 1 .. l /\ (at + 1) + j - 1 = i
        /\ \A k \in 1 .. l : /\ (at + 1) + k - 1 \in 1 .. n
                             /\ k # j => (at + 1) + k - 1 # i
                             /\ k # j + 1 => (at + 1) + k - 1 # i + 1
        /\ j = l <=> i = m
    BY <1>1, <1>2, <1>8
  <2> HIDE DEF j
  <2>2. Apart(a, b, j)
    <3>1. Bits(a[j]) # Bits(b[j])
      <4>1. a[j] = o[i] /\ b[j] = p[i]  BY <1>7, <2>1
      <4> QED  BY <1>1, <4>1
    <3>2. ASSUME NEW k \in 1 .. l, k # j, k # j + 1 PROVE a[k] = b[k]
      <4> DEFINE q == (at + 1) + k - 1
      <4>1. q \in 1 .. n /\ q # i /\ q # i + 1  BY <2>1, <3>2
      <4>2. a[k] = o[q] /\ b[k] = p[q]  BY <1>7
      <4> HIDE DEF q
      <4> QED  BY <1>1, <4>1, <4>2
    <3> QED  BY <1>7, <2>1, <3>1, <3>2 DEF Apart
  <2>3. CrcOctets(a) # CrcOctets(b) /\ (j = l => CrcOctets(a)[2] # CrcOctets(b)[2])
    <3>1. /\ CrcOctets(a) # CrcOctets(b)
          /\ j = Len(a) => CrcOctets(a)[2] # CrcOctets(b)[2]
      BY <2>2, CrcOctetsApart
    <3>2. Len(a) = l  BY <1>7
    <3> QED  BY <3>1, <3>2
  <2>4. CASE i < m
    <3>1. \A k \in m + 1 .. m + 2 : k \in 1 .. n /\ k # i /\ k # i + 1
      BY <1>1, <1>2, <2>4
    <3>2. \A k \in m + 1 .. m + 2 : o[k] = p[k]  BY <1>1, <3>1
    <3>5. CutSame(o, p, m + 1, m + 2)  BY SameCut
    <3>6. c = d  BY <1>5, <3>2, <3>5 DEF CutSame, c, d
    <3> QED  BY <1>3, <2>3, <3>6
  <2>5. CASE i = m
    <3>1. (m + 1) + 2 - 1 = m + 2 /\ 2 \in 1 .. 2 /\ m + 2 \in 1 .. n /\ m + 2 # i /\ m + 2 # i + 1
      BY <1>1, <1>2, <2>5
    <3>2. c[2] = o[m + 2] /\ d[2] = p[m + 2]  BY <1>7, <3>1
    <3>3. o[m + 2] = p[m + 2]  BY <1>1, <3>1
    <3> QED  BY <1>3, <2>1, <2>3, <2>5, <3>2, <3>3
  <2> QED  BY <1>2, <1>8, <2>4, <2>5
<1>9. CASE i > m
  <2>1. \A k \in at + 1 .. m : k \in 1 .. n /\ k # i /\ k # i + 1
    BY <1>1, <1>2, <1>9
  <2>2. \A k \in at + 1 .. m : o[k] = p[k]  BY <1>1, <2>1
  <2>5. CutSame(o, p, at + 1, m)  BY SameCut
  <2>6. a = b  BY <1>5, <2>2, <2>5 DEF CutSame, a, b
  <2> DEFINE k == i - m
  <2>7. k \in 1 .. 2 /\ (m + 1) + k - 1 = i  BY <1>2, <1>9
  <2> HIDE DEF k
  <2>8. c[k] = o[i] /\ d[k] = p[i]  BY <1>7, <2>7
  <2> QED  BY <1>1, <1>3, <2>6, <2>8
<1> QED  BY <1>2, <1>8, <1>9

-----------------------------------------------------------------------------
(* The block that the i-th of some encoded octets belongs to.               *)
LEMMA BlockOfOctet ==
  ASSUME NEW n \in Nat, NEW i \in 1 .. n + 2 * BlockCount(n)
  PROVE  \E b \in 1 .. BlockCount(n) : PlaceAfter(n, 2, b - 1) < i /\ i <= PlaceAfter(n, 2, b)
<1> DEFINE k == BlockCount(n)
           T == {b \in Nat : b <= k /\ i <= PlaceAfter(n, 2, b)}
<1>1. k \in Nat /\ Stop(n, 0) = 0 /\ Stop(n, k) = n  BY BlocksFit
<1>2. PlaceAfter(n, 2, 0) = 0 /\ PlaceAfter(n, 2, k) = n + 2 * k
  <2>1. 2 * 0 = 0 /\ 0 + 0 = 0  OBVIOUS
  <2> HIDE DEF k
  <2> QED  BY <1>1, <2>1 DEF PlaceAfter
<1>3. i \in 1 .. n + 2 * k  OBVIOUS
<1> HIDE DEF k
<1>4. k \in T  BY <1>1, <1>2, <1>3
<1>5. PICK b \in T : \A c \in T : b <= c
  <2>1. T \in SUBSET Nat /\ T # {}  BY <1>4
  <2> HIDE DEF T
  <2> QED  BY <2>1, SmallestElement
<1>6. b \in Nat /\ b <= k /\ i <= PlaceAfter(n, 2, b)  OBVIOUS
<1>7. b # 0
  <2> SUFFICES ASSUME b = 0 PROVE FALSE
    OBVIOUS
  <2>1. i <= 0  BY <1>2, <1>6
  <2>2. i \in Nat /\ i > 0  BY <1>1, <1>3
  <2> QED  BY <2>1, <2>2
<1>8. b - 1 \in Nat /\ b - 1 <= k /\ ~ (b <= b - 1)  BY <1>1, <1>6, <1>7
<1>9. b - 1 \notin T  BY <1>5, <1>8
<1>10. ~ (i <= PlaceAfter(n, 2, b - 1))  BY <1>8, <1>9
<1>11. b \in 1 .. k  BY <1>1, <1>6, <1>7
<1>12. PlaceAfter(n, 2, b - 1) \in Nat
  <2>1. Stop(n, b - 1) = (b - 1) * BlockSize  BY <1>11, BlocksFit DEF k
  <2>2. (b - 1) * BlockSize \in Nat /\ 2 * (b - 1) \in Nat  BY <1>8
  <2> QED  BY <2>1, <2>2 DEF PlaceAfter
<1>13. PlaceAfter(n, 2, b - 1) < i
  <2>1. i \in Nat  BY <1>1, <1>3
  <2> QED  BY <1>10, <1>12, <2>1
<1> QED  BY <1>6, <1>11, <1>13 DEF k

LEMMA MatchesIs ==
  ASSUME NEW n \in Nat, NEW o \in Seq(Octet), Len(o) = n + 2 * BlockCount(n),
         NEW b \in 1 .. BlockCount(n)
  PROVE  /\ PlaceAfter(n, 2, b - 1) \in Nat /\ BlockLength(n, b) \in Nat
         /\ PlaceAfter(n, 2, b - 1) + BlockLength(n, b) + 2 = PlaceAfter(n, 2, b)
         /\ PlaceAfter(n, 2, b) <= Len(o)
         /\ CrcMatches(o, n, b) <=> Protected(o, PlaceAfter(n, 2, b - 1), BlockLength(n, b))
<1> DEFINE at == (b - 1) * (BlockSize + 2)
           l == BlockLength(n, b)
<1>1. /\ BlockAt(o, n, b, 2) \in Seq(Octet) /\ Len(BlockAt(o, n, b, 2)) = l
      /\ at = Stop(n, b - 1) + 2 * (b - 1) /\ at \in Nat
      /\ Stop(n, b - 1) + l + 2 * b <= Len(o)
  <2>1. 2 \in Nat  OBVIOUS
  <2> QED  BY <2>1, BlockPlaced
<1>2. /\ BlockCount(n) \in Nat /\ l \in 1 .. BlockSize
      /\ Stop(n, b - 1) = (b - 1) * BlockSize
      /\ Stop(n, b) = ((b - 1) * BlockSize) + l
  BY BlocksFit
<1>3. BlockAt(o, n, b, 2) = Cut(o, at + 1, at + l)  BY DEF BlockAt, Cut
<1>4. CrcMatches(o, n, b)
         <=> Cut(o, at + l + 1, at + l + 2) = CrcOctets(Cut(o, at + 1, at + l))
  <2> DEFINE x == BlockAt(o, n, b, 2)
  <2>1. CrcMatches(o, n, b)
           <=> Cut(o, (at + Len(x)) + 1, (at + Len(x)) + 2) = CrcOctets(x)
    BY DEF CrcMatches, Cut
  <2>2. x = Cut(o, at + 1, at + l)  BY <1>3
  <2>3. Len(x) = l  BY <1>1
  <2> HIDE DEF x, at, l
  <2> QED  BY <2>1, <2>2, <2>3
<1>5. b \in Nat /\ 2 * (b - 1) = 2 * b - 2  BY <1>2
<1>6. l \in Nat  BY <1>2
<1>7. PlaceAfter(n, 2, b - 1) = at  BY <1>1 DEF PlaceAfter
<1> HIDE DEF at, l
<1> DEFINE s == (b - 1) * BlockSize
<1>8. s \in Int
  <2>1. BlockSize \in Int /\ b - 1 \in Int  BY <1>5
  <2> QED  BY <2>1
<1>9. PlaceAfter(n, 2, b) = s + l + 2 * b  BY <1>2, <1>5, <1>6, <1>8 DEF PlaceAfter
<1>10. at = s + 2 * (b - 1)  BY <1>1, <1>2
<1>11. s + l + 2 * b <= Len(o)  BY <1>1, <1>2
<1> HIDE DEF s
<1>12. at + l + 2 = PlaceAfter(n, 2, b)  BY <1>5, <1>6, <1>8, <1>9, <1>10
<1> QED  BY <1>1, <1>4, <1>6, <1>7, <1>9, <1>11, <1>12 DEF Protected, l

LEMMA HurtBlocks ==
  ASSUME NEW data \in Seq(Octet), NEW n \in Nat, n = Len(data),
         NEW d, NEW i, Hurt(EncodeCrcBlocks(data), d, i)
  PROVE  DecodeCrcBlocks(d, n) = <<>>
<1> DEFINE o == EncodeCrcBlocks(data)
           k == BlockCount(n)
<1>1. o \in Seq(Octet) /\ Len(o) = n + 2 * k  BY EncodedBlocks
<1>2. \A b \in 1 .. k : CrcMatches(o, n, b)  BY BlockFound
<1> HIDE DEF o
<1>3. d \in Seq(Octet) /\ Len(d) = n + 2 * k /\ i \in 1 .. n + 2 * k
  BY <1>1 DEF Hurt, o
<1>4. PICK b \in 1 .. k : PlaceAfter(n, 2, b - 1) < i /\ i <= PlaceAfter(n, 2, b)
  BY <1>3, BlockOfOctet
<1> DEFINE at == PlaceAfter(n, 2, b - 1)
           l == BlockLength(n, b)
           end == PlaceAfter(n, 2, b)
<1>5. /\ at \in Nat /\ l \in Nat /\ at + l + 2 = end /\ end <= Len(o)
      /\ CrcMatches(o, n, b) <=> Protected(o, at, l)
  BY <1>1, MatchesIs
<1>6. CrcMatches(d, n, b) <=> Protected(d, at, l)  BY <1>3, MatchesIs
<1>7. at < i /\ i <= end  BY <1>4
<1> HIDE DEF at, l, end
<1>8. Hurt(o, d, i)  BY DEF o
<1>9. at + l + 2 <= Len(o) /\ i <= at + l + 2  BY <1>5, <1>7
<1>10. Protected(o, at, l)  BY <1>2, <1>5
<1>11. ~ Protected(d, at, l)  BY <1>5, <1>7, <1>8, <1>9, <1>10, DamageInBlock
<1>12. ~ CrcMatches(d, n, b)  BY <1>6, <1>11
<1> QED  BY <1>12 DEF DecodeCrcBlocks

(* A frame with such damage is not a frame.                                 *)
LEMMA HurtFrame ==
  ASSUME NEW f \in AnyFrame, NEW p, NEW i, Hurt(EncodeFrame(f), p, i)
  PROVE  DecodeFrame(p) = <<>>
<1> DEFINE o == EncodeFrame(f)
           n == Len(f.payload)
           r == EncodedPayloadLen(n)
<1>1. /\ o \in Seq(Octet) /\ Len(o) = HeaderOctets + r /\ r \in Nat
      /\ o[3] = MinLengthField + n
      /\ Cut(o, 1, 8) = Header(f) /\ Cut(o, 9, 10) = CrcOctets(Header(f))
      /\ Cut(o, 11, Len(o)) = EncodeCrcBlocks(f.payload)
  BY FrameOctets
<1>2. f.payload \in Seq(Octet) /\ n \in Nat /\ n = Len(f.payload)  BY FrameFields
<1>3. Hurt(o, p, i)  OBVIOUS
<1> HIDE DEF o, n, r
<1>4. Len(o) = 10 + r  BY <1>1 DEF HeaderOctets
<1>5. /\ p \in Seq(Octet) /\ Len(p) = Len(o) /\ i \in 1 .. Len(o)
      /\ Bits(o[i]) # Bits(p[i])
      /\ \A k \in 1 .. Len(o) : k # i /\ k # i + 1 => o[k] = p[k]
  BY <1>3 DEF Hurt
<1>6. i \in Nat  BY <1>1, <1>5
<1>7. CASE i <= 10
  <2>1. /\ 0 \in Nat /\ 8 \in Nat /\ 0 + 8 + 2 <= Len(o) /\ 0 < i /\ i <= 0 + 8 + 2
        /\ 0 + 8 + 1 = 9 /\ 0 + 8 + 2 = 10 /\ 0 + 1 = 1 /\ 0 + 8 = 8
    BY <1>1, <1>4, <1>5, <1>7
  <2>2. Protected(o, 0, 8)  BY <1>1, <2>1 DEF Protected
  <2>3. ~ Protected(p, 0, 8)  BY <1>3, <2>1, <2>2, DamageInBlock
  <2>4. ~ (Cut(p, 9, 10) = CrcOctets(Cut(p, 1, 8)))  BY <2>1, <2>3 DEF Protected
  <2> QED  BY <2>4 DEF DecodeFrame, Cut
<1>8. CASE i > 10
  <2>1. p[3] = o[3]
    <3>1. 3 \in 1 .. Len(o) /\ 3 # i /\ 3 # i + 1  BY <1>1, <1>4, <1>6, <1>8
    <3> QED  BY <1>5, <3>1
  <2>2. p[3] - MinLengthField = n  BY <1>1, <1>2, <2>1 DEF MinLengthField
  <2> DEFINE e == Cut(o, 11, Len(o))
             d == Cut(p, 11, Len(p))
             m == Len(o)
             j == i - 10
  <2>3. /\ CutTyped(o, 11, m) /\ CutTyped(p, 11, m)  BY Cuts
  <2>4. Within(o, 11, m) /\ Within(p, 11, m)  BY <1>1, <1>4, <1>5 DEF Within
  <2>5. m - 11 + 1 = r /\ j \in 1 .. r /\ 11 + j - 1 = i /\ j \in Nat
    BY <1>1, <1>4, <1>5, <1>6, <1>8
  <2>6. e = Cut(o, 11, m) /\ d = Cut(p, 11, m)  BY <1>5
  <2> HIDE DEF m, j, e, d
  <2>7. /\ e \in Seq(Octet) /\ Len(e) = r /\ \A k \in 1 .. r : e[k] = o[11 + k - 1]
        /\ d \in Seq(Octet) /\ Len(d) = r /\ \A k \in 1 .. r : d[k] = p[11 + k - 1]
    BY <2>3, <2>4, <2>5, <2>6 DEF CutTyped
  <2>8. Hurt(e, d, j)
    <3>1. e[j] = o[i] /\ d[j] = p[i]  BY <2>5, <2>7
    <3>2. ASSUME NEW k \in 1 .. r, k # j, k # j + 1 PROVE e[k] = d[k]
      <4> DEFINE q == 11 + k - 1
      <4>1. q \in 1 .. Len(o) /\ q # i /\ q # i + 1  BY <1>1, <1>4, <2>5, <3>2
      <4>2. e[k] = o[q] /\ d[k] = p[q]  BY <2>7
      <4> HIDE DEF q
      <4> QED  BY <1>5, <4>1, <4>2
    <3> QED  BY <1>5, <2>5, <2>7, <3>1, <3>2 DEF Hurt
  <2>9. e = EncodeCrcBlocks(f.payload)  BY <1>1 DEF e
  <2>10. DecodeCrcBlocks(d, n) = <<>>  BY <1>2, <2>8, <2>9, HurtBlocks
  <2>11. DecodeCrcBlocks(SubSeq(p, 11, Len(p)), p[3] - MinLengthField) = <<>>
    BY <2>2, <2>10 DEF d, Cut
  <2> QED  BY <2>11 DEF DecodeFrame
<1> QED  BY <1>6, <1>7, <1>8

-----------------------------------------------------------------------------
(* What the line does to an octet.                                          *)
LEMMA FlippedIs ==
  ASSUME NEW o \in Octet, NEW x \in Octet
  PROVE  Flipped(o, x) \in Octet /\ (x # 0 => Bits(o) # Bits(Flipped(o, x)))
<1> DEFINE a == Bits(o)
           b == Bits(x)
           c == SymDiff(a, b)
<1>1. /\ a \in SUBSET Power /\ b \in SUBSET Power
      /\ (\A e \in a : e <= 7) /\ (\A e \in b : e <= 7)
      /\ x # 0 => b # {}
  BY OctetBits
<1>2. Flipped(o, x) = Value(c)  BY DEF Flipped
<1> HIDE DEF a, b
<1>3. \A e : e \in c <=> ~ (e \in a <=> e \in b)  BY SymDiffIs
<1> HIDE DEF c
<1>4. c \in SUBSET Power /\ \A e \in c : e <= 7  BY <1>1, <1>3
<1>5. Bits(Value(c)) = c /\ Value(c) \in Octet  BY <1>4, BitsOfValue
<1>6. x # 0 => a # c  BY <1>1, <1>3
<1> QED  BY <1>2, <1>5, <1>6 DEF a

LEMMA DamagedHurts ==
  ASSUME NEW o \in Seq(Octet), NEW i \in DOMAIN o, NEW x \in Octet \ {0}, NEW y \in Octet
  PROVE  Hurt(o, Damaged(o, i, x, y), i)
<1> DEFINE p == Damaged(o, i, x, y)
           n == Len(o)
<1>1. n \in Nat /\ DOMAIN o = 1 .. n /\ \A k \in 1 .. n : o[k] \in Octet
  BY ElementOfSeq
<1>2. p = [k \in 1 .. n |-> IF k = i THEN Flipped(o[k], x)
                            ELSE IF k = i + 1 THEN Flipped(o[k], y) ELSE o[k]]
  BY <1>1 DEF Damaged
<1> HIDE DEF p
<1>3. \A k \in 1 .. n : Flipped(o[k], x) \in Octet /\ Flipped(o[k], y) \in Octet
  BY <1>1, FlippedIs
<1>4. p \in [1 .. n -> Octet]  BY <1>1, <1>2, <1>3
<1>5. p \in Seq(Octet) /\ Len(p) = n
  <2> HIDE DEF n
  <2> QED  BY <1>1, <1>4
<1>6. i \in 1 .. n  BY <1>1
<1>7. Bits(o[i]) # Bits(p[i])
  <2>1. p[i] = Flipped(o[i], x)  BY <1>2, <1>6
  <2>2. o[i] \in Octet /\ x \in Octet /\ x # 0  BY <1>1, <1>6
  <2> QED  BY <2>1, <2>2, FlippedIs
<1>8. \A k \in 1 .. n : k # i /\ k # i + 1 => o[k] = p[k]  BY <1>2
<1> QED  BY <1>5, <1>6, <1>7, <1>8 DEF Hurt, p

(* No octet of a frame can be damaged, and no two in a row, and the frame   *)
(* be taken for a frame: whatever the payload and the damage, of the length *)
(* octet and of the CRCs as well.  (DamageNoticed, of LinkFrame::decode.)   *)
THEOREM DamageSeen == Building => []DamageNoticed
<1>1. FrameTyped => DamageNoticed
  <2> SUFFICES ASSUME frame \in AnyFrame,
                      NEW i \in DOMAIN EncodeFrame(frame),
                      NEW x \in Damage, NEW y \in Damage \cup {0}
               PROVE  DecodeFrame(Damaged(EncodeFrame(frame), i, x, y)) = <<>>
    BY DEF FrameTyped, DamageNoticed
  <2> DEFINE o == EncodeFrame(frame)
  <2>1. o \in Seq(Octet)  BY FrameOctets
  <2>2. x \in Octet \ {0} /\ y \in Octet
    <3>1. 0 \in Octet  BY OctetRange
    <3> QED  BY <3>1, DamageAssumption
  <2>3. i \in DOMAIN o  OBVIOUS
  <2> HIDE DEF o
  <2>4. Hurt(o, Damaged(o, i, x, y), i)  BY <2>1, <2>2, <2>3, DamagedHurts
  <2> QED  BY <2>4, HurtFrame DEF o
<1> QED  BY <1>1, BuildingTyped, PTL

-----------------------------------------------------------------------------
(* The CRC as a remainder.  A register stands for sixteen powers of x, its  *)
(* bit 15 for the lowest, x^m.                                              *)
Powers(r, m) == {15 - b + m : b \in r}

LEMMA PowersIs ==
  ASSUME NEW r \in Register, NEW m \in Nat
  PROVE  /\ \A x \in Nat : x \in Powers(r, m) <=> m <= x /\ x <= m + 15 /\ 15 + m - x \in r
         /\ Powers(r, m) \in SUBSET Nat
<1>1. \A b \in r : b \in Nat /\ b <= 15  BY PowerIs DEF Register
<1>2. Powers(r, m) \in SUBSET Nat  BY <1>1 DEF Powers
<1>3. ASSUME NEW x \in Powers(r, m)
      PROVE  m <= x /\ x <= m + 15 /\ 15 + m - x \in r
  <2>1. PICK b \in r : x = 15 - b + m  BY DEF Powers
  <2>2. b \in Nat /\ b <= 15  BY <1>1
  <2>3. 15 + m - x = b /\ m <= x /\ x <= m + 15  BY <2>1, <2>2
  <2> QED  BY <2>3
<1>4. ASSUME NEW x \in Nat, 15 + m - x \in r PROVE x \in Powers(r, m)
  <2> DEFINE b == 15 + m - x
  <2>1. b \in r /\ x = 15 - b + m  BY <1>4
  <2> HIDE DEF b
  <2> QED  BY <2>1 DEF Powers
<1> QED  BY <1>2, <1>3, <1>4

(* The generator, less its highest power, is the polynomial of the code.    *)
LEMMA GeneratorIs ==
  /\ Generator \in SUBSET Nat
  /\ \A g \in Nat : g \in Generator <=> g = 16 \/ (g <= 15 /\ 15 - g \in Polynomial)
<1>1. Polynomial = {b \in Power : (42684 \div Weight[b + 1]) % 2 = 1}
  BY BitsOf DEF Polynomial
<1>2. /\ (42684 \div 1) % 2 = 0 /\ (42684 \div 2) % 2 = 0 /\ (42684 \div 4) % 2 = 1
      /\ (42684 \div 8) % 2 = 1 /\ (42684 \div 16) % 2 = 1 /\ (42684 \div 32) % 2 = 1
      /\ (42684 \div 64) % 2 = 0 /\ (42684 \div 128) % 2 = 1 /\ (42684 \div 256) % 2 = 0
      /\ (42684 \div 512) % 2 = 1 /\ (42684 \div 1024) % 2 = 1 /\ (42684 \div 2048) % 2 = 0
      /\ (42684 \div 4096) % 2 = 0 /\ (42684 \div 8192) % 2 = 1
      /\ (42684 \div 16384) % 2 = 0 /\ (42684 \div 32768) % 2 = 1
  OBVIOUS
<1> DEFINE p(b) == (42684 \div Weight[b + 1]) % 2
<1>3. /\ p(0) = 0 /\ p(1) = 0 /\ p(2) = 1 /\ p(3) = 1 /\ p(4) = 1 /\ p(5) = 1
      /\ p(6) = 0 /\ p(7) = 1 /\ p(8) = 0 /\ p(9) = 1 /\ p(10) = 1 /\ p(11) = 0
      /\ p(12) = 0 /\ p(13) = 1 /\ p(14) = 0 /\ p(15) = 1
  BY <1>2, Weights
<1>4. Polynomial = {b \in Power : p(b) = 1}  BY <1>1
<1> HIDE DEF p
<1>5. Polynomial = {2, 3, 4, 5, 7, 9, 10, 13, 15}
  <2>1. ASSUME NEW b \in Power
        PROVE  p(b) = 1 <=> b \in {2, 3, 4, 5, 7, 9, 10, 13, 15}
    BY <1>3, PowersAre
  <2>2. {2, 3, 4, 5, 7, 9, 10, 13, 15} \subseteq Power  BY PowerIs
  <2> QED  BY <1>4, <2>1, <2>2
<1>6. Generator \in SUBSET Nat  BY DEF Generator
<1>7. ASSUME NEW g \in Nat
      PROVE  g \in Generator <=> g = 16 \/ (g <= 15 /\ 15 - g \in Polynomial)
  BY <1>5 DEF Generator
<1> QED  BY <1>6, <1>7

(* One step of the division.                                                *)
Reduced(above, k) ==
    IF k + 1 \in above THEN SymDiff(above, {g + (k - 15) : g \in Generator}) ELSE above

LEMMA RemainderIs ==
  ASSUME NEW highest \in Nat, highest >= 15, NEW powers \in SUBSET Nat
  PROVE  \E below : /\ below[highest] = powers
                    /\ \A k \in 15 .. highest - 1 : below[k] = Reduced(below[k + 1], k)
                    /\ Remainder(powers, highest) = below[15]
<1> DEFINE below[k \in 15 .. highest] ==
               IF k = highest THEN powers
               ELSE LET above == below[k + 1]
                    IN  IF k + 1 \in above
                        THEN SymDiff(above, {g + (k - 15) : g \in Generator})
                        ELSE above
           V == SUBSET Nat
           n == highest - 15
           step == [i \in 1 .. n |-> [v \in V |-> Reduced(v, highest - i)]]
<1>1. Remainder(powers, highest) = below[15]  BY DEF Remainder
<1>2. n \in Nat /\ highest = n + 15  OBVIOUS
<1>3. step \in [1 .. n -> [V -> V]]
  <2>1. ASSUME NEW i \in 1 .. n, NEW v \in V
        PROVE  Reduced(v, highest - i) \in V
    <3> DEFINE d == highest - i - 15
    <3>1. d \in Nat /\ (highest - i) - 15 = d  OBVIOUS
    <3> HIDE DEF d
    <3>2. {g + d : g \in Generator} \in SUBSET Nat  BY <3>1, GeneratorIs
    <3> DEFINE s == {g + d : g \in Generator}
    <3>s. s \in SUBSET Nat /\ v \in SUBSET Nat  BY <3>2
    <3> HIDE DEF s
    <3>3. SymDiff(v, s) \in SUBSET Nat  BY <3>s, SymDiffIs
    <3> QED  BY <3>1, <3>3 DEF Reduced, s
  <2> HIDE DEF V, n
  <2> QED  BY <2>1
<1> HIDE DEF step, V, n
<1>4. PICK f \in [0 .. n -> V] : Follows(f, n, powers, step)
  <2>1. powers \in V  BY DEF V
  <2> QED  BY <1>2, <1>3, <2>1, RecursionExists
<1>5. f[0] = powers /\ \A i \in 1 .. n : f[i] = Reduced(f[i - 1], highest - i)
  <2>1. 0 \in 0 .. n /\ f[0] = powers  BY <1>2, <1>4 DEF Follows
  <2>2. ASSUME NEW i \in 1 .. n PROVE f[i] = Reduced(f[i - 1], highest - i)
    <3>1. i \in 0 .. n /\ i # 0 /\ i - 1 \in 0 .. n  BY <1>2
    <3>2. f[i] = step[i][f[i - 1]] /\ f[i - 1] \in V  BY <1>4, <3>1 DEF Follows
    <3> QED  BY <3>2 DEF step
  <2> QED  BY <2>1, <2>2
<1> DEFINE b == [k \in 15 .. highest |-> f[highest - k]]
<1>6. b = [k \in 15 .. highest |-> IF k = highest THEN powers ELSE Reduced(b[k + 1], k)]
  <2>1. ASSUME NEW k \in 15 .. highest
        PROVE  b[k] = IF k = highest THEN powers ELSE Reduced(b[k + 1], k)
    <3>1. b[k] = f[highest - k]  OBVIOUS
    <3>2. CASE k = highest
      <4>1. highest - k = 0  BY <3>2
      <4> QED  BY <1>5, <3>1, <3>2, <4>1
    <3>3. CASE k # highest
      <4> DEFINE i == highest - k
      <4>1. /\ i \in 1 .. n /\ highest - i = k /\ k + 1 \in 15 .. highest
            /\ highest - (k + 1) = i - 1
        BY <1>2, <3>3
      <4>2. b[k + 1] = f[i - 1]  BY <4>1
      <4> HIDE DEF b
      <4> QED  BY <1>5, <3>1, <3>3, <4>1, <4>2
    <3> QED  BY <3>2, <3>3
  <2>2. b = [k \in 15 .. highest |-> b[k]]  OBVIOUS
  <2> HIDE DEF b
  <2> QED  BY <2>1, <2>2
<1> HIDE DEF b
<1>7. below = [k \in 15 .. highest |-> IF k = highest THEN powers ELSE Reduced(below[k + 1], k)]
  BY <1>6 DEF Reduced
<1> HIDE DEF below
<1>8. below[highest] = powers /\ \A k \in 15 .. highest - 1 : below[k] = Reduced(below[k + 1], k)
  <2>1. highest \in 15 .. highest  BY <1>2
  <2>2. \A k \in 15 .. highest - 1 : k \in 15 .. highest /\ k # highest  BY <1>2
  <2> QED  BY <1>7, <2>1, <2>2
<1> QED  BY <1>1, <1>8

(* Division down to x^(m+15), of octets of which a register and `rest` are  *)
(* left.                                                                    *)
Divides(below, low, highest) ==
    \A k \in Nat : low + 15 <= k /\ k < highest => below[k] = Reduced(below[k + 1], k)

Left(below, r, m, rest) == below[m + 15] = SymDiff(Powers(r, m), rest)

LEMMA ReducedOnce ==
  ASSUME NEW r \in Register, NEW m \in Nat, NEW rest \in SUBSET Nat,
         \A x \in rest : x <= m + 15
  PROVE  Reduced(SymDiff(Powers(r, m + 1), rest), m + 15) = SymDiff(Powers(ShiftOnce(r), m), rest)
<1> DEFINE M == m + 1
           P == Powers(r, M)
           above == SymDiff(P, rest)
           g == {e + m : e \in Generator}
           q == Powers(ShiftOnce(r), m)
<1>1. M \in Nat /\ M = m + 1 /\ (m + 15) - 15 = m /\ (m + 15) + 1 = m + 16  OBVIOUS
<1>2. /\ \A x \in Nat : x \in P <=> M <= x /\ x <= M + 15 /\ 15 + M - x \in r
      /\ P \in SUBSET Nat
  BY <1>1, PowersIs
<1>3. /\ ShiftOnce(r) \in Register /\ ShiftedRight(r) \in Register /\ Polynomial \in Register
      /\ \A y \in Power : y \in ShiftedRight(r) <=> y + 1 \in r
  BY ShiftLinear, RightIs, PolynomialIs
<1>4. /\ \A x \in Nat : x \in q <=> m <= x /\ x <= m + 15 /\ 15 + m - x \in ShiftOnce(r)
      /\ q \in SUBSET Nat
  BY <1>3, PowersIs
<1>5. /\ g \in SUBSET Nat
      /\ \A x \in Nat : x \in g <=> x = m + 16 \/ (m <= x /\ x <= m + 15 /\ 15 + m - x \in Polynomial)
  <2>1. Generator \in SUBSET Nat  BY GeneratorIs
  <2>2. g \in SUBSET Nat  BY <2>1
  <2>3. ASSUME NEW x \in Nat
        PROVE  x \in g <=> x >= m /\ x - m \in Generator
    <3>1. ASSUME x \in g PROVE x >= m /\ x - m \in Generator
      <4>1. PICK e \in Generator : x = e + m  BY <3>1
      <4>2. e \in Nat /\ x - m = e  BY <2>1, <4>1
      <4> QED  BY <4>1, <4>2
    <3>2. ASSUME x >= m, x - m \in Generator PROVE x \in g
      <4>1. x = (x - m) + m  OBVIOUS
      <4> QED  BY <3>2, <4>1
    <3> QED  BY <3>1, <3>2
  <2>4. ASSUME NEW x \in Nat, x >= m
        PROVE  x - m \in Generator
                  <=> x = m + 16 \/ (x <= m + 15 /\ 15 + m - x \in Polynomial)
    <3>1. x - m \in Nat  BY <2>4
    <3>2. /\ x - m \in Generator
                <=> x - m = 16 \/ (x - m <= 15 /\ 15 - (x - m) \in Polynomial)
      BY <3>1, GeneratorIs
    <3>3. (x - m = 16 <=> x = m + 16) /\ (x - m <= 15 <=> x <= m + 15)
          /\ 15 - (x - m) = 15 + m - x
      BY <2>4
    <3> QED  BY <3>2, <3>3
  <2> HIDE DEF g
  <2>5. m + 16 \in Nat /\ m + 16 >= m  OBVIOUS
  <2> QED  BY <2>2, <2>3, <2>4, <2>5
<1>6. Reduced(above, m + 15) = IF m + 16 \in above THEN SymDiff(above, g) ELSE above
  BY <1>1 DEF Reduced
<1> DEFINE s == Reduced(above, m + 15)
           t == SymDiff(q, rest)
<1>7. /\ \A x : x \in above <=> ~ (x \in P <=> x \in rest)
      /\ \A x : x \in SymDiff(above, g) <=> ~ (x \in above <=> x \in g)
      /\ \A x : x \in t <=> ~ (x \in q <=> x \in rest)
  BY SymDiffIs
<1> DEFINE ag == SymDiff(above, g)
<1>7a. s = IF m + 16 \in above THEN ag ELSE above  BY <1>6
<1>7b. \A x : x \in ag <=> ~ (x \in above <=> x \in g)  BY <1>7
<1> HIDE DEF P, g, q
<1>r. M + 15 = m + 16  BY <1>1
<1>8. m + 16 \in P <=> 0 \in r
  <2>1. m + 16 \in Nat /\ M <= m + 16 /\ m + 16 <= M + 15 /\ 15 + M - (m + 16) = 0  BY <1>1
  <2> HIDE DEF M
  <2> QED  BY <1>2, <2>1
<1>9. m + 16 \notin rest /\ m + 16 \notin q
  <2>1. m + 16 \in Nat /\ ~ (m + 16 <= m + 15)  OBVIOUS
  <2> QED  BY <1>4, <2>1
<1>10. m + 16 \in above <=> 0 \in r  BY <1>7, <1>8, <1>9
<1>11. ASSUME NEW x \in Nat
       PROVE  IF 0 \in r THEN ~ (x \in P <=> x \in g) <=> x \in q ELSE x \in P <=> x \in q
  <2>1. /\ x \in P <=> m + 1 <= x /\ x <= m + 16 /\ 16 + m - x \in r
    <3>1. 15 + M - x = 16 + m - x  BY <1>1
    <3> QED  BY <1>1, <1>2, <1>r, <3>1
  <2>2. CASE m <= x /\ x <= m + 15
    <3> DEFINE y == 15 + m - x
    <3>1. y \in Nat /\ y <= 15 /\ 16 + m - x = y + 1 /\ x <= m + 16 /\ x # m + 16
          /\ (m + 1 <= x <=> y # 15)
      BY <2>2
    <3>2. y \in Power  BY <3>1, PowerIs
    <3>3. y = 15 => y + 1 \notin r
      <4> SUFFICES ASSUME y = 15, 16 \in r PROVE FALSE
        OBVIOUS
      <4>1. 16 \in Power  BY DEF Register
      <4> QED  BY <4>1, PowerIs
    <3>4. x \in P <=> y \in ShiftedRight(r)
      <4> HIDE DEF y
      <4> QED  BY <1>3, <2>1, <2>2, <3>1, <3>2, <3>3
    <3>5. (x \in q <=> y \in ShiftOnce(r)) /\ (x \in g <=> y \in Polynomial)
      BY <1>4, <1>5, <2>2, <3>1
    <3>6. ShiftOnce(r) = IF 0 \in r THEN SymDiff(ShiftedRight(r), Polynomial) ELSE ShiftedRight(r)
      BY DEF ShiftOnce
    <3>7. y \in SymDiff(ShiftedRight(r), Polynomial)
             <=> ~ (y \in ShiftedRight(r) <=> y \in Polynomial)
      BY SymDiffIs
    <3> HIDE DEF y
    <3> QED  BY <3>4, <3>5, <3>6, <3>7
  <2>3. CASE x = m + 16
    <3>1. x \notin q /\ x \in g  BY <1>5, <1>9, <2>3
    <3>2. x \in P <=> 0 \in r  BY <1>8, <2>3
    <3> QED  BY <3>1, <3>2
  <2>4. CASE ~ (m <= x /\ x <= m + 15) /\ x # m + 16
    <3>1. x \notin P  BY <2>1, <2>4
    <3>2. x \notin q /\ x \notin g  BY <1>4, <1>5, <2>4
    <3> QED  BY <3>1, <3>2
  <2> QED  BY <2>2, <2>3, <2>4
<1> HIDE DEF above, s, t, ag
<1>12. ASSUME NEW x \in Nat PROVE x \in s <=> x \in t
  <2>1. CASE 0 \in r
    <3>1. s = ag  BY <1>7a, <1>10, <2>1
    <3>2. ~ (x \in P <=> x \in g) <=> x \in q  BY <1>11, <2>1
    <3>3. x \in ag <=> ~ (x \in above <=> x \in g)  BY <1>7b
    <3>4. x \in above <=> ~ (x \in P <=> x \in rest)  BY <1>7
    <3>5. x \in t <=> ~ (x \in q <=> x \in rest)  BY <1>7
    <3> QED  BY <3>1, <3>2, <3>3, <3>4, <3>5
  <2>2. CASE 0 \notin r
    <3>1. s = above  BY <1>7a, <1>10, <2>2
    <3>2. x \in P <=> x \in q  BY <1>11, <2>2
    <3>4. x \in above <=> ~ (x \in P <=> x \in rest)  BY <1>7
    <3>5. x \in t <=> ~ (x \in q <=> x \in rest)  BY <1>7
    <3> QED  BY <3>1, <3>2, <3>4, <3>5
  <2> QED  BY <2>1, <2>2
<1>13. above \in SUBSET Nat /\ t \in SUBSET Nat /\ ag \in SUBSET Nat
  BY <1>2, <1>4, <1>5, <1>7, <1>7b
<1>14. s \in SUBSET Nat  BY <1>7a, <1>13
<1>15. s = t  BY <1>12, <1>13, <1>14
<1> QED  BY <1>15 DEF s, t, above, P, q, M

LEMMA LeftOnce ==
  ASSUME NEW below, NEW low \in Nat, NEW highest \in Nat, Divides(below, low, highest),
         NEW r \in Register, NEW m \in Nat, low <= m, m + 15 < highest,
         NEW rest \in SUBSET Nat, \A x \in rest : x <= m + 15,
         NEW next, next = m + 1, Left(below, r, next, rest)
  PROVE  ShiftOnce(r) \in Register /\ Left(below, ShiftOnce(r), m, rest)
<1>1. m + 15 \in Nat /\ low + 15 <= m + 15 /\ (m + 15) + 1 = next + 15  OBVIOUS
<1>2. below[m + 15] = Reduced(below[next + 15], m + 15)  BY <1>1 DEF Divides
<1>3. below[next + 15] = SymDiff(Powers(r, m + 1), rest)  BY DEF Left
<1>4. Reduced(SymDiff(Powers(r, m + 1), rest), m + 15) = SymDiff(Powers(ShiftOnce(r), m), rest)
  BY ReducedOnce
<1>5. ShiftOnce(r) \in Register  BY ShiftLinear
<1> QED  BY <1>2, <1>3, <1>4, <1>5 DEF Left

LEMMA LeftTwice ==
  ASSUME NEW below, NEW low \in Nat, NEW highest \in Nat, Divides(below, low, highest),
         NEW r \in Register, NEW m \in Nat, low <= m, m + 16 < highest,
         NEW rest \in SUBSET Nat, \A x \in rest : x <= m + 15,
         NEW next, next = m + 2, Left(below, r, next, rest)
  PROVE  ShiftTwice(r) \in Register /\ Left(below, ShiftTwice(r), m, rest)
<1> DEFINE n == m + 1
           s == ShiftOnce(r)
<1>1. /\ n \in Nat /\ n = m + 1 /\ low <= n /\ n + 15 < highest /\ next = n + 1
      /\ \A x \in rest : x <= n + 15
  OBVIOUS
<1>2. low <= m /\ m + 15 < highest  OBVIOUS
<1> HIDE DEF n, s
<1>3. s \in Register /\ Left(below, s, n, rest)  BY <1>1, LeftOnce DEF s
<1>4. ShiftOnce(s) \in Register /\ Left(below, ShiftOnce(s), m, rest)
  BY <1>1, <1>2, <1>3, LeftOnce
<1> QED  BY <1>4 DEF ShiftTwice, s

LEMMA LeftFour ==
  ASSUME NEW below, NEW low \in Nat, NEW highest \in Nat, Divides(below, low, highest),
         NEW r \in Register, NEW m \in Nat, low <= m, m + 18 < highest,
         NEW rest \in SUBSET Nat, \A x \in rest : x <= m + 15,
         NEW next, next = m + 4, Left(below, r, next, rest)
  PROVE  ShiftFour(r) \in Register /\ Left(below, ShiftFour(r), m, rest)
<1> DEFINE n == m + 2
           s == ShiftTwice(r)
<1>1. /\ n \in Nat /\ n = m + 2 /\ low <= n /\ n + 16 < highest /\ next = n + 2
      /\ \A x \in rest : x <= n + 15
  OBVIOUS
<1>2. low <= m /\ m + 16 < highest  OBVIOUS
<1> HIDE DEF n, s
<1>3. s \in Register /\ Left(below, s, n, rest)  BY <1>1, LeftTwice DEF s
<1>4. ShiftTwice(s) \in Register /\ Left(below, ShiftTwice(s), m, rest)
  BY <1>1, <1>2, <1>3, LeftTwice
<1> QED  BY <1>4 DEF ShiftFour, s

LEMMA LeftOctet ==
  ASSUME NEW below, NEW low \in Nat, NEW highest \in Nat, Divides(below, low, highest),
         NEW r \in Register, NEW m \in Nat, low <= m, m + 22 < highest,
         NEW rest \in SUBSET Nat, \A x \in rest : x <= m + 15,
         NEW next, next = m + 8, Left(below, r, next, rest)
  PROVE  Left(below, ShiftOctet(r), m, rest)
<1> DEFINE n == m + 4
           s == ShiftFour(r)
<1>1. /\ n \in Nat /\ n = m + 4 /\ low <= n /\ n + 18 < highest /\ next = n + 4
      /\ \A x \in rest : x <= n + 15
  OBVIOUS
<1>2. low <= m /\ m + 18 < highest  OBVIOUS
<1> HIDE DEF n, s
<1>3. s \in Register /\ Left(below, s, n, rest)  BY <1>1, LeftFour DEF s
<1>4. Left(below, ShiftFour(s), m, rest)
  BY <1>1, <1>2, <1>3, LeftFour
<1>5. ShiftOctet(r) = ShiftFour(s)  BY ShiftOctetIs DEF s
<1> QED  BY <1>4, <1>5

(* The powers of the octets of a block from the i-th on: octet i stands in  *)
(* the eight powers from the 8 + 8 (l - i)-th on.                           *)
OctetPowers(block, i) == Powers(Bits(block[i]), 8 * (Len(block) - i) + 8)

PowersFrom(block, i) == UNION {OctetPowers(block, j) : j \in {k \in DOMAIN block : i < k}}

LEMMA OctetPowersIs ==
  ASSUME NEW block \in Seq(Octet), NEW i \in 1 .. Len(block)
  PROVE  /\ OctetPowers(block, i) \in SUBSET Nat
         /\ \A x \in OctetPowers(block, i) : /\ 8 * (Len(block) - i) + 16 <= x
                                             /\ x <= 8 * (Len(block) - i) + 23
<1> DEFINE m == 8 * (Len(block) - i) + 8
           r == Bits(block[i])
<1>1. m \in Nat /\ m + 8 = 8 * (Len(block) - i) + 16 /\ m + 15 = 8 * (Len(block) - i) + 23
  OBVIOUS
<1>2. block[i] \in Octet  BY ElementOfSeq
<1>3. r \in Register /\ \A b \in r : b <= 7  BY <1>2, OctetBits DEF Register
<1>4. OctetPowers(block, i) = Powers(r, m)  BY DEF OctetPowers
<1> HIDE DEF m, r
<1>5. /\ \A x \in Nat : x \in Powers(r, m) <=> m <= x /\ x <= m + 15 /\ 15 + m - x \in r
      /\ Powers(r, m) \in SUBSET Nat
  BY <1>1, <1>3, PowersIs
<1>6. ASSUME NEW x \in Powers(r, m) PROVE m + 8 <= x /\ x <= m + 15
  <2>1. x \in Nat /\ x <= m + 15 /\ 15 + m - x \in r  BY <1>5
  <2>2. 15 + m - x <= 7  BY <1>3, <2>1
  <2> QED  BY <1>1, <2>1, <2>2
<1> QED  BY <1>1, <1>4, <1>5, <1>6

LEMMA PowersFromIs ==
  ASSUME NEW block \in Seq(Octet), NEW i \in 1 .. Len(block)
  PROVE  /\ PowersFrom(block, i) \in SUBSET Nat
         /\ \A x \in PowersFrom(block, i) : x <= 8 * (Len(block) - i) + 15
         /\ PowersFrom(block, i - 1) = SymDiff(OctetPowers(block, i), PowersFrom(block, i))
<1> DEFINE n == Len(block)
<1>0. n \in Nat /\ n = Len(block) /\ DOMAIN block = 1 .. n /\ i \in 1 .. n /\ i \in Nat
  OBVIOUS
<1>1. \A j \in 1 .. n : /\ OctetPowers(block, j) \in SUBSET Nat
                        /\ \A x \in OctetPowers(block, j) : /\ 8 * (n - j) + 16 <= x
                                                            /\ x <= 8 * (n - j) + 23
  BY OctetPowersIs
<1> HIDE DEF n
<1>2. ASSUME NEW x \in PowersFrom(block, i)
      PROVE  x \in Nat /\ x <= 8 * (n - i) + 15
  <2>1. PICK j \in 1 .. n : i < j /\ x \in OctetPowers(block, j)  BY <1>0 DEF PowersFrom
  <2>2. x \in Nat /\ x <= 8 * (n - j) + 23  BY <1>1, <2>1
  <2>3. 8 * (n - j) + 23 <= 8 * (n - i) + 15  BY <1>0, <2>1
  <2> QED  BY <1>0, <2>2, <2>3
<1>3. ASSUME NEW x
      PROVE  x \in PowersFrom(block, i - 1)
                <=> x \in OctetPowers(block, i) \/ x \in PowersFrom(block, i)
  <2>1. \A k \in 1 .. n : i - 1 < k <=> k = i \/ i < k  BY <1>0
  <2> QED  BY <1>0, <2>1 DEF PowersFrom
<1>4. ASSUME NEW x \in OctetPowers(block, i), x \in PowersFrom(block, i) PROVE FALSE
  <2>1. x \in Nat /\ x <= 8 * (n - i) + 15  BY <1>2, <1>4
  <2>2. 8 * (n - i) + 16 <= x  BY <1>0, <1>1
  <2> QED  BY <1>0, <2>1, <2>2
<1> DEFINE a == OctetPowers(block, i)
           b == PowersFrom(block, i)
           c == PowersFrom(block, i - 1)
           d == SymDiff(a, b)
<1>5. \A x : x \in d <=> ~ (x \in a <=> x \in b)  BY SymDiffIs
<1> HIDE DEF a, b, d
<1>6. c = d  BY <1>3, <1>4, <1>5 DEF a, b
<1>7. b \in SUBSET Nat  BY <1>2 DEF b
<1> QED  BY <1>0, <1>2, <1>6, <1>7 DEF a, b, d

LEMMA MessageIs ==
  ASSUME NEW block \in Seq(Octet)
  PROVE  Message(block) = PowersFrom(block, 0) /\ PowersFrom(block, 0) \in SUBSET Nat
<1> DEFINE n == Len(block)
<1>0. n \in Nat /\ DOMAIN block = 1 .. n  OBVIOUS
<1>1. ASSUME NEW i \in 1 .. n
      PROVE  {15 + (8 * (n - (i - 1))) - b : b \in Bits(block[i])} = OctetPowers(block, i)
  <2> DEFINE m == 8 * (n - i) + 8
             r == Bits(block[i])
  <2>1. m \in Nat /\ 8 * (n - (i - 1)) = m  BY <1>0
  <2>2. OctetPowers(block, i) = Powers(r, m)  BY DEF OctetPowers
  <2>3. \A b \in r : b \in Nat  BY BitsInRegister, PowerIs DEF Register
  <2> HIDE DEF m, r
  <2>4. \A b \in r : 15 + m - b = 15 - b + m  BY <2>1, <2>3
  <2>5. {15 + m - b : b \in r} = {15 - b + m : b \in r}  BY <2>4
  <2> QED  BY <2>1, <2>2, <2>5 DEF Powers, r
<1>2. Message(block) = UNION {OctetPowers(block, i) : i \in 1 .. n}
  <2> DEFINE G(i) == {15 + (8 * (n - (i - 1))) - b : b \in Bits(block[i])}
  <2>1. Message(block) = UNION {G(i) : i \in 1 .. n}  BY <1>0 DEF Message
  <2>2. \A i \in 1 .. n : G(i) = OctetPowers(block, i)  BY <1>1
  <2> HIDE DEF G, n
  <2>3. {G(i) : i \in 1 .. n} = {OctetPowers(block, i) : i \in 1 .. n}  BY <2>2
  <2> QED  BY <2>1, <2>3
<1>3. {k \in DOMAIN block : 0 < k} = 1 .. n  BY <1>0
<1>4. PowersFrom(block, 0) = UNION {OctetPowers(block, i) : i \in 1 .. n}
  BY <1>3 DEF PowersFrom
<1>5. \A i \in 1 .. n : OctetPowers(block, i) \in SUBSET Nat  BY OctetPowersIs
<1> QED  BY <1>2, <1>4, <1>5

LEMMA RemainderOfMessage ==
  ASSUME NEW block \in Seq(Octet), NEW n \in Nat, n = Len(block),
         NEW f, AfterOctets(f, block)
  PROVE  f[n] \in Register /\ Remainder(Message(block), 15 + (8 * n)) = Powers(f[n], 0)
<1> DEFINE highest == 15 + (8 * n)
           powers == Message(block)
<1>1. highest \in Nat /\ highest >= 15 /\ highest = 15 + (8 * n)  OBVIOUS
<1>2. powers \in SUBSET Nat /\ powers = PowersFrom(block, 0)  BY MessageIs
<1> HIDE DEF highest, powers
<1>3. PICK below : /\ below[highest] = powers
                   /\ \A k \in 15 .. highest - 1 : below[k] = Reduced(below[k + 1], k)
                   /\ Remainder(powers, highest) = below[15]
  BY <1>1, <1>2, RemainderIs
<1>4. Divides(below, 0, highest)
  <2>1. \A k \in Nat : 0 + 15 <= k /\ k < highest => k \in 15 .. highest - 1  BY <1>1
  <2> QED  BY <1>3, <2>1 DEF Divides
<1>5. f[0] = {} /\ \A i \in 1 .. n : f[i] = ShiftOctet(SymDiff(f[i - 1], Bits(block[i])))
  BY DEF AfterOctets
<1>6. \A i \in 0 .. n : f[i] \in Register
  <2> HIDE DEF Register
  <2> QED  BY DEF AfterOctets
<1> DEFINE T == {i \in Nat : i <= n => Left(below, f[i], 8 * (n - i), PowersFrom(block, i))}
<1>7. 0 \in T
  <2>1. 8 * (n - 0) + 15 = highest  BY <1>1
  <2>2. Powers({}, 8 * (n - 0)) = {}  BY DEF Powers
  <2>3. \A s : SymDiff({}, s) = s  BY SymDiffEmpty
  <2>4. below[highest] = SymDiff(Powers(f[0], 8 * (n - 0)), PowersFrom(block, 0))
    BY <1>2, <1>3, <1>5, <2>2, <2>3
  <2> QED  BY <2>1, <2>4 DEF Left
<1>8. ASSUME NEW i \in Nat, i \in T
      PROVE  i + 1 \in T
  <2> DEFINE j == i + 1
  <2>1. j \in Nat /\ j - 1 = i /\ (j <= n => i <= n /\ j \in 1 .. n /\ i \in 0 .. n)  OBVIOUS
  <2> HIDE DEF j
  <2>2. ASSUME j <= n
        PROVE  Left(below, f[j], 8 * (n - j), PowersFrom(block, j))
    <3> DEFINE m == 8 * (n - j)
               next == m + 8
               o == Bits(block[j])
               rest == PowersFrom(block, j)
               r == SymDiff(f[i], o)
    <3>1. j \in 1 .. n /\ i \in 0 .. n  BY <2>1, <2>2
    <3>2. /\ m \in Nat /\ 0 <= m /\ m + 22 < highest /\ next \in Nat /\ next = m + 8
          /\ 8 * (n - i) = next
      BY <1>1, <2>1, <2>2
    <3>3. rest \in SUBSET Nat /\ (\A x \in rest : x <= m + 15)
          /\ PowersFrom(block, i) = SymDiff(OctetPowers(block, j), rest)
      BY <2>1, <3>1, PowersFromIs
    <3>4. OctetPowers(block, j) = Powers(o, next)  BY DEF OctetPowers
    <3>5. f[i] \in Register /\ o \in Register  BY <1>6, <3>1, BitsInRegister
    <3>6. f[j] = ShiftOctet(r)  BY <1>5, <2>1, <3>1
    <3>7. Left(below, f[i], 8 * (n - i), PowersFrom(block, i))  BY <1>8, <2>1, <2>2
    <3> DEFINE u == f[i]
    <3>8. below[next + 15] = SymDiff(Powers(u, next), SymDiff(Powers(o, next), rest))
      BY <3>2, <3>3, <3>4, <3>7 DEF Left
    <3>9. r \in Register  BY <3>5, ShiftLinear
    <3>10. SymDiff(Powers(u, next), SymDiff(Powers(o, next), rest)) = SymDiff(Powers(r, next), rest)
      <4>1. next \in Nat /\ u \in Register /\ o \in Register /\ r \in Register
            /\ \A x : x \in r <=> ~ (x \in u <=> x \in o)
        BY <3>2, <3>5, <3>9, SymDiffIs
      <4>2. rest \in SUBSET Nat  BY <3>3
      <4> HIDE DEF next, u, o, r, rest
      <4> DEFINE pu == Powers(u, next)
                 po == Powers(o, next)
                 pr == Powers(r, next)
      <4>3. /\ pu \in SUBSET Nat /\ po \in SUBSET Nat /\ pr \in SUBSET Nat
            /\ \A x \in Nat : x \in pr <=> ~ (x \in pu <=> x \in po)
        <5>1. /\ \A x \in Nat : x \in pu <=> next <= x /\ x <= next + 15 /\ 15 + next - x \in u
              /\ pu \in SUBSET Nat
          BY <4>1, PowersIs
        <5>2. /\ \A x \in Nat : x \in po <=> next <= x /\ x <= next + 15 /\ 15 + next - x \in o
              /\ po \in SUBSET Nat
          BY <4>1, PowersIs
        <5>3. /\ \A x \in Nat : x \in pr <=> next <= x /\ x <= next + 15 /\ 15 + next - x \in r
              /\ pr \in SUBSET Nat
          BY <4>1, PowersIs
        <5> HIDE DEF pu, po, pr
        <5> QED  BY <4>1, <5>1, <5>2, <5>3
      <4> HIDE DEF pu, po, pr
      <4> DEFINE por == SymDiff(po, rest)
                 l == SymDiff(pu, por)
                 k == SymDiff(pr, rest)
      <4>4. /\ \A x : x \in por <=> ~ (x \in po <=> x \in rest)
            /\ \A x : x \in l <=> ~ (x \in pu <=> x \in por)
            /\ \A x : x \in k <=> ~ (x \in pr <=> x \in rest)
        BY SymDiffIs
      <4> HIDE DEF por, l, k
      <4>5. l \in SUBSET Nat /\ k \in SUBSET Nat  BY <4>2, <4>3, <4>4
      <4>6. ASSUME NEW x \in Nat PROVE x \in l <=> x \in k  BY <4>3, <4>4
      <4>7. l = k  BY <4>5, <4>6
      <4> QED  BY <4>7 DEF l, k, por, pu, po, pr
    <3> HIDE DEF m, next, o, rest, r, u
    <3>11. Left(below, r, next, rest)  BY <3>8, <3>10 DEF Left
    <3>12. 0 \in Nat  OBVIOUS
    <3>13. Left(below, ShiftOctet(r), m, rest)
      BY <1>1, <1>4, <3>2, <3>3, <3>9, <3>11, <3>12, LeftOctet
    <3> QED  BY <3>6, <3>13 DEF m, rest
  <2>3. j \in T  BY <2>1, <2>2
  <2> QED  BY <2>3 DEF j
<1> HIDE DEF T
<1>9. Nat \subseteq T  BY <1>7, <1>8, SetInduction
<1>10. Left(below, f[n], 8 * (n - n), PowersFrom(block, n))  BY <1>9 DEF T
<1>11. 8 * (n - n) = 0 /\ 0 + 15 = 15 /\ n \in 0 .. n  OBVIOUS
<1>12. PowersFrom(block, n) = {}
  <2>1. {k \in DOMAIN block : n < k} = {}  OBVIOUS
  <2> QED  BY <2>1 DEF PowersFrom
<1>13. \A s : SymDiff(s, {}) = s  BY SymDiffEmpty
<1>14. below[15] = Powers(f[n], 0)  BY <1>10, <1>11, <1>12, <1>13 DEF Left
<1> HIDE DEF Register
<1>15. f[n] \in Register  BY <1>6, <1>11
<1> QED  BY <1>1, <1>3, <1>14, <1>15 DEF powers

(* The register that crc16 computes, shift by shift, is the remainder that  *)
(* IEEE 1815 defines, complemented, for every payload.  (CrcIsRemainder, of *)
(* crc16.)                                                                  *)
THEOREM CrcDivides == Building => []CrcIsRemainder
<1>1. FrameTyped => CrcIsRemainder
  <2> SUFFICES ASSUME frame \in AnyFrame
               PROVE  Crc16(frame.payload) =
                        (0 .. 15) \ {15 - power :
                            power \in Remainder(Message(frame.payload),
                                                15 + (8 * Len(frame.payload)))}
    BY DEF FrameTyped, CrcIsRemainder
  <2> DEFINE p == frame.payload
             n == Len(p)
  <2>1. p \in Seq(Octet) /\ n \in Nat /\ n = Len(p)  BY FrameFields
  <2> HIDE DEF p, n
  <2>2. PICK f : AfterOctets(f, p) /\ Crc16(p) = Power \ f[n]  BY <2>1, CrcAfter
  <2>3. f[n] \in Register /\ Remainder(Message(p), 15 + (8 * n)) = Powers(f[n], 0)
    BY <2>1, <2>2, RemainderOfMessage
  <2> DEFINE r == f[n]
  <2>4. \A b \in r : b \in Nat /\ 15 - (15 - b + 0) = b
    BY <2>3, PowerIs DEF Register
  <2> HIDE DEF r
  <2>5. {15 - power : power \in Powers(r, 0)} = r
    <3>1. ASSUME NEW b \in r PROVE b \in {15 - power : power \in Powers(r, 0)}
      <4>1. 15 - b + 0 \in Powers(r, 0)  BY DEF Powers
      <4> QED  BY <2>4, <4>1
    <3>2. ASSUME NEW power \in Powers(r, 0) PROVE 15 - power \in r
      <4>1. PICK b \in r : power = 15 - b + 0  BY DEF Powers
      <4> QED  BY <2>4, <4>1
    <3> QED  BY <3>1, <3>2
  <2> QED  BY <2>1, <2>2, <2>3, <2>5 DEF p, n, r, Power
<1> QED  BY <1>1, BuildingTyped, PTL

-----------------------------------------------------------------------------
(* The rest of some octets, from a place on, as opaque as Cat and Cut.      *)
RestTyped(r, m) ==
    (r \in Seq(Octet) /\ m \in 1 .. Len(r) + 1) =>
        /\ Rest(r, m) \in Seq(Octet) /\ Len(Rest(r, m)) = Len(r) - m + 1
        /\ \A i \in 1 .. Len(r) - m + 1 : Rest(r, m)[i] = r[m + i - 1]

LEMMA RestIsTyped ==
  ASSUME NEW r, NEW m
  PROVE  RestTyped(r, m)
<1> SUFFICES ASSUME r \in Seq(Octet), m \in 1 .. Len(r) + 1
             PROVE  /\ Rest(r, m) \in Seq(Octet) /\ Len(Rest(r, m)) = Len(r) - m + 1
                    /\ \A i \in 1 .. Len(r) - m + 1 : Rest(r, m)[i] = r[m + i - 1]
  BY DEF RestTyped
<1> DEFINE n == Len(r)
<1>1. n \in Nat /\ n <= Len(r) /\ m \in Nat /\ m > 0 /\ m <= n + 1 /\ n \in Int  OBVIOUS
<1>2. Rest(r, m) = SubSeq(r, m, n)  BY DEF Rest
<1>3. n = Len(r)  OBVIOUS
<1> HIDE DEF n
<1>4. /\ SubSeq(r, m, n) \in Seq(Octet)
      /\ Len(SubSeq(r, m, n)) = n - m + 1
      /\ \A i \in 1 .. n - m + 1 : SubSeq(r, m, n)[i] = r[m + i - 1]
  BY <1>1, Part
<1> QED  BY <1>2, <1>3, <1>4

-----------------------------------------------------------------------------
(* A function each value of which is made from those behind it.             *)
Backwards(f, n, step) == \A at \in 1 .. n : f[at] = step[at][f]

LooksBehind(n, V, step) ==
    \A at \in 1 .. n : \A f, g \in [1 .. n -> V] :
        (\A k \in at + 1 .. n : f[k] = g[k]) => step[at][f] = step[at][g]

LEMMA BackwardsExists ==
  ASSUME NEW n \in Nat, NEW V, NEW v \in V, NEW step \in [1 .. n -> [[1 .. n -> V] -> V]],
         LooksBehind(n, V, step)
  PROVE  \E f \in [1 .. n -> V] : Backwards(f, n, step)
<1> DEFINE Good(f, d) == \A at \in 1 .. n : n - at < d => f[at] = step[at][f]
           T == {d \in Nat : \E f \in [1 .. n -> V] : Good(f, d)}
<1>1. 0 \in T
  <2>1. [at \in 1 .. n |-> v] \in [1 .. n -> V]  OBVIOUS
  <2>2. \A at \in 1 .. n : ~ (n - at < 0)  OBVIOUS
  <2> QED  BY <2>1, <2>2
<1>2. ASSUME NEW d \in Nat, d \in T
      PROVE  d + 1 \in T
  <2>1. PICK f \in [1 .. n -> V] : Good(f, d)  BY <1>2
  <2> DEFINE here == n - d
             g == [f EXCEPT ![here] = step[here][f]]
  <2>2. here \in Int /\ here <= n /\ \A at \in 1 .. n : n - at < d + 1 => n - at < d \/ at = here
    OBVIOUS
  <2>3. CASE here \in 1 .. n
    <3>1. step[here][f] \in V  BY <2>3
    <3>2. g \in [1 .. n -> V] /\ g[here] = step[here][f]
          /\ \A k \in 1 .. n : k # here => g[k] = f[k]
      BY <2>3, <3>1
    <3> HIDE DEF g
    <3>3. ASSUME NEW at \in 1 .. n, n - at < d + 1
          PROVE  g[at] = step[at][g]
      <4>1. at >= here  BY <2>2, <3>3
      <4>2. \A k \in at + 1 .. n : k \in 1 .. n /\ k # here  BY <2>2, <4>1
      <4>3. \A k \in at + 1 .. n : g[k] = f[k]  BY <3>2, <4>2
      <4>4. step[at][g] = step[at][f]  BY <3>2, <4>3 DEF LooksBehind
      <4>5. CASE at = here  BY <3>2, <4>4, <4>5
      <4>6. CASE at # here
        <5>1. f[at] = step[at][f]  BY <2>1, <2>2, <3>3, <4>6
        <5> QED  BY <3>2, <4>4, <4>6, <5>1
      <4> QED  BY <4>5, <4>6
    <3>4. Good(g, d + 1)  BY <3>3
    <3> QED  BY <3>2, <3>4
  <2>4. CASE here \notin 1 .. n
    <3>1. Good(f, d + 1)  BY <2>1, <2>2, <2>4
    <3> QED  BY <3>1
  <2> QED  BY <2>3, <2>4
<1> HIDE DEF T
<1>3. Nat \subseteq T  BY <1>1, <1>2, SetInduction
<1>4. n + 1 \in T  BY <1>3
<1>5. PICK f \in [1 .. n -> V] : Good(f, n + 1)  BY <1>4 DEF T
<1>6. \A at \in 1 .. n : n - at < n + 1  OBVIOUS
<1> QED  BY <1>5, <1>6 DEF Backwards

-----------------------------------------------------------------------------
(* Where the zeros end.                                                     *)
IsAfter(o, f) ==
    f = [at \in 1 .. Len(o) + 1 |-> IF IsPadding(o, at) THEN f[at + 4] ELSE at]

LEMMA PaddingWithin ==
  ASSUME NEW o \in Seq(Octet), NEW at \in Nat, IsPadding(o, at)
  PROVE  at + 4 <= Len(o) + 1
BY DEF IsPadding

LEMMA AfterPaddingIs ==
  ASSUME NEW o \in Seq(Octet)
  PROVE  IsAfter(o, AfterPadding(o))
<1> DEFINE n == Len(o) + 1
           step == [at \in 1 .. n |-> [f \in [1 .. n -> Nat] |->
                       IF IsPadding(o, at) THEN f[at + 4] ELSE at]]
           after[at \in 1 .. Len(o) + 1] == IF IsPadding(o, at) THEN after[at + 4] ELSE at
<1>1. n \in Nat /\ n = Len(o) + 1  OBVIOUS
<1>2. AfterPadding(o) = after  BY DEF AfterPadding
<1>3. \A at \in 1 .. n : IsPadding(o, at) => at + 4 \in at + 1 .. n
  BY PaddingWithin
<1> HIDE DEF n
<1>4. step \in [1 .. n -> [[1 .. n -> Nat] -> Nat]]
  <2>1. ASSUME NEW at \in 1 .. n, NEW f \in [1 .. n -> Nat]
        PROVE  (IF IsPadding(o, at) THEN f[at + 4] ELSE at) \in Nat
    <3>1. IsPadding(o, at) => at + 4 \in 1 .. n  BY <1>3
    <3> QED  BY <1>1, <3>1
  <2> QED  BY <2>1
<1>5. \A at \in 1 .. n : \A f \in [1 .. n -> Nat] :
         step[at][f] = IF IsPadding(o, at) THEN f[at + 4] ELSE at
  OBVIOUS
<1> HIDE DEF step
<1>6. LooksBehind(n, Nat, step)
  <2> SUFFICES ASSUME NEW at \in 1 .. n, NEW f \in [1 .. n -> Nat], NEW g \in [1 .. n -> Nat],
                      \A k \in at + 1 .. n : f[k] = g[k]
               PROVE  step[at][f] = step[at][g]
    BY DEF LooksBehind
  <2>1. IsPadding(o, at) => f[at + 4] = g[at + 4]  BY <1>3
  <2> QED  BY <1>5, <2>1
<1>7. PICK f \in [1 .. n -> Nat] : Backwards(f, n, step)
  BY <1>1, <1>4, <1>6, BackwardsExists
<1>8. f = [at \in 1 .. n |-> IF IsPadding(o, at) THEN f[at + 4] ELSE at]
  BY <1>5, <1>7 DEF Backwards
<1>9. after = [at \in 1 .. n |-> IF IsPadding(o, at) THEN after[at + 4] ELSE at]
  BY <1>1, <1>8
<1> HIDE DEF after
<1> QED  BY <1>1, <1>2, <1>9 DEF IsAfter

-----------------------------------------------------------------------------
(* How many octets an object takes: no more than are there.                 *)
Lengths == [Range8 |-> 5, Range16 |-> 7, AllObjects |-> 3, Count8 |-> 4, Count16 |-> 5,
            Indexed32 |-> 7, CountAndPrefix16 |-> 4, CountAndPrefix32 |-> 4]

LEMMA HeaderSizes ==
  ASSUME NEW code \in DOMAIN FieldWidth
  PROVE  HeaderSize(code) = Lengths[code] /\ Lengths[code] \in 3 .. 7
BY DEF FieldWidth, HeaderSize, Lengths

LEMMA QualifierNames ==
  ASSUME NEW octet
  PROVE  QualifiersOf(octet) \subseteq DOMAIN FieldWidth
BY DEF QualifiersOf, FieldWidth

LEMMA UnsignedType ==
  ASSUME NEW o \in Seq(Octet), Len(o) > 0
  PROVE  Unsigned(o) \in Nat
<1>1. o[1] \in Octet /\ (Len(o) > 1 => o[2] \in Octet)  OBVIOUS
<1>2. o[1] \in Nat /\ (Len(o) > 1 => o[2] \in Nat)  BY <1>1, OctetRange
<1>3. (IF Len(o) > 1 THEN 256 * o[2] ELSE 0) \in Nat  BY <1>2
<1> QED  BY <1>2, <1>3 DEF Unsigned

LEMMA CountOfQualifier ==
  ASSUME NEW code \in DOMAIN FieldWidth, NEW octets \in Seq(Octet),
         Len(octets) = HeaderSize(code) - 3
  PROVE  Qualifier(code, octets).code = code /\ PointCount(Qualifier(code, octets)) \in Nat
<1> DEFINE width == FieldWidth[code]
           a == Cut(octets, 1, width)
           b == Cut(octets, width + 1, 2 * width)
           q == Qualifier(code, octets)
<1>1. HeaderSize(code) = Lengths[code] /\ Len(octets) \in Nat  BY HeaderSizes
<1>2. /\ width \in 0 .. 4
      /\ Len(octets) = (IF code \in {"Range8", "Range16"} THEN 2 ELSE 1) * width
      /\ code # "AllObjects" => width > 0
  BY <1>1 DEF FieldWidth, HeaderSize
<1>3. CutTyped(octets, 1, width) /\ CutTyped(octets, width + 1, 2 * width)  BY Cuts
<1>4. q = CASE code \in {"Range8", "Range16"} ->
                 [code |-> code, start |-> Unsigned(a), stop |-> Unsigned(b)]
            [] code = "Indexed32"  -> [code |-> code, index |-> Unsigned(a)]
            [] code = "AllObjects" -> [code |-> code]
            [] OTHER               -> [code |-> code, count |-> Unsigned(a)]
  BY DEF Qualifier, Cut
<1> HIDE DEF width, a, b, q
<1>5. code # "AllObjects" => Unsigned(a) \in Nat
  <2> SUFFICES ASSUME code # "AllObjects" PROVE Unsigned(a) \in Nat
    OBVIOUS
  <2>1. Within(octets, 1, width)  BY <1>2 DEF Within
  <2>2. a \in Seq(Octet) /\ Len(a) > 0  BY <1>2, <1>3, <2>1 DEF CutTyped, a
  <2> QED  BY <2>2, UnsignedType
<1>6. code \in {"Range8", "Range16"} => Unsigned(b) \in Nat
  <2> SUFFICES ASSUME code \in {"Range8", "Range16"} PROVE Unsigned(b) \in Nat
    OBVIOUS
  <2>1. Within(octets, width + 1, 2 * width) /\ 2 * width - (width + 1) + 1 > 0
    BY <1>2 DEF Within
  <2>2. b \in Seq(Octet) /\ Len(b) > 0  BY <1>3, <2>1 DEF CutTyped, b
  <2> QED  BY <2>2, UnsignedType
<1>7. CASE code \in {"Range8", "Range16"}
  <2>1. q = [code |-> code, start |-> Unsigned(a), stop |-> Unsigned(b)]  BY <1>4, <1>7
  <2>2. q.code = code /\ q.start \in Nat /\ q.stop \in Nat  BY <1>5, <1>6, <1>7, <2>1
  <2>3. PointCount(q) \in Nat  BY <1>7, <2>2 DEF PointCount, Range8Count, RangeLength
  <2> QED  BY <2>2, <2>3 DEF q
<1>8. CASE code = "Indexed32"
  BY <1>4, <1>8 DEF PointCount, q
<1>9. CASE code = "AllObjects"
  BY <1>4, <1>9 DEF PointCount, q
<1>10. CASE code \notin {"Range8", "Range16", "Indexed32", "AllObjects"}
  <2>1. q = [code |-> code, count |-> Unsigned(a)]  BY <1>4, <1>10
  <2>2. q.code = code /\ q.count \in Nat  BY <1>5, <1>10, <2>1
  <2>3. PointCount(q) = q.count  BY <1>10, <2>2 DEF PointCount
  <2> QED  BY <2>2, <2>3 DEF q
<1> QED  BY <1>7, <1>8, <1>9, <1>10

LEMMA HeaderWithin ==
  ASSUME NEW r \in Seq(Octet), Len(r) >= 3, NEW h \in DecodeHeader(r)
  PROVE  h.size \in 3 .. Len(r) /\ PointCount(h.qualifier) \in Nat
<1>1. PICK code \in QualifiersOf(r[3]) :
        /\ Len(r) >= HeaderSize(code)
        /\ h = [group |-> r[1], variation |-> r[2],
                qualifier |-> Qualifier(code, Cut(r, 4, HeaderSize(code))),
                size |-> HeaderSize(code)]
  BY DEF DecodeHeader, Cut
<1>2. code \in DOMAIN FieldWidth  BY QualifierNames
<1>3. HeaderSize(code) \in 3 .. 7  BY <1>2, HeaderSizes
<1> DEFINE n == HeaderSize(code)
           octets == Cut(r, 4, n)
<1>4. CutTyped(r, 4, n)  BY Cuts
<1>5. n \in 3 .. 7 /\ n <= Len(r) /\ n = HeaderSize(code)  BY <1>1, <1>3
<1>6. h.size = n /\ h.qualifier = Qualifier(code, octets)  BY <1>1
<1> HIDE DEF n
<1>7. Within(r, 4, n) /\ n - 4 + 1 = n - 3  BY <1>5 DEF Within
<1>8. octets \in Seq(Octet) /\ Len(octets) = n - 3  BY <1>4, <1>7 DEF CutTyped
<1> HIDE DEF octets
<1>9. PointCount(Qualifier(code, octets)) \in Nat  BY <1>2, <1>5, <1>8, CountOfQualifier
<1> QED  BY <1>5, <1>6, <1>9

LEMMA MinOfTwo ==
  ASSUME NEW a \in Nat, NEW b \in Nat
  PROVE  Min({a, b}) = IF a <= b THEN a ELSE b
<1> DEFINE m == IF a <= b THEN a ELSE b
<1>1. m \in {a, b} /\ \A y \in {a, b} : m <= y  OBVIOUS
<1>2. \A x \in {a, b} : (\A y \in {a, b} : x <= y) => x = m  OBVIOUS
<1> HIDE DEF m
<1>3. (CHOOSE x \in {a, b} : \A y \in {a, b} : x <= y) = m  BY <1>1, <1>2
<1> QED  BY <1>3 DEF Min, m

(* As many whole points as fit.                                             *)
LEMMA WholePoints ==
  ASSUME NEW count \in Nat, NEW n \in Nat, NEW size \in Nat, size > 0
  PROVE  LET whole == Min({count, n \div size})
         IN  /\ whole \in Nat /\ whole <= count
             /\ whole * size \in Nat /\ whole * size <= n
             /\ whole = count <=> count * size <= n
<1> DEFINE k == n \div size
           r == n % size
           whole == Min({count, k})
<1>0. k \in Int /\ r \in 0 .. size - 1 /\ n = size * k + r  BY App!DivMod
<1> HIDE DEF k, r
<1>1. k \in Nat
  <2> SUFFICES ASSUME k <= -1 PROVE FALSE
    BY <1>0
  <2>1. size * k <= -size  BY <1>0
  <2> QED  BY <1>0, <2>1
<1>2. whole = IF count <= k THEN count ELSE k  BY <1>1, MinOfTwo
<1>3. whole \in Nat /\ whole <= k /\ whole <= count  BY <1>1, <1>2
<1> HIDE DEF whole
<1>4. size * whole <= size * k /\ size * whole \in Nat /\ size * k \in Nat
  BY <1>1, <1>3, Monotone
<1>5. size * k <= n  BY <1>0, <1>4
<1>6. whole * size = size * whole  BY <1>3
<1>7. ASSUME count > k
      PROVE  count * size > n
  <2>1. size * (k + 1) <= size * count /\ size * (k + 1) \in Nat /\ size * count \in Nat
    BY <1>1, <1>7, Monotone
  <2>2. size * (k + 1) = size * k + size  BY <1>1
  <2>3. n < size * k + size  BY <1>0, <1>4
  <2> QED  BY <2>1, <2>2, <2>3
<1>8. count <= k => count * size <= n
  <2> SUFFICES ASSUME count <= k PROVE count * size <= n
    OBVIOUS
  <2>1. whole = count  BY <1>2
  <2> QED  BY <1>4, <1>5, <1>6, <2>1
<1>9. whole = count <=> count * size <= n
  <2>1. whole = count <=> count <= k  BY <1>1, <1>2
  <2>2. count * size \in Nat  OBVIOUS
  <2> QED  BY <1>1, <1>7, <1>8, <2>1, <2>2
<1> QED  BY <1>3, <1>4, <1>5, <1>6, <1>9 DEF whole, k

LEMMA SizeOfPoint ==
  ASSUME NEW group, NEW variation, NEW q
  PROVE  /\ PrefixSize(KindOf(group), q) \in {0, 2, 4}
         /\ ValueSize(group, variation) \in {0, 2, 4}
         /\ SuffixSize(group, variation) \in {0, 6}
<1>1. ValueSize(group, variation) \in {0, 2, 4}  BY DEF ValueSize
<1>2. SuffixSize(group, variation) \in {0, 6}  BY DEF SuffixSize
<1>3. PrefixSize(KindOf(group), q) \in {0, 2, 4}
  <2>1. CASE q.code = "CountAndPrefix32"  BY <2>1 DEF PrefixSize
  <2>2. CASE q.code = "CountAndPrefix16"  BY <2>2 DEF PrefixSize
  <2>3. CASE q.code \in {"Count8", "Count16"}  BY <2>3 DEF PrefixSize
  <2>4. CASE q.code \notin {"CountAndPrefix32", "CountAndPrefix16", "Count8", "Count16"}
    BY <2>4 DEF PrefixSize
  <2> QED  BY <2>1, <2>2, <2>3, <2>4
<1> QED  BY <1>1, <1>2, <1>3

(* What DecodePoints and DecodePackedPoints read.                           *)
PrefixOf(header) == PrefixSize(KindOf(header.group), header.qualifier)
ValueOf(header) == ValueSize(header.group, header.variation)
PointSize(header) ==
    PrefixOf(header) + 1 + ValueOf(header) + SuffixSize(header.group, header.variation)
WholeCount(header, rest) == Min({PointCount(header.qualifier), Len(rest) \div PointSize(header)})
DatumRead(header, rest, i) ==
    DatumIn(SubSeq(rest, (i - 1) * PointSize(header) + PrefixOf(header) + 1,
                   i * PointSize(header)), ValueOf(header))
IndexRead(header, rest, i) ==
    Unsigned(SubSeq(rest, (i - 1) * PointSize(header) + 1,
                    (i - 1) * PointSize(header) + PrefixOf(header)))
Fields(header, rest) ==
    IF PrefixOf(header) = 0
    THEN [i \in 1 .. WholeCount(header, rest) |-> DatumRead(header, rest, i)]
    ELSE [k \in 1 .. 2 * WholeCount(header, rest) |->
            IF k % 2 = 1 THEN IndexRead(header, rest, (k + 1) \div 2)
            ELSE DatumRead(header, rest, k \div 2)]
ListsRead(header, rest) ==
    Range(Decode(KindOf(header.group), header.qualifier, Fields(header, rest)))

SlotsOf(header) == IF header.group = 1 THEN 8 ELSE 4
Rows(header) == (PointCount(header.qualifier) + SlotsOf(header) - 1) \div SlotsOf(header)
PackedRead(header, rest) ==
    [o \in 1 .. Min({Rows(header), Len(rest)}) |->
        [s \in 1 .. SlotsOf(header) |-> PackedFlags(rest[o], s - 1, SlotsOf(header))]]

LEMMA PointsRead ==
  ASSUME NEW header, NEW rest
  PROVE  DecodePoints(header, rest) =
            {[points |-> list, size |-> WholeCount(header, rest) * PointSize(header)] :
                list \in ListsRead(header, rest)}
BY Zenon DEF DecodePoints, ListsRead, Fields, IndexRead, DatumRead, WholeCount, PointSize,
             ValueOf, PrefixOf

LEMMA PackedPointsRead ==
  ASSUME NEW header, NEW rest
  PROVE  DecodePackedPoints(header, rest) =
            {[points |-> list, size |-> Rows(header)] :
                list \in Range(DecodePacked(SlotsOf(header), header.qualifier,
                                            PackedRead(header, rest)))}
BY Zenon DEF DecodePackedPoints, PackedRead, Rows, SlotsOf

LEMMA PointSizeType ==
  ASSUME NEW header
  PROVE  PointSize(header) \in Nat /\ PointSize(header) > 0
<1> DEFINE prefix == PrefixOf(header)
           value == ValueOf(header)
           suffix == SuffixSize(header.group, header.variation)
<1>1. prefix \in {0, 2, 4} /\ value \in {0, 2, 4} /\ suffix \in {0, 6}
  BY SizeOfPoint, Zenon DEF PrefixOf, ValueOf
<1>2. PointSize(header) = prefix + 1 + value + suffix  BY DEF PointSize
<1> HIDE DEF prefix, value, suffix
<1> QED  BY <1>1, <1>2

LEMMA PointsWithin ==
  ASSUME NEW header, PointCount(header.qualifier) \in Nat, NEW rest \in Seq(Octet),
         NEW b \in DecodePoints(header, rest)
  PROVE  b.size \in 0 .. Len(rest)
<1> DEFINE count == PointCount(header.qualifier)
           size == PointSize(header)
           whole == WholeCount(header, rest)
<1>1. b.size = whole * size  BY PointsRead
<1>2. size \in Nat /\ size > 0  BY PointSizeType
<1>3. count \in Nat /\ Len(rest) \in Nat  OBVIOUS
<1>4. whole = Min({count, Len(rest) \div size})  BY DEF WholeCount
<1> HIDE DEF count, size, whole
<1>5. whole * size \in Nat /\ whole * size <= Len(rest)  BY <1>2, <1>3, <1>4, WholePoints
<1> QED  BY <1>1, <1>3, <1>5

LEMMA RowsNeeded ==
  ASSUME NEW S \in Nat, S > 0, NEW n \in Nat, NEW m \in Nat, m * S >= n
  PROVE  (n + S - 1) \div S \in Nat /\ (n + S - 1) \div S <= m
<1> DEFINE a == n + S - 1
           k == a \div S
           r == a % S
<1>1. a \in Nat  OBVIOUS
<1>2. a = S * k + r /\ k \in Int /\ r \in 0 .. S - 1  BY <1>1, App!DivMod
<1>3. k \in Nat  BY App!RowsSuffice
<1> HIDE DEF k, r
<1>4. S * k <= S * m + (S - 1)  BY <1>2
<1>5. ASSUME k >= m + 1 PROVE FALSE
  <2>1. S * (m + 1) <= S * k /\ S * k \in Nat /\ S * (m + 1) \in Nat  BY <1>3, <1>5, Monotone
  <2>2. S * (m + 1) = S * m + S  OBVIOUS
  <2> QED  BY <1>4, <2>1, <2>2
<1>6. k \in Nat /\ k <= m  BY <1>3, <1>5
<1> QED  BY <1>6 DEF k

LEMMA PackedWithin ==
  ASSUME NEW header, IsPacked(header), PointCount(header.qualifier) \in Nat,
         NEW rest \in Seq(Octet), NEW b \in DecodePackedPoints(header, rest)
  PROVE  b.size \in 0 .. Len(rest)
<1> DEFINE q == header.qualifier
           slots == SlotsOf(header)
           count == PointCount(q)
           size == Rows(header)
           there == Min({size, Len(rest)})
           octets == PackedRead(header, rest)
           result == DecodePacked(slots, q, octets)
<1>1. b.size = size /\ result # <<>>
  <2>1. PICK list \in Range(result) : b = [points |-> list, size |-> size]
    BY PackedPointsRead
  <2>2. Range(<<>>) = {}  BY DEF Range
  <2> QED  BY <2>1, <2>2
<1>2. slots \in Nat /\ slots > 0 /\ count \in Nat /\ Len(rest) \in Nat  BY DEF SlotsOf
<1>3. q.code \in {"Range8", "Range16"}  BY DEF IsPacked
<1> HIDE DEF slots, count, size
<1>4. size = (count + slots - 1) \div slots  BY DEF Rows, size, slots, count
<1>11. size \in Nat  BY <1>2, <1>4, App!RowsSuffice
<1>5. there = IF size <= Len(rest) THEN size ELSE Len(rest)  BY <1>2, <1>11, MinOfTwo
<1>12. octets = [o \in 1 .. there |-> [s \in 1 .. slots |-> PackedFlags(rest[o], s - 1, slots)]]
  BY DEF PackedRead, octets, slots, size
<1> HIDE DEF there, octets
<1>6. there \in Nat /\ there <= Len(rest)  BY <1>2, <1>11, <1>5
<1>7. Len(octets) = there  BY <1>6, <1>12
<1>8. there * slots >= count
  <2>1. CASE q.code = "Range8"
    <3>1. count = Range8Count(q)  BY <2>1 DEF PointCount, count
    <3>2. ~ (Len(octets) * slots < Range8Count(q))  BY <1>1, <2>1 DEF DecodePacked
    <3> QED  BY <1>2, <1>6, <1>7, <3>1, <3>2
  <2>2. CASE q.code = "Range16"
    <3>1. ~ (q.stop < q.start) /\ ~ (Len(octets) * slots < RangeLength(q.start, q.stop))
      BY <1>1, <2>2 DEF DecodePacked
    <3>2. count = RangeLength(q.start, q.stop)  BY <2>2, <3>1 DEF PointCount, count
    <3> QED  BY <1>2, <1>6, <1>7, <3>1, <3>2
  <2> QED  BY <1>3, <2>1, <2>2
<1>9. (count + slots - 1) \div slots <= there  BY <1>2, <1>6, <1>8, RowsNeeded
<1>10. size <= there  BY <1>4, <1>9
<1> QED  BY <1>1, <1>2, <1>6, <1>10, <1>11

LEMMA BodyWithin ==
  ASSUME NEW header, PointCount(header.qualifier) \in Nat, NEW rest \in Seq(Octet),
         NEW b \in DecodeObject(header, rest)
  PROVE  b.size \in 0 .. Len(rest)
<1> DEFINE q == header.qualifier
           lists == IF IsPacked(header) THEN DecodePackedPoints(header, rest)
                    ELSE DecodePoints(header, rest)
           points == {Sized(PointList(ListOf[header.group], list.points), list.size) :
                         list \in lists}
           time == IF HasCount(q) /\ PointCount(q) = 1 /\ Len(rest) >= 6
                   THEN {Sized(Time(SubSeq(rest, 1, 6)), 6)} ELSE {}
           scan == Sized(ClassScan(header.variation - 1), 0)
<1>0. Len(rest) \in Nat  OBVIOUS
<1>1. DecodeObject(header, rest) =
        CASE header.group = 0 -> DecodeGroup0(q, rest)
          [] header.group \in DOMAIN ListOf -> points
          [] header.group = 50 /\ header.variation = 1 -> time
          [] header.group = 60 /\ header.variation = 1 -> {Sized(IntegrityPoll, 0)}
          [] header.group = 60 /\ header.variation \in 2 .. 4 -> {scan}
          [] OTHER -> {}
  BY DEF DecodeObject
<1>2. DOMAIN ListOf = {1, 2, 3, 4, 10, 20, 21, 22, 30, 32, 40, 42}  BY DEF ListOf
<1>3. b \in points => b.size \in 0 .. Len(rest)
  <2> SUFFICES ASSUME b \in points PROVE b.size \in 0 .. Len(rest)
    OBVIOUS
  <2>1. PICK list \in lists : b = Sized(PointList(ListOf[header.group], list.points), list.size)
    OBVIOUS
  <2>2. b.size = list.size  BY <2>1 DEF Sized
  <2>3. CASE IsPacked(header)
    <3>1. list \in DecodePackedPoints(header, rest)  BY <2>3
    <3> QED  BY <2>2, <2>3, <3>1, PackedWithin
  <2>4. CASE ~ IsPacked(header)
    <3>1. list \in DecodePoints(header, rest)  BY <2>4
    <3> QED  BY <2>2, <3>1, PointsWithin
  <2> QED  BY <2>3, <2>4
<1>4. b \in time => b.size \in 0 .. Len(rest)  BY <1>0 DEF Sized
<1>5. b = scan \/ b = Sized(IntegrityPoll, 0) => b.size \in 0 .. Len(rest)  BY <1>0 DEF Sized
<1>6. b \in DecodeGroup0(q, rest) => b.size \in 0 .. Len(rest)
  <2> SUFFICES ASSUME b \in DecodeGroup0(q, rest) PROVE b.size \in 0 .. Len(rest)
    OBVIOUS
  <2>1. ~ (Len(rest) < PointCount(q)) /\ b.size = PointCount(q)  BY DEF DecodeGroup0, Sized
  <2> QED  BY <1>0, <2>1
<1> HIDE DEF points, time, scan, q
<1>7. b \in DecodeGroup0(q, rest) \/ b \in points \/ b \in time
      \/ b = Sized(IntegrityPoll, 0) \/ b = scan
  <2>1. CASE header.group = 0  BY <1>1, <2>1
  <2>2. CASE header.group \in DOMAIN ListOf
    <3>1. header.group # 0  BY <1>2, <2>2
    <3> QED  BY <1>1, <1>2, <2>2, <3>1
  <2>3. CASE header.group = 50 /\ header.variation = 1  BY <1>1, <1>2, <2>3
  <2>4. CASE header.group = 60 /\ header.variation = 1  BY <1>1, <1>2, <2>4
  <2>5. CASE header.group = 60 /\ header.variation \in 2 .. 4  BY <1>1, <1>2, <2>5
  <2>6. CASE ~ (\/ header.group = 0 \/ header.group \in DOMAIN ListOf
                \/ header.group = 50 /\ header.variation = 1
                \/ header.group = 60 /\ header.variation = 1
                \/ header.group = 60 /\ header.variation \in 2 .. 4)
    BY <1>1, <2>6
  <2> QED  BY <2>1, <2>2, <2>3, <2>4, <2>5, <2>6
<1> QED  BY <1>3, <1>4, <1>5, <1>6, <1>7

LEMMA ObjectWithin ==
  ASSUME NEW o \in Seq(Octet), NEW at \in Nat, at > 0, at + 2 <= Len(o),
         NEW next \in ObjectAt(o, at)
  PROVE  next.behind \in at + 3 .. Len(o) + 1
<1>1. PICK header \in DecodeHeader(Rest(o, at)) :
        \E body \in DecodeObject(header, Rest(o, at + header.size)) :
            next = [object |-> body.object, behind |-> at + header.size + body.size]
  BY DEF ObjectAt
<1>2. PICK body \in DecodeObject(header, Rest(o, at + header.size)) :
        next = [object |-> body.object, behind |-> at + header.size + body.size]
  BY <1>1
<1> DEFINE n == Len(o)
           r == Rest(o, at)
           behind == at + header.size
           s == Rest(o, behind)
<1>3. n \in Nat /\ at \in 1 .. n + 1 /\ n = Len(o)  OBVIOUS
<1>4. RestTyped(o, at) /\ RestTyped(o, behind)  BY RestIsTyped
<1>5. r \in Seq(Octet) /\ Len(r) = n - at + 1  BY <1>3, <1>4 DEF RestTyped
<1>6. Len(r) >= 3  BY <1>3, <1>5
<1>7. header \in DecodeHeader(r)  OBVIOUS
<1> HIDE DEF r, n
<1>8. header.size \in 3 .. Len(r) /\ PointCount(header.qualifier) \in Nat
  BY <1>5, <1>6, <1>7, HeaderWithin
<1>9. behind \in at + 3 .. n + 1  BY <1>3, <1>5, <1>8
<1> HIDE DEF behind
<1>10. behind \in 1 .. n + 1 /\ behind \in Nat  BY <1>3, <1>9
<1>11. s \in Seq(Octet) /\ Len(s) = n - behind + 1  BY <1>3, <1>4, <1>10 DEF RestTyped
<1>12. body \in DecodeObject(header, s)  BY DEF behind
<1> HIDE DEF s
<1>13. body.size \in 0 .. Len(s)  BY <1>8, <1>11, <1>12, BodyWithin
<1>14. next.behind = behind + body.size  BY <1>2 DEF behind
<1>15. next.behind \in at + 3 .. n + 1  BY <1>3, <1>9, <1>11, <1>13, <1>14
<1> QED  BY <1>3, <1>15

-----------------------------------------------------------------------------
(* What DecodeObjects finds at each place.                                  *)
FoundAt(o, after, f, at) ==
    IF after[at] + 2 > Len(o) THEN { <<>> }
    ELSE UNION {{<<next.object>> \o more : more \in f[next.behind]} :
                next \in ObjectAt(o, after[at])}

Parses(o, f) ==
    \A at \in 1 .. Len(o) + 1 : f[at] = FoundAt(o, AfterPadding(o), f, at)

LEMMA AfterPaddingType ==
  ASSUME NEW o \in Seq(Octet), NEW at \in 1 .. Len(o) + 1
  PROVE  AfterPadding(o)[at] \in at .. Len(o) + 1
<1> DEFINE n == Len(o) + 1
           f == AfterPadding(o)
           P(a) == f[a] \in a .. n
           T == {d \in Nat : \A a \in 1 .. n : n - a < d => P(a)}
<1>1. n \in Nat /\ n = Len(o) + 1  OBVIOUS
<1>2. IsAfter(o, f)  BY AfterPaddingIs
<1>3. 0 \in T
  <2>1. \A a \in 1 .. n : ~ (n - a < 0)  BY <1>1
  <2> QED  BY <2>1
<1> HIDE DEF f
<1>4. ASSUME NEW d \in Nat, d \in T
      PROVE  d + 1 \in T
  <2> SUFFICES ASSUME NEW a \in 1 .. n, n - a < d + 1 PROVE P(a)
    OBVIOUS
  <2>1. f[a] = IF IsPadding(o, a) THEN f[a + 4] ELSE a  BY <1>1, <1>2 DEF IsAfter
  <2>2. CASE IsPadding(o, a)
    <3>1. a + 4 \in 1 .. n /\ n - (a + 4) < d  BY <1>1, <2>2, PaddingWithin
    <3>2. f[a + 4] \in a + 4 .. n  BY <1>4, <3>1
    <3> QED  BY <1>1, <2>1, <2>2, <3>2
  <2>3. CASE ~ IsPadding(o, a)  BY <1>1, <2>1, <2>3
  <2> QED  BY <2>2, <2>3
<1> HIDE DEF T
<1>5. Nat \subseteq T  BY <1>3, <1>4, SetInduction
<1>6. n \in T /\ n - at < n  BY <1>1, <1>5
<1>7. P(at)  BY <1>1, <1>6 DEF T
<1> QED  BY <1>1, <1>7 DEF f

LEMMA ParseExists ==
  ASSUME NEW o \in Seq(Octet)
  PROVE  \E f : Parses(o, f) /\ DecodeObjects(o) = f[1]
<1> DEFINE n == Len(o) + 1
           after == AfterPadding(o)
           S == {next.object : next \in UNION {ObjectAt(o, at) : at \in 1 .. n}}
           V == SUBSET Seq(S)
           step == [at \in 1 .. n |-> [f \in [1 .. n -> V] |-> FoundAt(o, after, f, at)]]
           objects[at \in 1 .. Len(o) + 1] ==
               IF after[at] + 2 > Len(o) THEN { <<>> }
               ELSE UNION {{<<next.object>> \o more : more \in objects[next.behind]} :
                           next \in ObjectAt(o, after[at])}
<1>1. n \in Nat /\ n = Len(o) + 1  OBVIOUS
<1>2. DecodeObjects(o) = objects[1]  BY Zenon DEF DecodeObjects
<1>3. \A at \in 1 .. n : after[at] \in at .. n  BY AfterPaddingType
<1>4. ASSUME NEW at \in 1 .. n, ~ (after[at] + 2 > Len(o)), NEW next \in ObjectAt(o, after[at])
      PROVE  next.behind \in at + 1 .. n /\ next.object \in S
  <2> DEFINE a == after[at]
  <2>1. a \in at .. n  BY <1>3
  <2> HIDE DEF after
  <2>2. a \in Nat /\ a > 0 /\ a + 2 <= Len(o)  BY <1>1, <1>4, <2>1
  <2>3. next \in ObjectAt(o, a)  OBVIOUS
  <2> HIDE DEF a
  <2>4. next.behind \in a + 3 .. Len(o) + 1  BY <2>2, <2>3, ObjectWithin
  <2>5. next.behind \in at + 1 .. n  BY <1>1, <2>1, <2>4
  <2>6. a \in 1 .. n  BY <1>1, <2>1
  <2>7. next.object \in S  BY <2>3, <2>6
  <2> QED  BY <2>5, <2>7
<1> HIDE DEF n, after, S
<1>5. ASSUME NEW at \in 1 .. n, NEW f \in [1 .. n -> V]
      PROVE  FoundAt(o, after, f, at) \in V
  <2> SUFFICES ASSUME NEW x \in FoundAt(o, after, f, at) PROVE x \in Seq(S)
    OBVIOUS
  <2>1. CASE after[at] + 2 > Len(o)
    <3>1. x = <<>>  BY <2>1 DEF FoundAt
    <3> QED  BY <3>1
  <2>2. CASE ~ (after[at] + 2 > Len(o))
    <3>1. PICK next \in ObjectAt(o, after[at]) :
            \E more \in f[next.behind] : x = <<next.object>> \o more
      BY <2>2 DEF FoundAt
    <3>2. next.behind \in at + 1 .. n /\ next.object \in S  BY <1>4, <2>2
    <3>3. next.behind \in 1 .. n  BY <1>1, <3>2
    <3>4. PICK more \in f[next.behind] : x = <<next.object>> \o more  BY <3>1
    <3>5. more \in Seq(S) /\ <<next.object>> \in Seq(S)  BY <3>2, <3>3, <3>4
    <3> QED  BY <3>4, <3>5, ConcatProperties
  <2> QED  BY <2>1, <2>2
<1>6. step \in [1 .. n -> [[1 .. n -> V] -> V]]  BY <1>5
<1>7. \A at \in 1 .. n : \A f \in [1 .. n -> V] : step[at][f] = FoundAt(o, after, f, at)
  OBVIOUS
<1> HIDE DEF step
<1>8. LooksBehind(n, V, step)
  <2> SUFFICES ASSUME NEW at \in 1 .. n, NEW f \in [1 .. n -> V], NEW g \in [1 .. n -> V],
                      \A k \in at + 1 .. n : f[k] = g[k]
               PROVE  step[at][f] = step[at][g]
    BY DEF LooksBehind
  <2>1. FoundAt(o, after, f, at) = FoundAt(o, after, g, at)
    <3>1. CASE after[at] + 2 > Len(o)  BY <3>1 DEF FoundAt
    <3>2. CASE ~ (after[at] + 2 > Len(o))
      <4>1. \A next \in ObjectAt(o, after[at]) : f[next.behind] = g[next.behind]
        BY <1>4, <3>2
      <4>2. {{<<next.object>> \o more : more \in f[next.behind]} :
                  next \in ObjectAt(o, after[at])}
            = {{<<next.object>> \o more : more \in g[next.behind]} :
                  next \in ObjectAt(o, after[at])}
        BY <4>1
      <4> QED  BY <3>2, <4>2 DEF FoundAt
    <3> QED  BY <3>1, <3>2
  <2> QED  BY <1>7, <2>1
<1>9. {} \in V  OBVIOUS
<1> HIDE DEF V
<1>10. PICK f \in [1 .. n -> V] : Backwards(f, n, step)
  BY <1>1, <1>6, <1>8, <1>9, BackwardsExists DEF n
<1>11. \A at \in 1 .. n : f[at] = FoundAt(o, after, f, at)
  BY <1>7, <1>10 DEF Backwards
<1>12. f = [at \in 1 .. Len(o) + 1 |->
              IF after[at] + 2 > Len(o) THEN { <<>> }
              ELSE UNION {{<<next.object>> \o more : more \in f[next.behind]} :
                          next \in ObjectAt(o, after[at])}]
  BY <1>1, <1>11 DEF FoundAt, n
<1>13. objects = [at \in 1 .. Len(o) + 1 |->
              IF after[at] + 2 > Len(o) THEN { <<>> }
              ELSE UNION {{<<next.object>> \o more : more \in objects[next.behind]} :
                          next \in ObjectAt(o, after[at])}]
  BY <1>12, Zenon
<1> HIDE DEF objects
<1>14. \A at \in 1 .. Len(o) + 1 : objects[at] = FoundAt(o, after, objects, at)
  BY <1>13 DEF FoundAt
<1>15. Parses(o, objects)  BY <1>14 DEF Parses, after
<1> QED  BY <1>2, <1>15

-----------------------------------------------------------------------------
(* An object on the wire: a header that says what the body is, and a body,  *)
(* which are read as `object` unless they are cut off or `bad`.             *)
Starts(r, w) == \A i \in 1 .. Len(w) : i <= Len(r) => r[i] = w[i]

IsHeader(octets, header) ==
    /\ octets \in Seq(Octet) /\ Len(octets) >= 3 /\ octets[1] # 0
    /\ header.size = Len(octets)
    /\ \A r \in Seq(Octet) : (Len(r) >= 3 /\ Starts(r, octets)) =>
          DecodeHeader(r) = IF Len(r) < Len(octets) THEN {} ELSE {header}

IsBody(header, octets, object, bad) ==
    /\ octets \in Seq(Octet)
    /\ \A r \in Seq(Octet) : Starts(r, octets) =>
          DecodeObject(header, r) = IF bad \/ Len(r) < Len(octets) THEN {}
                                    ELSE {Sized(object, Len(octets))}

IsObject(octets, object, bad) ==
    \E first, second, header :
        /\ octets = Cat(first, second)
        /\ IsHeader(first, header) /\ IsBody(header, second, object, bad)

StandsAt(o, at, w) == \A i \in 1 .. Len(w) : at + i - 1 <= Len(o) => o[at + i - 1] = w[i]

LEMMA ObjectOctets ==
  ASSUME NEW w, NEW x, NEW bad, IsObject(w, x, bad)
  PROVE  w \in Seq(Octet) /\ Len(w) \in Nat /\ Len(w) >= 3 /\ w[1] # 0
<1>1. PICK a, b, h : w = Cat(a, b) /\ IsHeader(a, h) /\ IsBody(h, b, x, bad)
  BY DEF IsObject
<1>2. a \in Seq(Octet) /\ b \in Seq(Octet) /\ Len(a) >= 3 /\ a[1] # 0
  BY <1>1 DEF IsHeader, IsBody
<1>3. CatTyped(a, b) /\ CatAt(a, b, 1)  BY Cats
<1>4. w \in Seq(Octet) /\ Len(w) = Len(a) + Len(b)  BY <1>1, <1>2, <1>3 DEF CatTyped
<1>5. Len(a) \in Nat /\ Len(b) \in Nat  BY <1>2
<1>6. 1 \in 1 .. Len(a) + Len(b) /\ 1 <= Len(a)  BY <1>2, <1>5
<1>7. w[1] = a[1]  BY <1>1, <1>2, <1>3, <1>6 DEF CatAt
<1> QED  BY <1>2, <1>4, <1>5, <1>7

OneObject(x, bad, behind) == IF bad THEN {} ELSE {[object |-> x, behind |-> behind]}

LEMMA ObjectFound ==
  ASSUME NEW o \in Seq(Octet), NEW at \in Nat, at > 0, at + 2 <= Len(o),
         NEW w, NEW x, NEW bad \in BOOLEAN, IsObject(w, x, bad), StandsAt(o, at, w)
  PROVE  ObjectAt(o, at) =
            OneObject(x, bad \/ at + Len(w) > Len(o) + 1, at + Len(w))
<1>1. PICK a, b, h : w = Cat(a, b) /\ IsHeader(a, h) /\ IsBody(h, b, x, bad)
  BY DEF IsObject
<1>2. /\ a \in Seq(Octet) /\ b \in Seq(Octet) /\ Len(a) >= 3
      /\ Len(a) \in Nat /\ Len(b) \in Nat
  BY <1>1 DEF IsHeader, IsBody
<1>3. CatTyped(a, b) /\ \A i : CatAt(a, b, i)  BY Cats
<1>4. Len(w) = Len(a) + Len(b)  BY <1>1, <1>2, <1>3 DEF CatTyped
<1>5. \A i \in 1 .. Len(a) + Len(b) : w[i] = IF i <= Len(a) THEN a[i] ELSE b[i - Len(a)]
  BY <1>1, <1>2, <1>3 DEF CatAt
<1> DEFINE n == Len(o)
           r == Rest(o, at)
           middle == at + Len(a)
           s == Rest(o, middle)
<1>6. n \in Nat /\ n = Len(o) /\ at \in 1 .. n + 1  OBVIOUS
<1>7. RestTyped(o, at) /\ RestTyped(o, middle)  BY RestIsTyped
<1>8. ObjectAt(o, at) =
        UNION {{[object |-> body.object, behind |-> at + header.size + body.size] :
                   body \in DecodeObject(header, Rest(o, at + header.size))} :
               header \in DecodeHeader(r)}
  BY DEF ObjectAt
<1> HIDE DEF n, r
<1>9. /\ r \in Seq(Octet) /\ Len(r) = n - at + 1
      /\ \A i \in 1 .. n - at + 1 : r[i] = o[at + i - 1]
  BY <1>6, <1>7 DEF RestTyped, r
<1>10. \A i \in 1 .. Len(w) : at + i - 1 <= n => o[at + i - 1] = w[i]
  BY <1>6 DEF StandsAt
<1>11. Starts(r, a)
  <2> SUFFICES ASSUME NEW i \in 1 .. Len(a), i <= Len(r) PROVE r[i] = a[i]
    BY DEF Starts
  <2> DEFINE k == at + i - 1
  <2>1. i \in 1 .. n - at + 1 /\ i \in 1 .. Len(a) + Len(b) /\ i <= Len(a) /\ k <= n
    BY <1>2, <1>6, <1>9
  <2>2. i \in 1 .. Len(w)  BY <1>4, <2>1
  <2>3. r[i] = o[k] /\ (k <= n => o[k] = w[i])  BY <1>9, <1>10, <2>1, <2>2
  <2> HIDE DEF k
  <2>4. w[i] = a[i]  BY <1>5, <2>1
  <2> QED  BY <2>1, <2>3, <2>4
<1>12. DecodeHeader(r) = IF Len(r) < Len(a) THEN {} ELSE {h}
  <2>1. Len(r) >= 3  BY <1>6, <1>9
  <2> QED  BY <1>1, <1>9, <1>11, <2>1 DEF IsHeader
<1>13. CASE Len(r) < Len(a)
  <2>1. ObjectAt(o, at) = {}  BY <1>8, <1>12, <1>13
  <2>2. at + Len(w) > n + 1  BY <1>2, <1>4, <1>6, <1>9, <1>13
  <2> QED  BY <1>6, <2>1, <2>2 DEF OneObject
<1>14. CASE ~ (Len(r) < Len(a))
  <2>1. h.size = Len(a)  BY <1>1 DEF IsHeader
  <2>2. ObjectAt(o, at) = {[object |-> body.object, behind |-> middle + body.size] :
                              body \in DecodeObject(h, s)}
    <3> DEFINE Found(header) ==
                 {[object |-> body.object, behind |-> at + header.size + body.size] :
                     body \in DecodeObject(header, Rest(o, at + header.size))}
    <3>1. DecodeHeader(r) = {h}  BY <1>12, <1>14
    <3>2. ObjectAt(o, at) = UNION {Found(header) : header \in {h}}  BY <1>8, <3>1
    <3> HIDE DEF Found
    <3>3. ObjectAt(o, at) = Found(h)  BY <3>2
    <3> QED  BY <2>1, <3>3 DEF Found
  <2> HIDE DEF middle, s
  <2>3. middle = at + Len(a) /\ middle \in 1 .. n + 1
    BY <1>2, <1>6, <1>9, <1>14 DEF middle
  <2>4. /\ s \in Seq(Octet) /\ Len(s) = n - middle + 1
        /\ \A i \in 1 .. n - middle + 1 : s[i] = o[middle + i - 1]
    BY <1>6, <1>7, <2>3 DEF RestTyped, s
  <2>5. Starts(s, b)
    <3> SUFFICES ASSUME NEW i \in 1 .. Len(b), i <= Len(s) PROVE s[i] = b[i]
      BY DEF Starts
    <3> DEFINE j == Len(a) + i
               k == at + j - 1
    <3>1. i \in 1 .. n - middle + 1 /\ j \in 1 .. Len(a) + Len(b) /\ ~ (j <= Len(a))
          /\ j - Len(a) = i /\ middle + i - 1 = k /\ k <= n
      BY <1>2, <1>6, <2>3, <2>4
    <3>2. w[j] = b[i]  BY <1>5, <3>1
    <3>3. j \in 1 .. Len(w)  BY <1>4, <3>1
    <3>4. s[i] = o[middle + i - 1]  BY <2>4, <3>1
    <3>5. k <= n => o[k] = w[j]  BY <1>10, <3>3
    <3> HIDE DEF k, j
    <3> QED  BY <3>1, <3>2, <3>4, <3>5
  <2>6. DecodeObject(h, s) = IF bad \/ Len(s) < Len(b) THEN {} ELSE {Sized(x, Len(b))}
    BY <1>1, <2>4, <2>5 DEF IsBody
  <2>7. Len(s) < Len(b) <=> at + Len(w) > n + 1
    BY <1>2, <1>4, <1>6, <2>3, <2>4, SMTT(20)
  <2>8. CASE bad \/ Len(s) < Len(b)  BY <1>6, <2>2, <2>6, <2>7, <2>8 DEF OneObject
  <2>9. CASE ~ (bad \/ Len(s) < Len(b))
    <3>1. ObjectAt(o, at) = {[object |-> x, behind |-> middle + Len(b)]}
      BY <2>2, <2>6, <2>9 DEF Sized
    <3>2. middle + Len(b) = at + Len(w)  BY <1>2, <1>4, <2>3
    <3> QED  BY <1>6, <2>7, <2>9, <3>1, <3>2 DEF OneObject
  <2> QED  BY <2>8, <2>9
<1> QED  BY <1>13, <1>14

-----------------------------------------------------------------------------
(* Where the things that are put one after another stand.                   *)
Place(wire, i) == Len(Before(wire, i))

LEMMA Places ==
  ASSUME NEW wire \in Seq(Seq(Octet)), NEW i \in 1 .. Len(wire)
  PROVE  /\ Place(wire, i - 1) \in Nat /\ wire[i] \in Seq(Octet)
         /\ Place(wire, i) = Place(wire, i - 1) + Len(wire[i])
         /\ FlattenSeq(wire) \in Seq(Octet)
         /\ Place(wire, i) <= Len(FlattenSeq(wire))
         /\ \A j \in 1 .. Len(wire[i]) : FlattenSeq(wire)[Place(wire, i - 1) + j] = wire[i][j]
<1> DEFINE a == Before(wire, i - 1)
           x == wire[i]
           t == FlattenSeq(wire)
<1>1. /\ a \in Seq(Octet) /\ x \in Seq(Octet) /\ Before(wire, i) = Cat(a, x)
  BY BeforeNext DEF Cat
<1>2. PICK b \in Seq(Octet) : t = Cat(a, Cat(x, b))  BY Placed DEF Cat
<1> DEFINE y == Cat(x, b)
<1>3. CatTyped(a, x) /\ CatTyped(x, b) /\ CatTyped(a, y)
      /\ \A j : CatAt(x, b, j) /\ CatAt(a, y, j)
  BY Cats
<1>4. Place(wire, i - 1) = Len(a) /\ Place(wire, i) = Len(Cat(a, x))  BY <1>1 DEF Place
<1>5. t = Cat(a, y)  BY <1>2
<1>6. y \in Seq(Octet) /\ Len(y) = Len(x) + Len(b)  BY <1>1, <1>3 DEF CatTyped
<1> HIDE DEF a, x, t, y
<1>7. Len(a) \in Nat /\ Len(x) \in Nat /\ Len(b) \in Nat  BY <1>1
<1>8. t \in Seq(Octet) /\ Len(t) = Len(a) + Len(x) + Len(b) /\ Len(Cat(a, x)) = Len(a) + Len(x)
  BY <1>1, <1>3, <1>5, <1>6, <1>7 DEF CatTyped
<1>9. ASSUME NEW j \in 1 .. Len(x)
      PROVE  t[Len(a) + j] = x[j]
  <2> DEFINE k == Len(a) + j
  <2>1. k \in 1 .. Len(a) + Len(y) /\ ~ (k <= Len(a)) /\ k - Len(a) = j
        /\ j \in 1 .. Len(x) + Len(b) /\ j <= Len(x)
    BY <1>6, <1>7
  <2> HIDE DEF k
  <2>2. t[k] = y[j]  BY <1>1, <1>3, <1>5, <1>6, <2>1 DEF CatAt
  <2>3. Cat(x, b)[j] = x[j]  BY <1>1, <1>3, <2>1 DEF CatAt
  <2> QED  BY <2>2, <2>3 DEF k, y
<1>10. \A j \in 1 .. Len(x) : t[Place(wire, i - 1) + j] = x[j]  BY <1>4, <1>9, Zenon
<1>11. /\ Place(wire, i - 1) \in Nat /\ Place(wire, i) = Place(wire, i - 1) + Len(x)
       /\ Place(wire, i) <= Len(t)
  <2> DEFINE p == Place(wire, i - 1)
             q == Place(wire, i)
             la == Len(a)
             lx == Len(x)
             lb == Len(b)
             lt == Len(t)
  <2>1. p = la /\ q = la + lx /\ la \in Nat /\ lx \in Nat /\ lb \in Nat /\ lt = la + lx + lb
    BY <1>4, <1>7, <1>8
  <2> HIDE DEF p, q, la, lx, lb, lt
  <2>2. p \in Nat /\ q = p + lx /\ q <= lt  BY <2>1
  <2> QED  BY <2>2 DEF p, q, lx, lt
<1> QED  BY <1>1, <1>8, <1>10, <1>11 DEF x, t

LEMMA FirstPlace ==
  ASSUME NEW wire
  PROVE  Place(wire, 0) = 0
BY BeforeNone DEF Place

LEMMA LastPlace ==
  ASSUME NEW wire \in Seq(Seq(Octet))
  PROVE  /\ Place(wire, Len(wire)) = Len(FlattenSeq(wire))
         /\ FlattenSeq(wire) \in Seq(Octet)
BY BeforeAll, FlattenType DEF Place

(* Runs of four zeros are left behind.                                      *)
ZerosStand(o, at, runs) ==
    /\ at + 4 * runs <= Len(o) + 1
    /\ \A i \in 0 .. 4 * runs - 1 : o[at + i] = 0
    /\ ~ IsPadding(o, at + 4 * runs)

LEMMA FourZeros ==
  ASSUME NEW o \in Seq(Octet), NEW at \in Nat, at > 0, at + 3 <= Len(o),
         o[at] = 0, o[at + 1] = 0, o[at + 2] = 0, o[at + 3] = 0
  PROVE  IsPadding(o, at)
<1> DEFINE c == Cut(o, at, at + 3)
           last == at + 3
           zeros == <<0, 0, 0, 0>>
<1>1. CutTyped(o, at, last)  BY Cuts
<1>2. Within(o, at, last) /\ last - at + 1 = 4  BY DEF Within
<1>3. c \in Seq(Octet) /\ Len(c) = 4 /\ \A i \in 1 .. 4 : c[i] = o[at + i - 1]
  BY <1>1, <1>2 DEF CutTyped
<1> HIDE DEF c
<1>4. at + 1 - 1 = at /\ at + 2 - 1 = at + 1 /\ at + 3 - 1 = at + 2 /\ at + 4 - 1 = at + 3
  OBVIOUS
<1>5. c[1] = 0 /\ c[2] = 0 /\ c[3] = 0 /\ c[4] = 0  BY <1>3, <1>4
<1>6. Len(zeros) = 4 /\ zeros[1] = 0 /\ zeros[2] = 0 /\ zeros[3] = 0 /\ zeros[4] = 0
  OBVIOUS
<1>7. zeros \in Seq(Octet)
  <2>1. 0 \in Octet  BY OctetRange
  <2> QED  BY <2>1
<1> HIDE DEF zeros
<1>8. \A i \in 1 .. 4 : c[i] = zeros[i]  BY <1>5, <1>6
<1>9. c = zeros  BY <1>3, <1>6, <1>7, <1>8, SeqEqual
<1> QED  BY <1>9 DEF IsPadding, c, Cut, zeros

LEMMA ZerosSkipped ==
  ASSUME NEW o \in Seq(Octet), NEW runs \in Nat, NEW at \in 1 .. Len(o) + 1,
         ZerosStand(o, at, runs)
  PROVE  AfterPadding(o)[at] = at + 4 * runs
<1> DEFINE n == Len(o) + 1
           f == AfterPadding(o)
           T == {d \in Nat : \A a \in 1 .. n : ZerosStand(o, a, d) => f[a] = a + 4 * d}
<1>1. n \in Nat /\ n = Len(o) + 1  OBVIOUS
<1>2. IsAfter(o, f)  BY AfterPaddingIs
<1> HIDE DEF f
<1>3. \A a \in 1 .. n : f[a] = IF IsPadding(o, a) THEN f[a + 4] ELSE a
  BY <1>1, <1>2 DEF IsAfter
<1>4. 0 \in T
  <2>1. \A a \in 1 .. n : a + 4 * 0 = a  BY <1>1
  <2> QED  BY <1>3, <2>1 DEF ZerosStand
<1>5. ASSUME NEW d \in Nat, d \in T
      PROVE  d + 1 \in T
  <2> SUFFICES ASSUME NEW a \in 1 .. n, ZerosStand(o, a, d + 1)
               PROVE  f[a] = a + 4 * (d + 1)
    OBVIOUS
  <2> DEFINE b == a + 4
  <2>1. b + 4 * d = a + 4 * (d + 1) /\ a + 4 * (d + 1) <= n /\ 4 * (d + 1) - 1 >= 4 * d + 3
    BY <1>1 DEF ZerosStand
  <2>2. b \in 1 .. n  BY <1>1, <2>1
  <2>3. \A i \in 0 .. 4 * d + 3 : o[a + i] = 0  BY DEF ZerosStand
  <2>4. o[a + 0] = 0 /\ o[a + 1] = 0 /\ o[a + 2] = 0 /\ o[a + 3] = 0
    <3>1. 0 \in 0 .. 4 * d + 3 /\ 1 \in 0 .. 4 * d + 3 /\ 2 \in 0 .. 4 * d + 3
          /\ 3 \in 0 .. 4 * d + 3
      OBVIOUS
    <3> QED  BY <2>3, <3>1
  <2>5. a + 0 = a /\ a \in Nat /\ a > 0 /\ a + 3 <= Len(o)  BY <1>1, <2>1
  <2>6. IsPadding(o, a)  BY <2>4, <2>5, FourZeros
  <2>7. f[a] = f[b]  BY <1>3, <2>6
  <2>8. ZerosStand(o, b, d)
    <3>1. ASSUME NEW i \in 0 .. 4 * d - 1 PROVE o[b + i] = 0
      <4>1. i + 4 \in 0 .. 4 * d + 3 /\ a + (i + 4) = b + i  BY <1>1
      <4>2. o[a + (i + 4)] = 0  BY <2>3, <4>1
      <4> QED  BY <4>1, <4>2
    <3>2. ~ IsPadding(o, b + 4 * d)  BY <2>1 DEF ZerosStand
    <3>3. b + 4 * d <= Len(o) + 1  BY <1>1, <2>1
    <3> HIDE DEF b
    <3> QED  BY <3>1, <3>2, <3>3 DEF ZerosStand
  <2> HIDE DEF b
  <2>9. f[b] = b + 4 * d  BY <1>5, <2>2, <2>8
  <2> QED  BY <2>1, <2>7, <2>9
<1> HIDE DEF T
<1>6. Nat \subseteq T  BY <1>4, <1>5, SetInduction
<1>7. runs \in T  BY <1>6
<1> QED  BY <1>1, <1>7 DEF T, f

LEMMA PaddingIsZero ==
  ASSUME NEW o \in Seq(Octet), NEW at \in Nat, at > 0, IsPadding(o, at)
  PROVE  o[at] = 0
<1> DEFINE last == at + 3
           c == Cut(o, at, last)
<1>1. last <= Len(o) /\ c = <<0, 0, 0, 0>>  BY DEF IsPadding, Cut
<1>2. CutTyped(o, at, last)  BY Cuts
<1>3. Within(o, at, last) /\ last - at + 1 = 4  BY <1>1 DEF Within
<1> HIDE DEF c, last
<1>4. \A i \in 1 .. 4 : c[i] = o[at + i - 1]  BY <1>2, <1>3 DEF CutTyped, c
<1>5. c[1] = o[at]
  <2>1. c[1] = o[at + 1 - 1] /\ at + 1 - 1 = at  BY <1>4
  <2> QED  BY <2>1
<1> QED  BY <1>1, <1>5

-----------------------------------------------------------------------------
(* Objects one after the other, each with some runs of four zeros behind.   *)
AreObjects(ws, xs, bad, n) ==
    \A i \in 1 .. n : IsObject(ws[i], xs[i], bad[i]) /\ bad[i] \in BOOLEAN

Stream(ws, runs, n) == [i \in 1 .. n |-> Cat(ws[i], Zeros(runs))]

LEMMA ZerosType ==
  ASSUME NEW runs \in Nat
  PROVE  /\ Zeros(runs) \in Seq(Octet) /\ Len(Zeros(runs)) = 4 * runs
         /\ \A i \in 1 .. 4 * runs : Zeros(runs)[i] = 0
<1>1. 0 \in Octet  BY OctetRange
<1>2. 4 * runs \in Nat  OBVIOUS
<1> QED  BY <1>1, <1>2 DEF Zeros

(* Object i stands behind the first i - 1, and then come the zeros.         *)
InPlace(o, wire, ws, runs, i) ==
    LET at == Place(wire, i - 1) + 1
    IN  /\ Place(wire, i - 1) \in Nat
        /\ Place(wire, i) = Place(wire, i - 1) + Len(ws[i]) + 4 * runs
        /\ Place(wire, i) <= Len(o)
        /\ StandsAt(o, at, ws[i])
        /\ \A j \in 0 .. 4 * runs - 1 : o[at + Len(ws[i]) + j] = 0
        /\ o[at] # 0

LEMMA StreamPlaces ==
  ASSUME NEW n \in Nat, NEW ws, NEW xs, NEW bad, AreObjects(ws, xs, bad, n),
         NEW runs \in Nat, NEW wire, wire = Stream(ws, runs, n), NEW o, o = FlattenSeq(wire)
  PROVE  /\ wire \in Seq(Seq(Octet)) /\ Len(wire) = n
         /\ o \in Seq(Octet) /\ Place(wire, n) = Len(o) /\ Place(wire, 0) = 0
         /\ \A i \in 1 .. n : InPlace(o, wire, ws, runs, i)
<1>1. \A i \in 1 .. n : ws[i] \in Seq(Octet) /\ Len(ws[i]) \in Nat /\ Len(ws[i]) >= 3
                        /\ ws[i][1] # 0
  BY ObjectOctets DEF AreObjects
<1>2. /\ Zeros(runs) \in Seq(Octet) /\ Len(Zeros(runs)) = 4 * runs /\ 4 * runs \in Nat
      /\ \A i \in 1 .. 4 * runs : Zeros(runs)[i] = 0
  BY ZerosType
<1>3. ASSUME NEW i \in 1 .. n
      PROVE  /\ wire[i] = Cat(ws[i], Zeros(runs)) /\ wire[i] \in Seq(Octet)
             /\ Len(wire[i]) = Len(ws[i]) + 4 * runs
  <2>1. wire[i] = Cat(ws[i], Zeros(runs))  BY DEF Stream
  <2>2. CatTyped(ws[i], Zeros(runs))  BY Cats
  <2> QED  BY <1>1, <1>2, <2>1, <2>2 DEF CatTyped
<1>4. wire \in Seq(Seq(Octet)) /\ Len(wire) = n
  <2>1. wire \in [1 .. n -> Seq(Octet)]
    <3>1. wire = [i \in 1 .. n |-> Cat(ws[i], Zeros(runs))]  BY DEF Stream
    <3>2. \A i \in 1 .. n : Cat(ws[i], Zeros(runs)) \in Seq(Octet)  BY <1>3
    <3> QED  BY <3>1, <3>2
  <2> QED  BY <2>1
<1>5. o \in Seq(Octet) /\ Place(wire, n) = Len(o) /\ Place(wire, 0) = 0
  BY <1>4, LastPlace, FirstPlace
<1>6. ASSUME NEW i \in 1 .. n
      PROVE  InPlace(o, wire, ws, runs, i)
  <2> DEFINE p == Place(wire, i - 1)
             w == ws[i]
             at == p + 1
             k == 4 * runs
  <2>1. i \in 1 .. Len(wire)  BY <1>4
  <2>2. /\ p \in Nat /\ Place(wire, i) = p + Len(wire[i]) /\ Place(wire, i) <= Len(o)
        /\ \A j \in 1 .. Len(wire[i]) : o[p + j] = wire[i][j]
    BY <1>4, <2>1, Places
  <2>3. /\ w \in Seq(Octet) /\ Len(w) \in Nat /\ Len(w) >= 3 /\ w[1] # 0
        /\ wire[i] = Cat(w, Zeros(runs)) /\ Len(wire[i]) = Len(w) + k /\ k \in Nat
    BY <1>1, <1>2, <1>3
  <2>4. \A j : CatAt(w, Zeros(runs), j)  BY Cats
  <2> HIDE DEF p, w, k
  <2>5. Len(Zeros(runs)) = k /\ \A j \in 1 .. k : Zeros(runs)[j] = 0  BY <1>2 DEF k
  <2>6. ASSUME NEW j \in 1 .. Len(w) + k
        PROVE  o[p + j] = IF j <= Len(w) THEN w[j] ELSE Zeros(runs)[j - Len(w)]
    <3>1. o[p + j] = Cat(w, Zeros(runs))[j]  BY <2>2, <2>3
    <3> QED  BY <1>2, <2>3, <2>4, <2>5, <3>1 DEF CatAt
  <2>7. StandsAt(o, at, w)
    <3> SUFFICES ASSUME NEW j \in 1 .. Len(w) PROVE o[at + j - 1] = w[j]
      BY DEF StandsAt
    <3>1. at + j - 1 = p + j /\ j \in 1 .. Len(w) + k /\ j <= Len(w)  BY <2>2, <2>3
    <3> QED  BY <2>6, <3>1
  <2>8. ASSUME NEW j \in 0 .. k - 1
        PROVE  o[at + Len(w) + j] = 0
    <3> DEFINE l == Len(w) + j + 1
    <3>1. /\ at + Len(w) + j = p + l /\ l \in 1 .. Len(w) + k /\ ~ (l <= Len(w))
          /\ l - Len(w) \in 1 .. k
      <4>1. p \in Nat /\ Len(w) \in Nat /\ k \in Nat  BY <2>2, <2>3
      <4> QED  BY <4>1
    <3> HIDE DEF l
    <3>2. o[p + l] = Zeros(runs)[l - Len(w)]  BY <2>6, <3>1
    <3> QED  BY <2>5, <3>1, <3>2
  <2>9. o[at] # 0
    <3>1. 1 \in 1 .. Len(w) + k /\ 1 <= Len(w)  BY <2>3
    <3>2. o[p + 1] = w[1]  BY <2>6, <3>1
    <3> QED  BY <2>3, <3>2
  <2>10. p \in Nat /\ Place(wire, i) = p + Len(w) + k /\ Place(wire, i) <= Len(o)
    <3>1. p + (Len(w) + k) = p + Len(w) + k  BY <2>2, <2>3
    <3> QED  BY <2>2, <2>3, <3>1
  <2> HIDE DEF at
  <2> QED  BY <2>7, <2>8, <2>9, <2>10 DEF InPlace, at, p, w, k
<1> QED  BY <1>4, <1>5, <1>6

(* An object at the place behind the zeros.                                 *)
Continued(f, x, bad, behind) == IF bad THEN {} ELSE {<<x>> \o more : more \in f[behind]}

LEMMA FoundOne ==
  ASSUME NEW o \in Seq(Octet), NEW f, Parses(o, f), NEW at \in 1 .. Len(o) + 1,
         NEW a, a = AfterPadding(o)[at], a + 2 <= Len(o), a \in Nat,
         NEW x, NEW bad \in BOOLEAN, NEW behind,
         ObjectAt(o, a) = OneObject(x, bad, behind)
  PROVE  f[at] = Continued(f, x, bad, behind)
<1>1. f[at] = UNION {{<<next.object>> \o more : more \in f[next.behind]} :
                     next \in ObjectAt(o, a)}
  <2>1. ~ (a + 2 > Len(o))  OBVIOUS
  <2> QED  BY <2>1 DEF Parses, FoundAt
<1>2. CASE bad  BY <1>1, <1>2 DEF OneObject, Continued
<1>3. CASE ~ bad
  <2> DEFINE Ahead(next) == {<<next.object>> \o more : more \in f[next.behind]}
             y == [object |-> x, behind |-> behind]
  <2>1. f[at] = UNION {Ahead(next) : next \in {y}}  BY <1>1, <1>3 DEF OneObject
  <2>2. y.object = x /\ y.behind = behind  OBVIOUS
  <2> HIDE DEF y
  <2>3. Ahead(y) = {<<x>> \o more : more \in f[behind]}  BY <2>2
  <2> HIDE DEF Ahead
  <2>4. f[at] = Ahead(y)  BY <2>1
  <2> QED  BY <1>3, <2>3, <2>4 DEF Continued
<1> QED  BY <1>2, <1>3

LEMMA FoundNone ==
  ASSUME NEW o \in Seq(Octet), NEW f, Parses(o, f), NEW at \in 1 .. Len(o) + 1,
         AfterPadding(o)[at] + 2 > Len(o)
  PROVE  f[at] = { <<>> }
BY DEF Parses, FoundAt

BehindPlace(wire, ws, i) == IF i = 0 THEN 1 ELSE Place(wire, i - 1) + 1 + Len(ws[i])

LEMMA AfterObject ==
  ASSUME NEW n \in Nat, NEW ws, NEW xs, NEW bad, AreObjects(ws, xs, bad, n),
         NEW runs \in Nat, NEW wire, wire = Stream(ws, runs, n), NEW o, o = FlattenSeq(wire),
         NEW i \in 0 .. n
  PROVE  LET at == BehindPlace(wire, ws, i)
         IN  /\ at \in 1 .. Len(o) + 1 /\ AfterPadding(o)[at] = Place(wire, i) + 1
             /\ Place(wire, i) \in Nat /\ Place(wire, i) <= Len(o)
<1>1. /\ o \in Seq(Octet) /\ Place(wire, n) = Len(o) /\ Place(wire, 0) = 0
      /\ \A k \in 1 .. n : InPlace(o, wire, ws, runs, k)
  BY StreamPlaces
<1> DEFINE p == Place(wire, i)
           at == BehindPlace(wire, ws, i)
           d == IF i = 0 THEN 0 ELSE runs
<1>2. Len(o) \in Nat /\ d \in Nat /\ 4 * runs \in Nat  BY <1>1
<1>3. at \in Nat /\ at > 0 /\ at + 4 * d = p + 1 /\ p \in Nat /\ p <= Len(o)
      /\ \A j \in 0 .. 4 * d - 1 : o[at + j] = 0
  <2>1. CASE i = 0
    <3>1. at = 1 /\ p = 0 /\ d = 0  BY <1>1, <2>1 DEF BehindPlace
    <3> QED  BY <1>2, <3>1
  <2>2. CASE i # 0
    <3> DEFINE q == Place(wire, i - 1)
               l == Len(ws[i])
               k == 4 * runs
    <3>1. i \in 1 .. n  BY <2>2
    <3>2. InPlace(o, wire, ws, runs, i)  BY <1>1, <3>1
    <3>3. l \in Nat  BY <3>1, ObjectOctets DEF AreObjects
    <3>4. /\ q \in Nat /\ p = q + l + k /\ p <= Len(o)
          /\ \A j \in 0 .. k - 1 : o[q + 1 + l + j] = 0
      BY <3>2 DEF InPlace
    <3>5. at = q + 1 + l /\ d = runs  BY <2>2 DEF BehindPlace
    <3> HIDE DEF at, d, p, q, l
    <3>6. 4 * d = k /\ k \in Nat  BY <1>2, <3>5
    <3> HIDE DEF k
    <3>7. at \in Nat /\ at > 0 /\ at + k = p + 1 /\ p \in Nat  BY <3>3, <3>4, <3>5, <3>6
    <3>8. \A j \in 0 .. k - 1 : o[at + j] = 0  BY <3>4, <3>5
    <3> QED  BY <3>4, <3>6, <3>7, <3>8
  <2> QED  BY <2>1, <2>2
<1>4. ~ IsPadding(o, p + 1)
  <2>1. CASE i = n
    <3>1. ~ (p + 1 + 3 <= Len(o))  BY <1>1, <1>2, <2>1
    <3> QED  BY <3>1 DEF IsPadding
  <2>2. CASE i # n
    <3> DEFINE k == i + 1
    <3>1. k \in 1 .. n /\ k - 1 = i  BY <2>2
    <3>2. InPlace(o, wire, ws, runs, k)  BY <1>1, <3>1
    <3>3. o[p + 1] # 0  BY <3>1, <3>2 DEF InPlace
    <3> HIDE DEF p
    <3>4. p + 1 \in Nat /\ p + 1 > 0  BY <1>3
    <3> QED  BY <1>1, <3>3, <3>4, PaddingIsZero
  <2> QED  BY <2>1, <2>2
<1> HIDE DEF at, p, d
<1>5. ZerosStand(o, at, d) /\ at \in 1 .. Len(o) + 1
  <2>1. at + 4 * d <= Len(o) + 1 /\ at \in 1 .. Len(o) + 1
    <3>1. 4 * d \in Nat  BY <1>2
    <3> QED  BY <1>2, <1>3, <3>1
  <2> QED  BY <1>3, <1>4, <2>1 DEF ZerosStand
<1>6. AfterPadding(o)[at] = at + 4 * d  BY <1>1, <1>2, <1>5, ZerosSkipped
<1> QED  BY <1>3, <1>5, <1>6 DEF at, p

LEMMA StreamRead ==
  ASSUME NEW n \in Nat, NEW S, NEW xs \in Seq(S), Len(xs) = n,
         NEW ws, NEW bad, AreObjects(ws, xs, bad, n), NEW runs \in Nat
  PROVE  DecodeObjects(FlattenSeq(Stream(ws, runs, n))) =
            IF \E i \in 1 .. n : bad[i] THEN {} ELSE {xs}
<1> DEFINE wire == Stream(ws, runs, n)
           o == FlattenSeq(wire)
           b(i) == BehindPlace(wire, ws, i)
           p(i) == Place(wire, i)
           Unread(i) == IF \E k \in i + 1 .. n : bad[k] THEN {} ELSE {Behind(xs, i)}
<1>1. /\ o \in Seq(Octet) /\ p(n) = Len(o)
      /\ \A k \in 1 .. n : InPlace(o, wire, ws, runs, k)
  BY StreamPlaces
<1>2. \A i \in 0 .. n : /\ b(i) \in 1 .. Len(o) + 1 /\ AfterPadding(o)[b(i)] = p(i) + 1
                        /\ p(i) \in Nat /\ p(i) <= Len(o)
  BY AfterObject
<1>3. \A i \in 1 .. n : /\ IsObject(ws[i], xs[i], bad[i]) /\ bad[i] \in BOOLEAN
                        /\ Len(ws[i]) \in Nat /\ Len(ws[i]) >= 3
  BY ObjectOctets DEF AreObjects
<1> HIDE DEF wire, o
<1>4. PICK f : Parses(o, f) /\ DecodeObjects(o) = f[1]  BY <1>1, ParseExists
<1>5. f[b(n)] = Unread(n)
  <2>1. AfterPadding(o)[b(n)] + 2 > Len(o) /\ b(n) \in 1 .. Len(o) + 1
    BY <1>1, <1>2
  <2>2. f[b(n)] = { <<>> }  BY <1>1, <1>4, <2>1, FoundNone
  <2>3. Behind(xs, n) = <<>>  BY BehindAll
  <2> QED  BY <2>2, <2>3
<1>6. ASSUME NEW i \in 0 .. n - 1, f[b(i + 1)] = Unread(i + 1)
      PROVE  f[b(i)] = Unread(i)
  <2> DEFINE k == i + 1
             a == p(i) + 1
             w == ws[k]
             l == Len(w)
             x == xs[k]
  <2>1. k \in 1 .. n /\ k - 1 = i /\ i \in 0 .. n /\ i < Len(xs) /\ i \in Nat  OBVIOUS
  <2>2. InPlace(o, wire, ws, runs, k)  BY <1>1, <2>1
  <2>3. /\ IsObject(w, x, bad[k]) /\ bad[k] \in BOOLEAN /\ l \in Nat /\ l >= 3
    BY <1>3, <2>1
  <2>4. /\ StandsAt(o, a, w) /\ p(k) = p(i) + l + 4 * runs /\ p(k) <= Len(o)
    BY <2>1, <2>2 DEF InPlace
  <2>5. b(i) \in 1 .. Len(o) + 1 /\ AfterPadding(o)[b(i)] = a /\ p(i) \in Nat
    BY <1>2, <2>1
  <2>6. b(k) = a + l  BY <2>1 DEF BehindPlace
  <2>7. Behind(xs, i) = <<x>> \o Behind(xs, k)  BY <2>1, BehindFirst
  <2> HIDE DEF p, b, w, l, x
  <2>8. a \in Nat /\ a > 0 /\ a + 2 <= Len(o) /\ ~ (a + l > Len(o) + 1)
    <3> DEFINE d == 4 * runs
               e == Len(o)
               before == p(i)
               after == p(k)
    <3>1. d \in Nat /\ e \in Nat  BY <1>1
    <3>2. after = before + l + d /\ after <= e /\ before \in Nat /\ a = before + 1
      BY <2>4, <2>5
    <3> HIDE DEF a, d, e, before, after
    <3>3. a \in Nat /\ a > 0 /\ a + 2 <= e /\ ~ (a + l > e + 1)  BY <2>3, <3>1, <3>2
    <3> QED  BY <3>3 DEF e
  <2> HIDE DEF a, k
  <2>9. ObjectAt(o, a) = IF bad[k] THEN {} ELSE {[object |-> x, behind |-> b(k)]}
    <3> DEFINE isBad == bad[k]
    <3>1. isBad \in BOOLEAN /\ IsObject(w, x, isBad)  BY <2>3
    <3> HIDE DEF isBad
    <3>2. ObjectAt(o, a) = OneObject(x, isBad \/ a + Len(w) > Len(o) + 1, a + Len(w))
      BY <1>1, <2>4, <2>8, <3>1, ObjectFound
    <3>3. Len(w) = l  BY DEF l
    <3> QED  BY <2>6, <2>8, <3>2, <3>3 DEF OneObject, isBad
  <2>10. f[b(i)] = IF bad[k] THEN {} ELSE {<<x>> \o more : more \in f[b(k)]}
    <3> DEFINE at == b(i)
               behind == b(k)
               isBad == bad[k]
    <3>1. /\ at \in 1 .. Len(o) + 1 /\ a = AfterPadding(o)[at] /\ isBad \in BOOLEAN
          /\ ObjectAt(o, a) = OneObject(x, isBad, behind)
      BY <2>3, <2>5, <2>9 DEF OneObject
    <3>2. o \in Seq(Octet) /\ Parses(o, f) /\ a + 2 <= Len(o) /\ a \in Nat
      BY <1>1, <1>4, <2>8
    <3> HIDE DEF at, behind, isBad
    <3>3. f[at] = Continued(f, x, isBad, behind)  BY <3>1, <3>2, FoundOne
    <3> QED  BY <3>3 DEF Continued, at, behind, isBad
  <2>11. f[b(k)] = IF \E m \in k + 1 .. n : bad[m] THEN {} ELSE {Behind(xs, k)}
    BY <1>6 DEF k
  <2>12. (\E m \in i + 1 .. n : bad[m]) <=> bad[k] \/ \E m \in k + 1 .. n : bad[m]
    <3>1. \A m : m \in i + 1 .. n <=> m = k \/ m \in k + 1 .. n  BY <2>1 DEF k
    <3> QED  BY <3>1
  <2>13. CASE bad[k]  BY <2>10, <2>12, <2>13
  <2>14. CASE ~ bad[k] /\ \E m \in k + 1 .. n : bad[m]  BY <2>10, <2>11, <2>12, <2>14
  <2>15. CASE ~ bad[k] /\ ~ \E m \in k + 1 .. n : bad[m]
    <3>1. f[b(i)] = {<<x>> \o Behind(xs, k)}  BY <2>10, <2>11, <2>15
    <3> QED  BY <2>7, <2>12, <2>15, <3>1
  <2> QED  BY <2>13, <2>14, <2>15
<1>7. f[b(0)] = Unread(0)
  <2> DEFINE T == {d \in Nat : d <= n => f[b(n - d)] = Unread(n - d)}
  <2> HIDE DEF b, Unread
  <2>1. 0 \in T
    <3>1. n - 0 = n  OBVIOUS
    <3> QED  BY <1>5, <3>1
  <2>2. ASSUME NEW d \in Nat, d \in T
        PROVE  d + 1 \in T
    <3> SUFFICES ASSUME d + 1 <= n PROVE f[b(n - (d + 1))] = Unread(n - (d + 1))
      OBVIOUS
    <3> DEFINE i == n - (d + 1)
    <3>1. i \in 0 .. n - 1 /\ i + 1 = n - d /\ d <= n  OBVIOUS
    <3> HIDE DEF i
    <3>2. f[b(i + 1)] = Unread(i + 1)  BY <2>2, <3>1
    <3>3. f[b(i)] = Unread(i)  BY <1>6, <3>1, <3>2
    <3> QED  BY <3>3 DEF i
  <2> HIDE DEF T
  <2>3. n \in T  BY <2>1, <2>2, SetInduction
  <2>4. n - n = 0  OBVIOUS
  <2> QED  BY <2>3, <2>4 DEF T
<1>8. b(0) = 1  BY DEF BehindPlace
<1>9. Behind(xs, 0) = xs  BY SubSeqFull DEF Behind
<1>10. DecodeObjects(o) = IF \E i \in 0 + 1 .. n : bad[i] THEN {} ELSE {xs}
  BY <1>4, <1>7, <1>8, <1>9
<1> QED  BY <1>10 DEF o, wire

-----------------------------------------------------------------------------
(* The first objects of a list, when the rest is cut off.                   *)
LEMMA PrefixNone ==
  ASSUME NEW S, NEW s \in Seq(S)
  PROVE  <<>> \in Prefixes(s)
<1>1. SubSeq(s, 1, 0) = <<>>  BY SubSeqEmpty
<1>2. 0 \in 0 .. Len(s)  OBVIOUS
<1> QED  BY <1>1, <1>2 DEF Prefixes

LEMMA PrefixCons ==
  ASSUME NEW S, NEW x \in S, NEW s \in Seq(S), NEW more \in Prefixes(s)
  PROVE  <<x>> \o more \in Prefixes(<<x>> \o s)
<1>1. PICK l \in 0 .. Len(s) : more = SubSeq(s, 1, l)  BY DEF Prefixes
<1> DEFINE t == SubSeq(s, l + 1, Len(s))
           a == <<x>> \o more
<1>2. l + 1 \in Nat /\ l + 1 > 0 /\ Len(s) \in Nat  OBVIOUS
<1>3. more \in Seq(S) /\ Len(more) = l /\ t \in Seq(S)
  <2>1. 1 \in Nat /\ 1 > 0 /\ l \in Int /\ l <= Len(s) /\ 1 <= l + 1 /\ l - 1 + 1 = l
        /\ Len(s) <= Len(s) /\ l + 1 <= Len(s) + 1
    OBVIOUS
  <2> QED  BY <1>1, <1>2, <2>1, Part
<1>4. s = more \o t  BY <1>1, TwoParts
<1> HIDE DEF t
<1>5. <<x>> \in Seq(S) /\ Len(<<x>>) = 1  OBVIOUS
<1>6. a \in Seq(S) /\ Len(a) = l + 1  BY <1>3, <1>5, ConcatProperties
<1>7. <<x>> \o s = a \o t
  <2> DEFINE one == <<x>>
  <2>1. one \in Seq(S)  BY <1>5
  <2> HIDE DEF one
  <2>2. \A b, c \in Seq(S) : one \o (b \o c) = (one \o b) \o c
    BY <2>1, Regrouped, SMTT(30)
  <2>3. one \o (more \o t) = (one \o more) \o t  BY <1>3, <2>2, Zenon
  <2> QED  BY <1>4, <2>3 DEF one
<1> HIDE DEF a
<1>8. a \o t \in Seq(S) /\ Len(a \o t) = l + 1 + Len(t) /\ Len(t) \in Nat
      /\ \A i \in 1 .. l + 1 : (a \o t)[i] = a[i]
  <2>1. /\ a \o t \in Seq(S) /\ Len(a \o t) = Len(a) + Len(t)
        /\ \A i \in 1 .. Len(a) + Len(t) :
              (a \o t)[i] = IF i <= Len(a) THEN a[i] ELSE t[i - Len(a)]
    BY <1>3, <1>6, ConcatProperties
  <2>2. Len(t) \in Nat /\ l \in Nat  BY <1>3
  <2> DEFINE u == a \o t
             k == Len(t)
  <2>3. Len(u) = l + 1 + k /\ k \in Nat
        /\ \A i \in 1 .. l + 1 + k : u[i] = IF i <= l + 1 THEN a[i] ELSE t[i - (l + 1)]
    BY <1>6, <2>1, <2>2
  <2> HIDE DEF u, k
  <2>4. \A i \in 1 .. l + 1 : u[i] = a[i]  BY <2>2, <2>3
  <2> QED  BY <2>1, <2>3, <2>4 DEF u, k
<1> DEFINE u == a \o t
           k == l + 1
<1> HIDE DEF u
<1>9. k \in Nat /\ k <= Len(u) /\ u \in Seq(S)  BY <1>8 DEF u
<1>10. /\ SubSeq(u, 1, k) \in Seq(S) /\ Len(SubSeq(u, 1, k)) = k
       /\ \A i \in 1 .. k : SubSeq(u, 1, k)[i] = u[i]
  <2>1. 1 \in Nat /\ 1 > 0 /\ k \in Int /\ 1 <= k + 1 /\ k - 1 + 1 = k
        /\ \A i \in 1 .. k : 1 + i - 1 = i
    BY <1>9
  <2> HIDE DEF k
  <2> QED  BY <1>9, <2>1, Part
<1>11. SubSeq(u, 1, k) = a
  <2>1. \A i \in 1 .. k : SubSeq(u, 1, k)[i] = a[i]  BY <1>8, <1>10 DEF u
  <2> HIDE DEF k
  <2>2. Len(a) = k  BY <1>6 DEF k
  <2> QED  BY <1>6, <1>10, <2>1, <2>2, SeqEqual
<1>12. k \in 0 .. Len(u)  BY <1>9
<1>13. a \in Prefixes(u)  BY <1>11, <1>12 DEF Prefixes
<1> QED  BY <1>7, <1>13 DEF a, u

(* Nothing but the first objects in what is cut off.                        *)
LEMMA StreamCut ==
  ASSUME NEW n \in Nat, NEW S, NEW xs \in Seq(S), Len(xs) = n,
         NEW ws, NEW bad, AreObjects(ws, xs, bad, n),
         NEW length \in 0 .. Len(FlattenSeq(Stream(ws, 0, n)))
  PROVE  DecodeObjects(Cut(FlattenSeq(Stream(ws, 0, n)), 1, length)) \subseteq Prefixes(xs)
<1> DEFINE wire == Stream(ws, 0, n)
           o == FlattenSeq(wire)
           r == Cut(o, 1, length)
           p(i) == Place(wire, i)
<1>1. /\ o \in Seq(Octet) /\ p(n) = Len(o) /\ p(0) = 0
      /\ \A k \in 1 .. n : InPlace(o, wire, ws, 0, k)
  BY StreamPlaces
<1>2. \A i \in 0 .. n : p(i) \in Nat /\ p(i) <= Len(o)  BY AfterObject
<1>3. \A i \in 1 .. n : /\ IsObject(ws[i], xs[i], bad[i]) /\ bad[i] \in BOOLEAN
                        /\ Len(ws[i]) \in Nat /\ Len(ws[i]) >= 3
  BY ObjectOctets DEF AreObjects
<1>4. r \in Seq(Octet) /\ Len(r) = length /\ length \in Nat /\ length <= Len(o)
      /\ \A i \in 1 .. length : r[i] = o[i]
  <2>1. CutTyped(o, 1, length)  BY Cuts
  <2>2. Within(o, 1, length) /\ length - 1 + 1 = length /\ length \in Nat
        /\ \A i \in 1 .. length : 1 + i - 1 = i
    BY <1>1 DEF Within
  <2> HIDE DEF o, r
  <2> QED  BY <2>1, <2>2 DEF CutTyped, Within, r
<1> HIDE DEF wire, o, r
<1>5. PICK f : Parses(r, f) /\ DecodeObjects(r) = f[1]  BY <1>4, ParseExists
<1> DEFINE Goal(i) == p(i) <= length => f[p(i) + 1] \subseteq Prefixes(Behind(xs, i))
<1>6. ASSUME NEW i \in 0 .. n, p(i) <= length
      PROVE  /\ p(i) + 1 \in 1 .. Len(r) + 1 /\ p(i) \in Nat
             /\ AfterPadding(r)[p(i) + 1] = p(i) + 1
  <2> DEFINE at == p(i) + 1
  <2>1. p(i) \in Nat /\ p(i) <= length  BY <1>2, <1>6
  <2>2. i < n => o[at] # 0
    <3> SUFFICES ASSUME i < n PROVE o[at] # 0
      OBVIOUS
    <3> DEFINE k == i + 1
    <3>1. k \in 1 .. n /\ k - 1 = i  OBVIOUS
    <3>2. InPlace(o, wire, ws, 0, k)  BY <1>1, <3>1
    <3> QED  BY <3>1, <3>2 DEF InPlace
  <2> HIDE DEF p
  <2>3. at \in 1 .. Len(r) + 1 /\ at \in Nat /\ at > 0  BY <1>4, <2>1
  <2>4. ~ IsPadding(r, at)
    <3> SUFFICES ASSUME IsPadding(r, at) PROVE FALSE
      OBVIOUS
    <3>1. r[at] = 0  BY <1>4, <2>3, PaddingIsZero
    <3>2. at + 3 <= length  BY <1>4 DEF IsPadding
    <3>3. at \in 1 .. length  BY <1>4, <2>3, <3>2
    <3>4. o[at] = 0  BY <1>4, <3>1, <3>3
    <3>5. i = n  BY <2>2, <3>4
    <3> QED  BY <1>1, <1>4, <2>1, <3>2, <3>5
  <2> HIDE DEF at
  <2>5. at + 4 * 0 = at  BY <2>3
  <2>6. ZerosStand(r, at, 0)
    <3>1. \A j \in 0 .. 4 * 0 - 1 : r[at + j] = 0  OBVIOUS
    <3>2. at <= Len(r) + 1  BY <2>3
    <3> QED  BY <2>4, <2>5, <3>1, <3>2 DEF ZerosStand
  <2>7. AfterPadding(r)[at] = at + 4 * 0  BY <1>4, <2>3, <2>6, ZerosSkipped
  <2> QED  BY <2>1, <2>3, <2>5, <2>7 DEF at
<1>7. Goal(n)
  <2> SUFFICES ASSUME p(n) <= length PROVE f[p(n) + 1] \subseteq Prefixes(Behind(xs, n))
    OBVIOUS
  <2>1. n \in 0 .. n  OBVIOUS
  <2> DEFINE at == p(n) + 1
  <2>2. at \in 1 .. Len(r) + 1 /\ AfterPadding(r)[at] = at /\ p(n) \in Nat  BY <1>6, <2>1
  <2>3. p(n) = Len(o)  BY <1>1
  <2> HIDE DEF p
  <2>4. at + 2 > Len(r)  BY <1>4, <2>2, <2>3
  <2> HIDE DEF at
  <2>5. f[at] = { <<>> }  BY <1>4, <1>5, <2>2, <2>4, FoundNone
  <2>6. Behind(xs, n) \in Seq(S)  BY BehindTyped
  <2>7. <<>> \in Prefixes(Behind(xs, n))  BY <2>6, PrefixNone
  <2> QED  BY <2>5, <2>7 DEF at
<1>8. ASSUME NEW i \in 0 .. n - 1, Goal(i + 1)
      PROVE  Goal(i)
  <2> SUFFICES ASSUME p(i) <= length PROVE f[p(i) + 1] \subseteq Prefixes(Behind(xs, i))
    OBVIOUS
  <2> DEFINE k == i + 1
             a == p(i) + 1
             w == ws[k]
             l == Len(w)
             x == xs[k]
             isBad == bad[k] \/ a + l > length + 1
             behind == a + l
  <2>1. k \in 1 .. n /\ k - 1 = i /\ i \in 0 .. n /\ i < Len(xs) /\ i \in Nat  OBVIOUS
  <2>2. InPlace(o, wire, ws, 0, k)  BY <1>1, <2>1
  <2>3. /\ IsObject(w, x, bad[k]) /\ bad[k] \in BOOLEAN /\ l \in Nat /\ l >= 3
    BY <1>3, <2>1
  <2>4. /\ StandsAt(o, a, w) /\ p(k) = p(i) + l + 4 * 0 /\ p(k) <= Len(o)
    BY <2>1, <2>2 DEF InPlace
  <2>5. a \in 1 .. Len(r) + 1 /\ AfterPadding(r)[a] = a /\ p(i) \in Nat
    BY <1>6, <2>1
  <2>6. /\ x \in S /\ Behind(xs, k) \in Seq(S) /\ Behind(xs, i) = <<x>> \o Behind(xs, k)
        /\ Behind(xs, i) \in Seq(S)
    BY <2>1, BehindFirst, BehindTyped
  <2>7. /\ p(k) <= length => f[p(k) + 1] \subseteq Prefixes(Behind(xs, k))
        /\ p(k) \in Nat
    BY <1>2, <1>8, <2>1
  <2> HIDE DEF p, w, l, x
  <2>8. a \in Nat /\ a > 0 /\ a <= length + 1 /\ p(k) = p(i) + l
    BY <1>4, <2>3, <2>4, <2>5
  <2>9. StandsAt(r, a, w)
    <3> SUFFICES ASSUME NEW j \in 1 .. Len(w), a + j - 1 <= Len(r)
                 PROVE  r[a + j - 1] = w[j]
      BY DEF StandsAt
    <3> DEFINE m == a + j - 1
    <3>1. m \in 1 .. length /\ m <= Len(o)  BY <1>4, <2>3, <2>8 DEF l
    <3> HIDE DEF a
    <3>2. o[m] = w[j]  BY <2>4, <3>1 DEF StandsAt
    <3> HIDE DEF m
    <3>3. r[m] = o[m]  BY <1>4, <3>1
    <3> QED  BY <3>2, <3>3 DEF m
  <2>10. behind = p(k) + 1  BY <2>3, <2>5, <2>8
  <2>11. isBad \in BOOLEAN  BY <2>3
  <2>12. CASE a + 2 > length
    <3>1. AfterPadding(r)[a] + 2 > Len(r)  BY <1>4, <2>5, <2>12
    <3> HIDE DEF a
    <3>2. f[a] = { <<>> }  BY <1>4, <1>5, <2>5, <3>1, FoundNone
    <3>3. <<>> \in Prefixes(Behind(xs, i))  BY <2>6, PrefixNone
    <3> QED  BY <3>2, <3>3 DEF a
  <2>13. CASE ~ (a + 2 > length)
    <3>1. a + 2 <= Len(r)  BY <1>4, <2>8, <2>13
    <3>2. ObjectAt(r, a) = OneObject(x, isBad, behind)
      <4> DEFINE itself == bad[k]
      <4>1. itself \in BOOLEAN /\ IsObject(w, x, itself) /\ r \in Seq(Octet)
            /\ a \in Nat /\ a > 0
        BY <1>4, <2>3, <2>8
      <4> HIDE DEF a, itself
      <4>2. ObjectAt(r, a) = OneObject(x, itself \/ a + Len(w) > Len(r) + 1, a + Len(w))
        BY <2>9, <3>1, <4>1, ObjectFound
      <4>3. Len(w) = l /\ Len(r) = length  BY <1>4 DEF l
      <4> QED  BY <4>2, <4>3 DEF itself
    <3> HIDE DEF a, behind
    <3>3. f[a] = Continued(f, x, isBad, behind)
      <4>1. a = AfterPadding(r)[a] /\ a \in Nat /\ r \in Seq(Octet)  BY <1>4, <2>5, <2>8
      <4> HIDE DEF isBad
      <4> QED  BY <1>5, <2>5, <2>11, <3>1, <3>2, <4>1, FoundOne
    <3>4. CASE isBad  BY <3>3, <3>4 DEF Continued, a
    <3>5. CASE ~ isBad
      <4>1. p(k) <= length
        <5>1. ~ (behind > length + 1)  BY <3>5 DEF behind
        <5> QED  BY <1>4, <2>7, <2>10, <5>1
      <4>2. f[behind] \subseteq Prefixes(Behind(xs, k))  BY <2>7, <2>10, <4>1
      <4>3. f[a] = {<<x>> \o more : more \in f[behind]}  BY <3>3, <3>5 DEF Continued
      <4> SUFFICES ASSUME NEW s \in f[a] PROVE s \in Prefixes(Behind(xs, i))
        BY DEF a
      <4>4. PICK more \in f[behind] : s = <<x>> \o more  BY <4>3
      <4>5. more \in Prefixes(Behind(xs, k))  BY <4>2
      <4>6. <<x>> \o more \in Prefixes(<<x>> \o Behind(xs, k))  BY <2>6, <4>5, PrefixCons
      <4> QED  BY <2>6, <4>4, <4>6
    <3> QED  BY <3>4, <3>5
  <2> QED  BY <2>12, <2>13
<1>9. Goal(0)
  <2> DEFINE T == {d \in Nat : d <= n => Goal(n - d)}
  <2> HIDE DEF Goal
  <2>1. 0 \in T
    <3>1. n - 0 = n  OBVIOUS
    <3> QED  BY <1>7, <3>1
  <2>2. ASSUME NEW d \in Nat, d \in T
        PROVE  d + 1 \in T
    <3> SUFFICES ASSUME d + 1 <= n PROVE Goal(n - (d + 1))
      OBVIOUS
    <3> DEFINE i == n - (d + 1)
    <3>1. i \in 0 .. n - 1 /\ i + 1 = n - d /\ d <= n  OBVIOUS
    <3> HIDE DEF i
    <3>2. Goal(i + 1)  BY <2>2, <3>1
    <3>3. Goal(i)  BY <1>8, <3>1, <3>2
    <3> QED  BY <3>3 DEF i
  <2> HIDE DEF T
  <2>3. n \in T  BY <2>1, <2>2, SetInduction
  <2>4. n - n = 0  OBVIOUS
  <2> QED  BY <2>3, <2>4 DEF T
<1>10. Behind(xs, 0) = xs  BY SubSeqFull DEF Behind
<1>11. DecodeObjects(r) \subseteq Prefixes(xs)
  <2>1. p(0) <= length /\ p(0) + 1 = 1  BY <1>1, <1>4
  <2> HIDE DEF p
  <2> QED  BY <1>5, <1>9, <1>10, <2>1
<1> QED  BY <1>11 DEF r, o, wire

-----------------------------------------------------------------------------
(* The headers that are sent.                                               *)
LEMMA QualifierOctets ==
  /\ QualifiersOf(1) = {"Range16"} /\ QualifiersOf(6) = {"AllObjects"}
  /\ QualifiersOf(7) = {"Count8"} /\ QualifiersOf(40) = {"CountAndPrefix16"}
  /\ QualifiersOf(34) = {"CountAndPrefix16"}
<1> DEFINE Codes == {"Range8", "Range16", "AllObjects", "Count8", "Count16", "Indexed32"}
<1>1. \A code \in {1, 6, 7, 34, 40} :
         code \in Int /\ code # 8 /\ code # 20 /\ code # 0 /\ code % 16 \in {1, 2, 6, 7, 8}
  OBVIOUS
<1>2. \A code \in {1, 6, 7, 34, 40} : ~ IsSimulatorIndexed(code)
  BY <1>1 DEF IsSimulatorIndexed
<1>3. ~ IsCountAndPrefix16(1) /\ ~ IsCountAndPrefix16(6) /\ ~ IsCountAndPrefix16(7)
      /\ IsCountAndPrefix16(40) /\ IsCountAndPrefix16(34)
  BY <1>2 DEF IsCountAndPrefix16
<1>4. {q \in Codes : QualifierCode[q] = 1} = {"Range16"}  BY DEF QualifierCode
<1>5. {q \in Codes : QualifierCode[q] = 6} = {"AllObjects"}  BY DEF QualifierCode
<1>6. {q \in Codes : QualifierCode[q] = 7} = {"Count8"}  BY DEF QualifierCode
<1>7. {q \in Codes : QualifierCode[q] = 40} = {} /\ {q \in Codes : QualifierCode[q] = 34} = {}
  BY DEF QualifierCode
<1> QED  BY <1>2, <1>3, <1>4, <1>5, <1>6, <1>7 DEF QualifiersOf

HeaderRead(group, variation, code, fields) ==
    [group |-> group, variation |-> variation, qualifier |-> Qualifier(code, fields),
     size |-> HeaderSize(code)]

LEMMA HeaderFound ==
  ASSUME NEW group \in Octet, group # 0, NEW variation \in Octet, NEW octet \in Octet,
         NEW code \in DOMAIN FieldWidth, QualifiersOf(octet) = {code},
         NEW fields \in Seq(Octet), HeaderSize(code) = 3 + Len(fields),
         NEW w, w = <<group, variation, octet>> \o fields
  PROVE  IsHeader(w, HeaderRead(group, variation, code, fields))
<1> DEFINE a == <<group, variation, octet>>
           h == HeaderRead(group, variation, code, fields)
           n == Len(fields)
<1>1. a \in Seq(Octet) /\ Len(a) = 3 /\ a[1] = group /\ a[2] = variation /\ a[3] = octet
  OBVIOUS
<1>2. w = Cat(a, fields)  BY DEF Cat
<1>3. CatTyped(a, fields) /\ \A i : CatAt(a, fields, i)  BY Cats
<1>4. n \in Nat /\ HeaderSize(code) = 3 + n /\ fields \in Seq(Octet) /\ n = Len(fields)  OBVIOUS
<1> HIDE DEF a, n
<1>5. w \in Seq(Octet) /\ Len(w) = 3 + n  BY <1>1, <1>2, <1>3, <1>4 DEF CatTyped
<1>6. \A i \in 1 .. 3 + n : w[i] = IF i <= 3 THEN a[i] ELSE fields[i - 3]
  BY <1>1, <1>2, <1>3, <1>4 DEF CatAt
<1>7. w[1] = group /\ w[2] = variation /\ w[3] = octet  BY <1>1, <1>4, <1>6
<1>8. ASSUME NEW r \in Seq(Octet), Len(r) >= 3, Starts(r, w)
      PROVE  DecodeHeader(r) = IF Len(r) < Len(w) THEN {} ELSE {h}
  <2> DEFINE size == HeaderSize(code)
             Read(c) == [group |-> r[1], variation |-> r[2],
                         qualifier |-> Qualifier(c, SubSeq(r, 4, HeaderSize(c))),
                         size |-> HeaderSize(c)]
             codes == {c \in QualifiersOf(r[3]) : Len(r) >= HeaderSize(c)}
  <2>1. r[1] = group /\ r[2] = variation /\ r[3] = octet
    <3>1. \A i \in 1 .. 3 : i \in 1 .. Len(w) /\ i <= Len(r)  BY <1>4, <1>5, <1>8
    <3> QED  BY <1>7, <1>8, <3>1 DEF Starts
  <2>2. DecodeHeader(r) = {Read(c) : c \in codes}  BY DEF DecodeHeader
  <2>3. CASE Len(r) < Len(w)
    <3>1. codes = {}  BY <1>4, <1>5, <2>1, <2>3
    <3> HIDE DEF codes, Read
    <3> QED  BY <2>2, <2>3, <3>1
  <2>4. CASE ~ (Len(r) < Len(w))
    <3>1. codes = {code}  BY <1>4, <1>5, <2>1, <2>4
    <3> HIDE DEF codes
    <3>2. DecodeHeader(r) = {Read(code)}  BY <2>2, <3>1
    <3>3. Cut(r, 4, size) = fields
      <4> DEFINE c == Cut(r, 4, size)
      <4>1. CutTyped(r, 4, size)  BY Cuts
      <4>2. Within(r, 4, size) /\ size - 4 + 1 = n /\ size = Len(w)
        BY <1>4, <1>5, <2>4 DEF Within
      <4> HIDE DEF size, c
      <4>3. c \in Seq(Octet) /\ Len(c) = n /\ \A i \in 1 .. n : c[i] = r[4 + i - 1]
        BY <4>1, <4>2 DEF CutTyped, c
      <4>4. ASSUME NEW i \in 1 .. n PROVE c[i] = fields[i]
        <5> DEFINE k == 4 + i - 1
        <5>1. k \in 1 .. 3 + n /\ ~ (k <= 3) /\ k - 3 = i /\ k <= Len(r)
          BY <1>4, <1>5, <2>4
        <5>2. c[i] = r[k]  BY <4>3
        <5> HIDE DEF k
        <5>3. r[k] = w[k]  BY <1>5, <1>8, <5>1 DEF Starts
        <5>4. w[k] = fields[i]  BY <1>6, <5>1
        <5> QED  BY <5>2, <5>3, <5>4
      <4> QED  BY <1>4, <4>3, <4>4, SeqEqual DEF c
    <3>4. Read(code) = h  BY <2>1, <3>3 DEF HeaderRead, Cut
    <3> HIDE DEF Read, h
    <3> QED  BY <2>4, <3>2, <3>4
  <2> QED  BY <2>3, <2>4
<1>9. h.size = Len(w) /\ Len(w) >= 3  BY <1>4, <1>5 DEF HeaderRead
<1> HIDE DEF h
<1> QED  BY <1>5, <1>7, <1>8, <1>9 DEF IsHeader, h

HeaderLaw(group, variation, octet, code, fields) ==
    ( /\ group \in Octet /\ group # 0 /\ variation \in Octet /\ octet \in Octet
      /\ code \in DOMAIN FieldWidth /\ QualifiersOf(octet) = {code}
      /\ fields \in Seq(Octet) /\ HeaderSize(code) = 3 + Len(fields) ) =>
        IsHeader(<<group, variation, octet>> \o fields,
                 HeaderRead(group, variation, code, fields))

LEMMA HeadersFound ==
  ASSUME NEW group, NEW variation, NEW octet, NEW code, NEW fields
  PROVE  HeaderLaw(group, variation, octet, code, fields)
BY HeaderFound DEF HeaderLaw

LEMMA UnsignedOne ==
  ASSUME NEW n \in Octet
  PROVE  <<n>> \in Seq(Octet) /\ Len(<<n>>) = 1 /\ Unsigned(<<n>>) = n
<1>1. n \in Nat  BY OctetRange
<1>2. Len(<<n>>) = 1 /\ <<n>>[1] = n  OBVIOUS
<1>3. ~ \E i \in 3 .. Len(<<n>>) : <<n>>[i] # 0  BY <1>2
<1>4. Unsigned(<<n>>) = n + 0  BY <1>2, <1>3 DEF Unsigned
<1> QED  BY <1>1, <1>2, <1>4

LEMMA UnsignedTwo ==
  ASSUME NEW n \in Word
  PROVE  TwoOctets(n) \in Seq(Octet) /\ Len(TwoOctets(n)) = 2 /\ Unsigned(TwoOctets(n)) = n
<1> DEFINE t == TwoOctets(n)
<1>1. t = LittleEndian(n)  BY DEF TwoOctets, LittleEndian
<1>2. t \in Seq(Octet) /\ Len(t) = 2 /\ FromLittleEndian(t) = n  BY <1>1, LittleEndianInverse
<1> HIDE DEF t
<1>3. ~ \E i \in 3 .. Len(t) : t[i] # 0  BY <1>2
<1>4. Unsigned(t) = t[1] + 256 * t[2]  BY <1>2, <1>3 DEF Unsigned
<1> QED  BY <1>2, <1>4 DEF FromLittleEndian, t

(* The five headers AppObject::encode makes, as they are read.              *)
LEMMA HeaderAllObjects ==
  ASSUME NEW group \in Octet, group # 0, NEW variation \in Octet
  PROVE  \E h : /\ IsHeader(EncodeHeader(group, variation, [code |-> "AllObjects"]), h)
                /\ h.group = group /\ h.variation = variation
<1> DEFINE q == [code |-> "AllObjects"]
           w == EncodeHeader(group, variation, q)
           none == <<>>
           h == HeaderRead(group, variation, "AllObjects", none)
<1>1. w = <<group, variation, 6>> \o none  BY DEF EncodeHeader, QualifierCode
<1>2. none \in Seq(Octet) /\ Len(none) = 0 /\ 6 \in Octet  BY OctetRange
<1>3. "AllObjects" \in DOMAIN FieldWidth /\ HeaderSize("AllObjects") = 3
  BY DEF FieldWidth, HeaderSize
<1> HIDE DEF w, none
<1>4. IsHeader(w, h)
  <2>1. HeaderLaw(group, variation, 6, "AllObjects", none)  BY HeadersFound
  <2> QED  BY <1>1, <1>2, <1>3, <2>1, QualifierOctets DEF HeaderLaw
<1>5. h.group = group /\ h.variation = variation  BY DEF HeaderRead
<1> QED  BY <1>4, <1>5 DEF w

CountHeader(group, variation, code, count) ==
    [group |-> group, variation |-> variation, qualifier |-> [code |-> code, count |-> count],
     size |-> 4]

LEMMA HeaderCount ==
  ASSUME NEW group \in Octet, group # 0, NEW variation \in Octet, NEW count \in Octet,
         NEW octet, NEW code, NEW w, w = <<group, variation, octet>> \o <<count>>,
         \/ octet = 7 /\ code = "Count8"
         \/ octet \in {34, 40} /\ code = "CountAndPrefix16"
  PROVE  IsHeader(w, CountHeader(group, variation, code, count))
<1> DEFINE one == <<count>>
           h == HeaderRead(group, variation, code, one)
<1>1. one \in Seq(Octet) /\ Len(one) = 1 /\ Unsigned(one) = count  BY UnsignedOne
<1>2. Cut(one, 1, 1) = one
  <2>1. CutWhole(one, 1)  BY Cuts
  <2> QED  BY <1>1, <2>1 DEF CutWhole
<1>3. w = <<group, variation, octet>> \o one  OBVIOUS
<1> HIDE DEF one
<1>4. /\ code \in DOMAIN FieldWidth /\ HeaderSize(code) = 4 /\ FieldWidth[code] = 1
      /\ code \notin {"Range8", "Range16", "Indexed32", "AllObjects"}
  BY DEF FieldWidth, HeaderSize
<1>5. octet \in Octet /\ QualifiersOf(octet) = {code}  BY QualifierOctets, OctetRange
<1>6. IsHeader(w, h)
  <2>1. HeaderLaw(group, variation, octet, code, one)  BY HeadersFound
  <2>2. HeaderSize(code) = 3 + Len(one)  BY <1>1, <1>4
  <2> QED  BY <1>1, <1>3, <1>4, <1>5, <2>1, <2>2, Zenon DEF HeaderLaw
<1>7. Qualifier(code, one) = [code |-> code, count |-> Unsigned(Cut(one, 1, 1))]
  BY <1>4 DEF Qualifier, Cut
<1>8. h = CountHeader(group, variation, code, count)
  BY <1>1, <1>2, <1>4, <1>7 DEF HeaderRead, CountHeader
<1> QED  BY <1>6, <1>8

RangeHeader(group, variation, start, stop) ==
    [group |-> group, variation |-> variation,
     qualifier |-> [code |-> "Range16", start |-> start, stop |-> stop], size |-> 7]

LEMMA HeaderRange ==
  ASSUME NEW group \in Octet, group # 0, NEW variation \in Octet,
         NEW start \in Word, NEW stop \in Word,
         NEW w, w = <<group, variation, 1>> \o (TwoOctets(start) \o TwoOctets(stop))
  PROVE  IsHeader(w, RangeHeader(group, variation, start, stop))
<1> DEFINE a == TwoOctets(start)
           b == TwoOctets(stop)
           c == Cat(a, b)
           h == HeaderRead(group, variation, "Range16", c)
<1>1. /\ a \in Seq(Octet) /\ Len(a) = 2 /\ Unsigned(a) = start
      /\ b \in Seq(Octet) /\ Len(b) = 2 /\ Unsigned(b) = stop
  BY UnsignedTwo
<1>2. w = <<group, variation, 1>> \o c  BY DEF Cat
<1> HIDE DEF a, b
<1>3. CatTyped(a, b)  BY Cats
<1>4. c \in Seq(Octet) /\ Len(c) = 4  BY <1>1, <1>3 DEF CatTyped
<1>5. Cut(c, 1, 2) = a
  <2>1. CutFirst(a, b, 1, 2) /\ CutWhole(a, 2)  BY Cuts
  <2>2. Within(a, 1, 2)  BY <1>1 DEF Within
  <2> QED  BY <1>1, <2>1, <2>2 DEF CutFirst, CutWhole
<1>6. Cut(c, 3, 4) = b
  <2>1. CutSecond(a, b, 1, 2, 3, 4)  BY SecondCut
  <2>2. CutWhole(b, 2)  BY Cuts
  <2>3. Within(b, 1, 2)  BY <1>1 DEF Within
  <2> QED  BY <1>1, <2>1, <2>2, <2>3 DEF CutSecond, CutWhole
<1> HIDE DEF c
<1>7. "Range16" \in DOMAIN FieldWidth /\ HeaderSize("Range16") = 7 /\ FieldWidth["Range16"] = 2
  BY DEF FieldWidth, HeaderSize
<1>8. 1 \in Octet  BY OctetRange
<1>9. IsHeader(w, h)
  <2>1. HeaderLaw(group, variation, 1, "Range16", c)  BY HeadersFound
  <2>2. HeaderSize("Range16") = 3 + Len(c)  BY <1>4, <1>7
  <2> QED  BY <1>2, <1>4, <1>7, <1>8, <2>1, <2>2, QualifierOctets, Zenon DEF HeaderLaw
<1>10. Qualifier("Range16", c) =
         [code |-> "Range16", start |-> Unsigned(Cut(c, 1, 2)), stop |-> Unsigned(Cut(c, 3, 4))]
  <2>1. 2 + 1 = 3 /\ 2 * 2 = 4  OBVIOUS
  <2> QED  BY <1>7, <2>1 DEF Qualifier, Cut
<1>11. h = RangeHeader(group, variation, start, stop)
  BY <1>1, <1>5, <1>6, <1>7, <1>10 DEF HeaderRead, RangeHeader
<1> QED  BY <1>9, <1>11

-----------------------------------------------------------------------------
(* Bodies.                                                                  *)
LEMMA StartCut ==
  ASSUME NEW r \in Seq(Octet), NEW w \in Seq(Octet), Starts(r, w), Len(w) <= Len(r)
  PROVE  Cut(r, 1, Len(w)) = w
<1> DEFINE n == Len(w)
           c == Cut(r, 1, n)
<1>1. n \in Nat /\ n <= Len(r)  OBVIOUS
<1>2. CutTyped(r, 1, n)  BY Cuts
<1> HIDE DEF c
<1>3. c \in Seq(Octet) /\ Len(c) = n /\ \A i \in 1 .. n : c[i] = r[i]
  <2>1. Within(r, 1, n) /\ n - 1 + 1 = n /\ \A i \in 1 .. n : 1 + i - 1 = i
    BY <1>1 DEF Within
  <2> HIDE DEF n
  <2> QED  BY <1>2, <2>1 DEF CutTyped, c
<1>4. \A i \in 1 .. n : c[i] = w[i]  BY <1>1, <1>3 DEF Starts
<1> QED  BY <1>1, <1>3, <1>4, SeqEqual DEF c

LEMMA NoBody ==
  ASSUME NEW h, NEW x, \A r \in Seq(Octet) : DecodeObject(h, r) = {Sized(x, 0)}
  PROVE  IsBody(h, <<>>, x, FALSE)
<1> DEFINE none == <<>>
<1>1. none \in Seq(Octet) /\ Len(none) = 0  OBVIOUS
<1> HIDE DEF none
<1>2. ASSUME NEW r \in Seq(Octet)
      PROVE  DecodeObject(h, r) = IF FALSE \/ Len(r) < Len(none) THEN {}
                                  ELSE {Sized(x, Len(none))}
  <2>1. Len(r) \in Nat  OBVIOUS
  <2>2. ~ (Len(r) < Len(none))  BY <1>1, <2>1
  <2> QED  BY <1>1, <2>2
<1>3. IsBody(h, none, x, FALSE)  BY <1>1, <1>2 DEF IsBody
<1> QED  BY <1>3 DEF none

LEMMA CatNone ==
  ASSUME NEW w \in Seq(Octet)
  PROVE  w = Cat(w, <<>>)
BY ConcatEmptySeq DEF Cat

LEMMA ClassObject ==
  ASSUME NEW variation \in 1 .. 4
  PROVE  IsObject(EncodeHeader(60, variation, [code |-> "AllObjects"]),
                  IF variation = 1 THEN IntegrityPoll ELSE ClassScan(variation - 1), FALSE)
<1> DEFINE w == EncodeHeader(60, variation, [code |-> "AllObjects"])
           x == IF variation = 1 THEN IntegrityPoll ELSE ClassScan(variation - 1)
<1>1. 60 \in Octet /\ 60 # 0 /\ variation \in Octet  BY OctetRange
<1>2. PICK h : IsHeader(w, h) /\ h.group = 60 /\ h.variation = variation
  BY <1>1, HeaderAllObjects
<1> HIDE DEF w
<1>3. DOMAIN ListOf = {1, 2, 3, 4, 10, 20, 21, 22, 30, 32, 40, 42}  BY DEF ListOf
<1>4. ASSUME NEW r \in Seq(Octet) PROVE DecodeObject(h, r) = {Sized(x, 0)}
  <2>1. h.group # 0 /\ h.group \notin DOMAIN ListOf /\ h.group # 50  BY <1>2, <1>3
  <2>2. CASE variation = 1  BY <1>2, <2>1, <2>2 DEF DecodeObject
  <2>3. CASE variation # 1
    <3>1. variation \in 2 .. 4  BY <2>3
    <3> QED  BY <1>2, <2>1, <2>3, <3>1 DEF DecodeObject
  <2> QED  BY <2>2, <2>3
<1>5. IsBody(h, <<>>, x, FALSE)  BY <1>4, NoBody
<1>6. w = Cat(w, <<>>)
  <2>1. w \in Seq(Octet)  BY <1>2 DEF IsHeader
  <2> QED  BY <2>1, CatNone
<1> HIDE DEF x
<1> QED  BY <1>2, <1>5, <1>6 DEF IsObject, w, x

LEMMA TimeObject ==
  ASSUME NEW stamp \in Stamp
  PROVE  IsObject(EncodeHeader(50, 1, [code |-> "Count8", count |-> 1]) \o stamp,
                  Time(stamp), FALSE)
<1> DEFINE w == EncodeHeader(50, 1, [code |-> "Count8", count |-> 1])
           h == CountHeader(50, 1, "Count8", 1)
<1>1. 50 \in Octet /\ 50 # 0 /\ 1 \in Octet  BY OctetRange
<1>2. w = <<50, 1, 7>> \o <<1>>  BY DEF EncodeHeader, QualifierCode
<1>3. IsHeader(w, h)
  <2> DEFINE octet == 7
             code == "Count8"
  <2>1. octet = 7 /\ code = "Count8" /\ w = <<50, 1, octet>> \o <<1>>  BY <1>2
  <2>2. IsHeader(w, CountHeader(50, 1, code, 1))
    <3> HIDE DEF octet, code
    <3> QED  BY <1>1, <2>1, HeaderCount
  <2> QED  BY <2>1, <2>2
<1>4. stamp \in Seq(Octet) /\ Len(stamp) = 6  BY DEF Stamp
<1>5. DOMAIN ListOf = {1, 2, 3, 4, 10, 20, 21, 22, 30, 32, 40, 42}  BY DEF ListOf
<1>6. ASSUME NEW r \in Seq(Octet), Starts(r, stamp)
      PROVE  DecodeObject(h, r) = IF FALSE \/ Len(r) < Len(stamp) THEN {}
                                  ELSE {Sized(Time(stamp), Len(stamp))}
  <2> DEFINE q == h.qualifier
  <2>1. /\ h.group # 0 /\ h.group \notin DOMAIN ListOf /\ h.group = 50 /\ h.variation = 1
        /\ HasCount(q) /\ PointCount(q) = 1
    BY <1>5 DEF CountHeader, HasCount, PointCount
  <2> HIDE DEF h
  <2>2. DecodeObject(h, r) = IF Len(r) >= 6 THEN {Sized(Time(Cut(r, 1, 6)), 6)} ELSE {}
    BY <2>1 DEF DecodeObject, Cut
  <2>3. Len(r) \in Nat  OBVIOUS
  <2>4. CASE Len(r) >= 6
    <3>1. Cut(r, 1, Len(stamp)) = stamp  BY <1>4, <1>6, <2>3, <2>4, StartCut
    <3> QED  BY <1>4, <2>2, <2>3, <2>4, <3>1
  <2>5. CASE ~ (Len(r) >= 6)  BY <1>4, <2>2, <2>3, <2>5
  <2> QED  BY <2>4, <2>5
<1>7. IsBody(h, stamp, Time(stamp), FALSE)
  <2> HIDE DEF h
  <2> QED  BY <1>4, <1>6, Zenon DEF IsBody
<1> HIDE DEF w, h
<1>8. IsObject(Cat(w, stamp), Time(stamp), FALSE)  BY <1>3, <1>7 DEF IsObject
<1> QED  BY <1>8 DEF Cat, w

(* Parts of one length, one after the other.                                *)
LaidOut(w, chunks, n, size) ==
    /\ w \in Seq(Octet) /\ Len(w) = n * size
    /\ \A i \in 1 .. n : /\ chunks[i] \in Seq(Octet) /\ Len(chunks[i]) = size
                         /\ \A j \in 1 .. size : w[((i - 1) * size) + j] = chunks[i][j]

LEMMA OneMore ==
  ASSUME NEW size \in Nat, NEW n \in Nat, NEW i \in 1 .. n
  PROVE  /\ (i - 1) * size \in Nat /\ i * size = (i - 1) * size + size
         /\ i * size <= n * size /\ n * size \in Nat
<1> DEFINE k == i - 1
<1>1. k \in Nat /\ i = k + 1 /\ i \in Nat /\ i <= n  OBVIOUS
<1> HIDE DEF k
<1>2. size * i <= size * n /\ size * n \in Nat  BY <1>1, Monotone
<1>3. size * i = i * size /\ size * n = n * size  BY <1>1
<1>4. (k + 1) * size = k * size + size /\ k * size \in Nat  BY <1>1
<1>5. i * size = k * size + size  BY <1>1, <1>4
<1> QED  BY <1>2, <1>3, <1>4, <1>5 DEF k

LEMMA UniformLaidOut ==
  ASSUME NEW n \in Nat, NEW size \in Nat, NEW chunks \in Seq(Seq(Octet)), Len(chunks) = n,
         \A i \in 1 .. n : Len(chunks[i]) = size
  PROVE  LaidOut(FlattenSeq(chunks), chunks, n, size)
<1> DEFINE w == FlattenSeq(chunks)
           T == {i \in Nat : i <= n => Place(chunks, i) = i * size}
<1>1. 0 \in T
  <2>1. 0 * size = 0  OBVIOUS
  <2> QED  BY <2>1, FirstPlace
<1>2. ASSUME NEW i \in Nat, i \in T PROVE i + 1 \in T
  <2> SUFFICES ASSUME i + 1 <= n PROVE Place(chunks, i + 1) = (i + 1) * size
    OBVIOUS
  <2> DEFINE k == i + 1
  <2>1. k \in 1 .. n /\ k \in 1 .. Len(chunks) /\ k - 1 = i  OBVIOUS
  <2>2. Place(chunks, i) = i * size  BY <1>2
  <2>3. k * size = i * size + size /\ i * size \in Nat  BY <2>1, OneMore
  <2> HIDE DEF k
  <2>4. Place(chunks, k) = Place(chunks, i) + Len(chunks[k])  BY <2>1, Places
  <2> QED  BY <2>1, <2>2, <2>3, <2>4 DEF k
<1> HIDE DEF T
<1>3. Nat \subseteq T  BY <1>1, <1>2, SetInduction
<1>4. \A i \in Nat : i <= n => Place(chunks, i) = i * size  BY <1>3 DEF T
<1>5. w \in Seq(Octet) /\ Len(w) = n * size  BY <1>4, LastPlace
<1> HIDE DEF w
<1>6. ASSUME NEW i \in 1 .. n
      PROVE  /\ chunks[i] \in Seq(Octet) /\ Len(chunks[i]) = size
             /\ \A j \in 1 .. size : w[((i - 1) * size) + j] = chunks[i][j]
  <2>1. i \in 1 .. Len(chunks) /\ i - 1 \in Nat /\ i - 1 <= n  OBVIOUS
  <2>2. Place(chunks, i - 1) = (i - 1) * size  BY <1>4, <2>1
  <2>3. /\ chunks[i] \in Seq(Octet)
        /\ \A j \in 1 .. Len(chunks[i]) : w[Place(chunks, i - 1) + j] = chunks[i][j]
    BY <2>1, Places DEF w
  <2>4. Len(chunks[i]) = size  OBVIOUS
  <2> QED  BY <2>2, <2>3, <2>4
<1> QED  BY <1>5, <1>6 DEF LaidOut, w

(* What is read where part i lies is what part i is made of.                *)
LEMMA PartRead ==
  ASSUME NEW n \in Nat, NEW size \in Nat, NEW w, NEW chunks, LaidOut(w, chunks, n, size),
         NEW r \in Seq(Octet), Starts(r, w), NEW i \in 1 .. n, i * size <= Len(r),
         NEW first \in Nat, first > 0, NEW last \in Nat, first <= last + 1, last <= size,
         NEW from, from = ((i - 1) * size) + first, NEW to, to = ((i - 1) * size) + last
  PROVE  Cut(r, from, to) = Cut(chunks[i], first, last)
<1> DEFINE base == (i - 1) * size
           c == chunks[i]
           x == Cut(r, from, to)
           y == Cut(c, first, last)
<1>1. /\ base \in Nat /\ i * size = base + size /\ i * size <= n * size /\ n * size \in Nat
  BY OneMore
<1>2. /\ w \in Seq(Octet) /\ Len(w) = n * size
      /\ c \in Seq(Octet) /\ Len(c) = size
      /\ \A j \in 1 .. size : w[base + j] = c[j]
  BY DEF LaidOut
<1> DEFINE total == n * size
<1>3. /\ base + size <= Len(r) /\ base + size <= total /\ total \in Nat /\ Len(w) = total
      /\ from = base + first /\ to = base + last /\ Len(r) \in Nat
  BY <1>1, <1>2
<1>4. CutTyped(r, from, to) /\ CutTyped(c, first, last)  BY Cuts
<1> HIDE DEF base, c, total, x, y
<1>5. Within(r, from, to) /\ Within(c, first, last) /\ to - from + 1 = last - first + 1
  <2> DEFINE room == Len(r)
  <2>1. base \in Nat /\ room \in Nat /\ base + size <= room
        /\ from = base + first /\ to = base + last
    BY <1>1, <1>3
  <2> HIDE DEF room
  <2>2. from \in Nat /\ from > 0 /\ to \in Int /\ to <= room /\ from <= to + 1
        /\ to - from + 1 = last - first + 1
    BY <2>1
  <2>3. Within(r, from, to)  BY <2>2 DEF Within, room
  <2>4. Within(c, first, last)  BY <1>2 DEF Within
  <2> QED  BY <2>2, <2>3, <2>4
<1>6. /\ x \in Seq(Octet) /\ Len(x) = last - first + 1
      /\ \A j \in 1 .. last - first + 1 : x[j] = r[from + j - 1]
  BY <1>4, <1>5 DEF CutTyped, x
<1>7. /\ y \in Seq(Octet) /\ Len(y) = last - first + 1
      /\ \A j \in 1 .. last - first + 1 : y[j] = c[first + j - 1]
  BY <1>4, <1>5 DEF CutTyped, y
<1>8. ASSUME NEW j \in 1 .. last - first + 1
      PROVE  x[j] = y[j]
  <2> DEFINE k == first + j - 1
             m == from + j - 1
  <2>1. k \in 1 .. size /\ m = base + k /\ m \in 1 .. total /\ m <= Len(r)
    BY <1>1, <1>3
  <2>2. x[j] = r[m] /\ y[j] = c[k]  BY <1>6, <1>7
  <2> HIDE DEF k, m
  <2>3. r[m] = w[m]  BY <1>3, <2>1 DEF Starts
  <2> QED  BY <1>2, <2>1, <2>2, <2>3
<1>9. x = y  BY <1>6, <1>7, <1>8, SeqEqual
<1> QED  BY <1>9 DEF x, y, c

(* A list of points, each an index if there are any, flags and value, and   *)
(* a suffix that is dropped.                                                *)
IsPointOf(h, octets, point) ==
    /\ DatumIn(Cut(octets, PrefixOf(h) + 1, PointSize(h)), ValueOf(h)) = point.datum
    /\ PrefixOf(h) # 0 => Unsigned(Cut(octets, 1, PrefixOf(h))) = point.index

FieldCount(h, n) == IF PrefixOf(h) = 0 THEN n ELSE 2 * n

FullBody(h, list) ==
    IF PrefixOf(h) = 0 THEN [i \in 1 .. Len(list) |-> list[i].datum] ELSE Interleaved(list)

ReadsAs(h, list) ==
    /\ Decode(KindOf(h.group), h.qualifier, FullBody(h, list)) = <<list>>
    /\ \A fields : Len(fields) < FieldCount(h, Len(list)) =>
           Decode(KindOf(h.group), h.qualifier, fields) = <<>>

IsPointsHeader(h, n) ==
    h.group \in DOMAIN ListOf /\ h.group # 0 /\ ~ IsPacked(h) /\ PointCount(h.qualifier) = n

LEMMA FieldsThere ==
  ASSUME NEW h, NEW n \in Nat, PointCount(h.qualifier) = n,
         NEW list, Len(list) = n, NEW w, NEW chunks,
         LaidOut(w, chunks, n, PointSize(h)), \A i \in 1 .. n : IsPointOf(h, chunks[i], list[i]),
         NEW r \in Seq(Octet), Starts(r, w)
  PROVE  /\ Len(Fields(h, r)) < FieldCount(h, n) <=> Len(r) < Len(w)
         /\ ~ (Len(r) < Len(w)) => /\ Fields(h, r) = FullBody(h, list)
                                  /\ WholeCount(h, r) * PointSize(h) = Len(w)
<1> DEFINE size == PointSize(h)
           whole == WholeCount(h, r)
           prefix == PrefixOf(h)
           value == ValueOf(h)
           total == n * size
           room == Len(r)
           f == Fields(h, r)
<1>1. size \in Nat /\ size > 0 /\ room \in Nat  BY PointSizeType
<1>2. whole = Min({n, room \div size})  BY DEF WholeCount
<1>3. prefix \in Nat /\ prefix + 1 <= size
  <2> DEFINE suffix == SuffixSize(h.group, h.variation)
  <2>1. prefix \in {0, 2, 4} /\ value \in {0, 2, 4} /\ suffix \in {0, 6}
    BY SizeOfPoint, Zenon DEF PrefixOf, ValueOf
  <2>2. size = prefix + 1 + value + suffix  BY DEF PointSize
  <2> HIDE DEF prefix, value, suffix, size
  <2> QED  BY <2>1, <2>2
<1>4. Len(w) = total /\ room = Len(r) /\ LaidOut(w, chunks, n, size)  BY DEF LaidOut
<1>5. f = IF prefix = 0 THEN [i \in 1 .. whole |-> DatumRead(h, r, i)]
          ELSE [k \in 1 .. 2 * whole |->
                  IF k % 2 = 1 THEN IndexRead(h, r, (k + 1) \div 2) ELSE DatumRead(h, r, k \div 2)]
  BY Zenon DEF Fields
<1>6. \A i : DatumRead(h, r, i) = DatumIn(Cut(r, ((i - 1) * size) + prefix + 1, i * size), value)
  BY Zenon DEF DatumRead, Cut
<1>7. \A i : IndexRead(h, r, i) =
               Unsigned(Cut(r, ((i - 1) * size) + 1, ((i - 1) * size) + prefix))
  BY Zenon DEF IndexRead, Cut
<1>8. FieldCount(h, n) = IF prefix = 0 THEN n ELSE 2 * n  BY DEF FieldCount
<1>9. \A i \in 1 .. n :
         /\ DatumIn(Cut(chunks[i], prefix + 1, size), value) = list[i].datum
         /\ prefix # 0 => Unsigned(Cut(chunks[i], 1, prefix)) = list[i].index
  BY DEF IsPointOf
<1>10. FullBody(h, list) = IF prefix = 0 THEN [i \in 1 .. n |-> list[i].datum]
                           ELSE [k \in 1 .. 2 * n |->
                                   IF k % 2 = 1 THEN list[(k + 1) \div 2].index
                                   ELSE list[k \div 2].datum]
  BY DEF FullBody, Interleaved
<1> HIDE DEF size, whole, prefix, value, f, room, total
<1>11. /\ whole \in Nat /\ whole <= n /\ (whole = n <=> total <= room) /\ total \in Nat
  <2>1. LET m == Min({n, room \div size})
        IN  m \in Nat /\ m <= n /\ (m = n <=> n * size <= room)
    BY <1>1, WholePoints
  <2>2. n * size \in Nat  BY <1>1
  <2> HIDE DEF total
  <2>3. total = n * size  BY DEF total
  <2> QED  BY <1>2, <2>1, <2>2, <2>3
<1>12. Len(f) = IF prefix = 0 THEN whole ELSE 2 * whole  BY <1>5, <1>11
<1>13. Len(f) < FieldCount(h, n) <=> room < total
  <2>1. CASE prefix = 0  BY <1>1, <1>8, <1>11, <1>12, <2>1
  <2>2. CASE prefix # 0  BY <1>1, <1>8, <1>11, <1>12, <2>2
  <2> QED  BY <2>1, <2>2
<1>14. ASSUME ~ (room < total)
       PROVE  f = FullBody(h, list) /\ whole * size = total
  <2>1. whole = n  BY <1>1, <1>11, <1>14
  <2>2. ASSUME NEW i \in 1 .. n
        PROVE  /\ DatumRead(h, r, i) = list[i].datum
               /\ prefix # 0 => IndexRead(h, r, i) = list[i].index
    <3> DEFINE base == (i - 1) * size
               from == base + prefix + 1
               to == i * size
    <3>1. base \in Nat /\ to = base + size /\ to <= total /\ to \in Nat
      BY <1>1, OneMore DEF total
    <3>2. from = base + (prefix + 1) /\ to <= room /\ base + 1 = base + 1
      BY <1>1, <1>3, <1>11, <1>14, <3>1
    <3>3. Cut(r, from, to) = Cut(chunks[i], prefix + 1, size)
      <4> DEFINE first == prefix + 1
      <4>1. first \in Nat /\ first > 0 /\ first <= size + 1 /\ size <= size
            /\ from = base + first
        BY <1>1, <1>3, <3>2
      <4>2. i * size <= Len(r)  BY <3>2 DEF room
      <4> HIDE DEF first, from
      <4> QED  BY <1>1, <1>4, <3>1, <4>1, <4>2, PartRead DEF first
    <3>4. prefix # 0 => Cut(r, base + 1, base + prefix) = Cut(chunks[i], 1, prefix)
      <4> SUFFICES ASSUME prefix # 0
                   PROVE  Cut(r, base + 1, base + prefix) = Cut(chunks[i], 1, prefix)
        OBVIOUS
      <4> DEFINE one == 1
                 a == base + one
                 b == base + prefix
      <4>1. one \in Nat /\ one > 0 /\ one <= prefix + 1 /\ prefix <= size  BY <1>1, <1>3
      <4>2. i * size <= Len(r)  BY <3>2 DEF room
      <4> HIDE DEF one
      <4>3. Cut(r, a, b) = Cut(chunks[i], one, prefix)
        BY <1>1, <1>3, <1>4, <4>1, <4>2, PartRead
      <4> QED  BY <4>3 DEF one
    <3> HIDE DEF from, base, to
    <3>5. DatumRead(h, r, i) = DatumIn(Cut(r, from, to), value)  BY <1>6 DEF from, to, base
    <3>6. IndexRead(h, r, i) = Unsigned(Cut(r, base + 1, base + prefix))  BY <1>7 DEF base
    <3> QED  BY <1>9, <3>3, <3>4, <3>5, <3>6
  <2>3. f = FullBody(h, list)
    <3>1. CASE prefix = 0  BY <1>5, <1>10, <2>1, <2>2, <3>1
    <3>2. CASE prefix # 0
      <4>1. f = [k \in 1 .. 2 * n |->
                  IF k % 2 = 1 THEN IndexRead(h, r, (k + 1) \div 2) ELSE DatumRead(h, r, k \div 2)]
        BY <1>5, <2>1, <3>2
      <4>2. FullBody(h, list) = [k \in 1 .. 2 * n |->
                                   IF k % 2 = 1 THEN list[(k + 1) \div 2].index
                                   ELSE list[k \div 2].datum]
        BY <1>10, <3>2
      <4>3. ASSUME NEW k \in 1 .. 2 * n
            PROVE  (IF k % 2 = 1 THEN IndexRead(h, r, (k + 1) \div 2)
                    ELSE DatumRead(h, r, k \div 2)) =
                   (IF k % 2 = 1 THEN list[(k + 1) \div 2].index ELSE list[k \div 2].datum)
        <5>1. k % 2 = 1 => (k + 1) \div 2 \in 1 .. n  OBVIOUS
        <5>2. k % 2 # 1 => k \div 2 \in 1 .. n  OBVIOUS
        <5> QED  BY <2>2, <3>2, <5>1, <5>2
      <4> QED  BY <4>1, <4>2, <4>3
    <3> QED  BY <3>1, <3>2
  <2>4. whole * size = total  BY <2>1 DEF total
  <2> QED  BY <2>3, <2>4
<1> QED  BY <1>4, <1>13, <1>14 DEF f, whole, size

LEMMA PointsBody ==
  ASSUME NEW h, NEW n \in Nat, IsPointsHeader(h, n),
         NEW list, Len(list) = n, NEW w, NEW chunks,
         LaidOut(w, chunks, n, PointSize(h)), \A i \in 1 .. n : IsPointOf(h, chunks[i], list[i]),
         ReadsAs(h, list)
  PROVE  IsBody(h, w, PointList(ListOf[h.group], list), FALSE)
<1> DEFINE x == PointList(ListOf[h.group], list)
           Put(l) == Sized(PointList(ListOf[h.group], l.points), l.size)
<1>1. w \in Seq(Octet)  BY DEF LaidOut
<1>2. ASSUME NEW r \in Seq(Octet), Starts(r, w)
      PROVE  DecodeObject(h, r) = IF FALSE \/ Len(r) < Len(w) THEN {} ELSE {Sized(x, Len(w))}
  <2> DEFINE lists == ListsRead(h, r)
             k == WholeCount(h, r) * PointSize(h)
             result == Decode(KindOf(h.group), h.qualifier, Fields(h, r))
             points == DecodePoints(h, r)
  <2>1. DecodeObject(h, r) = {Put(l) : l \in points}
    <3> DEFINE q == h.qualifier
               found == {Put(l) : l \in IF IsPacked(h) THEN DecodePackedPoints(h, r) ELSE points}
               padding == DecodeGroup0(q, r)
               time == IF HasCount(q) /\ PointCount(q) = 1 /\ Len(r) >= 6
                       THEN {Sized(Time(SubSeq(r, 1, 6)), 6)} ELSE {}
               poll == {Sized(IntegrityPoll, 0)}
               scan == {Sized(ClassScan(h.variation - 1), 0)}
    <3>1. DecodeObject(h, r) =
            CASE h.group = 0 -> padding
              [] h.group \in DOMAIN ListOf -> found
              [] h.group = 50 /\ h.variation = 1 -> time
              [] h.group = 60 /\ h.variation = 1 -> poll
              [] h.group = 60 /\ h.variation \in 2 .. 4 -> scan
              [] OTHER -> {}
      BY DEF DecodeObject
    <3>2. found = {Put(l) : l \in points}  BY DEF IsPointsHeader
    <3>3. 0 \notin DOMAIN ListOf /\ 50 \notin DOMAIN ListOf /\ 60 \notin DOMAIN ListOf
      BY DEF ListOf
    <3>4. h.group \in DOMAIN ListOf  BY DEF IsPointsHeader
    <3>5. h.group # 0 /\ h.group # 50 /\ h.group # 60  BY <3>3, <3>4, Zenon
    <3> HIDE DEF found, padding, time, poll, scan
    <3>6. DecodeObject(h, r) = found  BY <3>1, <3>4, <3>5, Zenon
    <3> QED  BY <3>2, <3>6
  <2>2. points = {[points |-> l, size |-> k] : l \in lists}  BY PointsRead
  <2>3. /\ Len(Fields(h, r)) < FieldCount(h, n) <=> Len(r) < Len(w)
        /\ ~ (Len(r) < Len(w)) => Fields(h, r) = FullBody(h, list) /\ k = Len(w)
    BY <1>2, FieldsThere DEF IsPointsHeader
  <2>4. lists = Range(result)  BY DEF ListsRead
  <2>5. Range(<<>>) = {} /\ Range(<<list>>) = {list}  BY DEF Range
  <2> HIDE DEF lists, points, k
  <2>6. CASE Len(r) < Len(w)
    <3>1. result = <<>>  BY <2>3, <2>6 DEF ReadsAs
    <3>2. lists = {}  BY <2>4, <2>5, <3>1
    <3>3. points = {}  BY <2>2, <3>2
    <3> HIDE DEF Put
    <3> QED  BY <2>1, <2>6, <3>3
  <2>7. CASE ~ (Len(r) < Len(w))
    <3> DEFINE one == [points |-> list, size |-> Len(w)]
    <3>1. result = <<list>>  BY <2>3, <2>7 DEF ReadsAs
    <3>2. lists = {list}  BY <2>4, <2>5, <3>1
    <3>3. k = Len(w)  BY <2>3, <2>7
    <3>4. points = {one}  BY <2>2, <3>2, <3>3
    <3>5. Put(one) = Sized(x, Len(w))  OBVIOUS
    <3> HIDE DEF Put, one, x
    <3>6. DecodeObject(h, r) = {Put(one)}  BY <2>1, <3>4
    <3> QED  BY <2>7, <3>5, <3>6
  <2> QED  BY <2>6, <2>7
<1> HIDE DEF x
<1>3. IsBody(h, w, x, FALSE)  BY <1>1, <1>2, Zenon DEF IsBody
<1> QED  BY <1>3 DEF x

-----------------------------------------------------------------------------
(* The lemmas about lists, for octets and words as wide as they are.        *)
LEMMA AppAssumptions ==
  /\ 1 \in Nat \ {0} /\ ByteSpace % 1 = 0 /\ 0 \in 0 .. IndexSpace
  /\ ByteSpace \in Nat \ {0} /\ IndexSpace \in Nat \ {0} /\ ByteSpace <= IndexSpace
  /\ App!Index = Index /\ (\A n : n \in Index <=> n \in Word)
<1>1. ByteSpace \in Nat \ {0} /\ IndexSpace \in Nat \ {0} /\ ByteSpace <= IndexSpace
  BY WidthAssumption
<1>2. ByteSpace % 1 = 0  BY <1>1
<1>3. \A n : n \in Index <=> n \in Word
  <2> DEFINE top == IndexSpace
  <2>1. top = 65536  BY WidthsAssumption
  <2>2. top \in Nat /\ Index = 0 .. top - 1  BY <1>1 DEF Index
  <2> HIDE DEF top
  <2>3. \A n : n \in Index <=> n \in Nat /\ n <= top - 1  BY <2>2
  <2>4. top - 1 = 65535  BY <2>1
  <2> QED  BY <2>3, <2>4, WordRange
<1>4. App!Index = Index  BY DEF App!Index, Index
<1> QED  BY <1>1, <1>2, <1>3, <1>4

LEMMA AppAlike ==
  ASSUME NEW a, NEW b, NEW c
  PROVE  /\ App!PointOf(a) = [index : Index, datum : a]
         /\ App!Interleaved(a) = Interleaved(a) /\ App!Contiguous(a) = Contiguous(a)
         /\ App!RangeLength(a, b) = RangeLength(a, b)
         /\ App!IndicesFrom(a, b, c) = IndicesFrom(a, b, c)
         /\ App!ReadImplied(a, b) = ReadImplied(a, b) /\ App!ReadPrefixed(a, b) = ReadPrefixed(a, b)
<1>1. App!PointOf(a) = [index : Index, datum : a]  BY AppAssumptions DEF App!PointOf
<1>2. App!Interleaved(a) = Interleaved(a)  BY Zenon DEF App!Interleaved, Interleaved
<1>3. App!Contiguous(a) = Contiguous(a)  BY Zenon DEF App!Contiguous, Contiguous
<1>4. App!RangeLength(a, b) = RangeLength(a, b)  BY Zenon DEF App!RangeLength, RangeLength
<1>5. App!IndicesFrom(a, b, c) = IndicesFrom(a, b, c)
  BY Zenon DEF App!IndicesFrom, IndicesFrom
<1>6. App!ReadImplied(a, b) = ReadImplied(a, b)  BY Zenon DEF App!ReadImplied, ReadImplied
<1>7. App!ReadPrefixed(a, b) = ReadPrefixed(a, b)
  BY Zenon DEF App!ReadPrefixed, ReadPrefixed, App!Clamp, Clamp
<1> QED  BY <1>1, <1>2, <1>3, <1>4, <1>5, <1>6, <1>7

PointsOver(D) == [index : Word, datum : D]

LEMMA PointsAlike ==
  ASSUME NEW D, NEW list \in Seq(PointsOver(D))
  PROVE  list \in Seq(App!PointOf(D))
<1>1. App!PointOf(D) = [index : Index, datum : D]  BY AppAlike
<1>2. PointsOver(D) = [index : Index, datum : D]
  <2>1. Word = Index  BY AppAssumptions
  <2> QED  BY <2>1 DEF PointsOver
<1> QED  BY <1>1, <1>2

LEMMA PrefixedList ==
  ASSUME NEW D, NEW list \in Seq(PointsOver(D))
  PROVE  ReadPrefixed(Len(list), Interleaved(list)) = <<list>>
<1>1. list \in Seq(App!PointOf(D))  BY PointsAlike
<1>2. App!ReadPrefixed(Len(list), App!Interleaved(list)) = <<list>>
  BY <1>1, AppAssumptions, App!PrefixedGives, Zenon
<1> QED  BY <1>2, AppAlike, Zenon

LEMMA ImpliedList ==
  ASSUME NEW D, NEW list \in Seq(PointsOver(D)), Len(list) <= IndexSpace, Contiguous(list)
  PROVE  LET start == list[1].index
             stop == list[Len(list)].index
             indices == IndicesFrom(start, RangeLength(start, stop), IndexSpace)
         IN  /\ Len(list) > 0 /\ start \in Word /\ stop \in Word
             /\ stop >= start =>
                   /\ RangeLength(start, stop) = Len(list) /\ Len(indices) = Len(list)
                   /\ ReadImplied(indices, [i \in 1 .. Len(list) |-> list[i].datum]) = <<list>>
<1> DEFINE start == list[1].index
           stop == list[Len(list)].index
           long == RangeLength(start, stop)
           indices == IndicesFrom(start, long, IndexSpace)
           n == Len(list)
           plain == [i \in 1 .. Len(list) |-> list[i].datum]
<1>1. list \in Seq(App!PointOf(D)) /\ App!Contiguous(list)  BY PointsAlike, AppAlike
<1>2. /\ n > 0 /\ start \in App!Index /\ stop \in App!Index
      /\ stop >= start =>
            App!IndicesFrom(start, App!RangeLength(start, stop), IndexSpace) =
                [i \in 1 .. n |-> list[i].index]
  <2>1. /\ 1 \in Nat \ {0} /\ ByteSpace % 1 = 0 /\ 0 \in 0 .. IndexSpace
        /\ ByteSpace \in Nat \ {0} /\ IndexSpace \in Nat \ {0} /\ ByteSpace <= IndexSpace
    BY AppAssumptions
  <2>2. Len(list) <= IndexSpace  OBVIOUS
  <2> QED  BY <1>1, <2>1, <2>2, App!ContiguousRange, Zenon
<1>3. start \in Word /\ stop \in Word  BY <1>2, AppAssumptions
<1>4. stop >= start => indices = [i \in 1 .. n |-> list[i].index]
  <2> DEFINE appIndices == App!IndicesFrom(start, App!RangeLength(start, stop), IndexSpace)
  <2>1. App!RangeLength(start, stop) = long  BY AppAlike, Zenon
  <2>2. App!IndicesFrom(start, long, IndexSpace) = indices  BY AppAlike, Zenon
  <2>3. appIndices = indices  BY <2>1, <2>2, Zenon
  <2>4. stop >= start => appIndices = [i \in 1 .. n |-> list[i].index]  BY <1>2
  <2> HIDE DEF appIndices, indices, start, stop, n
  <2> QED  BY <2>3, <2>4
<1>5. ASSUME stop >= start
      PROVE  long = n /\ Len(indices) = n /\ ReadImplied(indices, plain) = <<list>>
  <2>1. DOMAIN indices = 1 .. long  BY DEF IndicesFrom
  <2>2. indices = [i \in 1 .. n |-> list[i].index] /\ n \in Nat  BY <1>4, <1>5
  <2>3. long \in Nat /\ n \in Nat /\ n > 0
    <3> HIDE DEF start, stop
    <3>1. start \in Nat /\ stop \in Nat  BY <1>3, WordRange
    <3> QED  BY <1>2, <1>5, <3>1 DEF RangeLength
  <2>4. long = n
    <3>1. 1 .. long = 1 .. n  BY <2>1, <2>2
    <3> HIDE DEF long, n
    <3>2. n \in 1 .. long  BY <2>3, <3>1
    <3>3. long >= 1  BY <2>3, <3>2
    <3>4. long \in 1 .. n  BY <2>3, <3>1, <3>3
    <3> QED  BY <2>3, <3>2, <3>4
  <2>5. App!ReadImplied(indices, plain) = <<list>>
    <3> HIDE DEF indices
    <3> QED  BY <1>1, <2>2, AppAssumptions, App!ReadImpliedGives, Zenon
  <2>6. ReadImplied(indices, plain) = <<list>>  BY <2>5, AppAlike, Zenon
  <2>7. Len(indices) = n  BY <2>2
  <2> QED  BY <2>4, <2>6, <2>7
<1> QED  BY <1>2, <1>3, <1>5

LEMMA RangeReads ==
  ASSUME NEW D, NEW list \in Seq(PointsOver(D)), Len(list) <= IndexSpace, Contiguous(list),
         list[Len(list)].index >= list[1].index, NEW group, NEW variation, NEW h,
         h = RangeHeader(group, variation, list[1].index, list[Len(list)].index)
  PROVE  PrefixOf(h) = 0 /\ PointCount(h.qualifier) = Len(list) /\ ReadsAs(h, list)
<1> DEFINE start == list[1].index
           stop == list[Len(list)].index
           indices == IndicesFrom(start, RangeLength(start, stop), IndexSpace)
           n == Len(list)
           q == h.qualifier
           plain == [i \in 1 .. n |-> list[i].datum]
<1>1. /\ start \in Word /\ stop \in Word /\ RangeLength(start, stop) = n /\ Len(indices) = n
      /\ ReadImplied(indices, plain) = <<list>>
  BY ImpliedList
<1>2. q = [code |-> "Range16", start |-> start, stop |-> stop]  BY DEF RangeHeader
<1>3. start \in Nat /\ stop \in Nat /\ stop >= start  BY <1>1, WordRange
<1> HIDE DEF start, stop, indices, n, q
<1>4. q.code = "Range16" /\ q.start = start /\ q.stop = stop /\ ~ (stop < start)
  BY <1>2, <1>3
<1>5. PrefixOf(h) = 0  BY <1>4 DEF PrefixOf, PrefixSize, q
<1>6. PointCount(q) = n  BY <1>1, <1>4 DEF PointCount
<1>7. \A fields : Decode(KindOf(h.group), q, fields) = ReadImplied(indices, fields)
  BY <1>4 DEF Decode, indices
<1>8. \A fields : Len(fields) < n => Decode(KindOf(h.group), q, fields) = <<>>
  BY <1>1, <1>7 DEF ReadImplied
<1>9. Decode(KindOf(h.group), q, plain) = <<list>>  BY <1>1, <1>7
<1>10. FullBody(h, list) = plain /\ FieldCount(h, n) = n  BY <1>5 DEF FullBody, FieldCount, n
<1>11. ReadsAs(h, list)  BY <1>8, <1>9, <1>10 DEF ReadsAs, q, n
<1> QED  BY <1>5, <1>6, <1>11 DEF q, n

LEMMA PrefixReads ==
  ASSUME NEW D, NEW list \in Seq(PointsOver(D)), NEW group, NEW variation, NEW h,
         h = CountHeader(group, variation, "CountAndPrefix16", Len(list))
  PROVE  PrefixOf(h) = 2 /\ PointCount(h.qualifier) = Len(list) /\ ReadsAs(h, list)
<1> DEFINE n == Len(list)
           q == h.qualifier
<1>1. q = [code |-> "CountAndPrefix16", count |-> n] /\ n \in Nat  BY DEF CountHeader
<1> HIDE DEF n, q
<1>2. q.code = "CountAndPrefix16" /\ q.count = n  BY <1>1
<1>3. PrefixOf(h) = 2  BY <1>2 DEF PrefixOf, PrefixSize, q
<1>4. PointCount(q) = n  BY <1>2 DEF PointCount
<1>5. \A fields : Decode(KindOf(h.group), q, fields) = ReadPrefixed(n, fields)
  BY <1>2 DEF Decode
<1>6. FullBody(h, list) = Interleaved(list) /\ FieldCount(h, n) = 2 * n
  BY <1>3 DEF FullBody, FieldCount
<1>7. ReadPrefixed(n, Interleaved(list)) = <<list>>  BY PrefixedList DEF n
<1>8. \A fields : Len(fields) < 2 * n => Decode(KindOf(h.group), q, fields) = <<>>
  BY <1>5 DEF ReadPrefixed
<1>9. ReadsAs(h, list)  BY <1>5, <1>6, <1>7, <1>8 DEF ReadsAs, q, n
<1> QED  BY <1>3, <1>4, <1>9 DEF q, n

(* The index, flags and value of a point, and a suffix.                     *)
ChunkLaw(h, point, prefix, datum, suffix) ==
    ( /\ ValueOf(h) # 2 /\ prefix \in Seq(Octet) /\ Len(prefix) = PrefixOf(h)
      /\ PrefixOf(h) # 0 => Unsigned(prefix) = point.index
      /\ datum \in Seq(Octet) /\ Len(datum) = 1 + ValueOf(h) /\ point.datum = datum
      /\ suffix \in Seq(Octet) /\ Len(suffix) = SuffixSize(h.group, h.variation) ) =>
        /\ Cat(prefix, Cat(datum, suffix)) \in Seq(Octet)
        /\ Len(Cat(prefix, Cat(datum, suffix))) = PointSize(h)
        /\ IsPointOf(h, Cat(prefix, Cat(datum, suffix)), point)

LEMMA PointChunk ==
  ASSUME NEW h, NEW point, NEW prefix, NEW datum, NEW suffix
  PROVE  ChunkLaw(h, point, prefix, datum, suffix)
<1> SUFFICES ASSUME ValueOf(h) # 2, prefix \in Seq(Octet), Len(prefix) = PrefixOf(h),
                    PrefixOf(h) # 0 => Unsigned(prefix) = point.index,
                    datum \in Seq(Octet), Len(datum) = 1 + ValueOf(h), point.datum = datum,
                    suffix \in Seq(Octet), Len(suffix) = SuffixSize(h.group, h.variation)
             PROVE  LET chunk == Cat(prefix, Cat(datum, suffix))
                    IN  /\ chunk \in Seq(Octet) /\ Len(chunk) = PointSize(h)
                        /\ IsPointOf(h, chunk, point)
  BY Zenon DEF ChunkLaw
<1> DEFINE tail == Cat(datum, suffix)
           chunk == Cat(prefix, tail)
           p == PrefixOf(h)
           v == ValueOf(h)
           s == Len(suffix)
           size == PointSize(h)
           rest == Cut(chunk, p + 1, size)
<1>1. p \in Nat /\ v \in Nat /\ s \in Nat
  <2>1. p \in {0, 2, 4} /\ v \in {0, 2, 4}  BY SizeOfPoint, Zenon DEF PrefixOf, ValueOf
  <2>2. s \in Nat  OBVIOUS
  <2> HIDE DEF p, v
  <2> QED  BY <2>1, <2>2
<1>2. size = p + 1 + v + s  BY DEF PointSize
<1>3. CatTyped(datum, suffix) /\ CatTyped(prefix, tail)  BY Cats
<1>4. Len(prefix) = p /\ Len(datum) = 1 + v /\ Len(suffix) = s /\ v # 2  OBVIOUS
<1>5. tail \in Seq(Octet) /\ Len(tail) = 1 + v + s  BY <1>1, <1>3, <1>4 DEF CatTyped
<1> HIDE DEF tail, p, v, s, size
<1>6. chunk \in Seq(Octet) /\ Len(chunk) = size
  BY <1>1, <1>2, <1>3, <1>4, <1>5 DEF CatTyped
<1>7. rest = tail
  <2> DEFINE last == 1 + v + s
  <2>1. CutSecond(prefix, tail, 1, last, p + 1, size)  BY SecondCut
  <2>2. CutWhole(tail, last)  BY Cuts
  <2>3. Within(tail, 1, last) /\ size = p + last /\ last = Len(tail)
    BY <1>1, <1>2, <1>5 DEF Within
  <2> HIDE DEF chunk, last
  <2>4. Cut(Cat(prefix, tail), p + 1, size) = Cut(tail, 1, last)
    BY <1>4, <2>1, <2>3 DEF CutSecond
  <2> QED  BY <1>5, <2>2, <2>3, <2>4 DEF CutWhole, chunk
<1>8. Cut(tail, 1, 1 + v) = datum
  <2> DEFINE last == 1 + v
  <2>1. CutFirst(datum, suffix, 1, last) /\ CutWhole(datum, last)  BY Cuts
  <2>2. Within(datum, 1, last)  BY <1>1, <1>4 DEF Within
  <2> HIDE DEF last
  <2> QED  BY <1>4, <2>1, <2>2 DEF CutFirst, CutWhole, tail, last
<1>9. DatumIn(rest, v) = datum
  <2>1. DatumIn(rest, v) = Cut(tail, 1, 1 + v) \o <<>>  BY <1>4, <1>7 DEF DatumIn, Cut
  <2> QED  BY <1>8, <2>1, ConcatEmptySeq
<1>10. Cut(chunk, 1, p) = prefix
  <2>1. CutFirst(prefix, tail, 1, p) /\ CutWhole(prefix, p)  BY Cuts
  <2>2. Within(prefix, 1, p)  BY <1>1, <1>4 DEF Within
  <2> QED  BY <1>4, <1>5, <2>1, <2>2 DEF CutFirst, CutWhole
<1>11. IsPointOf(h, chunk, point)  BY <1>9, <1>10 DEF IsPointOf, p, v, size
<1> QED  BY <1>6, <1>11 DEF tail, size

(* Taken two by two, the parts are the same octets.                         *)
PairsOf(parts, n) == [i \in 1 .. n |-> Cat(parts[(2 * i) - 1], parts[2 * i])]

LEMMA TwoByTwo ==
  ASSUME NEW n \in Nat, NEW parts \in Seq(Seq(Octet)), Len(parts) = 2 * n
  PROVE  FlattenSeq(parts) = FlattenSeq(PairsOf(parts, n))
<1> DEFINE pairs == PairsOf(parts, n)
<1>0. pairs = [i \in 1 .. n |-> Cat(parts[(2 * i) - 1], parts[2 * i])]  BY DEF PairsOf
<1> HIDE DEF pairs
<1>1. ASSUME NEW i \in 1 .. n
      PROVE  /\ (2 * i) - 1 \in 1 .. Len(parts) /\ 2 * i \in 1 .. Len(parts)
             /\ parts[(2 * i) - 1] \in Seq(Octet) /\ parts[2 * i] \in Seq(Octet)
             /\ pairs[i] = Cat(parts[(2 * i) - 1], parts[2 * i]) /\ pairs[i] \in Seq(Octet)
  <2>1. (2 * i) - 1 \in 1 .. Len(parts) /\ 2 * i \in 1 .. Len(parts)  OBVIOUS
  <2>2. parts[(2 * i) - 1] \in Seq(Octet) /\ parts[2 * i] \in Seq(Octet)
    BY <2>1, ElementOfSeq
  <2>3. CatTyped(parts[(2 * i) - 1], parts[2 * i])  BY Cats
  <2> QED  BY <1>0, <2>1, <2>2, <2>3 DEF CatTyped
<1>2. pairs \in Seq(Seq(Octet)) /\ Len(pairs) = n
  <2>1. \A i \in 1 .. n : Cat(parts[(2 * i) - 1], parts[2 * i]) \in Seq(Octet)  BY <1>1
  <2>2. pairs \in [1 .. n -> Seq(Octet)]  BY <1>0, <2>1
  <2> QED  BY <2>2
<1> DEFINE T == {i \in Nat : i <= n => Before(parts, 2 * i) = Before(pairs, i)}
<1>3. 0 \in T
  <2>1. 2 * 0 = 0  OBVIOUS
  <2> QED  BY <2>1, BeforeNone
<1>4. ASSUME NEW i \in Nat, i \in T PROVE i + 1 \in T
  <2> SUFFICES ASSUME i + 1 <= n PROVE Before(parts, 2 * (i + 1)) = Before(pairs, i + 1)
    OBVIOUS
  <2> DEFINE k == i + 1
             odd == (2 * k) - 1
             even == 2 * k
             a == Before(parts, 2 * i)
  <2>1. /\ k \in 1 .. n /\ k - 1 = i /\ k \in 1 .. Len(pairs) /\ even - 1 = odd
        /\ odd - 1 = 2 * i
    BY <1>2
  <2>2. /\ odd \in 1 .. Len(parts) /\ even \in 1 .. Len(parts)
        /\ parts[odd] \in Seq(Octet) /\ parts[even] \in Seq(Octet)
        /\ pairs[k] = Cat(parts[odd], parts[even])
    BY <1>1, <2>1
  <2>3. a = Before(pairs, i)  BY <1>4
  <2> HIDE DEF k, odd, even
  <2>4. a \in Seq(Octet) /\ Before(parts, odd) = Cat(a, parts[odd])
    BY <2>1, <2>2, BeforeNext DEF Cat
  <2>5. Before(parts, even) = Cat(Before(parts, odd), parts[even])
    BY <2>1, <2>2, BeforeNext DEF Cat
  <2>6. Before(pairs, k) = Cat(a, pairs[k])
    BY <1>2, <2>1, <2>3, BeforeNext DEF Cat
  <2>7. Regroups(a, parts[odd], parts[even])  BY Cats
  <2>8. Before(parts, even) = Before(pairs, k)
    BY <2>2, <2>4, <2>5, <2>6, <2>7 DEF Regroups
  <2> QED  BY <2>8 DEF k, even
<1> HIDE DEF T
<1>5. Nat \subseteq T  BY <1>3, <1>4, SetInduction
<1>6. Before(parts, 2 * n) = Before(pairs, n)  BY <1>5 DEF T
<1>7. FlattenSeq(parts) = FlattenSeq(pairs)
  BY <1>2, <1>6, BeforeAll
<1> QED  BY <1>7 DEF pairs

-----------------------------------------------------------------------------
(* Lists of points as they are sent.                                        *)
DatumOctets(group, variation) ==
    {octets \in Seq(Octet) : Len(octets) = 1 + ValueSize(group, variation)}

IsSentGroup(group, variation) ==
    /\ group \in DOMAIN ListOf /\ group \in Octet /\ group # 0 /\ variation \in Octet
    /\ variation # 1 \/ group \notin {1, 3}
    /\ ValueSize(group, variation) # 2

LEMMA NoOctets == <<>> \in Seq(Octet) /\ Len(<<>>) = 0
OBVIOUS

LEMMA PointFields ==
  ASSUME NEW group, NEW variation,
         NEW list \in Seq(PointsOver(DatumOctets(group, variation))), NEW i \in 1 .. Len(list)
  PROVE  /\ list[i].index \in Word /\ list[i].datum \in Seq(Octet)
         /\ Len(list[i].datum) = 1 + ValueSize(group, variation)
<1> DEFINE D == DatumOctets(group, variation)
<1>1. list[i] \in PointsOver(D)  OBVIOUS
<1> HIDE DEF D
<1>2. list[i].index \in Word /\ list[i].datum \in D  BY <1>1 DEF PointsOver
<1> QED  BY <1>2, Zenon DEF D, DatumOctets

LEMMA PrefixedBody ==
  ASSUME NEW group, NEW variation, IsSentGroup(group, variation),
         NEW list \in Seq(PointsOver(DatumOctets(group, variation))),
         NEW suffix \in Seq(Octet), Len(suffix) = SuffixSize(group, variation),
         NEW h, h = CountHeader(group, variation, "CountAndPrefix16", Len(list)),
         NEW chunks, chunks = [i \in 1 .. Len(list) |->
                                 Cat(TwoOctets(list[i].index), Cat(list[i].datum, suffix))]
  PROVE  IsBody(h, FlattenSeq(chunks), PointList(ListOf[group], list), FALSE)
<1> DEFINE n == Len(list)
           size == PointSize(h)
           w == FlattenSeq(chunks)
<1>1. PrefixOf(h) = 2 /\ PointCount(h.qualifier) = n /\ ReadsAs(h, list)  BY PrefixReads
<1>2. /\ h.group = group /\ h.variation = variation /\ h.qualifier.code = "CountAndPrefix16"
      /\ n \in Nat
  BY DEF CountHeader
<1>3. ValueOf(h) = ValueSize(group, variation) /\ ValueOf(h) # 2
  BY <1>2 DEF ValueOf, IsSentGroup
<1>4. IsPointsHeader(h, n)  BY <1>1, <1>2 DEF IsPointsHeader, IsSentGroup, IsPacked
<1>5. \A i \in 1 .. n : /\ list[i].index \in Word /\ list[i].datum \in Seq(Octet)
                        /\ Len(list[i].datum) = 1 + ValueOf(h)
  BY <1>3, PointFields
<1> HIDE DEF n, size, w
<1>6. ASSUME NEW i \in 1 .. n
      PROVE  chunks[i] \in Seq(Octet) /\ Len(chunks[i]) = size /\ IsPointOf(h, chunks[i], list[i])
  <2> DEFINE prefix == TwoOctets(list[i].index)
             datum == list[i].datum
             point == list[i]
             chunk == Cat(prefix, Cat(datum, suffix))
  <2>1. /\ prefix \in Seq(Octet) /\ Len(prefix) = PrefixOf(h)
        /\ Unsigned(prefix) = point.index
    BY <1>1, <1>5, UnsignedTwo
  <2>2. datum \in Seq(Octet) /\ Len(datum) = 1 + ValueOf(h) /\ point.datum = datum  BY <1>5
  <2>3. Len(suffix) = SuffixSize(h.group, h.variation)  BY <1>2
  <2>4. chunks[i] = chunk  BY DEF n
  <2> HIDE DEF prefix, datum, point
  <2>5. chunk \in Seq(Octet) /\ Len(chunk) = PointSize(h) /\ IsPointOf(h, chunk, point)
    <3>1. ChunkLaw(h, point, prefix, datum, suffix)  BY PointChunk
    <3> QED  BY <1>3, <2>1, <2>2, <2>3, <3>1, Zenon DEF ChunkLaw
  <2> QED  BY <2>4, <2>5 DEF size, point
<1>7. size \in Nat  BY PointSizeType DEF size
<1>8. chunks \in Seq(Seq(Octet)) /\ Len(chunks) = n
  <2>1. chunks = [i \in 1 .. n |-> chunks[i]]  BY DEF n
  <2>2. chunks \in [1 .. n -> Seq(Octet)]  BY <1>6, <2>1
  <2> QED  BY <1>2, <2>2
<1>9. LaidOut(w, chunks, n, size)  BY <1>2, <1>6, <1>7, <1>8, UniformLaidOut DEF w
<1>10. Len(list) = n  BY DEF n
<1>11. IsBody(h, w, PointList(ListOf[h.group], list), FALSE)
  BY <1>1, <1>2, <1>4, <1>6, <1>9, <1>10, PointsBody DEF size
<1> QED  BY <1>2, <1>11 DEF w

LEMMA RangeBody ==
  ASSUME NEW group, NEW variation, IsSentGroup(group, variation), SuffixSize(group, variation) = 0,
         NEW list \in Seq(PointsOver(DatumOctets(group, variation))),
         Len(list) <= IndexSpace, Contiguous(list), list[Len(list)].index >= list[1].index,
         NEW h, h = RangeHeader(group, variation, list[1].index, list[Len(list)].index),
         NEW chunks, chunks = [i \in 1 .. Len(list) |-> list[i].datum]
  PROVE  IsBody(h, FlattenSeq(chunks), PointList(ListOf[group], list), FALSE)
<1> DEFINE n == Len(list)
           size == PointSize(h)
           w == FlattenSeq(chunks)
           none == <<>>
<1>1. PrefixOf(h) = 0 /\ PointCount(h.qualifier) = n /\ ReadsAs(h, list)  BY RangeReads
<1>2. /\ h.group = group /\ h.variation = variation /\ n \in Nat
  BY DEF RangeHeader
<1>3. ValueOf(h) = ValueSize(group, variation) /\ ValueOf(h) # 2
  BY <1>2 DEF ValueOf, IsSentGroup
<1>4. IsPointsHeader(h, n)  BY <1>1, <1>2 DEF IsPointsHeader, IsSentGroup, IsPacked
<1>5. \A i \in 1 .. n : /\ list[i].datum \in Seq(Octet)
                        /\ Len(list[i].datum) = 1 + ValueOf(h)
  BY <1>3, PointFields
<1> HIDE DEF n, size, w
<1>6. ASSUME NEW i \in 1 .. n
      PROVE  chunks[i] \in Seq(Octet) /\ Len(chunks[i]) = size /\ IsPointOf(h, chunks[i], list[i])
  <2> DEFINE datum == list[i].datum
             point == list[i]
             chunk == Cat(none, Cat(datum, none))
  <2>1. none \in Seq(Octet) /\ Len(none) = 0 /\ Len(none) = PrefixOf(h)
        /\ Len(none) = SuffixSize(h.group, h.variation)
    BY <1>1, <1>2, NoOctets
  <2>2. datum \in Seq(Octet) /\ Len(datum) = 1 + ValueOf(h) /\ point.datum = datum  BY <1>5
  <2>3. chunks[i] = datum  BY DEF n
  <2>4. Cat(none, Cat(datum, none)) = datum
    <3>1. Cat(datum, none) = datum  BY <2>2, ConcatEmptySeq DEF Cat
    <3>2. Cat(none, datum) = datum  BY <2>2, ConcatEmptySeq DEF Cat
    <3> QED  BY <3>1, <3>2
  <2> HIDE DEF datum, point, none
  <2>5. chunk \in Seq(Octet) /\ Len(chunk) = PointSize(h) /\ IsPointOf(h, chunk, point)
    <3>1. PrefixOf(h) # 0 => Unsigned(none) = point.index  BY <1>1
    <3>2. ChunkLaw(h, point, none, datum, none)  BY PointChunk
    <3> QED  BY <1>3, <2>1, <2>2, <3>1, <3>2, Zenon DEF ChunkLaw
  <2> QED  BY <2>3, <2>4, <2>5 DEF size, point
<1>7. size \in Nat  BY PointSizeType DEF size
<1>8. chunks \in Seq(Seq(Octet)) /\ Len(chunks) = n
  <2>1. chunks = [i \in 1 .. n |-> chunks[i]]  BY DEF n
  <2>2. chunks \in [1 .. n -> Seq(Octet)]  BY <1>6, <2>1
  <2> QED  BY <1>2, <2>2
<1>9. LaidOut(w, chunks, n, size)  BY <1>2, <1>6, <1>7, <1>8, UniformLaidOut DEF w
<1>10. Len(list) = n  BY DEF n
<1>11. IsBody(h, w, PointList(ListOf[h.group], list), FALSE)
  BY <1>1, <1>2, <1>4, <1>6, <1>9, <1>10, PointsBody DEF size
<1> QED  BY <1>2, <1>11 DEF w

(* A range that wraps is an error, whatever follows it.                     *)
LEMMA WrapsBody ==
  ASSUME NEW group, NEW variation, IsSentGroup(group, variation),
         NEW start \in Nat, NEW stop \in Nat, stop < start,
         NEW h, h = RangeHeader(group, variation, start, stop), NEW w \in Seq(Octet), NEW x
  PROVE  IsBody(h, w, x, TRUE)
<1>1. /\ h.group = group /\ h.variation = variation /\ h.qualifier.code = "Range16"
      /\ h.qualifier.start = start /\ h.qualifier.stop = stop
  BY DEF RangeHeader
<1>2. ASSUME NEW r \in Seq(Octet)
      PROVE  DecodeObject(h, r) = {}
  <2>1. Decode(KindOf(h.group), h.qualifier, Fields(h, r)) = <<>>  BY <1>1 DEF Decode
  <2>2. ListsRead(h, r) = {}  BY <2>1 DEF ListsRead, Range
  <2>3. DecodePoints(h, r) = {}  BY <2>2, PointsRead
  <2>4. ~ IsPacked(h)  BY <1>1 DEF IsPacked, IsSentGroup
  <2>5. h.group \in DOMAIN ListOf /\ h.group # 0  BY <1>1 DEF IsSentGroup
  <2>6. 50 \notin DOMAIN ListOf /\ 60 \notin DOMAIN ListOf  BY DEF ListOf
  <2>7. h.group # 50 /\ h.group # 60  BY <2>5, <2>6, Zenon
  <2> QED  BY <2>3, <2>4, <2>5, <2>7 DEF DecodeObject
<1> QED  BY <1>2 DEF IsBody

(* What Encode makes of a list, as octets.                                  *)
PartsOf(object) ==
    [k \in DOMAIN object.body |->
        IF object.qualifier.code = "CountAndPrefix16" /\ k % 2 = 1
        THEN TwoOctets(object.body[k]) ELSE object.body[k]]

LEMMA EncodedOne ==
  ASSUME NEW type, NEW list, NEW object, Encode(list) = <<object>>
  PROVE  /\ EncodePoints(type, list) # <<>>
         /\ EncodePoints(type, list)[1] =
              EncodeHeader(SentAs[type][1], SentAs[type][2], object.qualifier)
              \o FlattenSeq(PartsOf(object))
<1> DEFINE Made(x) == EncodeHeader(SentAs[type][1], SentAs[type][2], x.qualifier)
                      \o FlattenSeq(PartsOf(x))
<1>1. EncodePoints(type, list) = [i \in DOMAIN Encode(list) |-> Made(Encode(list)[i])]
  BY Zenon DEF EncodePoints, PartsOf
<1>2. DOMAIN Encode(list) = {1} /\ Encode(list)[1] = object  OBVIOUS
<1> HIDE DEF Made
<1>3. EncodePoints(type, list) = [i \in {1} |-> Made(Encode(list)[i])]  BY <1>1, <1>2
<1>4. DOMAIN EncodePoints(type, list) = {1} /\ EncodePoints(type, list)[1] = Made(object)
  BY <1>2, <1>3
<1>5. EncodePoints(type, list) # <<>>
  <2>1. DOMAIN <<>> # {1}  OBVIOUS
  <2> QED  BY <1>4, <2>1
<1> QED  BY <1>4, <1>5 DEF Made

LEMMA RangeSent ==
  ASSUME NEW group, NEW variation, IsSentGroup(group, variation), SuffixSize(group, variation) = 0,
         NEW list \in Seq(PointsOver(DatumOctets(group, variation))),
         Len(list) <= IndexSpace, Contiguous(list), NEW object,
         object = [qualifier |-> [code |-> "Range16", start |-> list[1].index,
                                  stop |-> list[Len(list)].index],
                   body |-> [i \in DOMAIN list |-> list[i].datum]]
  PROVE  IsObject(EncodeHeader(group, variation, object.qualifier) \o FlattenSeq(PartsOf(object)),
                  PointList(ListOf[group], list), list[Len(list)].index < list[1].index)
<1> DEFINE n == Len(list)
           start == list[1].index
           stop == list[n].index
           w == EncodeHeader(group, variation, object.qualifier)
           h == RangeHeader(group, variation, start, stop)
           parts == PartsOf(object)
           b == FlattenSeq(parts)
           x == PointList(ListOf[group], list)
<1>1. n > 0 /\ start \in Word /\ stop \in Word  BY ImpliedList
<1>2. start \in Nat /\ stop \in Nat  BY <1>1, WordRange
<1>3. w = <<group, variation, 1>> \o (TwoOctets(start) \o TwoOctets(stop))
  BY DEF EncodeHeader, QualifierCode
<1>4. IsHeader(w, h)
  <2> HIDE DEF w, start, stop
  <2> QED  BY <1>1, <1>3, HeaderRange DEF IsSentGroup
<1>5. parts = [i \in 1 .. n |-> list[i].datum]
  <2>1. object.qualifier.code = "Range16" /\ object.body = [i \in 1 .. n |-> list[i].datum]
    OBVIOUS
  <2> QED  BY <2>1 DEF PartsOf
<1>6. CASE stop < start
  <2>1. b \in Seq(Octet)
    <3>1. \A i \in 1 .. n : list[i].datum \in Seq(Octet)  BY PointFields
    <3>2. n \in Nat  OBVIOUS
    <3> HIDE DEF n
    <3>3. parts \in [1 .. n -> Seq(Octet)]  BY <1>5, <3>1
    <3>4. parts \in Seq(Seq(Octet))  BY <3>2, <3>3
    <3> HIDE DEF parts
    <3> QED  BY <3>4, FlattenType
  <2> HIDE DEF w, start, stop, parts, b, x, h
  <2>2. IsBody(h, b, x, TRUE)  BY <1>2, <1>6, <2>1, WrapsBody DEF h
  <2>3. IsObject(Cat(w, b), x, TRUE)  BY <1>4, <2>2 DEF IsObject
  <2>4. IsObject(Cat(w, b), x, stop < start)  BY <1>6, <2>3
  <2> QED  BY <2>4 DEF Cat, w, b, x, start, stop, parts, n
<1>7. CASE ~ (stop < start)
  <2>1. list[Len(list)].index >= list[1].index  BY <1>2, <1>7
  <2>2. h = RangeHeader(group, variation, list[1].index, list[Len(list)].index)  OBVIOUS
  <2>3. parts = [i \in 1 .. Len(list) |-> list[i].datum]  BY <1>5
  <2> HIDE DEF h, parts
  <2>4. IsBody(h, FlattenSeq(parts), x, FALSE)  BY <2>1, <2>2, <2>3, RangeBody
  <2> HIDE DEF w, start, stop, b, x
  <2>5. IsObject(Cat(w, b), x, FALSE)  BY <1>4, <2>4 DEF IsObject, b
  <2>6. (stop < start) = FALSE  BY <1>2, <1>7
  <2>7. IsObject(Cat(w, b), x, stop < start)  BY <2>5, <2>6
  <2> QED  BY <2>7 DEF Cat, w, b, x, start, stop, parts, n
<1> QED  BY <1>6, <1>7

LEMMA PrefixedSent ==
  ASSUME NEW group, NEW variation, IsSentGroup(group, variation), SuffixSize(group, variation) = 0,
         NEW list \in Seq(PointsOver(DatumOctets(group, variation))), Len(list) < ByteSpace,
         NEW object,
         object = [qualifier |-> [code |-> "CountAndPrefix16", count |-> Len(list)],
                   body |-> Interleaved(list)]
  PROVE  IsObject(EncodeHeader(group, variation, object.qualifier) \o FlattenSeq(PartsOf(object)),
                  PointList(ListOf[group], list), FALSE)
<1> DEFINE n == Len(list)
           w == EncodeHeader(group, variation, object.qualifier)
           h == CountHeader(group, variation, "CountAndPrefix16", n)
           parts == PartsOf(object)
           none == <<>>
           pairs == [i \in 1 .. n |-> Cat(TwoOctets(list[i].index), Cat(list[i].datum, none))]
           x == PointList(ListOf[group], list)
<1>1. n \in Nat /\ n \in Octet
  <2>1. n \in Nat /\ n < ByteSpace  OBVIOUS
  <2> HIDE DEF n
  <2>2. n <= 255  BY <2>1, WidthsAssumption
  <2> QED  BY <2>1, <2>2, OctetRange
<1>2. w = <<group, variation, 40>> \o <<n>>  BY DEF EncodeHeader, QualifierCode
<1>3. IsHeader(w, h)
  <2> DEFINE octet == 40
             code == "CountAndPrefix16"
  <2>1. octet \in {34, 40} /\ code = "CountAndPrefix16" /\ w = <<group, variation, octet>> \o <<n>>
    BY <1>2
  <2> HIDE DEF w, n
  <2>2. IsHeader(w, CountHeader(group, variation, code, n))
    <3> HIDE DEF octet, code
    <3> QED  BY <1>1, <2>1, HeaderCount DEF IsSentGroup
  <2> QED  BY <2>2
<1>4. \A i \in 1 .. n : /\ list[i].index \in Word /\ list[i].datum \in Seq(Octet)
                        /\ TwoOctets(list[i].index) \in Seq(Octet)
                        /\ Cat(list[i].datum, none) = list[i].datum
  <2> SUFFICES ASSUME NEW i \in 1 .. n
               PROVE  /\ list[i].index \in Word /\ list[i].datum \in Seq(Octet)
                      /\ TwoOctets(list[i].index) \in Seq(Octet)
                      /\ Cat(list[i].datum, none) = list[i].datum
    OBVIOUS
  <2>1. list[i].index \in Word /\ list[i].datum \in Seq(Octet)  BY PointFields
  <2> QED  BY <2>1, UnsignedTwo, CatNone
<1>5. parts = [k \in 1 .. 2 * n |-> IF k % 2 = 1 THEN TwoOctets(list[(k + 1) \div 2].index)
                                    ELSE list[k \div 2].datum]
  <2>1. object.body = [k \in 1 .. 2 * n |-> IF k % 2 = 1 THEN list[(k + 1) \div 2].index
                                            ELSE list[k \div 2].datum]
    BY DEF Interleaved
  <2>2. object.qualifier.code = "CountAndPrefix16"  OBVIOUS
  <2> HIDE DEF n
  <2>3. DOMAIN object.body = 1 .. 2 * n  BY <2>1
  <2>4. parts = [k \in 1 .. 2 * n |-> IF k % 2 = 1 THEN TwoOctets(object.body[k])
                                      ELSE object.body[k]]
    BY <2>2, <2>3 DEF PartsOf
  <2>5. ASSUME NEW k \in 1 .. 2 * n
        PROVE  (IF k % 2 = 1 THEN TwoOctets(object.body[k]) ELSE object.body[k]) =
               (IF k % 2 = 1 THEN TwoOctets(list[(k + 1) \div 2].index)
                ELSE list[k \div 2].datum)
    BY <2>1
  <2> QED  BY <2>4, <2>5
<1> HIDE DEF n, parts, w, none
<1>6. parts \in Seq(Seq(Octet)) /\ Len(parts) = 2 * n
  <2>1. ASSUME NEW k \in 1 .. 2 * n
        PROVE  (IF k % 2 = 1 THEN TwoOctets(list[(k + 1) \div 2].index)
                ELSE list[k \div 2].datum) \in Seq(Octet)
    <3>1. k % 2 = 1 => (k + 1) \div 2 \in 1 .. n  BY <1>1
    <3>2. k % 2 # 1 => k \div 2 \in 1 .. n  BY <1>1
    <3> QED  BY <1>4, <3>1, <3>2
  <2>2. parts \in [1 .. 2 * n -> Seq(Octet)]  BY <1>5, <2>1
  <2>3. 2 * n \in Nat  BY <1>1
  <2> QED  BY <2>2, <2>3
<1>7. pairs = [i \in 1 .. n |-> Cat(parts[(2 * i) - 1], parts[2 * i])]
  <2>1. ASSUME NEW i \in 1 .. n
        PROVE  Cat(TwoOctets(list[i].index), Cat(list[i].datum, none)) =
               Cat(parts[(2 * i) - 1], parts[2 * i])
    <3>1. /\ (2 * i) - 1 \in 1 .. 2 * n /\ 2 * i \in 1 .. 2 * n /\ i \in Nat /\ i > 0
      BY <1>1
    <3>2. /\ (2 * i) % 2 = 0 /\ (2 * i) \div 2 = i
          /\ ((2 * i) - 1) % 2 = 1 /\ (((2 * i) - 1) + 1) \div 2 = i
      BY <3>1, App!Doubled
    <3>3. parts[(2 * i) - 1] = TwoOctets(list[i].index)  BY <1>5, <3>1, <3>2
    <3>4. parts[2 * i] = list[i].datum  BY <1>5, <3>1, <3>2
    <3>5. Cat(list[i].datum, none) = list[i].datum  BY <1>4
    <3> QED  BY <3>3, <3>4, <3>5
  <2> QED  BY <2>1
<1>8. FlattenSeq(parts) = FlattenSeq(pairs)
  <2> HIDE DEF pairs
  <2>1. FlattenSeq(parts) = FlattenSeq(PairsOf(parts, n))  BY <1>1, <1>6, TwoByTwo
  <2> QED  BY <1>7, <2>1 DEF PairsOf
<1>9. IsBody(h, FlattenSeq(pairs), x, FALSE)
  <2>1. none \in Seq(Octet) /\ Len(none) = SuffixSize(group, variation)
    BY NoOctets DEF none
  <2>2. pairs = [i \in 1 .. Len(list) |->
                   Cat(TwoOctets(list[i].index), Cat(list[i].datum, none))]
        /\ h = CountHeader(group, variation, "CountAndPrefix16", Len(list))
    BY DEF n
  <2> HIDE DEF pairs, h
  <2> QED  BY <2>1, <2>2, PrefixedBody
<1> HIDE DEF h, x, pairs
<1>10. IsObject(Cat(w, FlattenSeq(parts)), x, FALSE)  BY <1>3, <1>8, <1>9 DEF IsObject
<1> QED  BY <1>10 DEF Cat, w, parts, x

PointTypes == {"BinaryInputs", "DoubleBitBinaryInputs", "BinaryOutputs", "AnalogInputs",
               "AnalogOutputs", "Counters"}

LEMMA SentGroups ==
  ASSUME NEW type \in DOMAIN SentAs, NEW group, group = SentAs[type][1],
         NEW variation, variation = SentAs[type][2]
  PROVE  /\ type \in PointTypes /\ IsSentGroup(group, variation) /\ ListOf[group] = type
         /\ SuffixSize(group, variation) = 0 /\ DatumOf(type) = DatumOctets(group, variation)
<1>1. DOMAIN SentAs = PointTypes  BY DEF SentAs, PointTypes
<1>2. DatumOf(type) = DatumOctets(group, variation)  BY Zenon DEF DatumOf, DatumOctets
<1>3. /\ 1 \in Octet /\ 2 \in Octet /\ 3 \in Octet /\ 10 \in Octet /\ 20 \in Octet
      /\ 30 \in Octet /\ 40 \in Octet
  BY OctetRange
<1>4. CASE type = "BinaryInputs"
  BY <1>1, <1>2, <1>3, <1>4 DEF SentAs, IsSentGroup, ListOf, SuffixSize, ValueSize, KindOf
<1>5. CASE type = "DoubleBitBinaryInputs"
  BY <1>1, <1>2, <1>3, <1>5 DEF SentAs, IsSentGroup, ListOf, SuffixSize, ValueSize, KindOf
<1>6. CASE type = "BinaryOutputs"
  BY <1>1, <1>2, <1>3, <1>6 DEF SentAs, IsSentGroup, ListOf, SuffixSize, ValueSize, KindOf
<1>7. CASE type = "AnalogInputs"
  BY <1>1, <1>2, <1>3, <1>7 DEF SentAs, IsSentGroup, ListOf, SuffixSize, ValueSize, KindOf
<1>8. CASE type = "AnalogOutputs"
  BY <1>1, <1>2, <1>3, <1>8 DEF SentAs, IsSentGroup, ListOf, SuffixSize, ValueSize, KindOf
<1>9. CASE type = "Counters"
  BY <1>1, <1>2, <1>3, <1>9 DEF SentAs, IsSentGroup, ListOf, SuffixSize, ValueSize, KindOf
<1> QED  BY <1>1, <1>4, <1>5, <1>6, <1>7, <1>8, <1>9 DEF PointTypes

WrapsRound(list) == Contiguous(list) /\ list[Len(list)].index < list[1].index

LEMMA ListSent ==
  ASSUME NEW type \in DOMAIN SentAs, NEW list \in Lists(type)
  PROVE  /\ EncodePoints(type, list) # <<>>
         /\ IsObject(EncodePoints(type, list)[1], PointList(type, list), WrapsRound(list))
         /\ WrapsRound(list) \in BOOLEAN
         /\ list \in Seq(PointsOver(DatumOf(type)))
<1> DEFINE group == SentAs[type][1]
           variation == SentAs[type][2]
<1>1. /\ IsSentGroup(group, variation) /\ ListOf[group] = type
      /\ SuffixSize(group, variation) = 0 /\ DatumOf(type) = DatumOctets(group, variation)
  BY SentGroups
<1>2. /\ list \in Seq(PointsOver(DatumOf(type)))
      /\ Len(list) <= IndexSpace /\ Encode(list) # <<>>
  BY DEF Lists, PointsOver
<1>3. list \in Seq(PointsOver(DatumOctets(group, variation)))  BY <1>1, <1>2
<1>4. CASE Contiguous(list)
  <2> DEFINE object == [qualifier |-> [code |-> "Range16", start |-> list[1].index,
                                       stop |-> list[Len(list)].index],
                        body |-> [i \in DOMAIN list |-> list[i].datum]]
             bad == list[Len(list)].index < list[1].index
  <2>1. Encode(list) = <<object>>  BY <1>4, Zenon DEF Encode
  <2>2. IsObject(EncodeHeader(group, variation, object.qualifier) \o FlattenSeq(PartsOf(object)),
                 PointList(ListOf[group], list), bad)
    <3> HIDE DEF group, variation
    <3> QED  BY <1>1, <1>2, <1>3, <1>4, RangeSent
  <2>3. (bad = WrapsRound(list)) /\ WrapsRound(list) \in BOOLEAN
    <3>1. /\ list[1].index \in Word /\ list[Len(list)].index \in Word
      BY <1>2, <1>4, ImpliedList
    <3>2. bad \in BOOLEAN  BY <3>1
    <3> HIDE DEF bad
    <3>3. WrapsRound(list) <=> bad  BY <1>4 DEF WrapsRound, bad
    <3>4. WrapsRound(list) \in BOOLEAN  BY Zenon DEF WrapsRound
    <3> QED  BY <3>2, <3>3, <3>4
  <2> HIDE DEF object, bad
  <2>4. EncodePoints(type, list) # <<>>
        /\ EncodePoints(type, list)[1] = EncodeHeader(group, variation, object.qualifier)
                                         \o FlattenSeq(PartsOf(object))
    BY <2>1, EncodedOne
  <2> HIDE DEF group, variation
  <2> QED  BY <1>1, <1>2, <2>2, <2>3, <2>4
<1>5. CASE ~ Contiguous(list)
  <2> DEFINE object == [qualifier |-> [code |-> "CountAndPrefix16", count |-> Len(list)],
                        body |-> Interleaved(list)]
  <2>1. Encode(list) = <<object>> /\ Len(list) < ByteSpace  BY <1>2, <1>5, Zenon DEF Encode
  <2>2. IsObject(EncodeHeader(group, variation, object.qualifier) \o FlattenSeq(PartsOf(object)),
                 PointList(ListOf[group], list), FALSE)
    <3> HIDE DEF group, variation
    <3> QED  BY <1>1, <1>2, <1>3, <2>1, PrefixedSent
  <2>3. WrapsRound(list) = FALSE  BY <1>5 DEF WrapsRound
  <2> HIDE DEF object
  <2>4. EncodePoints(type, list) # <<>>
        /\ EncodePoints(type, list)[1] = EncodeHeader(group, variation, object.qualifier)
                                         \o FlattenSeq(PartsOf(object))
    BY <2>1, EncodedOne
  <2> HIDE DEF group, variation
  <2> QED  BY <1>1, <1>2, <2>2, <2>3, <2>4
<1> QED  BY <1>4, <1>5

IsPoints(o, type) == o = PointList(type, o.points) /\ o.points \in Lists(type)

LEMMA ObjectKinds ==
  ASSUME NEW o \in Objects
  PROVE  \/ \E type \in DOMAIN SentAs : IsPoints(o, type)
         \/ \E class \in 0 .. 3 : o = ClassScan(class)
         \/ \E stamp \in Stamp : o = Time(stamp)
         \/ o = IntegrityPoll
<1>1. \/ \E type \in DOMAIN SentAs : o \in [type : {type}, points : Lists(type)]
      \/ o \in [type : {"ClassScan"}, class : 0 .. 3]
      \/ o \in [type : {"Time"}, stamp : Stamp]
      \/ o = IntegrityPoll
  BY ObjectsAssumption
<1>2. ASSUME NEW type, o \in [type : {type}, points : Lists(type)]
      PROVE  IsPoints(o, type)
  BY <1>2 DEF IsPoints, PointList
<1>3. ASSUME o \in [type : {"ClassScan"}, class : 0 .. 3]
      PROVE  \E class \in 0 .. 3 : o = ClassScan(class)
  <2>1. o.class \in 0 .. 3 /\ o = ClassScan(o.class)  BY <1>3 DEF ClassScan
  <2> QED  BY <2>1
<1>4. ASSUME o \in [type : {"Time"}, stamp : Stamp]
      PROVE  \E stamp \in Stamp : o = Time(stamp)
  <2>1. o.stamp \in Stamp /\ o = Time(o.stamp)  BY <1>4 DEF Time
  <2> QED  BY <2>1
<1> QED  BY <1>1, <1>2, <1>3, <1>4

LEMMA ObjectSent ==
  ASSUME NEW o \in Objects
  PROVE  /\ EncodeObject(o) # <<>> /\ IsObject(EncodeObject(o)[1], AsRead(o), Wraps(o))
         /\ Wraps(o) \in BOOLEAN
<1>1. CASE \E type \in DOMAIN SentAs : IsPoints(o, type)
  <2>1. PICK type \in DOMAIN SentAs : IsPoints(o, type)  BY <1>1
  <2>2. type \in PointTypes  BY SentGroups
  <2> DEFINE list == o.points
  <2>3. o = PointList(type, list) /\ list \in Lists(type)  BY <2>1 DEF IsPoints
  <2>4. /\ EncodePoints(type, list) # <<>> /\ WrapsRound(list) \in BOOLEAN
        /\ IsObject(EncodePoints(type, list)[1], PointList(type, list), WrapsRound(list))
    BY <2>3, ListSent
  <2>5. o.type = type /\ "points" \in DOMAIN o  BY <2>3 DEF PointList
  <2>6. o.type \notin {"IntegrityPoll", "ClassScan", "Time"}  BY <2>2, <2>5 DEF PointTypes
  <2>7. EncodeObject(o) = EncodePoints(type, list)  BY <2>5, <2>6 DEF EncodeObject
  <2>8. AsRead(o) = o
    <3>1. o # ClassScan(0)  BY <2>6 DEF ClassScan
    <3> QED  BY <3>1 DEF AsRead
  <2>9. Wraps(o) = WrapsRound(list)  BY <2>5, Zenon DEF Wraps, WrapsRound
  <2> HIDE DEF list
  <2> QED  BY <2>3, <2>4, <2>7, <2>8, <2>9
<1>2. ASSUME NEW variation \in 1 .. 4, "points" \notin DOMAIN o,
             EncodeObject(o) = <<EncodeHeader(60, variation, [code |-> "AllObjects"])>>,
             AsRead(o) = IF variation = 1 THEN IntegrityPoll ELSE ClassScan(variation - 1)
      PROVE  /\ EncodeObject(o) # <<>> /\ IsObject(EncodeObject(o)[1], AsRead(o), Wraps(o))
             /\ Wraps(o) \in BOOLEAN
  <2> DEFINE w == EncodeHeader(60, variation, [code |-> "AllObjects"])
             x == IF variation = 1 THEN IntegrityPoll ELSE ClassScan(variation - 1)
  <2>1. Wraps(o) = FALSE  BY <1>2 DEF Wraps
  <2>2. IsObject(w, x, FALSE)  BY ClassObject
  <2>3. EncodeObject(o) = <<w>> /\ AsRead(o) = x  BY <1>2
  <2> HIDE DEF w, x
  <2>4. EncodeObject(o) # <<>> /\ EncodeObject(o)[1] = w  BY <2>3
  <2> QED  BY <2>1, <2>2, <2>3, <2>4, Zenon
<1>3. CASE \E class \in 0 .. 3 : o = ClassScan(class)
  <2>1. PICK class \in 0 .. 3 : o = ClassScan(class)  BY <1>3
  <2> DEFINE variation == class + 1
  <2>2. variation \in 1 .. 4 /\ (variation = 1 <=> class = 0) /\ variation - 1 = class  OBVIOUS
  <2>3. o.type = "ClassScan" /\ o.class = class /\ "points" \notin DOMAIN o
    BY <2>1 DEF ClassScan
  <2>4. EncodeObject(o) = <<EncodeHeader(60, variation, [code |-> "AllObjects"])>>
    BY <2>3 DEF EncodeObject
  <2>5. class = 0 <=> o = ClassScan(0)  BY <2>1, <2>3 DEF ClassScan
  <2> HIDE DEF variation
  <2>6. AsRead(o) = IF variation = 1 THEN IntegrityPoll ELSE ClassScan(variation - 1)
    BY <2>1, <2>2, <2>5 DEF AsRead
  <2> QED  BY <1>2, <2>2, <2>3, <2>4, <2>6
<1>4. CASE o = IntegrityPoll
  <2>1. o.type = "IntegrityPoll" /\ "points" \notin DOMAIN o  BY <1>4 DEF IntegrityPoll
  <2>2. EncodeObject(o) = <<EncodeHeader(60, 1, [code |-> "AllObjects"])>>
    BY <2>1 DEF EncodeObject
  <2>3. AsRead(o) = IntegrityPoll
    <3>1. o # ClassScan(0)  BY <2>1 DEF ClassScan
    <3> QED  BY <1>4, <3>1 DEF AsRead
  <2> DEFINE one == 1
  <2>4. one \in 1 .. 4 /\ one = 1  OBVIOUS
  <2>5. EncodeObject(o) = <<EncodeHeader(60, one, [code |-> "AllObjects"])>>  BY <2>2
  <2> HIDE DEF one
  <2>6. AsRead(o) = IF one = 1 THEN IntegrityPoll ELSE ClassScan(one - 1)  BY <2>3, <2>4
  <2> QED  BY <1>2, <2>1, <2>4, <2>5, <2>6
<1>5. CASE \E stamp \in Stamp : o = Time(stamp)
  <2>1. PICK stamp \in Stamp : o = Time(stamp)  BY <1>5
  <2>2. o.type = "Time" /\ o.stamp = stamp /\ "points" \notin DOMAIN o  BY <2>1 DEF Time
  <2> DEFINE w == EncodeHeader(50, 1, [code |-> "Count8", count |-> 1]) \o stamp
  <2>3. EncodeObject(o) = <<w>>  BY <2>2 DEF EncodeObject
  <2>4. AsRead(o) = Time(stamp)
    <3>1. o # ClassScan(0)  BY <2>2 DEF ClassScan
    <3> QED  BY <2>1, <3>1 DEF AsRead
  <2>5. Wraps(o) = FALSE  BY <2>2 DEF Wraps
  <2>6. IsObject(w, Time(stamp), FALSE)  BY TimeObject
  <2> HIDE DEF w
  <2>7. EncodeObject(o) # <<>> /\ EncodeObject(o)[1] = w  BY <2>3
  <2> QED  BY <2>4, <2>5, <2>6, <2>7, Zenon
<1> QED  BY <1>1, <1>3, <1>4, <1>5, ObjectKinds

-----------------------------------------------------------------------------
(* The header of a fragment.                                                *)
HeadControl(function) ==
    [flags |-> <<TRUE, TRUE, IncludesIin(function), FALSE>>, sequence |-> 9]

HeadSize(function) == IF IncludesIin(function) THEN 4 ELSE 2

FragmentHead(function) ==
    <<EncodeAppControl(HeadControl(function)), FunctionValue[function]>>
    \o (IF IncludesIin(function) THEN TwoOctets(0) ELSE <<>>)

FlagsRead(octet) == [i \in 1 .. 4 |-> (octet \div FlagWeight[i]) % 2 = 1]

LEMMA FlagsOf ==
  FlagsRead(233) = <<TRUE, TRUE, TRUE, FALSE>> /\ FlagsRead(201) = <<TRUE, TRUE, FALSE, FALSE>>
<1>1. FlagWeight[1] = 128 /\ FlagWeight[2] = 64 /\ FlagWeight[3] = 32 /\ FlagWeight[4] = 16
  BY DEF FlagWeight
<1>2. ASSUME NEW octet \in {201, 233}
      PROVE  FlagsRead(octet) = <<TRUE, TRUE, octet = 233, FALSE>>
  <2> DEFINE f == FlagsRead(octet)
             bit(i) == (octet \div FlagWeight[i]) % 2
             b == octet = 233
             g == <<TRUE, TRUE, b, FALSE>>
  <2>1. f = [i \in 1 .. 4 |-> bit(i) = 1]  BY DEF FlagsRead
  <2>2. bit(1) = 1 /\ bit(2) = 1 /\ (bit(3) = 1 <=> b) /\ bit(4) # 1  BY <1>1
  <2>3. b \in BOOLEAN  OBVIOUS
  <2> HIDE DEF f, b, bit
  <2>4. f[1] = (bit(1) = 1) /\ f[2] = (bit(2) = 1) /\ f[3] = (bit(3) = 1) /\ f[4] = (bit(4) = 1)
    BY <2>1
  <2>5. /\ (bit(1) = 1) = TRUE /\ (bit(2) = 1) = TRUE
        /\ (bit(3) = 1) = b /\ (bit(4) = 1) = FALSE
    BY <2>2, <2>3
  <2>6. f[1] = TRUE /\ f[2] = TRUE /\ f[3] = b /\ f[4] = FALSE  BY <2>4, <2>5, Zenon
  <2>7. g[1] = TRUE /\ g[2] = TRUE /\ g[3] = b /\ g[4] = FALSE  OBVIOUS
  <2>8. f = [i \in 1 .. 4 |-> f[i]]  BY <2>1
  <2>9. g = [i \in 1 .. 4 |-> g[i]]  OBVIOUS
  <2> HIDE DEF g
  <2>10. f[1] = g[1] /\ f[2] = g[2] /\ f[3] = g[3] /\ f[4] = g[4]  BY <2>6, <2>7, Zenon
  <2>11. \A i \in 1 .. 4 : f[i] = g[i]
    <3>1. \A i \in 1 .. 4 : i = 1 \/ i = 2 \/ i = 3 \/ i = 4  OBVIOUS
    <3> QED  BY <2>10, <3>1, Zenon
  <2>12. [i \in 1 .. 4 |-> f[i]] = [i \in 1 .. 4 |-> g[i]]  BY <2>11, Zenon
  <2> QED  BY <2>8, <2>9, <2>12 DEF f, g, b
<1>3. (201 = 233) = FALSE /\ (233 = 233) = TRUE  OBVIOUS
<1> QED  BY <1>2, <1>3

LEMMA HeadControlRead ==
  ASSUME NEW function
  PROVE  /\ EncodeAppControl(HeadControl(function)) \in Octet
         /\ DecodeAppControl(EncodeAppControl(HeadControl(function))) = HeadControl(function)
<1> DEFINE iin == IncludesIin(function)
           c == HeadControl(function)
           octet == IF iin THEN 233 ELSE 201
<1>1. iin \in BOOLEAN  BY DEF IncludesIin
<1>2. EncodeAppControl(c) = octet
  <2> HIDE DEF iin
  <2>1. c = [flags |-> <<TRUE, TRUE, iin, FALSE>>, sequence |-> 9]  BY DEF HeadControl, iin
  <2> HIDE DEF c
  <2>2. /\ c.flags[1] = TRUE /\ c.flags[2] = TRUE /\ c.flags[3] = iin /\ c.flags[4] = FALSE
        /\ c.sequence = 9
    BY <2>1
  <2>3. FlagWeight[1] = 128 /\ FlagWeight[2] = 64 /\ FlagWeight[3] = 32 /\ FlagWeight[4] = 16
    BY DEF FlagWeight
  <2>4. EncodeAppControl(c) = 128 + 64 + (IF iin THEN 32 ELSE 0) + 0 + 9
    BY <2>2, <2>3 DEF EncodeAppControl
  <2> QED  BY <1>1, <2>4
<1>3. octet \in Octet /\ octet % 16 = 9  BY OctetRange
<1>4. FlagsRead(octet) = <<TRUE, TRUE, iin, FALSE>>
  <2>1. CASE iin
    <3>1. iin = TRUE /\ octet = 233  BY <1>1, <2>1
    <3> QED  BY <3>1, FlagsOf
  <2>2. CASE ~ iin
    <3>1. iin = FALSE /\ octet = 201  BY <1>1, <2>2
    <3> QED  BY <3>1, FlagsOf
  <2> QED  BY <2>1, <2>2
<1> HIDE DEF octet
<1>5. DecodeAppControl(octet) = [flags |-> FlagsRead(octet), sequence |-> octet % 16]
  BY Zenon DEF DecodeAppControl, FlagsRead
<1>6. DecodeAppControl(octet) = c
  BY <1>3, <1>4, <1>5 DEF HeadControl
<1> QED  BY <1>2, <1>3, <1>6

LEMMA FunctionValues ==
  /\ \A f \in FunctionCode : FunctionValue[f] \in Octet
  /\ \A f, g \in FunctionCode : FunctionValue[f] = FunctionValue[g] => f = g
<1>1. \A f \in FunctionCode : FunctionValue[f] \in Nat /\ FunctionValue[f] <= 255
  BY DEF FunctionCode, FunctionValue
<1>2. \A f, g \in FunctionCode : FunctionValue[f] = FunctionValue[g] => f = g
  BY DEF FunctionCode, FunctionValue
<1> QED  BY <1>1, <1>2, OctetRange

LEMMA HeadOctets ==
  ASSUME NEW function \in FunctionCode
  PROVE  LET head == FragmentHead(function)
         IN  /\ head \in Seq(Octet) /\ Len(head) = HeadSize(function)
             /\ HeadSize(function) = IF IncludesIin(function) THEN 4 ELSE 2
             /\ head[1] = EncodeAppControl(HeadControl(function))
             /\ head[2] = FunctionValue[function]
             /\ IncludesIin(function) => Cut(head, 3, 4) = TwoOctets(0)
<1> DEFINE first == <<EncodeAppControl(HeadControl(function)), FunctionValue[function]>>
           iin == TwoOctets(0)
           none == <<>>
           head == FragmentHead(function)
<1>1. first \in Seq(Octet) /\ Len(first) = 2
      /\ first[1] = EncodeAppControl(HeadControl(function)) /\ first[2] = FunctionValue[function]
  BY HeadControlRead, FunctionValues
<1>2. iin \in Seq(Octet) /\ Len(iin) = 2
  <2>1. 0 \in Word  BY WordRange
  <2> QED  BY <2>1, UnsignedTwo
<1>3. none \in Seq(Octet) /\ Len(none) = 0  BY NoOctets
<1> DEFINE rest == IF IncludesIin(function) THEN iin ELSE none
<1>4. head = Cat(first, rest)  BY DEF FragmentHead, Cat
<1> HIDE DEF first, iin, none, head
<1>5. rest \in Seq(Octet) /\ Len(rest) = IF IncludesIin(function) THEN 2 ELSE 0  BY <1>2, <1>3
<1> HIDE DEF rest
<1>6. CatTyped(first, rest) /\ CatAt(first, rest, 1) /\ CatAt(first, rest, 2)  BY Cats
<1>7. head \in Seq(Octet) /\ Len(head) = IF IncludesIin(function) THEN 4 ELSE 2
  BY <1>1, <1>4, <1>5, <1>6 DEF CatTyped
<1>8. head[1] = first[1] /\ head[2] = first[2]
  <2>1. 1 \in 1 .. Len(first) + Len(rest) /\ 2 \in 1 .. Len(first) + Len(rest)  BY <1>1, <1>5
  <2> QED  BY <1>1, <1>4, <1>5, <1>6, <2>1 DEF CatAt
<1>9. ASSUME IncludesIin(function) PROVE Cut(head, 3, 4) = iin
  <2>1. rest = iin  BY <1>9 DEF rest
  <2>2. CutSecond(first, iin, 1, 2, 3, 4) /\ CutWhole(iin, 2)  BY SecondCut, Cuts
  <2>3. Within(iin, 1, 2)  BY <1>2 DEF Within
  <2>4. Cut(Cat(first, iin), 3, 4) = Cut(iin, 1, 2)  BY <1>1, <2>2, <2>3 DEF CutSecond
  <2> QED  BY <1>2, <1>4, <2>1, <2>2, <2>4 DEF CutWhole
<1> QED  BY <1>1, <1>7, <1>8, <1>9 DEF HeadSize, head, iin

(* What a fragment with that header is read as, given its objects.          *)
ReadWith(function, lists) ==
    {[control |-> HeadControl(function), function |-> function, iin |-> 0, objects |-> xs] :
        xs \in lists}

IinOf(octets, function) ==
    IF IncludesIin(function) THEN Unsigned(SubSeq(octets, 3, 4)) ELSE 0

FragmentsFrom(octets, function) ==
    {[control |-> DecodeAppControl(octets[1]), function |-> function,
      iin |-> IinOf(octets, function), objects |-> objects] :
        objects \in DecodeObjects(Rest(octets, HeadSize(function) + 1))}

LEMMA DecodeFragmentIs ==
  ASSUME NEW r \in Seq(Octet), NEW function \in FunctionCode,
         Len(r) >= 2 => r[2] = FunctionValue[function]
  PROVE  DecodeFragment(r) =
            IF Len(r) < HeadSize(function) THEN {} ELSE FragmentsFrom(r, function)
<1> DEFINE functions == {f \in FunctionCode :
                           FunctionValue[f] = r[2] /\ Len(r) >= HeadSize(f)}
<1>1. DecodeFragment(r) =
        IF Len(r) < 2 THEN {} ELSE UNION {FragmentsFrom(r, f) : f \in functions}
  BY Zenon DEF DecodeFragment, FragmentsFrom, IinOf, HeadSize
<1>2. HeadSize(function) \in {2, 4} /\ Len(r) \in Nat  BY DEF HeadSize
<1>3. CASE Len(r) < 2
  <2>1. Len(r) < HeadSize(function)  BY <1>2, <1>3
  <2> QED  BY <1>1, <1>3, <2>1
<1>4. CASE Len(r) >= 2
  <2>1. ~ (Len(r) < 2) /\ (Len(r) < HeadSize(function) <=> ~ (Len(r) >= HeadSize(function)))
    BY <1>2, <1>4
  <2>2. functions = IF Len(r) >= HeadSize(function) THEN {function} ELSE {}
    BY <1>4, FunctionValues
  <2> HIDE DEF functions
  <2>3. DecodeFragment(r) = UNION {FragmentsFrom(r, f) : f \in functions}  BY <1>1, <2>1
  <2>4. CASE Len(r) >= HeadSize(function)
    <3>1. functions = {function}  BY <2>2, <2>4
    <3>2. UNION {FragmentsFrom(r, f) : f \in {function}} = FragmentsFrom(r, function)
      OBVIOUS
    <3> QED  BY <2>1, <2>3, <2>4, <3>1, <3>2
  <2>5. CASE ~ (Len(r) >= HeadSize(function))
    <3>1. functions = {}  BY <2>2, <2>5
    <3> QED  BY <2>1, <2>3, <2>5, <3>1
  <2> QED  BY <2>4, <2>5
<1> QED  BY <1>2, <1>3, <1>4

LEMMA FragmentRead ==
  ASSUME NEW function \in FunctionCode, NEW body \in Seq(Octet),
         NEW r, r = Cat(FragmentHead(function), body)
  PROVE  DecodeFragment(r) = ReadWith(function, DecodeObjects(body))
<1> DEFINE head == FragmentHead(function)
           h == HeadSize(function)
           n == Len(body)
<1>1. /\ head \in Seq(Octet) /\ Len(head) = h /\ h = IF IncludesIin(function) THEN 4 ELSE 2
      /\ head[1] = EncodeAppControl(HeadControl(function)) /\ head[2] = FunctionValue[function]
      /\ IncludesIin(function) => Cut(head, 3, 4) = TwoOctets(0)
  BY HeadOctets
<1>2. n \in Nat /\ Len(body) = n  OBVIOUS
<1>3. r = Cat(head, body)  OBVIOUS
<1> HIDE DEF head, h, n
<1>4. CatTyped(head, body) /\ CatAt(head, body, 1) /\ CatAt(head, body, 2)  BY Cats
<1>5. r \in Seq(Octet) /\ Len(r) = h + n  BY <1>1, <1>2, <1>3, <1>4 DEF CatTyped
<1>6. r[1] = head[1] /\ r[2] = head[2]
  <2>1. /\ 1 \in 1 .. Len(head) + Len(body) /\ 2 \in 1 .. Len(head) + Len(body)
        /\ 1 <= Len(head) /\ 2 <= Len(head)
    BY <1>1, <1>2
  <2> QED  BY <1>1, <1>3, <1>4, <2>1 DEF CatAt
<1>7. DecodeFragment(r) = FragmentsFrom(r, function)
  <2>1. ~ (Len(r) < h)  BY <1>1, <1>2, <1>5
  <2> QED  BY <1>1, <1>5, <1>6, <2>1, DecodeFragmentIs DEF h
<1>8. Rest(r, h + 1) = body
  <2> DEFINE from == h + 1
             to == h + n
  <2>1. CutSecond(head, body, 1, n, from, to) /\ CutWhole(body, n)  BY SecondCut, Cuts
  <2>2. Within(body, 1, n) /\ from = Len(head) + 1 /\ to = Len(head) + n
    BY <1>1, <1>2 DEF Within
  <2>3. Rest(r, from) = Cut(r, from, to)  BY <1>5 DEF Rest, Cut
  <2> HIDE DEF from, to
  <2>4. Cut(Cat(head, body), from, to) = Cut(body, 1, n)  BY <1>1, <2>1, <2>2 DEF CutSecond
  <2>5. Rest(r, from) = body  BY <1>2, <1>3, <2>1, <2>3, <2>4 DEF CutWhole
  <2> QED  BY <2>5 DEF from
<1>9. IinOf(r, function) = 0
  <2>1. CASE IncludesIin(function)
    <3>1. CutFirst(head, body, 3, 4)  BY Cuts
    <3>2. Within(head, 3, 4)  BY <1>1, <2>1 DEF Within
    <3>3. Cut(r, 3, 4) = TwoOctets(0)  BY <1>1, <1>3, <2>1, <3>1, <3>2 DEF CutFirst
    <3>4. Unsigned(TwoOctets(0)) = 0
      <4>1. 0 \in Word  BY WordRange
      <4> QED  BY <4>1, UnsignedTwo
    <3> QED  BY <2>1, <3>3, <3>4 DEF IinOf, Cut
  <2>2. CASE ~ IncludesIin(function)  BY <2>2 DEF IinOf
  <2> QED  BY <2>1, <2>2
<1>10. DecodeAppControl(r[1]) = HeadControl(function)  BY <1>1, <1>6, HeadControlRead
<1>11. FragmentsFrom(r, function) = ReadWith(function, DecodeObjects(body))
  BY <1>8, <1>9, <1>10, Zenon DEF FragmentsFrom, ReadWith, h
<1> QED  BY <1>7, <1>11

LEMMA FragmentCut ==
  ASSUME NEW function \in FunctionCode, NEW body \in Seq(Octet),
         NEW length \in 0 .. Len(Cat(FragmentHead(function), body))
  PROVE  DecodeFragment(Cut(Cat(FragmentHead(function), body), 1, length)) =
            IF length < HeadSize(function) THEN {}
            ELSE ReadWith(function,
                          DecodeObjects(Cut(body, 1, length - HeadSize(function))))
<1> DEFINE head == FragmentHead(function)
           h == HeadSize(function)
           n == Len(body)
           o == Cat(head, body)
           r == Cut(o, 1, length)
           l == length - h
           b == Cut(body, 1, l)
<1>1. /\ head \in Seq(Octet) /\ Len(head) = h /\ h = IF IncludesIin(function) THEN 4 ELSE 2
      /\ head[2] = FunctionValue[function]
  BY HeadOctets
<1>2. n \in Nat /\ Len(body) = n /\ length \in Nat /\ length <= Len(o)  OBVIOUS
<1> HIDE DEF head, h, n, o, r
<1>3. CatTyped(head, body) /\ \A i : CatAt(head, body, i)  BY Cats
<1>4. o \in Seq(Octet) /\ Len(o) = h + n  BY <1>1, <1>2, <1>3 DEF CatTyped, o
<1>5. \A i \in 1 .. h + n : o[i] = IF i <= h THEN head[i] ELSE body[i - h]
  BY <1>1, <1>2, <1>3 DEF CatAt, o
<1>6. CutTyped(o, 1, length)  BY Cuts
<1>7. r \in Seq(Octet) /\ Len(r) = length /\ \A i \in 1 .. length : r[i] = o[i]
  <2>1. Within(o, 1, length) /\ length - 1 + 1 = length /\ \A i \in 1 .. length : 1 + i - 1 = i
    BY <1>2, <1>4 DEF Within
  <2> QED  BY <1>6, <2>1 DEF CutTyped, r
<1>8. CASE length < h
  <2>1. Len(r) >= 2 => r[2] = FunctionValue[function]
    <3> SUFFICES ASSUME Len(r) >= 2 PROVE r[2] = FunctionValue[function]
      OBVIOUS
    <3>1. 2 \in 1 .. length /\ 2 \in 1 .. h + n /\ 2 <= h  BY <1>1, <1>2, <1>7
    <3> QED  BY <1>1, <1>5, <1>7, <3>1
  <2> QED  BY <1>7, <1>8, <2>1, DecodeFragmentIs DEF h, r, o, head
<1>9. CASE length >= h
  <2>1. l \in Nat /\ l <= n /\ length = h + l  BY <1>1, <1>2, <1>4, <1>9
  <2> HIDE DEF l, b
  <2>2. CutTyped(body, 1, l)  BY Cuts
  <2>3. b \in Seq(Octet) /\ Len(b) = l /\ \A i \in 1 .. l : b[i] = body[i]
    <3>1. Within(body, 1, l) /\ l - 1 + 1 = l /\ \A i \in 1 .. l : 1 + i - 1 = i
      BY <1>2, <2>1 DEF Within
    <3> QED  BY <2>2, <3>1 DEF CutTyped, b
  <2> DEFINE c == Cat(head, b)
  <2>4. CatTyped(head, b) /\ \A i : CatAt(head, b, i)  BY Cats
  <2>5. c \in Seq(Octet) /\ Len(c) = h + l  BY <1>1, <2>3, <2>4 DEF CatTyped
  <2>6. \A i \in 1 .. h + l : c[i] = IF i <= h THEN head[i] ELSE b[i - h]
    BY <1>1, <2>3, <2>4 DEF CatAt
  <2> HIDE DEF c
  <2>7. ASSUME NEW i \in 1 .. length PROVE r[i] = c[i]
    <3>1. i \in 1 .. h + n /\ i \in 1 .. h + l  BY <1>1, <1>2, <2>1
    <3>2. r[i] = IF i <= h THEN head[i] ELSE body[i - h]  BY <1>5, <1>7, <3>1
    <3>3. i > h => i - h \in 1 .. l  BY <1>1, <2>1, <3>1
    <3> QED  BY <1>1, <2>3, <2>6, <3>1, <3>2, <3>3
  <2>8. r = c  BY <1>7, <2>1, <2>5, <2>7, SeqEqual
  <2>9. DecodeFragment(r) = ReadWith(function, DecodeObjects(b))
    BY <2>3, <2>8, FragmentRead DEF c, head
  <2>10. ~ (length < h)  BY <1>1, <1>2, <1>9
  <2> QED  BY <2>9, <2>10 DEF h, r, o, head, b, l
<1>10. h \in Nat  BY <1>1
<1> QED  BY <1>2, <1>8, <1>9, <1>10 DEF h, r, o, head

-----------------------------------------------------------------------------
(* The fragments a program builds.                                          *)
FragmentOf(function, xs) ==
    [control |-> HeadControl(function), function |-> function, iin |-> 0, objects |-> xs]

FragmentTyped ==
    \/ fragment = None
    \/ \E function \in Functions : \E xs \in Seq(Objects) : fragment = FragmentOf(function, xs)

LEMMA FragmentsTyped == Building => []FragmentTyped
<1>1. Begin => FragmentTyped
  <2> SUFFICES ASSUME Begin, fragment # None PROVE FragmentTyped
    BY DEF FragmentTyped
  <2>1. PICK function \in Functions : fragment = FragmentOf(function, <<>>)
    BY Zenon DEF Begin, FragmentOf, HeadControl
  <2>2. <<>> \in Seq(Objects)  OBVIOUS
  <2> QED  BY <2>1, <2>2 DEF FragmentTyped
<1>2. FragmentTyped /\ [Grow]_<<frame, fragment>> => FragmentTyped'
  <2> SUFFICES ASSUME FragmentTyped, [Grow]_<<frame, fragment>> PROVE FragmentTyped'
    OBVIOUS
  <2>1. CASE UNCHANGED fragment  BY <2>1 DEF FragmentTyped
  <2>2. CASE AddObject
    <3>1. PICK o \in Objects : fragment' = [fragment EXCEPT !.objects = Append(@, o)]
      BY <2>2 DEF AddObject
    <3>2. PICK function \in Functions, xs \in Seq(Objects) : fragment = FragmentOf(function, xs)
      BY <2>2 DEF AddObject, FragmentTyped
    <3>3. Append(xs, o) \in Seq(Objects)  OBVIOUS
    <3>4. fragment' = FragmentOf(function, Append(xs, o))  BY <3>1, <3>2 DEF FragmentOf
    <3> QED  BY <3>3, <3>4 DEF FragmentTyped
  <2> QED  BY <2>1, <2>2 DEF Grow, AddOctet
<1> QED  BY <1>1, <1>2, PTL DEF Building

Written(xs) == [i \in 1 .. Len(xs) |-> EncodeObject(xs[i])[1]]
ReadBack(xs) == [i \in 1 .. Len(xs) |-> AsRead(xs[i])]
Bad(xs) == [i \in 1 .. Len(xs) |-> Wraps(xs[i])]
Body(xs, runs) == FlattenSeq(Stream(Written(xs), runs, Len(xs)))
ReadObjects == {AsRead(o) : o \in Objects}

LEMMA ObjectsRead ==
  ASSUME NEW xs \in Seq(Objects)
  PROVE  /\ AreObjects(Written(xs), ReadBack(xs), Bad(xs), Len(xs))
         /\ ReadBack(xs) \in Seq(ReadObjects) /\ Len(ReadBack(xs)) = Len(xs)
         /\ Len(xs) \in Nat
         /\ \A i \in 1 .. Len(xs) : /\ xs[i] \in Objects /\ EncodeObject(xs[i]) # <<>>
                                    /\ Written(xs)[i] = EncodeObject(xs[i])[1]
                                    /\ Written(xs)[i] \in Seq(Octet)
                                    /\ Bad(xs)[i] = Wraps(xs[i])
<1> DEFINE n == Len(xs)
<1>1. n \in Nat /\ Len(xs) = n  OBVIOUS
<1>2. \A i \in 1 .. n : xs[i] \in Objects  OBVIOUS
<1> HIDE DEF n
<1>3. ASSUME NEW i \in 1 .. n
      PROVE  /\ Written(xs)[i] = EncodeObject(xs[i])[1] /\ ReadBack(xs)[i] = AsRead(xs[i])
             /\ Bad(xs)[i] = Wraps(xs[i])
  BY <1>1, Zenon DEF Written, ReadBack, Bad
<1>4. ASSUME NEW i \in 1 .. n
      PROVE  /\ EncodeObject(xs[i]) # <<>>
             /\ IsObject(Written(xs)[i], ReadBack(xs)[i], Bad(xs)[i])
             /\ Bad(xs)[i] \in BOOLEAN /\ Written(xs)[i] \in Seq(Octet)
  <2> DEFINE o == xs[i]
  <2>1. o \in Objects  BY <1>2
  <2>2. /\ Written(xs)[i] = EncodeObject(o)[1] /\ ReadBack(xs)[i] = AsRead(o)
        /\ Bad(xs)[i] = Wraps(o)
    BY <1>3
  <2> HIDE DEF o
  <2>3. /\ EncodeObject(o) # <<>> /\ IsObject(EncodeObject(o)[1], AsRead(o), Wraps(o))
        /\ Wraps(o) \in BOOLEAN
    BY <2>1, ObjectSent
  <2>4. EncodeObject(o)[1] \in Seq(Octet)  BY <2>3, ObjectOctets
  <2> QED  BY <2>2, <2>3, <2>4, Zenon DEF o
<1>5. ReadBack(xs) \in Seq(ReadObjects) /\ Len(ReadBack(xs)) = n
  <2>1. \A i \in 1 .. n : AsRead(xs[i]) \in ReadObjects  BY <1>2 DEF ReadObjects
  <2> QED  BY <1>1, <2>1 DEF ReadBack
<1>6. AreObjects(Written(xs), ReadBack(xs), Bad(xs), n)  BY <1>4, Zenon DEF AreObjects
<1> QED  BY <1>1, <1>2, <1>3, <1>4, <1>5, <1>6, Zenon DEF n

LEMMA StreamTyped ==
  ASSUME NEW xs \in Seq(Objects), NEW runs \in Nat
  PROVE  /\ Stream(Written(xs), runs, Len(xs)) \in Seq(Seq(Octet))
         /\ Body(xs, runs) \in Seq(Octet)
<1> DEFINE n == Len(xs)
           ws == Written(xs)
           zeros == Zeros(runs)
<1>1. n \in Nat /\ \A i \in 1 .. n : ws[i] \in Seq(Octet)  BY ObjectsRead
<1>2. zeros \in Seq(Octet)  BY ZerosType
<1> HIDE DEF n, ws, zeros
<1>3. ASSUME NEW i \in 1 .. n PROVE Cat(ws[i], zeros) \in Seq(Octet)
  <2>1. CatTyped(ws[i], zeros)  BY Cats
  <2> QED  BY <1>1, <1>2, <2>1 DEF CatTyped
<1>4. [i \in 1 .. n |-> Cat(ws[i], zeros)] \in Seq(Seq(Octet))  BY <1>1, <1>3
<1>5. Stream(ws, runs, n) \in Seq(Seq(Octet))  BY <1>4 DEF Stream, zeros
<1>6. FlattenSeq(Stream(ws, runs, n)) \in Seq(Octet)  BY <1>5, FlattenType
<1> QED  BY <1>5, <1>6 DEF Body, n, ws

LEMMA NoPadding ==
  ASSUME NEW xs \in Seq(Objects)
  PROVE  Stream(Written(xs), 0, Len(xs)) = Written(xs)
<1> DEFINE n == Len(xs)
           ws == Written(xs)
<1>1. n \in Nat /\ \A i \in 1 .. n : ws[i] \in Seq(Octet)  BY ObjectsRead
<1>2. ws = [i \in 1 .. n |-> ws[i]]  BY DEF Written
<1> HIDE DEF n, ws
<1>3. Zeros(0) = <<>>
  <2>1. Zeros(0) \in Seq(Octet) /\ Len(Zeros(0)) = 4 * 0  BY ZerosType
  <2> QED  BY <2>1
<1>4. \A i \in 1 .. n : Cat(ws[i], Zeros(0)) = ws[i]  BY <1>1, <1>3, CatNone
<1>5. Stream(ws, 0, n) = [i \in 1 .. n |-> ws[i]]  BY <1>4, Zenon DEF Stream
<1> QED  BY <1>2, <1>5 DEF n, ws

LEMMA WireParts ==
  ASSUME NEW function \in FunctionCode, NEW xs \in Seq(Objects),
         fragment = FragmentOf(function, xs)
  PROVE  /\ OnTheWire = Cat(FragmentHead(function), Body(xs, 0))
         /\ Decoded = FragmentOf(function, ReadBack(xs))
         /\ fragment.objects = xs /\ DOMAIN xs = 1 .. Len(xs)
<1> DEFINE objects == [i \in DOMAIN xs |-> EncodeObject(xs[i])]
           ws == Written(xs)
           first == <<EncodeAppControl(HeadControl(function)), FunctionValue[function]>>
           iin == IF IncludesIin(function) THEN TwoOctets(0) ELSE <<>>
<1>1. /\ fragment.objects = xs /\ fragment.control = HeadControl(function)
      /\ fragment.function = function /\ fragment.iin = 0
  BY DEF FragmentOf
<1>2. DOMAIN xs = 1 .. Len(xs)  OBVIOUS
<1>3. \A i \in DOMAIN xs : EncodeObject(xs[i]) # <<>>  BY <1>2, ObjectsRead
<1>4. DOMAIN objects = DOMAIN xs /\ \A i \in DOMAIN xs : objects[i] = EncodeObject(xs[i])
  OBVIOUS
<1>5. ~ \E i \in DOMAIN objects : objects[i] = <<>>  BY <1>3, <1>4
<1>6. [i \in DOMAIN objects |-> objects[i][1]] = ws  BY <1>2, <1>4 DEF Written
<1> DEFINE wire == first \o iin \o FlattenSeq([i \in DOMAIN objects |-> objects[i][1]])
<1>7. EncodeFragment(fragment) = <<wire>>  BY <1>1, <1>5, Zenon DEF EncodeFragment
<1> HIDE DEF objects, ws, first, iin, wire
<1>8. OnTheWire = first \o iin \o FlattenSeq(ws)
  <2>1. OnTheWire = wire  BY <1>7 DEF OnTheWire
  <2> QED  BY <1>6, <2>1 DEF wire
<1>9. Body(xs, 0) = FlattenSeq(ws)  BY NoPadding DEF Body, ws
<1>10. FragmentHead(function) = first \o iin  BY DEF FragmentHead, first, iin
<1>11. OnTheWire = Cat(FragmentHead(function), Body(xs, 0))  BY <1>8, <1>9, <1>10 DEF Cat
<1>12. Decoded = FragmentOf(function, [i \in DOMAIN xs |-> AsRead(xs[i])])
  BY <1>1 DEF Decoded, FragmentOf
<1>13. Decoded = FragmentOf(function, ReadBack(xs))  BY <1>2, <1>12 DEF ReadBack
<1> QED  BY <1>1, <1>2, <1>11, <1>13

LEMMA PaddedParts ==
  ASSUME NEW function \in FunctionCode, NEW xs \in Seq(Objects),
         fragment = FragmentOf(function, xs), NEW runs \in Nat
  PROVE  Padded(runs) = Cat(FragmentHead(function), Body(xs, runs))
<1> DEFINE head == FragmentHead(function)
           h == HeadSize(function)
           body == Body(xs, 0)
<1>1. OnTheWire = Cat(head, body) /\ fragment.objects = xs /\ DOMAIN xs = 1 .. Len(xs)
  BY WireParts
<1>2. fragment.function = function  BY DEF FragmentOf
<1>3. head \in Seq(Octet) /\ Len(head) = h /\ h = IF IncludesIin(function) THEN 4 ELSE 2
  BY HeadOctets
<1>4. body \in Seq(Octet)  BY StreamTyped
<1> HIDE DEF head, h, body
<1>5. Cut(OnTheWire, 1, h) = head
  <2>1. CutFirst(head, body, 1, h) /\ CutWhole(head, h)  BY Cuts
  <2>2. Within(head, 1, h)  BY <1>3 DEF Within
  <2> QED  BY <1>1, <1>3, <1>4, <2>1, <2>2 DEF CutFirst, CutWhole
<1>6. [i \in DOMAIN fragment.objects |-> EncodeObject(fragment.objects[i])[1] \o Zeros(runs)]
        = Stream(Written(xs), runs, Len(xs))
  <2>1. \A i \in 1 .. Len(xs) : EncodeObject(xs[i])[1] \o Zeros(runs)
                                  = Cat(Written(xs)[i], Zeros(runs))
    BY Zenon DEF Cat, Written
  <2> QED  BY <1>1, <2>1, Zenon DEF Stream
<1>7. Padded(runs) = Cut(OnTheWire, 1, h) \o Body(xs, runs)
  BY <1>2, <1>3, <1>6, Zenon DEF Padded, Cut, Body
<1> QED  BY <1>5, <1>7 DEF Cat, head

LEMMA BodyRead ==
  ASSUME NEW xs \in Seq(Objects), NEW runs \in Nat
  PROVE  /\ DecodeObjects(Body(xs, runs)) =
              IF \E i \in 1 .. Len(xs) : Wraps(xs[i]) THEN {} ELSE {ReadBack(xs)}
<1>1. /\ AreObjects(Written(xs), ReadBack(xs), Bad(xs), Len(xs))
      /\ ReadBack(xs) \in Seq(ReadObjects) /\ Len(ReadBack(xs)) = Len(xs) /\ Len(xs) \in Nat
      /\ \A i \in 1 .. Len(xs) : Bad(xs)[i] = Wraps(xs[i])
  BY ObjectsRead
<1>2. DecodeObjects(Body(xs, runs)) =
        IF \E i \in 1 .. Len(xs) : Bad(xs)[i] THEN {} ELSE {ReadBack(xs)}
  BY <1>1, StreamRead DEF Body
<1> QED  BY <1>1, <1>2, Zenon

LEMMA WireRead ==
  ASSUME NEW function \in Functions, NEW xs \in Seq(Objects),
         fragment = FragmentOf(function, xs)
  PROVE  DecodeFragment(OnTheWire) =
            IF \E i \in DOMAIN fragment.objects : Wraps(fragment.objects[i]) THEN {}
            ELSE {Decoded}
<1>1. function \in FunctionCode  BY FunctionsAssumption
<1>2. /\ OnTheWire = Cat(FragmentHead(function), Body(xs, 0))
      /\ Decoded = FragmentOf(function, ReadBack(xs))
      /\ fragment.objects = xs /\ DOMAIN xs = 1 .. Len(xs)
  BY <1>1, WireParts
<1>3. Body(xs, 0) \in Seq(Octet)  BY StreamTyped
<1>4. DecodeFragment(OnTheWire) = ReadWith(function, DecodeObjects(Body(xs, 0)))
  BY <1>1, <1>2, <1>3, FragmentRead
<1>5. DecodeObjects(Body(xs, 0)) =
        IF \E i \in 1 .. Len(xs) : Wraps(xs[i]) THEN {} ELSE {ReadBack(xs)}
  BY BodyRead
<1>6. ReadWith(function, {}) = {} /\ ReadWith(function, {ReadBack(xs)}) = {Decoded}
  BY <1>2 DEF ReadWith, FragmentOf
<1>7. CASE \E i \in 1 .. Len(xs) : Wraps(xs[i])
  <2>1. DecodeFragment(OnTheWire) = {}  BY <1>4, <1>5, <1>6, <1>7
  <2> QED  BY <1>2, <1>7, <2>1
<1>8. CASE ~ \E i \in 1 .. Len(xs) : Wraps(xs[i])
  <2>1. DecodeFragment(OnTheWire) = {Decoded}  BY <1>4, <1>5, <1>6, <1>8
  <2> QED  BY <1>2, <1>8, <2>1
<1> QED  BY <1>7, <1>8

(* Every fragment a program can build out of objects that can be encoded    *)
(* decodes to itself: each object takes the octets it was given and not one *)
(* more, whatever stands behind it.  Only a range that wraps around makes   *)
(* the whole unreadable.  (FragmentsRoundTrip, of                           *)
(* ApplicationFragment::encode and decode.)                                 *)
THEOREM FragmentsRead == Building => []FragmentsRoundTrip
<1>1. FragmentTyped => FragmentsRoundTrip
  <2> SUFFICES ASSUME FragmentTyped, fragment # None PROVE FragmentsRoundTrip
    BY DEF FragmentsRoundTrip
  <2>1. PICK function \in Functions, xs \in Seq(Objects) : fragment = FragmentOf(function, xs)
    BY DEF FragmentTyped
  <2> QED  BY <2>1, WireRead DEF FragmentsRoundTrip
<1> QED  BY <1>1, FragmentsTyped, PTL

(* Runs of four zeros behind an object change nothing, however many: no     *)
(* object starts with a zero, and none takes a zero that is not its own.    *)
(* (PaddingSkipped, of skip_padding_zeros.)                                 *)
THEOREM PaddingHarmless == Building => []PaddingSkipped
<1>1. FragmentTyped => PaddingSkipped
  <2> SUFFICES ASSUME FragmentTyped, fragment # None, NEW runs \in 1 .. MaxPadding
               PROVE  DecodeFragment(Padded(runs)) = DecodeFragment(OnTheWire)
    BY DEF PaddingSkipped
  <2>1. PICK function \in Functions, xs \in Seq(Objects) : fragment = FragmentOf(function, xs)
    BY DEF FragmentTyped
  <2>2. function \in FunctionCode /\ runs \in Nat /\ 0 \in Nat  BY FunctionsAssumption
  <2>3. /\ OnTheWire = Cat(FragmentHead(function), Body(xs, 0))
        /\ Padded(runs) = Cat(FragmentHead(function), Body(xs, runs))
    BY <2>1, <2>2, WireParts, PaddedParts
  <2>4. Body(xs, 0) \in Seq(Octet) /\ Body(xs, runs) \in Seq(Octet)  BY <2>2, StreamTyped
  <2>5. DecodeObjects(Body(xs, 0)) = DecodeObjects(Body(xs, runs))
    BY <2>2, BodyRead
  <2> QED  BY <2>2, <2>3, <2>4, <2>5, FragmentRead
<1> QED  BY <1>1, FragmentsTyped, PTL

(* A fragment cut off anywhere is an error or lacks its last objects: what  *)
(* is read is a first part of what was sent, and no point is made up from   *)
(* the octets that are there.  (CutNeverInvents, of                         *)
(* ApplicationFragment::decode and the checks before each read.)            *)
THEOREM CutsRead == Building => []CutNeverInvents
<1>1. FragmentTyped => CutNeverInvents
  <2> SUFFICES ASSUME FragmentTyped, fragment # None,
                      NEW length \in 0 .. Len(OnTheWire) - 1,
                      NEW f \in DecodeFragment(SubSeq(OnTheWire, 1, length))
               PROVE  /\ f.control = fragment.control /\ f.function = fragment.function
                      /\ f.objects \in Prefixes(Decoded.objects)
    BY DEF CutNeverInvents
  <2>1. PICK function \in Functions, xs \in Seq(Objects) : fragment = FragmentOf(function, xs)
    BY DEF FragmentTyped
  <2> DEFINE head == FragmentHead(function)
             body == Body(xs, 0)
             h == HeadSize(function)
             l == length - h
  <2>2. function \in FunctionCode  BY FunctionsAssumption
  <2>3. OnTheWire = Cat(head, body) /\ Decoded = FragmentOf(function, ReadBack(xs))
    BY <2>1, <2>2, WireParts
  <2>4. body \in Seq(Octet)  BY StreamTyped
  <2>5. head \in Seq(Octet) /\ Len(head) = h /\ h \in Nat  BY <2>2, HeadOctets
  <2> HIDE DEF head, body, h
  <2>6. CatTyped(head, body)  BY Cats
  <2>7. Len(Cat(head, body)) = h + Len(body) /\ Len(body) \in Nat
    BY <2>4, <2>5, <2>6 DEF CatTyped
  <2>8. length \in 0 .. Len(Cat(head, body)) /\ length <= h + Len(body) /\ length \in Nat
    BY <2>3, <2>5, <2>7
  <2>9. DecodeFragment(Cut(Cat(head, body), 1, length)) =
          IF length < h THEN {} ELSE ReadWith(function, DecodeObjects(Cut(body, 1, l)))
    BY <2>2, <2>4, <2>8, FragmentCut DEF head, h
  <2>10. length >= h /\ f \in ReadWith(function, DecodeObjects(Cut(body, 1, l)))
    BY <2>3, <2>5, <2>8, <2>9 DEF Cut
  <2>11. l \in 0 .. Len(body)  BY <2>5, <2>7, <2>8, <2>10
  <2> HIDE DEF l
  <2>12. DecodeObjects(Cut(body, 1, l)) \subseteq Prefixes(ReadBack(xs))
    <3>1. /\ AreObjects(Written(xs), ReadBack(xs), Bad(xs), Len(xs))
          /\ ReadBack(xs) \in Seq(ReadObjects) /\ Len(ReadBack(xs)) = Len(xs)
          /\ Len(xs) \in Nat
      BY ObjectsRead
    <3> QED  BY <2>11, <3>1, StreamCut DEF body, Body
  <2>13. f.control = HeadControl(function) /\ f.function = function
         /\ f.objects \in Prefixes(ReadBack(xs))
    BY <2>10, <2>12 DEF ReadWith
  <2> QED  BY <2>1, <2>3, <2>13 DEF FragmentOf
<1> QED  BY <1>1, FragmentsTyped, PTL

-----------------------------------------------------------------------------
(* Points sent as events.                                                   *)
LEMMA EventGroups ==
  ASSUME NEW type \in DOMAIN EventGroup, NEW group, group = EventGroup[type]
  PROVE  /\ type \in PointTypes /\ type \in DOMAIN SentAs /\ IsSentGroup(group, 3)
         /\ ListOf[group] = type /\ SuffixSize(group, 3) = 6
         /\ DatumOf(type) = DatumOctets(group, 3)
<1>1. /\ DOMAIN EventGroup \subseteq PointTypes /\ DOMAIN SentAs = PointTypes
      /\ DOMAIN EventGroup = {"BinaryInputs", "DoubleBitBinaryInputs", "Counters",
                              "AnalogInputs", "AnalogOutputs"}
  BY DEF EventGroup, PointTypes, SentAs
<1>2. ASSUME ValueSize(SentAs[type][1], SentAs[type][2]) = ValueSize(group, 3)
      PROVE  DatumOf(type) = DatumOctets(group, 3)
  BY <1>2, Zenon DEF DatumOf, DatumOctets
<1>3. /\ 2 \in Octet /\ 3 \in Octet /\ 4 \in Octet /\ 22 \in Octet /\ 32 \in Octet
      /\ 42 \in Octet
  BY OctetRange
<1>4. CASE type = "BinaryInputs"
  BY <1>1, <1>2, <1>3, <1>4
     DEF EventGroup, SentAs, IsSentGroup, ListOf, SuffixSize, ValueSize, KindOf
<1>5. CASE type = "DoubleBitBinaryInputs"
  BY <1>1, <1>2, <1>3, <1>5
     DEF EventGroup, SentAs, IsSentGroup, ListOf, SuffixSize, ValueSize, KindOf
<1>6. CASE type = "Counters"
  BY <1>1, <1>2, <1>3, <1>6
     DEF EventGroup, SentAs, IsSentGroup, ListOf, SuffixSize, ValueSize, KindOf
<1>7. CASE type = "AnalogInputs"
  BY <1>1, <1>2, <1>3, <1>7
     DEF EventGroup, SentAs, IsSentGroup, ListOf, SuffixSize, ValueSize, KindOf
<1>8. CASE type = "AnalogOutputs"
  BY <1>1, <1>2, <1>3, <1>8
     DEF EventGroup, SentAs, IsSentGroup, ListOf, SuffixSize, ValueSize, KindOf
<1> QED  BY <1>1, <1>4, <1>5, <1>6, <1>7, <1>8

Stamped == Cat(Zeros(1), <<0, 1>>)

LEMMA StampedOctets == Stamped \in Seq(Octet) /\ Len(Stamped) = 6
<1> DEFINE zeros == Zeros(1)
           last == <<0, 1>>
<1>1. zeros \in Seq(Octet) /\ Len(zeros) = 4
  <2>1. zeros \in Seq(Octet) /\ Len(zeros) = 4 * 1  BY ZerosType
  <2> HIDE DEF zeros
  <2> QED  BY <2>1
<1>2. 0 \in Octet /\ 1 \in Octet  BY OctetRange
<1>3. last \in Seq(Octet) /\ Len(last) = 2  BY <1>2
<1>4. CatTyped(zeros, last)  BY Cats
<1> HIDE DEF zeros, last
<1>5. Cat(zeros, last) \in Seq(Octet) /\ Len(Cat(zeros, last)) = 6
  BY <1>1, <1>3, <1>4 DEF CatTyped
<1> QED  BY <1>5 DEF Stamped, zeros, last

LEMMA EventChunk ==
  ASSUME NEW prefix \in Seq(Octet), NEW datum \in Seq(Octet)
  PROVE  prefix \o datum \o Zeros(1) \o <<0, 1>> = Cat(prefix, Cat(datum, Stamped))
<1> DEFINE zeros == Zeros(1)
           last == <<0, 1>>
           both == Cat(prefix, datum)
<1>1. 0 \in Octet /\ 1 \in Octet  BY OctetRange
<1>2. zeros \in Seq(Octet) /\ last \in Seq(Octet)  BY <1>1, ZerosType
<1>3. Stamped = Cat(zeros, last) /\ Stamped \in Seq(Octet)  BY StampedOctets DEF Stamped
<1>4. prefix \o datum \o zeros \o last = Cat(Cat(both, zeros), last)  BY DEF Cat
<1> HIDE DEF zeros, last, both
<1>5. both \in Seq(Octet)
  <2>1. CatTyped(prefix, datum)  BY Cats
  <2> QED  BY <2>1 DEF CatTyped, both
<1>6. Regroups(both, zeros, last) /\ Regroups(prefix, datum, Stamped)  BY Cats
<1>7. Cat(Cat(both, zeros), last) = Cat(both, Stamped)
  BY <1>2, <1>3, <1>5, <1>6 DEF Regroups
<1>8. Cat(both, Stamped) = Cat(prefix, Cat(datum, Stamped))
  BY <1>3, <1>6 DEF Regroups, both
<1> QED  BY <1>4, <1>7, <1>8 DEF zeros, last

LEMMA EventObject ==
  ASSUME NEW o \in Objects, "points" \in DOMAIN o, o.type \in DOMAIN EventGroup,
         Len(o.points) < ByteSpace
  PROVE  IsObject(AsEvents(o), o, FALSE) /\ AsRead(o) = o
<1> DEFINE type == o.type
           list == o.points
           n == Len(list)
           group == EventGroup[type]
           w == <<group, 3, 34>> \o <<n>>
           h == CountHeader(group, 3, "CountAndPrefix16", n)
           chunks == [i \in 1 .. n |->
                        Cat(TwoOctets(list[i].index), Cat(list[i].datum, Stamped))]
<1>1. /\ type \in PointTypes /\ type \in DOMAIN SentAs /\ IsSentGroup(group, 3)
      /\ ListOf[group] = type /\ SuffixSize(group, 3) = 6
      /\ DatumOf(type) = DatumOctets(group, 3)
  BY EventGroups
<1>2. type \notin {"IntegrityPoll", "ClassScan", "Time"}  BY <1>1 DEF PointTypes
<1>3. o = PointList(type, list) /\ list \in Lists(type)
  <2>1. ~ \E class \in 0 .. 3 : o = ClassScan(class)  BY <1>2 DEF ClassScan
  <2>2. ~ \E stamp \in Stamp : o = Time(stamp)  BY <1>2 DEF Time
  <2>3. o # IntegrityPoll  BY <1>2 DEF IntegrityPoll
  <2>4. PICK t \in DOMAIN SentAs : IsPoints(o, t)  BY <2>1, <2>2, <2>3, ObjectKinds
  <2>5. o = PointList(t, o.points) /\ o.points \in Lists(t)  BY <2>4 DEF IsPoints
  <2>6. o.type = t  BY <2>5 DEF PointList
  <2> QED  BY <2>5, <2>6
<1>4. AsRead(o) = o
  <2>1. o # ClassScan(0)  BY <1>2 DEF ClassScan
  <2> QED  BY <2>1 DEF AsRead
<1>5. list \in Seq(PointsOver(DatumOctets(group, 3)))
  <2>1. list \in Seq(PointsOver(DatumOf(type)))  BY <1>1, <1>3, ListSent
  <2> QED  BY <1>1, <2>1
<1>6. n \in Nat /\ n \in Octet
  <2>1. n \in Nat  BY <1>5
  <2>2. n < ByteSpace  OBVIOUS
  <2> HIDE DEF n
  <2>3. n <= 255  BY <2>1, <2>2, WidthsAssumption
  <2> QED  BY <2>1, <2>3, OctetRange
<1>7. 3 \in Octet  BY OctetRange
<1>8. IsHeader(w, h)
  <2> DEFINE octet == 34
             code == "CountAndPrefix16"
             three == 3
  <2>1. /\ octet \in {34, 40} /\ code = "CountAndPrefix16" /\ three \in Octet
        /\ w = <<group, three, octet>> \o <<n>>
    BY <1>7
  <2>2. group \in Octet /\ group # 0  BY <1>1 DEF IsSentGroup
  <2> HIDE DEF w, n, group
  <2>3. IsHeader(w, CountHeader(group, three, code, n))
    <3> HIDE DEF octet, code, three
    <3> QED  BY <1>6, <2>1, <2>2, HeaderCount
  <2> QED  BY <2>3
<1>9. \A i \in 1 .. n : TwoOctets(list[i].index) \in Seq(Octet) /\ list[i].datum \in Seq(Octet)
  <2> SUFFICES ASSUME NEW i \in 1 .. n
               PROVE  TwoOctets(list[i].index) \in Seq(Octet) /\ list[i].datum \in Seq(Octet)
    OBVIOUS
  <2>1. list[i].index \in Word /\ list[i].datum \in Seq(Octet)  BY <1>5, PointFields
  <2> QED  BY <2>1, UnsignedTwo
<1>10. IsBody(h, FlattenSeq(chunks), PointList(ListOf[group], list), FALSE)
  <2> DEFINE three == 3
  <2>1. Stamped \in Seq(Octet) /\ Len(Stamped) = SuffixSize(group, three)
    BY <1>1, StampedOctets
  <2>2. h = CountHeader(group, three, "CountAndPrefix16", Len(list))  OBVIOUS
  <2>3. chunks = [i \in 1 .. Len(list) |->
                    Cat(TwoOctets(list[i].index), Cat(list[i].datum, Stamped))]
    OBVIOUS
  <2>4. IsSentGroup(group, three) /\ list \in Seq(PointsOver(DatumOctets(group, three)))
    BY <1>1, <1>5
  <2> HIDE DEF chunks, h, group, three, n, list
  <2> QED  BY <2>1, <2>2, <2>3, <2>4, PrefixedBody
<1>11. AsEvents(o) = Cat(w, FlattenSeq(chunks))
  <2>1. DOMAIN list = 1 .. n  BY <1>5
  <2>2. <<group, 3, 34, n>> = w  OBVIOUS
  <2>3. \A i \in 1 .. n :
          TwoOctets(o.points[i].index) \o o.points[i].datum \o Zeros(1) \o <<0, 1>>
            = Cat(TwoOctets(list[i].index), Cat(list[i].datum, Stamped))
    BY <1>9, EventChunk
  <2>4. [i \in DOMAIN o.points |->
           TwoOctets(o.points[i].index) \o o.points[i].datum \o Zeros(1) \o <<0, 1>>] = chunks
    BY <2>1, <2>3, Zenon
  <2> HIDE DEF chunks, w
  <2>5. AsEvents(o) = <<group, 3, 34, n>> \o FlattenSeq(chunks)  BY <2>4, Zenon DEF AsEvents
  <2> QED  BY <2>2, <2>5 DEF Cat
<1> HIDE DEF w, h, chunks, n
<1>12. PointList(ListOf[group], list) = o  BY <1>1, <1>3
<1> HIDE DEF group, list
<1>13. IsObject(AsEvents(o), o, FALSE)  BY <1>8, <1>10, <1>11, <1>12 DEF IsObject
<1> QED  BY <1>4, <1>13

(* Points sent as events, each with a time of six octets, read like the     *)
(* points, and the object behind them is found behind the last time.        *)
(* (EventsReadAlike, of event_suffix_bytes.)                                *)
THEOREM EventsRead == Building => []EventsReadAlike
<1>1. FragmentTyped => EventsReadAlike
  <2> SUFFICES ASSUME FragmentTyped, fragment # None, HasEvents
               PROVE  DecodeObjects(FlattenSeq([i \in DOMAIN fragment.objects |->
                                                  AsEvents(Sent(i))])) = {Decoded.objects}
    BY DEF EventsReadAlike
  <2>1. PICK function \in Functions, xs \in Seq(Objects) : fragment = FragmentOf(function, xs)
    BY DEF FragmentTyped
  <2>2. function \in FunctionCode  BY FunctionsAssumption
  <2>3. /\ Decoded = FragmentOf(function, ReadBack(xs)) /\ fragment.objects = xs
        /\ DOMAIN xs = 1 .. Len(xs)
    BY <2>1, <2>2, WireParts
  <2> DEFINE n == Len(xs)
             ws == [i \in 1 .. n |-> AsEvents(xs[i])]
             bad == [i \in 1 .. n |-> FALSE]
             none == Zeros(0)
  <2>4. n \in Nat /\ \A i \in 1 .. n : xs[i] \in Objects  OBVIOUS
  <2>5. ASSUME NEW i \in 1 .. n
        PROVE  IsObject(AsEvents(xs[i]), xs[i], FALSE) /\ AsRead(xs[i]) = xs[i]
               /\ AsEvents(xs[i]) \in Seq(Octet)
    <3> DEFINE o == xs[i]
    <3>1. "points" \in DOMAIN o /\ o.type \in DOMAIN EventGroup /\ Len(o.points) < ByteSpace
      BY <2>3 DEF HasEvents, Sent
    <3>2. o \in Objects  BY <2>4
    <3> HIDE DEF o
    <3>3. IsObject(AsEvents(o), o, FALSE) /\ AsRead(o) = o  BY <3>1, <3>2, EventObject
    <3>4. AsEvents(o) \in Seq(Octet)  BY <3>3, ObjectOctets
    <3> QED  BY <3>3, <3>4 DEF o
  <2>6. ReadBack(xs) = xs
    <3>1. ReadBack(xs) = [i \in 1 .. n |-> xs[i]]  BY <2>5, Zenon DEF ReadBack
    <3>2. xs = [i \in 1 .. n |-> xs[i]]  BY <2>3
    <3> QED  BY <3>1, <3>2
  <2>7. Decoded.objects = xs  BY <2>3, <2>6 DEF FragmentOf
  <2>8. AreObjects(ws, xs, bad, n)
    <3>1. ASSUME NEW i \in 1 .. n
          PROVE  IsObject(ws[i], xs[i], bad[i]) /\ bad[i] \in BOOLEAN
      <4>1. ws[i] = AsEvents(xs[i]) /\ bad[i] = FALSE  OBVIOUS
      <4> HIDE DEF ws, bad
      <4>2. bad[i] \in BOOLEAN  BY <4>1
      <4>3. IsObject(AsEvents(xs[i]), xs[i], FALSE)  BY <2>5
      <4> QED  BY <4>1, <4>2, <4>3, Zenon
    <3> QED  BY <3>1, Zenon DEF AreObjects
  <2>9. Stream(ws, 0, n) = ws
    <3>1. none = <<>>
      <4>1. none \in Seq(Octet) /\ Len(none) = 4 * 0  BY ZerosType
      <4> HIDE DEF none
      <4> QED  BY <4>1
    <3>2. \A i \in 1 .. n : Cat(ws[i], none) = AsEvents(xs[i])  BY <2>5, <3>1, CatNone
    <3> QED  BY <3>2, Zenon DEF Stream
  <2>10. ~ \E i \in 1 .. n : bad[i]  OBVIOUS
  <2>11. [i \in DOMAIN fragment.objects |-> AsEvents(Sent(i))] = ws
    BY <2>3, Zenon DEF Sent
  <2> HIDE DEF ws, bad, n
  <2>12. DecodeObjects(FlattenSeq(Stream(ws, 0, n))) = {xs}
    <3>1. DecodeObjects(FlattenSeq(Stream(ws, 0, n))) =
            IF \E i \in 1 .. n : bad[i] THEN {} ELSE {xs}
      <4>1. Len(xs) = n /\ 0 \in Nat  BY DEF n
      <4> QED  BY <2>4, <2>8, <4>1, StreamRead
    <3> QED  BY <2>10, <3>1
  <2> QED  BY <2>7, <2>9, <2>11, <2>12
<1> QED  BY <1>1, FragmentsTyped, PTL
=============================================================================
