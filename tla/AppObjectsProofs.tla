-------------------------- MODULE AppObjectsProofs --------------------------
(***************************************************************************)
(* The objects of dnp3-app for every width of the integers, every number   *)
(* of points in an octet and every set of data: what run app_objects       *)
(* checks over narrow integers and lists of four points.  The lemmas about *)
(* Encode and Decode hold for every list of points; the proofs about the   *)
(* database and about fragments take them from here.                       *)
(***************************************************************************)
EXTENDS AppObjects, Integers, SequenceTheorems, TLAPS

-----------------------------------------------------------------------------
(* Facts about % that the arithmetic on indices rests on.                   *)

(* Quotient and remainder.                                                  *)
LEMMA DivMod ==
  ASSUME NEW M \in Nat, M > 0, NEW a \in Nat
  PROVE  /\ a % M \in 0 .. M - 1
         /\ a \div M \in Int
         /\ a = M * (a \div M) + (a % M)
OBVIOUS

(* The only multiple of M between -M and M is zero.                         *)
LEMMA SmallMultiple ==
  ASSUME NEW M \in Nat, M > 0, NEW k \in Int, NEW d \in Int,
         d = M * k, d < M, d > -M
  PROVE  d = 0
<1>1. CASE k >= 1  BY <1>1
<1>2. CASE k <= -1  BY <1>2
<1>3. CASE k = 0  BY <1>3
<1> QED  BY <1>1, <1>2, <1>3

(* A remainder is determined by any way of writing the number.              *)
LEMMA ModUnique ==
  ASSUME NEW M \in Nat, M > 0, NEW a \in Nat, NEW q \in Int,
         NEW r \in 0 .. M - 1, a = M * q + r
  PROVE  a % M = r
<1> DEFINE qa == a \div M
           ra == a % M
<1>1. a = M * qa + ra /\ qa \in Int /\ ra \in 0 .. M - 1  BY DivMod
<1> HIDE DEF qa, ra
<1>2. ra - r = M * (q - qa)  BY <1>1
<1>3. ra - r = 0  BY <1>2, <1>1, SmallMultiple
<1> QED  BY <1>3, <1>1 DEF ra

(* Below M a number is its own remainder, and below 2M it wraps once.       *)
LEMMA ModSmall ==
  ASSUME NEW M \in Nat, M > 0, NEW a \in 0 .. M - 1
  PROVE  a % M = a
<1>1. a \in Nat /\ a = M * 0 + a  OBVIOUS
<1> QED  BY <1>1, ModUnique

LEMMA ModWrapsOnce ==
  ASSUME NEW M \in Nat, M > 0, NEW a \in Nat, M <= a, a < M + M
  PROVE  a % M = a - M
<1>1. a = M * 1 + (a - M) /\ a - M \in 0 .. M - 1  OBVIOUS
<1> QED  BY <1>1, ModUnique

LEMMA ModAtMost ==
  ASSUME NEW M \in Nat, M > 0, NEW a \in Nat
  PROVE  a % M <= a
<1> DEFINE q == a \div M
           r == a % M
<1>1. a = M * q + r /\ q \in Int /\ r \in 0 .. M - 1  BY DivMod
<1> HIDE DEF q, r
<1>2. q >= 0
  <2> SUFFICES ASSUME q <= -1 PROVE FALSE
    BY <1>1
  <2>1. M * q <= -M  BY <1>1
  <2> QED  BY <2>1, <1>1
<1>3. M * q >= 0  BY <1>1, <1>2
<1> QED  BY <1>1, <1>3 DEF r

(* Even and odd places.                                                     *)
LEMMA Doubled ==
  ASSUME NEW i \in Nat, i > 0
  PROVE  /\ (2 * i) % 2 = 0 /\ (2 * i) \div 2 = i
         /\ ((2 * i) - 1) % 2 = 1 /\ (((2 * i) - 1) + 1) \div 2 = i
OBVIOUS

(* n things in rows of S: the rows are enough, and number i lies in one.     *)
LEMMA RowsSuffice ==
  ASSUME NEW S \in Nat, S > 0, NEW n \in Nat
  PROVE  /\ (n + S - 1) \div S \in Nat
         /\ ((n + S - 1) \div S) * S >= n
<1> DEFINE a == n + S - 1
           q == a \div S
           r == a % S
<1>1. a \in Nat  OBVIOUS
<1>2. a = S * q + r /\ q \in Int /\ r \in 0 .. S - 1  BY <1>1, DivMod
<1> HIDE DEF q, r
<1>3. S * q >= n /\ r \in Int  BY <1>2
<1>4. q >= 0
  <2> SUFFICES ASSUME q <= -1 PROVE FALSE
    BY <1>2
  <2>1. S * q <= -S  BY <1>2
  <2> QED  BY <2>1, <1>2, <1>3
<1>5. q * S = S * q  BY <1>2
<1> QED  BY <1>2, <1>3, <1>4, <1>5 DEF q

LEMMA RowOf ==
  ASSUME NEW S \in Nat, S > 0, NEW n \in Nat, NEW i \in 1 .. n
  PROVE  /\ ((i - 1) \div S) + 1 \in 1 .. (n + S - 1) \div S
         /\ ((i - 1) % S) + 1 \in 1 .. S
         /\ (((i - 1) \div S) * S) + ((i - 1) % S) = i - 1
<1> DEFINE a == n + S - 1
           q == a \div S
           r == a % S
           b == i - 1
           p == b \div S
           t == b % S
<1>1. a \in Nat /\ b \in Nat /\ b <= a - S  OBVIOUS
<1>2. a = S * q + r /\ q \in Int /\ r \in 0 .. S - 1  BY <1>1, DivMod
<1>3. b = S * p + t /\ p \in Int /\ t \in 0 .. S - 1  BY <1>1, DivMod
<1> HIDE DEF a, b, q, r, p, t
<1>4. p >= 0
  <2> SUFFICES ASSUME p <= -1 PROVE FALSE
    BY <1>3
  <2>1. S * p <= -S  BY <1>3
  <2> QED  BY <2>1, <1>1, <1>3
<1>5. p + 1 <= q
  <2> SUFFICES ASSUME q <= p PROVE FALSE
    BY <1>2, <1>3
  <2>1. S * q <= S * p  BY <1>2, <1>3
  <2>2. a < S * p + S  BY <2>1, <1>2, <1>3
  <2> QED  BY <2>2, <1>1, <1>2, <1>3
<1>6. p * S = S * p  BY <1>3
<1>7. p + 1 \in 1 .. q /\ t + 1 \in 1 .. S /\ (p * S) + t = b
  BY <1>2, <1>3, <1>4, <1>5, <1>6
<1> QED  BY <1>7 DEF a, b, q, p, t

(* A bit of a number, from the M it counts for.                             *)
LEMMA BitIsThere ==
  ASSUME NEW M \in Nat, M > 0, NEW hi \in Nat, NEW bit \in {0, 1}, NEW lo \in Nat, lo < M,
         NEW n, n = M * (2 * hi + bit) + lo
  PROVE  (n \div M) % 2 = bit
<1> DEFINE x == 2 * hi + bit
           q == n \div M
           r == n % M
<1>1. x \in Nat  OBVIOUS
<1> HIDE DEF x
<1>2. M * x \in Nat  BY <1>1
<1>3. n \in Nat /\ n = M * x + lo  BY <1>2 DEF x
<1>4. n = M * q + r /\ q \in Int /\ r \in 0 .. M - 1  BY <1>3, DivMod
<1> HIDE DEF q, r
<1>5. M * (x - q) = M * x - M * q  BY <1>1, <1>4
<1>6. r - lo = M * (x - q)  BY <1>2, <1>3, <1>4, <1>5
<1>7. r - lo < M /\ r - lo > -M /\ r - lo \in Int /\ x - q \in Int  BY <1>1, <1>4
<1>8. r - lo = 0
  <2> DEFINE d == r - lo
             k == x - q
  <2>1. d \in Int /\ k \in Int /\ d = M * k /\ d < M /\ d > -M  BY <1>6, <1>7
  <2> HIDE DEF d, k
  <2>2. d = 0  BY <2>1, SmallMultiple
  <2> QED  BY <2>2 DEF d
<1>9. M * (x - q) = 0 /\ x - q \in Int  BY <1>1, <1>4, <1>6, <1>8
<1>10. x - q = 0
  <2> DEFINE k == x - q
  <2>1. k \in Int /\ M * k = 0  BY <1>9
  <2> HIDE DEF k
  <2>2. k = 0  BY <2>1
  <2> QED  BY <2>2 DEF k
<1>11. q = x  BY <1>1, <1>4, <1>10
<1>12. x % 2 = bit
  <2>1. x = 2 * hi + bit /\ bit \in 0 .. 2 - 1 /\ 2 \in Nat /\ 2 > 0 /\ hi \in Int  BY DEF x
  <2> QED  BY <1>1, <2>1, ModUnique
<1> QED  BY <1>11, <1>12 DEF q

-----------------------------------------------------------------------------
USE WidthAssumption, BoundAssumption

Kind == {"binary", "measured"}

(* The points over a set of data.                                           *)
PointOf(D) == [index : Index, datum : D]

(* A contiguous list whose indices pass the last one.                       *)
WrapsAround(list) == Contiguous(list) /\ list[Len(list)].index < list[1].index

Range16(start, stop) == [code |-> "Range16", start |-> start, stop |-> stop]
Range8(start, stop) == [code |-> "Range8", start |-> start, stop |-> stop]
Prefixed16(count) == [code |-> "CountAndPrefix16", count |-> count]

(* What the decoder does for the qualifiers that Encode and RangesAgree use.*)
LEMMA DecodeRange16 ==
  ASSUME NEW sort, NEW start, NEW stop, NEW body
  PROVE  Decode(sort, Range16(start, stop), body) =
            IF stop < start THEN <<>>
            ELSE ReadImplied(IndicesFrom(start, RangeLength(start, stop), IndexSpace),
                             body)
BY DEF Decode, Range16

LEMMA DecodeRange8 ==
  ASSUME NEW sort, NEW start, NEW stop, NEW body
  PROVE  Decode(sort, Range8(start, stop), body) =
            ReadImplied(IndicesFrom(start, Range8Count(Range8(start, stop)), ByteSpace),
                        body)
BY DEF Decode, Range8

LEMMA DecodePrefixed16 ==
  ASSUME NEW sort, NEW count, NEW body
  PROVE  Decode(sort, Prefixed16(count), body) = ReadPrefixed(count, body)
BY DEF Decode, Prefixed16

(* A list is the same as its indices and its data, one by one.              *)
LEMMA ListOfPoints ==
  ASSUME NEW D, NEW list \in Seq(PointOf(D))
  PROVE  /\ Len(list) \in Nat /\ DOMAIN list = 1 .. Len(list)
         /\ \A i \in 1 .. Len(list) : /\ list[i].index \in Index
                                      /\ list[i].datum \in D
                                      /\ list[i] = [index |-> list[i].index,
                                                    datum |-> list[i].datum]
         /\ list = [i \in 1 .. Len(list) |-> [index |-> list[i].index,
                                              datum |-> list[i].datum]]
<1>1. Len(list) \in Nat /\ DOMAIN list = 1 .. Len(list)  OBVIOUS
<1>2. ASSUME NEW i \in 1 .. Len(list)
      PROVE  /\ list[i].index \in Index /\ list[i].datum \in D
             /\ list[i] = [index |-> list[i].index, datum |-> list[i].datum]
  <2>1. list[i] \in PointOf(D)  BY <1>1
  <2> QED  BY <2>1 DEF PointOf
<1>3. list = [i \in 1 .. Len(list) |-> list[i]]  BY <1>1
<1> QED  BY <1>1, <1>2, <1>3

(* Implied indices that are those of the list give the list back.           *)
LEMMA ReadImpliedGives ==
  ASSUME NEW D, NEW list \in Seq(PointOf(D)), NEW indices, NEW body,
         indices = [i \in 1 .. Len(list) |-> list[i].index],
         body = [i \in 1 .. Len(list) |-> list[i].datum]
  PROVE  ReadImplied(indices, body) = <<list>>
<1> DEFINE n == Len(list)
<1>1. /\ n \in Nat
      /\ list = [i \in 1 .. n |-> [index |-> list[i].index, datum |-> list[i].datum]]
  BY ListOfPoints
<1>2. Len(indices) = n /\ Len(body) = n /\ DOMAIN indices = 1 .. n  BY <1>1
<1>3. [i \in DOMAIN indices |-> [index |-> indices[i], datum |-> body[i]]] = list
  BY <1>1, <1>2
<1>4. ~ (Len(body) < Len(indices))  BY <1>1, <1>2
<1> QED  BY <1>3, <1>4 DEF ReadImplied

(* A contiguous list that does not pass the last index is one range.        *)
LEMMA ContiguousRange ==
  ASSUME NEW D, NEW list \in Seq(PointOf(D)), Len(list) <= IndexSpace, Contiguous(list)
  PROVE  LET start == list[1].index
             stop  == list[Len(list)].index
         IN  /\ Len(list) > 0
             /\ start \in Index /\ stop \in Index
             /\ stop >= start =>
                   IndicesFrom(start, RangeLength(start, stop), IndexSpace) =
                      [i \in 1 .. Len(list) |-> list[i].index]
<1> DEFINE n == Len(list)
           start == list[1].index
           stop == list[n].index
<1>1. n \in Nat /\ n > 0 /\ DOMAIN list = 1 .. n
  BY ListOfPoints DEF Contiguous
<1>2. 1 \in 1 .. n /\ n \in 1 .. n  BY <1>1
<1>3. start \in Index /\ stop \in Index  BY <1>2, ListOfPoints
<1>4. \A i \in 1 .. n : list[i].index = (start + (i - 1)) % IndexSpace
  BY <1>1 DEF Contiguous
<1>5. stop = (start + (n - 1)) % IndexSpace  BY <1>2, <1>4
<1> HIDE DEF n, start, stop
<1>6. ASSUME stop >= start
      PROVE  RangeLength(start, stop) = n
  <2>1. start + (n - 1) \in Nat /\ start \in Nat  BY <1>1, <1>3 DEF Index
  <2> DEFINE last == start + (n - 1)
  <2>2. last \in Nat /\ last < IndexSpace + IndexSpace
    BY <2>1, <1>1, <1>3 DEF Index, n
  <2>3. CASE last < IndexSpace
    <3> HIDE DEF last
    <3>1. last % IndexSpace = last  BY <2>2, <2>3, ModSmall
    <3> QED  BY <3>1, <1>1, <1>5, <2>1 DEF RangeLength, last
  <2>4. CASE last >= IndexSpace
    <3>1. stop = last - IndexSpace
      <4> HIDE DEF last
      <4>1. last % IndexSpace = last - IndexSpace  BY <2>2, <2>4, ModWrapsOnce
      <4> QED  BY <4>1, <1>5 DEF last
    <3>2. n <= IndexSpace  BY DEF n
    <3>3. stop < start  BY <3>1, <3>2, <2>1, <1>1
    <3> QED  BY <3>3, <1>6, <1>3 DEF Index
  <2> QED  BY <2>2, <2>3, <2>4
<1>7. stop >= start => IndicesFrom(start, RangeLength(start, stop), IndexSpace) =
                          [i \in 1 .. n |-> list[i].index]
  BY <1>4, <1>6 DEF IndicesFrom
<1> QED  BY <1>1, <1>3, <1>7 DEF n, start, stop

(* An index before each point.                                              *)
LEMMA PrefixedGives ==
  ASSUME NEW D, NEW list \in Seq(PointOf(D))
  PROVE  ReadPrefixed(Len(list), Interleaved(list)) = <<list>>
<1> DEFINE n == Len(list)
           body == Interleaved(list)
<1>1. /\ n \in Nat
      /\ \A i \in 1 .. n : list[i].index \in Index
      /\ list = [i \in 1 .. n |-> [index |-> list[i].index, datum |-> list[i].datum]]
  BY ListOfPoints
<1>2. Len(body) = 2 * n  BY <1>1 DEF Interleaved
<1>3. ASSUME NEW i \in 1 .. n
      PROVE  Clamp(body[(2 * i) - 1]) = list[i].index /\ body[2 * i] = list[i].datum
  <2>1. i \in Nat /\ i > 0 /\ 2 * i \in 1 .. 2 * n /\ (2 * i) - 1 \in 1 .. 2 * n
    BY <1>1
  <2>2. /\ (2 * i) % 2 = 0 /\ (2 * i) \div 2 = i
        /\ ((2 * i) - 1) % 2 = 1 /\ (((2 * i) - 1) + 1) \div 2 = i
    BY <2>1, Doubled
  <2>3. body[2 * i] = list[i].datum
    BY <2>1, <2>2 DEF Interleaved
  <2>4. body[(2 * i) - 1] = list[i].index
    BY <2>1, <2>2 DEF Interleaved
  <2>5. Clamp(list[i].index) = list[i].index  BY <1>1 DEF Clamp, Index
  <2> QED  BY <2>3, <2>4, <2>5
<1> HIDE DEF body
<1>4. [i \in 1 .. n |-> [index |-> Clamp(body[(2 * i) - 1]), datum |-> body[2 * i]]] = list
  BY <1>1, <1>3
<1>5. ~ (Len(body) < 2 * n)  BY <1>1, <1>2
<1> QED  BY <1>4, <1>5 DEF ReadPrefixed, body

(* encode_binary_like and its siblings against their decoders: what was     *)
(* encoded is read as the same list, or as an error when its indices wrap.  *)
LEMMA EncodeDecode ==
  ASSUME NEW D, NEW list \in Seq(PointOf(D)), Len(list) <= IndexSpace,
         NEW sort, NEW i \in DOMAIN Encode(list)
  PROVE  Decode(sort, Encode(list)[i].qualifier, Encode(list)[i].body) =
            IF WrapsAround(list) THEN <<>> ELSE <<list>>
<1> DEFINE n == Len(list)
           start == list[1].index
           stop == list[n].index
           plain == [j \in DOMAIN list |-> list[j].datum]
<1>0. n \in Nat /\ DOMAIN list = 1 .. n  BY ListOfPoints
<1>1. CASE Contiguous(list)
  <2>1. Encode(list) = <<[qualifier |-> Range16(start, stop), body |-> plain]>>
    BY <1>1 DEF Encode, Range16
  <2>2. Encode(list)[i] = [qualifier |-> Range16(start, stop), body |-> plain]
    BY <2>1
  <2>3. plain = [j \in 1 .. n |-> list[j].datum]  BY <1>0
  <2>4. /\ n > 0 /\ start \in Index /\ stop \in Index
        /\ stop >= start =>
              IndicesFrom(start, RangeLength(start, stop), IndexSpace) =
                 [j \in 1 .. n |-> list[j].index]
    BY <1>1, ContiguousRange
  <2> HIDE DEF n, start, stop, plain
  <2>5. WrapsAround(list) <=> stop < start
    BY <1>1 DEF WrapsAround, start, stop, n
  <2>6. CASE stop < start
    BY <2>2, <2>5, <2>6, DecodeRange16
  <2>7. CASE ~ (stop < start)
    <3>1. IndicesFrom(start, RangeLength(start, stop), IndexSpace) =
             [j \in 1 .. n |-> list[j].index]
      BY <2>4, <2>7 DEF Index
    <3>2. ReadImplied(IndicesFrom(start, RangeLength(start, stop), IndexSpace), plain)
             = <<list>>
      BY <3>1, <2>3, ReadImpliedGives DEF n
    <3> QED  BY <2>2, <2>5, <2>7, <3>2, DecodeRange16
  <2> QED  BY <2>6, <2>7
<1>2. CASE ~ Contiguous(list) /\ n < ByteSpace
  <2>1. Encode(list) = <<[qualifier |-> Prefixed16(n), body |-> Interleaved(list)]>>
    BY <1>2 DEF Encode, Prefixed16
  <2>2. Encode(list)[i] = [qualifier |-> Prefixed16(n), body |-> Interleaved(list)]
    BY <2>1
  <2>3. ReadPrefixed(n, Interleaved(list)) = <<list>>  BY PrefixedGives
  <2> HIDE DEF n
  <2> QED  BY <2>2, <2>3, <1>2, DecodePrefixed16 DEF WrapsAround
<1>3. CASE ~ Contiguous(list) /\ ~ (n < ByteSpace)
  BY <1>3 DEF Encode
<1> QED  BY <1>1, <1>2, <1>3

-----------------------------------------------------------------------------
(* The list is one of points, as long as its indices allow at most.         *)
PointsOK ==
    /\ kind \in Kind
    /\ points \in Seq(PointOf(Datum))
    /\ Len(points) <= MaxPoints

THEOREM Lists == Spec => []PointsOK
<1>1. Init => PointsOK
  BY EmptySeq DEF Init, PointsOK, Kind
<1>2. PointsOK /\ [Next]_vars => PointsOK'
  <2> SUFFICES ASSUME PointsOK, [Next]_vars PROVE PointsOK'
    OBVIOUS
  <2>1. CASE AddPoint
    <3>1. PICK p \in Point : points' = Append(points, p)  BY <2>1 DEF AddPoint
    <3>2. p \in PointOf(Datum)  BY DEF Point, PointOf
    <3>3. /\ points' \in Seq(PointOf(Datum))
          /\ Len(points') = Len(points) + 1 /\ Len(points) \in Nat
      BY <3>1, <3>2, AppendProperties DEF PointsOK
    <3>4. Len(points') <= MaxPoints  BY <2>1, <3>3 DEF AddPoint
    <3> QED  BY <2>1, <3>3, <3>4 DEF PointsOK, AddPoint
  <2>2. CASE UNCHANGED vars
    BY <2>2 DEF PointsOK, vars
  <2> QED  BY <2>1, <2>2 DEF Next
<1> QED  BY <1>1, <1>2, PTL DEF Spec

(* No list of points is ever read as another one: what encode_binary_like   *)
(* and its siblings write is read back point for point, and a range whose   *)
(* indices wrap is an error of the reader.                                  *)
THEOREM NeverAnotherList == Spec => []FaithfulOrRejected
<1>1. PointsOK => FaithfulOrRejected
  <2> SUFFICES ASSUME PointsOK, NEW i \in DOMAIN Encode(points)
               PROVE  Decoded(Encode(points)[i]) = IF Wraps THEN <<>> ELSE <<points>>
    BY DEF FaithfulOrRejected
  <2>1. points \in Seq(PointOf(Datum)) /\ Len(points) <= IndexSpace
    BY ElementOfSeq DEF PointsOK
  <2>2. Wraps <=> WrapsAround(points)  BY DEF Wraps, WrapsAround
  <2> QED  BY <2>1, <2>2, EncodeDecode DEF Decoded
<1> QED  BY <1>1, Lists, PTL

-----------------------------------------------------------------------------
(* The list that a range stands for: the data of the points, under the      *)
(* indices from start on.                                                   *)
Renumbered(list, start) ==
    [i \in DOMAIN list |-> [index |-> start + (i - 1), datum |-> list[i].datum]]

(* Below the last index of a width, a range counts without wrapping.        *)
LEMMA CountsUp ==
  ASSUME NEW width \in Nat, width > 0, NEW n \in Nat, NEW start \in Nat,
         start + n <= width
  PROVE  IndicesFrom(start, n, width) = [i \in 1 .. n |-> start + (i - 1)]
<1> SUFFICES ASSUME NEW i \in 1 .. n
             PROVE  (start + (i - 1)) % width = start + (i - 1)
  BY DEF IndicesFrom
<1> DEFINE a == start + (i - 1)
<1>1. a \in 0 .. width - 1  OBVIOUS
<1> HIDE DEF a
<1>2. a % width = a  BY <1>1, ModSmall
<1> QED  BY <1>2 DEF a

(* A body of the data of a list, one after the other.                       *)
LEMMA PlainBody ==
  ASSUME NEW D, NEW list \in Seq(PointOf(D)), NEW start \in Nat,
         NEW width \in Nat, width > 0, start + Len(list) <= width
  PROVE  ReadImplied(IndicesFrom(start, Len(list), width),
                     [i \in DOMAIN list |-> list[i].datum]) =
            <<Renumbered(list, start)>>
<1> DEFINE n == Len(list)
           body == [i \in DOMAIN list |-> list[i].datum]
           indices == IndicesFrom(start, n, width)
<1>1. n \in Nat /\ DOMAIN list = 1 .. n  BY ListOfPoints
<1>2. indices = [i \in 1 .. n |-> start + (i - 1)]
  <2>1. start + n <= width  OBVIOUS
  <2> HIDE DEF n
  <2> QED  BY <1>1, <2>1, CountsUp
<1>3. Len(indices) = n /\ DOMAIN indices = 1 .. n /\ Len(body) = n
  BY <1>1, <1>2
<1>4. [i \in DOMAIN indices |-> [index |-> indices[i], datum |-> body[i]]] =
         Renumbered(list, start)
  BY <1>1, <1>2, <1>3 DEF Renumbered
<1>5. ~ (Len(body) < Len(indices))  BY <1>1, <1>3
<1> QED  BY <1>4, <1>5 DEF ReadImplied

(* The points of a list, S to an octet, the last one repeated to fill up.   *)
Packed(list, S) ==
    [o \in 1 .. (Len(list) + S - 1) \div S |->
        [s \in 1 .. S |->
            LET i == ((o - 1) * S) + s
            IN  list[IF i <= Len(list) THEN i ELSE Len(list)].datum]]

(* The bit of point i is where the packed body has it.                      *)
LEMMA PackedDatum ==
  ASSUME NEW D, NEW list \in Seq(PointOf(D)), NEW S \in Nat, S > 0,
         NEW i \in 1 .. Len(list)
  PROVE  Packed(list, S)[((i - 1) \div S) + 1][((i - 1) % S) + 1] = list[i].datum
<1> DEFINE n == Len(list)
           octet == (i - 1) \div S
           slot == (i - 1) % S
           o == octet + 1
           s == slot + 1
<1>1. n \in Nat  BY ListOfPoints
<1>2. o \in 1 .. (n + S - 1) \div S /\ s \in 1 .. S /\ (octet * S) + slot = i - 1
  BY <1>1, RowOf
<1>3. octet \in Int /\ slot \in Int  BY DivMod
<1>4. ((o - 1) * S) + s = i
  <2>1. o - 1 = octet  BY <1>3
  <2>2. octet * S \in Int  BY <1>3
  <2> HIDE DEF octet, slot
  <2>3. ((o - 1) * S) + s = ((octet * S) + slot) + 1  BY <2>1, <2>2, <1>3
  <2> QED  BY <2>3, <1>2
<1>5. i <= n  OBVIOUS
<1> HIDE DEF octet, slot, o, s
<1>6. Packed(list, S)[o][s] =
         list[IF ((o - 1) * S) + s <= n THEN ((o - 1) * S) + s ELSE n].datum
  BY <1>2 DEF Packed
<1>7. Packed(list, S)[o][s] = list[i].datum  BY <1>4, <1>5, <1>6
<1> QED  BY <1>7 DEF o, s, octet, slot

(* A packed body under a range of either width.                             *)
LEMMA PackedBody ==
  ASSUME NEW D, NEW list \in Seq(PointOf(D)), Len(list) > 0, NEW S \in Nat, S > 0,
         NEW start \in Nat, NEW q,
         \/ /\ q = Range8(start, start + Len(list) - 1)
            /\ start + Len(list) <= ByteSpace
         \/ /\ q = Range16(start, start + Len(list) - 1)
            /\ start + Len(list) <= IndexSpace
  PROVE  DecodePacked(S, q, Packed(list, S)) = <<Renumbered(list, start)>>
<1> DEFINE n == Len(list)
           octets == Packed(list, S)
           width == IF q.code = "Range8" THEN ByteSpace ELSE IndexSpace
           count == IF q.code = "Range8" THEN Range8Count(q)
                    ELSE RangeLength(q.start, q.stop)
           out == [i \in 1 .. count |->
                     LET octet  == (i - 1) \div S
                         slot   == (i - 1) % S
                         offset == PackedOffset(octet, slot, S)
                     IN  [index |-> (q.start + (offset % width)) % width,
                          datum |-> octets[octet + 1][slot + 1]]]
<1>1. n \in Nat /\ n > 0 /\ DOMAIN list = 1 .. n  BY ListOfPoints
<1>2. /\ q.code \in {"Range8", "Range16"} /\ q.start = start
      /\ q.stop = start + n - 1 /\ ~ (q.stop < q.start)
  BY <1>1 DEF Range8, Range16
<1>3. width \in Nat /\ width > 0 /\ start + n <= width
  BY DEF Range8, Range16
<1>4. count = n  BY <1>1, <1>2 DEF Range8Count, RangeLength
<1>5. Len(octets) * S >= count
  <2>1. Len(octets) = (n + S - 1) \div S
    BY <1>1, RowsSuffice DEF Packed
  <2> QED  BY <2>1, <1>1, <1>4, RowsSuffice
<1>5a. ~ (Len(octets) * S < count)
  <2>1. Len(octets) = (n + S - 1) \div S /\ (n + S - 1) \div S \in Nat
    BY <1>1, RowsSuffice DEF Packed
  <2> DEFINE k == Len(octets)
  <2>2. k \in Nat  BY <2>1
  <2> HIDE DEF k
  <2>3. k * S \in Int  BY <2>2
  <2>4. k * S >= n  BY <1>4, <1>5 DEF k
  <2>5. ~ (k * S < n)  BY <2>3, <2>4, <1>1
  <2> QED  BY <2>5, <1>4 DEF k
<1>6. ASSUME NEW i \in 1 .. n
      PROVE  LET octet  == (i - 1) \div S
                 slot   == (i - 1) % S
                 offset == PackedOffset(octet, slot, S)
             IN  /\ (q.start + (offset % width)) % width = start + (i - 1)
                 /\ octets[octet + 1][slot + 1] = list[i].datum
  <2>1. PackedOffset((i - 1) \div S, (i - 1) % S, S) = i - 1
    BY <1>1, RowOf DEF PackedOffset
  <2>2. i - 1 \in 0 .. width - 1 /\ start + (i - 1) \in 0 .. width - 1
    BY <1>1, <1>3
  <2> HIDE DEF width
  <2>3. (i - 1) % width = i - 1  BY <1>3, <2>2, ModSmall
  <2>4. (start + (i - 1)) % width = start + (i - 1)
    <3> DEFINE a == start + (i - 1)
    <3> HIDE DEF a
    <3>1. a \in 0 .. width - 1  BY <2>2 DEF a
    <3>2. a % width = a  BY <1>3, <3>1, ModSmall
    <3> QED  BY <3>2 DEF a
  <2>5. octets[((i - 1) \div S) + 1][((i - 1) % S) + 1] = list[i].datum
    BY PackedDatum
  <2> HIDE DEF octets
  <2> QED  BY <2>1, <2>3, <2>4, <2>5, <1>2
<1>7. out = Renumbered(list, start)
  <2> HIDE DEF width, count
  <2> QED  BY <1>1, <1>4, <1>6 DEF Renumbered
<1>8. DecodePacked(S, q, octets) = <<out>>
  BY <1>2, <1>5a DEF DecodePacked
<1> QED  BY <1>7, <1>8

(* decode_binary_packed, decode_double_bit_packed and the decoders of the   *)
(* plain bodies read one list, at every index that one octet can start a    *)
(* range with: no width overflows, no slot is left out or read twice.       *)
THEOREM RangesReadAlike == Spec => []RangesAgree
<1>1. PointsOK => RangesAgree
  <2> SUFFICES ASSUME PointsOK, NEW start \in 0 .. ByteSpace - Len(points),
                      points # <<>>
               PROVE  LET wide   == [code |-> "Range16", start |-> start,
                                     stop |-> start + Len(points) - 1]
                          narrow == [wide EXCEPT !.code = "Range8"]
                          plain  == [i \in DOMAIN points |-> points[i].datum]
                          all    == <<[i \in DOMAIN points |->
                                         [index |-> start + (i - 1),
                                          datum |-> points[i].datum]]>>
                      IN  /\ Decode(kind, narrow, plain) = all
                          /\ DecodePacked(Slots, narrow, Octets) = all
                          /\ DecodePacked(Slots, wide, Octets) = all
                          /\ Decode(kind, wide, plain) = all
    BY DEF RangesAgree
  <2> DEFINE n == Len(points)
             stop == start + n - 1
             plain == [i \in DOMAIN points |-> points[i].datum]
             all == <<Renumbered(points, start)>>
  <2>1. points \in Seq(PointOf(Datum)) /\ n \in Nat  BY ElementOfSeq DEF PointsOK
  <2>2. n > 0  BY <2>1
  <2>3. start \in Nat /\ start + n <= ByteSpace /\ start + n <= IndexSpace
    BY <2>1
  <2>4. [Range16(start, stop) EXCEPT !.code = "Range8"] = Range8(start, stop)
    BY DEF Range16, Range8
  <2>5. ~ (stop < start) /\ RangeLength(start, stop) = n
        /\ Range8Count(Range8(start, stop)) = n
    BY <2>1, <2>2, <2>3 DEF RangeLength, Range8Count, Range8
  <2>5a. /\ ReadImplied(IndicesFrom(start, n, ByteSpace), plain) = all
         /\ ReadImplied(IndicesFrom(start, n, IndexSpace), plain) = all
    BY <2>1, <2>3, PlainBody
  <2>6. Decode(kind, Range16(start, stop), plain) = all
    BY <2>5, <2>5a, DecodeRange16
  <2>7. Decode(kind, Range8(start, stop), plain) = all
    BY <2>5, <2>5a, DecodeRange8
  <2>8. Octets = Packed(points, Slots)  BY DEF Octets, Packed
  <2>9. /\ DecodePacked(Slots, Range8(start, stop), Octets) = all
        /\ DecodePacked(Slots, Range16(start, stop), Octets) = all
    BY <2>1, <2>2, <2>3, <2>8, PackedBody, SlotsAssumption
  <2> QED  BY <2>4, <2>6, <2>7, <2>9 DEF Range16, Renumbered
<1> QED  BY <1>1, Lists, PTL
=============================================================================
