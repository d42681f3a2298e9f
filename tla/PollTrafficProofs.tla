-------------------------- MODULE PollTrafficProofs -------------------------
(***************************************************************************)
(* What the proofs about polling share, over a serial line and over TCP:   *)
(* arithmetic on sequence numbers, what Reassembler::push keeps, how the   *)
(* frames of a line stay in order whatever happens to some of them, and    *)
(* what the sessions make of the frames of a poll.                         *)
(***************************************************************************)
EXTENDS PollTraffic, Integers, SequenceTheorems, TLAPS

-----------------------------------------------------------------------------
(* Quotient and remainder.                                                  *)
LEMMA DivMod ==
  ASSUME NEW M \in Nat, M > 0, NEW a \in Nat
  PROVE  /\ a % M \in 0 .. M - 1
         /\ a \div M \in Int
         /\ a = M * (a \div M) + (a % M)
OBVIOUS

(* The only multiple of M between -M and M is zero.                         *)
LEMMA SmallMultiple ==
  ASSUME NEW M \in Nat, M > 0, NEW k \in Int, NEW d \in Int,
         d = M * k, d < M, d > -M
  PROVE  d = 0
<1>1. CASE k >= 1  BY <1>1
<1>2. CASE k <= -1  BY <1>2
<1>3. CASE k = 0  BY <1>3
<1> QED  BY <1>1, <1>2, <1>3

(* Fewer than M apart, two numbers with one remainder are the same.         *)
LEMMA ModEqual ==
  ASSUME NEW M \in Nat, M > 0, NEW a \in Nat, NEW b \in Nat,
         a <= b, b < a + M, a % M = b % M
  PROVE  a = b
<1> DEFINE qa == a \div M
           qb == b \div M
<1>1. a = M * qa + (a % M) /\ b = M * qb + (b % M) /\ qa \in Int /\ qb \in Int
  BY DivMod
<1>2. b - a = M * (qb - qa)  BY <1>1
<1> HIDE DEF qa, qb
<1>3. qb - qa \in Int  BY <1>1
<1>4. b - a = 0  BY <1>2, <1>3, SmallMultiple
<1> QED  BY <1>4

(* A remainder is determined by any way of writing the number.              *)
LEMMA ModUnique ==
  ASSUME NEW M \in Nat, M > 0, NEW a \in Nat, NEW q \in Int,
         NEW r \in 0 .. M - 1, a = M * q + r
  PROVE  a % M = r
<1> DEFINE qa == a \div M
           ra == a % M
<1>1. a = M * qa + ra /\ qa \in Int /\ ra \in 0 .. M - 1  BY DivMod
<1> HIDE DEF qa, ra
<1>2. ra - r = M * (q - qa)  BY <1>1
<1>3. ra - r = 0  BY <1>2, <1>1, SmallMultiple
<1> QED  BY <1>3, <1>1 DEF ra

(* A remainder may be taken before an addition as well as after it.         *)
LEMMA ModAdd ==
  ASSUME NEW M \in Nat, M > 0, NEW a \in Nat, NEW b \in Nat
  PROVE  ((a % M) + b) % M = (a + b) % M
<1> DEFINE c  == (a % M) + b
           qa == a \div M
           qc == c \div M
           rc == c % M
<1>1. a = M * qa + (a % M) /\ qa \in Int /\ a % M \in 0 .. M - 1  BY DivMod
<1>2. c \in Nat  BY <1>1
<1>3. c = M * qc + rc /\ qc \in Int /\ rc \in 0 .. M - 1  BY <1>2, DivMod
<1>4. a + b = M * qa + c  BY <1>1
<1> HIDE DEF c, qa, qc, rc
<1>5. a + b = M * (qa + qc) + rc  BY <1>1, <1>3, <1>4
<1>6. qa + qc \in Int /\ a + b \in Nat  BY <1>1, <1>3
<1>7. (a + b) % M = rc  BY <1>5, <1>6, <1>3, ModUnique, Zenon
<1> QED  BY <1>7 DEF rc, c

-----------------------------------------------------------------------------
USE SeqSpaceAssumption, NoneAssumption

(* A segment that carries elements of C.                                    *)
SegmentOf(C) ==
    [fir : BOOLEAN, fin : BOOLEAN, seq : SeqNumber, payload : Seq(C)]

(* A segment both first and final is handed up at once, in any state.       *)
LEMMA PushSingle ==
  ASSUME NEW C, NEW re, NEW seg \in SegmentOf(C), seg.fir, seg.fin
  PROVE  Push(re, seg) = Pushed(NewReassembler, "complete", seg.payload)
<1>1. seg.seq # None /\ seg.payload \in Seq(C)  BY DEF SegmentOf, SeqNumber
<1>2. <<>> \o seg.payload = seg.payload  BY <1>1, ConcatEmptySeq
<1> QED  BY <1>1, <1>2 DEF Push, Extended

(* What comes of a pushed segment j of a fragment of equal chunks.          *)
Taken(pushed, chunk, start, total, j) ==
    \/ pushed.result \in {"InvalidSequence", "InvalidFragment"}
    \/ /\ pushed.result = "pending" /\ j # total
       /\ Collecting(pushed.re, chunk, start, total)
    \/ /\ pushed.result = "complete" /\ j = total
       /\ pushed.re = NewReassembler
       /\ pushed.data \in Seq({chunk}) /\ pushed.data # <<>>
       /\ total <= SeqSpace + 1 => Len(pushed.data) = total

LEMMA IsNumber ==
  ASSUME NEW a \in Nat
  PROVE  a % SeqSpace \in SeqNumber /\ a % SeqSpace \in Nat /\ a % SeqSpace # None
<1>1. a % SeqSpace \in 0 .. SeqSpace - 1  BY DivMod
<1> QED  BY <1>1 DEF SeqNumber

LEMMA NextNumber ==
  ASSUME NEW start \in SeqNumber, NEW k \in Nat
  PROVE  (((start + k) % SeqSpace) + 1) % SeqSpace = (start + (k + 1)) % SeqSpace
<1> DEFINE a == start + k
<1>1. a \in Nat /\ start + (k + 1) = a + 1  BY DEF SeqNumber
<1> HIDE DEF a
<1>2. SeqSpace \in Nat /\ SeqSpace > 0 /\ 1 \in Nat  OBVIOUS
<1>3. ((a % SeqSpace) + 1) % SeqSpace = (a + 1) % SeqSpace
  BY <1>1, <1>2, ModAdd, Zenon
<1> QED  BY <1>1, <1>3 DEF a

(* Fewer than SeqSpace apart, two places of a fragment with one number are  *)
(* the same.                                                                *)
LEMMA SamePlace ==
  ASSUME NEW start \in SeqNumber, NEW i \in Nat, NEW k \in Nat,
         i < k + SeqSpace, k < i + SeqSpace,
         (start + i) % SeqSpace = (start + k) % SeqSpace
  PROVE  i = k
<1> DEFINE a == start + i
           b == start + k
<1>1. a \in Nat /\ b \in Nat /\ a < b + SeqSpace /\ b < a + SeqSpace
      /\ (a = b => i = k)
  BY DEF SeqNumber
<1>2. a % SeqSpace = b % SeqSpace  OBVIOUS
<1> HIDE DEF a, b
<1>3. SeqSpace > 0  OBVIOUS
<1>4. CASE a <= b  BY <1>1, <1>2, <1>3, <1>4, ModEqual
<1>5. CASE b <= a  BY <1>1, <1>2, <1>3, <1>5, ModEqual
<1> QED  BY <1>1, <1>4, <1>5

(* A segment that is in its place follows on what was collected.            *)
LEMMA ExtendedCollects ==
  ASSUME NEW c, NEW start \in SeqNumber, NEW total \in Nat \ {0},
         NEW j \in 1 .. total, NEW buffer \in Seq({c}),
         NEW seg, seg.fin = (j = total), seg.seq \in SeqNumber,
         seg.seq = (start + Len(buffer)) % SeqSpace,
         total <= SeqSpace + 1 => j = Len(buffer) + 1
  PROVE  Taken(Extended(seg, buffer \o <<c>>), c, start, total, j)
<1> DEFINE all == buffer \o <<c>>
           k   == Len(buffer)
<1>1. all \in Seq({c}) /\ Len(all) = k + 1 /\ all # <<>> /\ k \in Nat
  <2>1. <<c>> \in Seq({c}) /\ Len(<<c>>) = 1  OBVIOUS
  <2>2. all \in Seq({c}) /\ Len(all) = k + Len(<<c>>)
    BY <2>1, ConcatProperties
  <2>3. k \in Nat /\ Len(all) = k + 1  BY <2>1, <2>2
  <2> HIDE DEF all, k
  <2> QED  BY <2>2, <2>3
<1> HIDE DEF all, k
<1>2. (seg.seq + 1) % SeqSpace = (start + (k + 1)) % SeqSpace
  <2>1. seg.seq = (start + k) % SeqSpace  BY DEF k
  <2> QED  BY <2>1, <1>1, NextNumber
<1>3. CASE j = total
  <2>1. Extended(seg, all) = Pushed(NewReassembler, "complete", all)
    BY <1>3 DEF Extended
  <2>2. total <= SeqSpace + 1 => Len(all) = total  BY <1>1, <1>3 DEF k
  <2>3. Taken(Extended(seg, all), c, start, total, j)
    BY <2>1, <2>2, <1>1, <1>3 DEF Taken, Pushed
  <2> QED  BY <2>3 DEF all
<1>4. CASE j # total
  <2> DEFINE re == [expected |-> (seg.seq + 1) % SeqSpace, buffer |-> all]
  <2>1. Extended(seg, all) = Pushed(re, "pending", <<>>)
    BY <1>4 DEF Extended
  <2>2. total <= SeqSpace + 1 => Len(all) < total  BY <1>1, <1>4 DEF k
  <2>3. Collecting(re, c, start, total)
    BY <1>1, <1>2, <2>2 DEF Collecting
  <2> HIDE DEF re
  <2>4. Taken(Extended(seg, all), c, start, total, j)
    BY <2>1, <2>3, <1>4 DEF Taken, Pushed
  <2> QED  BY <2>4 DEF all
<1> QED  BY <1>3, <1>4

(* Whatever a receiver collects of such a fragment, it only ever hands up   *)
(* these chunks, and if no number repeats beyond the first, all of them.    *)
LEMMA PushCollects ==
  ASSUME NEW c, NEW start \in SeqNumber, NEW total \in Nat \ {0},
         NEW j \in 1 .. total, NEW re, Collecting(re, c, start, total)
  PROVE  Taken(Push(re, Segment(j = 1, j = total, start + (j - 1), <<c>>)),
               c, start, total, j)
<1> DEFINE seg == Segment(j = 1, j = total, start + (j - 1), <<c>>)
           n   == (start + (j - 1)) % SeqSpace
<1>1. start \in Nat /\ start + (j - 1) \in Nat /\ n \in SeqNumber /\ n # None
  <2>1. start \in Nat /\ start + (j - 1) \in Nat  BY DEF SeqNumber
  <2> QED  BY <2>1, IsNumber
<1>2. seg.fir = (j = 1) /\ seg.fin = (j = total) /\ seg.seq = n
      /\ seg.payload = <<c>>
  BY DEF Segment
<1> HIDE DEF seg, n
<1>3. CASE j = 1
  <2>1. n = (start + Len(<<>>)) % SeqSpace /\ <<>> \in Seq({c}) /\ Len(<<>>) = 0
    <3>1. start + (1 - 1) = start + 0  BY <1>1
    <3> QED  BY <3>1, <1>3 DEF n
  <2>2. Push(re, seg) = Extended(seg, <<>> \o <<c>>)
    BY <1>1, <1>2, <1>3 DEF Push
  <2>3. Taken(Extended(seg, <<>> \o <<c>>), c, start, total, j)
    <3> DEFINE none == <<>>
    <3>1. none \in Seq({c}) /\ (total <= SeqSpace + 1 => j = Len(none) + 1)
          /\ seg.seq = (start + Len(none)) % SeqSpace
      BY <1>2, <1>3, <2>1
    <3> HIDE DEF none
    <3>2. Taken(Extended(seg, none \o <<c>>), c, start, total, j)
      BY <1>1, <1>2, <3>1, ExtendedCollects
    <3> QED  BY <3>2 DEF none
  <2> QED  BY <2>2, <2>3 DEF seg
<1>4. CASE j # 1 /\ re = NewReassembler
  <2>1. Push(re, seg) = Pushed(re, "InvalidFragment", <<>>)
    BY <1>2, <1>4 DEF Push, NewReassembler
  <2> QED  BY <2>1 DEF Taken, Pushed, seg
<1>5. CASE j # 1 /\ re # NewReassembler
  <2> DEFINE k == Len(re.buffer)
             e == (start + k) % SeqSpace
  <2>1. /\ re.expected = e /\ re.buffer \in Seq({c}) /\ re.buffer # <<>>
        /\ total <= SeqSpace + 1 => k < total
    BY <1>5 DEF Collecting
  <2>2. k \in Nat /\ k >= 1 /\ start + k \in Nat  BY <2>1, <1>1
  <2>3. e \in SeqNumber /\ e # None  BY <2>2, IsNumber
  <2> HIDE DEF k, e
  <2>4. CASE n # e
    <3>1. Push(re, seg) = Pushed(NewReassembler, "InvalidSequence", <<>>)
      BY <1>2, <1>5, <2>1, <2>3, <2>4 DEF Push
    <3> QED  BY <3>1 DEF Taken, Pushed, seg
  <2>5. CASE n = e
    <3>1. Push(re, seg) = Extended(seg, re.buffer \o <<c>>)
      BY <1>2, <1>5, <2>1, <2>3, <2>5 DEF Push
    <3>2. ASSUME total <= SeqSpace + 1 PROVE j = k + 1
      <4>1. (start + (j - 1)) % SeqSpace = (start + k) % SeqSpace
        BY <2>5 DEF n, e
      <4>2. j - 1 \in Nat /\ j - 1 < k + SeqSpace /\ k < (j - 1) + SeqSpace
        BY <3>2, <1>5, <2>1, <2>2
      <4>3. j - 1 = k  BY <4>1, <4>2, <2>2, SamePlace
      <4> QED  BY <4>3, <2>2
    <3>3. seg.seq = (start + Len(re.buffer)) % SeqSpace /\ seg.seq \in SeqNumber
      BY <1>1, <1>2, <2>5 DEF e, k
    <3>4. total <= SeqSpace + 1 => j = Len(re.buffer) + 1  BY <3>2 DEF k
    <3>5. Taken(Extended(seg, re.buffer \o <<c>>), c, start, total, j)
      BY <1>2, <2>1, <3>3, <3>4, ExtendedCollects
    <3> QED  BY <3>1, <3>5 DEF seg
  <2> QED  BY <2>4, <2>5
<1> QED  BY <1>3, <1>4, <1>5

-----------------------------------------------------------------------------
(* A line of things of one kind is one of things of more kinds.             *)
LEMMA SeqWidens ==
  ASSUME NEW S, NEW T, S \subseteq T, NEW line \in Seq(S)
  PROVE  line \in Seq(T)
<1>1. Len(line) \in Nat /\ line \in [1 .. Len(line) -> S]  OBVIOUS
<1>2. line \in [1 .. Len(line) -> T]  BY <1>1
<1> QED  BY <1>1, <1>2

LEMMA SeqFromElements ==
  ASSUME NEW T, NEW line, NEW n \in Nat, line = [i \in 1 .. n |-> line[i]],
         \A i \in 1 .. n : line[i] \in T
  PROVE  line \in Seq(T) /\ Len(line) = n /\ DOMAIN line = 1 .. n
<1>1. line \in [1 .. n -> T]  OBVIOUS
<1> QED  BY <1>1

(* More may be allowed, and a last frame need not be the last.              *)
LEMMA OrderlyWidens ==
  ASSUME NEW H, NEW N, NEW back, NEW ready, NEW out,
         NEW A, NEW L, NEW P, NEW Q, NEW A2, NEW L2, NEW P2, NEW Q2,
         Orderly(H, N, back, ready, out, A, L, P, Q),
         A \subseteq A2, L \subseteq A2 \cup L2, P \subseteq P2, Q \subseteq P2 \cup Q2
  PROVE  Orderly(H, N, back, ready, out, A2, L2, P2, Q2)
<1>1. back \in Seq(H \cup A2 \cup L2)
  <2>1. back \in Seq(H \cup A \cup L)  BY DEF Orderly
  <2>2. H \cup A \cup L \subseteq H \cup A2 \cup L2  OBVIOUS
  <2> QED  BY <2>1, <2>2, SeqWidens
<1>2. ready \in Seq(A2 \cup L2)
  <2>1. ready \in Seq(A \cup L)  BY DEF Orderly
  <2>2. A \cup L \subseteq A2 \cup L2  OBVIOUS
  <2> QED  BY <2>1, <2>2, SeqWidens
<1>3. out \in Seq(N \cup P2 \cup Q2)
  <2>1. out \in Seq(N \cup P \cup Q)  BY DEF Orderly
  <2>2. N \cup P \cup Q \subseteq N \cup P2 \cup Q2  OBVIOUS
  <2> QED  BY <2>1, <2>2, SeqWidens
<1> QED  BY <1>1, <1>2, <1>3 DEF Orderly

(* What is behind place i of a worn line was behind its old place.          *)
LEMMA WornFrom ==
  ASSUME NEW new, NEW old, NEW N, NEW H, N \subseteq H,
         NEW n \in Nat, NEW m \in Nat, DOMAIN old = 1 .. m,
         NEW place \in [1 .. n -> DOMAIN old],
         new = [i \in 1 .. n |-> new[i]],
         \A i, j \in 1 .. n : i < j => place[i] < place[j],
         \A i \in 1 .. n : new[i] = old[place[i]] \/ new[i] \in N
  PROVE  /\ From(old, 1, H) => From(new, 1, H)
         /\ \A i \in 1 .. n : From(old, place[i] + 1, H) => From(new, i + 1, H)
<1>1. \A i \in 1 .. n : place[i] \in 1 .. m  OBVIOUS
<1>2. DOMAIN new = 1 .. n  OBVIOUS
<1>3. From(old, 1, H) => From(new, 1, H)
  BY <1>1, <1>2 DEF From
<1>4. ASSUME NEW i \in 1 .. n, From(old, place[i] + 1, H)
      PROVE  From(new, i + 1, H)
  <2> SUFFICES ASSUME NEW j \in 1 .. n, j >= i + 1 PROVE new[j] \in H
    BY <1>2 DEF From
  <2>1. place[i] < place[j] /\ place[i] \in 1 .. m /\ place[j] \in 1 .. m
    BY <1>1
  <2>2. place[j] >= place[i] + 1  BY <2>1
  <2>3. old[place[j]] \in H  BY <1>4, <2>1, <2>2 DEF From
  <2> QED  BY <2>3
<1> QED  BY <1>3, <1>4

LEMMA BackWorn ==
  ASSUME NEW H, NEW N, N \subseteq H, NEW back, NEW ready, NEW out,
         NEW A, NEW L, NEW P, NEW Q, NEW new,
         Orderly(H, N, back, ready, out, A, L, P, Q), Worn(new, back, N)
  PROVE  Orderly(H, N, new, ready, out, A, L, P, Q)
<1>1. PICK n \in Nat : \E place \in [1 .. n -> DOMAIN back] :
         /\ new = [i \in 1 .. n |-> new[i]]
         /\ \A i, j \in 1 .. n : i < j => place[i] < place[j]
         /\ \A i \in 1 .. n : new[i] = back[place[i]] \/ new[i] \in N
  BY DEF Worn
<1>2. PICK place \in [1 .. n -> DOMAIN back] :
         /\ new = [i \in 1 .. n |-> new[i]]
         /\ \A i, j \in 1 .. n : i < j => place[i] < place[j]
         /\ \A i \in 1 .. n : new[i] = back[place[i]] \/ new[i] \in N
  BY <1>1
<1>3. back \in Seq(H \cup A \cup L)  BY DEF Orderly
<1>4. Len(back) \in Nat /\ DOMAIN back = 1 .. Len(back)
      /\ \A i \in DOMAIN back : back[i] \in H \cup A \cup L
  BY <1>3
<1>5. \A i \in 1 .. n : place[i] \in DOMAIN back  OBVIOUS
<1>6. \A i \in 1 .. n : new[i] \in H \cup A \cup L
  BY <1>2, <1>4, <1>5
<1>7. new \in Seq(H \cup A \cup L) /\ DOMAIN new = 1 .. n
  BY <1>2, <1>6, SeqFromElements
<1>8. \A i \in 1 .. n : From(back, place[i] + 1, H) => From(new, i + 1, H)
  BY <1>2, <1>4, WornFrom
<1>9. ASSUME NEW i \in DOMAIN new
      PROVE  \/ new[i] \in H \cup A
             \/ From(new, i + 1, H) /\ ready = <<>> /\ From(out, 1, N)
  <2>1. CASE new[i] \in N  BY <2>1
  <2>2. CASE new[i] = back[place[i]]
    <3>1. \/ back[place[i]] \in H \cup A
          \/ From(back, place[i] + 1, H) /\ ready = <<>> /\ From(out, 1, N)
      BY <1>5, <1>7 DEF Orderly
    <3> QED  BY <2>2, <3>1, <1>7, <1>8
  <2> QED  BY <1>2, <1>7, <2>1, <2>2
<1> QED  BY <1>7, <1>9 DEF Orderly

LEMMA OutWorn ==
  ASSUME NEW H, NEW N, NEW back, NEW ready, NEW out,
         NEW A, NEW L, NEW P, NEW Q, NEW new,
         Orderly(H, N, back, ready, out, A, L, P, Q), Worn(new, out, N)
  PROVE  Orderly(H, N, back, ready, new, A, L, P, Q)
<1>1. PICK n \in Nat : \E place \in [1 .. n -> DOMAIN out] :
         /\ new = [i \in 1 .. n |-> new[i]]
         /\ \A i, j \in 1 .. n : i < j => place[i] < place[j]
         /\ \A i \in 1 .. n : new[i] = out[place[i]] \/ new[i] \in N
  BY DEF Worn
<1>2. PICK place \in [1 .. n -> DOMAIN out] :
         /\ new = [i \in 1 .. n |-> new[i]]
         /\ \A i, j \in 1 .. n : i < j => place[i] < place[j]
         /\ \A i \in 1 .. n : new[i] = out[place[i]] \/ new[i] \in N
  BY <1>1
<1>3. out \in Seq(N \cup P \cup Q)  BY DEF Orderly
<1>4. Len(out) \in Nat /\ DOMAIN out = 1 .. Len(out)
      /\ \A i \in DOMAIN out : out[i] \in N \cup P \cup Q
  BY <1>3
<1>5. \A i \in 1 .. n : place[i] \in DOMAIN out  OBVIOUS
<1>6. \A i \in 1 .. n : new[i] \in N \cup P \cup Q
  BY <1>2, <1>4, <1>5
<1>7. new \in Seq(N \cup P \cup Q) /\ DOMAIN new = 1 .. n
  BY <1>2, <1>6, SeqFromElements
<1>8. /\ From(out, 1, N) => From(new, 1, N)
      /\ \A i \in 1 .. n : From(out, place[i] + 1, N) => From(new, i + 1, N)
  BY <1>2, <1>4, WornFrom
<1>9. ASSUME NEW i \in DOMAIN new
      PROVE  new[i] \in N \cup P \/ From(new, i + 1, N)
  <2>1. CASE new[i] \in N  BY <2>1
  <2>2. CASE new[i] = out[place[i]]
    <3>1. out[place[i]] \in N \cup P \/ From(out, place[i] + 1, N)
      BY <1>5, <1>7 DEF Orderly
    <3> QED  BY <2>2, <3>1, <1>7, <1>8
  <2> QED  BY <1>2, <1>7, <2>1, <2>2
<1> QED  BY <1>7, <1>8, <1>9 DEF Orderly

-----------------------------------------------------------------------------
(* How a line wears.                                                        *)
LEMMA WornSame ==
  ASSUME NEW S, NEW line \in Seq(S), NEW N
  PROVE  Worn(line, line, N)
<1> DEFINE n == Len(line)
           place == [i \in 1 .. n |-> i]
<1>1. n \in Nat /\ DOMAIN line = 1 .. n /\ place \in [1 .. n -> DOMAIN line]
  OBVIOUS
<1>2. line = [i \in 1 .. n |-> line[i]]  BY <1>1
<1>3. /\ \A i, j \in 1 .. n : i < j => place[i] < place[j]
      /\ \A i \in 1 .. n : line[i] = line[place[i]]
  OBVIOUS
<1> HIDE DEF n
<1>4. \E p \in [1 .. n -> DOMAIN line] :
         /\ \A i, j \in 1 .. n : i < j => p[i] < p[j]
         /\ \A i \in 1 .. n : line[i] = line[p[i]]
  <2> HIDE DEF place
  <2> QED  BY <1>1, <1>3
<1> QED  BY <1>1, <1>2, <1>4 DEF Worn

LEMMA WornAway ==
  ASSUME NEW S, NEW line \in Seq(S), NEW N
  PROVE  Worn(<<>>, line, N)
<1> DEFINE place == [i \in 1 .. 0 |-> i]
<1>1. place \in [1 .. 0 -> DOMAIN line] /\ <<>> = [i \in 1 .. 0 |-> <<>>[i]]
      /\ 1 .. 0 = {} /\ 0 \in Nat
  OBVIOUS
<1> HIDE DEF place
<1> QED  BY <1>1 DEF Worn

(* The rest of a line from place k on; its first frame may turn to noise.   *)
LEMMA WornSuffix ==
  ASSUME NEW S, NEW line \in Seq(S), NEW N, NEW k \in 1 .. Len(line) + 1,
         NEW n \in Nat, n = Len(line) + 1 - k, NEW new,
         new = [i \in 1 .. n |-> new[i]],
         \A i \in 1 .. n : new[i] = line[i + (k - 1)] \/ new[i] \in N
  PROVE  Worn(new, line, N)
<1> DEFINE place == [i \in 1 .. n |-> i + (k - 1)]
<1>1. Len(line) \in Nat /\ DOMAIN line = 1 .. Len(line)  OBVIOUS
<1>2. place \in [1 .. n -> DOMAIN line]  BY <1>1
<1>3. /\ \A i, j \in 1 .. n : i < j => place[i] < place[j]
      /\ \A i \in 1 .. n : new[i] = line[place[i]] \/ new[i] \in N
  BY <1>1
<1> HIDE DEF place
<1> QED  BY <1>2, <1>3 DEF Worn

(* The rest of a line, as a sequence.                                       *)
LEMMA WornRest ==
  ASSUME NEW S, NEW line \in Seq(S), NEW N, NEW k \in 1 .. Len(line) + 1
  PROVE  Worn(SubSeq(line, k, Len(line)), line, N)
<1> DEFINE n   == Len(line) + 1 - k
           new == SubSeq(line, k, Len(line))
<1>1. Len(line) \in Nat /\ n \in Nat  OBVIOUS
<1>2. new = [i \in 1 .. n |-> line[i + (k - 1)]]  BY <1>1
<1> HIDE DEF new, n
<1>3. new = [i \in 1 .. n |-> new[i]] /\ \A i \in 1 .. n : new[i] = line[i + (k - 1)]
  BY <1>2
<1>4. n = Len(line) + 1 - k  BY DEF n
<1>5. Worn(new, line, N)  BY <1>1, <1>3, <1>4, WornSuffix
<1> QED  BY <1>5 DEF new

LEMMA WornTail ==
  ASSUME NEW S, NEW line \in Seq(S), NEW N, line # <<>>
  PROVE  Worn(Tail(line), line, N)
<1>1. Tail(line) = SubSeq(line, 2, Len(line)) /\ 2 \in 1 .. Len(line) + 1  OBVIOUS
<1> QED  BY <1>1, WornRest

(* The rest of a line whose first frame turned to noise.                    *)
LEMMA WornHead ==
  ASSUME NEW S, NEW line \in Seq(S), NEW N, NEW k \in 1 .. Len(line), NEW x \in N
  PROVE  Worn(<<x>> \o Tail(SubSeq(line, k, Len(line))), line, N)
<1> DEFINE n    == Len(line) + 1 - k
           rest == SubSeq(line, k, Len(line))
           new  == <<x>> \o Tail(rest)
<1>1. Len(line) \in Nat /\ n \in Nat /\ n > 0  OBVIOUS
<1>2. rest = [i \in 1 .. n |-> line[i + (k - 1)]]  BY <1>1
<1>3. \A i \in 1 .. n : line[i + (k - 1)] \in S  OBVIOUS
<1> HIDE DEF n, rest, new
<1>4. rest \in Seq(S) /\ Len(rest) = n
  <2>1. rest = [i \in 1 .. n |-> rest[i]] /\ \A i \in 1 .. n : rest[i] \in S
    BY <1>1, <1>2, <1>3
  <2> QED  BY <2>1, <1>1, SeqFromElements
<1>5. Tail(rest) \in Seq(S) /\ Len(Tail(rest)) = n - 1
      /\ \A i \in 1 .. n - 1 : Tail(rest)[i] = rest[i + 1]
  BY <1>1, <1>4
<1>6. new \in Seq(S \cup {x}) /\ Len(new) = n /\ new[1] = x
      /\ \A i \in 2 .. n : new[i] = Tail(rest)[i - 1]
  <2> DEFINE t == Tail(rest)
  <2>1. t \in Seq(S \cup {x}) /\ Len(t) = n - 1  BY <1>5, SeqWidens
  <2> HIDE DEF t
  <2>2. <<x>> \in Seq(S \cup {x}) /\ Len(<<x>>) = 1 /\ <<x>>[1] = x  OBVIOUS
  <2>3. <<x>> \o t \in Seq(S \cup {x}) /\ Len(<<x>> \o t) = 1 + Len(t)
        /\ \A i \in 1 .. 1 + Len(t) :
              (<<x>> \o t)[i] = IF i <= 1 THEN <<x>>[i] ELSE t[i - 1]
    BY <2>1, <2>2, ConcatProperties
  <2>4. 1 + Len(t) = n  BY <1>1, <2>1
  <2> QED  BY <2>2, <2>3, <2>4, <1>1 DEF t, new
<1>7. \A i \in 2 .. n : new[i] = line[i + (k - 1)]
  <2> SUFFICES ASSUME NEW i \in 2 .. n PROVE new[i] = line[i + (k - 1)]  OBVIOUS
  <2>1. new[i] = Tail(rest)[i - 1]  BY <1>6
  <2>2. Tail(rest)[i - 1] = rest[(i - 1) + 1]
    <3>1. i - 1 \in 1 .. n - 1  BY <1>1
    <3> QED  BY <3>1, <1>5
  <2>3. (i - 1) + 1 = i /\ i \in 1 .. n  BY <1>1
  <2> QED  BY <2>1, <2>2, <2>3, <1>2
<1>8. new = [i \in 1 .. n |-> new[i]]  BY <1>1, <1>6
<1>9. \A i \in 1 .. n : new[i] = line[i + (k - 1)] \/ new[i] \in N
  BY <1>1, <1>6, <1>7
<1>10. n = Len(line) + 1 - k /\ k \in 1 .. Len(line) + 1  BY <1>1 DEF n
<1>11. Worn(new, line, N)  BY <1>1, <1>8, <1>9, <1>10, WornSuffix
<1> QED  BY <1>11 DEF new, rest

(* One frame of a line turned to noise.                                     *)
LEMMA WornPlace ==
  ASSUME NEW S, NEW line \in Seq(S), NEW N, NEW k \in DOMAIN line, NEW x \in N
  PROVE  Worn([line EXCEPT ![k] = x], line, N)
<1> DEFINE n   == Len(line)
           new == [line EXCEPT ![k] = x]
<1>1. n \in Nat /\ DOMAIN line = 1 .. n  OBVIOUS
<1>2. new = [i \in 1 .. n |-> new[i]]
      /\ \A i \in 1 .. n : new[i] = line[i + (1 - 1)] \/ new[i] \in N
  <2>1. DOMAIN new = 1 .. n /\ new = [i \in DOMAIN new |-> new[i]]  BY <1>1
  <2>2. ASSUME NEW i \in 1 .. n PROVE new[i] = line[i] \/ new[i] \in N
    <3>1. CASE i = k  BY <1>1, <3>1
    <3>2. CASE i # k  BY <1>1, <3>2
    <3> QED  BY <3>1, <3>2
  <2> HIDE DEF new
  <2>3. \A i \in 1 .. n : i + (1 - 1) = i  BY <1>1
  <2> QED  BY <2>1, <2>2, <2>3
<1>3. n = Len(line) + 1 - 1 /\ 1 \in 1 .. Len(line) + 1  BY <1>1
<1> HIDE DEF new
<1>4. Worn(new, line, N)  BY <1>1, <1>2, <1>3, WornSuffix
<1> QED  BY <1>4 DEF new

(* One frame of a line got lost.                                            *)
LEMMA WornGap ==
  ASSUME NEW S, NEW line \in Seq(S), NEW N, NEW k \in DOMAIN line
  PROVE  Worn(SubSeq(line, 1, k - 1) \o SubSeq(line, k + 1, Len(line)), line, N)
<1> DEFINE n     == Len(line) - 1
           front == SubSeq(line, 1, k - 1)
           rear  == SubSeq(line, k + 1, Len(line))
           new   == front \o rear
           place == [i \in 1 .. n |-> IF i < k THEN i ELSE i + 1]
<1>1. Len(line) \in Nat /\ DOMAIN line = 1 .. Len(line) /\ n \in Nat
      /\ k \in 1 .. n + 1
  OBVIOUS
<1>2. place \in [1 .. n -> DOMAIN line]
      /\ \A i, j \in 1 .. n : i < j => place[i] < place[j]
  BY <1>1
<1>3. front \in Seq(S) /\ Len(front) = k - 1
      /\ \A i \in 1 .. k - 1 : front[i] = line[i]
  BY <1>1
<1>4. rear \in Seq(S) /\ Len(rear) = n + 1 - k
      /\ \A i \in 1 .. n + 1 - k : rear[i] = line[i + k]
  <2>1. rear = [i \in 1 .. n + 1 - k |-> line[i + k]]  BY <1>1
  <2>2. \A i \in 1 .. n + 1 - k : line[i + k] \in S  BY <1>1
  <2>3. n + 1 - k \in Nat  BY <1>1
  <2> DEFINE m == n + 1 - k
  <2>4. \A i \in 1 .. m : rear[i] = line[i + k] /\ rear[i] \in S  BY <2>1, <2>2
  <2> HIDE DEF rear, n
  <2>5. rear = [i \in 1 .. m |-> rear[i]]  BY <2>1
  <2>6. m \in Nat  BY <2>3
  <2> HIDE DEF m
  <2>7. rear \in Seq(S) /\ Len(rear) = m  BY <2>4, <2>5, <2>6, SeqFromElements
  <2> QED  BY <2>4, <2>7 DEF m
<1> HIDE DEF front, rear
<1>5. new \in Seq(S) /\ Len(new) = n
      /\ \A i \in 1 .. n : new[i] = IF i < k THEN front[i] ELSE rear[i - (k - 1)]
  <2>1. Len(front) + Len(rear) = n  BY <1>1, <1>3, <1>4
  <2>2. new \in Seq(S) /\ Len(new) = Len(front) + Len(rear)
        /\ \A i \in 1 .. Len(front) + Len(rear) :
              new[i] = IF i <= Len(front) THEN front[i] ELSE rear[i - Len(front)]
    BY <1>3, <1>4, ConcatProperties
  <2> QED  BY <2>1, <2>2, <1>1, <1>3
<1> HIDE DEF new
<1>6. \A i \in 1 .. n : new[i] = line[place[i]]
  <2> SUFFICES ASSUME NEW i \in 1 .. n PROVE new[i] = line[place[i]]  OBVIOUS
  <2>1. CASE i < k
    <3>1. i \in 1 .. k - 1  BY <1>1, <2>1
    <3> QED  BY <3>1, <2>1, <1>3, <1>5
  <2>2. CASE ~ (i < k)
    <3>1. i - (k - 1) \in 1 .. n + 1 - k  BY <1>1, <2>2
    <3>2. (i - (k - 1)) + k = i + 1  BY <1>1
    <3> QED  BY <3>1, <3>2, <2>2, <1>4, <1>5
  <2> QED  BY <2>1, <2>2
<1>7. new = [i \in 1 .. n |-> new[i]]  BY <1>1, <1>5
<1> HIDE DEF place
<1>8. Worn(new, line, N)  BY <1>1, <1>2, <1>6, <1>7 DEF Worn
<1> QED  BY <1>8 DEF new, front, rear

-----------------------------------------------------------------------------
(* What the two stations do to the line.  The outstation writes a frame.    *)
LEMMA Written ==
  ASSUME NEW H, NEW N, NEW back, NEW ready, NEW out,
         NEW A, NEW L, NEW P, NEW Q,
         Orderly(H, N, back, ready, out, A, L, P, Q),
         ready # <<>>
  PROVE  Orderly(H, N, Append(back, Head(ready)), Tail(ready), out, A, L, P, Q)
<1> DEFINE b == Append(back, Head(ready))
           r == Tail(ready)
<1>1. /\ back \in Seq(H \cup A \cup L) /\ ready \in Seq(A \cup L)
      /\ out \in Seq(N \cup P \cup Q)
  BY DEF Orderly
<1>2. /\ Len(ready) \in Nat /\ Len(ready) >= 1 /\ DOMAIN ready = 1 .. Len(ready)
      /\ Head(ready) = ready[1] /\ ready[1] \in A \cup L
  BY <1>1
<1>3. /\ r \in Seq(A \cup L) /\ DOMAIN r = 1 .. Len(ready) - 1
      /\ Len(r) = Len(ready) - 1 /\ \A i \in DOMAIN r : r[i] = ready[i + 1]
  BY <1>1, <1>2
<1>4. /\ b \in Seq(H \cup A \cup L) /\ Len(b) = Len(back) + 1
      /\ Len(back) \in Nat /\ DOMAIN back = 1 .. Len(back)
      /\ DOMAIN b = 1 .. Len(back) + 1
      /\ b[Len(back) + 1] = ready[1] /\ \A i \in DOMAIN back : b[i] = back[i]
  <2>1. ready[1] \in H \cup A \cup L  BY <1>2
  <2> QED  BY <1>1, <1>2, <2>1
<1> HIDE DEF b, r
<1>5. ASSUME NEW i \in DOMAIN b
      PROVE  \/ b[i] \in H \cup A
             \/ From(b, i + 1, H) /\ r = <<>> /\ From(out, 1, N)
  <2>1. CASE i \in DOMAIN back
    <3>1. back[i] \in H \cup A  BY <2>1, <1>2 DEF Orderly
    <3> QED  BY <3>1, <2>1, <1>4
  <2>2. CASE i = Len(back) + 1
    <3>1. \/ ready[1] \in A
          \/ 1 = Len(ready) /\ From(out, 1, N)
      BY <1>2 DEF Orderly
    <3>2. CASE ready[1] \in A  BY <3>2, <2>2, <1>4
    <3>3. CASE 1 = Len(ready) /\ From(out, 1, N)
      <4>1. r = <<>>  BY <3>3, <1>3, EmptySeq
      <4>2. From(b, i + 1, H)  BY <2>2, <1>4 DEF From
      <4> QED  BY <4>1, <4>2, <3>3
    <3> QED  BY <3>1, <3>2, <3>3
  <2> QED  BY <2>1, <2>2, <1>4
<1>6. ASSUME NEW i \in DOMAIN r
      PROVE  r[i] \in A \/ (i = Len(r) /\ From(out, 1, N))
  <2>1. i + 1 \in DOMAIN ready /\ r[i] = ready[i + 1]  BY <1>2, <1>3
  <2>2. ready[i + 1] \in A \/ (i + 1 = Len(ready) /\ From(out, 1, N))
    BY <2>1 DEF Orderly
  <2> QED  BY <2>1, <2>2, <1>2, <1>3
<1>7. Orderly(H, N, b, r, out, A, L, P, Q)
  BY <1>1, <1>3, <1>4, <1>5, <1>6 DEF Orderly
<1> QED  BY <1>7 DEF b, r

(* A write fails.                                                           *)
LEMMA Unwritten ==
  ASSUME NEW H, NEW N, NEW back, NEW ready, NEW out,
         NEW A, NEW L, NEW P, NEW Q,
         Orderly(H, N, back, ready, out, A, L, P, Q),
         ready # <<>>
  PROVE  Orderly(H, N, back, Tail(ready), out, A, L, P, Q)
<1> DEFINE r == Tail(ready)
<1>1. /\ back \in Seq(H \cup A \cup L) /\ ready \in Seq(A \cup L)
      /\ out \in Seq(N \cup P \cup Q)
  BY DEF Orderly
<1>2. /\ Len(ready) \in Nat /\ Len(ready) >= 1 /\ DOMAIN ready = 1 .. Len(ready)
  BY <1>1
<1>3. /\ r \in Seq(A \cup L) /\ DOMAIN r = 1 .. Len(ready) - 1
      /\ Len(r) = Len(ready) - 1 /\ \A i \in DOMAIN r : r[i] = ready[i + 1]
  BY <1>1, <1>2
<1> HIDE DEF r
<1>4. ASSUME NEW i \in DOMAIN back
      PROVE  \/ back[i] \in H \cup A
             \/ From(back, i + 1, H) /\ r = <<>> /\ From(out, 1, N)
  BY DEF Orderly
<1>5. ASSUME NEW i \in DOMAIN r
      PROVE  r[i] \in A \/ (i = Len(r) /\ From(out, 1, N))
  <2>1. i + 1 \in DOMAIN ready /\ r[i] = ready[i + 1]  BY <1>2, <1>3
  <2>2. ready[i + 1] \in A \/ (i + 1 = Len(ready) /\ From(out, 1, N))
    BY <2>1 DEF Orderly
  <2> QED  BY <2>1, <2>2, <1>2, <1>3
<1>6. Orderly(H, N, back, r, out, A, L, P, Q)
  BY <1>1, <1>3, <1>4, <1>5 DEF Orderly
<1> QED  BY <1>6 DEF r

(* The outstation dies with what it has yet to write.                       *)
LEMMA ReadyDropped ==
  ASSUME NEW H, NEW N, NEW back, NEW ready, NEW out,
         NEW A, NEW L, NEW P, NEW Q,
         Orderly(H, N, back, ready, out, A, L, P, Q)
  PROVE  Orderly(H, N, back, <<>>, out, A, L, P, Q)
<1>1. <<>> \in Seq(A \cup L) /\ DOMAIN <<>> = {}  OBVIOUS
<1> QED  BY <1>1 DEF Orderly

(* Something harmless joins what is on its way to the master.               *)
LEMMA HarmlessAppended ==
  ASSUME NEW H, NEW N, NEW back, NEW ready, NEW out,
         NEW A, NEW L, NEW P, NEW Q,
         Orderly(H, N, back, ready, out, A, L, P, Q),
         NEW f \in H
  PROVE  Orderly(H, N, Append(back, f), ready, out, A, L, P, Q)
<1> DEFINE b == Append(back, f)
<1>1. /\ back \in Seq(H \cup A \cup L) /\ ready \in Seq(A \cup L)
      /\ out \in Seq(N \cup P \cup Q)
  BY DEF Orderly
<1>2. /\ b \in Seq(H \cup A \cup L) /\ Len(back) \in Nat
      /\ DOMAIN back = 1 .. Len(back) /\ DOMAIN b = 1 .. Len(back) + 1
      /\ b[Len(back) + 1] = f /\ \A i \in DOMAIN back : b[i] = back[i]
  BY <1>1
<1> HIDE DEF b
<1>3. ASSUME NEW i \in DOMAIN b
      PROVE  \/ b[i] \in H \cup A
             \/ From(b, i + 1, H) /\ ready = <<>> /\ From(out, 1, N)
  <2>1. CASE i \in DOMAIN back
    <3>1. \/ back[i] \in H \cup A
          \/ From(back, i + 1, H) /\ ready = <<>> /\ From(out, 1, N)
      BY <2>1 DEF Orderly
    <3>2. From(back, i + 1, H) => From(b, i + 1, H)  BY <1>2, <2>1 DEF From
    <3> QED  BY <3>1, <3>2, <2>1, <1>2
  <2>2. CASE i = Len(back) + 1  BY <2>2, <1>2
  <2> QED  BY <2>1, <2>2, <1>2
<1>4. Orderly(H, N, b, ready, out, A, L, P, Q)
  BY <1>1, <1>2, <1>3 DEF Orderly
<1> QED  BY <1>4 DEF b

(* The master sends a request after which nothing has been answered yet.    *)
LEMMA RequestSent ==
  ASSUME NEW H, NEW N, NEW back, NEW ready, NEW out, NEW A, NEW P, NEW f,
         Orderly(H, N, back, ready, out, A, {}, P, {})
  PROVE  Orderly(H, N, back, ready, Append(out, f), A, {}, P, {f})
<1> DEFINE o == Append(out, f)
<1>1. /\ back \in Seq(H \cup A \cup {}) /\ ready \in Seq(A \cup {})
      /\ out \in Seq(N \cup P \cup {})
  BY DEF Orderly
<1>2. H \cup A \cup {} = H \cup A /\ A \cup {} = A
      /\ N \cup P \cup {} \subseteq N \cup P \cup {f}
  OBVIOUS
<1>3. out \in Seq(N \cup P) /\ out \in Seq(N \cup P \cup {f})
  BY <1>1, <1>2, SeqWidens
<1>4. /\ o \in Seq(N \cup P \cup {f}) /\ Len(out) \in Nat
      /\ DOMAIN out = 1 .. Len(out) /\ DOMAIN o = 1 .. Len(out) + 1
      /\ o[Len(out) + 1] = f /\ \A i \in DOMAIN out : o[i] = out[i]
  BY <1>3
<1> HIDE DEF o
<1>5. ASSUME NEW i \in DOMAIN o PROVE o[i] \in N \cup P \/ From(o, i + 1, N)
  <2>1. CASE i \in DOMAIN out
    <3>1. out[i] \in N \cup P  BY <2>1, <1>3
    <3> QED  BY <3>1, <2>1, <1>4
  <2>2. CASE i = Len(out) + 1  BY <2>2, <1>4 DEF From
  <2> QED  BY <2>1, <2>2, <1>4
<1>6. \A i \in DOMAIN back : back[i] \in H \cup A  BY <1>1
<1>7. \A i \in DOMAIN ready : ready[i] \in A  BY <1>1
<1>8. Orderly(H, N, back, ready, o, A, {}, P, {f})
  BY <1>1, <1>4, <1>5, <1>6, <1>7 DEF Orderly
<1> QED  BY <1>8 DEF o

(* Nothing but harmless things is on its way.                               *)
LEMMA Clear ==
  ASSUME NEW H, NEW N, NEW back \in Seq(H), NEW out \in Seq(N)
  PROVE  Orderly(H, N, back, <<>>, out, {}, {}, {}, {})
<1>1. H \cup {} \cup {} = H /\ N \cup {} \cup {} = N /\ N \cup {} = N
      /\ H \cup {} = H /\ <<>> \in Seq({} \cup {}) /\ DOMAIN <<>> = {}
  OBVIOUS
<1>2. (\A i \in DOMAIN back : back[i] \in H) /\ (\A i \in DOMAIN out : out[i] \in N)
  OBVIOUS
<1> QED  BY <1>1, <1>2 DEF Orderly

(* Nor is there anything else when the master has read a last answer.       *)
LEMMA AfterLast ==
  ASSUME NEW H, NEW N, NEW back, NEW ready, NEW out,
         NEW A, NEW L, NEW P, NEW Q,
         Orderly(H, N, back, ready, out, A, L, P, Q),
         back # <<>>, Head(back) \notin H \cup A
  PROVE  Orderly(H, N, Tail(back), ready, out, {}, {}, {}, {})
<1> DEFINE b == Tail(back)
<1>1. back \in Seq(H \cup A \cup L) /\ out \in Seq(N \cup P \cup Q)
  BY DEF Orderly
<1>2. /\ Len(back) \in Nat /\ Len(back) >= 1 /\ DOMAIN back = 1 .. Len(back)
      /\ Head(back) = back[1]
  BY <1>1
<1>3. From(back, 2, H) /\ ready = <<>> /\ From(out, 1, N)
  <2>1. 1 \in DOMAIN back /\ back[1] \notin H \cup A /\ 1 + 1 = 2  BY <1>2
  <2> QED  BY <2>1 DEF Orderly
<1>4. b \in Seq(H)
  <2>1. /\ b \in Seq(H \cup A \cup L) /\ Len(b) = Len(back) - 1
        /\ \A i \in 1 .. Len(back) - 1 : b[i] = back[i + 1]
    BY <1>1, <1>2
  <2>2. \A i \in 1 .. Len(back) - 1 : back[i + 1] \in H  BY <1>2, <1>3 DEF From
  <2>3. Len(back) - 1 \in Nat  BY <1>2
  <2> HIDE DEF b
  <2>4. b = [i \in 1 .. Len(back) - 1 |-> b[i]]
        /\ \A i \in 1 .. Len(back) - 1 : b[i] \in H
    BY <2>1, <2>2, <2>3
  <2> QED  BY <2>3, <2>4, SeqFromElements
<1>5. out \in Seq(N)
  <2>1. Len(out) \in Nat /\ DOMAIN out = 1 .. Len(out)
        /\ out = [i \in 1 .. Len(out) |-> out[i]]
    BY <1>1
  <2>2. \A i \in 1 .. Len(out) : out[i] \in N  BY <1>3, <2>1 DEF From
  <2> QED  BY <2>1, <2>2, SeqFromElements
<1> HIDE DEF b
<1>6. Orderly(H, N, b, ready, out, {}, {}, {}, {})  BY <1>3, <1>4, <1>5, Clear
<1> QED  BY <1>6 DEF b

(* The outstation reads a request that may be answered at any time.         *)
LEMMA RequestHandled ==
  ASSUME NEW H, NEW N, NEW back, NEW ready, NEW out,
         NEW A, NEW L, NEW P, NEW Q,
         Orderly(H, N, back, ready, out, A, L, P, Q),
         ready = <<>>, out # <<>>, Head(out) \notin N, NEW answers \in Seq(A)
  PROVE  Orderly(H, N, back, answers, Tail(out), A, L, P, Q)
<1> DEFINE o == Tail(out)
<1>1. back \in Seq(H \cup A \cup L) /\ out \in Seq(N \cup P \cup Q)
  BY DEF Orderly
<1>2. ~ From(out, 1, N)
  <2>1. 1 \in DOMAIN out /\ out[1] = Head(out)  BY <1>1
  <2> QED  BY <2>1 DEF From
<1>3. Orderly(H, N, back, ready, o, A, L, P, Q)  BY <1>1, WornTail, OutWorn
<1> HIDE DEF o
<1>4. answers \in Seq(A \cup L)
  <2>1. A \subseteq A \cup L  OBVIOUS
  <2> QED  BY <2>1, SeqWidens
<1>5. (\A i \in DOMAIN back : back[i] \in H \cup A)
      /\ (\A i \in DOMAIN answers : answers[i] \in A)
  BY <1>2 DEF Orderly
<1>6. Orderly(H, N, back, answers, o, A, L, P, Q)
  BY <1>3, <1>4, <1>5 DEF Orderly
<1> QED  BY <1>6 DEF o

(* The outstation reads the last request; only one answer, the last, is a   *)
(* last answer.                                                             *)
LEMMA LastHandled ==
  ASSUME NEW H, NEW N, NEW back, NEW ready, NEW out,
         NEW A, NEW L, NEW P, NEW Q,
         Orderly(H, N, back, ready, out, A, L, P, Q),
         ready = <<>>, out # <<>>, Head(out) \notin N, Head(out) \notin P,
         NEW A2, NEW L2, A \subseteq A2,
         NEW answers \in Seq(A2 \cup L2),
         \A i \in DOMAIN answers : answers[i] \in A2 \/ i = Len(answers)
  PROVE  Orderly(H, N, back, answers, Tail(out), A2, L2, {}, {})
<1> DEFINE o == Tail(out)
<1>1. back \in Seq(H \cup A \cup L) /\ out \in Seq(N \cup P \cup Q)
  BY DEF Orderly
<1>2. /\ Len(out) \in Nat /\ Len(out) >= 1 /\ DOMAIN out = 1 .. Len(out)
      /\ Head(out) = out[1]
  BY <1>1
<1>3. ~ From(out, 1, N) /\ From(out, 2, N)
  <2>1. 1 \in DOMAIN out /\ out[1] \notin N \cup P /\ 1 + 1 = 2  BY <1>2
  <2> QED  BY <2>1, <1>2 DEF From, Orderly
<1>4. \A i \in DOMAIN back : back[i] \in H \cup A  BY <1>3 DEF Orderly
<1>5. back \in Seq(H \cup A2 \cup L2)
  <2>1. Len(back) \in Nat /\ DOMAIN back = 1 .. Len(back)
        /\ back = [i \in 1 .. Len(back) |-> back[i]]
    BY <1>1
  <2>2. \A i \in 1 .. Len(back) : back[i] \in H \cup A2 \cup L2
    BY <1>4, <2>1
  <2> QED  BY <2>1, <2>2, SeqFromElements
<1>6. o \in Seq(N) /\ From(o, 1, N)
  <2>1. /\ o \in Seq(N \cup P \cup Q) /\ Len(o) = Len(out) - 1
        /\ \A i \in 1 .. Len(out) - 1 : o[i] = out[i + 1]
    BY <1>1, <1>2
  <2>2. \A i \in 1 .. Len(out) - 1 : out[i + 1] \in N  BY <1>2, <1>3 DEF From
  <2>3. Len(out) - 1 \in Nat  BY <1>2
  <2> HIDE DEF o
  <2>4. o = [i \in 1 .. Len(out) - 1 |-> o[i]]
        /\ \A i \in 1 .. Len(out) - 1 : o[i] \in N
    BY <2>1, <2>2, <2>3
  <2>5. o \in Seq(N)  BY <2>3, <2>4, SeqFromElements
  <2> QED  BY <2>5 DEF From
<1> HIDE DEF o
<1>7. N \cup {} \cup {} = N /\ N \cup {} = N  OBVIOUS
<1>8. \A i \in DOMAIN o : o[i] \in N  BY <1>6
<1>9. \A i \in DOMAIN back : back[i] \in H \cup A2  BY <1>4
<1>10. Orderly(H, N, back, answers, o, A2, L2, {}, {})
  BY <1>5, <1>6, <1>7, <1>8, <1>9 DEF Orderly
<1> QED  BY <1>10 DEF o

-----------------------------------------------------------------------------
(* What the sessions make of each frame.                                    *)
Session == [tseq : SeqNumber, re : {NewReassembler}]

WholeAnswer(number, start, v) ==
    [j \in 1 .. ResponseChunks |-> AnswerFrame(number, start, v, j)]

LEMMA AdvancedSession ==
  ASSUME NEW s \in Session, NEW segments, Len(segments) \in Nat
  PROVE  Advanced(s, segments) \in Session
<1> DEFINE n == s.tseq + (Len(segments) % CountSpace)
<1>1. s.tseq \in Nat /\ s = [tseq |-> s.tseq, re |-> NewReassembler]
  BY DEF Session, SeqNumber
<1>2. CountSpace \in Nat /\ CountSpace > 0  BY CountAssumption
<1>3. n \in Nat
  <2>1. Len(segments) % CountSpace \in 0 .. CountSpace - 1  BY <1>2, DivMod
  <2> QED  BY <2>1, <1>1
<1> HIDE DEF n
<1>4. n % CountSpace \in Nat
  <2>1. n % CountSpace \in 0 .. CountSpace - 1  BY <1>2, <1>3, DivMod
  <2> QED  BY <2>1
<1>5. (n % CountSpace) % SeqSpace \in SeqNumber  BY <1>4, IsNumber
<1>6. Advanced(s, segments) =
         [tseq |-> (n % CountSpace) % SeqSpace, re |-> NewReassembler]
  BY <1>1 DEF Advanced, CountedOn, n
<1> QED  BY <1>5, <1>6 DEF Session

(* Which handler a frame of the master gets.                                *)
LEMMA HandlerOf ==
  ASSUME NEW s, NEW f, NEW database, f.destination = Own
  PROVE  /\ f.control.function = "ResetLinkStates" =>
               HandleFrame(s, f, database) = HandleReset(s, f)
         /\ f.control.function = "TestLinkStates" =>
               HandleFrame(s, f, database) =
                  Outcome(s, TRUE,
                          <<LegacyAckWithFcb(f.source, Own, f.control.fcb)>>, <<>>)
         /\ f.control.function = "UnconfirmedUserData" =>
               HandleFrame(s, f, database) = HandleUserData(s, f, database)
<1>1. CASE f.control.function = "ResetLinkStates"
  BY <1>1 DEF HandleFrame, Ignored, SecondaryFunction
<1>2. CASE f.control.function = "TestLinkStates"
  BY <1>2 DEF HandleFrame, Ignored, SecondaryFunction
<1>3. CASE f.control.function = "UnconfirmedUserData"
  BY <1>3 DEF HandleFrame, Ignored, SecondaryFunction
<1> QED  BY <1>1, <1>2, <1>3

(* The request of a poll, and the one segment it takes.                     *)
Request(number) ==
    [request |-> [sequence |-> number, function |-> "Read",
                  scan |-> TRUE, valid |-> TRUE]]

LEMMA RequestSegment ==
  ASSUME NEW number, NEW start \in Nat
  PROVE  \E seg \in SegmentOf({Request(number)}) :
            /\ PollFrame(number, start) = UnconfirmedUserData(Style, Own, Master, seg)
            /\ seg.fir /\ seg.fin /\ seg.payload = <<Request(number)>>
<1> DEFINE r   == Request(number)
           seg == Segment(TRUE, TRUE, start, <<r>>)
<1>1. IntegrityPoll(number) = <<r>>  BY DEF IntegrityPoll, Request
<1> HIDE DEF r
<1>2. Fragment(<<r>>, start)[1] = seg
  <2>1. <<r>> # <<>> /\ Len(<<r>>) = 1 /\ 1 \in 1 .. 1 /\ <<r>>[1] = r  OBVIOUS
  <2>2. Fragment(<<r>>, start)[1] = Segment(1 = 1, 1 = 1, start + (1 - 1), <<r>>)
    BY <2>1 DEF Fragment
  <2>3. start + (1 - 1) = start  OBVIOUS
  <2> QED  BY <2>2, <2>3
<1>3. seg \in SegmentOf({r}) /\ seg.fir /\ seg.fin /\ seg.payload = <<r>>
  <2>1. start % SeqSpace \in SeqNumber /\ <<r>> \in Seq({r})  BY IsNumber
  <2> QED  BY <2>1 DEF SegmentOf, Segment
<1>4. PollFrame(number, start) = UnconfirmedUserData(Style, Own, Master, seg)
  BY <1>1, <1>2 DEF PollFrame
<1> HIDE DEF seg
<1>5. SegmentOf({r}) = SegmentOf({Request(number)}) /\ <<r>> = <<Request(number)>>
  BY DEF r
<1> QED  BY <1>3, <1>4, <1>5

LEMMA RequestRead ==
  ASSUME NEW number
  PROVE  LET data == <<Request(number)>>
         IN  /\ Decodable(data) /\ Supported(Decode(data))
             /\ HandleApplication(Decode(data)) = [sequence |-> number, points |-> TRUE]
<1> DEFINE r    == Request(number)
           data == <<r>>
<1>1. data # <<>> /\ DOMAIN data = {1} /\ data[1] = r  OBVIOUS
<1>2. /\ r.request.sequence = number /\ r.request.function = "Read"
      /\ r.request.scan = TRUE /\ r.request.valid = TRUE
  BY DEF Request
<1> HIDE DEF r, data
<1>3. Decodable(data)  BY <1>1, <1>2 DEF Decodable
<1>4. Decode(data) = [sequence |-> number, function |-> "Read",
                      include_static |-> TRUE]
  <2>1. \E i \in DOMAIN data : data[i].request.scan  BY <1>1, <1>2
  <2> QED  BY <2>1, <1>1, <1>2 DEF Decode
<1> DEFINE d == Decode(data)
<1>5. d.function = "Read" /\ d.include_static = TRUE /\ d.sequence = number
  BY <1>4
<1> HIDE DEF d
<1>6. Supported(d)  BY <1>5 DEF Supported
<1>7. (d.function = "Read" /\ d.include_static) = TRUE  BY <1>5
<1>8. HandleApplication(d) = [sequence |-> number, points |-> TRUE]
  BY <1>5, <1>7, Zenon DEF HandleApplication
<1> QED  BY <1>3, <1>6, <1>8 DEF d, data, r

(* A poll is answered with every point, in numbered segments, or not at all *)
(* when the points do not encode.                                           *)
LEMMA PointsAnswered ==
  ASSUME NEW s \in Session, NEW number, NEW v, NEW encodable \in BOOLEAN
  PROVE  LET database == [points |-> v, encodable |-> encodable]
             out == EncodeResponse(s, <<Request(number)>>, Master, Style, database)
         IN  /\ out.session \in Session
             /\ encodable => out.responses = WholeAnswer(number, s.tseq, v)
             /\ ~ encodable => out.responses = <<>>
<1> DEFINE database == [points |-> v, encodable |-> encodable]
           data     == <<Request(number)>>
           chunks   == [i \in 1 .. ResponseChunks |-> Chunk(number, v)]
           segments == Fragment(chunks, s.tseq)
           out      == EncodeResponse(s, data, Master, Style, database)
<1>1. HandleApplication(Decode(data)) = [sequence |-> number, points |-> TRUE]
  BY RequestRead
<1>2. Encoded([sequence |-> number, points |-> TRUE], database) = chunks
  BY DEF Encoded, Chunk
<1>3. database.encodable = encodable  OBVIOUS
<1> HIDE DEF data, chunks, database
<1>4. IF encodable
      THEN out = Outcome(Advanced(s, segments), TRUE,
                         UserDataFrames(segments, Master, Style), data)
      ELSE out = Outcome(s, FALSE, <<>>, data)
  BY <1>1, <1>2, <1>3 DEF EncodeResponse
<1>5. ResponseChunks \in Nat /\ ResponseChunks > 0  BY ResponseAssumption
<1>6. segments = [i \in 1 .. ResponseChunks |->
                     Segment(i = 1, i = ResponseChunks, s.tseq + (i - 1),
                             <<Chunk(number, v)>>)]
  <2>1. chunks # <<>> /\ Len(chunks) = ResponseChunks  BY <1>5 DEF chunks
  <2>2. \A i \in 1 .. ResponseChunks : chunks[i] = Chunk(number, v)
    BY DEF chunks
  <2> QED  BY <2>1, <2>2 DEF Fragment
<1> HIDE DEF segments
<1>7. Len(segments) \in Nat  BY <1>5, <1>6
<1>8. UserDataFrames(segments, Master, Style) = WholeAnswer(number, s.tseq, v)
  BY <1>6 DEF UserDataFrames, WholeAnswer, AnswerFrame
<1>9. Advanced(s, segments) \in Session  BY <1>7, AdvancedSession
<1> HIDE DEF out
<1>10. /\ out.session \in Session
       /\ encodable => out.responses = WholeAnswer(number, s.tseq, v)
       /\ ~ encodable => out.responses = <<>>
  BY <1>4, <1>8, <1>9 DEF Outcome
<1> QED  BY <1>10 DEF out, data, database

LEMMA HandledPoll ==
  ASSUME NEW s \in Session, NEW number, NEW f \in PollFrames(number),
         NEW v, NEW encodable \in BOOLEAN
  PROVE  LET handled == HandleFrame(s, f, [points |-> v, encodable |-> encodable])
         IN  /\ handled.session \in Session
             /\ encodable => handled.responses = WholeAnswer(number, s.tseq, v)
             /\ ~ encodable => handled.responses = <<>>
<1> DEFINE database == [points |-> v, encodable |-> encodable]
           data     == <<Request(number)>>
           handled  == HandleFrame(s, f, database)
<1>1. PICK start \in 0 .. 2 * SeqSpace : f = PollFrame(number, start)
  BY DEF PollFrames
<1>2. start \in Nat  OBVIOUS
<1>3. PICK seg \in SegmentOf({Request(number)}) :
         /\ f = UnconfirmedUserData(Style, Own, Master, seg)
         /\ seg.fir /\ seg.fin /\ seg.payload = data
  BY <1>1, <1>2, RequestSegment
<1>4. Push(s.re, seg) = Pushed(NewReassembler, "complete", data)
  BY <1>3, PushSingle
<1>5. Decodable(data) /\ Supported(Decode(data))  BY RequestRead
<1> HIDE DEF data, database
<1>6. /\ f.destination = Own /\ f.control.function = "UnconfirmedUserData"
      /\ f.payload = <<seg>> /\ f.source = Master /\ f.control.direction = Style
  BY <1>3 DEF UnconfirmedUserData, LinkFrame, Control
<1>7. handled = HandleUserData(s, f, database)  BY <1>6, HandlerOf
<1> HIDE DEF handled
<1>8. handled = EncodeResponse(s, data, Master, Style, database)
  <2>1. [s EXCEPT !.re = NewReassembler] = s  BY DEF Session
  <2>2. f.payload # <<>> /\ f.payload[1] = seg  BY <1>6
  <2> DEFINE pushed == Push(s.re, f.payload[1])
  <2>3. pushed.result = "complete" /\ pushed.data = data /\ pushed.re = NewReassembler
    BY <2>2, <1>4 DEF Pushed
  <2>4. pushed.result \notin {"InvalidFragment", "InvalidSequence"}
        /\ pushed.result # "pending"
    BY <2>3
  <2> HIDE DEF pushed
  <2>5. HandleUserData(s, f, database)
          = EncodeResponse([s EXCEPT !.re = pushed.re], pushed.data, f.source,
                           f.control.direction, database)
    BY <2>2, <2>3, <2>4, <1>5 DEF HandleUserData, pushed
  <2> QED  BY <2>1, <2>3, <2>5, <1>6, <1>7
<1> QED  BY <1>8, PointsAnswered DEF handled, data, database

(* The record of a master after the assignments of a call.                  *)
LEMMA RestartedMaster ==
  ASSUME NEW a, NEW b, NEW c, NEW x, NEW y, NEW m, m = [aseq |-> a, tseq |-> b, re |-> c]
  PROVE  [m EXCEPT !.re = x, !.aseq = y] = [aseq |-> y, tseq |-> b, re |-> x]
<1> DEFINE n == [m EXCEPT !.re = x, !.aseq = y]
<1>1. n \in [aseq : {y}, tseq : {b}, re : {x}]  OBVIOUS
<1> HIDE DEF n
<1>2. n = [aseq |-> y, tseq |-> b, re |-> x]  BY <1>1
<1> QED  BY <1>2 DEF n

LEMMA BegunPoll ==
  ASSUME NEW m, m = [aseq |-> m.aseq, tseq |-> m.tseq, re |-> m.re],
         m.aseq \in AppSequence, m.tseq \in SeqNumber
  PROVE  StartPoll(m, Style, Own).master =
            [aseq |-> (m.aseq + 1) % AppSeqSpace,
             tseq |-> (m.tseq + 1) % SeqSpace,
             re   |-> NewReassembler]
<1> DEFINE segments == Fragment(IntegrityPoll(m.aseq), m.tseq)
           n == [m EXCEPT !.re = NewReassembler, !.aseq = NextAppSequence(@)]
<1>1. Len(segments) = 1  BY DEF Fragment, IntegrityPoll
<1>2. n = [aseq |-> (m.aseq + 1) % AppSeqSpace, tseq |-> m.tseq,
           re |-> NewReassembler]
  <2> DEFINE a == m.aseq
             b == m.tseq
             c == m.re
             next == NextAppSequence(a)
  <2>1. m = [aseq |-> a, tseq |-> b, re |-> c] /\ n = [m EXCEPT !.re = NewReassembler, !.aseq = next]
    OBVIOUS
  <2> HIDE DEF a, b, c, next, n
  <2>2. n = [aseq |-> next, tseq |-> b, re |-> NewReassembler]
    BY <2>1, RestartedMaster
  <2> QED  BY <2>2 DEF a, b, next, NextAppSequence
<1> HIDE DEF segments
<1>3. StartPoll(m, Style, Own).master =
         [n EXCEPT !.tseq = (@ + Len(segments)) % SeqSpace]
  <2> HIDE DEF n
  <2>1. n.tseq = m.tseq  BY <1>2
  <2>2. StartPoll(m, Style, Own) = SendApplication(n, Style, Own, IntegrityPoll(m.aseq))
    BY DEF StartPoll, n
  <2> QED  BY <2>1, <2>2 DEF SendApplication, segments
<1> HIDE DEF n
<1> QED  BY <1>1, <1>2, <1>3

LEMMA MasterTypes ==
  ASSUME NEW m, m = [aseq |-> m.aseq, tseq |-> m.tseq, re |-> m.re], NEW r
  PROVE  [m EXCEPT !.re = r] = [aseq |-> m.aseq, tseq |-> m.tseq, re |-> r]
OBVIOUS

(* A reset and a test of the link are acknowledged.                         *)
LEMMA HandledReset ==
  ASSUME NEW s, NEW database
  PROVE  /\ HandleFrame(s, Reset, database).session \in Session
         /\ HandleFrame(s, Reset, database).responses \in Seq(Acks)
         /\ Len(HandleFrame(s, Reset, database).responses) = 1
<1>1. Reset.source = Master /\ Reset.destination = Own
      /\ Reset.control.function = "ResetLinkStates"
  BY DEF Reset, ResetLinkStates, LinkFrame, Control
<1>2. HandleFrame(s, Reset, database) = HandleReset(s, Reset)  BY <1>1, HandlerOf
<1>3. NewSession \in Session  BY DEF NewSession, Session, SeqNumber
<1> QED  BY <1>1, <1>2, <1>3 DEF HandleReset, Outcome, Acks

LEMMA HandledTest ==
  ASSUME NEW s \in Session, NEW database
  PROVE  /\ HandleFrame(s, Test, database).session \in Session
         /\ HandleFrame(s, Test, database).responses \in Seq(Acks)
         /\ Len(HandleFrame(s, Test, database).responses) = 1
<1>1. Test.source = Master /\ Test.destination = Own
      /\ Test.control.function = "TestLinkStates" /\ Test.control.fcb = FALSE
  BY DEF Test, TestLinkStates, LinkFrame, Control
<1>2. HandleFrame(s, Test, database)
        = Outcome(s, TRUE, <<LegacyAckWithFcb(Master, Own, FALSE)>>, <<>>)
  BY <1>1, HandlerOf
<1> QED  BY <1>2 DEF Outcome, Acks

(* What the master makes of segment j of the answer it waits for.           *)
Receives(m, reception, number, start, v, j) ==
    \/ /\ reception.result = "continue"
       /\ reception.master = [m EXCEPT !.re = reception.master.re]
       /\ Collecting(reception.master.re, Chunk(number, v), start, ResponseChunks)
    \/ /\ reception.result = "answer" /\ j = ResponseChunks
       /\ reception.master = [m EXCEPT !.re = NewReassembler]
       /\ reception.data \in Seq({Chunk(number, v)}) /\ reception.data # <<>>
       /\ ResponseChunks <= SeqSpace + 1 => Len(reception.data) = ResponseChunks
       /\ v.decodable
    \/ /\ reception.result = "error"
       /\ reception.master = [m EXCEPT !.re = NewReassembler]

(* A fragment of an answer's chunks is the answer if the points in it can   *)
(* be decoded, and an error otherwise.                                      *)
LEMMA AcceptedAnswer ==
  ASSUME NEW number, NEW v, NEW m, NEW data \in Seq({Chunk(number, v)}), data # <<>>
  PROVE  \/ v.decodable /\ Accept(m, data) = Reception(m, "answer", data)
         \/ Accept(m, data) = Reception(m, "error", data)
<1>1. \A i \in DOMAIN data : data[i] = Chunk(number, v)  OBVIOUS
<1>2. 1 \in DOMAIN data  OBVIOUS
<1>3. data[1].function = "Response" /\ data[1].points = {v}
  BY <1>1, <1>2 DEF Chunk
<1>4. CASE ResponseDecodable(data)
  <2>1. v.decodable  BY <1>2, <1>3, <1>4 DEF ResponseDecodable
  <2> QED  BY <1>3, <1>4, <2>1 DEF Accept
<1>5. CASE ~ ResponseDecodable(data)  BY <1>5 DEF Accept
<1> QED  BY <1>4, <1>5

LEMMA ReceivedAnswer ==
  ASSUME NEW number, NEW start \in SeqNumber, NEW v, NEW j \in 1 .. ResponseChunks,
         NEW m, m = [aseq |-> m.aseq, tseq |-> m.tseq, re |-> m.re],
         Collecting(m.re, Chunk(number, v), start, ResponseChunks)
  PROVE  Receives(m, ReceiveApplication(m, AnswerFrame(number, start, v, j)),
                  number, start, v, j)
<1> DEFINE c      == Chunk(number, v)
           seg    == Segment(j = 1, j = ResponseChunks, start + (j - 1), <<c>>)
           f      == AnswerFrame(number, start, v, j)
           pushed == Push(m.re, seg)
           r      == ReceiveApplication(m, f)
<1> HIDE DEF c
<1>1. Taken(pushed, c, start, ResponseChunks, j)
  BY ResponseAssumption, PushCollects DEF c
<1>2. f.destination = Master /\ f.payload = <<seg>>
  BY DEF AnswerFrame, UnconfirmedUserData, LinkFrame, c
<1> HIDE DEF seg, pushed, f
<1>3. /\ pushed.result = "complete" =>
            r = Accept([m EXCEPT !.re = pushed.re], pushed.data)
      /\ pushed.result = "pending" =>
            r = Reception([m EXCEPT !.re = pushed.re], "continue", <<>>)
      /\ pushed.result \in {"InvalidSequence", "InvalidFragment"} =>
            r = Reception([m EXCEPT !.re = NewReassembler], "continue", <<>>)
  <2>1. f.payload # <<>> /\ f.payload[1] = seg  BY <1>2
  <2>2. CASE pushed.result = "complete"
    BY <1>2, <2>1, <2>2 DEF ReceiveApplication, pushed
  <2>3. CASE pushed.result = "pending"
    BY <1>2, <2>1, <2>3 DEF ReceiveApplication, pushed
  <2>4. CASE pushed.result \in {"InvalidSequence", "InvalidFragment"}
    BY <1>2, <2>1, <2>4 DEF ReceiveApplication, pushed
  <2> QED  BY <2>2, <2>3, <2>4
<1>4. [m EXCEPT !.re = NewReassembler].re = NewReassembler
      /\ [m EXCEPT !.re = pushed.re].re = pushed.re
  OBVIOUS
<1>5. CASE pushed.result \in {"InvalidSequence", "InvalidFragment"}
  <2>1. r = Reception([m EXCEPT !.re = NewReassembler], "continue", <<>>)
    BY <1>3, <1>5
  <2>2. Collecting(NewReassembler, c, start, ResponseChunks)  BY DEF Collecting
  <2> QED  BY <2>1, <2>2, <1>4 DEF Receives, Reception, c, f
<1>6. CASE pushed.result = "pending"
  <2>1. r = Reception([m EXCEPT !.re = pushed.re], "continue", <<>>)
    BY <1>3, <1>6
  <2>2. Collecting(pushed.re, c, start, ResponseChunks)
    BY <1>1, <1>6 DEF Taken
  <2> QED  BY <2>1, <2>2, <1>4 DEF Receives, Reception, c, f
<1>7. CASE pushed.result = "complete"
  <2>1. r = Accept([m EXCEPT !.re = pushed.re], pushed.data)
    BY <1>3, <1>7
  <2>2. /\ j = ResponseChunks /\ pushed.re = NewReassembler
        /\ pushed.data \in Seq({c}) /\ pushed.data # <<>>
        /\ ResponseChunks <= SeqSpace + 1 => Len(pushed.data) = ResponseChunks
    BY <1>1, <1>7 DEF Taken
  <2> DEFINE n == [m EXCEPT !.re = pushed.re]
  <2>3. n = [m EXCEPT !.re = NewReassembler]  BY <2>2
  <2> HIDE DEF n
  <2>4. \/ v.decodable /\ r = Reception(n, "answer", pushed.data)
        \/ r = Reception(n, "error", pushed.data)
    BY <2>1, <2>2, AcceptedAnswer DEF c, n
  <2> QED  BY <2>2, <2>3, <2>4 DEF Receives, Reception, c, f
<1> QED  BY <1>1, <1>5, <1>6, <1>7 DEF Taken

-----------------------------------------------------------------------------
(* Which frames are which.                                                  *)
LEMMA AnswersAre ==
  ASSUME NEW n \in Nat, NEW f \in AnyAnswer(n)
  PROVE  f.destination = Master /\ ~ IsLinkAck(f)
<1>1. PICK number \in AppSequence, start \in SeqNumber, v \in Reported(0, n) :
         f \in AnswerBody(number, start, v) \cup AnswerEnd(number, start, v)
  BY DEF AnyAnswer
<1>2. \E j \in Nat : f = AnswerFrame(number, start, v, j)
  BY <1>1, ResponseAssumption DEF AnswerBody, AnswerEnd
<1>3. PICK j \in Nat : f = AnswerFrame(number, start, v, j)  BY <1>2
<1> QED  BY <1>3 DEF AnswerFrame, UnconfirmedUserData, LinkFrame, Control, IsLinkAck

LEMMA PollsAre ==
  ASSUME NEW f \in AnyPoll
  PROVE  f # Reset /\ f # Test
<1>1. PICK number \in AppSequence : f \in PollFrames(number)  BY DEF AnyPoll
<1>2. f.control.function = "UnconfirmedUserData"
  BY <1>1 DEF PollFrames, PollFrame, UnconfirmedUserData, LinkFrame, Control
<1> QED  BY <1>2 DEF Reset, Test, ResetLinkStates, TestLinkStates, LinkFrame, Control

(* The last frame of an answer is none of the others.                       *)
LEMMA EndIsNotBody ==
  ASSUME NEW number, NEW start, NEW v,
         NEW f \in AnswerEnd(number, start, v)
  PROVE  f \notin AnswerBody(number, start, v)
<1>1. f.payload[1].fin
  <2>1. f = AnswerFrame(number, start, v, ResponseChunks)  BY DEF AnswerEnd
  <2> QED  BY <2>1 DEF AnswerFrame, UnconfirmedUserData, LinkFrame, Segment
<1>2. ASSUME NEW j \in 1 .. ResponseChunks - 1, f = AnswerFrame(number, start, v, j)
      PROVE  FALSE
  <2>1. j # ResponseChunks  BY ResponseAssumption
  <2>2. ~ f.payload[1].fin
    BY <1>2, <2>1 DEF AnswerFrame, UnconfirmedUserData, LinkFrame, Segment
  <2> QED  BY <1>1, <2>2
<1> QED  BY <1>2 DEF AnswerBody

LEMMA AnswersAny ==
  ASSUME NEW number \in AppSequence, NEW start \in SeqNumber,
         NEW n, NEW v \in Reported(0, n)
  PROVE  AnswerBody(number, start, v) \cup AnswerEnd(number, start, v) \subseteq AnyAnswer(n)
<1> DEFINE Kind(a, b, c) == AnswerBody(a, b, c) \cup AnswerEnd(a, b, c)
           Kinds == {Kind(a, b, c) : a \in AppSequence, b \in SeqNumber, c \in Reported(0, n)}
<1>1. AnyAnswer(n) = UNION Kinds  BY DEF AnyAnswer
<1>2. Kind(number, start, v) \in Kinds
  <2> HIDE DEF Kind
  <2> QED  OBVIOUS
<1> HIDE DEF Kinds
<1> QED  BY <1>1, <1>2

LEMMA AnswersGrow ==
  ASSUME NEW n \in Nat, NEW m \in Nat, n <= m
  PROVE  AnyAnswer(n) \subseteq AnyAnswer(m)
<1> SUFFICES ASSUME NEW f \in AnyAnswer(n) PROVE f \in AnyAnswer(m)  OBVIOUS
<1>1. PICK number \in AppSequence, start \in SeqNumber, v \in Reported(0, n) :
         f \in AnswerBody(number, start, v) \cup AnswerEnd(number, start, v)
  BY DEF AnyAnswer
<1>2. v \in Reported(0, m)  BY DEF Reported
<1> QED  BY <1>1, <1>2, AnswersAny

(* The answer to a poll: all but its last frame are body.                   *)
LEMMA WholeAnswerIs ==
  ASSUME NEW number, NEW start, NEW v
  PROVE  /\ WholeAnswer(number, start, v) \in
               Seq(AnswerBody(number, start, v) \cup AnswerEnd(number, start, v))
         /\ \A i \in DOMAIN WholeAnswer(number, start, v) :
               \/ WholeAnswer(number, start, v)[i] \in AnswerBody(number, start, v)
               \/ i = Len(WholeAnswer(number, start, v))
<1> DEFINE w == WholeAnswer(number, start, v)
           B == AnswerBody(number, start, v)
           E == AnswerEnd(number, start, v)
<1>1. ResponseChunks \in Nat  BY ResponseAssumption
<1>2. w = [j \in 1 .. ResponseChunks |-> AnswerFrame(number, start, v, j)]
  BY DEF WholeAnswer
<1>3. \A j \in 1 .. ResponseChunks : w[j] \in B \/ (j = ResponseChunks /\ w[j] \in E)
  BY <1>1, <1>2 DEF AnswerBody, AnswerEnd
<1> HIDE DEF w, B, E
<1>4. w = [j \in 1 .. ResponseChunks |-> w[j]]  BY <1>2
<1>5. w \in Seq(B \cup E) /\ Len(w) = ResponseChunks /\ DOMAIN w = 1 .. ResponseChunks
  BY <1>1, <1>3, <1>4, SeqFromElements
<1>6. \A i \in DOMAIN w : w[i] \in B \/ i = Len(w)  BY <1>3, <1>5
<1> QED  BY <1>5, <1>6 DEF w, B, E
=============================================================================
