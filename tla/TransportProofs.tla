-------------------------- MODULE TransportProofs ---------------------------
(***************************************************************************)
(* For every sequence space, message length, burst shorter than the        *)
(* sequence space and number of messages: the invariant of Transport is    *)
(* inductive, and what is delivered is never spliced.                      *)
(***************************************************************************)
EXTENDS Transport, Integers, SequenceTheorems, TLAPS

-----------------------------------------------------------------------------
(* Arithmetic on sequence numbers.                                          *)

(* Quotient and remainder.                                                  *)
LEMMA DivMod ==
  ASSUME NEW M \in Nat, M > 0, NEW a \in Nat
  PROVE  /\ a % M \in 0 .. M - 1
         /\ a \div M \in Int
         /\ a = M * (a \div M) + (a % M)
OBVIOUS

(* The only multiple of M between -M and M is zero.                         *)
LEMMA SmallMultiple ==
  ASSUME NEW M \in Nat, M > 0, NEW k \in Int, NEW d \in Int,
         d = M * k, d < M, d > -M
  PROVE  d = 0
<1>1. CASE k >= 1  BY <1>1
<1>2. CASE k <= -1  BY <1>2
<1>3. CASE k = 0  BY <1>3
<1> QED  BY <1>1, <1>2, <1>3

(* Fewer than M apart, two numbers with one remainder are the same.         *)
LEMMA ModEqual ==
  ASSUME NEW M \in Nat, M > 0, NEW a \in Nat, NEW b \in Nat,
         a <= b, b < a + M, a % M = b % M
  PROVE  a = b
<1> DEFINE qa == a \div M
           qb == b \div M
<1>1. a = M * qa + (a % M) /\ b = M * qb + (b % M) /\ qa \in Int /\ qb \in Int
  BY DivMod
<1>2. b - a = M * (qb - qa)  BY <1>1
<1> HIDE DEF qa, qb
<1>3. qb - qa \in Int  BY <1>1
<1>4. b - a = 0  BY <1>2, <1>3, SmallMultiple
<1> QED  BY <1>4

(* A remainder is determined by any way of writing the number.              *)
LEMMA ModUnique ==
  ASSUME NEW M \in Nat, M > 0, NEW a \in Nat, NEW q \in Int,
         NEW r \in 0 .. M - 1, a = M * q + r
  PROVE  a % M = r
<1> DEFINE qa == a \div M
           ra == a % M
<1>1. a = M * qa + ra /\ qa \in Int /\ ra \in 0 .. M - 1  BY DivMod
<1> HIDE DEF qa, ra
<1>2. ra - r = M * (q - qa)  BY <1>1
<1>3. ra - r = 0  BY <1>2, <1>1, SmallMultiple
<1> QED  BY <1>3, <1>1 DEF ra

(* A remainder may be taken before an addition as well as after it.         *)
LEMMA ModAdd ==
  ASSUME NEW M \in Nat, M > 0, NEW a \in Nat, NEW b \in Nat
  PROVE  ((a % M) + b) % M = (a + b) % M
<1> DEFINE c  == (a % M) + b
           qa == a \div M
           qc == c \div M
           rc == c % M
<1>1. a = M * qa + (a % M) /\ qa \in Int /\ a % M \in 0 .. M - 1  BY DivMod
<1>2. c \in Nat  BY <1>1
<1>3. c = M * qc + rc /\ qc \in Int /\ rc \in 0 .. M - 1  BY <1>2, DivMod
<1>4. a + b = M * qa + c  BY <1>1
<1> HIDE DEF c, qa, qc, rc
<1>5. a + b = M * (qa + qc) + rc  BY <1>1, <1>3, <1>4
<1>6. qa + qc \in Int /\ a + b \in Nat  BY <1>1, <1>3
<1>7. (a + b) % M = rc  BY <1>5, <1>6, <1>3, ModUnique, Zenon
<1> QED  BY <1>7 DEF rc, c

-----------------------------------------------------------------------------
USE SeqSpaceAssumption, NoneAssumption, LengthsAssumption, BurstAssumption,
    BoundsAssumption

(* What segment k of a fragment of n chunks of message m is.                *)
IsSegment(seg, m, n, k, start) ==
    /\ seg.payload = <<[msg |-> m, part |-> k]>>
    /\ seg.fir <=> k = 1
    /\ seg.fin <=> k = n
    /\ seg.seq = (start + (k - 1)) % SeqSpace

(* Fragment numbers and marks the chunks of a message one by one.           *)
LEMMA FragmentOfApp ==
  ASSUME NEW m \in Nat, NEW n \in Nat, n > 0, NEW start \in Nat
  PROVE  /\ Fragment(App(m, n), start) \in Seq(SegmentType)
         /\ Len(Fragment(App(m, n), start)) = n
         /\ \A k \in 1 .. n :
               IsSegment(Fragment(App(m, n), start)[k], m, n, k, start)
<1> DEFINE f == Fragment(App(m, n), start)
           seg(k) == [fir |-> k = 1, fin |-> k = n,
                      seq |-> (start + (k - 1)) % SeqSpace,
                      payload |-> <<[msg |-> m, part |-> k]>>]
<1>1. App(m, n) \in Seq(Chunk) /\ Len(App(m, n)) = n
      /\ \A k \in 1 .. n : App(m, n)[k] = [msg |-> m, part |-> k]
  BY DEF App, Chunk
<1>2. App(m, n) # <<>>  BY <1>1
<1>3. f = [k \in 1 .. n |-> seg(k)]
  BY <1>1, <1>2 DEF Fragment, Segment
<1>4. \A k \in 1 .. n : seg(k) \in SegmentType
  <2> SUFFICES ASSUME NEW k \in 1 .. n PROVE seg(k) \in SegmentType
    OBVIOUS
  <2>1. start + (k - 1) \in Nat  OBVIOUS
  <2>2. (start + (k - 1)) % SeqSpace \in SeqNumber  BY <2>1, DivMod DEF SeqNumber
  <2>3. <<[msg |-> m, part |-> k]>> \in Seq(Chunk)  BY DEF Chunk
  <2> QED  BY <2>2, <2>3 DEF SegmentType
<1>5. \A k \in 1 .. n : IsSegment(seg(k), m, n, k, start)
  BY DEF IsSegment
<1> HIDE DEF seg
<1>6. f \in Seq(SegmentType) /\ Len(f) = n  BY <1>3, <1>4
<1>7. \A k \in 1 .. n : f[k] = seg(k)  BY <1>3
<1> HIDE DEF f
<1>8. \A k \in 1 .. n : IsSegment(f[k], m, n, k, start)  BY <1>5, <1>7
<1> QED  BY <1>6, <1>8 DEF f

(* One chunk more.                                                          *)
LEMMA AppGrows ==
  ASSUME NEW m \in Nat, NEW k \in Nat, k > 0
  PROVE  App(m, k - 1) \o <<[msg |-> m, part |-> k]>> = App(m, k)
<1> DEFINE c == [msg |-> m, part |-> k]
           a == App(m, k - 1)
<1>1. a \in Seq(Chunk) /\ Len(a) = k - 1
      /\ \A i \in 1 .. k - 1 : a[i] = [msg |-> m, part |-> i]
  BY DEF App, Chunk
<1>2. <<c>> \in Seq(Chunk) /\ Len(<<c>>) = 1 /\ <<c>>[1] = c
  BY DEF Chunk
<1> HIDE DEF a
<1>3. a \o <<c>> \in Seq(Chunk) /\ Len(a \o <<c>>) = k
      /\ \A i \in 1 .. k : (a \o <<c>>)[i] = [msg |-> m, part |-> i]
  BY <1>1, <1>2
<1>4. App(m, k) \in Seq(Chunk) /\ Len(App(m, k)) = k
      /\ \A i \in 1 .. k : App(m, k)[i] = [msg |-> m, part |-> i]
  BY DEF App, Chunk
<1> HIDE DEF c
<1>5. App(m, k) = a \o <<c>>  BY <1>3, <1>4, SeqEqual
<1> QED  BY <1>5 DEF a, c

(* Before any segment of a message, nothing of it was collected.            *)
LEMMA AppEmpty == ASSUME NEW m \in Nat PROVE App(m, 0) = <<>>
BY DEF App

(* The number after the one of place a - 1 is the one of place a.           *)
LEMMA NextNumber ==
  ASSUME NEW a \in Nat, a > 0
  PROVE  (((a - 1) % SeqSpace) + 1) % SeqSpace = a % SeqSpace
<1> DEFINE b == a - 1
<1>1. b \in Nat /\ b + 1 = a  OBVIOUS
<1> HIDE DEF b
<1>2. SeqSpace \in Nat /\ SeqSpace > 0  OBVIOUS
<1>3. ((b % SeqSpace) + 1) % SeqSpace = (b + 1) % SeqSpace  BY <1>1, <1>2, ModAdd
<1> QED  BY <1>1, <1>3 DEF b

ReType == [expected : SeqNumber \cup {None}, buffer : Seq(Chunk)]

(* What the invariant says of the chunk k of message m at place p.          *)
AtPlace(p, m, k) ==
    /\ p \in Nat /\ p > 0 /\ m \in Nat /\ k \in Nat /\ k > 0 /\ sent[m] \in Nat
    /\ log[p].fir \in BOOLEAN /\ log[p].fin \in BOOLEAN
    /\ log[p].seq \in SeqNumber
    /\ log[p].seq = (p - 1) % SeqSpace
    /\ (log[p].seq + 1) % SeqSpace = p % SeqSpace
    /\ log[p].payload = <<[msg |-> m, part |-> k]>>
    /\ App(m, k) \in Seq(Chunk) /\ App(m, k) # <<>>

LEMMA PlaceFacts ==
  ASSUME IInv, NEW p \in DOMAIN log, NEW m \in DOMAIN sent, NEW k \in 1 .. sent[m],
         IsChunkAt(p, m, k)
  PROVE  AtPlace(p, m, k)
<1>1. sent \in Seq(Lengths) /\ log \in Seq(SegmentType)
  BY DEF IInv, TypeOK
<1>2. m \in Nat /\ sent[m] \in Nat
  <2>1. m \in 1 .. Len(sent) /\ Len(sent) \in Nat  BY <1>1, LenProperties
  <2>2. sent[m] \in Lengths  BY <1>1, <2>1, ElementOfSeq
  <2>3. m \in Nat  BY <2>1
  <2> QED  BY <2>2, <2>3
<1>3. k \in Nat /\ k > 0 /\ p \in Nat /\ p > 0
  BY <1>1, <1>2
<1>4. log[p].seq \in SeqNumber /\ log[p].fir \in BOOLEAN /\ log[p].fin \in BOOLEAN
  <2>1. log[p] \in SegmentType  BY <1>1
  <2> QED  BY <2>1 DEF SegmentType
<1>5. /\ log[p].payload = <<[msg |-> m, part |-> k]>>
      /\ log[p].seq = (p - 1) % SeqSpace
  BY DEF IsChunkAt
<1>6. (log[p].seq + 1) % SeqSpace = p % SeqSpace
  BY <1>3, <1>5, NextNumber
<1>7. App(m, k) \in Seq(Chunk) /\ App(m, k) # <<>>
  BY <1>2, <1>3 DEF App, Chunk
<1> QED  BY <1>2, <1>3, <1>4, <1>5, <1>6, <1>7 DEF AtPlace

(* Pushing a segment that starts a message, or carries on the beginning of  *)
(* one, extends that beginning or completes the message.                    *)
LEMMA AcceptContinues ==
  ASSUME IInv, NEW p \in DOMAIN log, NEW m \in DOMAIN sent, NEW k \in 1 .. sent[m],
         IsChunkAt(p, m, k), Accept(log[p]),
         \/ log[p].fir
         \/ re.expected = log[p].seq /\ re.buffer = App(m, k - 1)
  PROVE  /\ k = sent[m] => /\ re' = NewReassembler
                           /\ delivered' = Append(delivered, App(m, sent[m]))
         /\ k # sent[m] => /\ re' = [expected |-> p % SeqSpace, buffer |-> App(m, k)]
                           /\ delivered' = delivered
<1> DEFINE seg == log[p]
           kept == IF seg.fir THEN <<>> ELSE re.buffer
           expected == IF seg.fir THEN seg.seq ELSE re.expected
<1>1. AtPlace(p, m, k)  BY PlaceFacts
<1>2. (seg.fir <=> k = 1) /\ (seg.fin <=> k = sent[m])  BY DEF IsChunkAt
<1>3. kept = App(m, k - 1) /\ expected = seg.seq /\ seg.seq # None
  <2>1. App(m, 0) = <<>>  BY <1>1, AppEmpty DEF AtPlace
  <2>2. seg.seq # None  BY <1>1 DEF AtPlace, SeqNumber
  <2> QED  BY <1>2, <2>1, <2>2
<1>4. kept \o seg.payload = App(m, k)
  <2>1. App(m, k - 1) \o <<[msg |-> m, part |-> k]>> = App(m, k)
    BY <1>1, AppGrows DEF AtPlace
  <2> QED  BY <2>1, <1>1, <1>3 DEF AtPlace
<1>5. (seg.seq + 1) % SeqSpace = p % SeqSpace  BY <1>1 DEF AtPlace
<1> HIDE DEF seg
<1>6. CASE seg.fin
  BY <1>2, <1>3, <1>4, <1>6 DEF Accept, Push, Pushed, Extended, seg
<1>7. CASE ~ seg.fin
  BY <1>2, <1>3, <1>4, <1>5, <1>7 DEF Accept, Push, Pushed, Extended, seg
<1> QED  BY <1>6, <1>7

(* A segment that carries the number the reassembler waits for is the next  *)
(* one of the message it has begun: bursts are too short for a mistake.     *)
LEMMA AcceptMatches ==
  ASSUME IInv, NEW p \in DOMAIN log, NEW m \in DOMAIN sent, NEW k \in 1 .. sent[m],
         IsChunkAt(p, m, k), p = head + 1 \/ (p = head /\ p = seen),
         ~ log[p].fir, re.expected # None, re.expected = log[p].seq
  PROVE  re.buffer = App(m, k - 1)
<1>1. AtPlace(p, m, k)  BY PlaceFacts
<1>2. /\ head \in Nat /\ seen \in 0 .. head /\ head - seen <= MaxBurst
      /\ re.expected = None <=> re.buffer = <<>>
  BY DEF IInv, TypeOK
<1>3. k > 1 /\ p > 1 /\ log[p - 1].payload = <<[msg |-> m, part |-> k - 1]>>
  <2>1. k > 1  BY <1>1 DEF AtPlace, IsChunkAt
  <2> QED  BY <2>1 DEF IsChunkAt
<1>4. PICK m2 \in DOMAIN sent : \E j \in 1 .. sent[m2] - 1 : Collected(m2, j)
  BY <1>2 DEF IInv, ReassemblyOK
<1>5. PICK k2 \in 1 .. sent[m2] - 1 : Collected(m2, k2)
  BY <1>4
<1>6. /\ seen > 0
      /\ log[seen].payload = <<[msg |-> m2, part |-> k2]>>
      /\ re.buffer = App(m2, k2)
      /\ re.expected = seen % SeqSpace
  BY <1>5 DEF Collected
<1> DEFINE b == p - 1
<1>7. seen % SeqSpace = b % SeqSpace  BY <1>1, <1>6 DEF AtPlace
<1>8. b \in Nat /\ seen \in Nat /\ p = b + 1
  <2>1. p \in Nat  BY <1>1 DEF AtPlace
  <2>2. p > 1  BY <1>3
  <2> QED  BY <2>1, <2>2, <1>2
<1>a. log[b].payload = <<[msg |-> m, part |-> k - 1]>>  BY <1>3
<1> HIDE DEF b
<1>9. CASE p = head + 1
  <2>1. seen <= b /\ b < seen + SeqSpace  BY <1>2, <1>8, <1>9
  <2>2. seen = b  BY <2>1, <1>7, <1>8, ModEqual
  <2>3. m2 = m /\ k2 = k - 1  BY <2>2, <1>a, <1>6
  <2> QED  BY <2>3, <1>6
<1>10. CASE p = head /\ p = seen
  <2>1. b <= seen /\ seen < b + SeqSpace  BY <1>8, <1>10
  <2>2. b = seen  BY <2>1, <1>7, <1>8, ModEqual
  <2> QED  BY <2>2, <1>8, <1>10
<1> QED  BY <1>9, <1>10

(* All a segment off the line can do to the receiver.                       *)
Completes(m) ==
    re' = NewReassembler /\ delivered' = Append(delivered, App(m, sent[m]))

Extends(p, m, k) ==
    /\ re' = [expected |-> p % SeqSpace, buffer |-> App(m, k)]
    /\ delivered' = delivered

Drops == re' = NewReassembler /\ delivered' = delivered

LEMMA AcceptOutcomes ==
  ASSUME IInv, NEW p \in DOMAIN log, NEW m \in DOMAIN sent, NEW k \in 1 .. sent[m],
         IsChunkAt(p, m, k), p = head + 1 \/ (p = head /\ p = seen), Accept(log[p])
  PROVE  \/ k = sent[m] /\ Completes(m)
         \/ k # sent[m] /\ Extends(p, m, k)
         \/ Drops
<1> DEFINE seg == log[p]
<1>1. AtPlace(p, m, k)  BY PlaceFacts
<1>2. seg.fir \in BOOLEAN  BY <1>1 DEF AtPlace
<1>3. CASE seg.fir \/ (re.expected # None /\ re.expected = seg.seq)
  <2>1. seg.fir \/ (re.expected = seg.seq /\ re.buffer = App(m, k - 1))
    BY <1>3, AcceptMatches
  <2> QED  BY <2>1, AcceptContinues DEF Completes, Extends
<1>4. CASE ~ seg.fir /\ re.expected = None
  <2>1. re = NewReassembler
    BY <1>4 DEF IInv, TypeOK, NewReassembler
  <2>2. re' = re /\ delivered' = delivered
    BY <1>4 DEF Accept, Push, Pushed
  <2> QED  BY <2>1, <2>2 DEF Drops
<1>5. CASE ~ seg.fir /\ re.expected # None /\ re.expected # seg.seq
  BY <1>5 DEF Accept, Push, Pushed, Drops
<1> QED  BY <1>3, <1>4, <1>5

(* Pushing the next segment off the line, or the latest one once more,      *)
(* keeps the reassembler at the beginning of one message.                   *)
LEMMA AcceptKeeps ==
  ASSUME IInv, NEW p \in DOMAIN log,
         p = head + 1 \/ (p = head /\ p = seen),
         Accept(log[p]), seen' = p, UNCHANGED <<sent, log>>
  PROVE  /\ re' \in ReType
         /\ re'.expected = None <=> re'.buffer = <<>>
         /\ delivered' \in Seq(Seq(Chunk))
         /\ ReassemblyOK'
         /\ NoSplice'
<1>1. /\ sent \in Seq(Lengths) /\ re \in ReType
      /\ re.expected = None <=> re.buffer = <<>>
      /\ delivered \in Seq(Seq(Chunk))
      /\ NoSplice
  BY DEF IInv, TypeOK, ReType
<1>2. PICK m \in DOMAIN sent : \E j \in 1 .. sent[m] : IsChunkAt(p, m, j)
  BY DEF IInv, LogOK
<1>3. PICK k \in 1 .. sent[m] : IsChunkAt(p, m, k)
  BY <1>2
<1>4. AtPlace(p, m, k)  BY <1>3, PlaceFacts
<1>5. NewReassembler \in ReType /\ NewReassembler.buffer = <<>>
      /\ NewReassembler.expected = None
  BY DEF NewReassembler, ReType
<1>6. CASE k = sent[m] /\ Completes(m)
  <2>1. re' = NewReassembler /\ delivered' = Append(delivered, App(m, sent[m]))
        /\ App(m, sent[m]) \in Seq(Chunk)
    BY <1>4, <1>6 DEF Completes, AtPlace
  <2> DEFINE a == App(m, sent[m])
  <2>2. a \in Seq(Chunk)  BY <2>1
  <2>3. delivered' = Append(delivered, a)  BY <2>1
  <2> HIDE DEF a
  <2>4. delivered' \in Seq(Seq(Chunk)) /\ Len(delivered') = Len(delivered) + 1
        /\ delivered'[Len(delivered) + 1] = a
        /\ \A i \in 1 .. Len(delivered) : delivered'[i] = delivered[i]
    BY <2>2, <2>3, <1>1
  <2>5. NoSplice'
    <3> SUFFICES ASSUME NEW i \in DOMAIN delivered'
                 PROVE  \E j \in DOMAIN sent : delivered'[i] = App(j, sent[j])
      BY DEF NoSplice
    <3>1. i \in 1 .. Len(delivered) + 1 /\ Len(delivered) \in Nat  BY <2>4, <1>1
    <3>2. CASE i = Len(delivered) + 1  BY <3>2, <2>4 DEF a
    <3>3. CASE i \in 1 .. Len(delivered)
      <4>1. i \in DOMAIN delivered /\ delivered'[i] = delivered[i]
        BY <3>3, <2>4, <1>1
      <4> QED  BY <4>1, <1>1 DEF NoSplice
    <3> QED  BY <3>1, <3>2, <3>3
  <2>6. ReassemblyOK'  BY <2>1, <1>5 DEF ReassemblyOK
  <2> QED  BY <2>1, <2>4, <2>5, <2>6, <1>5
<1>7. CASE k # sent[m] /\ Extends(p, m, k)
  <2>1. /\ re'.expected = p % SeqSpace /\ re'.buffer = App(m, k)
        /\ re' \in ReType /\ delivered' = delivered
        /\ App(m, k) # <<>> /\ p % SeqSpace # None
    <3>1. p % SeqSpace \in SeqNumber
      <4>1. p \in Nat  BY <1>4 DEF AtPlace
      <4>2. SeqSpace \in Nat /\ SeqSpace > 0  OBVIOUS
      <4> QED  BY <4>1, <4>2, DivMod DEF SeqNumber
    <3> QED  BY <3>1, <1>4, <1>7 DEF Extends, AtPlace, ReType, SeqNumber
  <2>2. k \in 1 .. sent[m] - 1  BY <1>4, <1>7 DEF AtPlace
  <2>3. Collected(m, k)'
    BY <2>1, <1>4 DEF Collected, AtPlace
  <2>4. ReassemblyOK'  BY <2>2, <2>3 DEF ReassemblyOK
  <2>5. NoSplice'  BY <2>1, <1>1 DEF NoSplice
  <2> QED  BY <2>1, <2>4, <2>5, <1>1
<1>8. CASE Drops
  BY <1>8, <1>1, <1>5 DEF Drops, ReassemblyOK, NoSplice
<1> QED  BY <1>3, <1>6, <1>7, <1>8, AcceptOutcomes

-----------------------------------------------------------------------------
(* The invariant holds at first.                                            *)
LEMMA InitEstablishes == Init => IInv
<1> SUFFICES ASSUME Init PROVE IInv
  OBVIOUS
<1> USE DEF Init
<1>1. TypeOK
  BY DEF TypeOK, NewReassembler, SeqNumber
<1>2. tseq = Len(log) % SeqSpace
  <2>1. SeqSpace \in Nat /\ 0 = SeqSpace * 0 + 0 /\ 0 \in 0 .. SeqSpace - 1  OBVIOUS
  <2>2. 0 % SeqSpace = 0  BY <2>1, ModUnique
  <2> QED  BY <2>2
<1>3. LogOK /\ ReassemblyOK /\ NoSplice
  BY DEF LogOK, ReassemblyOK, NoSplice, NewReassembler
<1> QED  BY <1>1, <1>2, <1>3 DEF IInv

(* Sending keeps it: the new segments carry on the numbering of the log.    *)
LEMMA SendKeeps ==
  ASSUME IInv, NEW n \in Lengths, Send(n)
  PROVE  IInv'
<1>0. PICK m \in Nat : m = Len(sent) + 1
  <2>1. sent \in Seq(Lengths)  BY DEF IInv, TypeOK
  <2> QED  BY <2>1
<1> DEFINE f == Fragment(App(m, n), tseq)
<1>1. /\ sent \in Seq(Lengths) /\ tseq \in SeqNumber /\ log \in Seq(SegmentType)
      /\ head \in 0 .. Len(log) /\ seen \in 0 .. head /\ run \in 0 .. head
      /\ re \in ReType /\ (re.expected = None <=> re.buffer = <<>>)
      /\ delivered \in Seq(Seq(Chunk)) /\ duplicates \in 0 .. MaxDuplicates
  BY DEF IInv, TypeOK, ReType
<1>2. /\ tseq = Len(log) % SeqSpace /\ head - seen <= MaxBurst
      /\ LogOK /\ ReassemblyOK /\ NoSplice
  BY DEF IInv
<1>3. n \in Nat /\ n > 0 /\ m \in Nat /\ m > 0 /\ tseq \in Nat
  BY <1>0, <1>1 DEF SeqNumber
<1>4. Len(sent) \in Nat /\ Len(log) \in Nat
  BY <1>1
<1>5. /\ f \in Seq(SegmentType) /\ Len(f) = n
      /\ \A k \in 1 .. n : IsSegment(f[k], m, n, k, tseq)
  BY <1>3, FragmentOfApp
<1> HIDE DEF f
<1>6. /\ sent' = Append(sent, n) /\ log' = log \o f
      /\ tseq' = (tseq + n) % SeqSpace
      /\ UNCHANGED <<head, seen, run, re, delivered, duplicates>>
  BY <1>0 DEF Send, f
<1>7. /\ sent' \in Seq(Lengths) /\ Len(sent') = m /\ sent'[m] = n
      /\ DOMAIN sent = 1 .. m - 1 /\ DOMAIN sent' = 1 .. m
      /\ \A i \in 1 .. m - 1 : sent'[i] = sent[i]
  BY <1>0, <1>1, <1>6
<1>8. /\ log' \in Seq(SegmentType) /\ Len(log') = Len(log) + n
      /\ \A i \in 1 .. Len(log) : log'[i] = log[i]
      /\ \A k \in 1 .. n : log'[Len(log) + k] = f[k]
  <2>a. log \in Seq(SegmentType) /\ f \in Seq(SegmentType)  BY <1>1, <1>5
  <2>1. /\ log \o f \in Seq(SegmentType) /\ Len(log \o f) = Len(log) + Len(f)
        /\ \A i \in 1 .. Len(log) + Len(f) :
              (log \o f)[i] = IF i <= Len(log) THEN log[i] ELSE f[i - Len(log)]
    BY <2>a, ConcatProperties
  <2>2. ASSUME NEW i \in 1 .. Len(log) PROVE log'[i] = log[i]
    BY <2>1, <1>3, <1>4, <1>5, <1>6
  <2>3. ASSUME NEW k \in 1 .. n PROVE log'[Len(log) + k] = f[k]
    <3>1. Len(log) + k \in 1 .. Len(log) + Len(f) /\ ~ (Len(log) + k <= Len(log))
          /\ (Len(log) + k) - Len(log) = k
      BY <1>3, <1>4, <1>5
    <3> QED  BY <3>1, <2>1, <1>6
  <2> QED  BY <2>1, <2>2, <2>3, <1>5, <1>6
<1>9. tseq' = Len(log') % SeqSpace
  <2>1. SeqSpace \in Nat /\ SeqSpace > 0  OBVIOUS
  <2>2. ((Len(log) % SeqSpace) + n) % SeqSpace = (Len(log) + n) % SeqSpace
    BY <2>1, <1>3, <1>4, ModAdd
  <2> QED  BY <2>2, <1>2, <1>6, <1>8
<1>10. tseq' \in SeqNumber
  <2>1. SeqSpace \in Nat /\ SeqSpace > 0  OBVIOUS
  <2>2. Len(log') \in Nat  BY <1>3, <1>4, <1>8
  <2> QED  BY <2>1, <2>2, <1>9, DivMod DEF SeqNumber
<1>11. TypeOK'
  BY <1>1, <1>3, <1>4, <1>6, <1>7, <1>8, <1>10 DEF TypeOK, ReType
<1>12. LogOK'
  <2> SUFFICES ASSUME NEW p \in DOMAIN log'
               PROVE  \E j \in DOMAIN sent' : \E k \in 1 .. sent'[j] :
                          IsChunkAt(p, j, k)'
    BY DEF LogOK
  <2>1. p \in 1 .. Len(log) + n /\ p \in Nat  BY <1>3, <1>4, <1>8
  <2>2. CASE p \in 1 .. Len(log)
    <3>1. PICK j \in DOMAIN sent : \E k \in 1 .. sent[j] : IsChunkAt(p, j, k)
      <4>1. p \in DOMAIN log  BY <2>2, <1>1, LenProperties
      <4> QED  BY <4>1, <1>2 DEF LogOK
    <3>2. PICK k \in 1 .. sent[j] : IsChunkAt(p, j, k)
      BY <3>1
    <3>3. j \in DOMAIN sent' /\ sent'[j] = sent[j]
      BY <1>3, <1>7
    <3>4. log'[p] = log[p] /\ (p > 1 => log'[p - 1] = log[p - 1])
      BY <2>2, <1>4, <1>8
    <3>5. IsChunkAt(p, j, k)'
      BY <3>2, <3>3, <3>4 DEF IsChunkAt
    <3> QED  BY <3>3, <3>5
  <2>3. CASE p \notin 1 .. Len(log)
    <3>0. PICK k \in 1 .. n : k = p - Len(log)
      <4>1. p - Len(log) \in 1 .. n  BY <2>1, <2>3, <1>3, <1>4
      <4> QED  BY <4>1
    <3>1. k \in 1 .. n /\ p = Len(log) + k  BY <3>0, <2>1, <1>3, <1>4
    <3>2. IsSegment(log'[p], m, n, k, tseq)
      BY <3>1, <1>5, <1>8
    <3>3. (tseq + (k - 1)) % SeqSpace = (p - 1) % SeqSpace
      <4>1. SeqSpace \in Nat /\ SeqSpace > 0 /\ k - 1 \in Nat
            /\ Len(log) + (k - 1) = p - 1
        BY <3>1, <1>4
      <4>2. ((Len(log) % SeqSpace) + (k - 1)) % SeqSpace
              = (Len(log) + (k - 1)) % SeqSpace
        BY <4>1, <1>4, ModAdd
      <4> QED  BY <4>1, <4>2, <1>2
    <3>4. k > 1 => p > 1 /\ log'[p - 1].payload = <<[msg |-> m, part |-> k - 1]>>
      <4> SUFFICES ASSUME k > 1
                   PROVE  p > 1 /\ log'[p - 1].payload = <<[msg |-> m, part |-> k - 1]>>
        OBVIOUS
      <4>1. k - 1 \in 1 .. n /\ p - 1 = Len(log) + (k - 1) /\ p > 1
        BY <3>1, <1>4
      <4>2. log'[p - 1] = f[k - 1]  BY <4>1, <1>8
      <4>3. IsSegment(f[k - 1], m, n, k - 1, tseq)  BY <4>1, <1>5
      <4> QED  BY <4>1, <4>2, <4>3 DEF IsSegment
    <3>5. IsChunkAt(p, m, k)'
      BY <3>2, <3>3, <3>4, <1>7 DEF IsSegment, IsChunkAt
    <3>6. m \in DOMAIN sent' /\ k \in 1 .. sent'[m]  BY <3>1, <1>3, <1>7
    <3> QED  BY <3>5, <3>6
  <2> QED  BY <2>2, <2>3
<1>13. ReassemblyOK'
  <2> SUFFICES ASSUME re'.buffer # <<>>
               PROVE  \E j \in DOMAIN sent' : \E k \in 1 .. sent'[j] - 1 :
                          Collected(j, k)'
    BY DEF ReassemblyOK
  <2>1. re.buffer # <<>>  BY <1>6
  <2>2. PICK j \in DOMAIN sent : \E k \in 1 .. sent[j] - 1 : Collected(j, k)
    BY <2>1, <1>2 DEF ReassemblyOK
  <2>3. PICK k \in 1 .. sent[j] - 1 : Collected(j, k)
    BY <2>2
  <2>4. j \in DOMAIN sent' /\ sent'[j] = sent[j]  BY <1>3, <1>7
  <2>5. seen \in 1 .. Len(log)  BY <2>3, <1>1, <1>4 DEF Collected
  <2>6. Collected(j, k)'
    BY <2>3, <2>5, <1>6, <1>8 DEF Collected
  <2> QED  BY <2>4, <2>6
<1>14. NoSplice'
  <2> SUFFICES ASSUME NEW i \in DOMAIN delivered
               PROVE  \E j \in DOMAIN sent' : delivered[i] = App(j, sent'[j])
    BY <1>6 DEF NoSplice
  <2>1. PICK j \in DOMAIN sent : delivered[i] = App(j, sent[j])
    BY <1>2 DEF NoSplice
  <2> QED  BY <2>1, <1>3, <1>7
<1> QED  BY <1>2, <1>6, <1>9, <1>11, <1>12, <1>13, <1>14 DEF IInv

(* The parts of the invariant that only `sent`, `log` and `tseq` decide.     *)
LEMMA LineUntouched ==
  ASSUME IInv, UNCHANGED <<sent, tseq, log>>
  PROVE  /\ tseq' = Len(log') % SeqSpace
         /\ LogOK'
<1>1. tseq' = Len(log') % SeqSpace  BY DEF IInv
<1>2. LogOK
  BY DEF IInv
<1>3. ASSUME NEW p \in DOMAIN log', NEW m \in DOMAIN sent', NEW k \in 1 .. sent'[m],
             IsChunkAt(p, m, k)
      PROVE  IsChunkAt(p, m, k)'
  BY <1>3 DEF IsChunkAt
<1> QED  BY <1>1, <1>2, <1>3 DEF LogOK

(* Receiving keeps it: this is where the sequence numbers are needed.       *)
LEMMA ReceiveKeeps ==
  ASSUME IInv, Receive
  PROVE  IInv'
<1> USE DEF Receive
<1>1. TypeOK  BY DEF IInv
<1>2. Len(log) \in Nat /\ DOMAIN log = 1 .. Len(log)
  BY <1>1, LenProperties DEF TypeOK
<1>3. head + 1 \in DOMAIN log  BY <1>1, <1>2 DEF TypeOK
<1>4. /\ re' \in ReType
      /\ re'.expected = None <=> re'.buffer = <<>>
      /\ delivered' \in Seq(Seq(Chunk))
      /\ ReassemblyOK'
      /\ NoSplice'
  BY <1>3, AcceptKeeps
<1>5. run + 1 \in 0 .. head + 1
  BY <1>1, <1>2 DEF TypeOK
<1>6. TypeOK'
  BY <1>1, <1>2, <1>4, <1>5 DEF TypeOK, ReType
<1>7. head' - seen' <= MaxBurst
  BY <1>1, <1>2 DEF TypeOK
<1> QED  BY <1>4, <1>6, <1>7, LineUntouched DEF IInv

(* So does receiving the latest segment once more.                          *)
LEMMA DuplicateKeeps ==
  ASSUME IInv, Duplicate
  PROVE  IInv'
<1> USE DEF Duplicate
<1>1. TypeOK  BY DEF IInv
<1>2. Len(log) \in Nat /\ DOMAIN log = 1 .. Len(log)
  BY <1>1, LenProperties DEF TypeOK
<1>3. head \in DOMAIN log /\ seen' = head
  BY <1>1, <1>2 DEF TypeOK
<1>4. /\ re' \in ReType
      /\ re'.expected = None <=> re'.buffer = <<>>
      /\ delivered' \in Seq(Seq(Chunk))
      /\ ReassemblyOK'
      /\ NoSplice'
  BY <1>3, AcceptKeeps
<1>5. TypeOK'
  BY <1>1, <1>2, <1>4 DEF TypeOK, ReType
<1>6. head' - seen' <= MaxBurst  BY DEF IInv
<1> QED  BY <1>4, <1>5, <1>6, LineUntouched DEF IInv

(* A loss leaves the reassembler alone, and is the reason to bound bursts.  *)
LEMMA LoseKeeps ==
  ASSUME IInv, Lose
  PROVE  IInv'
<1> USE DEF Lose
<1>1. TypeOK  BY DEF IInv
<1>2. Len(log) \in Nat  BY <1>1, LenProperties DEF TypeOK
<1>3. TypeOK'
  BY <1>1, <1>2 DEF TypeOK
<1>4. ReassemblyOK'
  BY DEF IInv, ReassemblyOK, Collected
<1>5. NoSplice'  BY DEF IInv, NoSplice
<1>6. head' - seen' <= MaxBurst  BY <1>1, <1>2 DEF TypeOK
<1> QED  BY <1>3, <1>4, <1>5, <1>6, LineUntouched DEF IInv

(* After a reset nothing is collected.                                      *)
LEMMA ResetKeeps ==
  ASSUME IInv, ResetReceiver
  PROVE  IInv'
<1> USE DEF ResetReceiver
<1>1. TypeOK'
  BY DEF IInv, TypeOK, NewReassembler
<1>2. ReassemblyOK'
  BY DEF ReassemblyOK, NewReassembler
<1>3. NoSplice' /\ head' - seen' <= MaxBurst
  BY DEF IInv, NoSplice
<1> QED  BY <1>1, <1>2, <1>3, LineUntouched DEF IInv

(* A step that changes nothing keeps it.                                    *)
LEMMA StutterKeeps ==
  ASSUME IInv, UNCHANGED vars
  PROVE  IInv'
<1> USE DEF vars
<1>1. TypeOK'  BY DEF IInv, TypeOK
<1>2. ReassemblyOK'  BY DEF IInv, ReassemblyOK, Collected
<1>3. NoSplice' /\ head' - seen' <= MaxBurst  BY DEF IInv, NoSplice
<1> QED  BY <1>1, <1>2, <1>3, LineUntouched DEF IInv

-----------------------------------------------------------------------------
(* Sender, line and reassembler keep the invariant for ever.                *)
THEOREM Invariance == Spec => []IInv
<1>1. IInv /\ [Next]_vars => IInv'
  <2> SUFFICES ASSUME IInv, [Next]_vars PROVE IInv'
    OBVIOUS
  <2>1. CASE \E n \in Lengths : Send(n)  BY <2>1, SendKeeps
  <2>2. CASE Receive  BY <2>2, ReceiveKeeps
  <2>3. CASE Duplicate  BY <2>3, DuplicateKeeps
  <2>4. CASE Lose  BY <2>4, LoseKeeps
  <2>5. CASE ResetReceiver  BY <2>5, ResetKeeps
  <2>6. CASE UNCHANGED vars  BY <2>6, StutterKeeps
  <2> QED  BY <2>1, <2>2, <2>3, <2>4, <2>5, <2>6 DEF Next
<1> QED  BY <1>1, InitEstablishes, PTL DEF Spec

(* The variables keep their types: in particular the Reassembler waits for  *)
(* a FIR exactly when its buffer is empty.                                  *)
THEOREM TypeCorrectness == Spec => []TypeOK
<1>1. IInv => TypeOK  BY DEF IInv
<1> QED  BY <1>1, Invariance, PTL

(* Reassembler::push never joins pieces of two fragments, however large the *)
(* sequence space, as long as the line loses fewer segments in a row than   *)
(* there are sequence numbers.                                              *)
THEOREM NeverSpliced == Spec => []NoSplice
<1>1. IInv => NoSplice  BY DEF IInv
<1> QED  BY <1>1, Invariance, PTL

-----------------------------------------------------------------------------
(* What IntactDelivered and the refinement need beyond IInv.                *)

(* The message whose chunk is at place p.                                   *)
MsgAt(p) == log[p].payload[1].msg

LEMMA MsgAtPlace ==
  ASSUME IInv, NEW p \in DOMAIN log
  PROVE  \E m \in DOMAIN sent : \E k \in 1 .. sent[m] :
            IsChunkAt(p, m, k) /\ AtPlace(p, m, k) /\ MsgAt(p) = m
<1>1. PICK m \in DOMAIN sent : \E j \in 1 .. sent[m] : IsChunkAt(p, m, j)
  BY DEF IInv, LogOK
<1>2. PICK k \in 1 .. sent[m] : IsChunkAt(p, m, k)
  BY <1>1
<1>3. AtPlace(p, m, k)  BY <1>2, PlaceFacts
<1>4. MsgAt(p) = m  BY <1>3 DEF AtPlace, MsgAt
<1> QED  BY <1>2, <1>3, <1>4

(* The last message delivered, after a segment off the line.                *)
LEMMA LastAfter ==
  ASSUME IInv, NEW m \in DOMAIN sent, AtPlace(seen', m, sent[m]),
         Completes(m), DOMAIN sent' = DOMAIN sent
  PROVE  LastDelivered' = m
<1>1. delivered \in Seq(Seq(Chunk))  BY DEF IInv, TypeOK
<1> DEFINE a == App(m, sent[m])
<1>2. a \in Seq(Chunk) /\ a # <<>> /\ a[1].msg = m
  BY DEF AtPlace, App
<1>3. delivered' = Append(delivered, a)  BY DEF Completes
<1> HIDE DEF a
<1>4. delivered' # <<>> /\ delivered'[Len(delivered')] = a
  <2>1. /\ delivered' \in Seq(Seq(Chunk)) /\ Len(delivered') = Len(delivered) + 1
        /\ delivered'[Len(delivered) + 1] = a /\ Len(delivered) \in Nat
    BY <1>1, <1>2, <1>3
  <2>2. delivered' # <<>>  BY <2>1
  <2> QED  BY <2>1, <2>2
<1> QED  BY <1>2, <1>4 DEF LastDelivered

(* Receiving, or receiving once more, leaves the order as it was.           *)
LEMMA AcceptKeepsOrder ==
  ASSUME IInv, InOrder, NEW p \in DOMAIN log,
         p = head + 1 \/ (p = head /\ p = seen),
         Accept(log[p]), seen' = p, UNCHANGED <<sent, log>>
  PROVE  InOrder'
<1>1. PICK m \in DOMAIN sent : \E k \in 1 .. sent[m] :
          IsChunkAt(p, m, k) /\ AtPlace(p, m, k) /\ MsgAt(p) = m
  BY MsgAtPlace
<1>2. PICK k \in 1 .. sent[m] :
          IsChunkAt(p, m, k) /\ AtPlace(p, m, k) /\ MsgAt(p) = m
  BY <1>1
<1>3. seen \in Nat /\ p \in Nat /\ seen <= p /\ p > 0
  <2>1. seen \in Nat /\ head \in Nat /\ seen <= head  BY DEF IInv, TypeOK
  <2>2. p \in Nat /\ p > 0  BY <1>2 DEF AtPlace
  <2> QED  BY <2>1, <2>2
<1>4. CASE k = sent[m] /\ Completes(m)
  <2>1. LastDelivered' = m  BY <1>2, <1>4, LastAfter
  <2>2. p \in 1 .. seen' /\ log'[p].payload[1].msg = LastDelivered'
    BY <1>2, <1>3, <2>1 DEF MsgAt
  <2> QED  BY <2>2 DEF InOrder
<1>5. CASE delivered' = delivered
  <2>1. 1 .. seen \subseteq 1 .. seen'  BY <1>3
  <2>2. LastDelivered' = LastDelivered  BY <1>5 DEF LastDelivered
  <2> QED  BY <1>5, <2>1, <2>2 DEF InOrder
<1> QED  BY <1>2, <1>4, <1>5, AcceptOutcomes DEF Extends, Drops

(* The row of segments that arrived goes on with the one at place p, or     *)
(* starts with it.                                                          *)
RowReaches(p) ==
    \/ p = head + 1 /\ run' = run + 1
    \/ p = head /\ p = seen /\ run' = 1

(* When the row contains the message from its first segment on, nothing of  *)
(* it is missing in the reassembler.                                        *)
LEMMA RowContinues ==
  ASSUME IInv, RunOK, NEW p \in DOMAIN log, NEW m \in DOMAIN sent, NEW k \in 1 .. sent[m],
         IsChunkAt(p, m, k), Accept(log[p]), RowReaches(p), run' >= k
  PROVE  /\ k = sent[m] => Completes(m)
         /\ k # sent[m] => Extends(p, m, k)
<1>1. AtPlace(p, m, k)  BY PlaceFacts
<1>2. head \in Nat /\ run \in Nat /\ k \in Nat /\ sent[m] \in Nat /\ p \in Nat
  BY <1>1 DEF IInv, TypeOK, AtPlace
<1>3. CASE k = 1
  <2>1. log[p].fir  BY <1>3 DEF IsChunkAt
  <2> QED  BY <2>1, AcceptContinues DEF Completes, Extends
<1>4. CASE k # 1
  <2>1. k > 1  BY <1>4, <1>2
  <2>2. p = head + 1 /\ run >= k - 1 /\ run > 0
    BY <2>1, <1>2 DEF RowReaches
  <2>3. log[p - 1].payload = <<[msg |-> m, part |-> k - 1]>>
    BY <2>1 DEF IsChunkAt
  <2>4. p - 1 = head /\ k - 1 \in 1 .. sent[m] - 1  BY <2>1, <2>2, <1>2
  <2>5. Collected(m, k - 1) /\ seen = head  BY <2>2, <2>3, <2>4 DEF RunOK
  <2>6. re.expected = log[p].seq /\ re.buffer = App(m, k - 1)
    BY <2>4, <2>5, <1>1 DEF Collected, AtPlace
  <2> QED  BY <2>6, AcceptContinues DEF Completes, Extends
<1> QED  BY <1>3, <1>4

LEMMA AcceptKeepsRun ==
  ASSUME IInv, RunOK, NEW p \in DOMAIN log, Accept(log[p]), RowReaches(p),
         head' = p, seen' = p, UNCHANGED <<sent, log>>
  PROVE  RunOK'
<1>1. PICK m \in DOMAIN sent : \E k \in 1 .. sent[m] :
          IsChunkAt(p, m, k) /\ AtPlace(p, m, k) /\ MsgAt(p) = m
  BY MsgAtPlace
<1>2. PICK k \in 1 .. sent[m] :
          IsChunkAt(p, m, k) /\ AtPlace(p, m, k) /\ MsgAt(p) = m
  BY <1>1
<1> SUFFICES ASSUME NEW m2 \in DOMAIN sent, NEW k2 \in 1 .. sent[m2] - 1,
                    log[p].payload = <<[msg |-> m2, part |-> k2]>>, run' >= k2
             PROVE  Collected(m2, k2)'
  BY DEF RunOK
<1>3. m2 = m /\ k2 = k  BY <1>2 DEF AtPlace
<1>4. k # sent[m]  BY <1>2, <1>3 DEF AtPlace
<1>5. Extends(p, m, k)  BY <1>2, <1>3, <1>4, RowContinues
<1> QED  BY <1>2, <1>3, <1>5 DEF Extends, Collected, AtPlace

-----------------------------------------------------------------------------
(* Every operation keeps FullInv.                                           *)
LEMMA InitEstablishesFull == Init => FullInv
<1> SUFFICES ASSUME Init PROVE FullInv
  OBVIOUS
<1>1. InOrder  BY DEF Init, InOrder
<1>2. RunOK  BY DEF Init, RunOK
<1> QED  BY <1>1, <1>2, InitEstablishes DEF FullInv

LEMMA ReceiveKeepsFull ==
  ASSUME FullInv, Receive
  PROVE  InOrder' /\ RunOK'
<1>1. IInv /\ InOrder /\ RunOK  BY DEF FullInv
<1>2. head + 1 \in DOMAIN log
  BY <1>1 DEF IInv, TypeOK, Receive
<1>3. /\ Accept(log[head + 1]) /\ head' = head + 1 /\ seen' = head + 1
      /\ UNCHANGED <<sent, log>> /\ RowReaches(head + 1)
  BY DEF Receive, RowReaches
<1> QED  BY <1>1, <1>2, <1>3, AcceptKeepsOrder, AcceptKeepsRun

LEMMA DuplicateKeepsFull ==
  ASSUME FullInv, Duplicate
  PROVE  InOrder' /\ RunOK'
<1>1. IInv /\ InOrder /\ RunOK  BY DEF FullInv
<1>2. head \in DOMAIN log
  BY <1>1 DEF IInv, TypeOK, Duplicate
<1>3. /\ Accept(log[head]) /\ head' = head /\ seen' = head /\ head = seen
      /\ UNCHANGED <<sent, log>> /\ RowReaches(head)
  BY DEF Duplicate, RowReaches
<1> QED  BY <1>1, <1>2, <1>3, AcceptKeepsOrder, AcceptKeepsRun

LEMMA SendKeepsFull ==
  ASSUME FullInv, NEW n \in Lengths, Send(n)
  PROVE  InOrder' /\ RunOK'
<1>1. IInv /\ InOrder /\ RunOK /\ IInv'  BY SendKeeps DEF FullInv
<1> DEFINE m == Len(sent) + 1
           f == Fragment(App(m, n), tseq)
<1>2. /\ sent \in Seq(Lengths) /\ tseq \in SeqNumber /\ log \in Seq(SegmentType)
      /\ head \in 0 .. Len(log) /\ seen \in 0 .. head
  BY <1>1 DEF IInv, TypeOK
<1>3. n \in Nat /\ n > 0 /\ m \in Nat /\ m > 0 /\ tseq \in Nat
  BY <1>2 DEF SeqNumber
<1>4. Len(sent) \in Nat /\ Len(log) \in Nat /\ m = Len(sent) + 1
      /\ DOMAIN sent = 1 .. m - 1
  BY <1>2
<1>5. log' = log \o f /\ sent' = Append(sent, n)
      /\ UNCHANGED <<head, seen, run, re, delivered, duplicates>>
  BY DEF Send
<1> HIDE DEF m
<1>6. /\ f \in Seq(SegmentType) /\ Len(f) = n
      /\ \A k \in 1 .. n : IsSegment(f[k], m, n, k, tseq)
  BY <1>3, FragmentOfApp
<1> HIDE DEF f
<1>7. /\ Len(log') = Len(log) + n /\ DOMAIN log' = 1 .. Len(log) + n
      /\ \A i \in 1 .. Len(log) : log'[i] = log[i]
      /\ \A i \in 1 .. Len(log) + n : i > Len(log) => log'[i] = f[i - Len(log)]
  <2>1. /\ log \o f \in Seq(SegmentType) /\ Len(log \o f) = Len(log) + n
        /\ \A i \in 1 .. Len(log) + n :
              (log \o f)[i] = IF i <= Len(log) THEN log[i] ELSE f[i - Len(log)]
    BY <1>2, <1>6, ConcatProperties
  <2> QED  BY <2>1, <1>3, <1>4, <1>5
<1>8. \A i \in 1 .. n : f[i].payload[1].msg = m
  <2> TAKE i \in 1 .. n
  <2>1. f[i].payload = <<[msg |-> m, part |-> i]>>  BY <1>6 DEF IsSegment
  <2> QED  BY <2>1
<1>9. \A p \in 1 .. Len(log) : MsgAt(p) \in Nat /\ MsgAt(p) < m
  <2> SUFFICES ASSUME NEW p \in 1 .. Len(log)
               PROVE  MsgAt(p) \in Nat /\ MsgAt(p) < m
    OBVIOUS
  <2>1. p \in DOMAIN log  BY <1>2
  <2>2. MsgAt(p) \in DOMAIN sent  BY <2>1, <1>1, MsgAtPlace
  <2> QED  BY <2>2, <1>3, <1>4
<1>10. ASSUME NEW p \in DOMAIN log', NEW q \in DOMAIN log', p <= q
       PROVE  log'[p].payload[1].msg <= log'[q].payload[1].msg
  <2>1. p \in Nat /\ q \in Nat /\ p \in 1 .. Len(log) + n /\ q \in 1 .. Len(log) + n
    BY <1>3, <1>4, <1>7
  <2>2. CASE q <= Len(log)
    <3>1. p \in DOMAIN log /\ q \in DOMAIN log /\ p \in 1 .. Len(log) /\ q \in 1 .. Len(log)
      BY <2>1, <2>2, <1>2, <1>4, <1>10
    <3>2. log[p].payload[1].msg <= log[q].payload[1].msg
      BY <3>1, <1>1, <1>10 DEF InOrder
    <3> QED  BY <3>1, <3>2, <1>7
  <2>3. CASE q > Len(log)
    <3>1. q - Len(log) \in 1 .. n  BY <2>1, <2>3, <1>3, <1>4
    <3>2. log'[q].payload[1].msg = m  BY <3>1, <2>1, <2>3, <1>7, <1>8
    <3>3. CASE p <= Len(log)
      <4>1. p \in 1 .. Len(log)  BY <2>1, <3>3, <1>4
      <4>2. log'[p].payload[1].msg < m /\ log'[p].payload[1].msg \in Nat
        BY <4>1, <1>7, <1>9 DEF MsgAt
      <4> QED  BY <4>2, <3>2, <1>3
    <3>4. CASE p > Len(log)
      <4>1. p - Len(log) \in 1 .. n  BY <2>1, <3>4, <1>3, <1>4
      <4>2. log'[p].payload[1].msg = m  BY <4>1, <2>1, <3>4, <1>7, <1>8
      <4> QED  BY <4>2, <3>2, <1>3
    <3> QED  BY <3>3, <3>4, <2>1, <1>4
  <2> QED  BY <2>2, <2>3, <2>1, <1>4
<1>11. InOrder'
  <2>1. LastDelivered' = LastDelivered  BY <1>5 DEF LastDelivered
  <2>2. delivered' # <<>> =>
           \E p \in 1 .. seen' : log'[p].payload[1].msg = LastDelivered'
    <3> SUFFICES ASSUME delivered # <<>>
                 PROVE  \E p \in 1 .. seen : log'[p].payload[1].msg = LastDelivered
      BY <2>1, <1>5
    <3>1. PICK p \in 1 .. seen : log[p].payload[1].msg = LastDelivered
      BY <1>1 DEF InOrder
    <3>2. p \in 1 .. Len(log)  BY <1>2, <1>4
    <3> QED  BY <3>1, <3>2, <1>7
  <2> QED  BY <1>10, <2>2 DEF InOrder
<1>12. RunOK'
  <2> SUFFICES ASSUME run > 0
               PROVE  /\ seen = head
                      /\ \A j \in DOMAIN sent' : \A k \in 1 .. sent'[j] - 1 :
                            log'[head].payload = <<[msg |-> j, part |-> k]>> /\ run >= k
                                => Collected(j, k)'
    BY <1>5 DEF RunOK
  <2>1. seen = head  BY <1>1 DEF RunOK
  <2>2. head \in 1 .. Len(log)
    <3>1. run \in 0 .. head  BY <1>1 DEF IInv, TypeOK
    <3> QED  BY <3>1, <1>2, <1>4
  <2>3. log'[head] = log[head]  BY <2>2, <1>7
  <2> SUFFICES ASSUME NEW j \in DOMAIN sent', NEW k \in 1 .. sent'[j] - 1, run >= k,
                      log[head].payload = <<[msg |-> j, part |-> k]>>
               PROVE  Collected(j, k)'
    BY <2>1, <2>3
  <2>4. head \in DOMAIN log  BY <2>2, <1>2
  <2>5. MsgAt(head) \in DOMAIN sent  BY <2>4, <1>1, MsgAtPlace
  <2>6. MsgAt(head) = j  BY DEF MsgAt
  <2>7. j \in DOMAIN sent /\ sent'[j] = sent[j]
    BY <2>5, <2>6, <1>2, <1>4, <1>5
  <2>8. Collected(j, k)  BY <2>7, <1>1 DEF RunOK
  <2> QED  BY <2>1, <2>3, <2>8, <1>5 DEF Collected
<1> QED  BY <1>11, <1>12

(* A loss and a reset end the row, and nothing else they do matters here.   *)
LEMMA RowEndsKeepsFull ==
  ASSUME FullInv, run' = 0, UNCHANGED <<sent, log, seen, delivered>>
  PROVE  InOrder' /\ RunOK'
<1>1. InOrder'  BY DEF FullInv, InOrder, LastDelivered
<1>2. RunOK'  BY DEF RunOK
<1> QED  BY <1>1, <1>2

LEMMA StutterKeepsFull ==
  ASSUME FullInv, UNCHANGED vars
  PROVE  InOrder' /\ RunOK'
BY DEF FullInv, InOrder, LastDelivered, RunOK, Collected, vars

THEOREM FullInvariance == Spec => []FullInv
<1>1. FullInv /\ IInv' /\ [Next]_vars => FullInv'
  <2> SUFFICES ASSUME FullInv, IInv', [Next]_vars PROVE InOrder' /\ RunOK'
    BY DEF FullInv
  <2>1. CASE \E n \in Lengths : Send(n)  BY <2>1, SendKeepsFull
  <2>2. CASE Receive  BY <2>2, ReceiveKeepsFull
  <2>3. CASE Duplicate  BY <2>3, DuplicateKeepsFull
  <2>4. CASE Lose  BY <2>4, RowEndsKeepsFull DEF Lose
  <2>5. CASE ResetReceiver  BY <2>5, RowEndsKeepsFull DEF ResetReceiver
  <2>6. CASE UNCHANGED vars  BY <2>6, StutterKeepsFull
  <2> QED  BY <2>1, <2>2, <2>3, <2>4, <2>5, <2>6 DEF Next
<1> QED  BY <1>1, InitEstablishesFull, Invariance, PTL DEF Spec

-----------------------------------------------------------------------------
(* A fragment whose segments all arrive once and in a row is handed up with *)
(* the last of them, whatever the Reassembler went through before.          *)
THEOREM IntactIsDelivered == Spec => IntactDelivered
<1> DEFINE Handed ==
      run' = run + 1 =>
          LET seg == log[head']
              m   == seg.payload[1].msg
          IN  seg.fin /\ run' >= sent[m] =>
                  delivered' = Append(delivered, App(m, sent[m]))
<1>1. ASSUME FullInv, [Next]_vars PROVE [Handed]_vars
  <2> SUFFICES ASSUME Next, run' = run + 1, log[head'].fin,
                      run' >= sent[MsgAt(head')]
               PROVE  delivered' = Append(delivered,
                          App(MsgAt(head'), sent[MsgAt(head')]))
    BY <1>1 DEF MsgAt
  <2>0. IInv /\ RunOK /\ run \in Nat
    BY <1>1 DEF FullInv, IInv, TypeOK
  <2>1. Receive \/ Duplicate
    BY <2>0 DEF Next, Send, Lose, ResetReceiver
  <2>2. head' \in DOMAIN log /\ Accept(log[head']) /\ RowReaches(head')
    <3>1. CASE Receive
      BY <3>1, <2>0 DEF Receive, RowReaches, IInv, TypeOK
    <3>2. CASE Duplicate
      BY <3>2, <2>0 DEF Duplicate, RowReaches, IInv, TypeOK
    <3> QED  BY <2>1, <3>1, <3>2
  <2> DEFINE p == head'
  <2>3. PICK m \in DOMAIN sent : \E k \in 1 .. sent[m] :
            IsChunkAt(p, m, k) /\ AtPlace(p, m, k) /\ MsgAt(p) = m
    BY <2>0, <2>2, MsgAtPlace
  <2>4. PICK k \in 1 .. sent[m] :
            IsChunkAt(p, m, k) /\ AtPlace(p, m, k) /\ MsgAt(p) = m
    BY <2>3
  <2>5. k = sent[m] /\ run' >= k  BY <2>4 DEF IsChunkAt
  <2>6. Completes(m)  BY <2>0, <2>2, <2>4, <2>5, RowContinues
  <2> QED  BY <2>4, <2>6 DEF Completes
<1> QED  BY <1>1, FullInvariance, PTL DEF Spec, IntactDelivered

-----------------------------------------------------------------------------
(* The refinement mapping takes `sent` to the fragments themselves.         *)
SentFragments == [m \in DOMAIN sent |-> App(m, sent[m])]

LEMMA SendImplements ==
  ASSUME FullInv, NEW n \in Lengths, Send(n)
  PROVE  Abstract!Next
<1> DEFINE m == Len(sent) + 1
<1>1. sent \in Seq(Lengths) /\ Len(sent) \in Nat  BY DEF FullInv, IInv, TypeOK
<1>2. sent' = Append(sent, n) /\ Len(sent) < MaxMessages
      /\ UNCHANGED <<delivered, LastDelivered>>
  BY DEF Send, LastDelivered
<1>3. SentFragments' = Append(SentFragments, App(m, n))
  <2> DEFINE F == {App(i, sent[i]) : i \in 1 .. Len(sent)} \cup {App(m, n)}
  <2>a. SentFragments = [i \in 1 .. Len(sent) |-> App(i, sent[i])]
    BY <1>1 DEF SentFragments
  <2>b. SentFragments \in [1 .. Len(sent) -> F]  BY <2>a
  <2> HIDE DEF F
  <2>1. /\ SentFragments \in Seq(F)
        /\ Len(SentFragments) = Len(sent)
        /\ \A i \in 1 .. Len(sent) : SentFragments[i] = App(i, sent[i])
    BY <1>1, <2>a, <2>b
  <2>2. SentFragments' = [i \in 1 .. m |-> App(i, IF i = m THEN n ELSE sent[i])]
    BY <1>1, <1>2 DEF SentFragments
  <2>3. Append(SentFragments, App(m, n))
           = [i \in 1 .. m |-> App(i, IF i = m THEN n ELSE sent[i])]
    BY <1>1, <2>1
  <2> QED  BY <2>2, <2>3
<1>4. m \in 1 .. MaxMessages  BY <1>1, <1>2
<1> HIDE DEF m
<1>5. App(m, n) \in {App(i, l) : i \in 1 .. MaxMessages, l \in Lengths}
  BY <1>4
<1>6. Abstract!Send(App(m, n))
  BY <1>2, <1>3 DEF Abstract!Send, SentFragments
<1> QED  BY <1>5, <1>6 DEF Abstract!Next

(* Accepting a segment hands up the message it belongs to, or nothing.      *)
LEMMA AcceptImplements ==
  ASSUME FullInv, NEW p \in DOMAIN log,
         p = head + 1 \/ (p = head /\ p = seen),
         Accept(log[p]), seen' = p, UNCHANGED <<sent, log>>
  PROVE  Abstract!Next \/ UNCHANGED <<SentFragments, delivered, LastDelivered>>
<1>1. IInv /\ InOrder /\ sent \in Seq(Lengths)  BY DEF FullInv, IInv, TypeOK
<1>2. PICK m \in DOMAIN sent : \E k \in 1 .. sent[m] :
          IsChunkAt(p, m, k) /\ AtPlace(p, m, k) /\ MsgAt(p) = m
  BY <1>1, MsgAtPlace
<1>3. PICK k \in 1 .. sent[m] :
          IsChunkAt(p, m, k) /\ AtPlace(p, m, k) /\ MsgAt(p) = m
  BY <1>2
<1>4. UNCHANGED SentFragments  BY DEF SentFragments
<1>5. CASE delivered' = delivered
  BY <1>4, <1>5 DEF LastDelivered
<1>6. CASE k = sent[m] /\ Completes(m)
  <2>1. LastDelivered' = m  BY <1>1, <1>3, <1>6, LastAfter
  <2>2. m \in DOMAIN SentFragments /\ SentFragments[m] = App(m, sent[m])
    BY DEF SentFragments
  <2>3. delivered' = Append(delivered, SentFragments[m])
    BY <1>6, <2>2 DEF Completes
  <2>4. m >= LastDelivered
    <3>1. m \in Nat  BY <1>3 DEF AtPlace
    <3>2. CASE delivered = <<>>  BY <3>1, <3>2 DEF LastDelivered
    <3>3. CASE delivered # <<>>
      <4>1. PICK q \in 1 .. seen : log[q].payload[1].msg = LastDelivered
        BY <1>1, <3>3 DEF InOrder
      <4>2. q \in DOMAIN log /\ q <= p
        <5>1. seen \in 0 .. head /\ head \in 0 .. Len(log) /\ Len(log) \in Nat
              /\ DOMAIN log = 1 .. Len(log)
          BY <1>1 DEF IInv, TypeOK
        <5>2. p = head \/ p = head + 1  OBVIOUS
        <5> QED  BY <5>1, <5>2
      <4>3. log[q].payload[1].msg <= MsgAt(p)
        BY <1>1, <4>2 DEF InOrder, MsgAt
      <4> QED  BY <4>1, <4>3, <1>3, <3>1
    <3> QED  BY <3>2, <3>3
  <2>5. Abstract!Deliver(m)
    BY <1>4, <2>1, <2>3, <2>4 DEF Abstract!Deliver, SentFragments
  <2> QED  BY <2>2, <2>5 DEF Abstract!Next, SentFragments
<1> QED  BY <1>1, <1>3, <1>5, <1>6, AcceptOutcomes DEF Extends, Drops

(* Sender, line and reassembler implement the lossy channel: what arrives   *)
(* arrives whole, and never after a later message.                          *)
THEOREM Refinement == Spec => ImplementsLossyChannel
<1>1. Init => Abstract!Init
  <2> SUFFICES ASSUME Init PROVE Abstract!Init
    OBVIOUS
  <2>1. [m \in DOMAIN sent |-> App(m, sent[m])] = <<>>  BY DEF Init
  <2>2. delivered = <<>> /\ LastDelivered = 0  BY DEF Init, LastDelivered
  <2> QED  BY <2>1, <2>2 DEF Abstract!Init
<1>2. FullInv /\ [Next]_vars => [Abstract!Next]_(Abstract!vars)
  <2> SUFFICES ASSUME FullInv, [Next]_vars
               PROVE  Abstract!Next \/ UNCHANGED <<SentFragments, delivered, LastDelivered>>
    BY DEF Abstract!vars, SentFragments
  <2>1. CASE \E n \in Lengths : Send(n)  BY <2>1, SendImplements
  <2>2. CASE Receive
    <3>1. head + 1 \in DOMAIN log  BY <2>2 DEF FullInv, IInv, TypeOK, Receive
    <3> QED  BY <2>2, <3>1, AcceptImplements DEF Receive
  <2>3. CASE Duplicate
    <3>1. head \in DOMAIN log /\ seen' = head
      BY <2>3 DEF FullInv, IInv, TypeOK, Duplicate
    <3> QED  BY <2>3, <3>1, AcceptImplements DEF Duplicate
  <2>4. CASE UNCHANGED <<sent, delivered>>
    BY <2>4 DEF SentFragments, LastDelivered
  <2>5. Lose \/ ResetReceiver \/ UNCHANGED vars => UNCHANGED <<sent, delivered>>
    BY DEF Lose, ResetReceiver, vars
  <2> QED  BY <2>1, <2>2, <2>3, <2>4, <2>5 DEF Next
<1> QED  BY <1>1, <1>2, FullInvariance, PTL DEF Spec, ImplementsLossyChannel, Abstract!Spec
=============================================================================
