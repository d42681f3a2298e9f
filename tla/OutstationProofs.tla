-------------------------- MODULE OutstationProofs --------------------------
(***************************************************************************)
(* For every set of masters, of requests and of addresses, every length of *)
(* a response, every sequence space and any number of link resets: the     *)
(* invariant of Outstation is inductive, no request reaches across a link  *)
(* reset, the segments sent are numbered without a gap, and no history     *)
(* makes the outstation deaf.                                              *)
(***************************************************************************)
EXTENDS Outstation, Integers, SequenceTheorems, FiniteSetTheorems, TLAPS

-----------------------------------------------------------------------------
(* Arithmetic on sequence numbers.                                          *)

(* Quotient and remainder.                                                  *)
LEMMA DivMod ==
  ASSUME NEW M \in Nat, M > 0, NEW a \in Nat
  PROVE  /\ a % M \in 0 .. M - 1
         /\ a \div M \in Int
         /\ a = M * (a \div M) + (a % M)
OBVIOUS

(* The only multiple of M between -M and M is zero.                         *)
LEMMA SmallMultiple ==
  ASSUME NEW M \in Nat, M > 0, NEW k \in Int, NEW d \in Int,
         d = M * k, d < M, d > -M
  PROVE  d = 0
<1>1. CASE k >= 1  BY <1>1
<1>2. CASE k <= -1  BY <1>2
<1>3. CASE k = 0  BY <1>3
<1> QED  BY <1>1, <1>2, <1>3

(* A remainder is determined by any way of writing the number.              *)
LEMMA ModUnique ==
  ASSUME NEW M \in Nat, M > 0, NEW a \in Nat, NEW q \in Int,
         NEW r \in 0 .. M - 1, a = M * q + r
  PROVE  a % M = r
<1> DEFINE qa == a \div M
           ra == a % M
<1>1. a = M * qa + ra /\ qa \in Int /\ ra \in 0 .. M - 1  BY DivMod
<1> HIDE DEF qa, ra
<1>2. ra - r = M * (q - qa)  BY <1>1
<1>3. ra - r = 0  BY <1>2, <1>1, SmallMultiple
<1> QED  BY <1>3, <1>1 DEF ra

(* A remainder may be taken before an addition as well as after it.         *)
LEMMA ModAdd ==
  ASSUME NEW M \in Nat, M > 0, NEW a \in Nat, NEW b \in Nat
  PROVE  ((a % M) + b) % M = (a + b) % M
<1> DEFINE c  == (a % M) + b
           qa == a \div M
           qc == c \div M
           rc == c % M
<1>1. a = M * qa + (a % M) /\ qa \in Int /\ a % M \in 0 .. M - 1  BY DivMod
<1>2. c \in Nat  BY <1>1
<1>3. c = M * qc + rc /\ qc \in Int /\ rc \in 0 .. M - 1  BY <1>2, DivMod
<1>4. a + b = M * qa + c  BY <1>1
<1> HIDE DEF c, qa, qc, rc
<1>5. a + b = M * (qa + qc) + rc  BY <1>1, <1>3, <1>4
<1>6. qa + qc \in Int /\ a + b \in Nat  BY <1>1, <1>3
<1>7. (a + b) % M = rc  BY <1>5, <1>6, <1>3, ModUnique, Zenon
<1> QED  BY <1>7 DEF rc, c

(* A remainder by a multiple of M has the same remainder by M.              *)
LEMMA ModOfMod ==
  ASSUME NEW M \in Nat, M > 0, NEW N \in Nat, N > 0, N % M = 0, NEW a \in Nat
  PROVE  (a % N) % M = a % M
<1> DEFINE k == N \div M
           q == a \div N
           b == a % N
           s == b \div M
           r == b % M
<1>1. N = M * k /\ k \in Int  BY DivMod
<1>2. a = N * q + b /\ q \in Int /\ b \in 0 .. N - 1  BY DivMod
<1>3. b \in Nat  BY <1>2
<1>4. b = M * s + r /\ s \in Int /\ r \in 0 .. M - 1  BY <1>3, DivMod
<1> HIDE DEF k, q, b, s, r
<1>5. a = M * (k * q + s) + r /\ k * q + s \in Int
  BY <1>1, <1>2, <1>4
<1>6. a % M = r  BY <1>4, <1>5, ModUnique
<1> QED  BY <1>6 DEF r, b

-----------------------------------------------------------------------------
USE SeqSpaceAssumption, NoneAssumption, ResponseAssumption, CountAssumption,
    AddressAssumption, BoundsAssumption

(* What a reassembler may be that collects elements of C, and a segment     *)
(* that carries one of them or nothing.                                     *)
ReassemblerOf(C) ==
    {re \in [expected : SeqNumber \cup {None}, buffer : Seq(C)] :
        re.expected = None => re.buffer = <<>>}

SegmentOf(C) ==
    [fir : BOOLEAN, fin : BOOLEAN, seq : SeqNumber, payload : Seq(C)]

LEMMA FreshReassembler == ASSUME NEW C PROVE NewReassembler \in ReassemblerOf(C)
BY DEF NewReassembler, ReassemblerOf

(* Whatever a reassembler has collected and whatever it is pushed, it keeps *)
(* and hands up nothing else.                                               *)
LEMMA PushKeeps ==
  ASSUME NEW C, NEW re \in ReassemblerOf(C), NEW seg \in SegmentOf(C)
  PROVE  /\ Push(re, seg).re \in ReassemblerOf(C)
         /\ Push(re, seg).data \in Seq(C)
<1> DEFINE expected == IF seg.fir THEN seg.seq ELSE re.expected
           buffer   == IF seg.fir THEN <<>> ELSE re.buffer
           all      == buffer \o seg.payload
<1>1. /\ re.expected \in SeqNumber \cup {None} /\ re.buffer \in Seq(C)
      /\ seg.fir \in BOOLEAN /\ seg.fin \in BOOLEAN
      /\ seg.seq \in SeqNumber /\ seg.payload \in Seq(C)
  BY DEF ReassemblerOf, SegmentOf
<1>2. all \in Seq(C)
  <2>1. buffer \in Seq(C)  BY <1>1
  <2> QED  BY <2>1, <1>1, ConcatProperties
<1>3. CASE expected = None
  <2>1. Push(re, seg) = Pushed(re, "InvalidFragment", <<>>)
    BY <1>3 DEF Push
  <2> QED  BY <2>1 DEF Pushed
<1>4. CASE expected # None /\ seg.seq # expected
  <2>1. Push(re, seg) = Pushed(NewReassembler, "InvalidSequence", <<>>)
    BY <1>4 DEF Push
  <2> QED  BY <2>1, FreshReassembler DEF Pushed
<1>5. CASE expected # None /\ seg.seq = expected
  <2>1. Push(re, seg) = Extended(seg, all)  BY <1>5 DEF Push
  <2>2. (seg.seq + 1) % SeqSpace \in SeqNumber /\ None \notin SeqNumber
    <3>1. seg.seq + 1 \in Nat  BY <1>1 DEF SeqNumber
    <3> QED  BY <3>1, DivMod DEF SeqNumber
  <2>3. [expected |-> (seg.seq + 1) % SeqSpace, buffer |-> all] \in ReassemblerOf(C)
    BY <1>2, <2>2 DEF ReassemblerOf
  <2>4. CASE seg.fin
    BY <2>1, <2>4, <1>2, FreshReassembler DEF Extended, Pushed
  <2>5. CASE ~ seg.fin
    BY <2>1, <2>5, <2>3 DEF Extended, Pushed
  <2> QED  BY <2>4, <2>5, <1>1
<1> QED  BY <1>3, <1>4, <1>5

(* A segment both first and final is handed up at once, in any state.       *)
LEMMA PushSingle ==
  ASSUME NEW C, NEW re, NEW seg \in SegmentOf(C), seg.fir, seg.fin
  PROVE  Push(re, seg) = Pushed(NewReassembler, "complete", seg.payload)
<1>1. seg.seq # None /\ seg.payload \in Seq(C)  BY DEF SegmentOf, SeqNumber
<1>2. <<>> \o seg.payload = seg.payload  BY <1>1, ConcatEmptySeq
<1> QED  BY <1>1, <1>2 DEF Push, Extended

-----------------------------------------------------------------------------
(* `transport_sequence + segments.len() as u8`, masked, counts modulo the   *)
(* sequence space although the u8 wraps: its range is a multiple of it.     *)
LEMMA CountWraps ==
  ASSUME NEW t \in Nat, NEW c \in Nat
  PROVE  CountedOn(t, c) % SeqSpace = (t + c) % SeqSpace
<1> DEFINE d == c % CountSpace
           e == t + d
<1>1. SeqSpace \in Nat /\ SeqSpace > 0 /\ CountSpace \in Nat /\ CountSpace > 0
      /\ CountSpace % SeqSpace = 0
  OBVIOUS
<1>2. d \in Nat /\ d % SeqSpace = c % SeqSpace
  <2>1. c % CountSpace \in 0 .. CountSpace - 1  BY <1>1, DivMod
  <2>2. (c % CountSpace) % SeqSpace = c % SeqSpace  BY <1>1, ModOfMod
  <2> QED  BY <1>1, <2>1, <2>2
<1> HIDE DEF d
<1>3. e \in Nat  BY <1>2
<1>4. CountedOn(t, c) % SeqSpace = e % SeqSpace
  <2>1. CountedOn(t, c) = e % CountSpace  BY DEF CountedOn, d
  <2> HIDE DEF e
  <2>2. (e % CountSpace) % SeqSpace = e % SeqSpace  BY <1>1, <1>3, ModOfMod
  <2> QED  BY <2>1, <2>2
<1>5. (d + t) % SeqSpace = ((d % SeqSpace) + t) % SeqSpace
  BY <1>1, <1>2, ModAdd
<1>6. (c + t) % SeqSpace = ((c % SeqSpace) + t) % SeqSpace
  BY <1>1, ModAdd
<1>7. e = d + t /\ t + c = c + t  BY <1>2
<1> QED  BY <1>2, <1>4, <1>5, <1>6, <1>7

-----------------------------------------------------------------------------
(* R is the answer of n segments, numbered from t on, that carries the      *)
(* application sequence `number` to `destination`.                          *)
IsAnswer(R, n, t, number, destination) ==
    /\ R = [i \in 1 .. n |-> R[i]]
    /\ \A i \in 1 .. n :
          /\ R[i].control.function = "UnconfirmedUserData"
          /\ R[i].destination = destination
          /\ R[i].payload[1].seq = (t + (i - 1)) % SeqSpace
          /\ R[i].payload[1].payload[1].sequence = number

(* Nothing is an answer of no segments.                                     *)
LEMMA NoAnswer ==
  ASSUME NEW t, NEW number, NEW destination
  PROVE  IsAnswer(<<>>, 0, t, number, destination)
BY DEF IsAnswer

(* A response takes at least one segment; each of them goes where the       *)
(* response goes, under its number.                                         *)
LEMMA ResponseFrames ==
  ASSUME NEW response, NEW db, NEW t \in Nat, NEW destination, NEW style
  PROVE  LET app  == Encoded(response, db)
             segs == Fragment(app, t)
         IN  /\ Len(segs) \in Nat \ {0}
             /\ IsAnswer(UserDataFrames(segs, destination, style), Len(segs), t,
                         response.sequence, destination)
<1> DEFINE app == Encoded(response, db)
           n   == IF response.points THEN ResponseChunks ELSE 1
           chunk == IF response.points
                    THEN [function |-> "Response", sequence |-> response.sequence,
                          points |-> {db.points}]
                    ELSE [function |-> "Response", sequence |-> response.sequence,
                          points |-> {}]
           segs == Fragment(app, t)
           R    == UserDataFrames(segs, destination, style)
<1>1. n \in Nat \ {0}  OBVIOUS
<1>2. app = [i \in 1 .. n |-> chunk]
  <2>1. CASE response.points  BY <2>1 DEF Encoded
  <2>2. CASE ~ response.points
    <3>1. app = <<chunk>> /\ n = 1  BY <2>2 DEF Encoded
    <3> HIDE DEF n, chunk, app
    <3>2. <<chunk>> = [i \in 1 .. 1 |-> chunk]  OBVIOUS
    <3> QED  BY <3>1, <3>2
  <2> QED  BY <2>1, <2>2
<1>3. chunk.sequence = response.sequence  OBVIOUS
<1> HIDE DEF n, chunk, app
<1>4. app # <<>> /\ Len(app) = n /\ \A i \in 1 .. n : app[i] = chunk
  BY <1>1, <1>2
<1>5. segs = [i \in 1 .. n |->
                 Segment(i = 1, i = n, t + (i - 1), <<app[i]>>)]
  BY <1>4 DEF Fragment
<1>6. Len(segs) = n /\ DOMAIN segs = 1 .. n  BY <1>1, <1>5
<1>7. \A i \in 1 .. n : /\ segs[i].seq = (t + (i - 1)) % SeqSpace
                        /\ segs[i].payload[1].sequence = response.sequence
  BY <1>3, <1>4, <1>5 DEF Segment
<1> HIDE DEF segs
<1>8. R = [i \in 1 .. n |->
              UnconfirmedUserData(AnswerDirection(style), destination, Own, segs[i])]
  BY <1>6 DEF UserDataFrames
<1>9. ASSUME NEW i \in 1 .. n
      PROVE  /\ R[i].control.function = "UnconfirmedUserData"
             /\ R[i].destination = destination
             /\ R[i].payload[1] = segs[i]
  BY <1>8 DEF UnconfirmedUserData, LinkFrame, Control
<1>10. R = [i \in 1 .. n |-> R[i]]  BY <1>8
<1> HIDE DEF R
<1>11. IsAnswer(R, n, t, response.sequence, destination)
  <2>1. ASSUME NEW i \in 1 .. n
        PROVE  /\ R[i].payload[1].seq = (t + (i - 1)) % SeqSpace
               /\ R[i].payload[1].payload[1].sequence = response.sequence
    BY <1>7, <1>9
  <2> QED  BY <1>9, <1>10, <2>1 DEF IsAnswer
<1> QED  BY <1>1, <1>6, <1>11 DEF R, segs, app

(* The places of the segments in an answer by itself ...                    *)
LEMMA PlacesAlone ==
  ASSUME NEW R, NEW n \in Nat, NEW t, NEW number, NEW destination,
         IsAnswer(R, n, t, number, destination)
  PROVE  /\ SegmentPlaces(R) = 1 .. n
         /\ Cardinality(SegmentPlaces(R)) = n
         /\ \A i \in 1 .. n : SegmentsBefore(R, i) = i - 1
<1>1. DOMAIN R = 1 .. n  BY DEF IsAnswer
<1>2. SegmentPlaces(R) = 1 .. n  BY <1>1 DEF SegmentPlaces, IsAnswer
<1>3. Cardinality(1 .. n) = n  BY FS_Interval
<1>4. ASSUME NEW i \in 1 .. n PROVE SegmentsBefore(R, i) = i - 1
  <2>1. {j \in SegmentPlaces(R) : j < i} = 1 .. i - 1  BY <1>2
  <2>2. Cardinality(1 .. i - 1) = i - 1  BY FS_Interval
  <2> QED  BY <2>1, <2>2 DEF SegmentsBefore
<1> QED  BY <1>2, <1>3, <1>4

IsBehind(Q, ack, R) == ack.control.function = "Ack" /\ Q = <<ack>> \o R

StartsSecond(Q, R, n) ==
    /\ SegmentPlaces(Q) = 2 .. n + 1
    /\ Cardinality(SegmentPlaces(Q)) = n
    /\ \A i \in 1 .. n : Q[i + 1] = R[i] /\ SegmentsBefore(Q, i + 1) = i - 1

(* ... and behind a link acknowledgement.                                   *)
LEMMA PlacesAfterAck ==
  ASSUME NEW R, NEW n \in Nat, NEW t, NEW number, NEW destination,
         IsAnswer(R, n, t, number, destination),
         NEW ack, NEW Q, IsBehind(Q, ack, R)
  PROVE  StartsSecond(Q, R, n)
<1> DEFINE F == {ack} \cup {R[i] : i \in 1 .. n}
<1>1. R \in Seq(F) /\ Len(R) = n
  <2>1. R = [i \in 1 .. n |-> R[i]]  BY DEF IsAnswer
  <2>2. R \in [1 .. n -> F]  BY <2>1
  <2> HIDE DEF F
  <2> QED  BY <2>1, <2>2
<1>2. <<ack>> \in Seq(F) /\ Len(<<ack>>) = 1  OBVIOUS
<1> HIDE DEF F
<1>3. /\ Q \in Seq(F) /\ Len(Q) = 1 + n
      /\ \A i \in 1 .. 1 + n : Q[i] = IF i <= 1 THEN <<ack>>[i] ELSE R[i - 1]
  BY <1>1, <1>2, ConcatProperties DEF IsBehind
<1>4. DOMAIN Q = 1 .. 1 + n  BY <1>3
<1>5. Q[1] = ack  BY <1>3
<1>6. \A i \in 1 .. n : Q[i + 1] = R[i]
  <2> TAKE i \in 1 .. n
  <2>1. i + 1 \in 1 .. 1 + n /\ ~ (i + 1 <= 1) /\ (i + 1) - 1 = i  OBVIOUS
  <2> QED  BY <2>1, <1>3
<1>7. SegmentPlaces(Q) = 2 .. n + 1
  <2>1. \A i \in 2 .. n + 1 : Q[i] = R[i - 1] /\ i - 1 \in 1 .. n  BY <1>3
  <2>2. \A i \in 2 .. n + 1 : Q[i].control.function = "UnconfirmedUserData"
    <3>1. \A j \in 1 .. n : R[j].control.function = "UnconfirmedUserData"
      BY DEF IsAnswer
    <3> TAKE i \in 2 .. n + 1
    <3>2. Q[i] = R[i - 1]  BY <2>1
    <3>3. R[i - 1].control.function = "UnconfirmedUserData"  BY <2>1, <3>1
    <3> QED  BY <3>2, <3>3
  <2>3. \A i \in 1 .. 1 + n : i = 1 \/ i \in 2 .. n + 1  OBVIOUS
  <2>4. 2 .. n + 1 \subseteq 1 .. 1 + n /\ 1 \notin 2 .. n + 1  OBVIOUS
  <2> QED  BY <1>4, <1>5, <2>2, <2>3, <2>4 DEF SegmentPlaces, IsBehind
<1>8. Cardinality(2 .. n + 1) = n  BY FS_Interval
<1>9. ASSUME NEW i \in 1 .. n PROVE SegmentsBefore(Q, i + 1) = i - 1
  <2>1. {j \in SegmentPlaces(Q) : j < i + 1} = 2 .. i  BY <1>7
  <2>2. Cardinality(2 .. i) = i - 1  BY FS_Interval
  <2> QED  BY <2>1, <2>2 DEF SegmentsBefore
<1> QED  BY <1>6, <1>7, <1>8, <1>9 DEF StartsSecond

-----------------------------------------------------------------------------
(* What handle_frame works on and returns.                                  *)
SessionType(C) == [tseq : SeqNumber, re : ReassemblerOf(C)]

IsOutcome(out) ==
    out = Outcome(out.session, out.ok, out.responses, out.request)

(* The session and the request of an outcome hold nothing but elements of C.*)
Holds(out, C) == out.session \in SessionType(C) /\ out.request \in Seq(C)

(* The segments of the outcome are numbered from t on, without a gap, and   *)
(* the session goes on behind them.                                         *)
Numbered(out, t) ==
    /\ Cardinality(SegmentPlaces(out.responses)) \in Nat
    /\ out.session.tseq =
          (t + Cardinality(SegmentPlaces(out.responses))) % SeqSpace
    /\ \A i \in SegmentPlaces(out.responses) :
          out.responses[i].payload[1].seq =
              (t + SegmentsBefore(out.responses, i)) % SeqSpace

(* The outcome of user data: an answer of some length, or of none.          *)
Answered(out, t) ==
    \E n \in Nat : \E number, destination :
        /\ IsAnswer(out.responses, n, t, number, destination)
        /\ out.session.tseq = (t + n) % SeqSpace

Proper(out, C, t) == IsOutcome(out) /\ Holds(out, C) /\ Answered(out, t)

LEMMA SameNumber == ASSUME NEW t \in SeqNumber PROVE (t + 0) % SeqSpace = t
<1>1. t \in Nat /\ t \in 0 .. SeqSpace - 1 /\ t = SeqSpace * 0 + t /\ t + 0 = t
      /\ SeqSpace \in Nat /\ SeqSpace > 0
  BY DEF SeqNumber
<1>2. t % SeqSpace = t  BY <1>1, ModUnique
<1> QED  BY <1>1, <1>2

(* encode_response: the session moves on by what is sent, or not at all.    *)
LEMMA EncodeResponseKeeps ==
  ASSUME NEW C, NEW s \in SessionType(C), NEW data \in Seq(C),
         NEW destination, NEW style, NEW db
  PROVE  Proper(EncodeResponse(s, data, destination, style, db), C, s.tseq)
<1> DEFINE response == HandleApplication(Decode(data))
           segs     == Fragment(Encoded(response, db), s.tseq)
           frames   == UserDataFrames(segs, destination, style)
           out      == EncodeResponse(s, data, destination, style, db)
<1>1. s.tseq \in SeqNumber /\ s.tseq \in Nat /\ s.re \in ReassemblerOf(C)
      /\ s = [tseq |-> s.tseq, re |-> s.re]
  BY DEF SessionType, SeqNumber
<1>2. Len(segs) \in Nat /\ IsAnswer(frames, Len(segs), s.tseq, response.sequence, destination)
  BY <1>1, ResponseFrames
<1>3. CASE response.points /\ ~ db.encodable
  <2>1. out = Outcome(s, FALSE, <<>>, data)  BY <1>3 DEF EncodeResponse
  <2>2. IsAnswer(<<>>, 0, s.tseq, 0, 0) /\ s.tseq = (s.tseq + 0) % SeqSpace
    BY <1>1, NoAnswer, SameNumber
  <2> HIDE DEF out
  <2>3. IsOutcome(out) /\ Holds(out, C)  BY <2>1 DEF Outcome, IsOutcome, Holds
  <2>4. Answered(out, s.tseq)  BY <2>1, <2>2 DEF Outcome, Answered
  <2> QED  BY <2>3, <2>4 DEF out, Proper
<1>4. CASE ~ (response.points /\ ~ db.encodable)
  <2>1. out = Outcome(Advanced(s, segs), TRUE, frames, data)
    BY <1>4 DEF EncodeResponse
  <2>2. Advanced(s, segs) = [tseq |-> (s.tseq + Len(segs)) % SeqSpace, re |-> s.re]
    <3> HIDE DEF segs
    <3>1. CountedOn(s.tseq, Len(segs)) % SeqSpace = (s.tseq + Len(segs)) % SeqSpace
      BY <1>1, <1>2, CountWraps
    <3> QED  BY <1>1, <3>1 DEF Advanced
  <2>3. (s.tseq + Len(segs)) % SeqSpace \in SeqNumber
    <3> HIDE DEF segs
    <3>1. s.tseq + Len(segs) \in Nat  BY <1>1, <1>2
    <3> QED  BY <3>1, DivMod DEF SeqNumber
  <2> HIDE DEF out, segs, frames, response
  <2>4. Advanced(s, segs) \in SessionType(C)
    BY <1>1, <2>2, <2>3 DEF SessionType
  <2>5. IsOutcome(out) /\ Holds(out, C)
    BY <2>1, <2>4 DEF Outcome, IsOutcome, Holds
  <2>6. Answered(out, s.tseq)
    <3>1. out.responses = frames /\ out.session.tseq = (s.tseq + Len(segs)) % SeqSpace
      BY <2>1, <2>2 DEF Outcome
    <3> QED  BY <1>2, <3>1 DEF Answered
  <2> QED  BY <2>5, <2>6 DEF out, Proper
<1> QED  BY <1>3, <1>4

(* An outcome that sends nothing and leaves the numbering alone.            *)
LEMMA QuietOutcome ==
  ASSUME NEW C, NEW s \in SessionType(C), NEW ok, NEW data \in Seq(C)
  PROVE  Proper(Outcome(s, ok, <<>>, data), C, s.tseq)
<1> DEFINE out == Outcome(s, ok, <<>>, data)
<1>1. s.tseq \in SeqNumber  BY DEF SessionType
<1>2. IsAnswer(<<>>, 0, s.tseq, 0, 0) /\ s.tseq = (s.tseq + 0) % SeqSpace
  BY <1>1, NoAnswer, SameNumber
<1>3. IsOutcome(out) /\ Holds(out, C)  BY DEF Outcome, IsOutcome, Holds
<1>4. Answered(out, s.tseq)
  <2>1. out.responses = <<>> /\ out.session = s  BY DEF Outcome
  <2> QED  BY <1>2, <2>1 DEF Answered
<1> QED  BY <1>3, <1>4 DEF Proper

(* handle_user_data: every early return included.                           *)
LEMMA HandleUserDataKeeps ==
  ASSUME NEW C, NEW s \in SessionType(C), NEW f, NEW db,
         f.payload # <<>> => f.payload[1] \in SegmentOf(C)
  PROVE  Proper(HandleUserData(s, f, db), C, s.tseq)
<1> DEFINE out == HandleUserData(s, f, db)
           pushed == Push(s.re, f.payload[1])
           kept == [s EXCEPT !.re = pushed.re]
<1>1. CASE f.payload = <<>>
  <2>1. out = Outcome(s, FALSE, <<>>, <<>>)  BY <1>1 DEF HandleUserData
  <2>2. <<>> \in Seq(C)  OBVIOUS
  <2>3. Proper(Outcome(s, FALSE, <<>>, <<>>), C, s.tseq)  BY <2>2, QuietOutcome
  <2> QED  BY <2>1, <2>3
<1>2. CASE f.payload # <<>>
  <2>1. pushed.re \in ReassemblerOf(C) /\ pushed.data \in Seq(C) /\ <<>> \in Seq(C)
    BY <1>2, PushKeeps DEF SessionType
  <2>2. kept \in SessionType(C) /\ kept.tseq = s.tseq
    <3> HIDE DEF pushed
    <3> QED  BY <2>1 DEF SessionType
  <2>3. out = IF pushed.result \in {"InvalidFragment", "InvalidSequence"}
              THEN Outcome(kept, FALSE, <<>>, <<>>)
              ELSE IF pushed.result = "pending"
              THEN Outcome(kept, TRUE, <<>>, <<>>)
              ELSE IF ~ Decodable(pushed.data) \/ ~ Supported(Decode(pushed.data))
              THEN Outcome(kept, FALSE, <<>>, pushed.data)
              ELSE EncodeResponse(kept, pushed.data, f.source,
                                  f.control.direction, db)
    BY <1>2 DEF HandleUserData
  <2> HIDE DEF out, pushed, kept
  <2>4. /\ Proper(Outcome(kept, FALSE, <<>>, <<>>), C, s.tseq)
        /\ Proper(Outcome(kept, TRUE, <<>>, <<>>), C, s.tseq)
        /\ Proper(Outcome(kept, FALSE, <<>>, pushed.data), C, s.tseq)
    BY <2>1, <2>2, QuietOutcome
  <2>5. Proper(EncodeResponse(kept, pushed.data, f.source, f.control.direction, db),
               C, s.tseq)
    BY <2>1, <2>2, EncodeResponseKeeps
  <2>6. Proper(out, C, s.tseq)  BY <2>3, <2>4, <2>5
  <2> QED  BY <2>6 DEF out
<1> QED  BY <1>1, <1>2

(* An answer by itself is numbered without a gap ...                        *)
LEMMA AnsweredNumbered ==
  ASSUME NEW out, NEW t \in SeqNumber, Answered(out, t)
  PROVE  Numbered(out, t)
<1>1. PICK n \in Nat : \E number, destination :
          /\ IsAnswer(out.responses, n, t, number, destination)
          /\ out.session.tseq = (t + n) % SeqSpace
  BY DEF Answered
<1>2. PICK number, destination :
          /\ IsAnswer(out.responses, n, t, number, destination)
          /\ out.session.tseq = (t + n) % SeqSpace
  BY <1>1
<1> DEFINE R == out.responses
<1>3. /\ SegmentPlaces(R) = 1 .. n
      /\ Cardinality(SegmentPlaces(R)) = n
      /\ \A i \in 1 .. n : SegmentsBefore(R, i) = i - 1
  BY <1>2, PlacesAlone
<1>4. \A i \in 1 .. n : R[i].payload[1].seq = (t + (i - 1)) % SeqSpace
  BY <1>2 DEF IsAnswer
<1> QED  BY <1>2, <1>3, <1>4 DEF Numbered

(* ... and so it is with a link acknowledgement before it.                  *)
LEMMA AcknowledgedNumbered ==
  ASSUME NEW out, NEW t \in SeqNumber, NEW inner, Answered(inner, t),
         NEW ack, ack.control.function = "Ack",
         out.session = inner.session, out.responses = <<ack>> \o inner.responses
  PROVE  Numbered(out, t)
<1> DEFINE R == inner.responses
           Q == out.responses
<1>0. IsBehind(Q, ack, R)  BY DEF IsBehind
<1>1. PICK n \in Nat : \E number, destination :
          /\ IsAnswer(R, n, t, number, destination)
          /\ inner.session.tseq = (t + n) % SeqSpace
  BY DEF Answered
<1>2. PICK number, destination :
          /\ IsAnswer(R, n, t, number, destination)
          /\ inner.session.tseq = (t + n) % SeqSpace
  BY <1>1
<1>a. IsAnswer(R, n, t, number, destination)  BY <1>2
<1> HIDE DEF Q, R
<1>3. /\ SegmentPlaces(Q) = 2 .. n + 1
      /\ Cardinality(SegmentPlaces(Q)) = n
      /\ \A i \in 1 .. n : Q[i + 1] = R[i] /\ SegmentsBefore(Q, i + 1) = i - 1
  <2>1. StartsSecond(Q, R, n)  BY <1>0, <1>a, PlacesAfterAck
  <2> QED  BY <2>1 DEF StartsSecond
<1>4. \A i \in 1 .. n : R[i].payload[1].seq = (t + (i - 1)) % SeqSpace
  BY <1>a DEF IsAnswer
<1>6. ASSUME NEW i \in SegmentPlaces(Q)
      PROVE  Q[i].payload[1].seq = (t + SegmentsBefore(Q, i)) % SeqSpace
  <2>1. PICK j \in 1 .. n : i = j + 1
    <3>1. i - 1 \in 1 .. n /\ i = (i - 1) + 1  BY <1>3
    <3> QED  BY <3>1
  <2> QED  BY <2>1, <1>3, <1>4
<1> QED  BY <1>2, <1>3, <1>6 DEF Numbered, Q

(* Frames that carry no transport segment leave the numbering alone.        *)
LEMMA SilentNumbered ==
  ASSUME NEW out, NEW t \in SeqNumber, out.session.tseq = t,
         \A i \in DOMAIN out.responses :
            out.responses[i].control.function # "UnconfirmedUserData"
  PROVE  Numbered(out, t)
<1>1. SegmentPlaces(out.responses) = {}  BY DEF SegmentPlaces
<1>2. Cardinality(SegmentPlaces(out.responses)) = 0  BY <1>1, FS_EmptySet
<1> QED  BY <1>1, <1>2, SameNumber DEF Numbered

(* ConfirmedUserData: the acknowledgement does not count.                   *)
LEMMA HandleConfirmedKeeps ==
  ASSUME NEW C, NEW s \in SessionType(C), NEW f, NEW db,
         f.payload # <<>> => f.payload[1] \in SegmentOf(C)
  PROVE  /\ Holds(HandleConfirmed(s, f, db), C)
         /\ Numbered(HandleConfirmed(s, f, db), s.tseq)
<1> DEFINE inner == HandleUserData(s, f, db)
           ack == AckWithFcb(f.source, Own, f.control.fcb)
           out == HandleConfirmed(s, f, db)
<1>1. IsOutcome(inner) /\ Holds(inner, C) /\ Answered(inner, s.tseq)
  BY HandleUserDataKeeps DEF Proper
<1>2. s.tseq \in SeqNumber  BY DEF SessionType
<1>3. out = IF ~ inner.ok THEN inner
            ELSE [inner EXCEPT !.responses = <<ack>> \o inner.responses]
  BY DEF HandleConfirmed
<1>4. ack.control.function = "Ack"  BY DEF AckWithFcb, LinkFrame, Control
<1> HIDE DEF inner, ack, out
<1>5. CASE ~ inner.ok
  BY <1>5, <1>1, <1>2, <1>3, AnsweredNumbered DEF out
<1>6. CASE inner.ok
  <2>1. /\ out.session = inner.session /\ out.request = inner.request
        /\ out.responses = <<ack>> \o inner.responses
    BY <1>1, <1>3, <1>6 DEF IsOutcome, Outcome
  <2>2. Holds(out, C)  BY <1>1, <2>1 DEF Holds
  <2>3. Numbered(out, s.tseq)
    BY <1>1, <1>2, <1>4, <2>1, AcknowledgedNumbered
  <2> QED  BY <2>2, <2>3 DEF out
<1> QED  BY <1>5, <1>6

-----------------------------------------------------------------------------
(* The frames an outstation is sent, as handle_frame tells them apart.      *)
LEMMA ConfirmedIs ==
  ASSUME NEW f \in Confirmed
  PROVE  /\ f.destination = Own
         /\ f.control.function = "ConfirmedUserData"
         /\ f.payload # <<>>
         /\ \E seg \in Segments : f.payload = <<seg>>
<1>1. PICK style \in Direction, m \in Masters, fcb \in BOOLEAN, seg \in Segments :
        f = ConfirmedUserData(style, Own, m, fcb, seg)
  BY DEF Confirmed
<1>2. f.payload = <<seg>> /\ <<seg>> # <<>>
  BY <1>1 DEF ConfirmedUserData, LinkFrame
<1>3. f.payload # <<>>  BY <1>2
<1> QED  BY <1>1, <1>2, <1>3 DEF ConfirmedUserData, LinkFrame, Control

LEMMA UnconfirmedIs ==
  ASSUME NEW f \in Unconfirmed
  PROVE  /\ f.destination = Own
         /\ f.control.function = "UnconfirmedUserData"
         /\ f.payload # <<>>
         /\ \E seg \in Segments : f.payload = <<seg>>
<1>1. PICK style \in Direction, m \in Masters, seg \in Segments :
        f = UnconfirmedUserData(style, Own, m, seg)
  BY DEF Unconfirmed
<1>2. f.payload = <<seg>> /\ <<seg>> # <<>>
  BY <1>1 DEF UnconfirmedUserData, LinkFrame
<1>3. f.payload # <<>>  BY <1>2
<1> QED  BY <1>1, <1>2, <1>3 DEF UnconfirmedUserData, LinkFrame, Control

LEMMA UserDataIs ==
  ASSUME NEW f \in UserData
  PROVE  /\ f.destination = Own
         /\ f.control.function \in {"UnconfirmedUserData", "ConfirmedUserData"}
         /\ f.payload # <<>> => f.payload[1] \in SegmentOf(CurrentChunk)
<1>1. ASSUME NEW seg \in Segments PROVE seg \in SegmentOf(CurrentChunk)
  <2>1. PICK fir \in BOOLEAN, fin \in BOOLEAN, seq \in SeqNumber,
             payload \in {<<>>} \cup
                {<<[request |-> r, epoch |-> epoch]>> : r \in Requests} :
                  seg = Segment(fir, fin, seq, payload)
    BY DEF Segments
  <2>2. payload \in Seq(CurrentChunk)
    <3>1. CASE payload = <<>>  BY <3>1
    <3>2. CASE payload # <<>>
      <4>1. PICK r \in Requests : payload = <<[request |-> r, epoch |-> epoch]>>
        BY <3>2
      <4>2. [request |-> r, epoch |-> epoch] \in CurrentChunk  BY DEF CurrentChunk
      <4> QED  BY <4>1, <4>2
    <3> QED  BY <3>1, <3>2
  <2>3. seq % SeqSpace \in SeqNumber
    <3>1. seq \in Nat  BY DEF SeqNumber
    <3> QED  BY <3>1, DivMod DEF SeqNumber
  <2> QED  BY <2>1, <2>2, <2>3 DEF Segment, SegmentOf
<1>2. CASE f \in Confirmed
  <2>1. PICK seg \in Segments : f.payload = <<seg>>  BY <1>2, ConfirmedIs
  <2> QED  BY <2>1, <1>1, <1>2, ConfirmedIs
<1>3. CASE f \in Unconfirmed
  <2>1. PICK seg \in Segments : f.payload = <<seg>>  BY <1>3, UnconfirmedIs
  <2> QED  BY <2>1, <1>1, <1>3, UnconfirmedIs
<1>4. CASE f \in Empty
  <2>1. f.payload = <<>> /\ f.destination = Own
        /\ f.control.function \in {"UnconfirmedUserData", "ConfirmedUserData"}
    BY <1>4 DEF Empty, LinkFrame, Control
  <2> QED  BY <2>1
<1> QED  BY <1>2, <1>3, <1>4 DEF UserData

LEMMA OtherFramesAre ==
  ASSUME NEW f \in OtherFrames
  PROVE  \/ f.destination # Own
         \/ f.control.function \in {"TestLinkStates", "RequestLinkStatus", "Ack"}
<1>1. CASE f \in LinkTests
  BY <1>1 DEF LinkTests, TestLinkStates, LinkFrame, Control
<1>2. CASE f \in StatusRequests
  BY <1>2 DEF StatusRequests, RequestLinkStatus, LinkFrame, Control
<1>3. CASE f \in StrayAcks
  BY <1>3 DEF StrayAcks, AckWithFcb, LinkFrame, Control
<1>4. CASE f \in ResetsElsewhere
  <2>1. PICK style \in Direction, other \in Address \ {Own}, m \in Masters :
          f = ResetLinkStates(style, other, m)
    BY <1>4 DEF ResetsElsewhere
  <2>2. f.destination = other  BY <2>1 DEF ResetLinkStates, LinkFrame
  <2> QED  BY <2>2
<1> QED  BY <1>1, <1>2, <1>3, <1>4 DEF OtherFrames

LEMMA LinkResetsAre ==
  ASSUME NEW f \in LinkResets
  PROVE  f.destination = Own /\ f.control.function = "ResetLinkStates"
BY DEF LinkResets, ResetLinkStates, LinkFrame, Control

(* The handler of each function.                                            *)
LEMMA HandlerOf ==
  ASSUME NEW s, NEW f, NEW db, f.destination = Own
  PROVE  /\ f.control.function = "ResetLinkStates" =>
               HandleFrame(s, f, db) = HandleReset(s, f)
         /\ f.control.function = "UnconfirmedUserData" =>
               HandleFrame(s, f, db) = HandleUserData(s, f, db)
         /\ f.control.function = "ConfirmedUserData" =>
               HandleFrame(s, f, db) = HandleConfirmed(s, f, db)
         /\ f.control.function = "TestLinkStates" =>
               HandleFrame(s, f, db) =
                  Outcome(s, TRUE,
                     <<LegacyAckWithFcb(f.source, Own, f.control.fcb)>>, <<>>)
         /\ f.control.function = "RequestLinkStatus" =>
               HandleFrame(s, f, db) =
                  Outcome(s, TRUE, <<LinkStatus(f.source, Own)>>, <<>>)
         /\ f.control.function = "Ack" =>
               HandleFrame(s, f, db) = Outcome(s, TRUE, <<>>, <<>>)
<1> DEFINE function == f.control.function
           out == HandleFrame(s, f, db)
<1>1. CASE function = "ResetLinkStates"
  BY <1>1 DEF HandleFrame, Ignored, SecondaryFunction
<1>2. CASE function = "UnconfirmedUserData"
  BY <1>2 DEF HandleFrame, Ignored, SecondaryFunction
<1>3. CASE function = "ConfirmedUserData"
  BY <1>3 DEF HandleFrame, Ignored, SecondaryFunction
<1>4. CASE function = "TestLinkStates"
  BY <1>4 DEF HandleFrame, Ignored, SecondaryFunction
<1>5. CASE function = "RequestLinkStatus"
  BY <1>5 DEF HandleFrame, Ignored, SecondaryFunction
<1>6. CASE function = "Ack"
  BY <1>6 DEF HandleFrame, Ignored, SecondaryFunction
<1> QED  BY <1>1, <1>2, <1>3, <1>4, <1>5, <1>6

(* handle_frame keeps the session one that holds nothing from before the    *)
(* last reset, and numbers what it sends, whatever the frame.               *)
LEMMA HandleFrameKeeps ==
  ASSUME NEW s \in SessionType(CurrentChunk), NEW db,
         NEW f \in UserData \cup OtherFrames
  PROVE  /\ Holds(HandleFrame(s, f, db), CurrentChunk)
         /\ Numbered(HandleFrame(s, f, db), s.tseq)
<1> DEFINE out == HandleFrame(s, f, db)
           C == CurrentChunk
           function == f.control.function
<1>0. s.tseq \in SeqNumber  BY DEF SessionType
<1>1. CASE f \in UserData /\ function = "UnconfirmedUserData"
  <2>1. out = HandleUserData(s, f, db)  BY <1>1, UserDataIs, HandlerOf
  <2>2. Proper(out, C, s.tseq)  BY <1>1, <2>1, UserDataIs, HandleUserDataKeeps
  <2> QED  BY <2>2, <1>0, AnsweredNumbered DEF Proper
<1>2. CASE f \in UserData /\ function = "ConfirmedUserData"
  <2>1. out = HandleConfirmed(s, f, db)  BY <1>2, UserDataIs, HandlerOf
  <2> QED  BY <1>2, <2>1, UserDataIs, HandleConfirmedKeeps
<1>3. CASE f \in OtherFrames
  <2>1. \E r : /\ out = Outcome(s, TRUE, r, <<>>)
               /\ \A i \in DOMAIN r : r[i].control.function # "UnconfirmedUserData"
    <3>1. CASE f.destination # Own
      <4>1. out = Outcome(s, TRUE, <<>>, <<>>)  BY <3>1 DEF HandleFrame
      <4>2. \A i \in DOMAIN <<>> : FALSE  OBVIOUS
      <4> HIDE DEF out
      <4> QED  BY <4>1, <4>2
    <3>2. CASE f.destination = Own /\ function = "TestLinkStates"
      <4> DEFINE a == LegacyAckWithFcb(f.source, Own, f.control.fcb)
      <4>1. out = Outcome(s, TRUE, <<a>>, <<>>)  BY <3>2, HandlerOf
      <4>2. a.control.function = "Ack"  BY DEF LegacyAckWithFcb, LinkFrame, Control
      <4> HIDE DEF a
      <4>3. \A i \in DOMAIN <<a>> : <<a>>[i] = a  OBVIOUS
      <4> QED  BY <4>1, <4>2, <4>3
    <3>3. CASE f.destination = Own /\ function = "RequestLinkStatus"
      <4> DEFINE a == LinkStatus(f.source, Own)
      <4>1. out = Outcome(s, TRUE, <<a>>, <<>>)  BY <3>3, HandlerOf
      <4>2. a.control.function = "LinkStatus"  BY DEF LinkStatus, LinkFrame, Control
      <4> HIDE DEF a
      <4>3. \A i \in DOMAIN <<a>> : <<a>>[i] = a  OBVIOUS
      <4> QED  BY <4>1, <4>2, <4>3
    <3>4. CASE f.destination = Own /\ function = "Ack"
      <4>1. out = Outcome(s, TRUE, <<>>, <<>>)  BY <3>4, HandlerOf
      <4>2. \A i \in DOMAIN <<>> : FALSE  OBVIOUS
      <4> HIDE DEF out
      <4> QED  BY <4>1, <4>2
    <3> QED  BY <1>3, <3>1, <3>2, <3>3, <3>4, OtherFramesAre
  <2>2. PICK r : /\ out = Outcome(s, TRUE, r, <<>>)
                 /\ \A i \in DOMAIN r : r[i].control.function # "UnconfirmedUserData"
    BY <2>1
  <2> HIDE DEF out
  <2>3. out.session = s /\ out.responses = r /\ out.request = <<>>
    BY <2>2 DEF Outcome
  <2>4. Holds(out, C)  BY <2>3 DEF Holds
  <2>5. Numbered(out, s.tseq)  BY <1>0, <2>2, <2>3, SilentNumbered
  <2> QED  BY <2>4, <2>5 DEF out
<1> QED  BY <1>1, <1>2, <1>3, UserDataIs

-----------------------------------------------------------------------------
(* The invariant, said with the types of this module.                       *)
SessionOK ==
    /\ session \in SessionType(CurrentChunk)
    /\ encodable \in BOOLEAN
    /\ epoch \in 0 .. MaxResets
    /\ next \in SeqNumber
    /\ session.tseq = next

LEMMA SessionOfInvariant == IInv <=> SessionOK
<1> DEFINE re == session.re
<1>1. ASSUME IInv PROVE session \in SessionType(CurrentChunk)
  <2>1. /\ session = [tseq |-> session.tseq, re |-> re]
        /\ session.tseq \in SeqNumber
        /\ re \in [expected : SeqNumber \cup {None}, buffer : Seq(Chunk)]
        /\ re.expected = None => re.buffer = <<>>
        /\ re.buffer \in Seq(CurrentChunk)
    BY <1>1 DEF IInv, TypeOK
  <2> HIDE DEF re
  <2>2. re \in ReassemblerOf(CurrentChunk)  BY <2>1 DEF ReassemblerOf
  <2> QED  BY <2>1, <2>2 DEF SessionType
<1>2. ASSUME SessionOK PROVE IInv
  <2> USE DEF SessionOK
  <2>1. CurrentChunk \subseteq Chunk  BY <1>2 DEF CurrentChunk, Chunk
  <2>2. session = [tseq |-> session.tseq, re |-> re] /\ re \in ReassemblerOf(CurrentChunk)
    BY <1>2 DEF SessionType
  <2> HIDE DEF re
  <2>3. /\ re.expected \in SeqNumber \cup {None} /\ re.buffer \in Seq(CurrentChunk)
        /\ re = [expected |-> re.expected, buffer |-> re.buffer]
        /\ re.expected = None => re.buffer = <<>>
    BY <2>2 DEF ReassemblerOf
  <2>4. re.buffer \in Seq(Chunk)  BY <2>1, <2>3
  <2>5. session \in [tseq : SeqNumber,
                     re : [expected : SeqNumber \cup {None}, buffer : Seq(Chunk)]]
    BY <1>2, <2>2, <2>3, <2>4
  <2>6. re = session.re  BY DEF re
  <2> QED  BY <1>2, <2>3, <2>5, <2>6 DEF IInv, TypeOK
<1> QED  BY <1>1, <1>2 DEF IInv, TypeOK, SessionOK

LEMMA InitEstablishes == Init => IInv
<1> SUFFICES ASSUME Init PROVE IInv
  OBVIOUS
<1>1. 0 \in SeqNumber  BY DEF SeqNumber
<1>2. session \in SessionType(CurrentChunk) /\ session.tseq = 0
  BY <1>1, FreshReassembler DEF Init, NewSession, SessionType
<1> QED  BY <1>1, <1>2, SessionOfInvariant DEF Init, SessionOK

(* A link reset leaves nothing behind, and a new epoch begins.              *)
LEMMA LinkResetKeeps ==
  ASSUME IInv, NEW f \in LinkResets, ReceiveLinkReset(f)
  PROVE  IInv'
<1>1. session' = NewSession
  <2>1. HandleFrame(session, f, database) = HandleReset(session, f)
    BY LinkResetsAre, HandlerOf
  <2> QED  BY <2>1 DEF ReceiveLinkReset, HandleReset, Outcome
<1>2. 0 \in SeqNumber  BY DEF SeqNumber
<1>3. session' \in SessionType(CurrentChunk)' /\ session'.tseq = 0
  <2>1. NewReassembler \in ReassemblerOf(CurrentChunk')  BY FreshReassembler
  <2> QED  BY <2>1, <1>1, <1>2 DEF NewSession, SessionType, ReassemblerOf
<1>4. encodable' \in BOOLEAN /\ epoch' \in 0 .. MaxResets /\ next' = 0
  BY SessionOfInvariant DEF ReceiveLinkReset, SessionOK
<1>5. SessionOK'  BY <1>2, <1>3, <1>4 DEF SessionOK
<1> QED  BY <1>5, SessionOfInvariant, PTL

(* Any other frame: what is kept is of this epoch, and the numbering goes   *)
(* on behind the segments sent.                                             *)
LEMMA FrameKeeps ==
  ASSUME IInv, NEW f \in UserData \cup OtherFrames, Receive(f)
  PROVE  IInv'
<1> DEFINE out == HandleFrame(session, f, database)
           n == Cardinality(SegmentPlaces(out.responses))
<1>1. SessionOK  BY SessionOfInvariant
<1>2. Holds(out, CurrentChunk) /\ Numbered(out, session.tseq)
  BY <1>1, HandleFrameKeeps DEF SessionOK
<1>3. session' = out.session /\ next' = (next + n) % SeqSpace
      /\ UNCHANGED <<encodable, epoch>>
  BY DEF Receive
<1>4. n \in Nat /\ session'.tseq = (next + n) % SeqSpace
  BY <1>1, <1>2, <1>3 DEF Numbered, SessionOK
<1>5. next' \in SeqNumber
  <2> HIDE DEF n
  <2>1. next + n \in Nat  BY <1>1, <1>4 DEF SessionOK, SeqNumber
  <2> QED  BY <1>3, <2>1, DivMod DEF SeqNumber
<1>6. CurrentChunk' = CurrentChunk  BY <1>3 DEF CurrentChunk
<1>7. session' \in SessionType(CurrentChunk)'
  <2> HIDE DEF out
  <2> QED  BY <1>2, <1>3, <1>6 DEF Holds, SessionType, ReassemblerOf
<1>8. SessionOK'
  BY <1>1, <1>3, <1>4, <1>5, <1>7 DEF SessionOK
<1> QED  BY <1>8, SessionOfInvariant, PTL

(* The database outgrowing the encoding is nothing to the session, and      *)
(* neither is a step that changes nothing.                                  *)
LEMMA SessionUntouchedKeeps ==
  ASSUME IInv, UNCHANGED <<session, epoch, next>>, encodable' \in BOOLEAN
  PROVE  IInv'
BY DEF IInv, TypeOK, CurrentChunk

(* The outstation keeps the invariant for ever.                             *)
THEOREM Invariance == Spec => []IInv
<1>1. IInv /\ [Next]_vars => IInv'
  <2> SUFFICES ASSUME IInv, [Next]_vars PROVE IInv'
    OBVIOUS
  <2>1. CASE \E f \in LinkResets : ReceiveLinkReset(f)  BY <2>1, LinkResetKeeps
  <2>2. CASE \E f \in UserData \cup OtherFrames : Receive(f)  BY <2>2, FrameKeeps
  <2>3. CASE OutgrowEncoding
    BY <2>3, SessionUntouchedKeeps DEF OutgrowEncoding
  <2>4. CASE UNCHANGED vars
    BY <2>4, SessionUntouchedKeeps DEF vars, IInv, TypeOK
  <2> QED  BY <2>1, <2>2, <2>3, <2>4 DEF Next
<1> QED  BY <1>1, InitEstablishes, PTL DEF Spec

(* The fields keep their types, `transport_sequence` its six bits, and a    *)
(* reassembler that waits for a FIR has collected nothing.                  *)
THEOREM TypeCorrectness == Spec => []TypeOK
<1>1. IInv => TypeOK  BY DEF IInv
<1> QED  BY <1>1, Invariance, PTL

(* No request reaches across a link reset: handle_frame drops with          *)
(* ResetLinkStates everything collected before it.                          *)
THEOREM ResetsIsolate == Spec => []ResetIsolation
<1>1. IInv => ResetIsolation
  <2> SUFFICES ASSUME IInv, NEW f \in UserData,
                      NEW i \in DOMAIN HandleFrame(session, f, database).request
               PROVE  HandleFrame(session, f, database).request[i].epoch = epoch
    BY DEF ResetIsolation
  <2> DEFINE request == HandleFrame(session, f, database).request
  <2>1. request \in Seq(CurrentChunk)
    BY SessionOfInvariant, HandleFrameKeeps DEF SessionOK, Holds
  <2> HIDE DEF request
  <2>2. request[i] \in CurrentChunk  BY <2>1 DEF request
  <2>3. request[i].epoch = epoch  BY <2>2 DEF CurrentChunk
  <2> QED  BY <2>3 DEF request
<1> QED  BY <1>1, Invariance, PTL

(* The segments sent since the last link reset are numbered one after the   *)
(* other through all answers, failed ones and acknowledgements included,    *)
(* although the sequence is advanced in a u8 that wraps.                    *)
THEOREM NumberingHasNoGap == Spec => []ResponsesNumbered
<1>1. IInv => ResponsesNumbered
  <2> SUFFICES ASSUME IInv, NEW f \in UserData \cup OtherFrames
               PROVE  LET responses == HandleFrame(session, f, database).responses
                      IN  \A i \in SegmentPlaces(responses) :
                             responses[i].payload[1].seq =
                                 (next + SegmentsBefore(responses, i)) % SeqSpace
    BY DEF ResponsesNumbered
  <2>1. SessionOK  BY SessionOfInvariant
  <2>2. Numbered(HandleFrame(session, f, database), next)
    BY <2>1, HandleFrameKeeps DEF SessionOK
  <2> QED  BY <2>2 DEF Numbered
<1> QED  BY <1>1, Invariance, PTL

-----------------------------------------------------------------------------
(* encode_response answers a request that it can answer.                    *)
LEMMA EncodeResponseAnswers ==
  ASSUME NEW C, NEW s \in SessionType(C), NEW data, NEW destination, NEW style,
         NEW db, db.encodable \/ ~ HandleApplication(Decode(data)).points
  PROVE  LET out == EncodeResponse(s, data, destination, style, db)
         IN  /\ out.ok
             /\ \E n \in Nat \ {0} :
                   IsAnswer(out.responses, n, s.tseq, Decode(data).sequence, destination)
<1> DEFINE response == HandleApplication(Decode(data))
           segs     == Fragment(Encoded(response, db), s.tseq)
           frames   == UserDataFrames(segs, destination, style)
           out      == EncodeResponse(s, data, destination, style, db)
<1>1. s.tseq \in Nat  BY DEF SessionType, SeqNumber
<1>2. Len(segs) \in Nat \ {0}
      /\ IsAnswer(frames, Len(segs), s.tseq, response.sequence, destination)
  BY <1>1, ResponseFrames
<1>3. out = Outcome(Advanced(s, segs), TRUE, frames, data)
  BY DEF EncodeResponse
<1>4. response.sequence = Decode(data).sequence  BY DEF HandleApplication
<1> HIDE DEF response, segs, frames, out
<1>5. out.ok /\ out.responses = frames  BY <1>3 DEF Outcome
<1> QED  BY <1>2, <1>4, <1>5 DEF out

(* No history leaves the outstation deaf: FIR restarts any reassembly, so a *)
(* supported request in one segment is answered in every state.             *)
THEOREM NeverDeafForever == Spec => []NeverDeaf
<1>1. IInv => NeverDeaf
  <2> SUFFICES ASSUME IInv, NEW f \in Unconfirmed \cup Confirmed,
                      f.payload[1].fir, f.payload[1].fin,
                      Decodable(f.payload[1].payload),
                      Supported(Decode(f.payload[1].payload)),
                      encodable \/ ~ HandleApplication(Decode(f.payload[1].payload)).points
               PROVE  \E i \in DOMAIN HandleFrame(session, f, database).responses :
                        LET answer == HandleFrame(session, f, database).responses[i]
                        IN  /\ answer.destination = f.source
                            /\ answer.control.function = "UnconfirmedUserData"
                            /\ answer.payload[1].payload[1].sequence =
                                  Decode(f.payload[1].payload).sequence
    BY DEF NeverDeaf
  <2> DEFINE seg == f.payload[1]
             data == seg.payload
             C == CurrentChunk
             kept == [session EXCEPT !.re = NewReassembler]
             inner == HandleUserData(session, f, database)
             out == HandleFrame(session, f, database)
             number == Decode(data).sequence
  <2>1. session \in SessionType(C)  BY SessionOfInvariant DEF SessionOK
  <2>2. f \in UserData /\ f.payload # <<>>
    <3>1. f \in UserData  BY DEF UserData
    <3> QED  BY <3>1, ConfirmedIs, UnconfirmedIs
  <2>3. seg \in SegmentOf(C)  BY <2>2, UserDataIs
  <2>4. Push(session.re, seg) = Pushed(NewReassembler, "complete", data)
    BY <2>3, PushSingle
  <2>5. inner = EncodeResponse(kept, data, f.source, f.control.direction, database)
    <3> HIDE DEF seg, data
    <3>1. /\ Push(session.re, f.payload[1]).result = "complete"
          /\ Push(session.re, f.payload[1]).data = data
          /\ Push(session.re, f.payload[1]).re = NewReassembler
      BY <2>4 DEF Pushed, seg
    <3>2. Decodable(data) /\ Supported(Decode(data))  BY DEF data, seg
    <3> QED  BY <2>2, <3>1, <3>2 DEF HandleUserData
  <2>6. kept \in SessionType(C)  BY <2>1, FreshReassembler DEF SessionType
  <2>7. database.encodable \/ ~ HandleApplication(Decode(data)).points
    BY DEF database
  <2> HIDE DEF seg, data, kept
  <2>8. inner.ok /\ \E n \in Nat \ {0} :
            IsAnswer(inner.responses, n, kept.tseq, number, f.source)
    BY <2>5, <2>6, <2>7, EncodeResponseAnswers
  <2>9. PICK n \in Nat \ {0} :
            IsAnswer(inner.responses, n, kept.tseq, number, f.source)
    BY <2>8
  <2>10. /\ inner.responses[1].control.function = "UnconfirmedUserData"
         /\ inner.responses[1].destination = f.source
         /\ inner.responses[1].payload[1].payload[1].sequence = number
         /\ 1 \in DOMAIN inner.responses
    <3>1. ASSUME NEW R, NEW t, NEW num, IsAnswer(R, n, t, num, f.source)
          PROVE  /\ R[1].control.function = "UnconfirmedUserData"
                 /\ R[1].destination = f.source
                 /\ R[1].payload[1].payload[1].sequence = num
                 /\ 1 \in DOMAIN R
      <4>1. 1 \in 1 .. n  OBVIOUS
      <4>2. DOMAIN R = 1 .. n  BY <3>1 DEF IsAnswer
      <4> QED  BY <3>1, <4>1, <4>2 DEF IsAnswer
    <3> HIDE DEF inner, number
    <3> QED  BY <2>9, <3>1
  <2>11. CASE f.control.function = "UnconfirmedUserData"
    <3>1. out = inner  BY <2>2, <2>11, UserDataIs, HandlerOf
    <3> QED  BY <2>10, <3>1 DEF data, seg
  <2>12. CASE f.control.function = "ConfirmedUserData"
    <3> DEFINE ack == AckWithFcb(f.source, Own, f.control.fcb)
    <3>1. out = HandleConfirmed(session, f, database)
      BY <2>2, <2>12, UserDataIs, HandlerOf
    <3>2. IsOutcome(inner)
      BY <2>1, <2>2, <2>3, HandleUserDataKeeps DEF Proper, seg
    <3> HIDE DEF inner, out
    <3>3. out.responses = <<ack>> \o inner.responses
      BY <2>8, <3>1, <3>2 DEF HandleConfirmed, IsOutcome, Outcome, inner
    <3>4. IsBehind(out.responses, ack, inner.responses)
      BY <3>3 DEF IsBehind, AckWithFcb, LinkFrame, Control
    <3>5. StartsSecond(out.responses, inner.responses, n)
      BY <2>9, <3>4, PlacesAfterAck
    <3>6. out.responses[2] = inner.responses[1] /\ 2 \in DOMAIN out.responses
      <4>1. 1 \in 1 .. n /\ 1 + 1 = 2 /\ 2 \in 2 .. n + 1  OBVIOUS
      <4> QED  BY <3>5, <4>1 DEF StartsSecond, SegmentPlaces
    <3> QED  BY <2>10, <3>6 DEF data, seg, out
  <2> QED  BY <2>2, <2>11, <2>12, UserDataIs
<1> QED  BY <1>1, Invariance, PTL
=============================================================================
