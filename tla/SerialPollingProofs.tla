------------------------ MODULE SerialPollingProofs ------------------------
(***************************************************************************)
(* Proofs about SerialPolling: of an operator who starts the master again  *)
(* on a quiet line only, whatever the line, the outstation and the         *)
(* database do, however often, and however long a response is.             *)
(***************************************************************************)
EXTENDS SerialPolling, PollTrafficProofs

USE SeqSpaceAssumption, NoneAssumption

-----------------------------------------------------------------------------
(* How the order on the line loosens.                                       *)
LEMMA Widened ==
  ASSUME NEW A, NEW L, NEW P, NEW Q, NEW A2, NEW L2, NEW P2, NEW Q2,
         Ordered(A, L, P, Q),
         A \subseteq A2, L \subseteq A2 \cup L2, P \subseteq P2, Q \subseteq P2 \cup Q2
  PROVE  Ordered(A2, L2, P2, Q2)
BY OrderlyWidens DEF Ordered

LoosePoll == Ordered(AnyAnswer(db), {}, AnyPoll, {})

Loose == Ordered(AnyAnswer(db) \cup Acks, {}, AnyPoll \cup {Reset, Test}, {})

LEMMA PollLoosens ==
  ASSUME IInv, pc \in {"sleep", "sendPoll", "awaitPoll", "sendReset", "sendTest"}
  PROVE  LoosePoll
<1>0. request \in AppSequence /\ db \in Nat /\ asked \in 0 .. db  BY DEF IInv, TypeOK
<1>1. CASE pc \in {"sleep", "sendPoll", "sendTest"}
  <2>1. Ordered({}, {}, {}, {})  BY <1>1 DEF IInv, Traffic
  <2> QED  BY <2>1, Widened DEF LoosePoll
<1>2. CASE pc = "sendReset"  BY <1>2 DEF IInv, Traffic, LoosePoll
<1>3. CASE pc = "awaitPoll" /\ Unanswered
  <2>1. PollFrames(request) \subseteq AnyPoll  BY <1>0 DEF AnyPoll
  <2>2. Ordered({}, {}, {}, PollFrames(request))  BY <1>3 DEF Unanswered
  <2>3. PollFrames(request) \subseteq AnyPoll \cup {}  BY <2>1
  <2> QED  BY <2>2, <2>3, Widened DEF LoosePoll
<1>4. ASSUME NEW start \in SeqNumber, NEW v \in Reported(asked, db), Answered(start, v)
      PROVE  LoosePoll
  <2> DEFINE B == AnswerBody(request, start, v)
             E == AnswerEnd(request, start, v)
  <2>1. Ordered(B, E, {}, {})  BY <1>4 DEF Answered
  <2>2. v \in Reported(0, db)  BY <1>0 DEF Reported
  <2>3. B \subseteq AnyAnswer(db) /\ E \subseteq AnyAnswer(db) \cup {}
    BY <1>0, <2>2, AnswersAny
  <2> HIDE DEF B, E
  <2> QED  BY <2>1, <2>3, Widened DEF LoosePoll
<1>5. pc = "awaitPoll" =>
        Unanswered \/ \E start \in SeqNumber, v \in Reported(asked, db) : Answered(start, v)
  BY DEF IInv, Traffic
<1> QED  BY <1>1, <1>2, <1>3, <1>4, <1>5

LEMMA Loosens ==
  ASSUME IInv
  PROVE  Loose
<1>1. CASE pc \in {"sleep", "sendPoll", "awaitPoll", "sendReset", "sendTest"}
  <2>1. Ordered(AnyAnswer(db), {}, AnyPoll, {})  BY <1>1, PollLoosens DEF LoosePoll
  <2> QED  BY <2>1, Widened DEF Loose
<1>2. CASE pc = "awaitReset"
  <2>1. Ordered(AnyAnswer(db), Acks, AnyPoll, {Reset})  BY <1>2 DEF IInv, Traffic
  <2> QED  BY <2>1, Widened DEF Loose
<1>3. CASE pc = "awaitTest"
  <2>1. Ordered({}, Acks, {}, {Test})  BY <1>3 DEF IInv, Traffic
  <2> QED  BY <2>1, Widened DEF Loose
<1>4. CASE pc = "stopped"  BY <1>4 DEF IInv, Traffic, Loose
<1> QED  BY <1>1, <1>2, <1>3, <1>4 DEF IInv, TypeOK, Startup

(* The three lines are sequences.                                           *)
Frames ==
    {Noise, Reset, Test} \cup Stray \cup AnyPoll \cup AnyAnswer(db) \cup Acks

LEMMA Lines ==
  ASSUME IInv
  PROVE  o2m \in Seq(Frames) /\ m2o \in Seq(Frames) /\ outq \in Seq(Frames)
<1> DEFINE A == AnyAnswer(db) \cup Acks
           P == AnyPoll \cup {Reset, Test}
           H == Stray \cup {Noise}
<1>1. Orderly(H, {Noise}, o2m, outq, m2o, A, {}, P, {})
  BY Loosens DEF Loose, Ordered
<1>2. /\ H \cup A \cup {} \subseteq Frames
      /\ A \cup {} \subseteq Frames
      /\ {Noise} \cup P \cup {} \subseteq Frames
  BY DEF Frames
<1> HIDE DEF A, P, H
<1>3. /\ o2m \in Seq(H \cup A \cup {}) /\ outq \in Seq(A \cup {})
      /\ m2o \in Seq({Noise} \cup P \cup {})
  BY <1>1 DEF Orderly
<1> QED  BY <1>2, <1>3, SeqWidens

-----------------------------------------------------------------------------
(* Steps that leave what is on its way in the order it was.                 *)
Before(A, L, P, Q) ==
    Orderly(Stray \cup {Noise}, {Noise}, o2m, outq, m2o, A, L, P, Q)

After(A, L, P, Q) ==
    Orderly(Stray \cup {Noise}, {Noise}, o2m', outq', m2o', A, L, P, Q)

KeepsOrder == \A A, L, P, Q : Before(A, L, P, Q) => After(A, L, P, Q)

LEMMA WearKeepsOrder ==
  ASSUME Worn(o2m', o2m, {Noise}), Worn(m2o', m2o, {Noise}), outq' = outq
  PROVE  KeepsOrder
<1> SUFFICES ASSUME NEW A, NEW L, NEW P, NEW Q, Before(A, L, P, Q)
             PROVE  After(A, L, P, Q)
  BY DEF KeepsOrder
<1> DEFINE H == Stray \cup {Noise}
<1>1. {Noise} \subseteq H  OBVIOUS
<1>2. Orderly(H, {Noise}, o2m, outq, m2o, A, L, P, Q)  BY DEF Before
<1> HIDE DEF H
<1>3. Orderly(H, {Noise}, o2m', outq, m2o, A, L, P, Q)
  BY <1>1, <1>2, BackWorn
<1>4. Orderly(H, {Noise}, o2m', outq, m2o', A, L, P, Q)
  BY <1>1, <1>3, OutWorn
<1> QED  BY <1>4 DEF After, H

LEMMA SameWorn ==
  ASSUME IInv
  PROVE  /\ Worn(o2m, o2m, {Noise})
         /\ Worn(m2o, m2o, {Noise})
BY Lines, WornSame

LEMMA SuffixWorn ==
  ASSUME NEW S, NEW line \in Seq(S), NEW new \in Suffixes(line)
  PROVE  Worn(new, line, {Noise})
<1>1. CASE new = <<>>  BY <1>1, WornAway
<1>2. ASSUME NEW k \in 1 .. Len(line), new = SubSeq(line, k, Len(line))
      PROVE  Worn(new, line, {Noise})
  <2>1. k \in 1 .. Len(line) + 1  OBVIOUS
  <2> QED  BY <1>2, <2>1, WornRest
<1> QED  BY <1>1, <1>2 DEF Suffixes

LEMMA AfterNoiseWorn ==
  ASSUME NEW S, NEW line \in Seq(S), line # <<>>, NEW new \in AfterNoise(line)
  PROVE  Worn(new, line, {Noise})
<1> DEFINE rests == Suffixes(Tail(line))
           n     == Len(line)
<1>1. n \in Nat /\ n >= 1 /\ Tail(line) \in Seq(S) /\ Len(Tail(line)) = n - 1
  OBVIOUS
<1>2. ASSUME NEW k \in 1 .. n - 1
      PROVE  SubSeq(Tail(line), k, n - 1) = SubSeq(line, k + 1, n)
  <2>1. k + 1 \in 2 .. n + 1  BY <1>1
  <2> QED  BY <1>1, <2>1
<1>3. \A rest \in rests :
         rest = <<>> \/ \E k \in 1 .. n : rest = SubSeq(line, k, n)
  <2> SUFFICES ASSUME NEW rest \in rests, rest # <<>>
               PROVE  \E k \in 1 .. n : rest = SubSeq(line, k, n)
    OBVIOUS
  <2>1. PICK k \in 1 .. n - 1 : rest = SubSeq(Tail(line), k, n - 1)
    BY <1>1 DEF Suffixes
  <2>2. k + 1 \in 1 .. n  BY <1>1
  <2> HIDE DEF n
  <2> QED  BY <2>1, <2>2, <1>2
<1>4. CASE new \in rests
  <2>1. CASE new = <<>>  BY <2>1, WornAway
  <2>2. ASSUME NEW k \in 1 .. n, new = SubSeq(line, k, n)
        PROVE  Worn(new, line, {Noise})
    <3>1. k \in 1 .. Len(line) + 1  BY <1>1
    <3> QED  BY <2>2, <3>1, WornRest
  <2> QED  BY <2>1, <2>2, <1>3, <1>4
<1>5. ASSUME NEW rest \in rests, rest # <<>>, new = <<Noise>> \o Tail(rest)
      PROVE  Worn(new, line, {Noise})
  <2>1. PICK k \in 1 .. n : rest = SubSeq(line, k, n)  BY <1>3, <1>5
  <2>2. Noise \in {Noise}  OBVIOUS
  <2> QED  BY <1>5, <2>1, <2>2, WornHead
<1>6. new \in rests \/ \E rest \in rests \ {<<>>} : new = <<Noise>> \o Tail(rest)
  BY DEF AfterNoise
<1> QED  BY <1>4, <1>5, <1>6

LEMMA AfterTimeoutWorn ==
  ASSUME NEW S, o2m \in Seq(S), NEW new \in AfterTimeout
  PROVE  Worn(new, o2m, {Noise})
<1>1. \/ new = <<>>
      \/ new = o2m
      \/ o2m # <<>> /\ new = <<Noise>> \o Tail(o2m)
      \/ o2m # <<>> /\ new = Tail(o2m)
  BY DEF AfterTimeout
<1>2. CASE new = <<>>  BY <1>2, WornAway
<1>3. CASE new = o2m  BY <1>3, WornSame
<1>4. CASE o2m # <<>> /\ new = <<Noise>> \o Tail(o2m)
  <2>1. SubSeq(o2m, 1, Len(o2m)) = o2m /\ 1 \in 1 .. Len(o2m)  BY <1>4
  <2>2. Noise \in {Noise}  OBVIOUS
  <2>3. Worn(<<Noise>> \o Tail(SubSeq(o2m, 1, Len(o2m))), o2m, {Noise})
    BY <2>1, <2>2, WornHead
  <2> QED  BY <1>4, <2>1, <2>3
<1>5. CASE o2m # <<>> /\ new = Tail(o2m)  BY <1>5, WornTail
<1> QED  BY <1>1, <1>2, <1>3, <1>4, <1>5

LEMMA DisturbedWorn ==
  ASSUME NEW S, NEW line \in Seq(S), NEW new \in Disturbed(line)
  PROVE  Worn(new, line, {Noise})
<1>1. \/ \E i \in DOMAIN line : new = ReplaceAt(line, i, Noise)
      \/ \E i \in DOMAIN line : new = RemoveAt(line, i)
  BY DEF Disturbed
<1>2. Noise \in {Noise}  OBVIOUS
<1>3. ASSUME NEW i \in DOMAIN line, new = ReplaceAt(line, i, Noise)
      PROVE  Worn(new, line, {Noise})
  BY <1>2, <1>3, WornPlace DEF ReplaceAt
<1>4. ASSUME NEW i \in DOMAIN line, new = RemoveAt(line, i)
      PROVE  Worn(new, line, {Noise})
  BY <1>4, WornGap DEF RemoveAt
<1> QED  BY <1>1, <1>3, <1>4

-----------------------------------------------------------------------------
(* The traffic after each step.  First, steps that leave the master alone.  *)
LEMMA StillReported ==
  ASSUME NEW v, v \in Reported(asked, db), db \in Nat, asked \in 0 .. db,
         UNCHANGED asked, db' = db \/ db' = db + 1
  PROVE  v \in Reported(asked, db)'
<1>1. asked .. db \subseteq asked' .. db'  OBVIOUS
<1>2. Reported(asked, db) \subseteq Reported(asked', db')  BY <1>1 DEF Reported
<1> QED  BY <1>2

LEMMA TrafficKept ==
  ASSUME IInv, KeepsOrder, UNCHANGED <<pc, master, request, asked>>,
         db' = db \/ db' = db + 1
  PROVE  Traffic'
<1>1. /\ db \in Nat /\ db' \in Nat /\ db <= db' /\ asked \in 0 .. db
      /\ request \in AppSequence
  BY DEF IInv, TypeOK
<1>2. AnyAnswer(db) \subseteq AnyAnswer(db')  BY <1>1, AnswersGrow
<1>3. CASE pc \in {"sendTest", "sleep", "sendPoll"}
  <2>1. After({}, {}, {}, {})
    BY <1>3 DEF IInv, Traffic, Ordered, KeepsOrder, Before
  <2>2. Ordered({}, {}, {}, {})'  BY <2>1 DEF After, Ordered
  <2>3. pc = "sendPoll" => master.re = NewReassembler  BY DEF IInv, Traffic
  <2> QED  BY <1>3, <2>2, <2>3 DEF Traffic
<1>4. CASE pc = "sendReset"
  <2>1. After(AnyAnswer(db), {}, AnyPoll, {})
    BY <1>4 DEF IInv, Traffic, Ordered, KeepsOrder, Before
  <2>2. After(AnyAnswer(db'), {}, AnyPoll, {})
    BY <2>1, <1>2, OrderlyWidens DEF After
  <2> QED  BY <1>4, <2>2 DEF Traffic, Ordered, After
<1>5. CASE pc = "awaitReset"
  <2>1. After(AnyAnswer(db), Acks, AnyPoll, {Reset})
    BY <1>5 DEF IInv, Traffic, Ordered, KeepsOrder, Before
  <2>2. After(AnyAnswer(db'), Acks, AnyPoll, {Reset})
    BY <2>1, <1>2, OrderlyWidens DEF After
  <2> QED  BY <1>5, <2>2 DEF Traffic, Ordered, After
<1>6. CASE pc = "awaitTest"
  <2>1. After({}, Acks, {}, {Test})
    BY <1>6 DEF IInv, Traffic, Ordered, KeepsOrder, Before
  <2> QED  BY <1>6, <2>1 DEF Traffic, Ordered, After
<1>7. CASE pc = "awaitPoll" /\ Unanswered
  <2>1. After({}, {}, {}, PollFrames(request))
    BY <1>7 DEF Unanswered, Ordered, KeepsOrder, Before
  <2>2. Unanswered'  BY <1>7, <2>1 DEF Unanswered, Ordered, After
  <2> QED  BY <1>7, <2>2 DEF Traffic
<1>8. ASSUME pc = "awaitPoll", NEW start \in SeqNumber, NEW v \in Reported(asked, db),
             Answered(start, v)
      PROVE  Traffic'
  <2>1. After(AnswerBody(request, start, v), AnswerEnd(request, start, v), {}, {})
    BY <1>8 DEF Answered, Ordered, KeepsOrder, Before
  <2>2. Answered(start, v)'  BY <1>8, <2>1 DEF Answered, Ordered, After
  <2>3. v \in Reported(asked, db)'  BY <1>1, StillReported
  <2> QED  BY <1>8, <2>2, <2>3 DEF Traffic
<1>9. CASE pc = "stopped"
  <2>1. After(AnyAnswer(db) \cup Acks, {}, AnyPoll \cup {Reset, Test}, {})
    BY <1>9 DEF IInv, Traffic, Ordered, KeepsOrder, Before
  <2>2. AnyAnswer(db) \cup Acks \subseteq AnyAnswer(db') \cup Acks  BY <1>2
  <2>3. After(AnyAnswer(db') \cup Acks, {}, AnyPoll \cup {Reset, Test}, {})
    BY <2>1, <2>2, OrderlyWidens DEF After
  <2> QED  BY <1>9, <2>3 DEF Traffic, Ordered, After
<1>10. pc = "awaitPoll" =>
        Unanswered \/ \E start \in SeqNumber, v \in Reported(asked, db) : Answered(start, v)
  BY DEF IInv, Traffic
<1> QED  BY <1>3, <1>4, <1>5, <1>6, <1>7, <1>8, <1>9, <1>10 DEF IInv, TypeOK, Startup

(* A call that fails.                                                       *)
LEMMA FailTraffic ==
  ASSUME IInv, KeepsOrder, Fail, pc \in Sending \cup Waiting, UNCHANGED db
  PROVE  Traffic'
<1>1. CASE pc \in Startup
  <2>1. pc' = "stopped"  BY <1>1 DEF Fail
  <2>2. After(AnyAnswer(db) \cup Acks, {}, AnyPoll \cup {Reset, Test}, {})
    BY Loosens DEF Loose, Ordered, KeepsOrder, Before
  <2> QED  BY <2>1, <2>2 DEF Traffic, Ordered, After
<1>2. CASE pc \notin Startup
  <2>1. pc' = "sendReset" /\ pc \in {"sendPoll", "awaitPoll"}
    BY <1>2 DEF Fail, Startup, Sending, Waiting
  <2>2. After(AnyAnswer(db), {}, AnyPoll, {})
    BY <2>1, PollLoosens DEF LoosePoll, Ordered, KeepsOrder, Before
  <2> QED  BY <2>1, <2>2 DEF Traffic, Ordered, After
<1> QED  BY <1>1, <1>2

-----------------------------------------------------------------------------
(* The steps of the master.                                                 *)
LEMMA BeginPollTraffic ==
  ASSUME IInv, BeginPoll
  PROVE  Traffic'
<1>1. master'.re = NewReassembler
  <2>1. /\ master = [aseq |-> master.aseq, tseq |-> master.tseq, re |-> master.re]
        /\ master.aseq \in AppSequence /\ master.tseq \in SeqNumber
    BY DEF IInv, TypeOK, AppSequence
  <2>2. StartPoll(master, Style, Own).master.re = NewReassembler
    <3> DEFINE next == [aseq |-> (master.aseq + 1) % AppSeqSpace,
                        tseq |-> (master.tseq + 1) % SeqSpace,
                        re   |-> NewReassembler]
    <3>1. StartPoll(master, Style, Own).master = next  BY <2>1, BegunPoll
    <3>2. next.re = NewReassembler  OBVIOUS
    <3> QED  BY <3>1, <3>2
  <2> QED  BY <2>2 DEF BeginPoll
<1>2. Ordered({}, {}, {}, {})  BY DEF BeginPoll, IInv, Traffic
<1>3. Ordered({}, {}, {}, {})'
  BY <1>2 DEF BeginPoll, outstationVars, Ordered
<1> QED  BY <1>1, <1>3 DEF BeginPoll, Traffic

LEMMA WriteTraffic ==
  ASSUME IInv, Write
  PROVE  Traffic'
<1> DEFINE H == Stray \cup {Noise}
           N == {Noise}
<1>1. UNCHANGED <<o2m, outq, db, master, asked, request>>
      /\ m2o' = Append(m2o, FrameToSend)
  BY DEF Write, outstationVars
<1>2. CASE pc = "sendReset"
  <2>1. FrameToSend = Reset /\ pc' = "awaitReset"
    BY <1>2 DEF Write, FrameToSend, AfterSending, Reset
  <2>2. Ordered(AnyAnswer(db), {}, AnyPoll, {})  BY <1>2 DEF IInv, Traffic
  <2>3. Orderly(H, N, o2m, outq, m2o', AnyAnswer(db), {}, AnyPoll, {Reset})
    BY <1>1, <2>1, <2>2, RequestSent DEF Ordered
  <2>4. Orderly(H, N, o2m, outq, m2o', AnyAnswer(db), Acks, AnyPoll, {Reset})
    BY <2>3, OrderlyWidens
  <2> QED  BY <1>1, <2>1, <2>4 DEF Traffic, Ordered
<1>3. CASE pc = "sendTest"
  <2>1. FrameToSend = Test /\ pc' = "awaitTest"
    BY <1>3 DEF Write, FrameToSend, AfterSending, Test
  <2>2. Ordered({}, {}, {}, {})  BY <1>3 DEF IInv, Traffic
  <2>3. Orderly(H, N, o2m, outq, m2o', {}, {}, {}, {Test})
    BY <1>1, <2>1, <2>2, RequestSent DEF Ordered
  <2>4. Orderly(H, N, o2m, outq, m2o', {}, Acks, {}, {Test})
    BY <2>3, OrderlyWidens
  <2> QED  BY <1>1, <2>1, <2>4 DEF Traffic, Ordered
<1>4. CASE pc = "sendPoll"
  <2> DEFINE f == FrameToSend
  <2>1. pc' = "awaitPoll"  BY <1>4 DEF Write, AfterSending
  <2>2. f \in PollFrames(request)
    <3>1. f = PollFrame(request, master.tseq + SeqSpace - 1)
      BY <1>4 DEF FrameToSend, PollFrame
    <3>2. master.tseq + SeqSpace - 1 \in 0 .. 2 * SeqSpace
      BY DEF IInv, TypeOK, SeqNumber
    <3> QED  BY <3>1, <3>2 DEF PollFrames
  <2>3. Ordered({}, {}, {}, {}) /\ master.re = NewReassembler
    BY <1>4 DEF IInv, Traffic
  <2> HIDE DEF f
  <2>4. Orderly(H, N, o2m, outq, m2o', {}, {}, {}, {f})
    BY <1>1, <2>3, RequestSent DEF Ordered, f
  <2>5. {f} \subseteq {} \cup PollFrames(request)  BY <2>2
  <2>6. Orderly(H, N, o2m, outq, m2o', {}, {}, {}, PollFrames(request))
    BY <2>4, <2>5, OrderlyWidens
  <2>7. Unanswered'  BY <1>1, <2>3, <2>6 DEF Unanswered, Ordered
  <2> QED  BY <2>1, <2>7 DEF Traffic
<1> QED  BY <1>2, <1>3, <1>4 DEF Write, Sending

(* What is read while link startup waits.                                   *)
TailKeepsOrder == o2m # <<>> /\ o2m' = Tail(o2m) /\ UNCHANGED <<m2o, outq>>

LEMMA TailKeeps ==
  ASSUME IInv, TailKeepsOrder
  PROVE  KeepsOrder
<1>1. Worn(o2m', o2m, {Noise})  BY Lines, WornTail DEF TailKeepsOrder
<1>2. Worn(m2o', m2o, {Noise})  BY SameWorn DEF TailKeepsOrder
<1> QED  BY <1>1, <1>2, WearKeepsOrder DEF TailKeepsOrder

LEMMA AckTraffic ==
  ASSUME IInv, Read, LinkAnswer(Head(o2m))
  PROVE  Traffic'
<1> DEFINE f == Head(o2m)
           H == Stray \cup {Noise}
<1>1. o2m # <<>> /\ o2m' = Tail(o2m) /\ UNCHANGED <<m2o, outq, db>> /\ f # Noise
  BY DEF Read, outstationVars
<1>2. db \in Nat  BY DEF IInv, TypeOK
<1>3. CASE ~ IsLinkAck(f)
  <2>1. Fail /\ pc \in Waiting  BY <1>3 DEF LinkAnswer, Waiting
  <2> QED  BY <2>1, <1>1, TailKeeps, FailTraffic DEF TailKeepsOrder
<1>4. CASE IsLinkAck(f)
  <2>1. \A g \in Stray : ~ IsLinkAck(g)  BY StrayAssumption
  <2>2. f \notin H  BY <1>1, <1>4, <2>1
  <2>3. f \notin AnyAnswer(db)  BY <1>2, <1>4, AnswersAre
  <2>4. ASSUME NEW A, NEW P, NEW Q, Ordered(A, Acks, P, Q), f \notin A
        PROVE  Orderly(H, {Noise}, o2m', outq', m2o', {}, {}, {}, {})
    <3>1. Orderly(H, {Noise}, o2m, outq, m2o, A, Acks, P, Q)  BY <2>4 DEF Ordered
    <3>2. f \notin H \cup A  BY <2>2, <2>4
    <3> HIDE DEF H
    <3>3. Orderly(H, {Noise}, Tail(o2m), outq, m2o, {}, {}, {}, {})
      BY <1>1, <3>1, <3>2, AfterLast
    <3> QED  BY <1>1, <3>3
  <2>5. CASE pc = "awaitReset"
    <3>1. Ordered(AnyAnswer(db), Acks, AnyPoll, {Reset})
      BY <2>5 DEF IInv, Traffic
    <3>2. Orderly(H, {Noise}, o2m', outq', m2o', {}, {}, {}, {})
      BY <2>3, <2>4, <3>1
    <3>3. pc' = "sendTest"  BY <1>4, <2>5 DEF LinkAnswer
    <3> QED  BY <3>2, <3>3 DEF Traffic, Ordered
  <2>6. CASE pc = "awaitTest"
    <3>1. Ordered({}, Acks, {}, {Test})  BY <2>6 DEF IInv, Traffic
    <3>2. Orderly(H, {Noise}, o2m', outq', m2o', {}, {}, {}, {})
      BY <2>4, <3>1
    <3>3. pc' = "sleep"  BY <1>4, <2>6 DEF LinkAnswer
    <3> QED  BY <3>2, <3>3 DEF Traffic, Ordered
  <2> QED  BY <2>5, <2>6 DEF LinkAnswer
<1> QED  BY <1>3, <1>4

(* What is read while a poll waits: a frame of another station, or one of   *)
(* the answer to this very poll.                                            *)
AnswerTo(f, start, v) ==
    /\ Answered(start, v)
    /\ \E j \in 1 .. ResponseChunks : f = AnswerFrame(request, start, v, j)

LEMMA NextAnswer ==
  ASSUME IInv, pc = "awaitPoll", o2m # <<>>, Head(o2m) # Noise
  PROVE  \/ Head(o2m) \in Stray
         \/ \E start \in SeqNumber, v \in Reported(asked, db) : AnswerTo(Head(o2m), start, v)
<1> DEFINE f == Head(o2m)
           H == Stray \cup {Noise}
<1>1. CASE Unanswered
  <2>1. o2m \in Seq(H \cup {} \cup {})  BY <1>1 DEF Unanswered, Ordered, Orderly
  <2>2. f \in H \cup {} \cup {}  BY <2>1
  <2> QED  BY <2>2
<1>2. ASSUME NEW start \in SeqNumber, NEW v \in Reported(asked, db), Answered(start, v),
             f \notin Stray
      PROVE  AnswerTo(f, start, v)
  <2> DEFINE B == AnswerBody(request, start, v)
             E == AnswerEnd(request, start, v)
  <2>1. o2m \in Seq(H \cup B \cup E)  BY <1>2 DEF Answered, Ordered, Orderly
  <2> HIDE DEF B, E
  <2>2. f \in H \cup B \cup E  BY <2>1
  <2>3. f \in B \cup E  BY <1>2, <2>2
  <2>4. \E j \in 1 .. ResponseChunks : f = AnswerFrame(request, start, v, j)
    BY <2>3, ResponseAssumption DEF AnswerBody, AnswerEnd, B, E
  <2> QED  BY <1>2, <2>4 DEF AnswerTo
<1> QED  BY <1>1, <1>2 DEF IInv, Traffic

(* The poll goes on, or its answer does not decode, or this was the last    *)
(* frame of its answer, and nothing of it is left on the line.              *)
PollGoesOn(start, v) ==
    /\ Answered(start, v)
    /\ UNCHANGED <<pc, view, outcome>>
    /\ master' = [master EXCEPT !.re = master'.re]
    /\ Collecting(master'.re, Chunk(request, v), start, ResponseChunks)

PollFails ==
    /\ master' = [master EXCEPT !.re = NewReassembler]
    /\ pc' = "sendReset" /\ outcome' = "failed" /\ view' = view

PollIsAnswered(v) ==
    /\ master' = [master EXCEPT !.re = NewReassembler]
    /\ pc' = "sleep" /\ outcome' = "ok" /\ view' = v.version /\ v.decodable
    /\ Answer \in Seq({Chunk(request, v)}) /\ Answer # <<>>
    /\ ResponseChunks <= SeqSpace + 1 => Len(Answer) = ResponseChunks
    /\ Ordered({}, {}, {}, {})'

PollStep ==
    \/ UNCHANGED <<pc, view, outcome, master>>
    \/ PollFails
    \/ \E start \in SeqNumber, v \in Reported(asked, db) : PollGoesOn(start, v)
    \/ \E v \in Reported(asked, db) : PollIsAnswered(v)

LEMMA StrayRead ==
  ASSUME IInv, Read, PollAnswer(Head(o2m)), Head(o2m) \in Stray
  PROVE  UNCHANGED <<pc, view, outcome, master>>
<1>1. Head(o2m).destination # Master  BY StrayAssumption
<1> DEFINE r == ReceiveApplication(master, Head(o2m))
<1>2. r = Reception(master, "continue", <<>>)  BY <1>1 DEF ReceiveApplication
<1> HIDE DEF r
<1>3. r.result = "continue" /\ r.master = master  BY <1>2 DEF Reception
<1> QED  BY <1>3 DEF PollAnswer, r

LEMMA AnswerRead ==
  ASSUME IInv, Read, PollAnswer(Head(o2m)), Head(o2m) \notin Stray,
         NEW start \in SeqNumber, NEW v \in Reported(asked, db),
         AnswerTo(Head(o2m), start, v)
  PROVE  PollStep
<1> DEFINE f == Head(o2m)
           c == Chunk(request, v)
           r == ReceiveApplication(master, f)
<1>1. PICK j \in 1 .. ResponseChunks : f = AnswerFrame(request, start, v, j)
  BY DEF AnswerTo
<1>2. Answered(start, v)  BY DEF AnswerTo
<1>3. Receives(master, r, request, start, v, j)
  <2>1. master = [aseq |-> master.aseq, tseq |-> master.tseq, re |-> master.re]
    BY DEF IInv
  <2> QED  BY <1>1, <1>2, <2>1, ReceivedAnswer DEF Answered
<1>4. o2m # <<>> /\ o2m' = Tail(o2m) /\ UNCHANGED <<m2o, outq, db, request, asked>>
      /\ f # Noise
  BY DEF Read, outstationVars
<1> HIDE DEF r
<1>5. CASE r.result = "continue"
  <2>1. /\ r.master = [master EXCEPT !.re = r.master.re]
        /\ Collecting(r.master.re, c, start, ResponseChunks)
    BY <1>3, <1>5 DEF Receives
  <2>2. master' = r.master /\ UNCHANGED <<pc, view, outcome>>
    BY <1>5 DEF PollAnswer, r
  <2>3. PollGoesOn(start, v)  BY <1>2, <2>1, <2>2 DEF PollGoesOn
  <2> QED  BY <2>3 DEF PollStep
<1>6. CASE r.result = "answer"
  <2>1. /\ j = ResponseChunks
        /\ r.master = [master EXCEPT !.re = NewReassembler]
        /\ r.data \in Seq({c}) /\ r.data # <<>>
        /\ ResponseChunks <= SeqSpace + 1 => Len(r.data) = ResponseChunks
        /\ v.decodable
    BY <1>3, <1>6 DEF Receives
  <2>2. /\ master' = r.master
        /\ view' \in {list.version : list \in r.data[1].points}
        /\ pc' = "sleep" /\ outcome' = "ok"
    BY <1>6 DEF PollAnswer, r
  <2>3. view' = v.version
    <3> DEFINE d == r.data
    <3>1. d \in Seq({c}) /\ d # <<>>  BY <2>1
    <3> HIDE DEF d, c
    <3>2. d[1] = c  BY <3>1
    <3>3. c.points = {v}  BY DEF c, Chunk
    <3> QED  BY <2>2, <3>2, <3>3 DEF d
  <2>4. Ordered({}, {}, {}, {})'
    <3> DEFINE B == AnswerBody(request, start, v)
               E == AnswerEnd(request, start, v)
               H == Stray \cup {Noise}
    <3>1. f \notin B
      <4>1. f \in E  BY <1>1, <2>1 DEF AnswerEnd
      <4> QED  BY <4>1, EndIsNotBody
    <3>2. f \notin H \cup B  BY <1>4, <3>1
    <3>3. Orderly(H, {Noise}, o2m, outq, m2o, B, E, {}, {})
      BY <1>2 DEF Answered, Ordered
    <3> HIDE DEF B, E, H
    <3>4. Orderly(H, {Noise}, Tail(o2m), outq, m2o, {}, {}, {}, {})
      BY <1>4, <3>2, <3>3, AfterLast
    <3> QED  BY <1>4, <3>4 DEF Ordered, H
  <2>5. Answer = r.data  BY DEF Answer, r
  <2>6. PollIsAnswered(v)
    BY <2>1, <2>2, <2>3, <2>4, <2>5 DEF PollIsAnswered
  <2> QED  BY <2>6 DEF PollStep
<1>7. CASE r.result = "error"
  <2>1. r.master = [master EXCEPT !.re = NewReassembler]
    BY <1>3, <1>7 DEF Receives
  <2>2. master' = r.master /\ pc' = "sendReset" /\ outcome' = "failed" /\ view' = view
    BY <1>7 DEF PollAnswer, r
  <2>3. PollFails  BY <2>1, <2>2 DEF PollFails
  <2> QED  BY <2>3 DEF PollStep
<1> QED  BY <1>3, <1>5, <1>6, <1>7 DEF Receives

LEMMA PollRead ==
  ASSUME IInv, Read, PollAnswer(Head(o2m))
  PROVE  PollStep
<1>1. pc = "awaitPoll" /\ o2m # <<>> /\ Head(o2m) # Noise  BY DEF Read, PollAnswer
<1>2. CASE Head(o2m) \in Stray  BY <1>2, StrayRead DEF PollStep
<1>3. CASE Head(o2m) \notin Stray
  <2>1. PICK start \in SeqNumber, v \in Reported(asked, db) : AnswerTo(Head(o2m), start, v)
    BY <1>1, <1>3, NextAnswer
  <2> QED  BY <2>1, <1>3, AnswerRead
<1> QED  BY <1>2, <1>3

LEMMA ReadTraffic ==
  ASSUME IInv, Read
  PROVE  Traffic'
<1>1. o2m # <<>> /\ o2m' = Tail(o2m) /\ UNCHANGED <<m2o, outq, db, request, asked>>
  BY DEF Read, outstationVars
<1>2. CASE LinkAnswer(Head(o2m))  BY <1>2, AckTraffic
<1>3. CASE PollAnswer(Head(o2m))
  <2>1. KeepsOrder  BY <1>1, TailKeeps DEF TailKeepsOrder
  <2>2. pc = "awaitPoll"  BY <1>3 DEF PollAnswer
  <2>3. CASE UNCHANGED <<pc, view, outcome, master>>
    BY <1>1, <2>1, <2>3, TrafficKept
  <2>4. ASSUME NEW start \in SeqNumber, NEW v \in Reported(asked, db), PollGoesOn(start, v)
        PROVE  Traffic'
    <3>1. After(AnswerBody(request, start, v), AnswerEnd(request, start, v), {}, {})
      BY <2>1, <2>4 DEF PollGoesOn, Answered, Ordered, KeepsOrder, Before
    <3>2. Answered(start, v)'
      BY <1>1, <2>4, <3>1 DEF PollGoesOn, Answered, Ordered, After
    <3>3. v \in Reported(asked, db)' /\ pc' = "awaitPoll"
      BY <1>1, <2>2, <2>4 DEF PollGoesOn
    <3> QED  BY <3>2, <3>3 DEF Traffic
  <2>5. ASSUME NEW v, PollIsAnswered(v) PROVE Traffic'
    BY <2>5 DEF PollIsAnswered, Traffic
  <2>6. CASE PollFails
    <3>1. After(AnyAnswer(db), {}, AnyPoll, {})
      BY <2>1, <2>2, PollLoosens DEF LoosePoll, Ordered, KeepsOrder, Before
    <3> QED  BY <1>1, <2>6, <3>1 DEF PollFails, Traffic, Ordered, After
  <2> QED  BY <1>3, <2>3, <2>4, <2>5, <2>6, PollRead DEF PollStep
<1> QED  BY <1>2, <1>3 DEF Read

LEMMA ReadNoiseTraffic ==
  ASSUME IInv, ReadNoise
  PROVE  Traffic'
<1>1. UNCHANGED <<m2o, outq, db>> /\ o2m # <<>> /\ o2m' \in AfterNoise(o2m)
      /\ Fail /\ pc \in Waiting
  BY DEF ReadNoise, outstationVars
<1>2. Worn(o2m', o2m, {Noise})  BY <1>1, Lines, AfterNoiseWorn
<1>3. KeepsOrder  BY <1>1, <1>2, SameWorn, WearKeepsOrder
<1> QED  BY <1>1, <1>3, FailTraffic

LEMMA TimeoutTraffic ==
  ASSUME IInv, Timeout
  PROVE  Traffic'
<1>1. UNCHANGED <<m2o, outq, db>> /\ o2m' \in AfterTimeout /\ Fail /\ pc \in Waiting
  BY DEF Timeout, outstationVars
<1>2. Worn(o2m', o2m, {Noise})  BY <1>1, Lines, AfterTimeoutWorn
<1>3. KeepsOrder  BY <1>1, <1>2, SameWorn, WearKeepsOrder
<1> QED  BY <1>1, <1>3, FailTraffic

LEMMA WriteFailsTraffic ==
  ASSUME IInv, WriteFails
  PROVE  Traffic'
<1>1. UNCHANGED <<m2o, o2m, outq, db>> /\ Fail /\ pc \in Sending
  BY DEF WriteFails, outstationVars
<1>2. KeepsOrder  BY <1>1, SameWorn, WearKeepsOrder
<1> QED  BY <1>1, <1>2, FailTraffic

(* Started again on a quiet line, the master meets nothing of before.       *)
LEMMA StartAgainTraffic ==
  ASSUME IInv, StartAgain, Patient
  PROVE  Traffic'
<1> DEFINE H == Stray \cup {Noise}
<1>1. /\ o2m \in {<<>>, <<Noise>>} /\ m2o \in {<<>>, <<Noise>>} /\ outq = <<>>
      /\ o2m' \in Suffixes(o2m) /\ m2o' = m2o /\ outq' = outq /\ pc' = "sendReset"
  BY DEF StartAgain, Quiet, outstationVars
<1>2. o2m \in Seq(H) /\ m2o \in Seq({Noise})
  <2>1. <<Noise>> \in Seq({Noise}) /\ <<>> \in Seq({Noise})  OBVIOUS
  <2>2. {Noise} \subseteq H  OBVIOUS
  <2> HIDE DEF H
  <2>3. o2m \in Seq({Noise}) /\ m2o \in Seq({Noise})  BY <1>1, <2>1
  <2> QED  BY <2>2, <2>3, SeqWidens
<1>3. Orderly(H, {Noise}, o2m, <<>>, m2o, {}, {}, {}, {})  BY <1>2, Clear
<1>4. Worn(o2m', o2m, {Noise})  BY <1>1, <1>2, SuffixWorn
<1>5. {Noise} \subseteq H  OBVIOUS
<1> HIDE DEF H
<1>6. Orderly(H, {Noise}, o2m', <<>>, m2o, {}, {}, {}, {})
  BY <1>3, <1>4, <1>5, BackWorn
<1>7. Orderly(H, {Noise}, o2m', <<>>, m2o, AnyAnswer(db'), {}, AnyPoll, {})
  BY <1>6, OrderlyWidens
<1> QED  BY <1>1, <1>7 DEF Traffic, Ordered, H

-----------------------------------------------------------------------------
(* The steps of the outstation.                                             *)
LEMMA PointsNow ==
  ASSUME IInv
  PROVE  \E p \in Reported(asked, db), encodable \in BOOLEAN :
            /\ p \in Reported(0, db)
            /\ Database(db, contents) = [points |-> p, encodable |-> encodable]
<1> DEFINE p         == [version |-> db, decodable |-> contents = "readable"]
           encodable == contents # "unencodable"
<1>1. db \in asked .. db /\ db \in 0 .. db  BY DEF IInv, TypeOK
<1>2. (contents = "readable") \in BOOLEAN /\ encodable \in BOOLEAN  OBVIOUS
<1>3. p \in Reported(asked, db) /\ p \in Reported(0, db)  BY <1>1, <1>2 DEF Reported
<1>4. Database(db, contents) = [points |-> p, encodable |-> encodable]  BY DEF Database
<1> HIDE DEF p, encodable
<1> QED  BY <1>2, <1>3, <1>4

LEMMA AnyPollHandled ==
  ASSUME IInv, Head(m2o) \in AnyPoll
  PROVE  Handled.session \in Session /\ Handled.responses \in Seq(AnyAnswer(db))
<1>1. PICK number \in AppSequence : Head(m2o) \in PollFrames(number)  BY DEF AnyPoll
<1>2. session \in Session /\ session.tseq \in SeqNumber
  BY DEF IInv, TypeOK, Session
<1>p. PICK p \in Reported(0, db), encodable \in BOOLEAN :
         Database(db, contents) = [points |-> p, encodable |-> encodable]
  BY PointsNow
<1>3. /\ Handled.session \in Session
      /\ encodable => Handled.responses = WholeAnswer(number, session.tseq, p)
      /\ ~ encodable => Handled.responses = <<>>
  BY <1>1, <1>2, <1>p, HandledPoll DEF Handled
<1>4. AnswerBody(number, session.tseq, p) \cup AnswerEnd(number, session.tseq, p)
        \subseteq AnyAnswer(db)
  BY <1>2, AnswersAny
<1>5. WholeAnswer(number, session.tseq, p) \in Seq(AnyAnswer(db))
  <2> DEFINE w    == WholeAnswer(number, session.tseq, p)
             some == AnswerBody(number, session.tseq, p)
                        \cup AnswerEnd(number, session.tseq, p)
  <2>1. w \in Seq(some)  BY WholeAnswerIs
  <2>2. some \subseteq AnyAnswer(db)  BY <1>4
  <2> HIDE DEF w, some
  <2>3. w \in Seq(AnyAnswer(db))  BY <2>1, <2>2, SeqWidens
  <2> QED  BY <2>3 DEF w
<1>6. <<>> \in Seq(AnyAnswer(db))  OBVIOUS
<1> QED  BY <1>3, <1>5, <1>6

LEMMA LinkHandled ==
  ASSUME IInv, Head(m2o) \in {Reset, Test}
  PROVE  /\ Handled.session \in Session
         /\ Handled.responses \in Seq(Acks) /\ Len(Handled.responses) = 1
<1>1. session \in Session  BY DEF IInv, Session
<1> QED  BY <1>1, HandledReset, HandledTest DEF Handled

(* The frame read is one the master has sent.                               *)
LEMMA NextRequest ==
  ASSUME IInv, m2o # <<>>, Head(m2o) # Noise,
         NEW A, NEW L, NEW P, NEW Q, Ordered(A, L, P, Q)
  PROVE  Head(m2o) \in P \cup Q
<1>1. m2o \in Seq({Noise} \cup P \cup Q)  BY DEF Ordered, Orderly
<1>2. Head(m2o) \in {Noise} \cup P \cup Q  BY <1>1
<1> QED  BY <1>2

LEMMA NextFrame ==
  ASSUME IInv, m2o # <<>>, Head(m2o) # Noise
  PROVE  Head(m2o) \in AnyPoll \cup {Reset, Test}
<1>1. Head(m2o) \in AnyPoll \cup {Reset, Test} \cup {}
  BY Loosens, NextRequest DEF Loose
<1> QED  BY <1>1

LEMMA SessionAfter ==
  ASSUME IInv, ServerRead
  PROVE  session' \in Session
<1>1. session' = Handled.session /\ m2o # <<>> /\ Head(m2o) # Noise
  BY DEF ServerRead, ServerHasFrame
<1> QED  BY <1>1, NextFrame, AnyPollHandled, LinkHandled

(* A request that may come at any time, and the last one.                   *)
LEMMA AfterRequest ==
  ASSUME IInv, ServerRead, NEW A, NEW L, NEW P, NEW Q, Ordered(A, L, P, Q),
         Handled.responses \in Seq(A)
  PROVE  After(A, L, P, Q)
<1> DEFINE H == Stray \cup {Noise}
           R == Handled.responses
<1>1. /\ outq = <<>> /\ m2o # <<>> /\ Head(m2o) \notin {Noise}
      /\ m2o' = Tail(m2o) /\ o2m' = o2m /\ outq' = R
  BY DEF ServerRead, ServerHasFrame
<1>2. Orderly(H, {Noise}, o2m, outq, m2o, A, L, P, Q)  BY DEF Ordered
<1>3. R \in Seq(A)  OBVIOUS
<1> HIDE DEF H, R
<1>4. Orderly(H, {Noise}, o2m, R, Tail(m2o), A, L, P, Q)
  BY <1>1, <1>2, <1>3, RequestHandled
<1> QED  BY <1>1, <1>4 DEF After, H

LEMMA AfterLastRequest ==
  ASSUME IInv, ServerRead, NEW A, NEW L, NEW P, NEW Q, Ordered(A, L, P, Q),
         Head(m2o) \notin P, NEW A2, NEW L2, A \subseteq A2,
         Handled.responses \in Seq(A2 \cup L2),
         \A i \in DOMAIN Handled.responses :
            Handled.responses[i] \in A2 \/ i = Len(Handled.responses)
  PROVE  After(A2, L2, {}, {})
<1> DEFINE H == Stray \cup {Noise}
           R == Handled.responses
<1>1. /\ outq = <<>> /\ m2o # <<>> /\ Head(m2o) \notin {Noise}
      /\ m2o' = Tail(m2o) /\ o2m' = o2m /\ outq' = R
  BY DEF ServerRead, ServerHasFrame
<1>2. Orderly(H, {Noise}, o2m, outq, m2o, A, L, P, Q)  BY DEF Ordered
<1>3. R \in Seq(A2 \cup L2) /\ \A i \in DOMAIN R : R[i] \in A2 \/ i = Len(R)
  OBVIOUS
<1> HIDE DEF H, R
<1>4. Orderly(H, {Noise}, o2m, R, Tail(m2o), A2, L2, {}, {})
  BY <1>1, <1>2, <1>3, LastHandled
<1> QED  BY <1>1, <1>4 DEF After, H

LEMMA AfterAck ==
  ASSUME IInv, ServerRead, Head(m2o) \in {Reset, Test},
         NEW A, NEW L, NEW P, NEW Q, Ordered(A, L, P, Q), Head(m2o) \notin P
  PROVE  After(A, Acks, P, Q)
<1> DEFINE R == Handled.responses
<1>1. R \in Seq(Acks) /\ Len(R) = 1  BY LinkHandled
<1>2. R \in Seq(A \cup Acks)
  <2>1. Acks \subseteq A \cup Acks  OBVIOUS
  <2> HIDE DEF R
  <2> QED  BY <1>1, <2>1, SeqWidens
<1>3. \A i \in DOMAIN R : i = Len(R)
  <2> HIDE DEF R
  <2> QED  BY <1>1
<1>4. After(A, Acks, {}, {})  BY <1>2, <1>3, AfterLastRequest
<1> QED  BY <1>4, OrderlyWidens DEF After

LEMMA ServerReadTraffic ==
  ASSUME IInv, ServerRead
  PROVE  Traffic'
<1> DEFINE f == Head(m2o)
           R == Handled.responses
<1>1. /\ UNCHANGED <<pc, master, request, asked, db>> /\ m2o # <<>> /\ f # Noise
  BY DEF ServerRead, ServerHasFrame, masterVars
<1>2. /\ db \in Nat /\ asked \in 0 .. db /\ request \in AppSequence
      /\ session \in Session /\ session.tseq \in SeqNumber
  BY DEF IInv, TypeOK, Session
<1>3. CASE pc \in {"sendTest", "sleep", "sendPoll"}
  <2>1. Ordered({}, {}, {}, {})  BY <1>3 DEF IInv, Traffic
  <2>2. f \in {} \cup {}  BY <1>1, <2>1, NextRequest
  <2> QED  BY <2>2
<1>4. CASE pc = "sendReset"
  <2>1. Ordered(AnyAnswer(db), {}, AnyPoll, {})  BY <1>4 DEF IInv, Traffic
  <2>2. f \in AnyPoll \cup {}  BY <1>1, <2>1, NextRequest
  <2>3. R \in Seq(AnyAnswer(db))  BY <2>2, AnyPollHandled
  <2>4. After(AnyAnswer(db), {}, AnyPoll, {})  BY <2>1, <2>3, AfterRequest
  <2> QED  BY <1>1, <1>4, <2>4 DEF Traffic, Ordered, After
<1>5. CASE pc = "awaitReset"
  <2>1. Ordered(AnyAnswer(db), Acks, AnyPoll, {Reset})  BY <1>5 DEF IInv, Traffic
  <2>2. f \in AnyPoll \cup {Reset}  BY <1>1, <2>1, NextRequest
  <2>3. CASE f \in AnyPoll
    <3>1. R \in Seq(AnyAnswer(db))  BY <2>3, AnyPollHandled
    <3>2. After(AnyAnswer(db), Acks, AnyPoll, {Reset})  BY <2>1, <3>1, AfterRequest
    <3> QED  BY <1>1, <1>5, <3>2 DEF Traffic, Ordered, After
  <2>4. CASE f = Reset
    <3>1. f \notin AnyPoll  BY <2>4, PollsAre
    <3>2. f \in {Reset, Test}  BY <2>4
    <3>3. After(AnyAnswer(db), Acks, AnyPoll, {Reset})  BY <2>1, <3>1, <3>2, AfterAck
    <3> QED  BY <1>1, <1>5, <3>3 DEF Traffic, Ordered, After
  <2> QED  BY <2>2, <2>3, <2>4
<1>6. CASE pc = "awaitTest"
  <2>1. Ordered({}, Acks, {}, {Test})  BY <1>6 DEF IInv, Traffic
  <2>2. f \in {} \cup {Test}  BY <1>1, <2>1, NextRequest
  <2>3. f \in {Reset, Test} /\ f \notin {}  BY <2>2
  <2>4. After({}, Acks, {}, {Test})  BY <2>1, <2>3, AfterAck
  <2> QED  BY <1>1, <1>6, <2>4 DEF Traffic, Ordered, After
<1>7. CASE pc = "awaitPoll" /\ Unanswered
  <2>1. PICK v \in Reported(asked, db), encodable \in BOOLEAN :
           Database(db, contents) = [points |-> v, encodable |-> encodable]
    BY PointsNow
  <2>s. PICK start \in SeqNumber : start = session.tseq  BY <1>2
  <2> DEFINE B == AnswerBody(request, start, v)
             E == AnswerEnd(request, start, v)
  <2>2. Ordered({}, {}, {}, PollFrames(request)) /\ master.re = NewReassembler
    BY <1>7 DEF Unanswered
  <2>3. f \in {} \cup PollFrames(request)  BY <1>1, <2>2, NextRequest
  <2>4. f \in PollFrames(request)  BY <2>3
  <2>5. /\ encodable => R = WholeAnswer(request, start, v)
        /\ ~ encodable => R = <<>>
    BY <1>2, <2>1, <2>s, <2>4, HandledPoll DEF Handled
  <2>7. f \notin {} /\ {} \subseteq B  OBVIOUS
  <2> HIDE DEF B, E
  <2>a. CASE encodable
    <3>1. R \in Seq(B \cup E) /\ \A i \in DOMAIN R : R[i] \in B \/ i = Len(R)
      BY <2>5, <2>a, WholeAnswerIs DEF B, E
    <3>2. After(B, E, {}, {})  BY <2>2, <2>7, <3>1, AfterLastRequest
    <3>3. Answered(start, v)'
      <4>1. Collecting(master'.re, Chunk(request', v), start, ResponseChunks)
        BY <1>1, <2>2 DEF Collecting
      <4> QED  BY <1>1, <3>2, <4>1 DEF Answered, Ordered, After, B, E
    <3>4. v \in Reported(asked, db)' /\ pc' = "awaitPoll"
      BY <1>1, <1>7 DEF Reported
    <3> QED  BY <3>3, <3>4 DEF Traffic
  <2>b. CASE ~ encodable
    <3>1. <<>> \in Seq({} \cup {}) /\ DOMAIN <<>> = {}  OBVIOUS
    <3>2. After({}, {}, {}, {})  BY <2>2, <2>5, <2>7, <2>b, <3>1, AfterLastRequest
    <3>3. After({}, {}, {}, PollFrames(request))  BY <3>2, OrderlyWidens DEF After
    <3>4. Unanswered'  BY <1>1, <2>2, <3>3 DEF Unanswered, Ordered, After
    <3> QED  BY <1>1, <1>7, <3>4 DEF Traffic
  <2> QED  BY <2>a, <2>b
<1>8. ASSUME pc = "awaitPoll", NEW start \in SeqNumber, NEW v \in Reported(asked, db),
             Answered(start, v)
      PROVE  FALSE
  <2>1. f \in {} \cup {}  BY <1>1, <1>8, NextRequest DEF Answered
  <2> QED  BY <2>1
<1>9. CASE pc = "stopped"
  <2> DEFINE A == AnyAnswer(db) \cup Acks
             P == AnyPoll \cup {Reset, Test}
  <2>1. Ordered(A, {}, P, {})  BY <1>9 DEF IInv, Traffic
  <2>2. R \in Seq(A)
    <3>1. AnyAnswer(db) \subseteq A /\ Acks \subseteq A  OBVIOUS
    <3>2. R \in Seq(AnyAnswer(db)) \/ R \in Seq(Acks)
      BY <1>1, NextFrame, AnyPollHandled, LinkHandled
    <3> HIDE DEF R, A
    <3> QED  BY <3>1, <3>2, SeqWidens
  <2> HIDE DEF A, P
  <2>3. After(A, {}, P, {})  BY <2>1, <2>2, AfterRequest
  <2> QED  BY <1>1, <1>9, <2>3 DEF Traffic, Ordered, After, A, P
<1>10. pc = "awaitPoll" =>
        Unanswered \/ \E start \in SeqNumber, v \in Reported(asked, db) : Answered(start, v)
  BY DEF IInv, Traffic
<1> QED  BY <1>3, <1>4, <1>5, <1>6, <1>7, <1>8, <1>9, <1>10 DEF IInv, TypeOK, Startup

LEMMA ServerReadNoiseTraffic ==
  ASSUME IInv, ServerReadNoise
  PROVE  Traffic'
<1>1. /\ UNCHANGED <<pc, master, request, asked, db, outq, o2m>>
      /\ m2o # <<>> /\ m2o' \in AfterNoise(m2o)
  BY DEF ServerReadNoise, masterVars, outstationVars
<1>2. Worn(m2o', m2o, {Noise})  BY <1>1, Lines, AfterNoiseWorn
<1>3. KeepsOrder  BY <1>1, <1>2, SameWorn, WearKeepsOrder
<1> QED  BY <1>1, <1>3, TrafficKept

LEMMA ServerWriteTraffic ==
  ASSUME IInv, ServerWrite
  PROVE  Traffic'
<1>1. /\ UNCHANGED <<pc, master, request, asked, db, m2o>>
      /\ outq # <<>> /\ outq' = Tail(outq)
      /\ o2m' = Append(o2m, Head(outq)) \/ o2m' = o2m
  BY DEF ServerWrite, masterVars
<1>2. KeepsOrder
  <2> SUFFICES ASSUME NEW A, NEW L, NEW P, NEW Q, Before(A, L, P, Q)
               PROVE  After(A, L, P, Q)
    BY DEF KeepsOrder
  <2>1. CASE o2m' = Append(o2m, Head(outq))
    BY <1>1, <2>1, Written DEF Before, After
  <2>2. CASE o2m' = o2m
    BY <1>1, <2>2, Unwritten DEF Before, After
  <2> QED  BY <1>1, <2>1, <2>2
<1> QED  BY <1>1, <1>2, TrafficKept

(* The outstation is new, the line as it is but for what the port drops.    *)
LEMMA NewOutstationTraffic ==
  ASSUME IInv, NEW arrived, NewOutstation(arrived),
         arrived = m2o \/ (m2o # <<>> /\ arrived = Tail(m2o)),
         UNCHANGED <<pc, master, request, asked, o2m>>
  PROVE  Traffic'
<1>1. db' = db + 1 /\ outq' = <<>> /\ m2o' \in Suffixes(arrived)
  BY DEF NewOutstation
<1>2. Worn(m2o', m2o, {Noise})
  <2>1. CASE arrived = m2o  BY <1>1, <2>1, Lines, SuffixWorn
  <2>2. CASE m2o # <<>> /\ arrived = Tail(m2o)
    <3>1. m2o' \in AfterNoise(m2o)  BY <1>1, <2>2 DEF AfterNoise
    <3> QED  BY <2>2, <3>1, Lines, AfterNoiseWorn
  <2> QED  BY <2>1, <2>2
<1>3. KeepsOrder
  <2> SUFFICES ASSUME NEW A, NEW L, NEW P, NEW Q, Before(A, L, P, Q)
               PROVE  After(A, L, P, Q)
    BY DEF KeepsOrder
  <2> DEFINE H == Stray \cup {Noise}
  <2>1. {Noise} \subseteq H  OBVIOUS
  <2>2. Orderly(H, {Noise}, o2m, outq, m2o, A, L, P, Q)  BY DEF Before
  <2> HIDE DEF H
  <2>3. Orderly(H, {Noise}, o2m, <<>>, m2o, A, L, P, Q)  BY <2>2, ReadyDropped
  <2>4. Orderly(H, {Noise}, o2m, <<>>, m2o', A, L, P, Q)  BY <1>2, <2>1, <2>3, OutWorn
  <2> QED  BY <1>1, <2>4 DEF After, H
<1> QED  BY <1>1, <1>3, TrafficKept

LEMMA CrashTraffic ==
  ASSUME IInv, Crash \/ ServerPanics
  PROVE  Traffic'
<1>1. UNCHANGED <<pc, master, request, asked, o2m>>
  BY DEF Crash, ServerPanics, masterVars
<1>2. PICK arrived : /\ NewOutstation(arrived)
                     /\ arrived = m2o \/ (m2o # <<>> /\ arrived = Tail(m2o))
  BY DEF Crash, ServerPanics, ServerHasFrame
<1> QED  BY <1>1, <1>2, NewOutstationTraffic

LEMMA UpdateTraffic ==
  ASSUME IInv, Update \/ Poison
  PROVE  Traffic'
<1>1. UNCHANGED <<pc, master, request, asked, o2m, m2o, outq>> /\ db' = db + 1
  BY DEF Update, Poison, masterVars
<1>2. KeepsOrder  BY <1>1, SameWorn, WearKeepsOrder
<1> QED  BY <1>1, <1>2, TrafficKept

LEMMA DisturbTraffic ==
  ASSUME IInv, Disturb
  PROVE  Traffic'
<1>1. UNCHANGED <<pc, master, request, asked, db, outq>>
  BY DEF Disturb, masterVars, outstationVars
<1>2. CASE m2o' \in Disturbed(m2o) /\ UNCHANGED o2m
  <2>1. Worn(m2o', m2o, {Noise})  BY <1>2, Lines, DisturbedWorn
  <2>2. KeepsOrder  BY <1>1, <1>2, <2>1, SameWorn, WearKeepsOrder
  <2> QED  BY <1>1, <2>2, TrafficKept
<1>3. CASE o2m' \in Disturbed(o2m) /\ UNCHANGED m2o
  <2>1. Worn(o2m', o2m, {Noise})  BY <1>3, Lines, DisturbedWorn
  <2>2. KeepsOrder  BY <1>1, <1>3, <2>1, SameWorn, WearKeepsOrder
  <2> QED  BY <1>1, <2>2, TrafficKept
<1>4. ASSUME NEW f \in Stray, o2m' = Append(o2m, f), UNCHANGED m2o
      PROVE  Traffic'
  <2>1. KeepsOrder
    <3> SUFFICES ASSUME NEW A, NEW L, NEW P, NEW Q, Before(A, L, P, Q)
                 PROVE  After(A, L, P, Q)
      BY DEF KeepsOrder
    <3>1. f \in Stray \cup {Noise}  OBVIOUS
    <3> QED  BY <1>1, <1>4, <3>1, HarmlessAppended DEF Before, After
  <2> QED  BY <1>1, <2>1, TrafficKept
<1> QED  BY <1>2, <1>3, <1>4 DEF Disturb

-----------------------------------------------------------------------------
(* The types after each step.                                               *)
Types ==
    /\ TypeOK
    /\ request \in AppSequence
    /\ master = [aseq |-> master.aseq, tseq |-> master.tseq, re |-> master.re]
    /\ session \in Session

ContentsOK == contents \in Contents \cup {"poisoned"}

LEMMA ContentsStep == IInv /\ [Next]_vars => ContentsOK'
<1> SUFFICES ASSUME IInv, [Next]_vars PROVE ContentsOK'  OBVIOUS
<1>0. ContentsOK  BY DEF IInv, TypeOK, ContentsOK
<1>1. CASE Update  BY <1>1 DEF Update, AfterCommand, ContentsOK
<1>2. CASE Crash \/ ServerPanics
  BY <1>2 DEF Crash, ServerPanics, NewOutstation, ContentsOK
<1>3. CASE Poison  BY <1>3 DEF Poison, ContentsOK
<1>4. CASE UNCHANGED contents  BY <1>0, <1>4 DEF ContentsOK
<1>5. UNCHANGED contents \/ Update \/ Crash \/ ServerPanics \/ Poison
  BY DEF Next, MasterStep, ServerStep, BeginPoll, Write, WriteFails, Read, ReadNoise,
         Timeout, StartAgain, ServerRead, ServerReadNoise, ServerWrite, Disturb, vars,
         outstationVars
<1> QED  BY <1>1, <1>2, <1>3, <1>4, <1>5

Places == Startup \cup {"sendPoll", "awaitPoll", "sleep", "stopped"}

(* A step of the program that starts no poll and completes none.            *)
LEMMA TypesKept ==
  ASSUME IInv, pc' \in Places, UNCHANGED <<asked, request, view>>,
         \/ UNCHANGED master
         \/ master' = NewMaster
         \/ master' = [master EXCEPT !.re = master'.re],
         outcome' \in {"none", "ok", "failed"},
         db' = db \/ db' = db + 1,
         faults' \in 0 .. MaxFaults, restarts' \in 0 .. MaxRestarts,
         session' \in Session, ContentsOK'
  PROVE  Types'
<1>1. /\ master = [aseq |-> master.aseq, tseq |-> master.tseq, re |-> master.re]
      /\ master.aseq \in AppSequence /\ master.tseq \in SeqNumber
      /\ request \in AppSequence /\ db \in Nat /\ asked \in 0 .. db /\ view \in 0 .. db
  BY DEF IInv, TypeOK, AppSequence
<1>2. /\ master' = [aseq |-> master'.aseq, tseq |-> master'.tseq, re |-> master'.re]
      /\ master'.aseq \in AppSequence /\ master'.tseq \in SeqNumber
  <2>1. CASE master' = master  BY <1>1, <2>1
  <2>2. CASE master' = NewMaster
    BY <2>2, AppSeqAssumption DEF NewMaster, AppSequence, SeqNumber
  <2>3. CASE master' = [master EXCEPT !.re = master'.re]
    <3>1. master' = [aseq |-> master.aseq, tseq |-> master.tseq, re |-> master'.re]
      BY <1>1, <2>3, MasterTypes
    <3> QED  BY <1>1, <3>1
  <2> QED  BY <2>1, <2>2, <2>3
<1>3. db' \in Nat /\ asked' \in 0 .. db' /\ view' \in 0 .. db'  BY <1>1
<1>4. session'.tseq \in SeqNumber  BY DEF Session
<1> QED  BY <1>1, <1>2, <1>3, <1>4
    DEF Types, TypeOK, ContentsOK, Places, AppSequence

LEMMA BeginPollTypes ==
  ASSUME IInv, BeginPoll, ContentsOK'
  PROVE  Types'
<1>1. /\ master = [aseq |-> master.aseq, tseq |-> master.tseq, re |-> master.re]
      /\ master.aseq \in AppSequence /\ master.tseq \in SeqNumber
      /\ db \in Nat /\ view \in 0 .. db /\ session \in Session
      /\ outcome \in {"none", "ok", "failed"}
      /\ faults \in 0 .. MaxFaults /\ restarts \in 0 .. MaxRestarts
  BY DEF IInv, TypeOK, AppSequence, Session
<1>2. /\ master' = StartPoll(master, Style, Own).master
      /\ request' = master.aseq /\ asked' = db /\ pc' = "sendPoll"
      /\ UNCHANGED <<view, outcome, session, db, faults, restarts>>
  BY DEF BeginPoll, outstationVars
<1> DEFINE a == (master.aseq + 1) % AppSeqSpace
           t == (master.tseq + 1) % SeqSpace
<1>3. master' = [aseq |-> a, tseq |-> t, re |-> NewReassembler]
  BY <1>1, <1>2, BegunPoll
<1>4. a \in AppSequence
  <2>1. master.aseq + 1 \in Nat  BY <1>1 DEF AppSequence
  <2> QED  BY <2>1, AppSeqAssumption, DivMod DEF AppSequence
<1>5. t \in SeqNumber
  <2>1. master.tseq + 1 \in Nat  BY <1>1 DEF SeqNumber
  <2> QED  BY <2>1, IsNumber
<1> HIDE DEF a, t
<1>6. /\ master' = [aseq |-> master'.aseq, tseq |-> master'.tseq, re |-> master'.re]
      /\ master'.aseq \in AppSequence /\ master'.tseq \in SeqNumber
  BY <1>3, <1>4, <1>5
<1>7. asked' \in 0 .. db' /\ view' \in 0 .. db' /\ db' \in Nat  BY <1>1, <1>2
<1>8. session'.tseq \in SeqNumber  BY <1>1, <1>2 DEF Session
<1> QED
  BY <1>1, <1>2, <1>6, <1>7, <1>8 DEF Types, TypeOK, ContentsOK, AppSequence

LEMMA ReadTypes ==
  ASSUME IInv, Read, ContentsOK'
  PROVE  Types'
<1>1. /\ UNCHANGED <<asked, request, session, db, faults, restarts>>
      /\ db \in Nat /\ asked \in 0 .. db /\ session \in Session
      /\ outcome \in {"none", "ok", "failed"} /\ pc \in Places
      /\ faults \in 0 .. MaxFaults /\ restarts \in 0 .. MaxRestarts
  BY DEF Read, outstationVars, IInv, TypeOK, Session, Places
<1>2. CASE LinkAnswer(Head(o2m))
  <2>1. /\ view' = view /\ pc' \in Places
        /\ master' = master \/ master' = NewMaster
        /\ outcome' \in {"none", "ok", "failed"}
    BY <1>1, <1>2 DEF LinkAnswer, Fail, Places, Startup
  <2> QED  BY <1>1, <2>1, TypesKept
<1>3. CASE PollAnswer(Head(o2m))
  <2>1. CASE UNCHANGED <<pc, view, outcome, master>>
    BY <1>1, <2>1, TypesKept
  <2>2. ASSUME NEW start, NEW v, PollGoesOn(start, v) PROVE Types'
    BY <1>1, <2>2, TypesKept DEF PollGoesOn
  <2>3. ASSUME NEW v \in Reported(asked, db), PollIsAnswered(v) PROVE Types'
    <3>1. /\ master = [aseq |-> master.aseq, tseq |-> master.tseq, re |-> master.re]
          /\ master.aseq \in AppSequence /\ master.tseq \in SeqNumber
          /\ request \in AppSequence
      BY DEF IInv, TypeOK, AppSequence
    <3>2. master' = [aseq |-> master.aseq, tseq |-> master.tseq, re |-> NewReassembler]
      BY <2>3, <3>1, MasterTypes DEF PollIsAnswered
    <3>v. view' \in asked .. db  BY <2>3 DEF PollIsAnswered, Reported
    <3>3. pc' = "sleep" /\ outcome' = "ok" /\ view' \in 0 .. db' /\ asked' \in 0 .. db'
      BY <1>1, <2>3, <3>v DEF PollIsAnswered
    <3>4. session'.tseq \in SeqNumber /\ session' \in Session  BY <1>1 DEF Session
    <3>5. /\ master' = [aseq |-> master'.aseq, tseq |-> master'.tseq, re |-> master'.re]
          /\ master'.aseq \in AppSequence /\ master'.tseq \in SeqNumber
      BY <3>1, <3>2
    <3> QED
      BY <1>1, <3>1, <3>3, <3>4, <3>5 DEF Types, TypeOK, ContentsOK, AppSequence
  <2>4. CASE PollFails
    <3>1. master = [aseq |-> master.aseq, tseq |-> master.tseq, re |-> master.re]
      BY DEF IInv
    <3>2. master'.re = NewReassembler  BY <2>4, <3>1, MasterTypes DEF PollFails
    <3>3. /\ master' = [master EXCEPT !.re = master'.re] /\ view' = view
          /\ pc' \in Places /\ outcome' \in {"none", "ok", "failed"}
      BY <2>4, <3>2 DEF PollFails, Places, Startup
    <3> QED  BY <1>1, <3>3, TypesKept
  <2> QED  BY <1>3, <2>1, <2>2, <2>3, <2>4, PollRead DEF PollStep
<1> QED  BY <1>2, <1>3 DEF Read

LEMMA FailTypes ==
  ASSUME IInv, Fail, UNCHANGED <<asked, request, view, session, db, restarts>>,
         faults' \in 0 .. MaxFaults, ContentsOK'
  PROVE  Types'
<1>1. /\ session \in Session /\ pc \in Places /\ restarts \in 0 .. MaxRestarts
      /\ outcome \in {"none", "ok", "failed"}
  BY DEF IInv, TypeOK, Session, Places
<1>2. pc' \in Places /\ master' = master /\ outcome' \in {"none", "ok", "failed"}
  BY <1>1 DEF Fail, Places, Startup
<1> QED  BY <1>1, <1>2, TypesKept

LEMMA FaultCounts ==
  ASSUME IInv
  PROVE  Fault \/ UNCHANGED faults => faults' \in 0 .. MaxFaults
BY BoundsAssumption DEF IInv, TypeOK, Fault

LEMMA TypesStep == IInv /\ [Next]_vars => Types'
<1> SUFFICES ASSUME IInv, [Next]_vars PROVE Types'  OBVIOUS
<1>1. /\ pc \in Places /\ outcome \in {"none", "ok", "failed"} /\ session \in Session
      /\ restarts \in 0 .. MaxRestarts /\ faults \in 0 .. MaxFaults
  BY DEF IInv, TypeOK, Session, Places
<1>c. ContentsOK'  BY ContentsStep
<1>2. CASE BeginPoll  BY <1>2, <1>c, BeginPollTypes
<1>3. CASE Write
  <2>1. pc' \in Places /\ UNCHANGED <<master, asked, request, view, outcome, session,
                                     db, faults, restarts>>
    BY <1>3 DEF Write, Sending, AfterSending, Places, Startup, outstationVars
  <2> QED  BY <1>1, <2>1, <1>c, TypesKept
<1>4. CASE WriteFails
  BY <1>4, <1>c, FailTypes, FaultCounts DEF WriteFails, outstationVars
<1>5. CASE Read  BY <1>5, <1>c, ReadTypes
<1>6. CASE ReadNoise
  BY <1>6, <1>c, FailTypes, FaultCounts DEF ReadNoise, outstationVars
<1>7. CASE Timeout
  <2>1. Fault \/ UNCHANGED faults  BY <1>7 DEF Timeout
  <2> QED  BY <1>7, <2>1, <1>c, FailTypes, FaultCounts DEF Timeout, outstationVars
<1>8. CASE ServerRead
  <2>1. UNCHANGED <<pc, master, asked, request, view, outcome, db, faults, restarts>>
    BY <1>8 DEF ServerRead, masterVars
  <2> QED  BY <1>1, <1>8, <2>1, SessionAfter, <1>c, TypesKept
<1>9. CASE ServerReadNoise
  BY <1>1, <1>9, <1>c, TypesKept DEF ServerReadNoise, masterVars, outstationVars
<1>10. CASE ServerWrite
  <2>1. Fault \/ UNCHANGED faults  BY <1>10 DEF ServerWrite
  <2> QED  BY <1>1, <1>10, <2>1, FaultCounts, <1>c, TypesKept DEF ServerWrite, masterVars
<1>11. CASE StartAgain
  <2>1. restarts' \in 0 .. MaxRestarts
    BY <1>1, <1>11, BoundsAssumption DEF StartAgain
  <2>2. pc' \in Places  BY <1>11 DEF StartAgain, Places, Startup
  <2> QED  BY <1>1, <1>11, <2>1, <2>2, <1>c, TypesKept DEF StartAgain, outstationVars
<1>12. CASE Crash \/ ServerPanics
  <2>1. NewSession \in Session  BY DEF NewSession, Session, SeqNumber
  <2>2. faults' \in 0 .. MaxFaults  BY <1>12, FaultCounts DEF Crash, ServerPanics
  <2> QED  BY <1>1, <1>12, <2>1, <2>2, <1>c, TypesKept
     DEF Crash, ServerPanics, NewOutstation, masterVars
<1>13. CASE Update \/ Poison
  <2>1. Fault \/ UNCHANGED faults  BY <1>13 DEF Update, Poison
  <2> QED  BY <1>1, <1>13, <1>c, <2>1, FaultCounts, TypesKept
           DEF Update, Poison, masterVars
<1>14. CASE Disturb
  <2>1. faults' \in 0 .. MaxFaults  BY <1>14, FaultCounts DEF Disturb
  <2> QED  BY <1>1, <1>14, <2>1, <1>c, TypesKept DEF Disturb, masterVars, outstationVars
<1>15. CASE UNCHANGED vars
  BY <1>1, <1>15, <1>c, TypesKept DEF vars, masterVars, outstationVars
<1> QED  BY <1>2, <1>3, <1>4, <1>5, <1>6, <1>7, <1>8, <1>9, <1>10, <1>11, <1>12,
            <1>13, <1>14, <1>15 DEF Next, MasterStep, ServerStep

LEMMA TrafficStep == Patient /\ IInv /\ [Next]_vars => Traffic'
<1> SUFFICES ASSUME Patient, IInv, [Next]_vars PROVE Traffic'  OBVIOUS
<1>1. CASE UNCHANGED vars
  <2>1. UNCHANGED <<pc, master, request, asked, db, o2m, m2o, outq>>
    BY <1>1 DEF vars, masterVars, outstationVars
  <2>2. KeepsOrder  BY <2>1, SameWorn, WearKeepsOrder
  <2> QED  BY <2>1, <2>2, TrafficKept
<1> QED
  BY <1>1, BeginPollTraffic, WriteTraffic, WriteFailsTraffic, ReadTraffic,
     ReadNoiseTraffic, TimeoutTraffic, StartAgainTraffic, ServerReadTraffic,
     ServerReadNoiseTraffic, ServerWriteTraffic, CrashTraffic, UpdateTraffic,
     DisturbTraffic
  DEF Next, MasterStep, ServerStep

-----------------------------------------------------------------------------
LEMMA Initially == Init => IInv
<1> SUFFICES ASSUME Init PROVE IInv  OBVIOUS
<1>1. /\ pc = "sendReset" /\ master = NewMaster /\ session = NewSession
      /\ o2m = <<>> /\ outq = <<>> /\ m2o = <<>>
      /\ db = 0 /\ asked = 0 /\ request = 0 /\ view = 0 /\ outcome = "none"
      /\ faults = 0 /\ restarts = 0 /\ contents \in Contents
  BY DEF Init
<1>2. session \in Session  BY <1>1 DEF NewSession, Session, SeqNumber
<1>3. master = [aseq |-> 0, tseq |-> 0, re |-> NewReassembler]
  BY <1>1 DEF NewMaster
<1>4. TypeOK
  <2>1. 0 \in 0 .. AppSeqSpace - 1 /\ 0 \in SeqNumber
    BY AppSeqAssumption, SeqSpaceAssumption DEF SeqNumber
  <2>2. session.tseq \in SeqNumber  BY <1>2 DEF Session
  <2> QED  BY <1>1, <1>3, <2>1, <2>2, BoundsAssumption DEF TypeOK, Startup
<1>5. Ordered(AnyAnswer(db), {}, AnyPoll, {})
  <2>1. Ordered({}, {}, {}, {})
    <3>1. <<>> \in Seq(Stray \cup {Noise}) /\ <<>> \in Seq({Noise})  OBVIOUS
    <3>2. Orderly(Stray \cup {Noise}, {Noise}, <<>>, <<>>, <<>>, {}, {}, {}, {})
      BY <3>1, Clear
    <3> QED  BY <1>1, <3>2 DEF Ordered
  <2> QED  BY <2>1, Widened
<1>6. Traffic  BY <1>1, <1>5 DEF Traffic
<1>7. request \in AppSequence
  BY <1>1, AppSeqAssumption DEF AppSequence
<1> QED  BY <1>2, <1>3, <1>4, <1>6, <1>7 DEF IInv, Session

(* In every state of a master that is started again on a quiet line only,   *)
(* what is on its way fits the place the master is at.                      *)
THEOREM Invariance ==
  ASSUME Patient
  PROVE  Spec => []IInv
<1>1. IInv /\ [Next]_vars => IInv'
  BY TypesStep, TrafficStep DEF Types, IInv, Session
<1> QED  BY <1>1, Initially, PTL DEF Spec

(* The types of the program, and the bounds of its sequence numbers.        *)
THEOREM TypeCorrectness ==
  ASSUME Patient
  PROVE  Spec => []TypeOK
<1>1. IInv => TypeOK  BY DEF IInv
<1> QED  BY <1>1, Invariance, PTL

(* run_poll_loop starts a poll only when nothing is left of earlier calls.  *)
THEOREM StartsClean ==
  ASSUME Patient
  PROVE  Spec => []NothingLeftOver
<1>1. IInv => NothingLeftOver
  <2> SUFFICES ASSUME IInv, pc = "sendPoll"
               PROVE  /\ \A i \in DOMAIN o2m : o2m[i] \in Stray \cup {Noise}
                      /\ \A i \in DOMAIN m2o : m2o[i] = Noise
                      /\ outq = <<>>
    BY DEF NothingLeftOver
  <2> DEFINE H == Stray \cup {Noise}
  <2>1. Orderly(H, {Noise}, o2m, outq, m2o, {}, {}, {}, {})
    BY DEF IInv, Traffic, Ordered
  <2> HIDE DEF H
  <2>2. o2m \in Seq(H) /\ m2o \in Seq({Noise}) /\ outq \in Seq({})
    <3>1. H \cup {} \cup {} = H /\ {} \cup {} = {} /\ {Noise} \cup {} \cup {} = {Noise}
      OBVIOUS
    <3> QED  BY <2>1, <3>1 DEF Orderly
  <2>3. outq = <<>>
    <3>1. SUFFICES ASSUME outq # <<>> PROVE FALSE  OBVIOUS
    <3>2. Head(outq) \in {}  BY <2>2, <3>1
    <3> QED  BY <3>2
  <2> QED  BY <2>2, <2>3 DEF H
<1> QED  BY <1>1, Invariance, PTL

-----------------------------------------------------------------------------
(* The only step from a waiting poll to rest reads the end of an answer.    *)
LEMMA OnlyAnswersComplete ==
  ASSUME IInv, [Next]_vars, pc = "awaitPoll", pc' = "sleep"
  PROVE  \E v \in Reported(asked, db) : PollIsAnswered(v)
<1>1. Read /\ PollAnswer(Head(o2m))
  <2>1. ~ (BeginPoll \/ Write \/ WriteFails \/ StartAgain)
    BY DEF BeginPoll, Write, WriteFails, StartAgain, Sending
  <2>2. ~ (ReadNoise \/ Timeout)
    BY DEF ReadNoise, Timeout, Fail, Startup
  <2>3. ~ (ServerStep \/ Crash \/ Update \/ Poison \/ Disturb \/ UNCHANGED vars)
    BY DEF ServerStep, ServerRead, ServerReadNoise, ServerPanics, ServerWrite, Crash,
           Update, Poison, Disturb, vars, masterVars
  <2>4. Read  BY <2>1, <2>2, <2>3 DEF Next, MasterStep
  <2> QED  BY <2>4 DEF Read, LinkAnswer
<1>2. PollStep  BY <1>1, PollRead
<1> QED  BY <1>2 DEF PollStep, PollFails, PollGoesOn

(* What integrity_poll accepts is the whole answer to the poll it sent, as  *)
(* long as a segment number identifies a segment: the 64 numbers of the     *)
(* code suffice for 65 segments, for a fragment starts with its first.      *)
THEOREM AnswersThePoll ==
  ASSUME Patient, ResponseChunks <= SeqSpace + 1
  PROVE  Spec => AnswersItsPoll
<1>1. ASSUME IInv, [Next]_vars, pc = "awaitPoll", pc' = "sleep"
      PROVE  /\ Len(Answer) = ResponseChunks
             /\ \A i \in DOMAIN Answer :
                   /\ Answer[i].sequence = request
                   /\ Answer[i].points = {[version |-> view', decodable |-> TRUE]}
  <2>1. PICK v \in Reported(asked, db) : PollIsAnswered(v)  BY <1>1, OnlyAnswersComplete
  <2> DEFINE c == Chunk(request, v)
             answer == Answer
  <2>2. answer \in Seq({c}) /\ Len(answer) = ResponseChunks 
        /\ view' = v.version /\ v.decodable
    BY <2>1 DEF PollIsAnswered
  <2>p. v = [version |-> view', decodable |-> TRUE]  BY <2>2 DEF Reported
  <2>3. c.sequence = request /\ c.points = {v}  BY DEF Chunk
  <2> HIDE DEF c, answer
  <2>4. \A i \in DOMAIN answer : answer[i] = c  BY <2>2
  <2>5. \A i \in DOMAIN answer :
           /\ answer[i].sequence = request
           /\ answer[i].points = {[version |-> view', decodable |-> TRUE]}
    BY <2>p, <2>3, <2>4
  <2> QED  BY <2>2, <2>5 DEF answer
<1>2. IInv /\ [Next]_vars =>
         [ (pc = "awaitPoll" /\ pc' = "sleep" /\ outcome' = "ok") =>
             /\ Len(Answer) = ResponseChunks
             /\ \A i \in DOMAIN Answer :
                   /\ Answer[i].sequence = request
                   /\ Answer[i].points = {[version |-> view', decodable |-> TRUE]} ]_vars
  BY <1>1
<1> QED  BY <1>2, Invariance, PTL DEF Spec, AnswersItsPoll

(* Whatever the line does, a polling master implements the service: it      *)
(* shows what the outstation had, no older than the poll that fetched it.   *)
THEOREM Refinement ==
  ASSUME Patient
  PROVE  Spec => ImplementsPollService
<1> DEFINE pending == IF pc \in {"sendPoll", "awaitPoll"} THEN asked ELSE None
<1>1. Init => Service!Init  BY DEF Init, Service!Init
<1>2. IInv /\ [Next]_vars => [Service!Next]_(Service!vars)
  <2> SUFFICES ASSUME IInv, [Next]_vars
               PROVE  Service!Next \/ UNCHANGED <<db, pending, view>>
    BY DEF Service!vars
  <2>0. db \in Nat /\ asked \in Nat /\ None \notin Nat
    BY NoneAssumption DEF IInv, TypeOK
  <2>1. CASE BeginPoll
    <3>1. pending = None /\ pending' = db /\ UNCHANGED <<db, view>>
      BY <2>1 DEF BeginPoll, outstationVars
    <3> QED  BY <3>1 DEF Service!Next, Service!Begin
  <2>2. ASSUME pc \in {"sendPoll", "awaitPoll"}, Fail, UNCHANGED <<asked, db, view>>
        PROVE  Service!Next
    <3>1. pending = asked /\ pending' = None
      BY <2>2 DEF Fail, Startup
    <3> QED  BY <2>0, <2>2, <3>1 DEF Service!Next, Service!Fail
  <2>3. ASSUME pc \in Startup, Fail, UNCHANGED <<asked, db, view>>
        PROVE  UNCHANGED <<db, pending, view>>
    BY <2>3 DEF Fail, Startup
  <2>4. CASE Write
    BY <2>4 DEF Write, AfterSending, Sending, outstationVars
  <2>5. CASE WriteFails \/ ReadNoise \/ Timeout
    BY <2>2, <2>3, <2>5
    DEF WriteFails, ReadNoise, Timeout, outstationVars, Sending, Waiting, Startup
  <2>6. CASE Read
    <3>1. UNCHANGED <<asked, db>>  BY <2>6 DEF Read, outstationVars
    <3>2. CASE LinkAnswer(Head(o2m))
      BY <2>3, <3>1, <3>2 DEF LinkAnswer, Startup
    <3>3. CASE PollAnswer(Head(o2m))
      <4>1. pc = "awaitPoll" /\ pending = asked
        BY <3>3 DEF PollAnswer
      <4>2. CASE UNCHANGED <<pc, view>>  BY <3>1, <4>2
      <4>3. ASSUME NEW v \in Reported(asked, db), PollIsAnswered(v)
            PROVE  Service!Next
        <5>1. pc' = "sleep" /\ view' \in asked .. db
          BY <4>3 DEF PollIsAnswered, Reported
        <5>2. pending' = None  BY <5>1
        <5> QED  BY <2>0, <3>1, <4>1, <5>1, <5>2 DEF Service!Next, Service!Complete
      <4>4. CASE PollFails
        <5>1. pending' = None /\ view' = view  BY <4>4 DEF PollFails
        <5> QED  BY <2>0, <3>1, <4>1, <5>1 DEF Service!Next, Service!Fail
      <4> QED  BY <2>6, <3>3, <4>2, <4>3, <4>4, PollRead DEF PollStep, PollGoesOn
    <3> QED  BY <2>6, <3>2, <3>3 DEF Read
  <2>7. CASE Crash \/ ServerPanics \/ Update \/ Poison
    <3>1. db' = db + 1 /\ UNCHANGED <<pc, asked, view>>
      BY <2>7 DEF Crash, ServerPanics, NewOutstation, Update, Poison, masterVars
    <3> QED  BY <3>1 DEF Service!Next, Service!Update
  <2>8. CASE StartAgain
    BY <2>8 DEF StartAgain, outstationVars
  <2>9. CASE ServerRead \/ ServerReadNoise \/ ServerWrite \/ Disturb \/ UNCHANGED vars
    BY <2>9 DEF ServerRead, ServerReadNoise, ServerWrite, Disturb, vars,
                masterVars, outstationVars
  <2> QED
    BY <2>1, <2>4, <2>5, <2>6, <2>7, <2>8, <2>9
    DEF Next, MasterStep, ServerStep
<1> QED
  BY <1>1, <1>2, Invariance, PTL DEF Spec, ImplementsPollService, Service!Spec
=============================================================================
