-------------------------- MODULE TcpPollingProofs --------------------------
(***************************************************************************)
(* Proofs about TcpPolling: whatever the network, the outstation process   *)
(* and the operator of the database do, however often, and however long a  *)
(* response is.                                                            *)
(***************************************************************************)
EXTENDS TcpPolling, PollTrafficProofs

USE SeqSpaceAssumption, NoneAssumption

-----------------------------------------------------------------------------
(* Segment j, which is in turn, of a fragment of equal chunks.              *)
InTurn(re, seg, c, start, j) ==
    /\ j = Len(re.buffer) + 1
    /\ seg.fir = (j = 1)
    /\ seg.seq = (start + Len(re.buffer)) % SeqSpace
    /\ seg.payload = <<c>>

AddsOne(re, seg, c, start, j) ==
    /\ Push(re, seg) = Extended(seg, re.buffer \o <<c>>)
    /\ re.buffer \o <<c>> \in Seq({c}) /\ Len(re.buffer \o <<c>>) = j
    /\ (seg.seq + 1) % SeqSpace = (start + j) % SeqSpace

(* It extends what was collected, wherever its number has wrapped around.   *)
LEMMA PushInTurn ==
  ASSUME NEW c, NEW start \in SeqNumber, NEW re, HasFirst(re, c, start),
         NEW j \in Nat, NEW seg, InTurn(re, seg, c, start, j)
  PROVE  AddsOne(re, seg, c, start, j)
<1>0. /\ j = Len(re.buffer) + 1 /\ seg.fir = (j = 1)
      /\ seg.seq = (start + Len(re.buffer)) % SeqSpace /\ seg.payload = <<c>>
  BY DEF InTurn
<1> DEFINE n   == (start + (j - 1)) % SeqSpace
           b   == re.buffer
           all == b \o <<c>>
<1>1. b \in Seq({c}) /\ Len(b) \in Nat /\ (b = <<>> <=> Len(b) = 0)
  <2>1. CASE re = NewReassembler  BY <2>1 DEF NewReassembler
  <2>2. CASE re # NewReassembler  BY <2>2 DEF HasFirst
  <2> QED  BY <2>1, <2>2
<1>2. start \in Nat /\ j - 1 \in Nat /\ start + (j - 1) \in Nat
  <2>1. j = Len(b) + 1 /\ Len(b) \in Nat  BY <1>0, <1>1
  <2> HIDE DEF b
  <2>2. start \in Nat  BY DEF SeqNumber
  <2> QED  BY <2>1, <2>2
<1>3. n \in SeqNumber /\ n # None  BY <1>2, IsNumber
<1>4. (n + 1) % SeqSpace = (start + j) % SeqSpace
  <2>1. (n + 1) % SeqSpace = (start + ((j - 1) + 1)) % SeqSpace
    BY <1>2, NextNumber
  <2>2. (j - 1) + 1 = j  OBVIOUS
  <2> QED  BY <2>1, <2>2
<1>5. seg.seq = n
  <2>1. Len(b) = j - 1  BY <1>0, <1>1
  <2> QED  BY <1>0, <2>1
<1>6. all \in Seq({c}) /\ Len(all) = j
  <2>1. <<c>> \in Seq({c}) /\ Len(<<c>>) = 1  OBVIOUS
  <2> HIDE DEF b
  <2>2. all \in Seq({c}) /\ Len(all) = Len(b) + Len(<<c>>)
    BY <1>1, <2>1, ConcatProperties
  <2> QED  BY <1>0, <2>1, <2>2 DEF b
<1> HIDE DEF n
<1>7. CASE j = 1
  <2>1. b = <<>>  BY <1>0, <1>1, <1>7
  <2> QED  BY <1>0, <2>1, <1>3, <1>4, <1>5, <1>6, <1>7 DEF Push, AddsOne
<1>8. CASE j # 1
  <2>1. re.expected = n
    <3>1. re # NewReassembler  BY <1>0, <1>8 DEF NewReassembler
    <3>2. re.expected = (start + Len(b)) % SeqSpace  BY <3>1 DEF HasFirst
    <3>3. Len(b) = j - 1  BY <1>0, <1>1
    <3> QED  BY <3>2, <3>3 DEF n
  <2>2. Push(re, seg) = Extended(seg, all)
    BY <2>1, <1>0, <1>3, <1>5, <1>8 DEF Push
  <2> QED  BY <2>2, <1>4, <1>5, <1>6 DEF AddsOne
<1> QED  BY <1>7, <1>8

(* What the master makes of the segment in turn: the last one completes the *)
(* whole answer, which is an error if it does not decode; the others make   *)
(* it longer.                                                               *)
LongerBy(m, reception, c, v, start, j) ==
    \E all \in Seq({c}) :
       /\ Len(all) = j
       /\ j = ResponseChunks =>
             \/ v.decodable
                /\ reception = Reception([m EXCEPT !.re = NewReassembler], "answer", all)
             \/ reception = Reception([m EXCEPT !.re = NewReassembler], "error", all)
       /\ j # ResponseChunks =>
             reception = Reception([m EXCEPT !.re = [expected |-> (start + j) % SeqSpace,
                                                     buffer   |-> all]],
                                   "continue", <<>>)

LEMMA ReceivedInTurn ==
  ASSUME NEW number, NEW start \in SeqNumber, NEW v, NEW j \in 1 .. ResponseChunks,
         NEW m, HasFirst(m.re, Chunk(number, v), start), j = Len(m.re.buffer) + 1
  PROVE  LongerBy(m, ReceiveApplication(m, AnswerFrame(number, start, v, j)),
                  Chunk(number, v), v, start, j)
<1> DEFINE c      == Chunk(number, v)
           re     == m.re
           seg    == Segment(j = 1, j = ResponseChunks, start + (j - 1), <<c>>)
           f      == AnswerFrame(number, start, v, j)
           pushed == Push(re, seg)
           all    == re.buffer \o <<c>>
<1>0. j \in Nat /\ HasFirst(re, c, start) /\ j = Len(re.buffer) + 1
  BY ResponseAssumption
<1>s. /\ seg.fir = (j = 1) /\ seg.fin = (j = ResponseChunks)
      /\ seg.seq = (start + Len(re.buffer)) % SeqSpace /\ seg.payload = <<c>>
  <2>1. seg.seq = (start + (j - 1)) % SeqSpace /\ seg.payload = <<c>>
        /\ seg.fir = (j = 1) /\ seg.fin = (j = ResponseChunks)
    BY DEF Segment
  <2>2. Len(re.buffer) = j - 1
    <3>1. Len(re.buffer) \in Nat
      BY DEF HasFirst, NewReassembler
    <3> QED  BY <3>1, <1>0
  <2> QED  BY <2>1, <2>2
<1> HIDE DEF c, re, seg
<1>p. /\ Push(re, seg) = Extended(seg, re.buffer \o <<c>>)
      /\ re.buffer \o <<c>> \in Seq({c}) /\ Len(re.buffer \o <<c>>) = j
      /\ (seg.seq + 1) % SeqSpace = (start + j) % SeqSpace
  <2> HIDE DEF pushed, all, f
  <2>1. InTurn(re, seg, c, start, j)  BY <1>0, <1>s DEF InTurn
  <2>2. AddsOne(re, seg, c, start, j)  BY <1>0, <2>1, PushInTurn
  <2> QED  BY <2>2 DEF AddsOne
<1>1. /\ pushed = Extended(seg, all) /\ all \in Seq({c}) /\ Len(all) = j
      /\ (seg.seq + 1) % SeqSpace = (start + j) % SeqSpace
  BY <1>p
<1>2. f.destination = Master /\ f.payload = <<seg>>
  BY DEF AnswerFrame, UnconfirmedUserData, LinkFrame, c, seg
<1> HIDE DEF pushed, f, all
<1>3. f.payload # <<>> /\ f.payload[1] = seg  BY <1>2
<1>4. CASE j = ResponseChunks
  <2>1. pushed = Pushed(NewReassembler, "complete", all)
    BY <1>s, <1>1, <1>4 DEF Extended
  <2>2. pushed.result = "complete" /\ pushed.re = NewReassembler /\ pushed.data = all
    BY <2>1 DEF Pushed
  <2> DEFINE n == [m EXCEPT !.re = NewReassembler]
  <2>3. ReceiveApplication(m, f) = Accept(n, all)
    BY <1>2, <1>3, <2>2 DEF ReceiveApplication, pushed, re
  <2>4. all # <<>>  BY <1>0, <1>1
  <2> HIDE DEF n
  <2>5. \/ v.decodable /\ Accept(n, all) = Reception(n, "answer", all)
        \/ Accept(n, all) = Reception(n, "error", all)
    BY <1>1, <2>4, AcceptedAnswer DEF c
  <2> QED  BY <1>1, <1>4, <2>3, <2>5 DEF c, f, n, LongerBy
<1>5. CASE j # ResponseChunks
  <2> DEFINE next == [expected |-> (start + j) % SeqSpace, buffer |-> all]
  <2>1. pushed = Pushed(next, "pending", <<>>)
    BY <1>s, <1>1, <1>5 DEF Extended
  <2>2. pushed.result = "pending" /\ pushed.re = next
    BY <2>1 DEF Pushed
  <2> HIDE DEF next
  <2>3. ReceiveApplication(m, f) = Reception([m EXCEPT !.re = next], "continue", <<>>)
    BY <1>2, <1>3, <2>2 DEF ReceiveApplication, pushed, re
  <2> QED  BY <1>1, <1>5, <2>3 DEF c, f, next, LongerBy
<1> QED  BY <1>4, <1>5

(* An acknowledgement ends a poll.                                          *)
LEMMA ReceivedAck ==
  ASSUME NEW m, NEW f \in Acks
  PROVE  ReceiveApplication(m, f) = Reception(m, "error", <<>>) /\ IsLinkAck(f)
BY DEF Acks, AckWithFcb, LegacyAckWithFcb, LinkFrame, Control, ReceiveApplication,
       IsLinkAck

-----------------------------------------------------------------------------
LinkIs(l, alive, c2s, s2c, garbled, session, outq) ==
    l = [alive |-> alive, c2s |-> c2s, s2c |-> s2c, garbled |-> garbled,
         session |-> session, outq |-> outq]

LinkOK(l) ==
    /\ LinkIs(l, l.alive, l.c2s, l.s2c, l.garbled, l.session, l.outq)
    /\ l.session \in Session

LEMMA LinkRecord ==
  ASSUME NEW l, NEW a, NEW c, NEW s, NEW g, NEW e, NEW o,
         l \in [alive : {a}, c2s : {c}, s2c : {s}, garbled : {g}, session : {e},
                outq : {o}]
  PROVE  LinkIs(l, a, c, s, g, e, o)
<1>1. l.alive = a /\ l.c2s = c /\ l.s2c = s /\ l.garbled = g /\ l.session = e
      /\ l.outq = o
  OBVIOUS
<1> QED  BY <1>1 DEF LinkIs

(* What the assignments of a step make of a connection.                     *)
LEMMA LinkChanged ==
  ASSUME NEW l, NEW a, NEW c, NEW s, NEW g, NEW e, NEW o,
         LinkIs(l, a, c, s, g, e, o), NEW x, NEW y, NEW z
  PROVE  /\ LinkIs([l EXCEPT !.c2s = x], a, x, s, g, e, o)
         /\ LinkIs([l EXCEPT !.s2c = x], a, c, x, g, e, o)
         /\ LinkIs([l EXCEPT !.s2c = x, !.garbled = y], a, c, x, y, e, o)
         /\ LinkIs([l EXCEPT !.garbled = x], a, c, s, x, e, o)
         /\ LinkIs([l EXCEPT !.c2s = x, !.session = y, !.outq = z], a, x, s, g, y, z)
         /\ LinkIs([l EXCEPT !.outq = x, !.s2c = y], a, c, y, g, e, x)
         /\ LinkIs([l EXCEPT !.alive = x], x, c, s, g, e, o)
<1>0. l \in [alive : {a}, c2s : {c}, s2c : {s}, garbled : {g}, session : {e}, outq : {o}]
  BY DEF LinkIs
<1>1. [l EXCEPT !.c2s = x] \in
        [alive : {a}, c2s : {x}, s2c : {s}, garbled : {g}, session : {e}, outq : {o}]
  BY <1>0
<1>2. [l EXCEPT !.s2c = x] \in
        [alive : {a}, c2s : {c}, s2c : {x}, garbled : {g}, session : {e}, outq : {o}]
  BY <1>0
<1>3. [l EXCEPT !.s2c = x, !.garbled = y] \in
        [alive : {a}, c2s : {c}, s2c : {x}, garbled : {y}, session : {e}, outq : {o}]
  BY <1>0
<1>4. [l EXCEPT !.garbled = x] \in
        [alive : {a}, c2s : {c}, s2c : {s}, garbled : {x}, session : {e}, outq : {o}]
  BY <1>0
<1>5. [l EXCEPT !.c2s = x, !.session = y, !.outq = z] \in
        [alive : {a}, c2s : {x}, s2c : {s}, garbled : {g}, session : {y}, outq : {z}]
  BY <1>0
<1>6. [l EXCEPT !.outq = x, !.s2c = y] \in
        [alive : {a}, c2s : {c}, s2c : {y}, garbled : {g}, session : {e}, outq : {x}]
  BY <1>0
<1>7. [l EXCEPT !.alive = x] \in
        [alive : {x}, c2s : {c}, s2c : {s}, garbled : {g}, session : {e}, outq : {o}]
  BY <1>0
<1> QED  BY <1>1, <1>2, <1>3, <1>4, <1>5, <1>6, <1>7, LinkRecord

LEMMA LinkBroken ==
  ASSUME NEW l, NEW a, NEW c, NEW s, NEW g, NEW e, NEW o,
         LinkIs(l, a, c, s, g, e, o), NEW b, NEW w, NEW x, NEW y
  PROVE  LinkIs([l EXCEPT !.alive = b, !.c2s = w, !.outq = x, !.s2c = y],
                b, w, y, g, e, x)
<1>0. l \in [alive : {a}, c2s : {c}, s2c : {s}, garbled : {g}, session : {e}, outq : {o}]
  BY DEF LinkIs
<1>1. [l EXCEPT !.alive = b, !.c2s = w, !.outq = x, !.s2c = y] \in
        [alive : {b}, c2s : {w}, s2c : {y}, garbled : {g}, session : {e}, outq : {x}]
  BY <1>0
<1> QED  BY <1>1, LinkRecord

LEMMA LinkFields ==
  ASSUME NEW l, NEW a, NEW c, NEW s, NEW g, NEW e, NEW o, LinkIs(l, a, c, s, g, e, o)
  PROVE  /\ l.alive = a /\ l.c2s = c /\ l.s2c = s /\ l.garbled = g
         /\ l.session = e /\ l.outq = o
         /\ e \in Session => LinkOK(l)
BY DEF LinkIs, LinkOK

(* The same for the steps of TcpPolling.                                    *)
LEMMA LinkParts ==
  ASSUME NEW l, LinkOK(l)
  PROVE  /\ LinkIs(l, l.alive, l.c2s, l.s2c, l.garbled, l.session, l.outq)
         /\ l.session \in Session
BY DEF LinkOK

LEMMA LinkGarbled ==
  ASSUME NEW l, LinkOK(l), NEW x, NEW m, m = [l EXCEPT !.garbled = x]
  PROVE  LinkOK(m) /\ m.c2s = l.c2s /\ m.s2c = l.s2c /\ m.outq = l.outq
<1>1. LinkIs(m, l.alive, l.c2s, l.s2c, x, l.session, l.outq)
  BY LinkParts, LinkChanged
<1> QED  BY <1>1, LinkParts, LinkFields

LEMMA LinkTaken ==
  ASSUME NEW l, LinkOK(l), NEW x, NEW y
  PROVE  LinkOK([l EXCEPT !.s2c = x, !.garbled = y])
<1> DEFINE m == [l EXCEPT !.s2c = x, !.garbled = y]
<1>1. LinkIs(m, l.alive, l.c2s, x, y, l.session, l.outq)
  BY LinkParts, LinkChanged
<1> HIDE DEF m
<1>2. LinkOK(m)  BY <1>1, LinkParts, LinkFields
<1> QED  BY <1>2 DEF m

LEMMA LinkServed ==
  ASSUME NEW l, LinkOK(l), NEW x, NEW y \in Session, NEW z
  PROVE  LinkOK([l EXCEPT !.c2s = x, !.session = y, !.outq = z])
<1> DEFINE m == [l EXCEPT !.c2s = x, !.session = y, !.outq = z]
<1>1. LinkIs(m, l.alive, x, l.s2c, l.garbled, y, z)
  BY LinkParts, LinkChanged
<1> HIDE DEF m
<1>2. LinkOK(m)  BY <1>1, LinkParts, LinkFields
<1> QED  BY <1>2 DEF m

LEMMA LinkWritten ==
  ASSUME NEW l, LinkOK(l), NEW x, NEW y
  PROVE  LinkOK([l EXCEPT !.outq = x, !.s2c = y])
<1> DEFINE m == [l EXCEPT !.outq = x, !.s2c = y]
<1>1. LinkIs(m, l.alive, l.c2s, y, l.garbled, l.session, x)
  BY LinkParts, LinkChanged
<1> HIDE DEF m
<1>2. LinkOK(m)  BY <1>1, LinkParts, LinkFields
<1> QED  BY <1>2 DEF m

LEMMA LinkDead ==
  ASSUME NEW l, LinkOK(l), NEW x, NEW m, m = [l EXCEPT !.alive = x]
  PROVE  LinkOK(m) /\ m.c2s = l.c2s /\ m.s2c = l.s2c /\ m.outq = l.outq
<1>1. LinkIs(m, x, l.c2s, l.s2c, l.garbled, l.session, l.outq)
  BY LinkParts, LinkChanged
<1> QED  BY <1>1, LinkParts, LinkFields

LEMMA NewLinkIs ==
  /\ NewLink.c2s = <<>> /\ NewLink.s2c = <<>> /\ NewLink.outq = <<>> /\ LinkOK(NewLink)
<1>1. LinkIs(NewLink, TRUE, <<>>, <<>>, FALSE, NewSession, <<>>)
  BY DEF LinkIs, NewLink
<1>2. NewSession \in Session  BY DEF NewSession, Session, SeqNumber
<1> QED  BY <1>1, <1>2, LinkFields

-----------------------------------------------------------------------------
(* What a step does to the lines of the connection when nobody uses it.     *)
SameLines ==
    link'.c2s = link.c2s /\ link'.s2c = link.s2c /\ link'.outq = link.outq

CutLines ==
    /\ link'.c2s = <<>> /\ link'.outq = <<>>
    /\ \E n \in 0 .. Len(link.s2c) : link'.s2c = SubSeq(link.s2c, 1, n)

LEMMA Cut ==
  ASSUME NEW S, NEW line \in Seq(S), NEW n \in 0 .. Len(line), NEW new,
         new = SubSeq(line, 1, n)
  PROVE  /\ new \in Seq(S) /\ Len(new) = n /\ DOMAIN new = 1 .. n
         /\ \A i \in 1 .. n : i \in DOMAIN line /\ new[i] = line[i]
<1>1. Len(line) \in Nat /\ n \in Nat /\ DOMAIN line = 1 .. Len(line)  OBVIOUS
<1>2. new = [i \in 1 .. n |-> line[i]]  BY <1>1
<1>3. \A i \in 1 .. n : i \in DOMAIN line /\ line[i] \in S  BY <1>1
<1>4. new = [i \in 1 .. n |-> new[i]] /\ \A i \in 1 .. n : new[i] \in S  BY <1>2, <1>3
<1>5. new \in Seq(S) /\ Len(new) = n /\ DOMAIN new = 1 .. n
  BY <1>1, <1>4, SeqFromElements
<1> QED  BY <1>2, <1>3, <1>5

LEMMA TailOf ==
  ASSUME NEW S, NEW line \in Seq(S), line # <<>>
  PROVE  /\ Tail(line) \in Seq(S) /\ Len(Tail(line)) = Len(line) - 1
         /\ Len(line) \in Nat \ {0} /\ DOMAIN line = 1 .. Len(line)
         /\ DOMAIN Tail(line) = 1 .. Len(line) - 1
         /\ Head(line) = line[1] /\ Head(line) \in S /\ 1 \in DOMAIN line
         /\ \A i \in DOMAIN Tail(line) : i + 1 \in DOMAIN line /\ Tail(line)[i] = line[i + 1]
OBVIOUS

LEMMA NewLinkCuts ==
  ASSUME NEW S, link.s2c \in Seq(S), link' = NewLink
  PROVE  CutLines /\ LinkOK(link')
<1>1. 0 \in 0 .. Len(link.s2c)  OBVIOUS
<1>2. Len(SubSeq(link.s2c, 1, 0)) = 0 /\ SubSeq(link.s2c, 1, 0) \in Seq(S)
  <2> DEFINE line == link.s2c
             new  == SubSeq(line, 1, 0)
  <2>1. line \in Seq(S) /\ 0 \in 0 .. Len(line)  BY <1>1
  <2> HIDE DEF line
  <2>2. new \in Seq(S) /\ Len(new) = 0  BY <2>1, Cut
  <2> QED  BY <2>2 DEF line
<1>3. SubSeq(link.s2c, 1, 0) = <<>>  BY <1>2
<1>4. link'.c2s = <<>> /\ link'.s2c = <<>> /\ link'.outq = <<>> /\ LinkOK(link')
  BY NewLinkIs
<1> QED  BY <1>1, <1>3, <1>4 DEF CutLines

LEMMA BrokenCuts ==
  ASSUME LinkOK(link), link' \in Broken
  PROVE  CutLines /\ LinkOK(link')
<1>1. PICK sent \in Prefixes(link.s2c) :
         link' = [link EXCEPT !.alive = FALSE, !.c2s = <<>>, !.outq = <<>>, !.s2c = sent]
  BY DEF Broken
<1>2. LinkIs(link, link.alive, link.c2s, link.s2c, link.garbled, link.session, link.outq)
      /\ link.session \in Session
  BY DEF LinkOK
<1>3. LinkIs(link', FALSE, <<>>, sent, link.garbled, link.session, <<>>)
  BY <1>1, <1>2, LinkBroken
<1>4. link'.c2s = <<>> /\ link'.outq = <<>> /\ link'.s2c = sent /\ LinkOK(link')
  <2>1. link'.c2s = <<>> /\ link'.outq = <<>> /\ link'.s2c = sent
    BY <1>3 DEF LinkIs
  <2>2. LinkOK(link')
    <3>1. ASSUME NEW l, LinkIs(l, FALSE, <<>>, sent, link.garbled, link.session, <<>>)
          PROVE  LinkOK(l)
      BY <1>2, <3>1 DEF LinkIs, LinkOK
    <3> QED  BY <1>3, <3>1
  <2> QED  BY <2>1, <2>2
<1>5. \E n \in 0 .. Len(link.s2c) : sent = SubSeq(link.s2c, 1, n)
  BY <1>1 DEF Prefixes
<1> QED  BY <1>4, <1>5 DEF CutLines

LEMMA OnlyStartupKept ==
  ASSUME OnlyStartup, SameLines \/ CutLines
  PROVE  OnlyStartup'
<1>1. CASE SameLines  BY <1>1 DEF OnlyStartup, SameLines, LinkRequests, Acks, Reset, Test
<1>2. CASE CutLines
  <2>1. PICK n \in 0 .. Len(link.s2c) : link'.s2c = SubSeq(link.s2c, 1, n)
    BY <1>2 DEF CutLines
  <2>2. link.s2c \in Seq(Acks)  BY DEF OnlyStartup
  <2>3. link'.s2c \in Seq(Acks)  BY <2>1, <2>2, Cut
  <2>4. <<>> \in Seq(LinkRequests) /\ <<>> \in Seq(Acks)  OBVIOUS
  <2> QED  BY <1>2, <2>3, <2>4 DEF OnlyStartup, CutLines
<1> QED  BY <1>1, <1>2

-----------------------------------------------------------------------------
(* An answer on its way, wherever the first of its segments is.             *)
OnItsWay ==
    \E start \in SeqNumber, v \in Reported(asked, db), offset \in Int :
       offset <= Len(master.re.buffer) /\ Answered(start, v, offset)

InRange ==
    \E start \in SeqNumber, v \in Reported(asked, db),
       offset \in -Len(link.s2c \o link.outq) .. Len(master.re.buffer) :
          Answered(start, v, offset)

LEMMA FirstParts ==
  ASSUME NEW re, NEW c, NEW start, HasFirst(re, c, start)
  PROVE  /\ re.buffer \in Seq({c}) /\ Len(re.buffer) \in Nat
         /\ re.buffer = <<>> => Len(re.buffer) = 0
         /\ re.buffer = <<>> \/ re.buffer # <<>>
<1>1. CASE re = NewReassembler  BY <1>1 DEF NewReassembler
<1>2. CASE re # NewReassembler  BY <1>2 DEF HasFirst
<1> QED  BY <1>1, <1>2

(* If all the answer is lost, any place will do.                            *)
LEMMA Narrowed == OnItsWay => InRange
<1> SUFFICES ASSUME OnItsWay PROVE InRange  OBVIOUS
<1>1. PICK start \in SeqNumber, v \in Reported(asked, db), offset \in Int :
         offset <= Len(master.re.buffer) /\ Answered(start, v, offset)
  BY DEF OnItsWay
<1> DEFINE s == link.s2c
           o == link.outq
           F == Acks \cup AnswerFrames(request, start, v)
           k == Len(master.re.buffer)
<1>2. /\ s \in Seq(F) /\ o \in Seq(F)
      /\ HasFirst(master.re, Chunk(request, v), start)
      /\ master.re.buffer # <<>> => offset = k
      /\ \A i \in DOMAIN s : IsAt(s[i], offset + i, start, v)
      /\ \A i \in DOMAIN o : IsAt(o[i], offset + Len(s) + i, start, v)
  BY <1>1 DEF Answered
<1>3. k \in Nat /\ (master.re.buffer = <<>> => k = 0)  BY <1>2, FirstParts
<1> HIDE DEF s, o, F
<1>4. Len(s) \in Nat /\ Len(o) \in Nat /\ Len(s \o o) = Len(s) + Len(o)
      /\ DOMAIN s = 1 .. Len(s) /\ DOMAIN o = 1 .. Len(o)
  BY <1>2, ConcatProperties
<1>5. CASE offset >= -Len(s \o o)
  <2>1. offset \in -Len(s \o o) .. k  BY <1>1, <1>3, <1>4, <1>5
  <2> QED  BY <1>1, <2>1 DEF InRange, s, o
<1>6. CASE offset < -Len(s \o o)
  <2>1. offset < 0 /\ master.re.buffer = <<>> /\ k = 0
    BY <1>2, <1>3, <1>4, <1>6
  <2>2. ASSUME NEW i \in DOMAIN s PROVE s[i] \in Acks
    <3>1. offset + i \notin 1 .. ResponseChunks  BY <1>4, <1>6
    <3> QED  BY <3>1, <1>2 DEF IsAt
  <2>3. ASSUME NEW i \in DOMAIN o PROVE o[i] \in Acks
    <3>1. offset + Len(s) + i \notin 1 .. ResponseChunks  BY <1>4, <1>6
    <3> QED  BY <3>1, <1>2 DEF IsAt
  <2>4. Answered(start, v, 0)
    <3>1. /\ \A i \in DOMAIN s : IsAt(s[i], 0 + i, start, v)
          /\ \A i \in DOMAIN o : IsAt(o[i], 0 + Len(s) + i, start, v)
      BY <2>2, <2>3 DEF IsAt
    <3> QED  BY <1>1, <2>1, <3>1 DEF Answered, s, o
  <2>5. 0 \in -Len(s \o o) .. k  BY <1>4, <2>1
  <2> QED  BY <2>4, <2>5 DEF InRange, s, o
<1> QED  BY <1>1, <1>4, <1>5, <1>6

LEMMA InRangeIs == InRange => OnItsWay
<1> SUFFICES ASSUME InRange PROVE OnItsWay  OBVIOUS
<1>1. PICK start \in SeqNumber, v \in Reported(asked, db),
           offset \in -Len(link.s2c \o link.outq) .. Len(master.re.buffer) :
              Answered(start, v, offset)
  BY DEF InRange
<1> QED  BY <1>1 DEF OnItsWay

(* The step leaves the poll under way as it is.                             *)
Rest == UNCHANGED <<request, asked, master>> /\ (db' = db \/ db' = db + 1)

LEMMA StillReported ==
  ASSUME NEW v, v \in Reported(asked, db), Rest, db \in Nat, asked \in 0 .. db
  PROVE  v \in Reported(asked, db)'
<1>1. asked .. db \subseteq asked' .. db'  BY DEF Rest
<1>2. Reported(asked, db) \subseteq Reported(asked', db')  BY <1>1 DEF Reported
<1> QED  BY <1>2

LEMMA OnItsWayKept ==
  ASSUME OnItsWay, Rest, db \in Nat, asked \in 0 .. db, SameLines \/ CutLines
  PROVE  OnItsWay'
<1>1. PICK start \in SeqNumber, v \in Reported(asked, db), offset \in Int :
         offset <= Len(master.re.buffer) /\ Answered(start, v, offset)
  BY DEF OnItsWay
<1>2. v \in Reported(asked, db)' /\ master' = master /\ request' = request
  BY StillReported DEF Rest
<1>3. CASE SameLines
  <2>1. Answered(start, v, offset)'
    BY <1>1, <1>2, <1>3 DEF Answered, SameLines, IsAt
  <2> QED  BY <1>1, <1>2, <2>1 DEF OnItsWay
<1>4. CASE CutLines
  <2>1. PICK n \in 0 .. Len(link.s2c) : link'.s2c = SubSeq(link.s2c, 1, n)
    BY <1>4 DEF CutLines
  <2> DEFINE F == Acks \cup AnswerFrames(request, start, v)
  <2>2. link.s2c \in Seq(F)  BY <1>1 DEF Answered
  <2> HIDE DEF F
  <2>3. /\ link'.s2c \in Seq(F) /\ DOMAIN link'.s2c = 1 .. n
        /\ \A i \in 1 .. n : i \in DOMAIN link.s2c /\ link'.s2c[i] = link.s2c[i]
    BY <2>1, <2>2, Cut
  <2>4. \A i \in DOMAIN link'.s2c : IsAt(link'.s2c[i], offset + i, start, v)
    BY <1>1, <2>3 DEF Answered
  <2>5. link'.c2s = <<>> /\ link'.outq = <<>> /\ <<>> \in Seq(F) /\ DOMAIN <<>> = {}
    BY <1>4 DEF CutLines
  <2>6. Answered(start, v, offset)'
    BY <1>1, <1>2, <2>3, <2>4, <2>5
    DEF Answered, F, IsAt
  <2> QED  BY <1>1, <1>2, <2>6 DEF OnItsWay
<1> QED  BY <1>3, <1>4

LEMMA UnansweredKept ==
  ASSUME Unanswered, Rest, SameLines \/ CutLines
  PROVE  Unanswered'
<1>1. CASE SameLines
  BY <1>1 DEF Unanswered, SameLines, Rest
<1>2. CASE CutLines
  <2>1. PICK n \in 0 .. Len(link.s2c) : link'.s2c = SubSeq(link.s2c, 1, n)
    BY <1>2 DEF CutLines
  <2>2. link.s2c \in Seq(Acks)  BY DEF Unanswered
  <2>3. link'.s2c \in Seq(Acks)  BY <2>1, <2>2, Cut
  <2>4. /\ <<>> \in Seq(Acks) /\ DOMAIN <<>> = {}
        /\ <<>> \in Seq(LinkRequests \cup PollFrames(request'))
    OBVIOUS
  <2>5. link'.c2s = <<>> /\ link'.outq = <<>> /\ master' = master
    BY <1>2 DEF CutLines, Rest
  <2> QED  BY <2>3, <2>4, <2>5 DEF Unanswered
<1> QED  BY <1>1, <1>2

(* Nobody used the connection, or it broke: the traffic fits as before.     *)
LEMMA TrafficKept ==
  ASSUME IInv, pc' = pc, Rest, SameLines \/ CutLines
  PROVE  Traffic'
<1>1. db \in Nat /\ asked \in 0 .. db  BY DEF IInv, TypeOK
<1>2. CASE pc # "awaitPoll"
  BY <1>2, OnlyStartupKept DEF IInv, Traffic, Rest
<1>3. CASE pc = "awaitPoll"
  <2>1. CASE Unanswered
    BY <1>3, <2>1, UnansweredKept DEF Traffic
  <2>2. CASE ~ Unanswered
    <3>1. OnItsWay
      <4>1. InRange  BY <1>3, <2>2 DEF IInv, Traffic, InRange
      <4> QED  BY <4>1, InRangeIs
    <3>2. OnItsWay'  BY <1>1, <3>1, OnItsWayKept
    <3>3. InRange'  BY <3>2, Narrowed, PTL
    <3> QED  BY <1>3, <3>3 DEF Traffic, InRange
  <2> QED  BY <2>1, <2>2
<1> QED  BY <1>2, <1>3

-----------------------------------------------------------------------------
(* A call fails.                                                            *)
LEMMA FailStartsOver ==
  ASSUME IInv, Fail
  PROVE  Traffic' /\ LinkOK(link')
<1>1. CASE pc \in Startup
  <2>1. pc' = "retry" /\ link' = link  BY <1>1 DEF Fail, GoTo
  <2>2. OnlyStartup /\ LinkOK(link)
    BY <1>1 DEF IInv, Traffic, Startup, LinkOK, LinkIs, Session
  <2>3. OnlyStartup'  BY <2>1, <2>2, OnlyStartupKept DEF SameLines
  <2> QED  BY <2>1, <2>2, <2>3 DEF Traffic
<1>2. CASE pc \notin Startup
  <2>1. pc' = "connect" /\ link' = NewLink  BY <1>2 DEF Fail, GoTo
  <2>2. <<>> \in Seq(LinkRequests) /\ <<>> \in Seq(Acks)  OBVIOUS
  <2>3. OnlyStartup'  BY <2>1, <2>2, NewLinkIs DEF OnlyStartup
  <2> QED  BY <2>1, <2>3, NewLinkIs DEF Traffic
<1> QED  BY <1>1, <1>2

LEMMA LinkNow ==
  ASSUME IInv
  PROVE  /\ LinkOK(link)
         /\ \E S : link.s2c \in Seq(S)
         /\ \E S : link.c2s \in Seq(S)
         /\ \E S : link.outq \in Seq(S)
<1>1. LinkOK(link)  BY DEF IInv, LinkOK, LinkIs, Session
<1>2. CASE pc # "awaitPoll"  BY <1>1, <1>2 DEF IInv, Traffic, OnlyStartup
<1>3. CASE pc = "awaitPoll" /\ Unanswered  BY <1>1, <1>3 DEF Unanswered
<1>4. CASE pc = "awaitPoll" /\ ~ Unanswered
  <2>1. PICK start, v, offset : Answered(start, v, offset)
    BY <1>4 DEF IInv, Traffic
  <2>2. link.c2s = <<>> /\ <<>> \in Seq({})  BY <2>1 DEF Answered
  <2>3. (\E S : link.s2c \in Seq(S)) /\ (\E S : link.outq \in Seq(S))
    BY <2>1 DEF Answered
  <2> QED  BY <1>1, <2>2, <2>3
<1> QED  BY <1>2, <1>3, <1>4

(* The client reconnects, silently or for the first time.                   *)
LEMMA NewLinkTraffic ==
  ASSUME IInv, pc' = pc, Rest, link' = NewLink
  PROVE  Traffic' /\ LinkOK(link')
<1>1. PICK S : link.s2c \in Seq(S)  BY LinkNow
<1>2. CutLines /\ LinkOK(link')  BY <1>1, NewLinkCuts
<1> QED  BY <1>2, TrafficKept

LEMMA ReconnectTraffic ==
  ASSUME IInv, ReconnectOnce, UNCHANGED <<db, asked, request>>
  PROVE  Traffic' /\ LinkOK(link')
<1>1. CASE Fail  BY <1>1, FailStartsOver
<1>2. CASE ~ Fail
  <2>1. pc' = pc /\ link' = NewLink /\ Rest  BY <1>2 DEF ReconnectOnce, Rest
  <2> QED  BY <2>1, NewLinkTraffic
<1> QED  BY <1>1, <1>2

(* The program goes on with a connection only link startup has used.        *)
LEMMA StillStartup ==
  ASSUME IInv, pc # "awaitPoll", pc' \notin {"sendPoll", "awaitPoll"}, link' = link
  PROVE  Traffic' /\ LinkOK(link')
<1>1. OnlyStartup'  BY OnlyStartupKept DEF IInv, Traffic, SameLines
<1> QED  BY <1>1, LinkNow DEF Traffic

LEMMA ConnectTraffic ==
  ASSUME IInv, Connect
  PROVE  Traffic' /\ LinkOK(link')
<1>1. link = NewLink /\ link' = NewLink  BY DEF IInv, TypeOK, Connect
<1>2. CASE pc = "connect"
  <2>1. pc' = "sendReset"  BY <1>2 DEF Connect, GoTo
  <2> QED  BY <1>1, <1>2, <2>1, StillStartup
<1>3. CASE pc # "connect"
  <2>1. pc' = pc /\ Rest  BY <1>3 DEF Connect, Rest
  <2> QED  BY <1>1, <2>1, NewLinkTraffic
<1> QED  BY <1>2, <1>3

LEMMA BeginPollTraffic ==
  ASSUME IInv, BeginPoll
  PROVE  Traffic' /\ LinkOK(link')
<1>1. pc = "sleep" /\ pc' = "sendPoll" /\ link' = link
      /\ master' = StartPoll(master, Style, Own).master
  BY DEF BeginPoll, GoTo
<1>2. master'.re = NewReassembler
  <2>1. master.aseq \in AppSequence /\ master.tseq \in SeqNumber
        /\ master = [aseq |-> master.aseq, tseq |-> master.tseq, re |-> master.re]
    BY DEF IInv, TypeOK, AppSequence
  <2>2. master' = [aseq |-> (master.aseq + 1) % AppSeqSpace,
                   tseq |-> (master.tseq + 1) % SeqSpace,
                   re   |-> NewReassembler]
    BY <1>1, <2>1, BegunPoll
  <2> QED  BY <2>2
<1>3. OnlyStartup'
  BY <1>1, OnlyStartupKept DEF IInv, Traffic, SameLines
<1> QED  BY <1>1, <1>2, <1>3, LinkNow DEF Traffic

(* The master sends a frame; into a dead connection, it goes nowhere.       *)
LEMMA WriteLines ==
  ASSUME IInv, Write
  PROVE  /\ LinkOK(link') /\ link'.s2c = link.s2c /\ link'.outq = link.outq
         /\ link'.c2s = link.c2s \/ link'.c2s = Append(link.c2s, FrameToSend)
<1> DEFINE c == Append(link.c2s, FrameToSend)
<1>1. link' = link \/ link' = [link EXCEPT !.c2s = c]
  BY DEF Write
<1>2. LinkOK(link)  BY LinkNow
<1> HIDE DEF c
<1>3. CASE link' = link  BY <1>2, <1>3
<1>4. CASE link' = [link EXCEPT !.c2s = c]
  <2>1. LinkIs(link, link.alive, link.c2s, link.s2c, link.garbled, link.session, link.outq)
        /\ link.session \in Session
    BY <1>2 DEF LinkOK
  <2>2. LinkIs(link', link.alive, c, link.s2c, link.garbled,
               link.session, link.outq)
    BY <1>4, <2>1, LinkChanged
  <2>3. LinkOK(link') /\ link'.s2c = link.s2c /\ link'.outq = link.outq
        /\ link'.c2s = c
    BY <2>1, <2>2, LinkFields
  <2> QED  BY <2>3 DEF c
<1> QED  BY <1>1, <1>3, <1>4

LEMMA WriteTraffic ==
  ASSUME IInv, Write
  PROVE  Traffic' /\ LinkOK(link')
<1>1. OnlyStartup /\ pc \in Sending /\ pc' = AfterSending
      /\ master' = master /\ request' = request
  BY DEF IInv, Traffic, Write, Sending, GoTo
<1>2. /\ LinkOK(link') /\ link'.s2c = link.s2c /\ link'.outq = link.outq
      /\ link'.c2s = link.c2s \/ link'.c2s = Append(link.c2s, FrameToSend)
  BY WriteLines
<1>3. /\ link.c2s \in Seq(LinkRequests) /\ link.outq \in Seq(Acks)
      /\ link.s2c \in Seq(Acks)
  BY <1>1 DEF OnlyStartup
<1>4. CASE pc # "sendPoll"
  <2>1. FrameToSend \in LinkRequests
    BY <1>1, <1>4 DEF Sending, FrameToSend, LinkRequests, Reset, Test
  <2>2. link'.c2s \in Seq(LinkRequests)
    <3> DEFINE line  == link.c2s
               after == link'.c2s
               f     == FrameToSend
    <3>1. /\ line \in Seq(LinkRequests) /\ f \in LinkRequests
          /\ after = line \/ after = Append(line, f)
      BY <1>2, <1>3, <2>1
    <3> HIDE DEF line, after, f
    <3>2. after \in Seq(LinkRequests)  BY <3>1
    <3> QED  BY <3>2 DEF after
  <2>3. pc' \notin {"sendPoll", "awaitPoll"}
    BY <1>1, <1>4 DEF Sending, AfterSending
  <2> QED  BY <1>2, <1>3, <2>2, <2>3 DEF Traffic, OnlyStartup
<1>5. CASE pc = "sendPoll"
  <2> DEFINE P == PollFrames(request)
             line == link.c2s
             f == FrameToSend
             after == link'.c2s
  <2>1. pc' = "awaitPoll"  BY <1>1, <1>5 DEF AfterSending
  <2>2. master'.re = NewReassembler  BY <1>1, <1>5 DEF IInv, Traffic
  <2>3. f \in P
    <3>1. f = PollFrame(request, master.tseq + SeqSpace - 1)
      BY <1>5 DEF FrameToSend, PollFrame
    <3>2. master.tseq + SeqSpace - 1 \in 0 .. 2 * SeqSpace
      BY DEF IInv, TypeOK, SeqNumber
    <3> QED  BY <3>1, <3>2 DEF PollFrames
  <2>4. line \in Seq(LinkRequests) /\ (after = line \/ after = Append(line, f))
    BY <1>2, <1>3
  <2> HIDE DEF P, f, line, after
  <2>5. /\ after \in Seq(LinkRequests \cup P)
        /\ \A i \in DOMAIN after : i < Len(after) => after[i] \in LinkRequests
    <3>1. /\ line \in Seq(LinkRequests \cup P) /\ Len(line) \in Nat
          /\ DOMAIN line = 1 .. Len(line)
          /\ \A i \in DOMAIN line : line[i] \in LinkRequests
      BY <2>4, SeqWidens
    <3>2. CASE after = line  BY <3>1, <3>2
    <3>3. CASE after = Append(line, f)
      <4>1. /\ after \in Seq(LinkRequests \cup P) /\ Len(after) = Len(line) + 1
            /\ DOMAIN after = 1 .. Len(line) + 1
            /\ \A i \in DOMAIN line : after[i] = line[i]
        BY <2>3, <3>1, <3>3
      <4>2. ASSUME NEW i \in DOMAIN after, i < Len(after)
            PROVE  after[i] \in LinkRequests
        <5>1. i \in DOMAIN line  BY <4>1, <4>2, <3>1
        <5> QED  BY <5>1, <3>1, <4>1
      <4> QED  BY <4>1, <4>2
    <3> QED  BY <2>4, <3>2, <3>3
  <2>6. Unanswered'
    BY <1>1, <1>2, <1>3, <2>2, <2>5 DEF Unanswered, P, after
  <2> QED  BY <1>2, <2>1, <2>6 DEF Traffic
<1> QED  BY <1>4, <1>5

-----------------------------------------------------------------------------
(* The master takes a frame off the line.                                   *)
LEMMA ReadLines ==
  ASSUME IInv, Read
  PROVE  /\ LinkOK(link')
         /\ \/ ~ connected' /\ link' = NewLink
            \/ /\ connected' /\ link'.c2s = link.c2s /\ link'.outq = link.outq
               /\ link'.s2c = Tail(link.s2c)
<1> DEFINE t == Tail(link.s2c)
<1>1. link' = IF connected' THEN [link EXCEPT !.s2c = t] ELSE NewLink
  BY DEF Read
<1>2. /\ LinkIs(link, link.alive, link.c2s, link.s2c, link.garbled, link.session, link.outq)
      /\ link.session \in Session
  BY LinkNow DEF LinkOK
<1> HIDE DEF t
<1>3. CASE ~ connected'  BY <1>1, <1>3, NewLinkIs
<1>4. CASE connected'
  <2>1. link' = [link EXCEPT !.s2c = t]  BY <1>1, <1>4
  <2>2. LinkIs(link', link.alive, link.c2s, t, link.garbled, link.session, link.outq)
    BY <1>2, <2>1, LinkChanged
  <2>3. LinkOK(link') /\ link'.c2s = link.c2s /\ link'.outq = link.outq /\ link'.s2c = t
    BY <1>2, <2>2, LinkFields
  <2> QED  BY <1>4, <2>3 DEF t
<1> QED  BY <1>3, <1>4

LEMMA EmptyLines ==
  ASSUME link' = NewLink, pc' \notin {"sendPoll", "awaitPoll"}
  PROVE  Traffic'
<1>1. <<>> \in Seq(LinkRequests) /\ <<>> \in Seq(Acks)  OBVIOUS
<1> QED  BY <1>1, NewLinkIs DEF Traffic, OnlyStartup

(* What is left behind the frame that completes the answer.                 *)
LEMMA NothingBehind ==
  ASSUME NEW line, NEW S, line \in Seq(Acks \cup S), NEW start, NEW v, NEW place \in Int,
         place >= ResponseChunks,
         \A i \in DOMAIN line : IsAt(line[i], place + i, start, v)
  PROVE  line \in Seq(Acks)
<1>1. Len(line) \in Nat /\ DOMAIN line = 1 .. Len(line)
      /\ line = [i \in 1 .. Len(line) |-> line[i]]
  OBVIOUS
<1>2. ASSUME NEW i \in 1 .. Len(line) PROVE line[i] \in Acks
  <2>1. place + i \notin 1 .. ResponseChunks  BY <1>1, ResponseAssumption
  <2> QED  BY <2>1, <1>1 DEF IsAt
<1> QED  BY <1>1, <1>2, SeqFromElements

LEMMA NowAhead ==
  ASSUME NEW line, NEW S, line \in Seq(S), line # <<>>, NEW start, NEW v,
         NEW place \in Int, \A i \in DOMAIN line : IsAt(line[i], place + i, start, v)
  PROVE  /\ IsAt(Head(line), place + 1, start, v)
         /\ \A i \in DOMAIN Tail(line) : IsAt(Tail(line)[i], (place + 1) + i, start, v)
<1>1. IsAt(Head(line), place + 1, start, v)  BY TailOf
<1>2. ASSUME NEW i \in DOMAIN Tail(line)
      PROVE  IsAt(Tail(line)[i], (place + 1) + i, start, v)
  <2>1. i + 1 \in DOMAIN line /\ Tail(line)[i] = line[i + 1] /\ i \in Nat
    BY TailOf
  <2>2. IsAt(line[i + 1], place + (i + 1), start, v)  BY <2>1
  <2>3. place + (i + 1) = (place + 1) + i  BY <2>1
  <2> QED  BY <2>1, <2>2, <2>3
<1> QED  BY <1>1, <1>2

(* What a read does to a poll: it fails, goes on, or is answered.           *)
PollFails ==
    pc' = "connect" /\ connected' = FALSE /\ link' = NewLink /\ view' = view
    /\ master' = [master EXCEPT !.re = NewReassembler] /\ outcome' = "failed"

PollGoesOn ==
    pc' = "awaitPoll" /\ UNCHANGED <<connected, view, outcome>>
    /\ master' = [master EXCEPT !.re = master'.re] /\ InRange'

PollIsAnswered(v) ==
    /\ pc' = "sleep" /\ outcome' = "ok" /\ connected' = connected
    /\ view' = v.version /\ v.decodable
    /\ master' = [master EXCEPT !.re = NewReassembler]
    /\ Answer \in Seq({Chunk(request, v)}) /\ Len(Answer) = ResponseChunks
    /\ OnlyStartup'

PollStep == PollFails \/ PollGoesOn \/ \E v \in Reported(asked, db) : PollIsAnswered(v)

LEMMA ErrorRead ==
  ASSUME IInv, Read, pc = "awaitPoll",
         ReceiveApplication(master, Head(link.s2c)).result = "error"
  PROVE  PollFails
<1>1. RejectAnswer(Head(link.s2c))
  <2>1. ~ LinkAnswer(Head(link.s2c))  BY DEF LinkAnswer
  <2>2. ~ ContinuePoll(Head(link.s2c)) /\ ~ CompletePoll(Head(link.s2c))
    BY DEF ContinuePoll, CompletePoll
  <2> QED  BY <2>1, <2>2 DEF Read
<1> QED  BY <1>1, ReadLines DEF RejectAnswer, PollFails, GoTo

LEMMA AckRead ==
  ASSUME IInv, Read, pc = "awaitPoll", Head(link.s2c) \in Acks
  PROVE  PollFails
<1>1. ReceiveApplication(master, Head(link.s2c)).result = "error"
  BY ReceivedAck DEF Reception
<1> QED  BY <1>1, ErrorRead

LEMMA AnswerRead ==
  ASSUME IInv, Read, pc = "awaitPoll",
         NEW start \in SeqNumber, NEW v \in Reported(asked, db), NEW offset \in Int,
         offset <= Len(master.re.buffer), Answered(start, v, offset)
  PROVE  PollStep
<1> DEFINE f == Head(link.s2c)
           s == link.s2c
           o == link.outq
           F == Acks \cup AnswerFrames(request, start, v)
           c == Chunk(request, v)
           k == Len(master.re.buffer)
           j == offset + 1
           received == ReceiveApplication(master, f)
<1>1. /\ HasFirst(master.re, c, start) /\ link.c2s = <<>>
      /\ master.re.buffer # <<>> => offset = k
      /\ s \in Seq(F) /\ o \in Seq(F)
      /\ \A i \in DOMAIN s : IsAt(s[i], offset + i, start, v)
      /\ \A i \in DOMAIN o : IsAt(o[i], offset + Len(s) + i, start, v)
  BY DEF Answered
<1>2. s # <<>> /\ (RejectAnswer(f) \/ ContinuePoll(f) \/ CompletePoll(f))
      /\ UNCHANGED <<db, asked, request>> /\ connected
  BY DEF Read, LinkAnswer
<1>3. IsAt(f, j, start, v)
      /\ \A i \in DOMAIN Tail(s) : IsAt(Tail(s)[i], j + i, start, v)
  <2> HIDE DEF s, F
  <2>1. IsAt(Head(s), offset + 1, start, v)
        /\ \A i \in DOMAIN Tail(s) : IsAt(Tail(s)[i], (offset + 1) + i, start, v)
    BY <1>1, <1>2, NowAhead
  <2> QED  BY <2>1 DEF s
<1>4. Tail(s) \in Seq(F) /\ Len(Tail(s)) = Len(s) - 1 /\ Len(s) \in Nat \ {0}
  BY <1>1, <1>2, TailOf
<1>5. \A i \in DOMAIN o : IsAt(o[i], (j + Len(Tail(s))) + i, start, v)
  <2> DEFINE t == Tail(s)
  <2>0. Len(t) = Len(s) - 1 /\ Len(s) \in Nat  BY <1>4
  <2> HIDE DEF t, s
  <2>1. j + Len(t) = offset + Len(s)  BY <2>0
  <2> QED  BY <1>1, <2>1 DEF t
<1>6. CASE f \in Acks  BY <1>6, AckRead DEF PollStep
<1>7. CASE f \notin Acks
  <2>1. j \in 1 .. ResponseChunks /\ f = AnswerFrame(request, start, v, j)
    BY <1>3, <1>7 DEF IsAt
  <2>2. j = k + 1
    <3>1. k \in Nat /\ (master.re.buffer = <<>> => k = 0)  BY <1>1, FirstParts
    <3> HIDE DEF k
    <3> QED  BY <1>1, <2>1, <3>1 DEF k
  <2> HIDE DEF f, j, received
  <2>3. PICK all \in Seq({c}) :
           /\ Len(all) = j
           /\ j = ResponseChunks =>
                 \/ v.decodable
                    /\ received = Reception([master EXCEPT !.re = NewReassembler], "answer", all)
                 \/ received = Reception([master EXCEPT !.re = NewReassembler], "error", all)
           /\ j # ResponseChunks =>
                 received = Reception([master EXCEPT !.re = [expected |-> (start + j) % SeqSpace,
                                                             buffer   |-> all]],
                                      "continue", <<>>)
    <3>1. j \in 1 .. ResponseChunks /\ j = Len(master.re.buffer) + 1
      BY <2>1, <2>2
    <3>2. LongerBy(master, ReceiveApplication(master, AnswerFrame(request, start, v, j)),
                   Chunk(request, v), v, start, j)
      BY <1>1, <3>1, ReceivedInTurn
    <3>3. LongerBy(master, received, c, v, start, j)  BY <2>1, <3>2 DEF received
    <3> QED  BY <3>3 DEF LongerBy
  <2>e. CASE received = Reception([master EXCEPT !.re = NewReassembler], "error", all)
    <3>1. received.result = "error"  BY <2>e DEF Reception
    <3> QED  BY <3>1, ErrorRead DEF received, f, PollStep
  <2>4. CASE j = ResponseChunks
             /\ received # Reception([master EXCEPT !.re = NewReassembler], "error", all)
    <3>1. /\ received = Reception([master EXCEPT !.re = NewReassembler], "answer", all)
          /\ v.decodable
      BY <2>3, <2>4
    <3>2. received.result = "answer" /\ received.data = all
          /\ received.master = [master EXCEPT !.re = NewReassembler]
      BY <3>1 DEF Reception
    <3>3. CompletePoll(f)
      BY <1>2, <3>2 DEF RejectAnswer, ContinuePoll, received
    <3>4. /\ master' = received.master
          /\ view' \in {list.version : list \in received.data[1].points}
          /\ outcome' = "ok" /\ pc' = "sleep" /\ connected' = connected
      BY <3>3 DEF CompletePoll, GoTo, received
    <3>5. all[1] = c
      <4>1. Len(all) \in Nat \ {0}  BY <2>1, <2>3
      <4>2. 1 \in DOMAIN all  BY <4>1
      <4> QED  BY <4>2
    <3>6. view' = v.version  BY <3>2, <3>4, <3>5 DEF Chunk
    <3>7. Answer = all  BY <3>2 DEF Answer, received, f
    <3>8. OnlyStartup'
      <4>1. link'.c2s = <<>> /\ link'.outq = o /\ link'.s2c = Tail(s)
        BY <1>1, <1>2, <3>4, ReadLines
      <4>2. Tail(s) \in Seq(Acks)
        <5>1. j \in Int /\ j >= ResponseChunks  BY <2>1, <2>4, ResponseAssumption
        <5> DEFINE t == Tail(s)
        <5>2. t \in Seq(F) /\ \A i \in DOMAIN t : IsAt(t[i], j + i, start, v)
          BY <1>3, <1>4
        <5> HIDE DEF t
        <5>3. t \in Seq(Acks)  BY <5>1, <5>2, NothingBehind
        <5> QED  BY <5>3 DEF t
      <4>3. o \in Seq(Acks)
        <5> DEFINE place == j + Len(Tail(s))
        <5>1. place \in Int /\ place >= ResponseChunks
          BY <2>1, <2>4, <1>4, ResponseAssumption
        <5>2. \A i \in DOMAIN o : IsAt(o[i], place + i, start, v)  BY <1>5
        <5> HIDE DEF place, o
        <5> QED  BY <5>1, <5>2, <1>1, NothingBehind
      <4>4. <<>> \in Seq(LinkRequests)  OBVIOUS
      <4> QED  BY <4>1, <4>2, <4>3, <4>4 DEF OnlyStartup
    <3>9. PollIsAnswered(v)
      BY <2>3, <2>4, <3>1, <3>2, <3>4, <3>6, <3>7, <3>8 DEF PollIsAnswered
    <3> QED  BY <3>9 DEF PollStep
  <2>5. CASE j # ResponseChunks
    <3> DEFINE re == [expected |-> (start + j) % SeqSpace, buffer |-> all]
    <3>1. received = Reception([master EXCEPT !.re = re], "continue", <<>>)
      BY <2>3, <2>5
    <3>2. received.result = "continue" /\ received.master = [master EXCEPT !.re = re]
      BY <3>1 DEF Reception
    <3>3. ContinuePoll(f)
      BY <1>2, <3>2 DEF RejectAnswer, CompletePoll, received
    <3>4. /\ master' = [master EXCEPT !.re = re] /\ pc' = "awaitPoll"
          /\ UNCHANGED <<connected, view, outcome>>
      BY <3>2, <3>3 DEF ContinuePoll, GoTo, received
    <3>5. master'.re = re
      <4>1. master = [aseq |-> master.aseq, tseq |-> master.tseq, re |-> master.re]
        BY DEF IInv
      <4>2. master' = [aseq |-> master.aseq, tseq |-> master.tseq, re |-> re]
        BY <3>4, <4>1, MasterTypes
      <4> QED  BY <4>2
    <3>6. Answered(start, v, j)'
      <4>1. link'.c2s = <<>> /\ link'.outq = o /\ link'.s2c = Tail(s)
        BY <1>1, <1>2, <3>4, ReadLines
      <4>2. re.buffer = all /\ Len(re.buffer) = j /\ re.buffer \in Seq({c})
            /\ re = [expected |-> (start + Len(re.buffer)) % SeqSpace, buffer |-> re.buffer]
        BY <2>3
      <4>3. re.buffer # <<>>
        <5>1. Len(all) # 0  BY <2>1, <2>3
        <5> QED  BY <5>1
      <4>4. HasFirst(re, c, start)  BY <4>2, <4>3 DEF HasFirst
      <4> HIDE DEF re
      <4>5. /\ \A i \in DOMAIN link'.s2c : IsAt(link'.s2c[i], j + i, start, v)
            /\ \A i \in DOMAIN link'.outq :
                  IsAt(link'.outq[i], j + Len(link'.s2c) + i, start, v)
        BY <1>3, <1>5, <4>1
      <4>6. request' = request  BY <1>2
      <4> QED
        BY <1>1, <1>4, <3>5, <4>1, <4>2, <4>4, <4>5, <4>6 DEF Answered, IsAt
    <3>7. j \in Int /\ j <= Len(master'.re.buffer) /\ v \in Reported(asked, db)'
      BY <1>2, <2>1, <2>3, <3>5
    <3>8. OnItsWay'  BY <3>6, <3>7 DEF OnItsWay
    <3>9. InRange'  BY <3>8, Narrowed, PTL
    <3> HIDE DEF re
    <3>10. PollGoesOn  BY <3>4, <3>5, <3>9 DEF PollGoesOn
    <3> QED  BY <3>10 DEF PollStep
  <2> QED  BY <2>e, <2>4, <2>5
<1> QED  BY <1>6, <1>7

LEMMA PollRead ==
  ASSUME IInv, Read, pc = "awaitPoll"
  PROVE  PollStep
<1>1. CASE Unanswered
  <2>1. link.s2c \in Seq(Acks) /\ link.s2c # <<>>  BY <1>1 DEF Unanswered, Read
  <2>2. Head(link.s2c) \in Acks  BY <2>1
  <2> QED  BY <2>2, AckRead DEF PollStep
<1>2. CASE ~ Unanswered
  <2>1. InRange  BY <1>2 DEF IInv, Traffic, InRange
  <2>2. OnItsWay  BY <2>1, InRangeIs
  <2>3. PICK start \in SeqNumber, v \in Reported(asked, db), offset \in Int :
           offset <= Len(master.re.buffer) /\ Answered(start, v, offset)
    BY <2>2 DEF OnItsWay
  <2> QED  BY <2>3, AnswerRead
<1> QED  BY <1>1, <1>2

LEMMA ReadTraffic ==
  ASSUME IInv, Read
  PROVE  Traffic' /\ LinkOK(link')
<1>1. CASE pc = "awaitPoll"
  <2>1. CASE PollFails  BY <2>1, EmptyLines, NewLinkIs DEF PollFails
  <2>2. CASE PollGoesOn  BY <2>2, ReadLines DEF PollGoesOn, Traffic, InRange
  <2>3. CASE \E v \in Reported(asked, db) : PollIsAnswered(v)
    BY <2>3, ReadLines DEF PollIsAnswered, Traffic
  <2> QED  BY <1>1, <2>1, <2>2, <2>3, PollRead DEF PollStep
<1>2. CASE pc # "awaitPoll"
  <2>1. LinkAnswer(Head(link.s2c)) /\ link.s2c # <<>> /\ connected
    BY <1>2 DEF Read, RejectAnswer, ContinuePoll, CompletePoll
  <2>2. pc' \notin {"sendPoll", "awaitPoll"} /\ connected'
    BY <2>1 DEF LinkAnswer, GoTo
  <2>3. OnlyStartup  BY <1>2 DEF IInv, Traffic
  <2>4. Tail(link.s2c) \in Seq(Acks)
    BY <2>1, <2>3, TailOf DEF OnlyStartup
  <2>5. LinkOK(link') /\ link'.c2s = link.c2s /\ link'.outq = link.outq
        /\ link'.s2c = Tail(link.s2c)
    BY <2>2, ReadLines
  <2>6. OnlyStartup'  BY <2>3, <2>4, <2>5 DEF OnlyStartup
  <2> QED  BY <2>2, <2>5, <2>6 DEF Traffic
<1> QED  BY <1>1, <1>2

-----------------------------------------------------------------------------
LEMMA TimeoutTraffic ==
  ASSUME IInv, Timeout
  PROVE  Traffic' /\ LinkOK(link')
<1>1. CASE pc \in Startup
  <2>1. pc' = "retry" /\ link' \in AfterTimeout  BY <1>1 DEF Timeout, GoTo
  <2>2. OnlyStartup  BY <1>1 DEF IInv, Traffic, Startup
  <2>3. LinkOK(link)  BY LinkNow
  <2>t. PICK t : t = Tail(link.s2c)  OBVIOUS
  <2>4. \/ link' = link
        \/ link' = [link EXCEPT !.s2c = t, !.garbled = FALSE] /\ link.s2c # <<>>
        \/ link' = [link EXCEPT !.garbled = TRUE]
    BY <2>1, <2>t DEF AfterTimeout
  <2>5. CASE link' = link
    BY <2>1, <2>2, <2>5, LinkNow, OnlyStartupKept DEF SameLines, Traffic
  <2>6. CASE link' = [link EXCEPT !.garbled = TRUE]
    <3>2. LinkOK(link') /\ SameLines  BY <2>3, <2>6, LinkGarbled DEF SameLines
    <3>3. OnlyStartup'  BY <2>2, <3>2, OnlyStartupKept
    <3> QED  BY <2>1, <3>2, <3>3 DEF Traffic
  <2>7. CASE link' = [link EXCEPT !.s2c = t, !.garbled = FALSE] /\ link.s2c # <<>>
    <3>2. /\ LinkOK(link') /\ link'.c2s = link.c2s /\ link'.outq = link.outq
          /\ link'.s2c = t
      <4>1. LinkOK(link')  BY <2>3, <2>7, LinkTaken
      <4>2. link'.c2s = link.c2s /\ link'.outq = link.outq /\ link'.s2c = t
        BY <2>3, <2>7 DEF LinkOK, LinkIs
      <4> QED  BY <4>1, <4>2
    <3>3. t \in Seq(Acks)  BY <2>2, <2>7, <2>t, TailOf DEF OnlyStartup
    <3>4. OnlyStartup'  BY <2>2, <3>2, <3>3 DEF OnlyStartup
    <3> QED  BY <2>1, <3>2, <3>4 DEF Traffic
  <2> QED  BY <2>4, <2>5, <2>6, <2>7
<1>2. CASE pc \notin Startup
  <2>1. Fail  BY <1>2 DEF Timeout
  <2> QED  BY <2>1, FailStartsOver
<1> QED  BY <1>1, <1>2

(* The outstation handles a frame.                                          *)
LEMMA ServerReadLines ==
  ASSUME IInv, ServerRead, Handled.session \in Session
  PROVE  /\ LinkOK(link') /\ link'.c2s = Tail(link.c2s) /\ link'.s2c = link.s2c
         /\ link'.outq = Handled.responses
<1>1. LinkOK(link)  BY LinkNow
<1>2. PICK c, e, o : /\ c = Tail(link.c2s) /\ e = Handled.session
                     /\ o = Handled.responses
  OBVIOUS
<1>3. link' = [link EXCEPT !.c2s = c, !.session = e, !.outq = o]
  BY <1>2 DEF ServerRead
<1>4. e \in Session  BY <1>2
<1>5. LinkOK(link')  BY <1>1, <1>3, <1>4, LinkServed
<1>6. link'.c2s = c /\ link'.s2c = link.s2c /\ link'.outq = o
  BY <1>1, <1>3 DEF LinkOK, LinkIs
<1> QED  BY <1>2, <1>5, <1>6

LEMMA LinkHandled ==
  ASSUME NEW s \in Session, NEW f \in LinkRequests, NEW database
  PROVE  /\ HandleFrame(s, f, database).session \in Session
         /\ HandleFrame(s, f, database).responses \in Seq(Acks)
BY HandledReset, HandledTest DEF LinkRequests

LEMMA RequestServed ==
  ASSUME IInv, ServerRead, Head(link.c2s) \in LinkRequests
  PROVE  /\ LinkOK(link') /\ link'.c2s = Tail(link.c2s) /\ link'.s2c = link.s2c
         /\ link'.outq \in Seq(Acks)
<1> DEFINE f == Head(link.c2s)
<1>1. link.session \in Session  BY LinkNow DEF LinkOK
<1>2. Handled.session \in Session /\ Handled.responses \in Seq(Acks)
  BY <1>1, LinkHandled DEF Handled
<1> QED  BY <1>2, ServerReadLines

LEMMA PollServed ==
  ASSUME IInv, ServerRead, pc = "awaitPoll", Unanswered,
         Head(link.c2s) \in PollFrames(request)
  PROVE  (InRange' \/ Unanswered') /\ LinkOK(link')
<1> DEFINE f == Head(link.c2s)
           p == Database(db, contents).points
           encodable == Database(db, contents).encodable
           start == link.session.tseq
           w == WholeAnswer(request, start, p)
           s == link.s2c
           F == AnswerFrames(request, start, p)
<1>1. /\ link.session \in Session /\ db \in Nat /\ asked \in 0 .. db
      /\ request \in AppSequence /\ link.c2s # <<>>
      /\ UNCHANGED <<pc, master, request, asked, db>>
  BY LinkNow DEF LinkOK, IInv, TypeOK, ServerRead, ServerHasFrame
<1>2. /\ Database(db, contents) = [points |-> p, encodable |-> encodable]
      /\ encodable \in BOOLEAN /\ p \in Reported(asked, db)
  <2>1. db \in asked .. db  BY <1>1
  <2> QED  BY <2>1 DEF Database, Reported
<1> HIDE DEF p, encodable
<1>3. /\ Handled.session \in Session
      /\ encodable => Handled.responses = w
      /\ ~ encodable => Handled.responses = <<>>
  BY <1>1, <1>2, HandledPoll DEF Handled
<1>4. /\ LinkOK(link') /\ link'.c2s = Tail(link.c2s) /\ link'.s2c = s
      /\ encodable => link'.outq = w
      /\ ~ encodable => link'.outq = <<>>
  BY <1>3, ServerReadLines
<1>5. start \in SeqNumber  BY <1>1 DEF Session
<1>6. Tail(link.c2s) = <<>>
  <2> DEFINE line == link.c2s
  <2>1. /\ line \in Seq(LinkRequests \cup PollFrames(request)) /\ line # <<>>
        /\ \A i \in DOMAIN line : i < Len(line) => line[i] \in LinkRequests
    BY <1>1 DEF Unanswered
  <2>2. f = Head(line) /\ f \notin LinkRequests
    <3>1. f \in AnyPoll  BY <1>1 DEF AnyPoll
    <3> QED  BY <3>1, PollsAre DEF LinkRequests
  <2> HIDE DEF line, f
  <2>3. /\ Len(line) \in Nat \ {0} /\ 1 \in DOMAIN line /\ f = line[1]
        /\ Tail(line) \in Seq(LinkRequests \cup PollFrames(request))
        /\ Len(Tail(line)) = Len(line) - 1
    BY <2>1, <2>2, TailOf
  <2>4. Len(line) = 1  BY <2>1, <2>2, <2>3
  <2>5. Len(Tail(line)) = 0  BY <2>3, <2>4
  <2>6. Tail(line) = <<>>  BY <2>3, <2>5
  <2> QED  BY <2>6 DEF line
<1>7. w \in Seq(F) /\ DOMAIN w = 1 .. ResponseChunks
      /\ \A i \in 1 .. ResponseChunks : w[i] = AnswerFrame(request, start, p, i)
  <2>1. w = [j \in 1 .. ResponseChunks |-> AnswerFrame(request, start, p, j)]
    BY DEF WholeAnswer
  <2>2. \A j \in 1 .. ResponseChunks :
           w[j] = AnswerFrame(request, start, p, j) /\ w[j] \in F
    BY <2>1 DEF AnswerFrames
  <2> HIDE DEF w, F
  <2>3. w = [j \in 1 .. ResponseChunks |-> w[j]]  BY <2>1, <2>2
  <2>4. ResponseChunks \in Nat  BY ResponseAssumption
  <2> QED  BY <2>2, <2>3, <2>4, SeqFromElements
<1>8. s \in Seq(Acks) /\ Len(s) \in Nat /\ \A i \in DOMAIN s : s[i] \in Acks
  BY DEF Unanswered
<1>9. s \in Seq(Acks \cup F) /\ w \in Seq(Acks \cup F)  BY <1>7, <1>8, SeqWidens
<1>s. CASE ~ encodable
  <2>1. <<>> \in Seq(LinkRequests \cup PollFrames(request')) /\ <<>> \in Seq(Acks)
        /\ DOMAIN <<>> = {}
    OBVIOUS
  <2>2. Unanswered'  BY <1>1, <1>4, <1>6, <1>8, <1>s, <2>1 DEF Unanswered
  <2> QED  BY <1>4, <2>2
<1>e. SUFFICES ASSUME encodable PROVE InRange' /\ LinkOK(link')  BY <1>s
<1>10. PICK a \in SeqNumber, v \in Reported(asked, db), offset \in Int :
          a = start /\ v = p /\ offset = -Len(s)
  <2>1. -Len(s) \in Int  BY <1>8
  <2> QED  BY <1>2, <1>5, <2>1
<1> HIDE DEF s, F, start
<1>11. \A i \in DOMAIN s : IsAt(s[i], offset + i, a, v)  BY <1>8 DEF IsAt
<1>12. \A i \in DOMAIN w : IsAt(w[i], offset + Len(s) + i, a, v)
  <2>1. \A i \in 1 .. ResponseChunks : offset + Len(s) + i = i
    BY <1>8, <1>10, ResponseAssumption
  <2> HIDE DEF w
  <2> QED  BY <1>7, <1>10, <2>1 DEF IsAt
<1>13. HasFirst(master'.re, Chunk(request', v), a) /\ master'.re.buffer = <<>>
  BY <1>1 DEF Unanswered, HasFirst, NewReassembler
<1> HIDE DEF w
<1>14. link'.c2s = <<>> /\ link'.s2c = s /\ link'.outq = w /\ request' = request
  BY <1>1, <1>4, <1>6, <1>e
<1>15. F = AnswerFrames(request, a, v)  BY <1>10 DEF F
<1>16. Answered(a, v, offset)'
  BY <1>9, <1>11, <1>12, <1>13, <1>14, <1>15 DEF Answered, IsAt
<1>17. offset <= Len(master'.re.buffer)
  <2>1. Len(master'.re.buffer) = 0  BY <1>13
  <2>2. offset <= 0  BY <1>8, <1>10
  <2> QED  BY <2>1, <2>2
<1>18. v \in Reported(asked, db)'  BY <1>1 DEF Reported
<1>19. OnItsWay'  BY <1>16, <1>17, <1>18 DEF OnItsWay
<1>20. InRange'  BY <1>19, Narrowed, PTL
<1> QED  BY <1>4, <1>20

LEMMA ServerReadTraffic ==
  ASSUME IInv, ServerRead
  PROVE  Traffic' /\ LinkOK(link')
<1>1. link.c2s # <<>> /\ UNCHANGED <<pc, master, request, asked, db>>
  BY DEF ServerRead, ServerHasFrame
<1>2. CASE pc # "awaitPoll"
  <2>1. /\ link.c2s \in Seq(LinkRequests) /\ link.s2c \in Seq(Acks)
    BY <1>2 DEF IInv, Traffic, OnlyStartup
  <2>2. Head(link.c2s) \in LinkRequests /\ Tail(link.c2s) \in Seq(LinkRequests)
    BY <1>1, <2>1, TailOf
  <2>3. OnlyStartup' /\ LinkOK(link')  BY <2>1, <2>2, RequestServed DEF OnlyStartup
  <2> QED  BY <1>1, <1>2, <2>3 DEF IInv, Traffic
<1>3. CASE pc = "awaitPoll"
  <2>1. Unanswered
    <3>1. SUFFICES ASSUME ~ Unanswered PROVE FALSE  OBVIOUS
    <3>2. \E start, v, offset : Answered(start, v, offset)
      BY <1>3, <3>1 DEF IInv, Traffic
    <3> QED  BY <1>1, <3>2 DEF Answered
  <2>2. CASE Head(link.c2s) \in LinkRequests
    <3> DEFINE line == link.c2s
               S == LinkRequests \cup PollFrames(request)
    <3>1. /\ LinkOK(link') /\ link'.c2s = Tail(line) /\ link'.s2c = link.s2c
          /\ link'.outq \in Seq(Acks)
      BY <2>2, RequestServed
    <3>2. /\ line \in Seq(S) /\ line # <<>> /\ link.s2c \in Seq(Acks)
          /\ \A i \in DOMAIN line : i < Len(line) => line[i] \in LinkRequests
      BY <1>1, <2>1 DEF Unanswered
    <3> HIDE DEF line, S
    <3>3. /\ Tail(line) \in Seq(S) /\ Len(line) \in Nat
          /\ Len(Tail(line)) = Len(line) - 1 /\ DOMAIN Tail(line) = 1 .. Len(line) - 1
          /\ \A i \in DOMAIN Tail(line) : i + 1 \in DOMAIN line /\ Tail(line)[i] = line[i + 1]
      BY <3>2, TailOf
    <3>4. ASSUME NEW i \in DOMAIN Tail(line), i < Len(Tail(line))
          PROVE  Tail(line)[i] \in LinkRequests
      <4>1. i + 1 < Len(line)  BY <3>3, <3>4
      <4> QED  BY <3>2, <3>3, <4>1
    <3>5. Unanswered'
      BY <1>1, <2>1, <3>1, <3>2, <3>3, <3>4 DEF Unanswered, S
    <3> QED  BY <1>1, <1>3, <3>1, <3>5 DEF Traffic
  <2>3. CASE Head(link.c2s) \notin LinkRequests
    <3>1. link.c2s \in Seq(LinkRequests \cup PollFrames(request))
      BY <2>1 DEF Unanswered
    <3>2. Head(link.c2s) \in PollFrames(request)
      BY <1>1, <2>3, <3>1, TailOf
    <3>3. (InRange' \/ Unanswered') /\ LinkOK(link')  BY <1>3, <2>1, <3>2, PollServed
    <3> QED  BY <1>1, <1>3, <3>3 DEF Traffic, InRange
  <2> QED  BY <2>2, <2>3
<1> QED  BY <1>2, <1>3

-----------------------------------------------------------------------------
(* The outstation writes a frame of its answer.                             *)
LEMMA ServerWriteLines ==
  ASSUME IInv, ServerWrite
  PROVE  /\ LinkOK(link') /\ link'.c2s = link.c2s
         /\ link'.outq = Tail(link.outq) /\ link'.s2c = Append(link.s2c, Head(link.outq))
<1>1. LinkOK(link)  BY LinkNow
<1>2. PICK o, s : o = Tail(link.outq) /\ s = Append(link.s2c, Head(link.outq))
  OBVIOUS
<1>3. link' = [link EXCEPT !.outq = o, !.s2c = s]
  BY <1>2 DEF ServerWrite
<1>5. LinkOK(link')  BY <1>1, <1>3, LinkWritten
<1>6. link'.c2s = link.c2s /\ link'.outq = o /\ link'.s2c = s
  BY <1>1, <1>3 DEF LinkOK, LinkIs
<1> QED  BY <1>2, <1>5, <1>6

LEMMA Moved ==
  ASSUME NEW S, NEW T, NEW line \in Seq(S), NEW queue \in Seq(T), queue # <<>>, T \subseteq S
  PROVE  /\ Append(line, Head(queue)) \in Seq(S)
         /\ Len(line) \in Nat /\ DOMAIN line = 1 .. Len(line)
         /\ Len(Append(line, Head(queue))) = Len(line) + 1
         /\ DOMAIN Append(line, Head(queue)) = 1 .. Len(line) + 1
         /\ \A i \in DOMAIN line : Append(line, Head(queue))[i] = line[i]
         /\ Append(line, Head(queue))[Len(line) + 1] = Head(queue)
<1> DEFINE h == Head(queue)
<1>1. h \in S  BY TailOf
<1> HIDE DEF h
<1>2. /\ Append(line, h) \in Seq(S)
      /\ Len(line) \in Nat /\ DOMAIN line = 1 .. Len(line)
      /\ Len(Append(line, h)) = Len(line) + 1
      /\ DOMAIN Append(line, h) = 1 .. Len(line) + 1
      /\ \A i \in DOMAIN line : Append(line, h)[i] = line[i]
      /\ Append(line, h)[Len(line) + 1] = h
  BY <1>1
<1> QED  BY <1>2 DEF h

LEMMA AnswerWritten ==
  ASSUME IInv, ServerWrite, OnItsWay
  PROVE  OnItsWay'
<1>1. PICK start \in SeqNumber, v \in Reported(asked, db), offset \in Int :
         offset <= Len(master.re.buffer) /\ Answered(start, v, offset)
  BY DEF OnItsWay
<1> DEFINE s == link.s2c
           o == link.outq
           F == Acks \cup AnswerFrames(request, start, v)
           t == Append(s, Head(o))
<1>2. /\ s \in Seq(F) /\ o \in Seq(F) /\ o # <<>> /\ link.c2s = <<>>
      /\ \A i \in DOMAIN s : IsAt(s[i], offset + i, start, v)
      /\ \A i \in DOMAIN o : IsAt(o[i], offset + Len(s) + i, start, v)
  BY <1>1 DEF Answered, ServerWrite
<1>3. UNCHANGED <<master, request, asked, db>>  BY DEF ServerWrite
<1>4. link'.c2s = <<>> /\ link'.outq = Tail(o) /\ link'.s2c = t
  BY <1>2, ServerWriteLines
<1> HIDE DEF s, o, F
<1>5. /\ t \in Seq(F) /\ Len(s) \in Nat /\ DOMAIN s = 1 .. Len(s) /\ Len(t) = Len(s) + 1
      /\ DOMAIN t = 1 .. Len(s) + 1 /\ t[Len(s) + 1] = Head(o)
      /\ \A i \in DOMAIN s : t[i] = s[i]
  BY <1>2, Moved
<1>6. /\ Tail(o) \in Seq(F)
      /\ IsAt(Head(o), (offset + Len(s)) + 1, start, v)
      /\ \A i \in DOMAIN Tail(o) :
            IsAt(Tail(o)[i], ((offset + Len(s)) + 1) + i, start, v)
  <2> DEFINE place == offset + Len(s)
  <2>1. place \in Int /\ \A i \in DOMAIN o : IsAt(o[i], place + i, start, v)
    BY <1>2, <1>5
  <2> HIDE DEF place
  <2>2. /\ IsAt(Head(o), place + 1, start, v)
        /\ \A i \in DOMAIN Tail(o) : IsAt(Tail(o)[i], (place + 1) + i, start, v)
    BY <1>2, <2>1, NowAhead
  <2> QED  BY <1>2, <2>2, TailOf DEF place
<1> HIDE DEF t
<1>7. \A i \in DOMAIN t : IsAt(t[i], offset + i, start, v)
  <2> SUFFICES ASSUME NEW i \in DOMAIN t PROVE IsAt(t[i], offset + i, start, v)
    OBVIOUS
  <2>1. CASE i \in DOMAIN s  BY <1>2, <1>5, <2>1
  <2>2. CASE i = Len(s) + 1
    <3>1. offset + i = (offset + Len(s)) + 1  BY <1>5, <2>2
    <3> QED  BY <3>1, <1>5, <1>6, <2>2
  <2> QED  BY <1>5, <2>1, <2>2
<1>8. \A i \in DOMAIN Tail(o) : IsAt(Tail(o)[i], offset + Len(t) + i, start, v)
  <2>1. (offset + Len(s)) + 1 = offset + Len(t)  BY <1>5
  <2> QED  BY <1>6, <2>1
<1>9. Answered(start, v, offset)'
  BY <1>1, <1>3, <1>4, <1>5, <1>6, <1>7, <1>8 DEF Answered, IsAt, F
<1> QED  BY <1>1, <1>3, <1>9 DEF OnItsWay

LEMMA ServerWriteTraffic ==
  ASSUME IInv, ServerWrite
  PROVE  Traffic' /\ LinkOK(link')
<1>1. link.outq # <<>> /\ UNCHANGED <<pc, master, request, asked, db>>
  BY DEF ServerWrite
<1>2. /\ LinkOK(link') /\ link'.c2s = link.c2s
      /\ link'.outq = Tail(link.outq) /\ link'.s2c = Append(link.s2c, Head(link.outq))
  BY ServerWriteLines
<1>3. ASSUME link.s2c \in Seq(Acks), link.outq \in Seq(Acks)
      PROVE  link'.s2c \in Seq(Acks) /\ link'.outq \in Seq(Acks)
  BY <1>1, <1>2, <1>3, Moved, TailOf
<1>4. CASE pc # "awaitPoll"
  <2>1. OnlyStartup  BY <1>4 DEF IInv, Traffic
  <2>2. OnlyStartup'  BY <1>2, <1>3, <2>1 DEF OnlyStartup
  <2> QED  BY <1>1, <1>2, <1>4, <2>2 DEF IInv, Traffic
<1>5. CASE pc = "awaitPoll" /\ Unanswered
  <2>1. Unanswered'  BY <1>1, <1>2, <1>3, <1>5 DEF Unanswered
  <2> QED  BY <1>1, <1>2, <1>5, <2>1 DEF Traffic
<1>6. CASE pc = "awaitPoll" /\ ~ Unanswered
  <2>1. InRange  BY <1>6 DEF IInv, Traffic, InRange
  <2>2. OnItsWay'  BY <2>1, InRangeIs, AnswerWritten
  <2>3. InRange'  BY <2>2, Narrowed, PTL
  <2> QED  BY <1>1, <1>2, <1>6, <2>3 DEF Traffic, InRange
<1> QED  BY <1>4, <1>5, <1>6

LEMMA IdleCloseTraffic ==
  ASSUME IInv, IdleClose
  PROVE  Traffic' /\ LinkOK(link')
<1>1. LinkOK(link) /\ link' = [link EXCEPT !.alive = FALSE]  BY LinkNow DEF IdleClose
<1>2. LinkOK(link') /\ SameLines  BY <1>1, LinkDead DEF SameLines
<1>3. pc' = pc /\ Rest  BY DEF IdleClose, Rest
<1> QED  BY <1>2, <1>3, TrafficKept

LEMMA BrokenTraffic ==
  ASSUME IInv, pc' = pc, Rest, link' \in Broken \/ link' = link
  PROVE  Traffic' /\ LinkOK(link')
<1>1. CASE link' \in Broken  BY <1>1, LinkNow, BrokenCuts, TrafficKept
<1>2. CASE link' = link  BY <1>2, LinkNow, TrafficKept DEF SameLines
<1> QED  BY <1>1, <1>2

LEMMA TrafficStep == IInv /\ [Next]_vars => Traffic' /\ LinkOK(link')
<1> SUFFICES ASSUME IInv, [Next]_vars PROVE Traffic' /\ LinkOK(link')  OBVIOUS
<1>1. CASE AlreadyConnected
  BY <1>1, StillStartup DEF AlreadyConnected, GoTo
<1>2. CASE Retry
  BY <1>2, StillStartup DEF Retry, GoTo
<1>3. CASE ConnectFails  BY <1>3, FailStartsOver DEF ConnectFails
<1>4. CASE WriteFails  BY <1>4, ReconnectTraffic DEF WriteFails
<1>5. CASE ReadFails  BY <1>5, ReconnectTraffic DEF ReadFails
<1>6. CASE Break  BY <1>6, BrokenTraffic DEF Break, Rest
<1>7. CASE Crash  BY <1>7, BrokenTraffic DEF Crash, Rest
<1>p. CASE ServerPanics  BY <1>p, BrokenTraffic DEF ServerPanics, Rest
<1>8. CASE Restart  BY <1>8, BrokenTraffic DEF Restart, Rest
<1>9. CASE Update \/ Poison  BY <1>9, BrokenTraffic DEF Update, Poison, Rest
<1>10. CASE UNCHANGED vars  BY <1>10, BrokenTraffic DEF vars, Rest
<1> QED
  BY <1>1, <1>2, <1>3, <1>4, <1>5, <1>6, <1>7, <1>p, <1>8, <1>9, <1>10, ConnectTraffic,
     BeginPollTraffic, WriteTraffic, ReadTraffic, TimeoutTraffic, ServerReadTraffic,
     ServerWriteTraffic, IdleCloseTraffic
  DEF Next, MasterStep, ServerStep

-----------------------------------------------------------------------------
(* Types, the control state first.                                          *)
ControlOK ==
    /\ pc \in Startup \cup {"retry", "sendPoll", "awaitPoll", "sleep"}
    /\ retried \in BOOLEAN /\ connected \in BOOLEAN /\ up \in BOOLEAN
    /\ retried => pc \in Sending \cup Waiting
    /\ ~ connected => link = NewLink

Numbers ==
    /\ request \in AppSequence
    /\ master = [aseq |-> master.aseq, tseq |-> master.tseq, re |-> master.re]
    /\ master.aseq \in AppSequence /\ master.tseq \in SeqNumber
    /\ db \in Nat /\ asked \in 0 .. db /\ view \in 0 .. db
    /\ outcome \in {"none", "ok", "failed"}
    /\ faults \in 0 .. MaxFaults

ContentsOK == contents \in Contents \cup {"poisoned"}

LEMMA Types ==
  IInv <=> ControlOK /\ Numbers /\ ContentsOK /\ LinkOK(link) /\ Traffic
BY DEF IInv, TypeOK, ControlOK, Numbers, ContentsOK, LinkOK, LinkIs, AppSequence, Session

LEMMA ContentsStep == IInv /\ [Next]_vars => ContentsOK'
<1> SUFFICES ASSUME IInv, [Next]_vars PROVE ContentsOK'  OBVIOUS
<1>0. ContentsOK  BY Types
<1>1. CASE Update  BY <1>1 DEF Update, AfterCommand, ContentsOK
<1>2. CASE Crash  BY <1>2 DEF Crash, ContentsOK
<1>3. CASE Poison  BY <1>3 DEF Poison, ContentsOK
<1>4. CASE UNCHANGED contents  BY <1>0, <1>4 DEF ContentsOK
<1>5. UNCHANGED contents \/ Update \/ Crash \/ Poison
  BY DEF Next, MasterStep, ServerStep, Connect, AlreadyConnected, ConnectFails, Retry,
         BeginPoll, Write, WriteFails, Read, ReadFails, Timeout, ServerRead, ServerPanics,
         ServerWrite, IdleClose, Restart, Break, vars
<1> QED  BY <1>1, <1>2, <1>3, <1>4, <1>5

(* A failed call, and one that reconnects.                                  *)
LEMMA FailControl ==
  ASSUME ControlOK, pc \in {"connect"} \cup Sending \cup Waiting, Fail, up' = up
  PROVE  ControlOK'
BY DEF ControlOK, Fail, GoTo, Startup, Sending, Waiting

LEMMA ReconnectControl ==
  ASSUME ControlOK, pc \in Sending \cup Waiting, ReconnectOnce, up' = up
  PROVE  ControlOK'
<1>1. CASE retried  BY <1>1, FailControl DEF ReconnectOnce
<1>2. CASE ~ retried
  BY <1>2 DEF ReconnectOnce, ControlOK
<1> QED  BY <1>1, <1>2 DEF ControlOK

LEMMA ControlStep == IInv /\ [Next]_vars => ControlOK'
<1> SUFFICES ASSUME IInv, [Next]_vars PROVE ControlOK'  OBVIOUS
<1>0. ControlOK  BY Types
<1>1. CASE Connect
  BY <1>0, <1>1 DEF ControlOK, Connect, GoTo, Startup, Sending, Waiting
<1>2. CASE AlreadyConnected
  BY <1>0, <1>2 DEF ControlOK, AlreadyConnected, GoTo, Startup, Sending
<1>3. CASE ConnectFails  BY <1>0, <1>3, FailControl DEF ConnectFails
<1>4. CASE Retry  BY <1>0, <1>4 DEF ControlOK, Retry, GoTo, Startup
<1>5. CASE BeginPoll  BY <1>0, <1>5 DEF ControlOK, BeginPoll, GoTo
<1>6. CASE Write
  BY <1>0, <1>6 DEF ControlOK, Write, AfterSending, GoTo, Startup, Sending, Waiting
<1>7. CASE WriteFails  BY <1>0, <1>7, ReconnectControl DEF WriteFails
<1>8. CASE Read
  <2>1. UNCHANGED up /\ connected  BY <1>8 DEF Read
  <2>2. link' = NewLink \/ connected'  BY <1>8 DEF Read
  <2>3. retried' = FALSE /\ connected' \in BOOLEAN
        /\ pc' \in {"retry", "sendTest", "sleep", "connect", "awaitPoll"}
    <3>1. PICK f : LinkAnswer(f) \/ RejectAnswer(f) \/ ContinuePoll(f) \/ CompletePoll(f)
      BY <1>8 DEF Read
    <3> QED
      BY <1>0, <3>1
      DEF LinkAnswer, RejectAnswer, ContinuePoll, CompletePoll, GoTo, ControlOK
  <2> QED  BY <1>0, <2>1, <2>2, <2>3 DEF ControlOK, Startup
<1>9. CASE ReadFails  BY <1>0, <1>9, ReconnectControl DEF ReadFails
<1>10. CASE Timeout
  <2>1. CASE pc \in Startup
    BY <1>0, <1>10, <2>1 DEF ControlOK, Timeout, GoTo, Startup
  <2>2. CASE pc \notin Startup
    BY <1>0, <1>10, <2>2, FailControl DEF Timeout
  <2> QED  BY <2>1, <2>2
<1>11. CASE ServerRead \/ ServerPanics
  BY <1>0, <1>11 DEF ControlOK, ServerRead, ServerPanics, ServerHasFrame
<1>12. CASE ServerWrite  BY <1>0, <1>12 DEF ControlOK, ServerWrite
<1>13. CASE IdleClose  BY <1>0, <1>13 DEF ControlOK, IdleClose
<1>14. CASE Break  BY <1>0, <1>14 DEF ControlOK, Break
<1>15. CASE Crash  BY <1>0, <1>15 DEF ControlOK, Crash
<1>16. CASE Restart  BY <1>0, <1>16 DEF ControlOK, Restart
<1>17. CASE Update \/ Poison  BY <1>0, <1>17 DEF ControlOK, Update, Poison
<1>18. CASE UNCHANGED vars  BY <1>0, <1>18 DEF ControlOK, vars
<1> QED
  BY <1>1, <1>2, <1>3, <1>4, <1>5, <1>6, <1>7, <1>8, <1>9, <1>10, <1>11, <1>12,
     <1>13, <1>14, <1>15, <1>16, <1>17, <1>18 DEF Next, MasterStep, ServerStep

(* A step of the program that starts no poll and completes none.            *)
LEMMA NumbersKept ==
  ASSUME Numbers, UNCHANGED <<asked, request>>,
         \/ UNCHANGED master
         \/ master' = NewMaster
         \/ master' = [master EXCEPT !.re = master'.re],
         outcome' \in {"none", "ok", "failed"},
         db' = db \/ db' = db + 1, view' \in 0 .. db',
         faults' \in 0 .. MaxFaults
  PROVE  Numbers'
<1>1. /\ master' = [aseq |-> master'.aseq, tseq |-> master'.tseq, re |-> master'.re]
      /\ master'.aseq \in AppSequence /\ master'.tseq \in SeqNumber
  <2>1. CASE master' = master  BY <2>1 DEF Numbers
  <2>2. CASE master' = NewMaster
    BY <2>2, AppSeqAssumption DEF NewMaster, AppSequence, SeqNumber
  <2>3. CASE master' = [master EXCEPT !.re = master'.re]
    <3>1. master = [aseq |-> master.aseq, tseq |-> master.tseq, re |-> master.re]
      BY DEF Numbers
    <3>2. master' = [aseq |-> master.aseq, tseq |-> master.tseq, re |-> master'.re]
      BY <2>3, <3>1, MasterTypes
    <3> QED  BY <3>2 DEF Numbers
  <2> QED  BY <2>1, <2>2, <2>3
<1>2. db' \in Nat /\ asked' \in 0 .. db'  BY DEF Numbers
<1> QED  BY <1>1, <1>2 DEF Numbers

LEMMA FaultCounts ==
  ASSUME Numbers, Fault \/ UNCHANGED faults
  PROVE  faults' \in 0 .. MaxFaults
BY BoundsAssumption DEF Numbers, Fault

LEMMA FailNumbers ==
  ASSUME Numbers, Fail, UNCHANGED <<asked, request, db, view>>,
         faults' \in 0 .. MaxFaults
  PROVE  Numbers'
<1>1. outcome \in {"none", "ok", "failed"} /\ view' \in 0 .. db'  BY DEF Numbers
<1>2. CASE pc \in Startup
  BY <1>1, <1>2, NumbersKept DEF Fail
<1>3. CASE pc \notin Startup
  <2>1. master' = [master EXCEPT !.re = NewReassembler] /\ outcome' = "failed"
    BY <1>3 DEF Fail
  <2>2. master = [aseq |-> master.aseq, tseq |-> master.tseq, re |-> master.re]
    BY DEF Numbers
  <2>3. master'.re = NewReassembler  BY <2>1, <2>2, MasterTypes
  <2> QED  BY <1>1, <2>1, <2>3, NumbersKept
<1> QED  BY <1>2, <1>3

LEMMA ReconnectNumbers ==
  ASSUME Numbers, ReconnectOnce, UNCHANGED <<asked, request, db, view, faults>>
  PROVE  Numbers'
<1>1. outcome \in {"none", "ok", "failed"} /\ view' \in 0 .. db'
      /\ faults' \in 0 .. MaxFaults
  BY DEF Numbers
<1>2. CASE Fail  BY <1>1, <1>2, FailNumbers
<1>3. CASE ~ Fail
  <2>1. UNCHANGED <<master, outcome>>  BY <1>3 DEF ReconnectOnce
  <2> QED  BY <1>1, <2>1, NumbersKept
<1> QED  BY <1>2, <1>3

LEMMA BeginPollNumbers ==
  ASSUME Numbers, BeginPoll
  PROVE  Numbers'
<1> DEFINE a == (master.aseq + 1) % AppSeqSpace
           t == (master.tseq + 1) % SeqSpace
<1>1. /\ master' = StartPoll(master, Style, Own).master
      /\ request' = master.aseq /\ asked' = db
      /\ UNCHANGED <<view, outcome, db, faults>>
  BY DEF BeginPoll
<1>2. master' = [aseq |-> a, tseq |-> t, re |-> NewReassembler]
  BY <1>1, BegunPoll DEF Numbers
<1>3. a \in AppSequence
  <2>1. master.aseq + 1 \in Nat  BY DEF Numbers, AppSequence
  <2> QED  BY <2>1, AppSeqAssumption, DivMod DEF AppSequence
<1>4. t \in SeqNumber
  <2>1. master.tseq + 1 \in Nat  BY DEF Numbers, SeqNumber
  <2> QED  BY <2>1, IsNumber
<1> HIDE DEF a, t
<1>5. /\ master' = [aseq |-> master'.aseq, tseq |-> master'.tseq, re |-> master'.re]
      /\ master'.aseq \in AppSequence /\ master'.tseq \in SeqNumber
  BY <1>2, <1>3, <1>4
<1> QED  BY <1>1, <1>5 DEF Numbers

LEMMA ReadNumbers ==
  ASSUME IInv, Read
  PROVE  Numbers'
<1>1. /\ Numbers /\ UNCHANGED <<asked, request, db, faults>>
      /\ outcome \in {"none", "ok", "failed"} /\ faults' \in 0 .. MaxFaults
      /\ view \in 0 .. db /\ db \in Nat /\ asked \in 0 .. db
      /\ master = [aseq |-> master.aseq, tseq |-> master.tseq, re |-> master.re]
  BY Types DEF Read, Numbers
<1>2. CASE pc = "awaitPoll"
  <2>1. ASSUME master' = [master EXCEPT !.re = NewReassembler]
        PROVE  master' = [master EXCEPT !.re = master'.re]
    <3>1. master'.re = NewReassembler  BY <1>1, <2>1, MasterTypes
    <3> QED  BY <2>1, <3>1
  <2>2. CASE PollFails  BY <1>1, <2>1, <2>2, NumbersKept DEF PollFails
  <2>3. CASE PollGoesOn  BY <1>1, <2>3, NumbersKept DEF PollGoesOn
  <2>4. ASSUME NEW v \in Reported(asked, db), PollIsAnswered(v)
        PROVE  Numbers'
    <3>1. view' \in 0 .. db'
      <4>1. view' \in asked .. db  BY <2>4 DEF PollIsAnswered, Reported
      <4> QED  BY <1>1, <4>1
    <3> QED  BY <1>1, <2>1, <2>4, <3>1, NumbersKept DEF PollIsAnswered
  <2> QED  BY <1>2, <2>2, <2>3, <2>4, PollRead DEF PollStep
<1>3. CASE pc # "awaitPoll"
  <2>1. LinkAnswer(Head(link.s2c))
    BY <1>3 DEF Read, RejectAnswer, ContinuePoll, CompletePoll
  <2>2. UNCHANGED <<view, outcome>> /\ (master' = master \/ master' = NewMaster)
    BY <2>1 DEF LinkAnswer
  <2> QED  BY <1>1, <2>2, NumbersKept
<1> QED  BY <1>2, <1>3

LEMMA NumbersStep == IInv /\ [Next]_vars => Numbers'
<1> SUFFICES ASSUME IInv, [Next]_vars PROVE Numbers'  OBVIOUS
<1>1. /\ Numbers /\ outcome \in {"none", "ok", "failed"} /\ view \in 0 .. db
      /\ db \in Nat /\ faults \in 0 .. MaxFaults
  BY Types DEF Numbers
<1>2. CASE BeginPoll  BY <1>1, <1>2, BeginPollNumbers
<1>3. CASE Read  BY <1>3, ReadNumbers
<1>4. CASE ConnectFails
  <2>1. faults' \in 0 .. MaxFaults  BY <1>1, <1>4, FaultCounts DEF ConnectFails
  <2> QED  BY <1>1, <1>4, <2>1, FailNumbers DEF ConnectFails
<1>5. CASE WriteFails \/ ReadFails
  BY <1>1, <1>5, ReconnectNumbers DEF WriteFails, ReadFails
<1>6. CASE Timeout
  <2>1. faults' \in 0 .. MaxFaults  BY <1>1, <1>6, FaultCounts DEF Timeout
  <2>2. CASE pc \in Startup
    BY <1>1, <1>6, <2>1, <2>2, NumbersKept DEF Timeout
  <2>3. CASE pc \notin Startup
    BY <1>1, <1>6, <2>1, <2>3, FailNumbers DEF Timeout
  <2> QED  BY <2>2, <2>3
<1>7. CASE Connect \/ AlreadyConnected \/ Retry \/ Write
  BY <1>1, <1>7, NumbersKept DEF Connect, AlreadyConnected, Retry, Write
<1>8. CASE ServerStep \/ Restart \/ UNCHANGED vars
  BY <1>1, <1>8, NumbersKept
  DEF ServerStep, ServerRead, ServerPanics, ServerWrite, Restart, vars
<1>9. CASE IdleClose \/ Break
  <2>1. faults' \in 0 .. MaxFaults  BY <1>1, <1>9, FaultCounts DEF IdleClose, Break
  <2> QED  BY <1>1, <1>9, <2>1, NumbersKept DEF IdleClose, Break
<1>10. CASE Crash \/ Update \/ Poison
  <2>1. faults' \in 0 .. MaxFaults
    BY <1>1, <1>10, FaultCounts DEF Crash, Update, Poison
  <2>2. db' = db + 1 /\ UNCHANGED <<master, asked, request, view, outcome>>
    BY <1>10 DEF Crash, Update, Poison
  <2>3. view' \in 0 .. db'  BY <1>1, <2>2
  <2> QED  BY <1>1, <2>1, <2>2, <2>3, NumbersKept
<1> QED
  BY <1>2, <1>3, <1>4, <1>5, <1>6, <1>7, <1>8, <1>9, <1>10
  DEF Next, MasterStep

-----------------------------------------------------------------------------
LEMMA Initially == Init => IInv
<1> SUFFICES ASSUME Init PROVE IInv  OBVIOUS
<1>1. ControlOK  BY DEF Init, ControlOK, Startup
<1>2. master = [aseq |-> 0, tseq |-> 0, re |-> NewReassembler]
  BY DEF Init, NewMaster
<1>3. Numbers
  <2>1. 0 \in AppSequence /\ 0 \in SeqNumber /\ 0 \in 0 .. MaxFaults
    BY AppSeqAssumption, BoundsAssumption DEF AppSequence, SeqNumber
  <2> QED  BY <1>2, <2>1 DEF Init, Numbers
<1>4. OnlyStartup
  <2>1. <<>> \in Seq(LinkRequests) /\ <<>> \in Seq(Acks)  OBVIOUS
  <2> QED  BY <2>1, NewLinkIs DEF Init, OnlyStartup
<1>5. Traffic /\ LinkOK(link)  BY <1>4, NewLinkIs DEF Init, Traffic
<1>6. ContentsOK  BY DEF Init, ContentsOK
<1> QED  BY <1>1, <1>3, <1>5, <1>6, Types

(* In every state what is on its way fits the place the master is at: before *)
(* a poll nothing but frames of link startup is on the connection.          *)
THEOREM Invariance == Spec => []IInv
<1>1. IInv /\ [Next]_vars => IInv'
  <2> SUFFICES ASSUME IInv, [Next]_vars PROVE IInv'  OBVIOUS
  <2>1. ControlOK' /\ Numbers' /\ ContentsOK' /\ Traffic' /\ LinkOK(link)'
    BY ControlStep, NumbersStep, ContentsStep, TrafficStep
  <2> QED  BY <2>1, Types, PTL
<1> QED  BY <1>1, Initially, PTL DEF Spec

(* The types of the program, and what it relies on without looking.         *)
THEOREM TypeCorrectness == Spec => []TypeOK
<1>1. IInv => TypeOK  BY DEF IInv
<1> QED  BY <1>1, Invariance, PTL

(* The only step from a waiting poll to rest reads the end of an answer.    *)
LEMMA OnlyAnswersComplete ==
  ASSUME IInv, [Next]_vars, pc = "awaitPoll", pc' = "sleep"
  PROVE  \E v \in Reported(asked, db) : PollIsAnswered(v)
<1>1. Read
  <2>1. ~ (AlreadyConnected \/ Retry \/ BeginPoll \/ Write \/ WriteFails)
    BY DEF AlreadyConnected, Retry, BeginPoll, Write, WriteFails, Sending
  <2>2. ~ Fail  BY DEF Fail, GoTo, Startup
  <2>3. ~ (Connect \/ ConnectFails \/ ReadFails \/ Timeout)
    BY <2>2 DEF Connect, ConnectFails, ReadFails, Timeout, ReconnectOnce, Startup
  <2>4. ~ (ServerStep \/ IdleClose \/ Restart \/ Break \/ Crash \/ Update
             \/ Poison \/ UNCHANGED vars)
    BY DEF ServerStep, ServerRead, ServerPanics, ServerWrite, IdleClose, Restart, Break,
           Crash, Update, Poison, vars
  <2> QED  BY <2>1, <2>3, <2>4 DEF Next, MasterStep
<1> QED  BY <1>1, PollRead DEF PollStep, PollFails, PollGoesOn

(* What integrity_poll accepts is the whole answer to the poll it sent,     *)
(* however long: TCP loses nothing within a connection, and a connection    *)
(* never outlives a poll that failed.                                       *)
THEOREM AnswersThePoll == Spec => AnswersItsPoll
<1>1. ASSUME IInv, [Next]_vars, pc = "awaitPoll", pc' = "sleep"
      PROVE  /\ Len(Answer) = ResponseChunks
             /\ \A i \in DOMAIN Answer :
                   /\ Answer[i].sequence = request
                   /\ Answer[i].points = {[version |-> view', decodable |-> TRUE]}
  <2>1. PICK v \in Reported(asked, db) : PollIsAnswered(v)  BY <1>1, OnlyAnswersComplete
  <2> DEFINE c == Chunk(request, v)
             answer == Answer
  <2>2. answer \in Seq({c}) /\ Len(answer) = ResponseChunks 
        /\ view' = v.version /\ v.decodable
    BY <2>1 DEF PollIsAnswered
  <2>p. v = [version |-> view', decodable |-> TRUE]  BY <2>2 DEF Reported
  <2>3. c.sequence = request /\ c.points = {v}  BY DEF Chunk
  <2> HIDE DEF c, answer
  <2>4. \A i \in DOMAIN answer : answer[i] = c  BY <2>2
  <2>5. \A i \in DOMAIN answer :
           /\ answer[i].sequence = request
           /\ answer[i].points = {[version |-> view', decodable |-> TRUE]}
    BY <2>p, <2>3, <2>4
  <2> QED  BY <2>2, <2>5 DEF answer
<1>2. IInv /\ [Next]_vars =>
         [ (pc = "awaitPoll" /\ pc' = "sleep" /\ outcome' = "ok") =>
             /\ Len(Answer) = ResponseChunks
             /\ \A i \in DOMAIN Answer :
                   /\ Answer[i].sequence = request
                   /\ Answer[i].points = {[version |-> view', decodable |-> TRUE]} ]_vars
  BY <1>1
<1> QED  BY <1>2, Invariance, PTL DEF Spec, AnswersItsPoll

(* With all its reconnects, retries and restarts a polling master           *)
(* implements the service: it shows what the outstation had, no older than  *)
(* the poll that fetched it.                                                *)
THEOREM Refinement == Spec => ImplementsPollService
<1> DEFINE pending == IF pc \in {"sendPoll", "awaitPoll"} THEN asked ELSE None
<1>1. Init => Service!Init  BY DEF Init, Service!Init
<1>2. IInv /\ [Next]_vars => [Service!Next]_(Service!vars)
  <2> SUFFICES ASSUME IInv, [Next]_vars
               PROVE  Service!Next \/ UNCHANGED <<db, pending, view>>
    BY DEF Service!vars
  <2>0. db \in Nat /\ asked \in Nat /\ None \notin Nat
        /\ pc \in Startup \cup {"retry", "sendPoll", "awaitPoll", "sleep"}
    BY NoneAssumption DEF IInv, TypeOK
  <2>1. CASE BeginPoll
    <3>1. pending = None /\ pending' = db /\ UNCHANGED <<db, view>>
      BY <2>1 DEF BeginPoll, GoTo
    <3> QED  BY <3>1 DEF Service!Next, Service!Begin
  <2>2. ASSUME Fail, pc \in {"connect"} \cup Sending \cup Waiting,
               UNCHANGED <<asked, db, view>>
        PROVE  Service!Next \/ UNCHANGED <<db, pending, view>>
    <3>1. CASE pc \in Startup
      BY <2>2, <3>1 DEF Fail, GoTo, Startup
    <3>2. CASE pc \notin Startup
      <4>1. pending = asked /\ pending' = None
        BY <2>2, <3>2 DEF Fail, GoTo, Startup, Sending, Waiting
      <4> QED  BY <2>0, <2>2, <4>1 DEF Service!Next, Service!Fail
    <3> QED  BY <3>1, <3>2
  <2>3. ASSUME ReconnectOnce, pc \in Sending \cup Waiting,
               UNCHANGED <<asked, db, view>>
        PROVE  Service!Next \/ UNCHANGED <<db, pending, view>>
    BY <2>2, <2>3 DEF ReconnectOnce
  <2>4. CASE Connect \/ AlreadyConnected \/ Retry
    BY <2>4 DEF Connect, AlreadyConnected, Retry, GoTo
  <2>5. CASE ConnectFails  BY <2>2, <2>5 DEF ConnectFails
  <2>6. CASE Write
    BY <2>6 DEF Write, AfterSending, Sending, GoTo
  <2>7. CASE WriteFails \/ ReadFails
    BY <2>3, <2>7 DEF WriteFails, ReadFails
  <2>8. CASE Timeout
    <3>1. CASE pc \in Startup
      BY <2>8, <3>1 DEF Timeout, GoTo, Startup
    <3>2. CASE pc \notin Startup
      BY <2>2, <2>8, <3>2 DEF Timeout
    <3> QED  BY <3>1, <3>2
  <2>9. CASE Read
    <3>1. UNCHANGED <<asked, db>>  BY <2>9 DEF Read
    <3>2. CASE pc # "awaitPoll"
      <4>1. LinkAnswer(Head(link.s2c))
        BY <2>9, <3>2 DEF Read, RejectAnswer, ContinuePoll, CompletePoll
      <4> QED  BY <3>1, <4>1 DEF LinkAnswer, GoTo
    <3>3. CASE pc = "awaitPoll"
      <4>1. pending = asked  BY <3>3
      <4>2. CASE PollFails
        <5>1. pending' = None /\ view' = view  BY <4>2 DEF PollFails
        <5> QED  BY <2>0, <3>1, <4>1, <5>1 DEF Service!Next, Service!Fail
      <4>3. CASE PollGoesOn  BY <3>1, <3>3, <4>3 DEF PollGoesOn
      <4>4. ASSUME NEW v \in Reported(asked, db), PollIsAnswered(v)
            PROVE  Service!Next
        <5>1. pc' = "sleep" /\ view' \in asked .. db
          BY <4>4 DEF PollIsAnswered, Reported
        <5>2. pending' = None  BY <5>1
        <5> QED  BY <2>0, <3>1, <4>1, <5>1, <5>2 DEF Service!Next, Service!Complete
      <4> QED  BY <2>9, <3>3, <4>2, <4>3, <4>4, PollRead DEF PollStep
    <3> QED  BY <3>2, <3>3
  <2>10. CASE Crash \/ Update \/ Poison
    <3>1. db' = db + 1 /\ UNCHANGED <<pc, asked, view>>
      BY <2>10 DEF Crash, Update, Poison
    <3> QED  BY <3>1 DEF Service!Next, Service!Update
  <2>11. CASE ServerStep \/ IdleClose \/ Restart \/ Break \/ UNCHANGED vars
    BY <2>11
    DEF ServerStep, ServerRead, ServerPanics, ServerWrite, IdleClose, Restart, Break, vars
  <2> QED
    BY <2>1, <2>4, <2>5, <2>6, <2>7, <2>8, <2>9, <2>10, <2>11 DEF Next, MasterStep
<1> QED
  BY <1>1, <1>2, Invariance, PTL DEF Spec, ImplementsPollService, Service!Spec
=============================================================================
