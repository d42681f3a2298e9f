----------------------------- MODULE Transport ------------------------------
(***************************************************************************)
(* One direction of the transport function between two sessions: a sender  *)
(* that keeps `transport_sequence` and cuts fragments into segments        *)
(* (MasterSession::send_application, OutstationSession::encode_response),  *)
(* a first-in first-out line that loses segments and repeats the latest    *)
(* one (a confirmed frame sent again, whose FCB nobody looks at), and the  *)
(* receiving session's Reassembler.                                        *)
(*                                                                         *)
(* The line is kept as `log`, everything ever put on it, and `head`, how   *)
(* much of that has left it: the model and its proof can then speak of the *)
(* place of a segment, which its 6-bit sequence number only hints at.      *)
(***************************************************************************)
EXTENDS Segmentation

CONSTANTS
    Lengths,        \* how many chunks a fragment may have
    MaxMessages,    \* bound: fragments sent in a behaviour
    MaxBurst,       \* most segments in a row that the line loses
    MaxDuplicates   \* bound: segments repeated in a behaviour

ASSUME LengthsAssumption    == Lengths \subseteq Nat \ {0}
ASSUME BurstAssumption      == MaxBurst \in Nat /\ MaxBurst < SeqSpace
ASSUME BoundsAssumption     == MaxMessages \in Nat /\ MaxDuplicates \in Nat

VARIABLES
    sent,       \* lengths of the fragments sent, in order
    tseq,       \* `transport_sequence` of the sending session
    log,        \* every segment put on the line, in order
    head,       \* how many of them have left the line
    seen,       \* place in `log` of the segment received last; 0 before it
    run,        \* how many segments up to `head` arrived once and in a row
    re,         \* the Reassembler of the receiving session
    delivered,  \* the fragments it completed, in order
    duplicates  \* how often the line has repeated a segment

vars == <<sent, tseq, log, head, seen, run, re, delivered, duplicates>>

(* The fragment sent as number m, n chunks long.                            *)
App(m, n) == [i \in 1 .. n |-> [msg |-> m, part |-> i]]

Init ==
    /\ sent = <<>>
    /\ tseq = 0
    /\ log = <<>>
    /\ head = 0
    /\ seen = 0
    /\ run = 0
    /\ re = NewReassembler
    /\ delivered = <<>>
    /\ duplicates = 0

-----------------------------------------------------------------------------
(* Mutant: the transport sequence advances by one per fragment.             *)
SendAdvancesByOne(n) ==
    /\ Len(sent) < MaxMessages
    /\ sent' = Append(sent, n)
    /\ log' = log \o Fragment(App(Len(sent) + 1, n), tseq)
    /\ tseq' = (tseq + 1) % SeqSpace
    /\ UNCHANGED <<head, seen, run, re, delivered, duplicates>>

(* The sender fragments the octets of one message, advances its transport  *)
(* sequence by the number of segments, then hands them to the line.         *)
Send(n) ==
    /\ Len(sent) < MaxMessages
    /\ sent' = Append(sent, n)
    /\ log' = log \o Fragment(App(Len(sent) + 1, n), tseq)
    /\ tseq' = (tseq + n) % SeqSpace
    /\ UNCHANGED <<head, seen, run, re, delivered, duplicates>>

(* The receiver pushes a segment.  After InvalidSequence and InvalidFragment *)
(* both sessions go on with an empty reassembler.                           *)
Accept(seg) ==
    LET pushed == Push(re, seg)
    IN  /\ re' = pushed.re
        /\ delivered' = IF pushed.result = "complete"
                        THEN Append(delivered, pushed.data) ELSE delivered

Receive ==
    /\ head < Len(log)
    /\ head' = head + 1
    /\ seen' = head + 1
    /\ run' = run + 1
    /\ Accept(log[head + 1])
    /\ UNCHANGED <<sent, tseq, log, duplicates>>

(* The line repeats the segment it brought last.                            *)
Duplicate ==
    /\ duplicates < MaxDuplicates
    /\ seen > 0
    /\ seen = head
    /\ duplicates' = duplicates + 1
    /\ run' = 1
    /\ Accept(log[head])
    /\ UNCHANGED <<sent, tseq, log, head, seen>>

(* The line loses the segment at its head.                                  *)
Lose ==
    /\ head < Len(log)
    /\ head + 1 - seen <= MaxBurst
    /\ head' = head + 1
    /\ run' = 0
    /\ UNCHANGED <<sent, tseq, log, seen, re, delivered, duplicates>>

(* The receiving session drops what it collected: MasterSession before      *)
(* every poll, OutstationSession on ResetLinkStates.                        *)
ResetReceiver ==
    /\ re' = NewReassembler
    /\ run' = 0
    /\ UNCHANGED <<sent, tseq, log, head, seen, delivered, duplicates>>

Next ==
    \/ \E n \in Lengths : Send(n)
    \/ Receive
    \/ Duplicate
    \/ Lose
    \/ ResetReceiver

Spec == Init /\ [][Next]_vars

-----------------------------------------------------------------------------
Chunk == [msg : Nat, part : Nat]

SegmentType ==
    [fir : BOOLEAN, fin : BOOLEAN, seq : SeqNumber, payload : Seq(Chunk)]

(* Types, with the two things about the reassembler no type could say: it   *)
(* waits for a FIR exactly when it has collected nothing (Reassembler,      *)
(* `expected_sequence` and `buffer`).                                       *)
TypeOK ==
    /\ sent \in Seq(Lengths)
    /\ tseq \in SeqNumber
    /\ log \in Seq(SegmentType)
    /\ head \in 0 .. Len(log)
    /\ seen \in 0 .. head
    /\ run \in 0 .. head
    /\ re \in [expected : SeqNumber \cup {None}, buffer : Seq(Chunk)]
    /\ re.expected = None <=> re.buffer = <<>>
    /\ delivered \in Seq(Seq(Chunk))
    /\ duplicates \in 0 .. MaxDuplicates

(* Whatever is lost or repeated, and wherever in the sequence space it      *)
(* happens, what the reassembler hands up is a fragment that was sent,      *)
(* whole: never the beginning of one with the end of another                *)
(* (Reassembler::push).                                                     *)
NoSplice ==
    \A i \in DOMAIN delivered :
        \E m \in DOMAIN sent : delivered[i] = App(m, sent[m])

(* Whatever came before, a fragment whose segments all arrive once and in a *)
(* row is handed up with the last of them: no earlier damage leaves the     *)
(* reassembler deaf (the FIR branch of Reassembler::push).                  *)
IntactDelivered ==
    [][ run' = run + 1 =>
          LET seg == log[head']
              m   == seg.payload[1].msg
          IN  seg.fin /\ run' >= sent[m] =>
                  delivered' = Append(delivered, App(m, sent[m])) ]_vars

-----------------------------------------------------------------------------
(* Why NoSplice holds, as an inductive invariant.                           *)

(* The segment at place p is chunk k of message m, numbered by its place    *)
(* and preceded by chunk k - 1.                                             *)
IsChunkAt(p, m, k) ==
    /\ log[p].payload = <<[msg |-> m, part |-> k]>>
    /\ log[p].fir <=> k = 1
    /\ log[p].fin <=> k = sent[m]
    /\ log[p].seq = (p - 1) % SeqSpace
    /\ k > 1 => /\ p > 1
                /\ log[p - 1].payload = <<[msg |-> m, part |-> k - 1]>>

LogOK ==
    \A p \in DOMAIN log : \E m \in DOMAIN sent : \E k \in 1 .. sent[m] :
        IsChunkAt(p, m, k)

(* What the reassembler has collected is the beginning of the message of    *)
(* the segment received last, and it waits for the segment after that.      *)
Collected(m, k) ==
    /\ seen > 0
    /\ log[seen].payload = <<[msg |-> m, part |-> k]>>
    /\ re.buffer = App(m, k)
    /\ re.expected = seen % SeqSpace

ReassemblyOK ==
    re.buffer # <<>> =>
        \E m \in DOMAIN sent : \E k \in 1 .. sent[m] - 1 : Collected(m, k)

(* The sender, the log, the line's patience and the reassembler agree: what *)
(* every operation of the code must keep for NoSplice to hold.              *)
IInv ==
    /\ TypeOK
    /\ tseq = Len(log) % SeqSpace
    /\ head - seen <= MaxBurst
    /\ LogOK
    /\ ReassemblyOK
    /\ NoSplice

(* The message number delivered last.                                       *)
LastDelivered ==
    IF delivered = <<>> THEN 0 ELSE delivered[Len(delivered)][1].msg

(* Messages are on the line in the order they were sent in, and the one     *)
(* delivered last has been received.                                        *)
InOrder ==
    /\ \A p, q \in DOMAIN log :
          p <= q => log[p].payload[1].msg <= log[q].payload[1].msg
    /\ delivered # <<>> =>
          \E p \in 1 .. seen : log[p].payload[1].msg = LastDelivered

(* While segments arrive in a row, the reassembler holds all of the message *)
(* of the latest one that the row contains from its first segment on.       *)
RunOK ==
    run > 0 =>
        /\ seen = head
        /\ \A m \in DOMAIN sent : \A k \in 1 .. sent[m] - 1 :
              log[head].payload = <<[msg |-> m, part |-> k]>> /\ run >= k
                  => Collected(m, k)

(* What IntactDelivered and ImplementsLossyChannel need beyond IInv.        *)
FullInv == IInv /\ InOrder /\ RunOK

Abstract == INSTANCE LossyChannel WITH
    Message   <- {App(m, n) : m \in 1 .. MaxMessages, n \in Lengths},
    sent      <- [m \in DOMAIN sent |-> App(m, sent[m])],
    delivered <- delivered,
    last      <- LastDelivered

(* Sender, line and reassembler together implement a channel that may lose  *)
(* a fragment or bring it again, but brings it whole and never after a      *)
(* later one.                                                               *)
ImplementsLossyChannel == Abstract!Spec
=============================================================================
