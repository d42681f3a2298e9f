---------------------------- MODULE Segmentation ----------------------------
(***************************************************************************)
(* The pure part of the DNP3 transport function (crate dnp3-transport):    *)
(* cutting an application fragment into numbered segments, and the         *)
(* Reassembler that puts it together again.                                *)
(*                                                                         *)
(* An application fragment is a sequence of chunks; a chunk stands for at  *)
(* most MAX_TRANSPORT_PAYLOAD octets and is never looked into.             *)
(***************************************************************************)
EXTENDS Naturals, Sequences

CONSTANTS
    SeqSpace,   \* size of the sequence space: 64 (6 bits) in the code
    None        \* `expected_sequence` of a reassembler that waits for a FIR

ASSUME SeqSpaceAssumption == SeqSpace \in Nat /\ SeqSpace > 1
ASSUME NoneAssumption     == None \notin Nat

SeqNumber == 0 .. SeqSpace - 1

(* An octet string is carried as the sequence of the chunks it consists of; *)
(* the payload of a segment is one chunk, or nothing at all.                *)
Segment(fir, fin, seq, payload) ==
    [fir |-> fir, fin |-> fin, seq |-> seq % SeqSpace, payload |-> payload]

(* Mutant: FIN is set on the last segment but one.                           *)
FragmentFinEarly(application, start) ==
    IF application = <<>>
    THEN << Segment(TRUE, TRUE, start, <<>>) >>
    ELSE [i \in 1 .. Len(application) |->
             Segment(i = 1, i + 1 >= Len(application), start + (i - 1),
                     <<application[i]>>)]

(* An empty fragment still takes one segment, both first and final.         *)
Fragment(application, start) ==
    IF application = <<>>
    THEN << Segment(TRUE, TRUE, start, <<>>) >>
    ELSE [i \in 1 .. Len(application) |->
             Segment(i = 1, i = Len(application), start + (i - 1),
                     <<application[i]>>)]

(* The state of a Reassembler, and what `reset` leaves behind.              *)
NewReassembler == [expected |-> None, buffer |-> <<>>]

(* What `push` leaves and returns: the reassembler, how it went, and the     *)
(* fragment when that is complete.                                          *)
Pushed(re, result, data) == [re |-> re, result |-> result, data |-> data]

(* The segment was in its place: append it; FIN hands the fragment up.       *)
Extended(seg, buffer) ==
    IF seg.fin
    THEN Pushed(NewReassembler, "complete", buffer)
    ELSE Pushed([expected |-> (seg.seq + 1) % SeqSpace, buffer |-> buffer],
                "pending", <<>>)

(* Mutant: the sequence number is not compared with the expected one.       *)
PushUnchecked(re, seg) ==
    LET expected == IF seg.fir THEN seg.seq ELSE re.expected
        buffer   == IF seg.fir THEN <<>> ELSE re.buffer
    IN  IF expected = None THEN Pushed(re, "InvalidFragment", <<>>)
        ELSE Extended(seg, buffer \o seg.payload)

(* Mutant: FIR does not restart a reassembly that is under way.             *)
PushKeepsGoing(re, seg) ==
    LET expected == IF re.expected = None /\ seg.fir
                    THEN seg.seq ELSE re.expected
    IN  IF expected = None THEN Pushed(re, "InvalidFragment", <<>>)
        ELSE IF seg.seq # expected
             THEN Pushed(NewReassembler, "InvalidSequence", <<>>)
             ELSE Extended(seg, re.buffer \o seg.payload)

(* Mutant: after a gap only `expected_sequence` is cleared.                  *)
PushKeepsBuffer(re, seg) ==
    LET expected == IF seg.fir THEN seg.seq ELSE re.expected
        buffer   == IF seg.fir THEN <<>> ELSE re.buffer
    IN  IF expected = None THEN Pushed(re, "InvalidFragment", <<>>)
        ELSE IF seg.seq # expected
             THEN Pushed([re EXCEPT !.expected = None], "InvalidSequence", <<>>)
             ELSE Extended(seg, buffer \o seg.payload)

(* Push one segment.  FIR always restarts; a segment out of sequence drops   *)
(* what was collected, and is dropped itself.                               *)
Push(re, seg) ==
    LET expected == IF seg.fir THEN seg.seq ELSE re.expected
        buffer   == IF seg.fir THEN <<>> ELSE re.buffer
    IN  IF expected = None THEN Pushed(re, "InvalidFragment", <<>>)
        ELSE IF seg.seq # expected
             THEN Pushed(NewReassembler, "InvalidSequence", <<>>)
             ELSE Extended(seg, buffer \o seg.payload)
=============================================================================
