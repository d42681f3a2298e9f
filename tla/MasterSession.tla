---------------------------- MODULE MasterSession ----------------------------
(***************************************************************************)
(* MasterSession (crate dnp3-master) as functions, like OutstationSession: *)
(* what a call does to the session between two awaits and what it returns. *)
(*                                                                         *)
(* A session is [aseq, tseq, re]: `app_sequence`, `transport_sequence` and *)
(* `reassembler`.  The chunks of an outstation's response are [function,   *)
(* sequence, points]; each element of points says whether it decodes.      *)
(***************************************************************************)
EXTENDS LinkFrames

CONSTANTS
    Master,         \* the master's link address
    AppSeqSpace     \* size of the application sequence space: 16 in the code

ASSUME AppSeqAssumption == AppSeqSpace \in Nat /\ AppSeqSpace > 1

NewMaster == [aseq |-> 0, tseq |-> 0, re |-> NewReassembler]

(* Mutant: the sequence number is not masked.                               *)
NextAppSequenceNoMask(n) == n + 1

NextAppSequence(n) == (n + 1) % AppSeqSpace

-----------------------------------------------------------------------------
(* send_application up to its first await: number the segments of a         *)
(* fragment and advance over all of them.                                   *)
SendApplication(m, style, outstation, application) ==
    LET segments == Fragment(application, m.tseq)
    IN  [master |-> [m EXCEPT !.tseq = (@ + Len(segments)) % SeqSpace],
         frames |-> [i \in DOMAIN segments |->
             UnconfirmedUserData(style, outstation, Master, segments[i])]]

(* A request for all points, one segment long in both styles.               *)
IntegrityPoll(sequence) ==
    <<[request |-> [sequence |-> sequence, function |-> "Read",
                    scan |-> TRUE, valid |-> TRUE]]>>

(* integrity_poll up to its first await: forget what was collected, take    *)
(* the next application sequence, send the request.                         *)
StartPoll(m, style, outstation) ==
    SendApplication([m EXCEPT !.re = NewReassembler,
                              !.aseq = NextAppSequence(@)],
                    style, outstation, IntegrityPoll(m.aseq))

-----------------------------------------------------------------------------
Reception(m, result, data) == [master |-> m, result |-> result, data |-> data]

(* ApplicationFragment::decode: a list whose indices run over the end of    *)
(* the range is an error, wherever in the fragment it stands.               *)
ResponseDecodable(data) ==
    /\ data # <<>>
    /\ \A i \in DOMAIN data : \A list \in data[i].points : list.decodable

(* The reassembler has handed up a fragment: an error ends the poll; a      *)
(* response is the answer, whatever its sequence; anything else is skipped. *)
Accept(m, data) ==
    IF ~ ResponseDecodable(data) THEN Reception(m, "error", data)
    ELSE IF data[1].function \in {"Response", "UnsolicitedResponse"}
    THEN Reception(m, "answer", data)
    ELSE Reception([m EXCEPT !.re = NewReassembler], "continue", <<>>)

(* receive_application and the loop of integrity_poll around it, for the    *)
(* next frame: one for somebody else is skipped, one without octets ends    *)
(* the poll, a segment out of place resets the reassembler and the loop     *)
(* goes on.                                                                 *)
ReceiveApplication(m, f) ==
    IF f.destination # Master THEN Reception(m, "continue", <<>>)
    ELSE IF f.payload = <<>> THEN Reception(m, "error", <<>>)
    ELSE LET pushed == Push(m.re, f.payload[1])
             kept   == [m EXCEPT !.re = pushed.re]
         IN  CASE pushed.result = "complete" -> Accept(kept, pushed.data)
               [] pushed.result = "pending" -> Reception(kept, "continue", <<>>)
               [] pushed.result \in {"InvalidSequence", "InvalidFragment"} ->
                    Reception([m EXCEPT !.re = NewReassembler], "continue", <<>>)

(* expect_link_ack: any acknowledgement will do, whoever it is for.         *)
IsLinkAck(f) == f.control.function = "Ack"
=============================================================================
