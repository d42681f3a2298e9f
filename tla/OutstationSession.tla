------------------------- MODULE OutstationSession --------------------------
(***************************************************************************)
(* The handlers of OutstationSession (crate dnp3-outstation) as functions: *)
(* what `handle_frame` does to the session and what it returns, for a      *)
(* frame and the database it may look into.                                *)
(*                                                                         *)
(* A session is [tseq, re]: `transport_sequence` and `reassembler`.        *)
(* A database is [points, encodable]: what it has to report, and whether   *)
(* each of its groups fits the object headers (at most 255 points unless   *)
(* their indices are contiguous).                                          *)
(***************************************************************************)
EXTENDS LinkFrames

CONSTANTS
    Own,            \* this outstation's link address
    ResponseChunks, \* chunks of a response that carries every point
    CountSpace      \* values of a u8, for the count of segments: 256 in the code

ASSUME ResponseAssumption == ResponseChunks \in Nat \ {0}
ASSUME CountAssumption == CountSpace \in Nat \ {0} /\ CountSpace % SeqSpace = 0

NewSession == [tseq |-> 0, re |-> NewReassembler]

-----------------------------------------------------------------------------
(* The application layer, as far as handle_frame looks at it.               *)

(* ApplicationFragment::decode: control, function code and first objects    *)
(* are in the first chunk; every chunk may bring a class object along, and  *)
(* any chunk may be undecodable.  No octets at all decode to nothing.       *)
Decodable(data) == data # <<>> /\ \A i \in DOMAIN data : data[i].request.valid

Decode(data) ==
    [sequence |-> data[1].request.sequence,
     function |-> data[1].request.function,
     include_static |-> \E i \in DOMAIN data : data[i].request.scan]

(* handle_application: Read answers with the points when asked for a class, *)
(* Write and RecordCurrentTime with nothing; anything else is an error.     *)
Supported(request) ==
    request.function \in {"Read", "Write", "RecordCurrentTime"}

HandleApplication(request) ==
    [sequence |-> request.sequence,
     points   |-> request.function = "Read" /\ request.include_static]

(* The application data on which handle_application takes the read lock.    *)
AsksForPoints(data) == Decodable(data) /\ HandleApplication(Decode(data)).points

(* The chunks a response takes: the points as they are at this moment, all  *)
(* read under one lock, or nothing but the header.                          *)
Encoded(response, database) ==
    IF response.points
    THEN [i \in 1 .. ResponseChunks |->
             [function |-> "Response", sequence |-> response.sequence,
              points |-> {database.points}]]
    ELSE << [function |-> "Response", sequence |-> response.sequence,
             points |-> {}] >>

-----------------------------------------------------------------------------
(* What handle_frame leaves and returns: the session, the frames to send    *)
(* (or an error), and the application data it completed on the way.         *)
Outcome(s, ok, responses, request) ==
    [session |-> s, ok |-> ok, responses |-> responses, request |-> request]

(* `segments.len() as u8`, and the sum in a u8: both keep the lower bits.   *)
CountedOn(tseq, count) == (tseq + (count % CountSpace)) % CountSpace

(* Mutant: the advanced sequence is not masked.                             *)
AdvancedNoMask(s, segments) == [s EXCEPT !.tseq = CountedOn(@, Len(segments))]

(* `transport_sequence` moves on by the segments about to be sent.          *)
Advanced(s, segments) ==
    [s EXCEPT !.tseq = CountedOn(@, Len(segments)) % SeqSpace]

(* A request in tool style, which has the direction bit of an outstation,   *)
(* is answered in master direction.                                         *)
AnswerDirection(style) ==
    IF style = "OutstationToMaster"
    THEN "MasterToOutstation" ELSE "OutstationToMaster"

UserDataFrames(segments, destination, style) ==
    [i \in DOMAIN segments |->
        UnconfirmedUserData(AnswerDirection(style), destination, Own, segments[i])]

(* Mutant: the sequence advances before the response is known to encode.    *)
EncodeResponseAdvancesFirst(s, data, destination, style, database) ==
    LET response == HandleApplication(Decode(data))
        segments == Fragment(Encoded(response, database), s.tseq)
    IN  IF response.points /\ ~ database.encodable
        THEN Outcome(Advanced(s, segments), FALSE, <<>>, data)
        ELSE Outcome(Advanced(s, segments), TRUE,
                     UserDataFrames(segments, destination, style), data)

(* encode_response: a response that cannot be encoded leaves the sequence   *)
(* alone.                                                                   *)
EncodeResponse(s, data, destination, style, database) ==
    LET response == HandleApplication(Decode(data))
        segments == Fragment(Encoded(response, database), s.tseq)
    IN  IF response.points /\ ~ database.encodable
        THEN Outcome(s, FALSE, <<>>, data)
        ELSE Outcome(Advanced(s, segments), TRUE,
                     UserDataFrames(segments, destination, style), data)

(* handle_user_data: every early return of the reassembler, of decode and   *)
(* of handle_application, in their order.                                   *)
HandleUserData(s, f, database) ==
    IF f.payload = <<>> THEN Outcome(s, FALSE, <<>>, <<>>)
    ELSE LET pushed == Push(s.re, f.payload[1])
             kept   == [s EXCEPT !.re = pushed.re]
         IN  IF pushed.result \in {"InvalidFragment", "InvalidSequence"}
             THEN Outcome(kept, FALSE, <<>>, <<>>)
             ELSE IF pushed.result = "pending"
             THEN Outcome(kept, TRUE, <<>>, <<>>)
             ELSE IF ~ Decodable(pushed.data) \/ ~ Supported(Decode(pushed.data))
             THEN Outcome(kept, FALSE, <<>>, pushed.data)
             ELSE EncodeResponse(kept, pushed.data, f.source,
                                 f.control.direction, database)

(* Mutant: a link reset restarts only the numbering of what is sent.        *)
HandleResetKeepsPartial(s, f) ==
    Outcome([s EXCEPT !.tseq = 0], TRUE,
            << IF f.control.direction = "OutstationToMaster"
               THEN LegacyAckWithFcb(f.source, Own, FALSE)
               ELSE AckWithFcb(f.source, Own, FALSE) >>, <<>>)

(* ResetLinkStates: both halves of the transport state start over; the      *)
(* acknowledgement has the direction the peer's style expects.              *)
HandleReset(s, f) ==
    Outcome(NewSession, TRUE,
            << IF f.control.direction = "OutstationToMaster"
               THEN LegacyAckWithFcb(f.source, Own, FALSE)
               ELSE AckWithFcb(f.source, Own, FALSE) >>, <<>>)

(* ConfirmedUserData: the acknowledgement goes out with what the request    *)
(* brings about; an error on the way loses it.                              *)
HandleConfirmed(s, f, database) ==
    LET inner == HandleUserData(s, f, database)
    IN  IF ~ inner.ok THEN inner
        ELSE [inner EXCEPT !.responses =
                <<AckWithFcb(f.source, Own, f.control.fcb)>> \o @]

Ignored == SecondaryFunction \cup {"ResetUserProcess"}

(* handle_frame: frames for others are none of its business; secondary      *)
(* frames and unused functions are ignored.                                 *)
HandleFrame(s, f, database) ==
    IF f.destination # Own THEN Outcome(s, TRUE, <<>>, <<>>)
    ELSE CASE f.control.function = "ResetLinkStates" -> HandleReset(s, f)
           [] f.control.function = "TestLinkStates" ->
                Outcome(s, TRUE,
                        <<LegacyAckWithFcb(f.source, Own, f.control.fcb)>>, <<>>)
           [] f.control.function = "RequestLinkStatus" ->
                Outcome(s, TRUE, <<LinkStatus(f.source, Own)>>, <<>>)
           [] f.control.function = "UnconfirmedUserData" ->
                HandleUserData(s, f, database)
           [] f.control.function = "ConfirmedUserData" ->
                HandleConfirmed(s, f, database)
           [] f.control.function \in Ignored ->
                Outcome(s, TRUE, <<>>, <<>>)
=============================================================================
