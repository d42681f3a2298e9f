----------------------------- MODULE Outstation -----------------------------
(***************************************************************************)
(* One OutstationSession fed any frames, in any order, by any number of    *)
(* masters.                                                                *)
(***************************************************************************)
EXTENDS OutstationSession, FiniteSets

CONSTANTS
    Masters,        \* link addresses frames come from
    Requests,       \* what the first chunk of an application fragment says
    MaxResets,      \* bound: link resets in a behaviour
    MaxCollected    \* bound: chunks of a request that has not ended

ASSUME AddressAssumption == Own \in Address /\ Masters \subseteq Address \ {Own}

ASSUME BoundsAssumption == MaxResets \in Nat /\ MaxCollected \in Nat

ASSUME RequestsAssumption ==
    Requests \subseteq [sequence : Nat, function : STRING, scan : BOOLEAN,
                        valid : BOOLEAN]

VARIABLES
    session,    \* the fields of the OutstationSession
    encodable,  \* whether the database still fits the object headers
    epoch,      \* link resets handled so far
    next        \* response segments sent since the last link reset, modulo SeqSpace

vars == <<session, encodable, epoch, next>>

database == [points |-> 0, encodable |-> encodable]

-----------------------------------------------------------------------------
(* The segments an outstation may be sent: any header, and a chunk of any   *)
(* request, or none.  A chunk carries the number of link resets before it.  *)
Chunk == [request : Requests, epoch : 0 .. MaxResets]

Segments ==
    {Segment(fir, fin, seq, payload) :
        fir \in BOOLEAN, fin \in BOOLEAN, seq \in SeqNumber,
        payload \in {<<>>} \cup {<<[request |-> r, epoch |-> epoch]>> : r \in Requests}}

LinkResets == {ResetLinkStates(style, Own, m) : style \in Direction, m \in Masters}

Confirmed ==
    {ConfirmedUserData(style, Own, m, fcb, seg) :
        style \in Direction, m \in Masters, fcb \in BOOLEAN, seg \in Segments}

Unconfirmed ==
    {UnconfirmedUserData(style, Own, m, seg) :
        style \in Direction, m \in Masters, seg \in Segments}

(* User data without an octet in it.                                        *)
Empty ==
    {LinkFrame(Control(style, function, FALSE, FALSE), Own, m, <<>>) :
        style \in Direction, m \in Masters,
        function \in {"UnconfirmedUserData", "ConfirmedUserData"}}

UserData == Confirmed \cup Unconfirmed \cup Empty

(* Link commands, acknowledgements that go astray, and the traffic of       *)
(* another station on the same line.                                        *)
LinkTests ==
    {TestLinkStates(style, Own, m, fcb) :
        style \in Direction, m \in Masters, fcb \in BOOLEAN}

StatusRequests ==
    {RequestLinkStatus(style, Own, m) : style \in Direction, m \in Masters}

StrayAcks == {AckWithFcb(Own, m, FALSE) : m \in Masters}

ResetsElsewhere ==
    {ResetLinkStates(style, other, m) :
        style \in Direction, other \in Address \ {Own}, m \in Masters}

OtherFrames == LinkTests \cup StatusRequests \cup StrayAcks \cup ResetsElsewhere

Frames == LinkResets \cup UserData \cup OtherFrames

(* Where the transport segments are among the frames of an answer, and how  *)
(* many of them go out before the one at i.                                 *)
SegmentPlaces(responses) ==
    {i \in DOMAIN responses :
        responses[i].control.function = "UnconfirmedUserData"}

SegmentsBefore(responses, i) ==
    Cardinality({j \in SegmentPlaces(responses) : j < i})

Init ==
    /\ session = NewSession
    /\ encodable \in BOOLEAN
    /\ epoch = 0
    /\ next = 0

ReceiveLinkReset(f) ==
    /\ epoch < MaxResets
    /\ session' = HandleFrame(session, f, database).session
    /\ epoch' = epoch + 1
    /\ next' = 0
    /\ UNCHANGED encodable

Receive(f) ==
    LET outcome == HandleFrame(session, f, database)
    IN  /\ Len(outcome.session.re.buffer) <= MaxCollected
        /\ session' = outcome.session
        /\ next' = (next + Cardinality(SegmentPlaces(outcome.responses))) % SeqSpace
        /\ UNCHANGED <<encodable, epoch>>

(* The operator adds points until some group cannot be encoded any more.    *)
OutgrowEncoding ==
    /\ encodable
    /\ encodable' = FALSE
    /\ UNCHANGED <<session, epoch, next>>

Next ==
    \/ \E f \in LinkResets : ReceiveLinkReset(f)
    \/ \E f \in UserData \cup OtherFrames : Receive(f)
    \/ OutgrowEncoding

Spec == Init /\ [][Next]_vars

-----------------------------------------------------------------------------
(* Types; a reassembler that waits for a FIR has collected nothing.         *)
TypeOK ==
    /\ session \in [tseq : SeqNumber,
                    re : [expected : SeqNumber \cup {None}, buffer : Seq(Chunk)]]
    /\ session.re.expected = None => session.re.buffer = <<>>
    /\ encodable \in BOOLEAN
    /\ epoch \in 0 .. MaxResets
    /\ next \in SeqNumber

(* Whatever frame comes next, a request it completes has no piece from      *)
(* before the last link reset, whatever frames, errors and answers came     *)
(* since (handle_frame, ResetLinkStates).                                   *)
ResetIsolation ==
    \A f \in UserData :
        LET request == HandleFrame(session, f, database).request
        IN  \A i \in DOMAIN request : request[i].epoch = epoch

(* The segments sent since the last link reset are numbered 0, 1, 2, ...    *)
(* through all answers, also when an answer fails half-way, goes to another *)
(* master or is no application answer at all (transport_sequence).          *)
ResponsesNumbered ==
    \A f \in UserData \cup OtherFrames :
        LET responses == HandleFrame(session, f, database).responses
        IN  \A i \in SegmentPlaces(responses) :
               responses[i].payload[1].seq =
                   (next + SegmentsBefore(responses, i)) % SeqSpace

(* No history leaves the outstation deaf: a request that fits one segment   *)
(* and that it supports is answered at once, under its own sequence and to  *)
(* the master it came from.                                                 *)
NeverDeaf ==
    \A f \in Unconfirmed \cup Confirmed :
        LET seg     == f.payload[1]
            request == Decode(seg.payload)
        IN  (/\ seg.fir /\ seg.fin
             /\ Decodable(seg.payload) /\ Supported(request)
             /\ encodable \/ ~ HandleApplication(request).points)
            => \E i \in DOMAIN HandleFrame(session, f, database).responses :
                  LET answer == HandleFrame(session, f, database).responses[i]
                  IN  /\ answer.destination = f.source
                      /\ answer.control.function = "UnconfirmedUserData"
                      /\ answer.payload[1].payload[1].sequence = request.sequence
-----------------------------------------------------------------------------
(* Why ResetIsolation and ResponsesNumbered hold, as an inductive invariant: *)
(* nothing collected is older than the last reset, and `transport_sequence` *)
(* has counted every segment sent since.                                    *)
CurrentChunk == [request : Requests, epoch : {epoch}]

IInv ==
    /\ TypeOK
    /\ session.re.buffer \in Seq(CurrentChunk)
    /\ session.tseq = next
=============================================================================
