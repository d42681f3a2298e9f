------------------------------- MODULE Codecs -------------------------------
(***************************************************************************)
(* What goes over the wire, octet by octet: a link frame whose payload     *)
(* grows, and an application fragment that is given one object after the   *)
(* other, as a program builds them, and what the other side makes of their *)
(* octets.                                                                 *)
(***************************************************************************)
EXTENDS LinkCodec, FragmentCodec

CONSTANTS
    Alphabet,       \* octets a payload is made of
    Damage,         \* exclusive-or patterns a line puts on an octet
    MaxPayload,     \* bound: octets of a payload
    Functions,      \* functions of the fragments
    Objects,        \* objects of the fragments
    MaxObjects,     \* bound: objects of a fragment
    MaxPadding      \* bound: runs of four zeros between two objects

ASSUME AlphabetAssumption == Alphabet \subseteq Octet /\ MaxPayload \in 0 .. PayloadLimit
ASSUME DamageAssumption == Damage \subseteq Octet \ {0}
ASSUME FunctionsAssumption == Functions \subseteq FunctionCode
ASSUME WidthsAssumption == ByteSpace = 256 /\ IndexSpace = 65536

(* What an AppObject can hold and AppObject::encode does not refuse: the    *)
(* indices are u16, flags and value take as many octets as in the type      *)
(* that is sent.                                                            *)
DatumOf(type) ==
    {octets \in Seq(Octet) : Len(octets) = 1 + ValueSize(SentAs[type][1], SentAs[type][2])}

Lists(type) ==
    {list \in Seq([index : Word, datum : DatumOf(type)]) :
        Len(list) <= IndexSpace /\ Encode(list) # <<>>}

Stamp == {octets \in Seq(Octet) : Len(octets) = 6}

ASSUME ObjectsAssumption ==
    \A o \in Objects :
        \/ \E type \in DOMAIN SentAs : o \in [type : {type}, points : Lists(type)]
        \/ o \in [type : {"ClassScan"}, class : 0 .. 3]
        \/ o \in [type : {"Time"}, stamp : Stamp]
        \/ o = IntegrityPoll

(* A frame or a fragment; the other one is None.                            *)
VARIABLES frame, fragment

Begin ==
    \/ /\ frame \in {LinkFrame(control, 10, 1024, <<>>) : control \in ControlField}
       /\ fragment = None
    \/ /\ frame = None
       /\ \E function \in Functions :
             fragment = [control  |-> [flags |-> <<TRUE, TRUE, IncludesIin(function), FALSE>>,
                                       sequence |-> 9],
                         function |-> function, iin |-> 0, objects |-> <<>>]

AddOctet ==
    /\ frame # None
    /\ Len(frame.payload) < MaxPayload
    /\ \E o \in Alphabet : frame' = [frame EXCEPT !.payload = Append(@, o)]
    /\ UNCHANGED fragment

AddObject ==
    /\ fragment # None
    /\ Len(fragment.objects) < MaxObjects
    /\ \E o \in Objects : fragment' = [fragment EXCEPT !.objects = Append(@, o)]
    /\ UNCHANGED frame

Grow == AddOctet \/ AddObject

Building == Begin /\ [][Grow]_<<frame, fragment>>

-----------------------------------------------------------------------------
(* A frame decodes to itself, and takes as many octets as read_frame will   *)
(* ask the line for: encoded_payload_len and the blocks of decode agree on  *)
(* where the last block ends.                                               *)
FramesRoundTrip ==
    frame # None =>
    LET octets == EncodeFrame(frame)
    IN  /\ DecodeFrame(octets) = <<frame>>
        /\ Len(octets) = HeaderOctets + EncodedPayloadLen(octets[3] - MinLengthField)

Flipped(octet, pattern) == Value(SymDiff(Bits(octet), Bits(pattern)))

Damaged(octets, i, first, second) ==
    [k \in DOMAIN octets |->
        IF k = i THEN Flipped(octets[k], first)
        ELSE IF k = i + 1 THEN Flipped(octets[k], second)
        ELSE octets[k]]

(* One octet or two in a row that the line has damaged, anywhere in a       *)
(* frame, its length included, never pass for a frame.                      *)
DamageNoticed ==
    frame # None =>
    LET octets == EncodeFrame(frame)
    IN  \A i \in DOMAIN octets, first \in Damage, second \in Damage \cup {0} :
            DecodeFrame(Damaged(octets, i, first, second)) = <<>>

-----------------------------------------------------------------------------
(* The definition of the CRC: the message, times x^16, modulo the generator *)
(* of IEEE 1815, in sets of powers of x; first bit sent, highest power.     *)
Generator == {16, 13, 12, 11, 10, 8, 6, 5, 2, 0}

Message(block) ==
    UNION {{15 + (8 * (Len(block) - (i - 1))) - b : b \in Bits(block[i])} :
           i \in DOMAIN block}

Remainder(powers, highest) ==
    LET below[k \in 15 .. highest] ==
            IF k = highest THEN powers
            ELSE LET above == below[k + 1]
                 IN  IF k + 1 \in above
                     THEN SymDiff(above, {g + (k - 15) : g \in Generator})
                     ELSE above
    IN  below[15]

(* crc16, shift by shift, is that remainder, complemented.                  *)
CrcIsRemainder ==
    frame # None =>
        Crc16(frame.payload) =
            (0 .. 15) \ {15 - power :
                power \in Remainder(Message(frame.payload),
                                    15 + (8 * Len(frame.payload)))}

-----------------------------------------------------------------------------
Wraps(o) ==
    "points" \in DOMAIN o /\ Contiguous(o.points)
    /\ o.points[Len(o.points)].index < o.points[1].index

(* Class 0 and the integrity poll are one object on the wire.               *)
AsRead(o) == IF o = ClassScan(0) THEN IntegrityPoll ELSE o

Decoded == [fragment EXCEPT !.objects = [i \in DOMAIN @ |-> AsRead(@[i])]]

OnTheWire == EncodeFragment(fragment)[1]

(* A fragment decodes to itself: every object takes exactly the octets it   *)
(* was given, whatever comes before and after it.  Only a range that wraps  *)
(* makes the whole fragment unreadable.                                     *)
FragmentsRoundTrip ==
    fragment # None =>
    DecodeFragment(OnTheWire) =
        IF \E i \in DOMAIN fragment.objects : Wraps(fragment.objects[i]) THEN {}
        ELSE {Decoded}

(* A fragment that ends too early, anywhere, is an error or lacks its last  *)
(* objects; no point is made up from what is there.                         *)
CutNeverInvents ==
    fragment # None =>
    \A length \in 0 .. Len(OnTheWire) - 1 :
        \A f \in DecodeFragment(SubSeq(OnTheWire, 1, length)) :
            /\ f.control = fragment.control /\ f.function = fragment.function
            /\ f.objects \in Prefixes(Decoded.objects)

Zeros(runs) == [i \in 1 .. 4 * runs |-> 0]

Padded(runs) ==
    SubSeq(OnTheWire, 1, IF IncludesIin(fragment.function) THEN 4 ELSE 2)
    \o FlattenSeq([i \in DOMAIN fragment.objects |->
                     EncodeObject(fragment.objects[i])[1] \o Zeros(runs)])

(* `skip_padding_zeros`: runs of four zeros after an object change nothing. *)
PaddingSkipped ==
    fragment # None =>
    \A runs \in 1 .. MaxPadding : DecodeFragment(Padded(runs)) = DecodeFragment(OnTheWire)

-----------------------------------------------------------------------------
Sent(i) == fragment.objects[i]

(* The same points as events: the group that event_suffix_bytes gives a     *)
(* time of six octets, index by index.                                      *)
EventGroup ==
    [BinaryInputs |-> 2, DoubleBitBinaryInputs |-> 4, Counters |-> 22,
     AnalogInputs |-> 32, AnalogOutputs |-> 42]

AsEvents(o) ==
    <<EventGroup[o.type], 3, 34, Len(o.points)>> \o
    FlattenSeq([i \in DOMAIN o.points |->
        TwoOctets(o.points[i].index) \o o.points[i].datum \o Zeros(1) \o <<0, 1>>])

HasEvents == \A i \in DOMAIN fragment.objects :
    /\ "points" \in DOMAIN Sent(i) /\ Sent(i).type \in DOMAIN EventGroup
    /\ Len(Sent(i).points) < ByteSpace

(* Points sent as events, each with a time, read like the points themselves *)
(* do, and the next object is found behind the last time.                   *)
EventsReadAlike ==
    (fragment # None /\ HasEvents) =>
        DecodeObjects(FlattenSeq([i \in DOMAIN fragment.objects |-> AsEvents(Sent(i))]))
            = {Decoded.objects}
=============================================================================
