---------------------------- MODULE FragmentCodec ----------------------------
(***************************************************************************)
(* The octets of an application fragment (dnp3-app): control, function,    *)
(* and objects one after the other, each with its own header.  Nothing     *)
(* marks the end of an object but what its header says, so that decoding   *)
(* goes wrong in the next one when an object takes an octet too many.      *)
(*                                                                         *)
(* A decoder of this module returns a set of at most one result; {} is an  *)
(* error.  What is read is the rest of the fragment, a sequence of octets; *)
(* where a result has a `size`, so many of them were taken.                *)
(***************************************************************************)
EXTENDS ObjectCodec, SequencesExt, FiniteSetsExt

FunctionValue ==
    [Confirm |-> 0, Read |-> 1, Write |-> 2, Select |-> 3, Operate |-> 4,
     DirectOperate |-> 5, Freeze |-> 7, EnableUnsolicited |-> 20,
     DisableUnsolicited |-> 21, AssignClass |-> 22, DelayMeasure |-> 23,
     RecordCurrentTime |-> 24, Response |-> 129, UnsolicitedResponse |-> 130]

FunctionCode == DOMAIN FunctionValue

IncludesIin(function) == function \in {"Response", "UnsolicitedResponse"}

(* AppControl: four flags, the first the highest bit, and the sequence.     *)
FlagWeight == <<128, 64, 32, 16>>

EncodeAppControl(c) ==
    LET flag(i) == IF c.flags[i] THEN FlagWeight[i] ELSE 0
    IN  flag(1) + flag(2) + flag(3) + flag(4) + c.sequence

DecodeAppControl(octet) ==
    [flags    |-> [i \in 1 .. 4 |-> (octet \div FlagWeight[i]) % 2 = 1],
     sequence |-> octet % 16]

-----------------------------------------------------------------------------
TwoOctets(n) == <<n % 256, n \div 256>>

(* read_u16_le, and read_u32_le as far as `u16::try_from` tells values      *)
(* apart: anything over 16 bits is as good as 65536.                        *)
Unsigned(octets) ==
    IF \E i \in 3 .. Len(octets) : octets[i] # 0 THEN 65536
    ELSE octets[1] + (IF Len(octets) > 1 THEN 256 * octets[2] ELSE 0)

QualifierCode ==
    [Range8 |-> 0, Range16 |-> 1, AllObjects |-> 6, Count8 |-> 7, Count16 |-> 8,
     Indexed32 |-> 20, CountAndPrefix16 |-> 40, CountAndPrefix32 |-> 56]

(* is_simulator_indexed_qualifier: 0x38, 0x58, 0x61, ..., 0xf8.             *)
IsSimulatorIndexed(code) ==
    \/ code \in {56, 88, 97, 130, 143, 159, 162, 173, 178, 216, 248}
    \/ code % 16 = 15 /\ code \div 16 >= 8
    \/ code % 16 \in 12 .. 14 /\ code \div 16 >= 10

(* Mutant: 0x28, the only one that is sent, is forgotten.                   *)
IsCountAndPrefix16Not28(code) ==
    /\ ~ IsSimulatorIndexed(code)
    /\ code \in {23, 34} \/ (code % 16 = 2 /\ code \div 16 <= 10)

(* is_count_and_prefix16_qualifier: 0x17, 0x22, 0x28, and more.             *)
IsCountAndPrefix16(code) ==
    /\ ~ IsSimulatorIndexed(code)
    /\ code \in {23, 34, 40} \/ (code % 16 = 2 /\ code \div 16 <= 10)

(* What the qualifier octet of a header stands for: at most one element.    *)
QualifiersOf(code) ==
    {q \in {"Range8", "Range16", "AllObjects", "Count8", "Count16", "Indexed32"} :
        QualifierCode[q] = code}
    \cup (IF IsSimulatorIndexed(code) THEN {"CountAndPrefix32"} ELSE {})
    \cup (IF IsCountAndPrefix16(code) THEN {"CountAndPrefix16"} ELSE {})

(* Octets of a field that follows the qualifier; a range has two of them.   *)
FieldWidth ==
    [Range8 |-> 1, Range16 |-> 2, AllObjects |-> 0, Count8 |-> 1, Count16 |-> 2,
     Indexed32 |-> 4, CountAndPrefix16 |-> 1, CountAndPrefix32 |-> 1]

HeaderSize(code) ==
    3 + (IF code \in {"Range8", "Range16"} THEN 2 ELSE 1) * FieldWidth[code]

Qualifier(code, octets) ==
    LET width == FieldWidth[code]
        first == SubSeq(octets, 1, width)
    IN  CASE code \in {"Range8", "Range16"} ->
                [code |-> code, start |-> Unsigned(first),
                 stop |-> Unsigned(SubSeq(octets, width + 1, 2 * width))]
          [] code = "Indexed32"  -> [code |-> code, index |-> Unsigned(first)]
          [] code = "AllObjects" -> [code |-> code]
          [] OTHER               -> [code |-> code, count |-> Unsigned(first)]

(* ObjectHeader::decode                                                     *)
DecodeHeader(rest) ==
    {[group |-> rest[1], variation |-> rest[2],
      qualifier |-> Qualifier(code, SubSeq(rest, 4, HeaderSize(code))),
      size |-> HeaderSize(code)] :
        code \in {c \in QualifiersOf(rest[3]) : Len(rest) >= HeaderSize(c)}}

(* ObjectHeader::encode, for the qualifiers AppObject::encode uses.         *)
EncodeHeader(group, variation, q) ==
    <<group, variation, QualifierCode[q.code]>> \o
    (CASE q.code = "Range16"    -> TwoOctets(q.start) \o TwoOctets(q.stop)
       [] q.code = "AllObjects" -> <<>>
       [] q.code \in {"Count8", "CountAndPrefix16"} -> <<q.count>>)

-----------------------------------------------------------------------------
(* The groups that hold a list of points, and what list it becomes.         *)
ListOf ==
    [group \in {1, 2, 3, 4, 10, 20, 21, 22, 30, 32, 40, 42} |->
        CASE group \in {1, 2}        -> "BinaryInputs"
          [] group \in {3, 4}        -> "DoubleBitBinaryInputs"
          [] group = 10              -> "BinaryOutputs"
          [] group \in {20, 21, 22}  -> "Counters"
          [] group \in {30, 32}      -> "AnalogInputs"
          [] group \in {40, 42}      -> "AnalogOutputs"]

KindOf(group) == IF group \in {1, 2, 3, 4, 10} THEN "binary" ELSE "measured"

(* Two octets of an analog of variation 2, four of any other value.         *)
ValueSize(group, variation) ==
    IF KindOf(group) = "binary" THEN 0
    ELSE IF ListOf[group] # "Counters" /\ variation = 2 THEN 2 ELSE 4

(* Mutant: points of event groups have no time.                             *)
SuffixSizeNone(group, variation) == 0

(* event_suffix_bytes: the time of an event, read and dropped.              *)
SuffixSize(group, variation) ==
    IF group \in {2, 4, 22, 32, 42} /\ variation \in {2, 3} THEN 6 ELSE 0

PrefixSize(kind, q) ==
    CASE q.code = "CountAndPrefix32" -> 4
      [] q.code = "CountAndPrefix16" -> 2
      [] q.code \in {"Count8", "Count16"} -> IF kind = "measured" THEN 2 ELSE 0
      [] OTHER -> 0

PointCount(q) ==
    CASE q.code = "Range8"     -> Range8Count(q)
      [] q.code = "Range16"    -> IF q.stop < q.start THEN 0
                                  ELSE RangeLength(q.start, q.stop)
      [] q.code = "Indexed32"  -> 1
      [] q.code = "AllObjects" -> 0
      [] OTHER                 -> q.count

(* Flags and value; read_i16_le widened to an i32.                          *)
DatumIn(octets, valueSize) ==
    SubSeq(octets, 1, 1 + valueSize) \o
    (IF valueSize # 2 THEN <<>> ELSE IF octets[3] < 128 THEN <<0, 0>> ELSE <<255, 255>>)

(* decode_binary_points, decode_analog_points, decode_counter_points: the   *)
(* fields of the body, as many as are there, and what Decode makes of them. *)
DecodePoints(header, rest) ==
    LET q      == header.qualifier
        kind   == KindOf(header.group)
        prefix == PrefixSize(kind, q)
        value  == ValueSize(header.group, header.variation)
        size   == prefix + 1 + value + SuffixSize(header.group, header.variation)
        count  == PointCount(q)
        whole  == Min({count, Len(rest) \div size})
        DatumAt(i) == DatumIn(SubSeq(rest, (i - 1) * size + prefix + 1, i * size), value)
        IndexAt(i) == Unsigned(SubSeq(rest, (i - 1) * size + 1, (i - 1) * size + prefix))
        fields == IF prefix = 0 THEN [i \in 1 .. whole |-> DatumAt(i)]
                  ELSE [k \in 1 .. 2 * whole |-> IF k % 2 = 1 THEN IndexAt((k + 1) \div 2)
                                                 ELSE DatumAt(k \div 2)]
    IN  {[points |-> list, size |-> whole * size] :
            list \in Range(Decode(kind, q, fields))}

(* packed_binary_flags and packed_double_bit_flags.                         *)
PackedFlags(octet, slot, slots) ==
    IF slots = 8 THEN IF (octet \div (2 ^ slot)) % 2 = 1 THEN <<129>> ELSE <<0>>
    ELSE << <<1>>, <<65>>, <<129>>, <<193>> >>[((octet \div (4 ^ slot)) % 4) + 1]

DecodePackedPoints(header, rest) ==
    LET slots  == IF header.group = 1 THEN 8 ELSE 4
        size   == (PointCount(header.qualifier) + slots - 1) \div slots
        octets == [o \in 1 .. Min({size, Len(rest)}) |->
                     [s \in 1 .. slots |-> PackedFlags(rest[o], s - 1, slots)]]
    IN  {[points |-> list, size |-> size] :
            list \in Range(DecodePacked(slots, header.qualifier, octets))}

IsPacked(header) ==
    /\ header.group \in {1, 3} /\ header.variation = 1
    /\ header.qualifier.code \in {"Range8", "Range16"}

-----------------------------------------------------------------------------
PointList(type, list) == [type |-> type, points |-> list]
ClassScan(class) == [type |-> "ClassScan", class |-> class]
IntegrityPoll == [type |-> "IntegrityPoll"]
Time(stamp) == [type |-> "Time", stamp |-> stamp]

Sized(object, size) == [object |-> object, size |-> size]

(* skip_object_body: an object of group 0 is padding, and an empty list.    *)
DecodeGroup0(q, rest) ==
    IF q.code \notin {"Range8", "AllObjects"} \/ Len(rest) < PointCount(q) THEN {}
    ELSE {Sized(PointList("BinaryInputs", <<>>), PointCount(q))}

HasCount(q) == q.code \in {"Count8", "Count16", "CountAndPrefix16", "CountAndPrefix32"}

(* AppObject::decode                                                        *)
DecodeObject(header, rest) ==
    LET q == header.qualifier
    IN  CASE header.group = 0 -> DecodeGroup0(q, rest)
          [] header.group \in DOMAIN ListOf ->
               {Sized(PointList(ListOf[header.group], list.points), list.size) :
                    list \in IF IsPacked(header) THEN DecodePackedPoints(header, rest)
                             ELSE DecodePoints(header, rest)}
          [] header.group = 50 /\ header.variation = 1 ->
               IF HasCount(q) /\ PointCount(q) = 1 /\ Len(rest) >= 6
               THEN {Sized(Time(SubSeq(rest, 1, 6)), 6)} ELSE {}
          [] header.group = 60 /\ header.variation = 1 -> {Sized(IntegrityPoll, 0)}
          [] header.group = 60 /\ header.variation \in 2 .. 4 ->
               {Sized(ClassScan(header.variation - 1), 0)}
          [] OTHER -> {}

(* Group and variation an object is sent with.                              *)
SentAs ==
    [BinaryInputs |-> <<1, 2>>, DoubleBitBinaryInputs |-> <<3, 2>>,
     BinaryOutputs |-> <<10, 2>>, AnalogInputs |-> <<30, 1>>,
     AnalogOutputs |-> <<40, 1>>, Counters |-> <<20, 1>>]

EncodePoints(type, list) ==
    LET objects == Encode(list)
        Octets(object) ==
            EncodeHeader(SentAs[type][1], SentAs[type][2], object.qualifier) \o
            FlattenSeq([k \in DOMAIN object.body |->
                IF object.qualifier.code = "CountAndPrefix16" /\ k % 2 = 1
                THEN TwoOctets(object.body[k]) ELSE object.body[k]])
    IN  [i \in DOMAIN objects |-> Octets(objects[i])]

(* AppObject::encode                                                        *)
EncodeObject(o) ==
    LET all == [code |-> "AllObjects"]
    IN  CASE o.type = "IntegrityPoll" -> <<EncodeHeader(60, 1, all)>>
          [] o.type = "ClassScan"     -> <<EncodeHeader(60, o.class + 1, all)>>
          [] o.type = "Time" ->
               <<EncodeHeader(50, 1, [code |-> "Count8", count |-> 1]) \o o.stamp>>
          [] OTHER -> EncodePoints(o.type, o.points)

-----------------------------------------------------------------------------
(* ApplicationFragment::encode; one object that cannot be encoded is an     *)
(* error of the whole.                                                      *)
EncodeFragment(f) ==
    LET objects == [i \in DOMAIN f.objects |-> EncodeObject(f.objects[i])]
    IN  IF \E i \in DOMAIN objects : objects[i] = <<>> THEN <<>>
        ELSE <<<<EncodeAppControl(f.control), FunctionValue[f.function]>>
               \o (IF IncludesIin(f.function) THEN TwoOctets(f.iin) ELSE <<>>)
               \o FlattenSeq([i \in DOMAIN objects |-> objects[i][1]])>>

Rest(octets, at) == SubSeq(octets, at, Len(octets))

IsPadding(octets, at) ==
    at + 3 <= Len(octets) /\ SubSeq(octets, at, at + 3) = <<0, 0, 0, 0>>

(* Mutant: one run of zeros is skipped.                                     *)
AfterPaddingOnce(octets) ==
    [at \in 1 .. Len(octets) + 1 |-> IF IsPadding(octets, at) THEN at + 4 ELSE at]

(* skip_padding_zeros, from any place: four zeros at a time.                *)
AfterPadding(octets) ==
    LET after[at \in 1 .. Len(octets) + 1] ==
            IF IsPadding(octets, at) THEN after[at + 4] ELSE at
    IN  after

(* The object at a place of a fragment, and the place behind it.            *)
ObjectAt(octets, at) ==
    UNION {{[object |-> body.object, behind |-> at + header.size + body.size] :
                body \in DecodeObject(header, Rest(octets, at + header.size))} :
           header \in DecodeHeader(Rest(octets, at))}

(* The loop of ApplicationFragment::decode: objects until less than three   *)
(* octets, too few for a header, are left.                                  *)
DecodeObjects(octets) ==
    LET after == AfterPadding(octets)
        objects[at \in 1 .. Len(octets) + 1] ==
            IF after[at] + 2 > Len(octets) THEN { <<>> }
            ELSE UNION {{<<next.object>> \o more : more \in objects[next.behind]} :
                        next \in ObjectAt(octets, after[at])}
    IN  objects[1]

(* ApplicationFragment::decode                                              *)
DecodeFragment(octets) ==
    LET size(function) == IF IncludesIin(function) THEN 4 ELSE 2
        functions == {f \in FunctionCode :
                        FunctionValue[f] = octets[2] /\ Len(octets) >= size(f)}
    IN  IF Len(octets) < 2 THEN {}
        ELSE UNION {{[control |-> DecodeAppControl(octets[1]), function |-> f,
                      iin |-> IF IncludesIin(f) THEN Unsigned(SubSeq(octets, 3, 4)) ELSE 0,
                      objects |-> objects] :
                        objects \in DecodeObjects(Rest(octets, size(f) + 1))} :
                    f \in functions}
=============================================================================
