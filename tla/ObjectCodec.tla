---------------------------- MODULE ObjectCodec -----------------------------
(***************************************************************************)
(* dnp3-app: how a list of points becomes an object (header and body) and  *)
(* how an object becomes a list of points again.  Flags, value and event   *)
(* time of a point are one datum; a body is the sequence of fields that    *)
(* the Reader hands out.  What stays is the arithmetic on indices and      *)
(* counts, with the width of each integer a parameter.  `kind` is "binary" *)
(* or "measured" (analogs and counters).                                   *)
(***************************************************************************)
EXTENDS Naturals, Sequences

CONSTANTS
    ByteSpace,      \* values of a u8: 256 in the code
    IndexSpace      \* values of a u16: 65536 in the code

ASSUME WidthAssumption ==
    /\ ByteSpace \in Nat \ {0} /\ IndexSpace \in Nat \ {0}
    /\ ByteSpace <= IndexSpace

Index == 0 .. IndexSpace - 1

(* Points of a range with both its ends.                                    *)
RangeLength(first, last) == last - first + 1

-----------------------------------------------------------------------------
(* Mutant: the last index is not compared.                                  *)
ContiguousButLast(list) ==
    /\ list # <<>>
    /\ \A i \in 1 .. Len(list) - 1 :
          list[i].index = (list[1].index + (i - 1)) % IndexSpace

(* contiguous_u16_range finds one: the indices count up by one, and wrap.   *)
Contiguous(list) ==
    /\ list # <<>>
    /\ \A i \in DOMAIN list :
          list[i].index = (list[1].index + (i - 1)) % IndexSpace

(* index, datum, index, datum, ...                                          *)
Interleaved(list) ==
    [k \in 1 .. 2 * Len(list) |->
        IF k % 2 = 1 THEN list[(k + 1) \div 2].index ELSE list[k \div 2].datum]

(* encode_binary_like, encode_analog_like and encode_counter_like: a range  *)
(* when the indices allow it, else an index before each point and a count   *)
(* of one octet.  <<>> is the error.                                        *)
Encode(list) ==
    IF Contiguous(list)
    THEN <<[qualifier |-> [code  |-> "Range16",
                           start |-> list[1].index,
                           stop  |-> list[Len(list)].index],
            body      |-> [i \in DOMAIN list |-> list[i].datum]]>>
    ELSE IF Len(list) < ByteSpace
    THEN <<[qualifier |-> [code |-> "CountAndPrefix16", count |-> Len(list)],
            body      |-> Interleaved(list)]>>
    ELSE <<>>

-----------------------------------------------------------------------------
(* Every decoder returns at most one result: the points it read; a read     *)
(* past the end of the input and a bad header are errors.                   *)

(* Mutant: a body that ends too early gives the points it has.              *)
ReadImpliedShort(indices, body) ==
    LET there == IF Len(body) < Len(indices) THEN Len(body) ELSE Len(indices)
    IN  <<[i \in 1 .. there |-> [index |-> indices[i], datum |-> body[i]]]>>

(* A range or a bare count: the indices are implied.                        *)
ReadImplied(indices, body) ==
    IF Len(body) < Len(indices) THEN <<>>
    ELSE <<[i \in DOMAIN indices |-> [index |-> indices[i], datum |-> body[i]]]>>

(* `start.wrapping_add(offset)` for every offset.                           *)
IndicesFrom(start, count, width) ==
    [i \in 1 .. count |-> (start + (i - 1)) % width]

Clamp(n) == IF n < IndexSpace THEN n ELSE IndexSpace - 1

(* Indices in the body; those of four octets are clamped to two.            *)
ReadPrefixed(count, body) ==
    IF Len(body) < 2 * count THEN <<>>
    ELSE <<[i \in 1 .. count |-> [index |-> Clamp(body[(2 * i) - 1]),
                                  datum |-> body[2 * i]]]>>

(* `stop.saturating_sub(start) + 1`                                         *)
Range8Count(q) == IF q.stop < q.start THEN 1 ELSE RangeLength(q.start, q.stop)

(* decode_binary_points, decode_analog_points, decode_counter_points        *)
Decode(kind, q, body) ==
    CASE q.code = "Range16" ->
            IF q.stop < q.start THEN <<>>
            ELSE ReadImplied(IndicesFrom(q.start, RangeLength(q.start, q.stop),
                                         IndexSpace), body)
      [] q.code = "Range8" ->
            ReadImplied(IndicesFrom(q.start, Range8Count(q), ByteSpace), body)
      [] q.code = "Indexed32" -> ReadImplied(<<Clamp(q.index)>>, body)
      [] q.code \in {"Count8", "Count16"} ->
            IF kind = "binary"
            THEN ReadImplied([i \in 1 .. q.count |-> Clamp(i - 1)], body)
            ELSE ReadPrefixed(q.count, body)
      [] q.code \in {"CountAndPrefix16", "CountAndPrefix32"} ->
            ReadPrefixed(q.count, body)
      [] q.code = "AllObjects" -> <<>>

(* Mutant: every octet starts again at the first index.                     *)
PackedOffsetStuck(octet, slot, slots) == slot

(* Where slot `slot` of octet `octet` lies in the range.                    *)
PackedOffset(octet, slot, slots) == (octet * slots) + slot

(* decode_binary_packed and decode_double_bit_packed: eight or four points  *)
(* in each octet, the indices computed in the width of the range.           *)
DecodePacked(slots, q, octets) ==
    LET width == IF q.code = "Range8" THEN ByteSpace ELSE IndexSpace
        count == IF q.code = "Range8" THEN Range8Count(q)
                 ELSE RangeLength(q.start, q.stop)
    IN  IF q.code \notin {"Range8", "Range16"} THEN Decode("binary", q, octets)
        ELSE IF (q.code = "Range16" /\ q.stop < q.start) \/ Len(octets) * slots < count
        THEN <<>>
        ELSE <<[i \in 1 .. count |->
                  LET octet  == (i - 1) \div slots
                      slot   == (i - 1) % slots
                      offset == PackedOffset(octet, slot, slots)
                  IN  [index |-> (q.start + (offset % width)) % width,
                       datum |-> octets[octet + 1][slot + 1]]]>>
=============================================================================
