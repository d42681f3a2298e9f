----------------------------- MODULE AppObjects -----------------------------
(***************************************************************************)
(* Every list of points a program may put in an object of dnp3-app, and    *)
(* what becomes of it on the other side.                                   *)
(***************************************************************************)
EXTENDS ObjectCodec

CONSTANTS
    Slots,          \* points in one octet of a packed body: 8, or 4 for double bits
    Datum,          \* flags and value of a point
    MaxPoints       \* bound: points of the list under construction

ASSUME SlotsAssumption == Slots \in Nat \ {0} /\ ByteSpace % Slots = 0
ASSUME BoundAssumption == MaxPoints \in 0 .. IndexSpace

VARIABLES
    kind,       \* "binary" or "measured" (analogs and counters)
    points      \* the list a program builds: what Database and AppObject hold

vars == <<kind, points>>

Point == [index : Index, datum : Datum]

(* A program puts points in the list it will send, one by one.              *)
Init == kind \in {"binary", "measured"} /\ points = <<>>

AddPoint ==
    /\ Len(points) < MaxPoints
    /\ \E p \in Point : points' = Append(points, p)
    /\ UNCHANGED kind

Next == AddPoint

Spec == Init /\ [][Next]_vars

-----------------------------------------------------------------------------
Decoded(object) == Decode(kind, object.qualifier, object.body)

Wraps == Contiguous(points) /\ points[Len(points)].index < points[1].index

(* What the other side decodes is what was encoded.  A list that cannot be  *)
(* sent is an error on this side, and a range that wraps is one on the      *)
(* other: never a different list.                                           *)
FaithfulOrRejected ==
    \A i \in DOMAIN Encode(points) :
        Decoded(Encode(points)[i]) = IF Wraps THEN <<>> ELSE <<points>>

Octets ==
    [o \in 1 .. (Len(points) + Slots - 1) \div Slots |->
        [s \in 1 .. Slots |->
            LET i == ((o - 1) * Slots) + s
            IN  points[IF i <= Len(points) THEN i ELSE Len(points)].datum]]

(* The three ways to write a range agree: one octet or two for its limits,  *)
(* a packed body or one datum after the other.  Up to the last index of     *)
(* each width nothing overflows, nothing is left out and nothing doubled.   *)
RangesAgree ==
    \A start \in 0 .. ByteSpace - Len(points) :
        points # <<>> =>
            LET wide   == [code |-> "Range16", start |-> start,
                           stop |-> start + Len(points) - 1]
                narrow == [wide EXCEPT !.code = "Range8"]
                plain  == [i \in DOMAIN points |-> points[i].datum]
            IN  /\ Decode(kind, narrow, plain) = Decode(kind, wide, plain)
                /\ DecodePacked(Slots, narrow, Octets) = Decode(kind, wide, plain)
                /\ DecodePacked(Slots, wide, Octets) = Decode(kind, wide, plain)
                /\ Decode(kind, wide, plain) =
                     <<[i \in DOMAIN points |-> [index |-> start + (i - 1),
                                                 datum |-> points[i].datum]]>>

(* `prop_assert_eq!(ApplicationFragment::decode(&encoded).unwrap(), ...)`:  *)
(* whatever was encoded decodes to the same list.                           *)
RoundTrips ==
    \A i \in DOMAIN Encode(points) : Decoded(Encode(points)[i]) = <<points>>
=============================================================================
