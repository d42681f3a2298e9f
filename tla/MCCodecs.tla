------------------------------ MODULE MCCodecs ------------------------------
(***************************************************************************)
(* Frames with every control field and payloads of a few octets, and       *)
(* fragments of a few objects.  Zeros abound in the fragments, as padding  *)
(* looks like, and there are indices at both ends of the range.            *)
(***************************************************************************)
EXTENDS Codecs

ListsOf(data) ==
    {<<>>} \cup
    {[i \in DOMAIN indices |-> [index |-> indices[i], datum |-> datum]] :
        indices \in {<<0>>, <<65535>>, <<0, 1>>, <<0, 768>>, <<65535, 0>>}, datum \in data}

PointLists ==
    {PointList(type, list) :
        type \in {"BinaryInputs", "DoubleBitBinaryInputs", "BinaryOutputs"},
        list \in ListsOf({ <<0>>, <<129>> })} \cup
    {PointList(type, list) :
        type \in {"AnalogInputs", "AnalogOutputs", "Counters"},
        list \in ListsOf({ <<0, 0, 0, 0, 0>>, <<129, 210, 4, 0, 0>> })}

MCObjects ==
    PointLists \cup {IntegrityPoll, Time(<<0, 0, 0, 0, 0, 1>>)} \cup
    {ClassScan(class) : class \in 0 .. 3}
=============================================================================
