--------------------------- MODULE MCPointDatabase ---------------------------
(***************************************************************************)
(* Two groups and two connections, over integers so narrow that a list of  *)
(* three points with a gap cannot be encoded any more.                     *)
(***************************************************************************)
EXTENDS PointDatabase

CONSTANTS on, off

MCGroup == {"binary_inputs", "analog_inputs"}

ListOf(indices) == [i \in DOMAIN indices |-> [index |-> indices[i], datum |-> on]]

Lists(indices) == [MCGroup -> {ListOf(list) : list \in indices}]

(* Every option names another point.                                        *)
MCCommandLines == Lists({<<>>, <<1>>, <<2, 0>>})

(* The same option twice.                                                   *)
MCRepeated == Lists({<<1>>, <<1, 1>>})
=============================================================================
