---------------------------- MODULE MCAppObjects ----------------------------
(***************************************************************************)
(* Point lists over narrow integers, where every width has its limit near. *)
(***************************************************************************)
EXTENDS AppObjects

CONSTANTS on, off

MCDatum == {on, off}
=============================================================================
