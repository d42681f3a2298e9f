--------------------------- MODULE MCSerialPolling ---------------------------
(***************************************************************************)
(* serial_master and serial_outstation, with a third station on the line.  *)
(***************************************************************************)
EXTENDS SerialPolling

CONSTANTS station, controller, other

MCAddress == {station, controller, other}

(* What another station reports to a master of its own.                     *)
MCStray == { UnconfirmedUserData("OutstationToMaster", other, other,
                                 Segment(TRUE, TRUE, 0, <<>>)) }
=============================================================================
