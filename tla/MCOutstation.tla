---------------------------- MODULE MCOutstation ----------------------------
(***************************************************************************)
(* One outstation, two masters in both link styles, and requests of every  *)
(* kind handle_application tells apart, cut into segments any way at all.  *)
(***************************************************************************)
EXTENDS Outstation

CONSTANTS outstation, m1, m2

MCAddress == {outstation, m1, m2}
MCMasters == {m1, m2}

Request(sequence, function, scan, valid) ==
    [sequence |-> sequence, function |-> function, scan |-> scan, valid |-> valid]

MCRequests ==
    { Request(0, "Read", TRUE, TRUE), Request(1, "Write", FALSE, TRUE),
      Request(0, "Read", FALSE, TRUE), Request(1, "RecordCurrentTime", FALSE, TRUE),
      Request(1, "DirectOperate", FALSE, TRUE), Request(0, "Read", FALSE, FALSE) }
=============================================================================
