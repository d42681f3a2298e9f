---------------------------- MODULE MCTcpPolling ----------------------------
(***************************************************************************)
(* tcp_master and tcp_outstation with few faults and few changes.          *)
(***************************************************************************)
EXTENDS TcpPolling

CONSTANTS station, controller

MCAddress == {station, controller}
=============================================================================
