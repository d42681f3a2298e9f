---------------------------- MODULE MCTransport -----------------------------
(***************************************************************************)
(* Transport on a sequence space of three numbers, so that four fragments  *)
(* of up to four segments go round it several times.                       *)
(***************************************************************************)
EXTENDS Transport

MCLengths == {1, 2, 4}
=============================================================================
