---------------------------- MODULE MCFrameStream ----------------------------
(***************************************************************************)
(* Frames without payload, and with one that looks like the beginning of a *)
(* frame, over a line that loses and damages octets.                       *)
(***************************************************************************)
EXTENDS FrameStream

MCPayloads == { <<>>, <<5, 100, 5>> }
=============================================================================
