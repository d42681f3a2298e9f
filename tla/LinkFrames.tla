----------------------------- MODULE LinkFrames -----------------------------
(***************************************************************************)
(* The link frames of crate dnp3-link that the sessions exchange, after    *)
(* framing and CRCs: a control field, two addresses and a payload.         *)
(*                                                                         *)
(* A payload is the sequence of the transport segments its octets decode   *)
(* to: one segment, or none when there are no octets.                      *)
(***************************************************************************)
EXTENDS Segmentation

CONSTANT Address                \* the 16-bit link addresses in use

Direction == {"MasterToOutstation", "OutstationToMaster"}

PrimaryFunction ==
    {"ResetLinkStates", "ResetUserProcess", "TestLinkStates",
     "ConfirmedUserData", "UnconfirmedUserData", "RequestLinkStatus"}

SecondaryFunction == {"Ack", "Nack", "LinkStatus", "NotSupported"}

ControlField ==
    [direction : Direction, function : PrimaryFunction \cup SecondaryFunction,
     fcb : BOOLEAN, fcv : BOOLEAN]

Control(direction, function, fcb, fcv) ==
    [direction |-> direction, function |-> function, fcb |-> fcb, fcv |-> fcv]

LinkFrame(control, destination, source, payload) ==
    [control |-> control, destination |-> destination, source |-> source,
     payload |-> payload]

-----------------------------------------------------------------------------
(* Requests of a master.  `style` is the direction bit it sets: the tool    *)
(* style (0xC0, 0xD2, 0xC4) marks its primary frames outstation-to-master.  *)
ResetLinkStates(style, destination, source) ==
    LinkFrame(Control(style, "ResetLinkStates", FALSE, FALSE),
              destination, source, <<>>)

TestLinkStates(style, destination, source, fcb) ==
    LinkFrame(Control(style, "TestLinkStates", fcb, TRUE),
              destination, source, <<>>)

UnconfirmedUserData(style, destination, source, segment) ==
    LinkFrame(Control(style, "UnconfirmedUserData", FALSE, FALSE),
              destination, source, <<segment>>)

(* Frames the crate has no constructor for, but an outstation is sent.      *)
ConfirmedUserData(style, destination, source, fcb, segment) ==
    LinkFrame(Control(style, "ConfirmedUserData", fcb, TRUE),
              destination, source, <<segment>>)

RequestLinkStatus(style, destination, source) ==
    LinkFrame(Control(style, "RequestLinkStatus", FALSE, FALSE),
              destination, source, <<>>)

-----------------------------------------------------------------------------
(* Answers of an outstation.                                                *)
AckWithFcb(destination, source, fcb) ==
    LinkFrame(Control("OutstationToMaster", "Ack", fcb, FALSE),
              destination, source, <<>>)

LegacyAckWithFcb(destination, source, fcb) ==
    LinkFrame(Control("MasterToOutstation", "Ack", fcb, FALSE),
              destination, source, <<>>)

(* Its one payload octet, 0xFF, reads as a first and final segment.         *)
LinkStatus(destination, source) ==
    LinkFrame(Control("OutstationToMaster", "LinkStatus", FALSE, FALSE),
              destination, source,
              << Segment(TRUE, TRUE, SeqSpace - 1, <<>>) >>)
=============================================================================
