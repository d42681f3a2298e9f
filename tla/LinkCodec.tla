------------------------------ MODULE LinkCodec ------------------------------
(***************************************************************************)
(* The octets of a link frame (crate dnp3-link): the control octet, the    *)
(* header with its CRC and length, and the payload in CRC blocks.  Here a  *)
(* payload is a sequence of octets, and an address is a number.            *)
(***************************************************************************)
EXTENDS LinkFrames, CoreCodecs

StartBytes == <<5, 100>>        \* 0x05 0x64
MinLengthField == 5             \* control octet and addresses
MaxLengthField == 255
HeaderOctets == 10              \* with the CRC; `fixed` in both read_frames

PrimaryCode ==
    [ResetLinkStates |-> 0, ResetUserProcess |-> 1, TestLinkStates |-> 2,
     ConfirmedUserData |-> 3, UnconfirmedUserData |-> 4, RequestLinkStatus |-> 9]

SecondaryCode == [Ack |-> 0, Nack |-> 1, LinkStatus |-> 11, NotSupported |-> 15]

Bit(set, weight) == IF set THEN weight ELSE 0

IsBitSet(octet, weight) == (octet \div weight) % 2 = 1

(* ControlField::encode                                                     *)
EncodeControl(c) ==
    LET primary == c.function \in PrimaryFunction
    IN  Bit(c.direction = "OutstationToMaster", 128) + Bit(primary, 64)
        + Bit(c.fcb, 32) + Bit(c.fcv, 16)
        + (IF primary THEN PrimaryCode[c.function] ELSE SecondaryCode[c.function])

(* Mutant: the PRM bit is not looked at.                                    *)
FunctionsOfAnyKind(octet) ==
    {f \in PrimaryFunction : PrimaryCode[f] = octet % 16}

(* The function an octet stands for, of which there may be none.            *)
FunctionsOf(octet) ==
    IF IsBitSet(octet, 64)
    THEN {f \in PrimaryFunction : PrimaryCode[f] = octet % 16}
    ELSE {f \in SecondaryFunction : SecondaryCode[f] = octet % 16}

(* ControlField::decode                                                     *)
DecodeControl(octet) ==
    SetToSeq({Control(IF IsBitSet(octet, 128) THEN "OutstationToMaster"
                      ELSE "MasterToOutstation",
                      f, IsBitSet(octet, 32), IsBitSet(octet, 16)) :
              f \in FunctionsOf(octet)})

-----------------------------------------------------------------------------
(* encoded_payload_len                                                      *)
EncodedPayloadLen(length) == length + 2 * BlockCount(length)

(* LinkFrame::new: octets that the length octet can count.                  *)
PayloadLimit == MaxLengthField - MinLengthField

(* What LinkFrame::new and LinkFrame::decode give.                          *)
AnyFrame ==
    [control : ControlField, destination : Word, source : Word,
     payload : {p \in Seq(Octet) : Len(p) <= PayloadLimit}]

(* LinkFrame::encode                                                        *)
EncodeFrame(f) ==
    LET header == StartBytes
                  \o <<MinLengthField + Len(f.payload), EncodeControl(f.control)>>
                  \o LittleEndian(f.destination) \o LittleEndian(f.source)
    IN  header \o CrcOctets(header) \o EncodeCrcBlocks(f.payload)

(* Mutant: one of the start octets will do.                                 *)
PlausibleHeaderHalf(octets) ==
    octets[1] = StartBytes[1] /\ octets[3] >= MinLengthField

(* What read_frame looks at before it reads on.                             *)
PlausibleHeader(octets) ==
    /\ SubSeq(octets, 1, 2) = StartBytes
    /\ octets[3] >= MinLengthField

(* LinkFrame::decode, every check of it.                                    *)
DecodeFrame(octets) ==
    IF /\ Len(octets) >= HeaderOctets
       /\ PlausibleHeader(octets)
       /\ SubSeq(octets, 9, 10) = CrcOctets(SubSeq(octets, 1, 8))
       /\ DecodeControl(octets[4]) # <<>>
    THEN LET payload == DecodeCrcBlocks(SubSeq(octets, 11, Len(octets)),
                                        octets[3] - MinLengthField)
         IN  [i \in DOMAIN payload |->
                LinkFrame(DecodeControl(octets[4])[1],
                          FromLittleEndian(SubSeq(octets, 5, 6)),
                          FromLittleEndian(SubSeq(octets, 7, 8)), payload[i])]
    ELSE <<>>
=============================================================================
