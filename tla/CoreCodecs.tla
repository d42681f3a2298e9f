----------------------------- MODULE CoreCodecs ------------------------------
(***************************************************************************)
(* The octets of crate dnp3-core: 16-bit numbers, the CRC of a block, and  *)
(* data cut into blocks with a CRC each.  A register of the CRC is the set *)
(* of its bits that are one, so that exclusive or is SymDiff.              *)
(*                                                                         *)
(* A decoder returns a sequence of at most one result; <<>> is an error.   *)
(***************************************************************************)
EXTENDS Naturals, Sequences, SequencesExt, FiniteSetsExt

CONSTANT BlockSize      \* octets protected by one CRC: 16 in the code

ASSUME BlockAssumption == BlockSize \in Nat \ {0}

Octet == 0 .. 255
Word == 0 .. 65535              \* a u16

Weight == <<1, 2, 4, 8, 16, 32, 64, 128,
            256, 512, 1024, 2048, 4096, 8192, 16384, 32768>>

Bits(n) == {b \in 0 .. 15 : (n \div Weight[b + 1]) % 2 = 1}

Value(bits) ==
    LET bit(b) == IF b \in bits THEN Weight[b + 1] ELSE 0
    IN  bit(0) + bit(1) + bit(2) + bit(3) + bit(4) + bit(5) + bit(6) + bit(7)
        + bit(8) + bit(9) + bit(10) + bit(11) + bit(12) + bit(13) + bit(14) + bit(15)

(* `u16::to_le_bytes` and back.                                             *)
LittleEndian(n) == <<n % 256, n \div 256>>

FromLittleEndian(octets) == octets[1] + 256 * octets[2]

-----------------------------------------------------------------------------
Polynomial == Bits(42684)       \* 0xa6bc: the generator, lowest power last

BitsOfOctet == [o \in Octet |-> Bits(o)]

ShiftedRight(crc) == {b - 1 : b \in crc \ {0}}

(* Mutant: the bit shifted out is not looked at.                            *)
ShiftOnceOnly(crc) == ShiftedRight(crc)

ShiftOnce(crc) ==
    IF 0 \in crc THEN SymDiff(ShiftedRight(crc), Polynomial)
    ELSE ShiftedRight(crc)

(* Eight shifts for one octet.                                              *)
ShiftOctet(crc) ==
    LET shifted[n \in 0 .. 8] ==
            IF n = 0 THEN crc ELSE LET last == shifted[n - 1] IN ShiftOnce(last)
    IN  shifted[8]

Crc16(block) ==
    LET after[i \in 0 .. Len(block)] ==
            IF i = 0 THEN {}
            ELSE LET last == SymDiff(after[i - 1], BitsOfOctet[block[i]])
                 IN  ShiftOctet(last)
    IN  (0 .. 15) \ after[Len(block)]

CrcOctets(block) == LittleEndian(Value(Crc16(block)))

-----------------------------------------------------------------------------
BlockCount(length) == (length + BlockSize - 1) \div BlockSize

(* Octets of data in the i-th of the blocks that `length` octets take.      *)
BlockLength(length, i) ==
    IF i * BlockSize <= length THEN BlockSize ELSE length % BlockSize

(* The i-th block, with `gap` octets between one block and the next.        *)
BlockAt(octets, length, i, gap) ==
    LET start == (i - 1) * (BlockSize + gap)
    IN  SubSeq(octets, start + 1, start + BlockLength(length, i))

EncodeCrcBlocks(data) ==
    FlattenSeq([i \in 1 .. BlockCount(Len(data)) |->
        LET block == BlockAt(data, Len(data), i, 0)
        IN  block \o CrcOctets(block)])

(* Mutant: the CRCs are skipped.                                            *)
CrcMatchesAlways(encoded, length, i) == TRUE

(* verify_crc for the i-th block of what protects `length` octets.          *)
CrcMatches(encoded, length, i) ==
    LET block == BlockAt(encoded, length, i, 2)
        end   == ((i - 1) * (BlockSize + 2)) + Len(block)
    IN  SubSeq(encoded, end + 1, end + 2) = CrcOctets(block)

(* decode_crc_blocks: too short, too long, or a CRC that does not match.    *)
DecodeCrcBlocks(encoded, length) ==
    LET blocks == 1 .. BlockCount(length)
    IN  IF /\ Len(encoded) = length + 2 * BlockCount(length)
           /\ \A i \in blocks : CrcMatches(encoded, length, i)
        THEN <<FlattenSeq([i \in blocks |-> BlockAt(encoded, length, i, 2)])>>
        ELSE <<>>
=============================================================================
