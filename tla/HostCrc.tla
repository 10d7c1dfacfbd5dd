---------------------------------- MODULE HostCrc ----------------------------------
(***************************************************************************)
(* The checksums of the frames between host and firmware, as the firmware   *)
(* computes them: exclusive or (MSP v1), CRC-8/DVB-S2 (MSP v2) and          *)
(* CRC-16/XMODEM (4-way).  The eight shifts for a byte depend on nothing    *)
(* but the byte that goes in, so they are tabulated; exclusive or goes by   *)
(* half bytes.                                                             *)
(***************************************************************************)
EXTENDS SequencesExt

Byte == 0 .. 255
Nibble == 0 .. 15

XorNibble ==
  [a \in Nibble |-> [b \in Nibble |->
     LET bit(k) == 2^k * (((a \div 2^k) + (b \div 2^k)) % 2)
     IN bit(0) + bit(1) + bit(2) + bit(3)]]

Xor(a, b) == 16 * XorNibble[a \div 16][b \div 16] + XorNibble[a % 16][b % 16]

Xor16(a, b) == 256 * Xor(a \div 256, b \div 256) + Xor(a % 256, b % 256)

\* F(crc, byte), of the values of both: TLC evaluates an argument wherever it is used.
Step(F(_, _), crc, byte) == CHOOSE new \in {F(c, b) : c \in {crc}, b \in {byte}} : TRUE

\* One shift, with the polynomial of the code.
dvb_s2_shift(crc) == IF crc >= 128 THEN Xor((2 * crc) % 256, 213) ELSE 2 * crc
xmodem_shift(crc) == IF crc >= 32768 THEN Xor16((2 * crc) % 65536, 4129) ELSE 2 * crc

Shifts8(F(_), crc) == FoldLeft(LAMBDA c, k : Step(LAMBDA x, y : F(x), c, k), crc, <<1, 2, 3, 4, 5, 6, 7, 8>>)

dvb_s2_shifts == [byte \in Byte |-> Shifts8(dvb_s2_shift, byte)]
xmodem_shifts == [byte \in Byte |-> Shifts8(xmodem_shift, 256 * byte)]

crc8_dvb_s2_update(crc, data) == dvb_s2_shifts[Xor(crc, data)]

crc_xmodem_update(crc, value) ==
  Xor16(256 * (crc % 256), xmodem_shifts[Xor(crc \div 256, value)])

\* The checksum of bytes, one after the other.
Checksum(F(_, _), bytes) ==
  LET crc[n \in 0 .. Len(bytes)] == IF n = 0 THEN 0 ELSE Step(F, crc[n - 1], bytes[n])
  IN crc[Len(bytes)]

crc_v1(bytes)     == Checksum(Xor, bytes)
crc_v2(bytes)     == Checksum(crc8_dvb_s2_update, bytes)
crc_xmodem(bytes) == Checksum(crc_xmodem_update, bytes)
================================================================================
