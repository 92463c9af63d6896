--------------------------------- MODULE Crc8 ---------------------------------
(***************************************************************************)
(* The CRC of drivers/OneWire/common/crc8.c.                               *)
(***************************************************************************)
EXTENDS Integers, SequencesExt, Bitwise

(* A table for one byte: its eight shifts depend on the sum of byte and crc *)
(* only.                                                                    *)
CRC8POLY == 24
CrcShift ==
    [crc \in 0 .. 255 |->
        IF crc % 2 = 1 THEN ((crc ^^ CRC8POLY) \div 2) + 128 ELSE crc \div 2]
CrcTable ==
    [crc \in 0 .. 255 |->
        CrcShift[CrcShift[CrcShift[CrcShift[CrcShift[CrcShift[CrcShift[CrcShift[crc]]]]]]]]]
crc8(bytes) == FoldLeft(LAMBDA crc, byte : CrcTable[crc ^^ byte], 0, bytes)
=============================================================================
