---------------------------- MODULE MCGardenSensor ----------------------------
(***************************************************************************)
(* Constants of GardenSensor for TLC: one reading with a small and one with *)
(* a large value in its bytes, and the CRC of the code.                    *)
(***************************************************************************)
EXTENDS GardenSensor, Crc8

MCReadings == {<<0, 1>>, <<3, 141>>}
=============================================================================
