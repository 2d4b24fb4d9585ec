------------------------------ MODULE MCCrc16 ------------------------------
(* Crc16 for TLC: bytes with no bit, with one, and with all.  With the 256   *)
(* values crc_hi takes they reach every entry of the tables.                 *)
EXTENDS Crc16

MCByte == {0, 255} \cup {2 ^ k : k \in 0 .. 7}
=============================================================================
