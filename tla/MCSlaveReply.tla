---------------------------- MODULE MCSlaveReply ----------------------------
(* SlaveReply for TLC: bytes of two bits, tables of three entries.           *)
EXTENDS SlaveReply

MCWord == {<<0, 3>>, <<1, 2>>}
\* Every entry, the end of the table, and the largest address of a frame.
MCAddress == 0 .. 3 \cup {15}
=============================================================================
