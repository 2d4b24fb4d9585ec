----------------------------- MODULE MCSlaveHmi -----------------------------
(* SlaveHmi for TLC. *)
EXTENDS SlaveHmi
=============================================================================
