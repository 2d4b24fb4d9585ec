------------------------------ MODULE MCApTask ------------------------------
(* ApTask for TLC: registers that hold 0 or 1. *)
EXTENDS ApTask

MCValue == 0 .. 1
=============================================================================
