--------------------------- MODULE MCConnectivity ---------------------------
(* Connectivity for TLC.                                                     *)
EXTENDS Connectivity
=============================================================================
