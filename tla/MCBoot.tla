------------------------------- MODULE MCBoot -------------------------------
(* Boot for TLC: two networks, and a phone that has the password of the     *)
(* other one.                                                               *)
EXTENDS Boot

CONSTANTS home, office, key, code

MCWorking == {[ssid |-> home, pass |-> key], [ssid |-> office, pass |-> code]}
MCSent == MCWorking \cup {[ssid |-> home, pass |-> code]}
=============================================================================
