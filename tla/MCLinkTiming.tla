---------------------------- MODULE MCLinkTiming ----------------------------
(* LinkTiming for TLC: the three polls of the AP, a tick of 100 ms.          *)
EXTENDS LinkTiming
=============================================================================
