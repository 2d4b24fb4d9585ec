--------------------------- MODULE MCRegisterMap ---------------------------
(* RegisterMap for TLC.  Ranges: the whole table, which commands every entry *)
(* at once, the entries of the two setpoints without the third (28), and one *)
(* that ends past the table, which is refused.                               *)
EXTENDS RegisterMap

MCCoilRanges == {<<0, 255>>}
MCHoldingRanges == {<<0, 255>>, <<26, 2>>, <<1, 255>>}
=============================================================================
