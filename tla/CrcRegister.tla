---------------------------- MODULE CrcRegister ----------------------------
(***************************************************************************)
(* The cyclic redundancy check of Modbus as division of polynomials over   *)
(* GF(2): the remainder is the set of the exponents, here of bits, that    *)
(* are 1, in the reflected order in which the line carries them.           *)
(***************************************************************************)
EXTENDS Naturals

CONSTANT Byte   \* the bytes a message may have, as subsets of 0 .. 7: their bits

VARIABLE remainder

\* x^16 + x^15 + x^2 + 1 without its highest power, reflected: 16#A001.
Generator == {0, 13, 15}

Sum(a, b) == (a \ b) \cup (b \ a)

\* One bit of the message is taken in.
TakeBit(r, bit) ==
    LET shifted == {k - 1 : k \in r \ {0}}
    IN  IF (0 \in r) # bit THEN Sum(shifted, Generator) ELSE shifted

\* A byte is taken in from its lowest bit.
TakeByte(r, byte) ==
    LET after[k \in 0 .. 8] ==
            IF k = 0 THEN r ELSE TakeBit(after[k - 1], (k - 1) \in byte)
    IN  after[8]

Init == remainder = 0 .. 15
Next == \E b \in Byte : remainder' = TakeByte(remainder, b)

Spec == Init /\ [][Next]_remainder
=============================================================================
