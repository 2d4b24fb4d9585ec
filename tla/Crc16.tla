------------------------------- MODULE Crc16 -------------------------------
(***************************************************************************)
(* crc16 of mb_crc.c, one action per byte of the buffer.  crc_hi is the    *)
(* byte that goes out first, and so the low one of the register of         *)
(* CrcRegister.tla, which this module is shown to implement.               *)
(***************************************************************************)
EXTENDS Naturals

CONSTANT Byte      \* bound: the bytes of the buffers

ASSUME ByteAssumption == Byte \subseteq 0 .. 255

\* table_crc_hi and table_crc_lo; the first element is that of index 0.
TableHi == <<
    \h00, \hC1, \h81, \h40, \h01, \hC0, \h80, \h41, \h01, \hC0, \h80, \h41, \h00, \hC1, \h81, \h40,
    \h01, \hC0, \h80, \h41, \h00, \hC1, \h81, \h40, \h00, \hC1, \h81, \h40, \h01, \hC0, \h80, \h41,
    \h01, \hC0, \h80, \h41, \h00, \hC1, \h81, \h40, \h00, \hC1, \h81, \h40, \h01, \hC0, \h80, \h41,
    \h00, \hC1, \h81, \h40, \h01, \hC0, \h80, \h41, \h01, \hC0, \h80, \h41, \h00, \hC1, \h81, \h40,
    \h01, \hC0, \h80, \h41, \h00, \hC1, \h81, \h40, \h00, \hC1, \h81, \h40, \h01, \hC0, \h80, \h41,
    \h00, \hC1, \h81, \h40, \h01, \hC0, \h80, \h41, \h01, \hC0, \h80, \h41, \h00, \hC1, \h81, \h40,
    \h00, \hC1, \h81, \h40, \h01, \hC0, \h80, \h41, \h01, \hC0, \h80, \h41, \h00, \hC1, \h81, \h40,
    \h01, \hC0, \h80, \h41, \h00, \hC1, \h81, \h40, \h00, \hC1, \h81, \h40, \h01, \hC0, \h80, \h41,
    \h01, \hC0, \h80, \h41, \h00, \hC1, \h81, \h40, \h00, \hC1, \h81, \h40, \h01, \hC0, \h80, \h41,
    \h00, \hC1, \h81, \h40, \h01, \hC0, \h80, \h41, \h01, \hC0, \h80, \h41, \h00, \hC1, \h81, \h40,
    \h00, \hC1, \h81, \h40, \h01, \hC0, \h80, \h41, \h01, \hC0, \h80, \h41, \h00, \hC1, \h81, \h40,
    \h01, \hC0, \h80, \h41, \h00, \hC1, \h81, \h40, \h00, \hC1, \h81, \h40, \h01, \hC0, \h80, \h41,
    \h00, \hC1, \h81, \h40, \h01, \hC0, \h80, \h41, \h01, \hC0, \h80, \h41, \h00, \hC1, \h81, \h40,
    \h01, \hC0, \h80, \h41, \h00, \hC1, \h81, \h40, \h00, \hC1, \h81, \h40, \h01, \hC0, \h80, \h41,
    \h01, \hC0, \h80, \h41, \h00, \hC1, \h81, \h40, \h00, \hC1, \h81, \h40, \h01, \hC0, \h80, \h41,
    \h00, \hC1, \h81, \h40, \h01, \hC0, \h80, \h41, \h01, \hC0, \h80, \h41, \h00, \hC1, \h81, \h40>>
TableLo == <<
    \h00, \hC0, \hC1, \h01, \hC3, \h03, \h02, \hC2, \hC6, \h06, \h07, \hC7, \h05, \hC5, \hC4, \h04,
    \hCC, \h0C, \h0D, \hCD, \h0F, \hCF, \hCE, \h0E, \h0A, \hCA, \hCB, \h0B, \hC9, \h09, \h08, \hC8,
    \hD8, \h18, \h19, \hD9, \h1B, \hDB, \hDA, \h1A, \h1E, \hDE, \hDF, \h1F, \hDD, \h1D, \h1C, \hDC,
    \h14, \hD4, \hD5, \h15, \hD7, \h17, \h16, \hD6, \hD2, \h12, \h13, \hD3, \h11, \hD1, \hD0, \h10,
    \hF0, \h30, \h31, \hF1, \h33, \hF3, \hF2, \h32, \h36, \hF6, \hF7, \h37, \hF5, \h35, \h34, \hF4,
    \h3C, \hFC, \hFD, \h3D, \hFF, \h3F, \h3E, \hFE, \hFA, \h3A, \h3B, \hFB, \h39, \hF9, \hF8, \h38,
    \h28, \hE8, \hE9, \h29, \hEB, \h2B, \h2A, \hEA, \hEE, \h2E, \h2F, \hEF, \h2D, \hED, \hEC, \h2C,
    \hE4, \h24, \h25, \hE5, \h27, \hE7, \hE6, \h26, \h22, \hE2, \hE3, \h23, \hE1, \h21, \h20, \hE0,
    \hA0, \h60, \h61, \hA1, \h63, \hA3, \hA2, \h62, \h66, \hA6, \hA7, \h67, \hA5, \h65, \h64, \hA4,
    \h6C, \hAC, \hAD, \h6D, \hAF, \h6F, \h6E, \hAE, \hAA, \h6A, \h6B, \hAB, \h69, \hA9, \hA8, \h68,
    \h78, \hB8, \hB9, \h79, \hBB, \h7B, \h7A, \hBA, \hBE, \h7E, \h7F, \hBF, \h7D, \hBD, \hBC, \h7C,
    \hB4, \h74, \h75, \hB5, \h77, \hB7, \hB6, \h76, \h72, \hB2, \hB3, \h73, \hB1, \h71, \h70, \hB0,
    \h50, \h90, \h91, \h51, \h93, \h53, \h52, \h92, \h96, \h56, \h57, \h97, \h55, \h95, \h94, \h54,
    \h9C, \h5C, \h5D, \h9D, \h5F, \h9F, \h9E, \h5E, \h5A, \h9A, \h9B, \h5B, \h99, \h59, \h58, \h98,
    \h88, \h48, \h49, \h89, \h4B, \h8B, \h8A, \h4A, \h4E, \h8E, \h8F, \h4F, \h8D, \h4D, \h4C, \h8C,
    \h44, \h84, \h85, \h45, \h87, \h47, \h46, \h86, \h82, \h42, \h43, \h83, \h41, \h81, \h80, \h40>>

\* The exclusive or of two bytes.
Xor == [x \in 0 .. 255 |-> [y \in 0 .. 255 |->
          LET Digit(k) == 2 ^ k * ((x \div 2 ^ k + y \div 2 ^ k) % 2)
          IN  Digit(0) + Digit(1) + Digit(2) + Digit(3)
              + Digit(4) + Digit(5) + Digit(6) + Digit(7)]]

VARIABLES crcHi, crcLo

CrcInit == crcHi = 255 /\ crcLo = 255

-----------------------------------------------------------------------------
(* Faulty variants of definitions below, no part of CrcSpec: each one       *)
(* breaks the property PROJECT.json names with it.                          *)

\* The two tables are swapped.
AfterSwapped(hi, lo, byte) ==
    LET i == Xor[hi][byte] IN <<Xor[lo][TableLo[i + 1]], TableHi[i + 1]>>

\* The other half of the register is left out.
AfterWithoutLo(hi, lo, byte) ==
    LET i == Xor[hi][byte] IN <<TableHi[i + 1], TableLo[i + 1]>>

-----------------------------------------------------------------------------
(* The loop. *)

After(hi, lo, byte) ==
    LET i == Xor[hi][byte] IN <<Xor[lo][TableHi[i + 1]], TableLo[i + 1]>>

TakeByte(byte) ==
    LET after == After(crcHi, crcLo, byte)
    IN  crcHi' = after[1] /\ crcLo' = after[2]

CrcNext == \E byte \in Byte : TakeByte(byte)

CrcSpec == CrcInit /\ [][CrcNext]_<<crcHi, crcLo>>

-----------------------------------------------------------------------------
\* The index whose entry of table_crc_lo is v.
IndexOfLo == [v \in 0 .. 255 |-> CHOOSE i \in 0 .. 255 : TableLo[i + 1] = v]

(* A damaged byte shows whatever follows it: from the register before and   *)
(* after a byte the byte can be told, and from the byte and the register    *)
(* after it the register before.  So two buffers that differ in one byte    *)
(* have different registers from there on, at any length.                   *)
DamageShows ==
    \A byte \in Byte :
        LET after == After(crcHi, crcLo, byte)
            i == IndexOfLo[after[2]]
        IN  /\ Xor[i][crcHi] = byte
            /\ <<Xor[i][byte], Xor[after[1]][TableHi[i + 1]]>> = <<crcHi, crcLo>>

BitsOf == [n \in 0 .. 255 |-> {k \in 0 .. 7 : (n \div 2 ^ k) % 2 = 1}]

\* The two bytes as one register of 16 bits, the one that goes out first below.
RegisterOf(hi, lo) == BitsOf[hi] \cup {k + 8 : k \in BitsOf[lo]}

(* The table algorithm computes the remainder of the polynomial division.   *)
Register == INSTANCE CrcRegister
              WITH Byte <- {BitsOf[b] : b \in Byte}, remainder <- RegisterOf(crcHi, crcLo)
RegisterSpec == Register!Spec
=============================================================================
