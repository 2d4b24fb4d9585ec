-------------------------- MODULE SlaveReplyProofs --------------------------
(***************************************************************************)
(* What SlaveReply.tla checks for bytes of two bits and tables of three    *)
(* entries, for bytes of any width and tables of any size a byte can       *)
(* count.  The first part is about bits: the library has no facts about    *)
(* powers and no induction a prover can use, so that both are derived      *)
(* here, induction from the well-foundedness of <, the doubling of powers  *)
(* from the number of subsets of a set.  Then come the types, on which the *)
(* history of a command rests, and on both of them what writes and reads   *)
(* do.                                                                     *)
(***************************************************************************)
EXTENDS SlaveReply, Integers, FunctionTheorems, FiniteSetTheorems, SequenceTheorems,
        WellFoundedInduction, TLAPS

BitOf(x, j) == (x \div 2 ^ j) % 2

Byte == 0 .. ByteMod - 1
Value(r) == IF r.fc \in OfCoils THEN Bit ELSE Word
InTable(r) == r.fc # Unknown /\ ~OutOfTable(r)
Storing == {"flag", "echoHigh", "echoLow"}

\* What Request says of a command.
CommandFits(r) ==
    /\ r.fc \in FunctionCode /\ r.addr \in 0 .. ByteMod * ByteMod - 1 /\ r.qty \in Nat
    /\ r.fc \in Single => r.qty = 1
    /\ r.fc \in {WriteCoil, WriteCoils} => r.want \in [0 .. r.qty - 1 -> Bit]
    /\ r.fc \in {WriteHolding, WriteHoldings} => r.want \in [0 .. r.qty - 1 -> Word]

\* Types of what the tasks share, and of the handler's own variables.
SharedFits ==
    /\ coils \in [Coil -> Bit] /\ holdings \in [Holding -> Word]
    /\ woken \in BOOLEAN /\ flagged \subseteq touched
FrameFits(t) == t \in Seq(Nat) /\ \A k \in 2 .. Len(t) : t[k] \in Byte
OwnFits ==
    /\ pc \in {"idle", "loop", "low", "flag", "echoHigh", "echoLow", "give", "reply"}
    /\ i \in Nat /\ data \in Byte
    /\ FrameFits(tx)

\* Where a handler can be.
Idle == tx = << >> /\ flagged = {} /\ touched = {}
InReadCoils ==
    /\ pc \in {"loop", "reply"}
    /\ i <= Packed(req.qty) * Bits
    /\ pc = "reply" => i = Packed(req.qty) * Bits
InReadHoldings ==
    /\ pc \in {"loop", "low", "reply"}
    /\ i <= req.qty
    /\ pc = "low" => i < req.qty
    /\ pc = "reply" => i = req.qty
InWrite ==
    /\ pc \in {"loop", "give", "reply"} \cup
             (IF req.fc = WriteHolding THEN Storing ELSE {"flag"})
    /\ i <= Quantity(req)
    /\ pc \in Storing => i < Quantity(req) /\ req.addr + i \in touched
    /\ pc \in {"give", "reply"} => i = Quantity(req)
Place ==
    /\ pc = "idle" => Idle
    /\ pc # "idle" =>
          /\ CommandFits(req)
          /\ ~InTable(req) =>
                /\ pc \in IF req.fc \in Reads \cup {Unknown} THEN {"reply"} ELSE {"give", "reply"}
                /\ touched = {}
          /\ InTable(req) =>
                /\ req.fc = ReadCoils => InReadCoils
                /\ req.fc = ReadHoldings => InReadHoldings
                /\ req.fc \notin Reads => InWrite

TypeInv == SharedFits /\ OwnFits /\ Place

\* The history of a command ends with what its entries hold.
HeldFits ==
    pc # "idle" /\ InTable(req) =>
        /\ held = [k \in 0 .. Quantity(req) - 1 |-> held[k]]
        /\ \A k \in 0 .. Quantity(req) - 1 :
              /\ held[k] \in Seq(Value(req)) /\ Len(held[k]) > 0
              /\ held[k][Len(held[k])] = Entry(req, k)

\* Entries stored into, and entries flagged so far.
Stored == IF pc \in Storing THEN i + 1 ELSE i

Wanted(k) == \E b \in DOMAIN held[k] : b > 1 /\ held[k][b] = req.want[k]

\* What a write has done so far.
Written ==
    /\ touched = {req.addr + k : k \in 0 .. Stored - 1}
    /\ flagged = {req.addr + k : k \in 0 .. i - 1}
    /\ \A k \in 0 .. Stored - 1 : Wanted(k)
    /\ pc = "reply" => woken

\* The answer as far as it has been put together.
Named == tx[1] = req.fc /\ tx[2] = req.addr \div ByteMod /\ tx[3] = req.addr % ByteMod
Counted == tx[4] = req.qty \div ByteMod /\ tx[5] = req.qty % ByteMod
Ended == pc \in {"give", "reply"}

\* The bytes of the echo come from contents not older than what was stored.
EchoedHigh ==
    \E first \in 2 .. Len(held[0]) : \E a \in first .. Len(held[0]) :
        held[0][first] = req.want[0] /\ tx[4] = held[0][a][1]
EchoedBoth ==
    \E first \in 2 .. Len(held[0]) : \E a \in first .. Len(held[0]) :
        \E b \in a .. Len(held[0]) :
            /\ held[0][first] = req.want[0]
            /\ tx[4] = held[0][a][1] /\ tx[5] = held[0][b][2]
Answered ==
    /\ req.fc = WriteCoil =>
          IF Stored = 0 THEN Len(tx) = 3 /\ Named
                        ELSE Len(tx) = 5 /\ Named /\ tx[4] = req.want[0] * (ByteMod - 1)
    /\ req.fc = WriteCoils =>
          IF Ended THEN Len(tx) = 5 /\ Named /\ Counted ELSE tx = <<req.fc>>
    /\ req.fc = WriteHoldings =>
          IF Ended THEN Len(tx) = 5 /\ Named /\ Counted ELSE tx = << >>
    /\ req.fc = WriteHolding =>
          /\ Stored = 0 => tx = << >>
          /\ pc = "echoHigh" => Len(tx) = 3 /\ Named
          /\ pc = "echoLow" => Len(tx) = 4 /\ Named /\ EchoedHigh
          /\ pc \notin {"echoHigh", "echoLow"} /\ Stored # 0 =>
                Len(tx) = 5 /\ Named /\ EchoedBoth

\* A refused command.
Refused ==
    /\ tx = <<128 + req.fc, IF req.fc = Unknown THEN 1 ELSE 2>>
    /\ touched = {} /\ flagged = {}
    /\ pc = "reply" /\ req.fc # Unknown /\ req.fc \notin Reads => woken

WriteInv ==
    pc # "idle" =>
        /\ ~InTable(req) => Refused
        /\ InTable(req) /\ req.fc \notin Reads => Written /\ Answered

\* Bit k of a reply is one its coil had, or a bit that fills the byte up.
Showed(bit, k, qty, history) ==
    IF k < qty THEN \E b \in DOMAIN history[k] : bit = history[k][b] ELSE bit = 0

CoilsShown ==
    /\ Len(tx) = 2 + i \div Bits /\ tx[1] = req.fc /\ tx[2] = Packed(req.qty)
    /\ \A k \in 0 .. (i \div Bits) * Bits - 1 : Showed(ReplyBit(k), k, req.qty, held)
    /\ \A j \in 0 .. (i % Bits) - 1 :
          Showed(BitOf(data, Bits - (i % Bits) + j), (i \div Bits) * Bits + j, req.qty, held)

HighRead == \E a \in DOMAIN held[i] : ReplyHigh(i) = held[i][a][1]

WordsShown ==
    /\ Len(tx) = 2 + 2 * i + (IF pc = "low" THEN 1 ELSE 0)
    /\ tx[1] = req.fc /\ tx[2] = (req.qty * 2) % ByteMod
    /\ \A k \in 0 .. i - 1 : FromContents(ReplyHigh(k), ReplyLow(k), held[k])
    /\ pc = "low" => HighRead

ReadInv ==
    pc # "idle" /\ InTable(req) =>
        /\ req.fc = ReadCoils => CoilsShown
        /\ req.fc = ReadHoldings => WordsShown

-----------------------------------------------------------------------------
(* Induction over the natural numbers, for a set. *)
LEMMA Induction ==
    ASSUME NEW T, 0 \in T, \A n \in Nat : n \in T => n + 1 \in T
    PROVE  Nat \subseteq T
<1> SUFFICES ASSUME NEW x \in Nat, x \notin T PROVE FALSE
  OBVIOUS
<1> DEFINE U == Nat \ T
           R == OpToRel(<, Nat)
<1>1. PICK m \in U : \A y \in U : ~ (<<y, m>> \in R)
  <2>1. U \subseteq Nat /\ U # {}
    OBVIOUS
  <2>2. IsWellFoundedOn(R, Nat)
    BY NatLessThanWellFounded
  <2> HIDE DEF U, R
  <2> QED
    BY <2>1, <2>2, WFMin
<1>2. m - 1 \in Nat /\ m - 1 \notin T
  <2>1. m \in Nat /\ m # 0 /\ m \notin T
    BY <1>1
  <2>2. m - 1 \in Nat /\ (m - 1) + 1 = m
    BY <2>1
  <2> QED
    BY <2>1, <2>2
<1>3. m - 1 \in U
  BY <1>2
<1>4. <<m - 1, m>> \in R
  BY <1>1, <1>2 DEF OpToRel
<1> QED
  BY <1>1, <1>3, <1>4

\* 2 ^ n is the number of subsets of 1 .. n.
LEMMA PowerDoubles ==
    ASSUME NEW n \in Nat
    PROVE  /\ 2 ^ n \in Nat \ {0}
           /\ 2 ^ (n + 1) = 2 * 2 ^ n
<1> DEFINE S == 1 .. n
           A == SUBSET S
           B == {X \cup {n + 1} : X \in A}
           f == [X \in A |-> X \cup {n + 1}]
<1>1. IsFiniteSet(S) /\ Cardinality(S) = n
  BY FS_Interval
<1>2. IsFiniteSet(1 .. n + 1) /\ Cardinality(1 .. n + 1) = n + 1
  BY FS_Interval
<1>3. IsFiniteSet(A) /\ Cardinality(A) = 2 ^ n
  BY <1>1, FS_SUBSET
<1>4. Cardinality(SUBSET (1 .. n + 1)) = 2 ^ (n + 1)
  BY <1>2, FS_SUBSET
<1>5. f \in Bijection(A, B)
  <2>1. f \in [A -> B]
    OBVIOUS
  <2>2. ASSUME NEW X \in A, NEW Y \in A, f[X] = f[Y] PROVE X = Y
    <3>1. X = f[X] \ {n + 1} /\ Y = f[Y] \ {n + 1}
      OBVIOUS
    <3> QED
      BY <2>2, <3>1
  <2>3. \A b \in B : \E X \in A : f[X] = b
    OBVIOUS
  <2> HIDE DEF f, A, B
  <2> QED
    BY <2>1, <2>2, <2>3, Fun_IsBij
<1>6. IsFiniteSet(B) /\ Cardinality(B) = Cardinality(A)
  <2> HIDE DEF A, B
  <2> QED
  BY <1>3, <1>5, FS_Bijection DEF ExistsBijection
<1>7. SUBSET (1 .. n + 1) = A \cup B
  <2>1. A \cup B \subseteq SUBSET (1 .. n + 1)
    <3>1. S \subseteq 1 .. n + 1 /\ n + 1 \in 1 .. n + 1
      OBVIOUS
    <3> HIDE DEF S
    <3> QED
      BY <3>1
  <2>2. ASSUME NEW X \in SUBSET (1 .. n + 1) PROVE X \in A \cup B
    <3>1. CASE n + 1 \in X
      <4>1. X \ {n + 1} \in A
        <5>1. \A x \in X \ {n + 1} : x \in 1 .. n
          OBVIOUS
        <5> QED
          BY <5>1
      <4>2. X = (X \ {n + 1}) \cup {n + 1}
        BY <3>1
      <4>3. \A Y \in A : Y \cup {n + 1} \in B
        OBVIOUS
      <4> HIDE DEF A, B
      <4> QED
        BY <4>1, <4>2, <4>3
    <3>2. CASE n + 1 \notin X
      <4>1. \A x \in X : x \in 1 .. n
        BY <3>2
      <4> QED
        BY <4>1
    <3> QED
      BY <3>1, <3>2
  <2> QED
    BY <2>1, <2>2
<1>8. A \cap B = {}
  OBVIOUS
<1>9. Cardinality(A \cup B) = Cardinality(A) + Cardinality(B) - Cardinality({})
  <2> HIDE DEF A, B
  <2> QED
    BY <1>3, <1>6, <1>8, FS_Union
<1>10. Cardinality({}) = 0
  BY FS_EmptySet
<1>11. Cardinality(A) \in Nat /\ Cardinality(A) # 0
  <2>1. {} \in A
    OBVIOUS
  <2> HIDE DEF A
  <2> QED
    BY <1>3, <2>1, FS_CardinalityType, FS_EmptySet
<1>12. 2 ^ (n + 1) = Cardinality(A) + Cardinality(A)
  <2>1. Cardinality(A \cup B) = 2 ^ (n + 1)
    BY <1>4, <1>7
  <2>2. Cardinality(A \cup B) = Cardinality(A) + Cardinality(A) - 0
    <3> HIDE DEF A, B
    <3> QED
      BY <1>6, <1>9, <1>10
  <2>3. Cardinality(A \cup B) = Cardinality(A) + Cardinality(A)
    <3> HIDE DEF A, B
    <3> QED
      BY <1>11, <2>2
  <2> QED
    BY <2>1, <2>3
<1> QED
  <2> HIDE DEF A, B
  <2> QED
    BY <1>3, <1>11, <1>12

\* Quotient and remainder.
LEMMA Division ==
    ASSUME NEW x \in Nat, NEW d \in Nat \ {0}
    PROVE  /\ x \div d \in Nat /\ x % d \in 0 .. d - 1
           /\ x = d * (x \div d) + (x % d)
OBVIOUS

\* There is only one quotient and one remainder.
LEMMA DivisionUnique ==
    ASSUME NEW d \in Nat \ {0}, NEW q \in Nat, NEW r \in 0 .. d - 1
    PROVE  (d * q + r) \div d = q /\ (d * q + r) % d = r
<1> DEFINE x == d * q + r
           p == x \div d
           s == x % d
<1>1. x \in Nat
  OBVIOUS
<1>2. p \in Nat /\ s \in 0 .. d - 1 /\ x = d * p + s
  BY <1>1, Division
<1>3. d * p + s = d * q + r
  BY <1>2
<1> HIDE DEF x, p, s
<1>4. ~ (p >= q + 1)
  <2> SUFFICES ASSUME p >= q + 1 PROVE FALSE
    OBVIOUS
  <2>1. PICK e \in Nat : p = q + 1 + e
    <3>1. p - q - 1 \in Nat /\ p = q + 1 + (p - q - 1)
      BY <1>2
    <3> QED
      BY <3>1
  <2>2. d * p = d * q + d + d * e
    BY <2>1
  <2>3. d * e \in Nat
    BY <2>1
  <2> QED
    BY <1>2, <1>3, <2>2, <2>3
<1>5. ~ (q >= p + 1)
  <2> SUFFICES ASSUME q >= p + 1 PROVE FALSE
    OBVIOUS
  <2>1. PICK e \in Nat : q = p + 1 + e
    <3>1. q - p - 1 \in Nat /\ q = p + 1 + (q - p - 1)
      BY <1>2
    <3> QED
      BY <1>2, <3>1
  <2>2. d * q = d * p + d + d * e
    BY <1>2, <2>1
  <2>3. d * e \in Nat
    BY <2>1
  <2> QED
    BY <1>2, <1>3, <2>2, <2>3
<1>6. p = q
  BY <1>2, <1>4, <1>5
<1>7. s = r
  BY <1>2, <1>3, <1>6
<1> QED
  BY <1>6, <1>7 DEF p, s, x

\* Shifting right by j + 1 is halving and shifting by j.
LEMMA ShiftHalf ==
    ASSUME NEW x \in Nat, NEW j \in Nat
    PROVE  BitOf(x, j + 1) = BitOf(x \div 2, j)
<1> DEFINE m == 2 ^ j
           h == x \div 2
           q == h \div m
           r == h % m
<1>1. m \in Nat \ {0} /\ 2 ^ (j + 1) = 2 * m
  BY PowerDoubles
<1> HIDE DEF m
<1>2. h \in Nat /\ x % 2 \in 0 .. 1 /\ x = 2 * h + (x % 2)
  BY Division
<1> HIDE DEF h
<1>3. q \in Nat /\ r \in 0 .. m - 1 /\ h = m * q + r
  BY <1>1, <1>2, Division
<1> HIDE DEF q, r
<1>4. 2 * m \in Nat \ {0} /\ 2 * r + (x % 2) \in 0 .. 2 * m - 1
  BY <1>1, <1>2, <1>3
<1>5. x = (2 * m) * q + (2 * r + (x % 2))
  <2>1. (2 * m) * q = 2 * (m * q)
    BY <1>1, <1>3
  <2>2. m * q \in Nat
    BY <1>1, <1>3
  <2> QED
    BY <1>1, <1>2, <1>3, <2>1, <2>2
<1>6. ((2 * m) * q + (2 * r + (x % 2))) \div (2 * m) = q
  BY <1>3, <1>4, DivisionUnique
<1>7. x \div 2 ^ (j + 1) = q
  BY <1>1, <1>5, <1>6
<1> QED
  BY <1>7 DEF BitOf, q, h, m

\* All bits of 0 are 0.
LEMMA BitZero ==
    ASSUME NEW x \in Nat
    PROVE  BitOf(x, 0) = x % 2
<1>1. x \div 1 = x
  OBVIOUS
<1>2. 2 ^ 0 = 1
  OBVIOUS
<1> QED
  BY <1>1, <1>2 DEF BitOf

\* A bit is 0 or 1.
LEMMA BitIsBit ==
    ASSUME NEW x \in Nat, NEW j \in Nat
    PROVE  BitOf(x, j) \in Bit
<1>1. x \div 2 ^ j \in Nat
  BY PowerDoubles, Division
<1> QED
  BY <1>1 DEF BitOf, Bit

\* A number below 2 ^ n with a bit put on top.
LEMMA TopBit ==
    ASSUME NEW n \in Nat, NEW y \in 0 .. 2 ^ n - 1, NEW b \in Bit
    PROVE  /\ \A j \in 0 .. n - 1 : BitOf(y + b * 2 ^ n, j) = BitOf(y, j)
           /\ BitOf(y + b * 2 ^ n, n) = b
           /\ y + b * 2 ^ n \in 0 .. 2 ^ (n + 1) - 1
<1> DEFINE Good(m, x, c) ==
              /\ \A j \in 0 .. m - 1 : BitOf(x + c * 2 ^ m, j) = BitOf(x, j)
              /\ BitOf(x + c * 2 ^ m, m) = c
           T == {m \in Nat : \A x \in 0 .. 2 ^ m - 1 : \A c \in Bit : Good(m, x, c)}
<1>1. 0 \in T
  <2> SUFFICES ASSUME NEW x \in 0 .. 2 ^ 0 - 1, NEW c \in Bit PROVE Good(0, x, c)
    OBVIOUS
  <2>1. 2 ^ 0 = 1 /\ x = 0 /\ c \in 0 .. 1
    BY DEF Bit
  <2>2. x + c * 2 ^ 0 = c /\ c % 2 = c /\ c \in Nat
    BY <2>1
  <2>3. BitOf(x + c * 2 ^ 0, 0) = c
    BY <2>2, BitZero
  <2> QED
    BY <2>3
<1>2. ASSUME NEW m \in Nat, m \in T PROVE m + 1 \in T
  <2> SUFFICES ASSUME NEW x \in 0 .. 2 ^ (m + 1) - 1, NEW c \in Bit PROVE Good(m + 1, x, c)
    OBVIOUS
  <2> DEFINE z == x + c * 2 ^ (m + 1)
             h == x \div 2
             p == 2 ^ m
  <2>1. p \in Nat \ {0} /\ 2 ^ (m + 1) = 2 * p /\ c \in 0 .. 1
    BY PowerDoubles DEF Bit
  <2>2. x \in Nat /\ x < 2 * p
    BY <2>1
  <2>3. h \in Nat /\ x % 2 \in 0 .. 1 /\ x = 2 * h + (x % 2)
    BY <2>2, Division
  <2>4. h \in 0 .. 2 ^ m - 1
    BY <2>1, <2>2, <2>3
  <2>5. c * p \in Nat /\ c * 2 ^ (m + 1) = 2 * (c * p)
    BY <2>1
  <2>6. z = 2 * (h + c * p) + (x % 2)
    BY <2>1, <2>3, <2>5
  <2>7. z \in Nat /\ h + c * p \in Nat
    BY <2>3, <2>5, <2>6
  <2>8. z \div 2 = h + c * p /\ z % 2 = x % 2
    BY <2>3, <2>6, <2>7
  <2>9. Good(m, h, c)
    BY <1>2, <2>4
  <2>10. \A k \in Nat : BitOf(z, k + 1) = BitOf(h + c * 2 ^ m, k)
    BY <2>7, <2>8, ShiftHalf
  <2>11. \A k \in Nat : BitOf(x, k + 1) = BitOf(h, k)
    BY <2>2, ShiftHalf
  <2>12. BitOf(z, m + 1) = c
    BY <2>9, <2>10
  <2>13. ASSUME NEW j \in 0 .. (m + 1) - 1 PROVE BitOf(z, j) = BitOf(x, j)
    <3>1. CASE j = 0
      BY <2>2, <2>7, <2>8, <3>1, BitZero
    <3>2. CASE j # 0
      <4>1. j - 1 \in 0 .. m - 1 /\ j - 1 \in Nat /\ (j - 1) + 1 = j
        BY <3>2
      <4>2. BitOf(h + c * 2 ^ m, j - 1) = BitOf(h, j - 1)
        BY <2>9, <4>1
      <4>3. BitOf(z, (j - 1) + 1) = BitOf(h + c * 2 ^ m, j - 1)
        BY <2>10, <4>1
      <4>4. BitOf(x, (j - 1) + 1) = BitOf(h, j - 1)
        BY <2>11, <4>1
      <4> QED
        BY <4>1, <4>2, <4>3, <4>4
    <3> QED
      BY <3>1, <3>2
  <2> QED
    BY <2>12, <2>13
<1> HIDE DEF T
<1>3. n \in T
  BY <1>1, <1>2, Induction
<1>4. Good(n, y, b)
  BY <1>3 DEF T
<1>5. y + b * 2 ^ n \in 0 .. 2 ^ (n + 1) - 1
  <2> DEFINE p == 2 ^ n
  <2>1. p \in Nat \ {0} /\ 2 ^ (n + 1) = 2 * p /\ b \in 0 .. 1 /\ y \in 0 .. p - 1
    BY PowerDoubles DEF Bit
  <2> HIDE DEF p
  <2>2. y + b * p \in 0 .. 2 * p - 1
    <3>1. b = 0 \/ b = 1
      BY <2>1
    <3>2. CASE b = 0
      BY <2>1, <3>2
    <3>3. CASE b = 1
      BY <2>1, <3>3
    <3> QED
      BY <3>1, <3>2, <3>3
  <2> QED
    BY <2>1, <2>2 DEF p
<1> QED
  BY <1>4, <1>5

-----------------------------------------------------------------------------
(* The bytes of a frame. *)

\* A byte has two bits or more, and as many values as they make.
LEMMA ByteWidth ==
    /\ ByteMod \in Nat \ {0} /\ Bits - 1 \in Nat
    /\ ByteMod = 2 * 2 ^ (Bits - 1) /\ 2 ^ (Bits - 1) \in Nat \ {0}
    /\ ByteMod >= 4
<1>1. Bits \in Nat /\ Bits - 1 \in Nat /\ (Bits - 1) + 1 = Bits
  BY WidthAssumption
<1>2. 2 ^ Bits \in Nat \ {0} /\ 2 ^ (Bits - 1) \in Nat \ {0}
  BY <1>1, PowerDoubles
<1>3. 2 ^ ((Bits - 1) + 1) = 2 * 2 ^ (Bits - 1)
  BY <1>1, PowerDoubles
<1>4. 2 ^ (Bits - 1) >= 2
  <2>1. Bits - 2 \in Nat /\ (Bits - 2) + 1 = Bits - 1
    BY WidthAssumption
  <2>2. 2 ^ (Bits - 2) \in Nat \ {0} /\ 2 ^ ((Bits - 2) + 1) = 2 * 2 ^ (Bits - 2)
    BY <2>1, PowerDoubles
  <2> QED
    BY <2>1, <2>2
<1> QED
  BY <1>1, <1>2, <1>3, <1>4 DEF ByteMod

\* Every row of n bits is that of a number below 2 ^ n.
LEMMA BitsMakeNumber ==
    ASSUME NEW n \in Nat, NEW f \in [0 .. n - 1 -> Bit]
    PROVE  \E b \in 0 .. 2 ^ n - 1 : \A j \in 0 .. n - 1 : BitOf(b, j) = f[j]
<1> DEFINE Made(m, g) == \E b \in 0 .. 2 ^ m - 1 : \A j \in 0 .. m - 1 : BitOf(b, j) = g[j]
           T == {m \in Nat : \A g \in [0 .. m - 1 -> Bit] : Made(m, g)}
<1>1. 0 \in T
  <2>1. 0 \in 0 .. 2 ^ 0 - 1
    OBVIOUS
  <2> QED
    BY <2>1
<1>2. ASSUME NEW m \in Nat, m \in T PROVE m + 1 \in T
  <2> SUFFICES ASSUME NEW g \in [0 .. (m + 1) - 1 -> Bit] PROVE Made(m + 1, g)
    OBVIOUS
  <2> DEFINE low == [j \in 0 .. m - 1 |-> g[j]]
  <2>1. low \in [0 .. m - 1 -> Bit] /\ m \in 0 .. (m + 1) - 1
    OBVIOUS
  <2>2. PICK b \in 0 .. 2 ^ m - 1 : \A j \in 0 .. m - 1 : BitOf(b, j) = low[j]
    BY <1>2, <2>1
  <2> DEFINE whole == b + g[m] * 2 ^ m
  <2>3. g[m] \in Bit
    BY <2>1
  <2>4. /\ \A j \in 0 .. m - 1 : BitOf(whole, j) = BitOf(b, j)
        /\ BitOf(whole, m) = g[m]
        /\ whole \in 0 .. 2 ^ (m + 1) - 1
    BY <2>3, TopBit
  <2> HIDE DEF whole
  <2>5. ASSUME NEW j \in 0 .. (m + 1) - 1 PROVE BitOf(whole, j) = g[j]
    <3>1. CASE j = m
      BY <2>4, <3>1
    <3>2. CASE j # m
      <4>1. j \in 0 .. m - 1
        BY <3>2
      <4> QED
        BY <2>2, <2>4, <4>1
    <3> QED
      BY <3>1, <3>2
  <2> QED
    BY <2>4, <2>5
<1> HIDE DEF T
<1>3. n \in T
  BY <1>1, <1>2, Induction
<1> QED
  BY <1>3 DEF T

\* The place of entry k in the data bytes.
LEMMA BytePlace ==
    ASSUME NEW k \in Nat
    PROVE  /\ k \div Bits \in Nat /\ k % Bits \in 0 .. Bits - 1
           /\ k = Bits * (k \div Bits) + (k % Bits)
           /\ k = (k \div Bits) * Bits + (k % Bits)
<1>1. Bits \in Nat \ {0}
  BY WidthAssumption
<1>2. /\ k \div Bits \in Nat /\ k % Bits \in 0 .. Bits - 1
      /\ k = Bits * (k \div Bits) + (k % Bits)
  BY <1>1, Division
<1>3. Bits * (k \div Bits) = (k \div Bits) * Bits
  BY <1>1, <1>2
<1> QED
  BY <1>2, <1>3

\* The bytes n bits take hold n bits, and are no more than n.
LEMMA PackedFits ==
    ASSUME NEW n \in Nat
    PROVE  /\ Packed(n) \in Nat /\ Packed(n) <= n
           /\ Packed(n) * Bits \in Nat /\ n <= Packed(n) * Bits
           /\ \A k \in 0 .. n - 1 : k \div Bits \in 0 .. Packed(n) - 1
<1>1. Bits \in Nat \ {0}
  BY WidthAssumption
<1> DEFINE q == n \div Bits
           r == n % Bits
<1>2. q \in Nat /\ r \in 0 .. Bits - 1 /\ n = Bits * q + r
  BY BytePlace
<1>3. Packed(n) = IF r = 0 THEN q ELSE q + 1
  BY DEF Packed
<1> HIDE DEF q, r
<1>4. Bits * q >= q
  BY <1>1, <1>2
<1>5. Packed(n) \in Nat /\ Packed(n) <= n
  BY <1>1, <1>2, <1>3, <1>4
<1>6. Packed(n) * Bits = IF r = 0 THEN Bits * q ELSE Bits * q + Bits
  BY <1>1, <1>2, <1>3
<1>7. Packed(n) * Bits \in Nat /\ n <= Packed(n) * Bits
  BY <1>1, <1>2, <1>6
<1>8. ASSUME NEW k \in 0 .. n - 1 PROVE k \div Bits \in 0 .. Packed(n) - 1
  <2>1. /\ k \div Bits \in Nat /\ k % Bits \in 0 .. Bits - 1
        /\ k = Bits * (k \div Bits) + (k % Bits)
    BY BytePlace
  <2>2. ~ (k \div Bits >= Packed(n))
    <3> SUFFICES ASSUME k \div Bits >= Packed(n) PROVE FALSE
      OBVIOUS
    <3> DEFINE d == k \div Bits
               p == Packed(n)
               m == k % Bits
    <3>1. d \in Nat /\ p \in Nat /\ d >= p /\ m \in Nat /\ k = Bits * d + m
      BY <1>5, <2>1
    <3>2. n <= p * Bits /\ k < n /\ k \in Nat
      BY <1>7
    <3> HIDE DEF d, p, m
    <3>3. p * Bits \in Nat /\ Bits * d \in Nat /\ Bits * d >= p * Bits
      BY <1>1, <3>1
    <3> QED
      BY <3>1, <3>2, <3>3
  <2> QED
    BY <1>5, <2>1, <2>2
<1> QED
  BY <1>5, <1>7, <1>8

\* What the panel packs is what the handler takes out again.
LEMMA CommandedRight ==
    ASSUME NEW r, r.qty \in Nat, r.want \in [0 .. r.qty - 1 -> Bit],
           NEW k \in 0 .. r.qty - 1
    PROVE  CommandedBit(r, k) = r.want[k]
<1> DEFINE d == k \div Bits
           m == k % Bits
           f == [j \in 0 .. Bits - 1 |->
                    IF d * Bits + j < r.qty THEN r.want[d * Bits + j] ELSE 0]
<1>1. k \in Nat /\ d \in Nat /\ m \in 0 .. Bits - 1 /\ k = d * Bits + m
  BY BytePlace
<1>2. f \in [0 .. Bits - 1 -> Bit]
  <2> SUFFICES ASSUME NEW j \in 0 .. Bits - 1
               PROVE  (IF d * Bits + j < r.qty THEN r.want[d * Bits + j] ELSE 0) \in Bit
    OBVIOUS
  <2>1. d * Bits + j \in Nat /\ 0 \in Bit
    BY <1>1, WidthAssumption DEF Bit
  <2> QED
    BY <2>1
<1>3. \E b \in 0 .. 2 ^ Bits - 1 : \A j \in 0 .. Bits - 1 : BitOf(b, j) = f[j]
  BY <1>2, WidthAssumption, BitsMakeNumber
<1>4. \A j \in 0 .. Bits - 1 : BitOf(PanelByte(r, d), j) = f[j]
  BY <1>3 DEF PanelByte, ByteMod, BitOf
<1>5. d \in 0 .. Packed(r.qty) - 1
  BY PackedFits
<1>6. PanelBytes(r)[d] = PanelByte(r, d)
  BY <1>5 DEF PanelBytes
<1>7. CommandedBit(r, k) = BitOf(PanelByte(r, d), m)
  BY <1>6 DEF CommandedBit, BitOf
<1>8. f[m] = r.want[k]
  BY <1>1
<1> QED
  BY <1>1, <1>4, <1>7, <1>8

\* Shifting a bit into a byte from the top.
LEMMA ShiftedIn ==
    ASSUME NEW byte \in Byte, NEW bit \in Bit
    PROVE  /\ ShiftIn(byte, bit) \in Byte
           /\ \A j \in 0 .. Bits - 2 : BitOf(ShiftIn(byte, bit), j) = BitOf(byte, j + 1)
           /\ BitOf(ShiftIn(byte, bit), Bits - 1) = bit
<1> DEFINE n == Bits - 1
           h == byte \div 2
<1>1. n \in Nat /\ 2 ^ n \in Nat \ {0} /\ ByteMod = 2 * 2 ^ n
  BY ByteWidth
<1>2. byte \in Nat /\ byte < 2 * 2 ^ n
  BY <1>1 DEF Byte
<1>3. h \in Nat /\ byte % 2 \in 0 .. 1 /\ byte = 2 * h + (byte % 2)
  BY <1>2, Division
<1>4. h \in 0 .. 2 ^ n - 1
  BY <1>1, <1>2, <1>3
<1>5. ShiftIn(byte, bit) = h + bit * 2 ^ n
  BY DEF ShiftIn
<1>6. /\ \A j \in 0 .. n - 1 : BitOf(h + bit * 2 ^ n, j) = BitOf(h, j)
      /\ BitOf(h + bit * 2 ^ n, n) = bit
      /\ h + bit * 2 ^ n \in 0 .. 2 ^ (n + 1) - 1
  BY <1>1, <1>4, TopBit
<1>7. 2 ^ (n + 1) = 2 * 2 ^ n
  BY <1>1, PowerDoubles
<1>8. \A j \in Nat : BitOf(byte, j + 1) = BitOf(h, j)
  BY <1>2, ShiftHalf
<1>9. ASSUME NEW j \in 0 .. Bits - 2
      PROVE  BitOf(ShiftIn(byte, bit), j) = BitOf(byte, j + 1)
  <2>1. j \in 0 .. n - 1 /\ j \in Nat
    BY WidthAssumption
  <2> QED
    BY <1>5, <1>6, <1>8, <2>1
<1>10. ShiftIn(byte, bit) \in Byte
  BY <1>1, <1>5, <1>6, <1>7 DEF Byte
<1> QED
  BY <1>5, <1>6, <1>9, <1>10

\* A frame made longer by bytes.
LEMMA FrameLonger ==
    ASSUME NEW t, FrameFits(t), NEW s \in Seq(Byte)
    PROVE  /\ t \o s \in Seq(Nat) /\ Len(t \o s) = Len(t) + Len(s)
           /\ \A k \in 1 .. Len(t) : (t \o s)[k] = t[k]
           /\ \A k \in 1 .. Len(s) : (t \o s)[Len(t) + k] = s[k]
           /\ FrameFits(t \o s)
<1>1. Byte \subseteq Nat
  BY ByteWidth DEF Byte
<1>2. t \in Seq(Nat) /\ s \in Seq(Nat)
  BY <1>1, SeqMonotonic DEF FrameFits
<1>3. Len(t) \in Nat /\ Len(s) \in Nat /\ \A k \in 1 .. Len(s) : s[k] \in Byte
  BY <1>2, LenProperties, ElementOfSeq
<1> DEFINE u == t \o s
<1>4. /\ u \in Seq(Nat) /\ Len(u) = Len(t) + Len(s)
      /\ \A k \in 1 .. Len(t) + Len(s) :
            u[k] = IF k <= Len(t) THEN t[k] ELSE s[k - Len(t)]
  BY <1>2, ConcatProperties
<1> HIDE DEF u
<1>5. \A k \in 1 .. Len(t) : u[k] = t[k]
  BY <1>3, <1>4
<1>6. \A k \in 1 .. Len(s) : u[Len(t) + k] = s[k]
  <2> SUFFICES ASSUME NEW k \in 1 .. Len(s) PROVE u[Len(t) + k] = s[k]
    OBVIOUS
  <2>1. /\ Len(t) + k \in 1 .. Len(t) + Len(s) /\ ~ (Len(t) + k <= Len(t))
        /\ (Len(t) + k) - Len(t) = k
    BY <1>3
  <2> QED
    BY <1>4, <2>1
<1>7. FrameFits(u)
  <2>1. ASSUME NEW k \in 2 .. Len(u) PROVE u[k] \in Byte
    <3>1. CASE k <= Len(t)
      BY <1>3, <1>5, <3>1 DEF FrameFits
    <3>2. CASE k > Len(t)
      <4>1. k - Len(t) \in 1 .. Len(s) /\ Len(t) + (k - Len(t)) = k
        BY <1>3, <1>4, <3>2
      <4> QED
        BY <1>3, <1>6, <4>1
    <3> QED
      BY <1>3, <3>1, <3>2
  <2> QED
    BY <1>4, <2>1 DEF FrameFits
<1> QED
  BY <1>4, <1>5, <1>6, <1>7 DEF u

\* A frame made longer by one byte.
LEMMA FrameAppend ==
    ASSUME NEW t, FrameFits(t), NEW b \in Byte
    PROVE  /\ FrameFits(Append(t, b)) /\ Len(Append(t, b)) = Len(t) + 1
           /\ \A k \in 1 .. Len(t) : Append(t, b)[k] = t[k]
           /\ Append(t, b)[Len(t) + 1] = b
<1>1. b \in Nat /\ t \in Seq(Nat)
  BY ByteWidth DEF Byte, FrameFits
<1>2. /\ Append(t, b) \in Seq(Nat) /\ Len(Append(t, b)) = Len(t) + 1
      /\ \A k \in 1 .. Len(t) : Append(t, b)[k] = t[k]
      /\ Append(t, b)[Len(t) + 1] = b
  BY <1>1, AppendProperties
<1>3. ASSUME NEW k \in 2 .. Len(Append(t, b)) PROVE Append(t, b)[k] \in Byte
  <2>1. CASE k = Len(t) + 1
    BY <1>2, <2>1
  <2>2. CASE k # Len(t) + 1
    <3>1. k \in 2 .. Len(t) /\ k \in 1 .. Len(t)
      BY <1>1, <1>2, <2>2, LenProperties
    <3> QED
      BY <1>2, <3>1 DEF FrameFits
  <2> QED
    BY <2>1, <2>2
<1> QED
  BY <1>2, <1>3 DEF FrameFits

-----------------------------------------------------------------------------
(* Commands. *)

\* What the panel requests is a command as the handlers take it.
LEMMA RequestFits ==
    ASSUME NEW r \in Request
    PROVE  CommandFits(r)
<1> DEFINE Asked == {[fc |-> f, addr |-> a, qty |-> n, want |-> w] :
                f \in Reads \cup {Unknown}, a \in Address, n \in 0 .. MaxQty, w \in {<< >>}}
           Coils(n) == {[fc |-> f, addr |-> a, qty |-> n, want |-> w] :
                f \in {WriteCoil, WriteCoils} \ (IF n = 1 THEN {} ELSE Single),
                a \in Address, w \in [0 .. n - 1 -> Bit]}
           Words(n) == {[fc |-> f, addr |-> a, qty |-> n, want |-> w] :
                f \in {WriteHolding, WriteHoldings} \ (IF n = 1 THEN {} ELSE Single),
                a \in Address, w \in [0 .. n - 1 -> Word]}
<1>1. CASE r \in Asked
  BY <1>1, BoundAssumption
     DEF CommandFits, FunctionCode, OfCoils, Reads, Single, Unknown, ReadCoils, ReadHoldings,
         WriteCoil, WriteHolding, WriteCoils, WriteHoldings
<1>2. ASSUME NEW n \in 0 .. MaxQty, r \in Coils(n) PROVE CommandFits(r)
  BY <1>2, BoundAssumption
     DEF CommandFits, FunctionCode, OfCoils, Reads, Single, Unknown, ReadCoils, ReadHoldings,
         WriteCoil, WriteHolding, WriteCoils, WriteHoldings
<1>3. ASSUME NEW n \in 0 .. MaxQty, r \in Words(n) PROVE CommandFits(r)
  BY <1>3, BoundAssumption
     DEF CommandFits, FunctionCode, OfCoils, Reads, Single, Unknown, ReadCoils, ReadHoldings,
         WriteCoil, WriteHolding, WriteCoils, WriteHoldings
<1>4. Request = Asked \cup (UNION {Coils(n) : n \in 0 .. MaxQty})
                      \cup (UNION {Words(n) : n \in 0 .. MaxQty})
  BY DEF Request
<1> HIDE DEF Asked, Coils, Words
<1> QED
  BY <1>1, <1>2, <1>3, <1>4

\* A command that is carried out lies within its table.
LEMMA InRange ==
    ASSUME NEW r, CommandFits(r)
    PROVE  /\ Quantity(r) \in Nat /\ r.addr \in Nat
           /\ InTable(r) =>
                 /\ Quantity(r) <= ByteMod - 1 /\ r.addr <= ByteMod - 1
                 /\ \A k \in 0 .. Quantity(r) - 1 :
                       r.addr + k \in IF r.fc \in OfCoils THEN Coil ELSE Holding
<1>1. Quantity(r) \in Nat /\ r.addr \in Nat
  BY ByteWidth DEF Quantity, CommandFits
<1>2. Max(r) \in Nat /\ Max(r) <= ByteMod - 1
  BY WidthAssumption, ByteWidth DEF Max
<1>3. InTable(r) => r.addr + Quantity(r) <= Max(r)
  BY <1>1, <1>2 DEF InTable, OutOfTable
<1>4. ASSUME InTable(r), NEW k \in 0 .. Quantity(r) - 1
      PROVE  r.addr + k \in 0 .. Max(r) - 1
  BY <1>1, <1>2, <1>3, <1>4
<1>5. 0 .. Max(r) - 1 = IF r.fc \in OfCoils THEN Coil ELSE Holding
  BY DEF Max, Coil, Holding
<1>6. InTable(r) => Quantity(r) <= ByteMod - 1 /\ r.addr <= ByteMod - 1
  BY <1>1, <1>2, <1>3, ByteWidth
<1> QED
  BY <1>1, <1>4, <1>5, <1>6

\* What the codes of the commands tell apart.
LEMMA Codes ==
    /\ ReadCoils \in OfCoils /\ WriteCoil \in OfCoils /\ WriteCoils \in OfCoils
    /\ ReadHoldings \notin OfCoils /\ WriteHolding \notin OfCoils
    /\ WriteHoldings \notin OfCoils
    /\ Reads = {ReadCoils, ReadHoldings} /\ Single = {WriteCoil, WriteHolding}
    /\ WriteCoil \notin Reads /\ WriteCoils \notin Reads
    /\ WriteHolding \notin Reads /\ WriteHoldings \notin Reads
    /\ ReadCoils \notin Single /\ ReadHoldings \notin Single
    /\ WriteCoils \notin Single /\ WriteHoldings \notin Single
    /\ ReadCoils # ReadHoldings /\ ReadCoils # Unknown /\ ReadHoldings # Unknown
    /\ WriteCoil # WriteHolding /\ WriteCoil # WriteCoils /\ WriteCoil # WriteHoldings
    /\ WriteHolding # WriteCoils /\ WriteHolding # WriteHoldings /\ WriteCoils # WriteHoldings
    /\ Unknown \notin {WriteCoil, WriteHolding, WriteCoils, WriteHoldings} /\ Unknown \notin Reads
    /\ FunctionCode = {ReadCoils, ReadHoldings, WriteCoil, WriteHolding, WriteCoils,
                       WriteHoldings, Unknown}
    /\ FunctionCode \subseteq 1 .. 16
BY DEF OfCoils, Reads, Single, FunctionCode, ReadCoils, ReadHoldings, WriteCoil, WriteHolding,
       WriteCoils, WriteHoldings, Unknown

\* Address and quantity, each in two bytes.
LEMMA BytesOf ==
    ASSUME NEW r, CommandFits(r)
    PROVE  /\ AddressBytes(r) \in Seq(Byte) /\ Len(AddressBytes(r)) = 2
           /\ AddressBytes(r)[1] = r.addr \div ByteMod
           /\ AddressBytes(r)[2] = r.addr % ByteMod
           /\ InTable(r) /\ r.fc \notin Single =>
                 /\ QtyBytes(r) \in Seq(Byte) /\ Len(QtyBytes(r)) = 2
                 /\ QtyBytes(r)[1] = r.qty \div ByteMod
                 /\ QtyBytes(r)[2] = r.qty % ByteMod
<1> DEFINE B == ByteMod
<1>1. B \in Nat \ {0}
  BY ByteWidth
<1>2. ASSUME NEW x \in Nat, x < B * B
      PROVE  <<x \div B, x % B>> \in Seq(Byte)
  <2> DEFINE q == x \div B
             m == x % B
  <2>1. q \in Nat /\ m \in 0 .. B - 1 /\ x = B * q + m
    BY <1>1, Division
  <2> HIDE DEF q, m, B
  <2>2. ~ (q >= B)
    <3> SUFFICES ASSUME q >= B PROVE FALSE
      OBVIOUS
    <3>1. B * q >= B * B /\ B * q \in Nat /\ B * B \in Nat
      BY <1>1, <2>1
    <3> QED
      BY <1>2, <2>1, <3>1
  <2>3. q \in 0 .. B - 1
    BY <1>1, <2>1, <2>2
  <2>4. <<q, m>> \in Seq(Byte)
    BY <2>1, <2>3 DEF Byte, B
  <2> QED
    BY <2>4 DEF q, m
<1>3. r.addr \in Nat /\ r.addr < B * B
  <2>1. B * B \in Nat
    BY <1>1
  <2> QED
    BY <2>1 DEF CommandFits
<1>4. InTable(r) /\ r.fc \notin Single => r.qty \in Nat /\ r.qty < B * B
  <2> SUFFICES ASSUME InTable(r), r.fc \notin Single PROVE r.qty \in Nat /\ r.qty < B * B
    OBVIOUS
  <2>1. r.qty \in Nat /\ r.qty <= B - 1
    BY InRange DEF Quantity, CommandFits
  <2>2. B * B >= B
    BY <1>1
  <2> QED
    BY <1>1, <2>1, <2>2
<1>5. AddressBytes(r) \in Seq(Byte)
  BY <1>2, <1>3 DEF AddressBytes
<1>6. InTable(r) /\ r.fc \notin Single => QtyBytes(r) \in Seq(Byte)
  BY <1>2, <1>4 DEF QtyBytes
<1> QED
  BY <1>5, <1>6 DEF AddressBytes, QtyBytes

\* What each reply begins with.
LEMMA HeadingFits ==
    ASSUME NEW r, CommandFits(r), InTable(r)
    PROVE  /\ FrameFits(Heading(r))
           /\ r.fc = ReadCoils => Heading(r) = <<r.fc, Packed(r.qty)>>
           /\ r.fc = ReadHoldings => Heading(r) = <<r.fc, (r.qty * 2) % ByteMod>>
           /\ r.fc = WriteCoil => Heading(r) = <<r.fc>> \o AddressBytes(r)
           /\ r.fc = WriteCoils => Heading(r) = <<r.fc>>
           /\ r.fc \in {WriteHolding, WriteHoldings} => Heading(r) = << >>
<1>1. r.fc \in Nat
  <2>1. r.fc \in 1 .. 16
    BY Codes, Zenon DEF CommandFits
  <2> QED
    BY <2>1
<1>2. /\ r.fc = ReadCoils => Heading(r) = <<r.fc, Packed(r.qty)>>
      /\ r.fc = ReadHoldings => Heading(r) = <<r.fc, (r.qty * 2) % ByteMod>>
      /\ r.fc = WriteCoil => Heading(r) = <<r.fc>> \o AddressBytes(r)
      /\ r.fc = WriteCoils => Heading(r) = <<r.fc>>
      /\ r.fc \in {WriteHolding, WriteHoldings} => Heading(r) = << >>
  BY Codes DEF Heading
<1>3. FrameFits(<< >>) /\ FrameFits(<<r.fc>>)
  BY <1>1 DEF FrameFits
<1>4. ASSUME NEW b \in Byte PROVE FrameFits(<<r.fc, b>>)
  BY <1>1, ByteWidth DEF FrameFits, Byte
<1>5. r.fc = ReadCoils => Packed(r.qty) \in Byte
  <2> SUFFICES ASSUME r.fc = ReadCoils PROVE Packed(r.qty) \in Byte
    OBVIOUS
  <2>1. r.qty \in Nat /\ r.qty <= ByteMod - 1
    BY InRange, Codes DEF Quantity, CommandFits
  <2>2. Packed(r.qty) \in Nat /\ Packed(r.qty) <= r.qty
    BY <2>1, PackedFits
  <2> QED
    BY <2>1, <2>2, ByteWidth DEF Byte
<1>6. (r.qty * 2) % ByteMod \in Byte
  <2>1. r.qty * 2 \in Nat
    BY DEF CommandFits
  <2> QED
    BY <2>1, ByteWidth, Division DEF Byte
<1>7. FrameFits(<<r.fc>> \o AddressBytes(r))
  BY <1>3, BytesOf, FrameLonger
<1> QED
  BY <1>2, <1>3, <1>4, <1>5, <1>6, <1>7, Codes DEF CommandFits, InTable

-----------------------------------------------------------------------------
(* Types. *)

\* At first no command is under way.
LEMMA TypeInit == Init => TypeInv
<1> SUFFICES ASSUME Init PROVE TypeInv
  OBVIOUS
<1>1. coils \in [Coil -> Bit] /\ holdings \in [Holding -> Word]
  BY DEF Init, Bit
<1>2. OwnFits
  BY ByteWidth DEF Init, OwnFits, FrameFits, Byte
<1>3. Place
  BY DEF Init, Place, Idle
<1>4. woken \in BOOLEAN /\ flagged \subseteq touched
  BY DEF Init
<1> QED
  BY <1>1, <1>2, <1>3, <1>4 DEF TypeInv, SharedFits

\* A command that arrives is begun or refused where its function code says.
LEMMA TypeReceive ==
    ASSUME TypeInv, NEW r \in Request, Receive(r)
    PROVE  TypeInv'
<1>1. /\ CommandFits(r) /\ pc = "idle" /\ Idle
      /\ req' = r /\ i' = 0 /\ data' = 0 /\ touched' = {}
      /\ UNCHANGED <<coils, holdings, flagged, woken>>
  BY RequestFits DEF Receive, TypeInv, Place, tables, effects
<1>2. SharedFits'
  BY <1>1 DEF TypeInv, SharedFits, Idle
<1>3. 0 \in Byte /\ 1 \in Byte /\ 2 \in Byte
  BY ByteWidth DEF Byte
<1>4. r.fc \in 1 .. 16
  BY <1>1, Codes, Zenon DEF CommandFits
<1>5. \A b \in Byte : FrameFits(<<128 + r.fc, b>>)
  BY <1>4, ByteWidth DEF FrameFits, Byte
<1>6. Packed(r.qty) * Bits \in Nat /\ Quantity(r) \in Nat /\ r.qty \in Nat
  BY <1>1, PackedFits, InRange DEF CommandFits
<1>7. CASE r.fc = Unknown
  <2>1. tx' = <<128 + r.fc, 1>> /\ pc' = "reply"
    BY <1>7 DEF Receive
  <2>2. FrameFits(tx')
    BY <1>3, <1>5, <2>1
  <2> QED
    BY <1>1, <1>2, <1>3, <1>7, <2>1, <2>2, Codes DEF TypeInv, OwnFits, Place, InTable, FrameFits
<1>8. CASE r.fc # Unknown /\ OutOfTable(r)
  <2>1. tx' = <<128 + r.fc, 2>> /\ pc' = IF r.fc \in Reads THEN "reply" ELSE "give"
    BY <1>8 DEF Receive
  <2>2. FrameFits(tx')
    BY <1>3, <1>5, <2>1
  <2>3. ~ InTable(r)
    BY <1>8 DEF InTable
  <2> QED
    BY <1>1, <1>2, <1>3, <1>8, <2>1, <2>2, <2>3
       DEF TypeInv, OwnFits, Place, InTable, OutOfTable, Max, Quantity, CommandFits, FrameFits
<1>9. CASE InTable(r)
  <2>1. tx' = Heading(r) /\ pc' = "loop"
    BY <1>9 DEF Receive, InTable
  <2>2. FrameFits(tx')
    BY <1>1, <1>9, <2>1, HeadingFits
  <2>3. OwnFits'
    BY <1>1, <1>3, <2>1, <2>2 DEF OwnFits, FrameFits
  <2>4. Place'
    BY <1>1, <1>6, <1>9, <2>1
       DEF Place, InTable, OutOfTable, Max, Quantity, CommandFits, InReadCoils,
           InReadHoldings, InWrite, Packed, Storing
  <2> QED
    BY <1>2, <2>3, <2>4 DEF TypeInv
<1> QED
  BY <1>7, <1>8, <1>9 DEF InTable

\* A handler that uses the tables carries out a command within them.
LEMMA Working ==
    ASSUME TypeInv, pc \in {"loop", "low", "flag", "echoHigh", "echoLow"}
    PROVE  /\ CommandFits(req) /\ InTable(req)
           /\ req.fc \in {ReadCoils, ReadHoldings, WriteCoil, WriteHolding, WriteCoils,
                           WriteHoldings}
           /\ Quantity(req) \in Nat
           /\ \A k \in 0 .. Quantity(req) - 1 :
                 /\ req.fc \in OfCoils => req.addr + k \in Coil
                 /\ req.fc \notin OfCoils => req.addr + k \in Holding
<1>1. CommandFits(req) /\ InTable(req)
  BY DEF TypeInv, Place
<1>2. req.fc \in {ReadCoils, ReadHoldings, WriteCoil, WriteHolding, WriteCoils, WriteHoldings}
  BY <1>1, Codes, Zenon DEF CommandFits, InTable
<1> QED
  BY <1>1, <1>2, InRange

\* The read handlers stay within the table, the byte and the frame.
LEMMA TypeRead ==
    ASSUME TypeInv, PackCoil \/ ReadWord \/ ReadEnds
    PROVE  TypeInv'
<1>1. CASE PackCoil
  <2>1. /\ pc = "loop" /\ req.fc = ReadCoils /\ i < Packed(req.qty) * Bits
        /\ i' = i + 1
        /\ UNCHANGED <<coils, holdings, flagged, woken, pc, req, touched>>
    BY <1>1 DEF PackCoil, tables, effects
  <2>2. CommandFits(req) /\ InTable(req)
    BY <2>1, Working
  <2> DEFINE bit == IF i < req.qty THEN coils[req.addr + i] ELSE 0
             byte == ShiftIn(IF i % Bits = 0 THEN 0 ELSE data, bit)
  <2>3. data' = byte /\ tx' = (IF (i + 1) % Bits = 0 THEN Append(tx, byte) ELSE tx)
    BY <1>1 DEF PackCoil
  <2>4. i \in Nat /\ req.qty \in Nat /\ Packed(req.qty) * Bits \in Nat
    BY <2>2, PackedFits DEF CommandFits, TypeInv, OwnFits
  <2>5. bit \in Bit
    <3>1. CASE i < req.qty
      <4>1. i \in 0 .. Quantity(req) - 1
        BY <2>1, <2>4, <3>1, Codes DEF Quantity
      <4>2. req.addr + i \in Coil
        BY <2>1, <4>1, Working, Codes
      <4> QED
        BY <3>1, <4>2 DEF TypeInv, SharedFits
    <3>2. CASE ~ (i < req.qty)
      BY <3>2 DEF Bit
    <3> QED
      BY <3>1, <3>2
  <2>6. byte \in Byte
    <3>1. (IF i % Bits = 0 THEN 0 ELSE data) \in Byte
      BY ByteWidth DEF TypeInv, OwnFits, Byte
    <3> HIDE DEF bit
    <3> QED
      BY <2>5, <3>1, ShiftedIn
  <2> HIDE DEF bit, byte
  <2>7. FrameFits(tx')
    BY <2>3, <2>6, FrameAppend DEF TypeInv, OwnFits
  <2>8. OwnFits'
    BY <2>1, <2>3, <2>4, <2>6, <2>7 DEF TypeInv, OwnFits
  <2>9. Place'
    BY <2>1, <2>2, <2>4, Codes
       DEF TypeInv, Place, InTable, OutOfTable, Max, Quantity, CommandFits, InReadCoils, Packed
  <2> QED
    BY <2>1, <2>8, <2>9 DEF TypeInv, SharedFits
<1>2. CASE ReadWord
  <2>1. /\ pc \in {"loop", "low"} /\ req.fc = ReadHoldings /\ i < req.qty
        /\ pc = "loop" => /\ tx' = Append(tx, holdings[req.addr + i][1])
                          /\ pc' = "low" /\ i' = i
        /\ pc = "low" => /\ tx' = Append(tx, holdings[req.addr + i][2])
                         /\ pc' = "loop" /\ i' = i + 1
        /\ UNCHANGED <<coils, holdings, flagged, woken, req, data, touched>>
    BY <1>2 DEF ReadWord, tables, effects
  <2>2. CommandFits(req) /\ InTable(req)
    BY <2>1, Working
  <2>3. i \in Nat /\ req.qty \in Nat
    BY <2>2 DEF CommandFits, TypeInv, OwnFits
  <2>4. holdings[req.addr + i] \in Word
    <3>1. i \in 0 .. Quantity(req) - 1
      BY <2>1, <2>3, Codes DEF Quantity
    <3>2. req.addr + i \in Holding
      BY <2>1, <3>1, Working, Codes
    <3> QED
      BY <3>2 DEF TypeInv, SharedFits
  <2>5. holdings[req.addr + i][1] \in Byte /\ holdings[req.addr + i][2] \in Byte
    BY <2>4, WidthAssumption DEF Byte
  <2>6. FrameFits(tx')
    <3>1. /\ FrameFits(Append(tx, holdings[req.addr + i][1]))
          /\ FrameFits(Append(tx, holdings[req.addr + i][2]))
      <4>1. FrameFits(tx)
        BY DEF TypeInv, OwnFits
      <4> QED
        BY <2>5, <4>1, FrameAppend
    <3> QED
      BY <2>1, <3>1
  <2>7. OwnFits'
    BY <2>1, <2>3, <2>6 DEF TypeInv, OwnFits
  <2>8. Place'
    BY <2>1, <2>2, <2>3, Codes
       DEF TypeInv, Place, InTable, OutOfTable, Max, Quantity, CommandFits, InReadHoldings
  <2> QED
    BY <2>1, <2>7, <2>8 DEF TypeInv, SharedFits
<1>3. CASE ReadEnds
  <2>1. /\ pc = "loop" /\ req.fc \in Reads /\ pc' = "reply"
        /\ i = IF req.fc = ReadCoils THEN Packed(req.qty) * Bits ELSE req.qty
        /\ UNCHANGED <<coils, holdings, flagged, woken, req, i, data, tx, touched>>
    BY <1>3 DEF ReadEnds, tables, effects
  <2>2. CommandFits(req) /\ InTable(req)
    BY <2>1, Working
  <2>3. OwnFits'
    BY <2>1 DEF TypeInv, OwnFits
  <2>4. Packed(req.qty) * Bits \in Nat /\ req.qty \in Nat
    BY <2>2, PackedFits DEF CommandFits
  <2>5. Place'
    BY <2>1, <2>2, <2>4, Codes
       DEF TypeInv, Place, InTable, OutOfTable, Max, Quantity, CommandFits, InReadCoils,
           InReadHoldings, Packed
  <2> QED
    BY <2>1, <2>3, <2>5 DEF TypeInv, SharedFits
<1> QED
  BY <1>1, <1>2, <1>3

\* What StoreCoil stores is what is wanted, packed or not.
LEMMA StoresWanted ==
    ASSUME TypeInv, StoreCoil
    PROVE  /\ req.want[i] \in Bit /\ i \in 0 .. Quantity(req) - 1
           /\ coils' = [coils EXCEPT ![req.addr + i] = req.want[i]]
           /\ held' = [held EXCEPT ![i] = Append(@, req.want[i])]
           /\ tx' = IF req.fc = WriteCoil
                      THEN tx \o <<req.want[0] * (ByteMod - 1), 0>> ELSE tx
           /\ req.fc = WriteCoil => i = 0
           /\ Quantity(req) = req.qty
<1>1. pc = "loop" /\ req.fc \in {WriteCoil, WriteCoils} /\ i < Quantity(req)
  BY DEF StoreCoil
<1>2. CommandFits(req) /\ i \in Nat
  BY <1>1, Working DEF TypeInv, OwnFits
<1>3. /\ Quantity(req) = req.qty /\ req.qty \in Nat
      /\ req.want \in [0 .. req.qty - 1 -> Bit]
  BY <1>1, <1>2, Codes DEF CommandFits, Quantity
<1>4. i \in 0 .. req.qty - 1
  BY <1>1, <1>2, <1>3
<1>5. req.fc = WriteCoil => i = 0
  BY <1>2, <1>3, <1>4, Codes DEF CommandFits
<1> DEFINE bit == IF req.fc = WriteCoil THEN req.want[0] ELSE CommandedBit(req, i)
<1>6. bit = req.want[i]
  BY <1>3, <1>4, <1>5, CommandedRight
<1>7. /\ coils' = [coils EXCEPT ![req.addr + i] = bit]
      /\ held' = [held EXCEPT ![i] = Append(@, bit)]
      /\ tx' = IF req.fc = WriteCoil THEN tx \o <<bit * (ByteMod - 1), 0>> ELSE tx
  BY DEF StoreCoil
<1> HIDE DEF bit
<1> QED
  BY <1>3, <1>4, <1>5, <1>6, <1>7

\* So do the write handlers.
LEMMA TypeWrite ==
    ASSUME TypeInv, StoreCoil \/ StoreHolding \/ Echo \/ Flag \/ WriteEnds \/ Give
    PROVE  TypeInv'
<1>0. FrameFits(tx) /\ i \in Nat
  BY DEF TypeInv, OwnFits
<1>1. CASE StoreCoil
  <2>1. /\ pc = "loop" /\ req.fc \in {WriteCoil, WriteCoils} /\ pc' = "flag"
        /\ touched' = touched \cup {req.addr + i}
        /\ UNCHANGED <<holdings, flagged, woken, req, i, data>>
    BY <1>1 DEF StoreCoil, effects
  <2>2. /\ CommandFits(req) /\ InTable(req) /\ Quantity(req) \in Nat
    BY <2>1, Working
  <2>3. SharedFits'
    <3>1. req.addr + i \in Coil
      BY <1>1, <2>1, StoresWanted, Working, Codes
    <3>2. coils' \in [Coil -> Bit]
      BY <1>1, <3>1, StoresWanted DEF TypeInv, SharedFits
    <3> QED
      BY <2>1, <3>2 DEF TypeInv, SharedFits
  <2>4. FrameFits(tx')
    <3>1. req.fc = WriteCoil => req.want[0] \in Bit
      BY <1>1, StoresWanted
    <3>2. req.fc = WriteCoil => <<req.want[0] * (ByteMod - 1), 0>> \in Seq(Byte)
      BY <3>1, ByteWidth DEF Bit, Byte
    <3>3. CASE req.fc = WriteCoil
      <4>1. tx' = tx \o <<req.want[0] * (ByteMod - 1), 0>>
        BY <1>1, <3>3, StoresWanted
      <4> QED
        BY <1>0, <3>2, <3>3, <4>1, FrameLonger
    <3>4. CASE req.fc # WriteCoil
      <4>1. tx' = tx
        BY <1>1, <3>4, StoresWanted
      <4> QED
        BY <1>0, <4>1
    <3> QED
      BY <3>3, <3>4
  <2>5. OwnFits'
    BY <2>1, <2>4 DEF TypeInv, OwnFits
  <2>6. i < Quantity(req)
    BY <1>1 DEF StoreCoil
  <2>7. Place'
    BY <1>0, <2>1, <2>2, <2>6, Codes
       DEF TypeInv, Place, InTable, OutOfTable, Max, Quantity, CommandFits, InWrite, Storing
  <2> QED
    BY <2>3, <2>5, <2>7 DEF TypeInv
<1>2. CASE StoreHolding
  <2>1. /\ pc = "loop" /\ req.fc \in {WriteHolding, WriteHoldings} /\ i < Quantity(req)
        /\ holdings' = [holdings EXCEPT ![req.addr + i] = req.want[i]]
        /\ touched' = touched \cup {req.addr + i}
        /\ IF req.fc = WriteHolding
             THEN tx' = <<req.fc>> \o AddressBytes(req) /\ pc' = "echoHigh"
             ELSE UNCHANGED tx /\ pc' = "flag"
        /\ UNCHANGED <<coils, flagged, woken, req, i, data>>
    BY <1>2 DEF StoreHolding, effects
  <2>2. /\ CommandFits(req) /\ InTable(req) /\ Quantity(req) \in Nat
    BY <2>1, Working
  <2>3. SharedFits'
    <3>1. i \in 0 .. Quantity(req) - 1 /\ Quantity(req) = req.qty
      BY <1>0, <2>1, <2>2, Codes DEF Quantity, CommandFits
    <3>2. req.addr + i \in Holding
      BY <2>1, <3>1, Working, Codes
    <3>3. req.want[i] \in Word
      BY <2>1, <2>2, <3>1 DEF CommandFits
    <3>4. holdings' \in [Holding -> Word]
      BY <2>1, <3>2, <3>3 DEF TypeInv, SharedFits
    <3> QED
      BY <2>1, <3>4 DEF TypeInv, SharedFits
  <2>4. FrameFits(tx')
    <3>1. req.fc \in Nat
      BY <2>1 DEF WriteHolding, WriteHoldings
    <3>2. FrameFits(<<req.fc>>)
      BY <3>1 DEF FrameFits
    <3> QED
      BY <1>0, <2>1, <2>2, <3>2, FrameLonger, BytesOf
  <2>5. OwnFits'
    BY <2>1, <2>4 DEF TypeInv, OwnFits
  <2>6. Place'
    BY <1>0, <2>1, <2>2, Codes
       DEF TypeInv, Place, InTable, OutOfTable, Max, Quantity, CommandFits, InWrite, Storing
  <2> QED
    BY <2>3, <2>5, <2>6 DEF TypeInv
<1>3. CASE Echo
  <2>1. /\ \/ pc = "echoHigh" /\ tx' = Append(tx, holdings[req.addr][1]) /\ pc' = "echoLow"
           \/ pc = "echoLow" /\ tx' = Append(tx, holdings[req.addr][2]) /\ pc' = "flag"
        /\ UNCHANGED <<coils, holdings, flagged, woken, req, i, data, touched>>
    BY <1>3 DEF Echo, tables, effects
  <2>2. /\ CommandFits(req) /\ InTable(req) /\ Quantity(req) \in Nat
    BY <2>1, Working
  <2>3. req.fc = WriteHolding /\ i < Quantity(req)
    BY <2>1, <2>2, Codes DEF TypeInv, Place, InReadCoils, InReadHoldings, InWrite, Storing
  <2>4. holdings[req.addr] \in Word
    <3>1. 0 \in 0 .. Quantity(req) - 1 /\ req.addr + 0 = req.addr
      <4>1. req.addr \in Nat
        BY <2>2, InRange
      <4> QED
        BY <1>0, <2>2, <2>3, <4>1
    <3>2. req.addr \in Holding
      BY <2>1, <2>3, <3>1, Working, Codes
    <3> QED
      BY <3>2 DEF TypeInv, SharedFits
  <2>5. holdings[req.addr][1] \in Byte /\ holdings[req.addr][2] \in Byte
    BY <2>4, WidthAssumption DEF Byte
  <2>6. FrameFits(tx')
    <3>1. /\ FrameFits(Append(tx, holdings[req.addr][1]))
          /\ FrameFits(Append(tx, holdings[req.addr][2]))
      BY <1>0, <2>5, FrameAppend
    <3> QED
      BY <2>1, <3>1
  <2>7. OwnFits'
    BY <2>1, <2>6 DEF TypeInv, OwnFits
  <2>8. Place'
    BY <1>0, <2>1, <2>2, <2>3, Codes
       DEF TypeInv, Place, InTable, OutOfTable, Max, Quantity, CommandFits, InWrite, Storing
  <2> QED
    BY <2>1, <2>7, <2>8 DEF TypeInv, SharedFits
<1>4. CASE Flag
  <2>1. /\ pc = "flag" /\ flagged' = flagged \cup {req.addr + i} /\ i' = i + 1
        /\ pc' = "loop"
        /\ UNCHANGED <<coils, holdings, woken, req, data, tx, touched>>
    BY <1>4 DEF Flag, tables
  <2>2. /\ CommandFits(req) /\ InTable(req) /\ Quantity(req) \in Nat
    BY <2>1, Working
  <2>3. req.fc \notin Reads /\ i < Quantity(req) /\ req.addr + i \in touched
    BY <2>1, <2>2, Codes DEF TypeInv, Place, InReadCoils, InReadHoldings, InWrite, Storing
  <2>4. SharedFits'
    BY <2>1, <2>3 DEF TypeInv, SharedFits
  <2>5. OwnFits'
    BY <1>0, <2>1 DEF TypeInv, OwnFits
  <2>6. Place'
    BY <1>0, <2>1, <2>2, <2>3, Codes
       DEF TypeInv, Place, InTable, OutOfTable, Max, Quantity, CommandFits, InWrite, Storing
  <2> QED
    BY <2>4, <2>5, <2>6 DEF TypeInv
<1>5. CASE WriteEnds
  <2>1. /\ pc = "loop" /\ req.fc \notin Reads /\ i = Quantity(req) /\ pc' = "give"
        /\ UNCHANGED <<coils, holdings, flagged, woken, req, i, data, touched>>
    BY <1>5 DEF WriteEnds, tables, effects
  <2>2. /\ CommandFits(req) /\ InTable(req) /\ Quantity(req) \in Nat
    BY <2>1, Working
  <2>3. FrameFits(tx')
    <3>1. FrameFits(<<req.fc>>)
      <4>1. req.fc \in 1 .. 16
        BY <2>2, Codes, Zenon DEF CommandFits
      <4> QED
        BY <4>1 DEF FrameFits
    <3>2. /\ AddressBytes(req) \in Seq(Byte)
          /\ req.fc \notin Single => QtyBytes(req) \in Seq(Byte)
      BY <2>2, BytesOf
    <3>3. CASE req.fc = WriteCoils
      BY <1>0, <1>5, <3>2, <3>3, FrameLonger, Codes DEF WriteEnds
    <3>4. CASE req.fc = WriteHoldings
      <4>1. tx' = <<req.fc>> \o AddressBytes(req) \o QtyBytes(req)
        BY <1>5, <3>4, Codes DEF WriteEnds
      <4>2. FrameFits(<<req.fc>> \o AddressBytes(req))
        BY <3>1, <3>2, FrameLonger
      <4> QED
        BY <3>2, <3>4, <4>1, <4>2, FrameLonger, Codes
    <3>5. CASE req.fc \notin {WriteCoils, WriteHoldings}
      BY <1>0, <1>5, <3>5 DEF WriteEnds
    <3> QED
      BY <3>3, <3>4, <3>5
  <2>4. OwnFits'
    BY <2>1, <2>3 DEF TypeInv, OwnFits
  <2>5. Place'
    BY <1>0, <2>1, <2>2, Codes
       DEF TypeInv, Place, InTable, OutOfTable, Max, Quantity, CommandFits, InWrite, Storing
  <2> QED
    BY <2>1, <2>4, <2>5 DEF TypeInv, SharedFits
<1>6. CASE Give
  <2>1. /\ pc = "give" /\ woken' = TRUE /\ pc' = "reply"
        /\ UNCHANGED <<coils, holdings, flagged, req, i, data, tx, touched>>
    BY <1>6 DEF Give, tables
  <2>2. SharedFits' /\ OwnFits'
    BY <2>1 DEF TypeInv, SharedFits, OwnFits, FrameFits
  <2>3. Place'
    BY <1>0, <2>1, Codes
       DEF TypeInv, Place, InTable, OutOfTable, Max, Quantity, CommandFits, InReadCoils,
           InReadHoldings, InWrite, Storing
  <2> QED
    BY <2>2, <2>3 DEF TypeInv
<1> QED
  BY <1>1, <1>2, <1>3, <1>4, <1>5, <1>6

\* The read tasks do not disturb the handler.
LEMMA TypePoll ==
    ASSUME TypeInv, PollStores
    PROVE  TypeInv'
<1>1. UNCHANGED <<flagged, woken, pc, req, i, data, tx, touched>>
  BY DEF PollStores, effects
<1>2. coils' \in [Coil -> Bit] /\ holdings' \in [Holding -> Word]
  <2>1. ASSUME NEW c \in Coil, NEW v \in Bit, coils' = [coils EXCEPT ![c] = v],
               UNCHANGED holdings
        PROVE  coils' \in [Coil -> Bit] /\ holdings' \in [Holding -> Word]
    BY <2>1 DEF TypeInv, SharedFits
  <2>2. ASSUME NEW h \in Holding, NEW v \in Word, holdings' = [holdings EXCEPT ![h] = v],
               UNCHANGED coils
        PROVE  coils' \in [Coil -> Bit] /\ holdings' \in [Holding -> Word]
    BY <2>2 DEF TypeInv, SharedFits
  <2> QED
    BY <2>1, <2>2 DEF PollStores
<1> QED
  BY <1>1, <1>2
     DEF TypeInv, SharedFits, OwnFits, FrameFits, Place, Idle, InTable, OutOfTable, Max,
         Quantity, CommandFits, InReadCoils, InReadHoldings, InWrite, Packed

\* Every step keeps the types.
LEMMA TypeStep == TypeInv /\ [Next]_vars => TypeInv'
<1> SUFFICES ASSUME TypeInv, [Next]_vars PROVE TypeInv'
  OBVIOUS
<1>1. CASE Reply
  <2>1. /\ pc' = "idle" /\ i' = 0 /\ data' = 0 /\ tx' = << >>
        /\ flagged' = {} /\ woken' = FALSE /\ touched' = {}
        /\ UNCHANGED <<coils, holdings>>
    BY <1>1 DEF Reply, tables
  <2>2. 0 \in Byte /\ FrameFits(<< >>)
    BY ByteWidth DEF Byte, FrameFits
  <2>3. OwnFits'
    BY <2>1, <2>2 DEF OwnFits, FrameFits
  <2> QED
    BY <2>1, <2>3 DEF TypeInv, SharedFits, Place, Idle
<1>2. CASE UNCHANGED vars
  BY <1>2
     DEF vars, tables, effects, TypeInv, SharedFits, OwnFits, FrameFits, Place, Idle, InTable,
         OutOfTable, Max, Quantity, CommandFits, InReadCoils, InReadHoldings, InWrite, Packed
<1> QED
  BY <1>1, <1>2, TypeReceive, TypeRead, TypeWrite, TypePoll DEF Next, Handler

\* The types, always.
LEMMA TypeAlways == Spec => []TypeInv
BY TypeInit, TypeStep, PTL DEF Spec

(* Type correctness, for bytes of any width and tables of any size a byte   *)
(* can count: in particular a command that is carried out never leaves its  *)
(* table, whatever its address and quantity.                                *)
THEOREM TypeCorrect == Spec => []TypeOK
<1>1. TypeInv => TypeOK
  <2> SUFFICES ASSUME TypeInv PROVE TypeOK
    OBVIOUS
  <2>1. ASSUME pc \in {"loop", "low", "flag", "echoHigh", "echoLow"},
               NEW k \in 0 .. Quantity(req) - 1
        PROVE  req.addr + k \in IF req.fc \in OfCoils THEN Coil ELSE Holding
    BY <2>1, Working
  <2> QED
    BY <2>1 DEF TypeInv, TypeOK, SharedFits, OwnFits, FrameFits, Byte
<1> QED
  BY <1>1, TypeAlways, PTL

-----------------------------------------------------------------------------
(* The history of a command.  It only grows until the reply is sent, and it *)
(* ends with what the entries hold now.                                     *)
Grown ==
    /\ UNCHANGED req
    /\ \A k \in 0 .. Quantity(req) - 1 :
          /\ Len(held'[k]) \in Nat /\ Len(held[k]) \in Nat \ {0}
          /\ DOMAIN held'[k] = 1 .. Len(held'[k]) /\ DOMAIN held[k] = 1 .. Len(held[k])
          /\ Len(held[k]) <= Len(held'[k])
          /\ \A b \in 1 .. Len(held[k]) : held'[k][b] = held[k][b]

\* A step that stores nothing keeps the history.
LEMMA HeldStays ==
    ASSUME HeldFits, pc # "idle", InTable(req), pc' # "idle",
           UNCHANGED <<req, held, coils, holdings>>
    PROVE  HeldFits' /\ Grown
<1>1. HeldFits'
  BY DEF HeldFits, InTable, OutOfTable, Max, Quantity, Entry, Value
<1>2. \A k \in 0 .. Quantity(req) - 1 : held[k] \in Seq(Value(req)) /\ Len(held[k]) > 0
  BY DEF HeldFits
<1>3. \A k \in 0 .. Quantity(req) - 1 :
         Len(held[k]) \in Nat \ {0} /\ DOMAIN held[k] = 1 .. Len(held[k])
  BY <1>2, LenProperties
<1> QED
  BY <1>1, <1>3 DEF Grown

\* A store makes the history of its entry longer by what it stores.
LEMMA HeldStores ==
    ASSUME TypeInv, HeldFits, pc # "idle", InTable(req), pc' # "idle", UNCHANGED req,
           NEW x, NEW v \in Value(req),
           held' = [k \in 0 .. Quantity(req) - 1 |->
                       IF req.addr + k = x THEN Append(held[k], v) ELSE held[k]],
           \A k \in 0 .. Quantity(req) - 1 :
              Entry(req, k)' = IF req.addr + k = x THEN v ELSE Entry(req, k)
    PROVE  /\ HeldFits' /\ Grown
           /\ \A k \in 0 .. Quantity(req) - 1 : req.addr + k = x =>
                 Len(held'[k]) = Len(held[k]) + 1 /\ held'[k][Len(held[k]) + 1] = v
<1> DEFINE K == 0 .. Quantity(req) - 1
<1>1. ASSUME NEW k \in K
      PROVE  /\ held[k] \in Seq(Value(req)) /\ Len(held[k]) \in Nat \ {0}
             /\ DOMAIN held[k] = 1 .. Len(held[k])
             /\ held[k][Len(held[k])] = Entry(req, k)
  BY LenProperties DEF HeldFits
<1>2. ASSUME NEW k \in K
      PROVE  /\ Append(held[k], v) \in Seq(Value(req))
             /\ Len(Append(held[k], v)) = Len(held[k]) + 1
             /\ DOMAIN Append(held[k], v) = 1 .. Len(held[k]) + 1
             /\ Append(held[k], v)[Len(held[k]) + 1] = v
             /\ \A b \in 1 .. Len(held[k]) : Append(held[k], v)[b] = held[k][b]
  BY <1>1, AppendProperties, LenProperties
<1>3. ASSUME NEW k \in K
      PROVE  held'[k] = IF req.addr + k = x THEN Append(held[k], v) ELSE held[k]
  OBVIOUS
<1>4. ASSUME NEW k \in K
      PROVE  /\ held'[k] \in Seq(Value(req)) /\ Len(held'[k]) \in Nat \ {0}
             /\ DOMAIN held'[k] = 1 .. Len(held'[k])
             /\ held'[k][Len(held'[k])] = Entry(req, k)'
             /\ Len(held[k]) <= Len(held'[k])
             /\ \A b \in 1 .. Len(held[k]) : held'[k][b] = held[k][b]
  <2>1. CASE req.addr + k = x
    <3>1. held'[k] = Append(held[k], v) /\ Entry(req, k)' = v
      BY <1>3, <2>1
    <3> QED
      BY <1>1, <1>2, <3>1
  <2>2. CASE req.addr + k # x
    <3>1. held'[k] = held[k] /\ Entry(req, k)' = Entry(req, k)
      BY <1>3, <2>2
    <3> QED
      BY <1>1, <3>1
  <2> QED
    BY <2>1, <2>2
<1>5. held' = [k \in K |-> held'[k]]
  OBVIOUS
<1>6. HeldFits'
  <2>1. Quantity(req)' = Quantity(req) /\ Value(req)' = Value(req)
    BY DEF Quantity, Value
  <2> QED
    BY <1>4, <1>5, <2>1 DEF HeldFits
<1>7. Grown
  BY <1>1, <1>4 DEF Grown
<1> QED
  BY <1>2, <1>3, <1>6, <1>7

\* Every step of a command keeps its history.
LEMMA HeldStep ==
    ASSUME TypeInv, HeldFits, pc # "idle", InTable(req),
           Handler \/ PollStores, ~ Reply
    PROVE  HeldFits' /\ Grown
<1>1. CommandFits(req) /\ Quantity(req) \in Nat /\ req.addr \in Nat
  BY InRange DEF TypeInv, Place
<1>2. \A k \in 0 .. Quantity(req) - 1 :
         /\ req.fc \in OfCoils => req.addr + k \in Coil
         /\ req.fc \notin OfCoils => req.addr + k \in Holding
  BY <1>1, InRange
<1>3. DOMAIN held = 0 .. Quantity(req) - 1
  BY DEF HeldFits
<1>4. DOMAIN coils = Coil /\ DOMAIN holdings = Holding
  BY DEF TypeInv, SharedFits
<1>5. CASE PackCoil \/ ReadWord \/ ReadEnds \/ Echo \/ Flag \/ WriteEnds \/ Give
  <2>1. pc' # "idle" /\ UNCHANGED <<req, held, coils, holdings>>
    BY <1>5 DEF PackCoil, ReadWord, ReadEnds, Echo, Flag, WriteEnds, Give, tables, effects
  <2> QED
    BY <2>1, HeldStays
<1>6. CASE StoreCoil
  <2>1. /\ req.want[i] \in Bit /\ i \in 0 .. Quantity(req) - 1
        /\ coils' = [coils EXCEPT ![req.addr + i] = req.want[i]]
        /\ held' = [held EXCEPT ![i] = Append(@, req.want[i])]
    BY <1>6, StoresWanted
  <2>2. req.fc \in OfCoils /\ pc' # "idle" /\ UNCHANGED req
    BY <1>6, Codes DEF StoreCoil
  <2> DEFINE x == req.addr + i
             v == req.want[i]
  <2>3. \A k \in 0 .. Quantity(req) - 1 : req.addr + k = x <=> k = i
    BY <1>1, <2>1
  <2>4. held' = [k \in 0 .. Quantity(req) - 1 |->
                    IF req.addr + k = x THEN Append(held[k], v) ELSE held[k]]
    BY <1>3, <2>1, <2>3
  <2>5. \A k \in 0 .. Quantity(req) - 1 :
           Entry(req, k)' = IF req.addr + k = x THEN v ELSE Entry(req, k)
    BY <1>2, <1>4, <2>1, <2>2 DEF Entry
  <2>6. v \in Value(req)
    BY <2>1, <2>2 DEF Value
  <2> HIDE DEF x, v
  <2> QED
    BY <2>2, <2>4, <2>5, <2>6, HeldStores
<1>7. CASE StoreHolding
  <2>1. /\ pc = "loop" /\ req.fc \in {WriteHolding, WriteHoldings} /\ i < Quantity(req)
        /\ holdings' = [holdings EXCEPT ![req.addr + i] = req.want[i]]
        /\ held' = [held EXCEPT ![i] = Append(@, req.want[i])]
        /\ UNCHANGED <<coils, req>> /\ pc' # "idle"
    BY <1>7 DEF StoreHolding
  <2>2. i \in 0 .. Quantity(req) - 1 /\ Quantity(req) = req.qty /\ req.fc \notin OfCoils
    BY <1>1, <2>1, Codes DEF TypeInv, OwnFits, Quantity, CommandFits
  <2>3. req.want[i] \in Word
    BY <1>1, <2>1, <2>2 DEF CommandFits
  <2> DEFINE x == req.addr + i
             v == req.want[i]
  <2>4. \A k \in 0 .. Quantity(req) - 1 : req.addr + k = x <=> k = i
    BY <1>1, <2>2
  <2>5. held' = [k \in 0 .. Quantity(req) - 1 |->
                    IF req.addr + k = x THEN Append(held[k], v) ELSE held[k]]
    BY <1>3, <2>1, <2>4
  <2>6. \A k \in 0 .. Quantity(req) - 1 :
           Entry(req, k)' = IF req.addr + k = x THEN v ELSE Entry(req, k)
    BY <1>2, <1>4, <2>1, <2>2 DEF Entry
  <2>7. v \in Value(req)
    BY <2>2, <2>3 DEF Value
  <2> HIDE DEF x, v
  <2> QED
    BY <2>1, <2>5, <2>6, <2>7, HeldStores
<1>8. CASE PollStores
  <2>1. pc' # "idle" /\ UNCHANGED req
    BY <1>8 DEF PollStores
  <2>2. ASSUME NEW c \in Coil, NEW v \in Bit, coils' = [coils EXCEPT ![c] = v],
               Noted(TRUE, c, v), UNCHANGED holdings
        PROVE  HeldFits' /\ Grown
    <3>1. CASE req.fc \in OfCoils
      <4>1. held' = [k \in 0 .. Quantity(req) - 1 |->
                        IF req.addr + k = c THEN Append(held[k], v) ELSE held[k]]
        BY <1>3, <2>2, <3>1 DEF Noted
      <4>2. \A k \in 0 .. Quantity(req) - 1 :
               Entry(req, k)' = IF req.addr + k = c THEN v ELSE Entry(req, k)
        BY <1>2, <1>4, <2>1, <2>2, <3>1 DEF Entry
      <4> QED
        BY <2>1, <2>2, <3>1, <4>1, <4>2, HeldStores DEF Value
    <3>2. CASE req.fc \notin OfCoils
      <4>1. held' = held
        BY <2>2, <3>2 DEF Noted
      <4>2. \A k \in 0 .. Quantity(req) - 1 : Entry(req, k)' = Entry(req, k)
        BY <2>1, <2>2, <3>2 DEF Entry
      <4>3. HeldFits'
        BY <2>1, <4>1, <4>2 DEF HeldFits, InTable, OutOfTable, Max, Quantity, Value
      <4> QED
        BY <2>1, <4>1, <4>3, LenProperties DEF Grown, HeldFits
    <3> QED
      BY <3>1, <3>2
  <2>3. ASSUME NEW h \in Holding, NEW v \in Word, holdings' = [holdings EXCEPT ![h] = v],
               Noted(FALSE, h, v), UNCHANGED coils
        PROVE  HeldFits' /\ Grown
    <3>1. CASE req.fc \notin OfCoils
      <4>1. held' = [k \in 0 .. Quantity(req) - 1 |->
                        IF req.addr + k = h THEN Append(held[k], v) ELSE held[k]]
        BY <1>3, <2>3, <3>1 DEF Noted
      <4>2. \A k \in 0 .. Quantity(req) - 1 :
               Entry(req, k)' = IF req.addr + k = h THEN v ELSE Entry(req, k)
        BY <1>2, <1>4, <2>1, <2>3, <3>1 DEF Entry
      <4> QED
        BY <2>1, <2>3, <3>1, <4>1, <4>2, HeldStores DEF Value
    <3>2. CASE req.fc \in OfCoils
      <4>1. held' = held
        BY <2>3, <3>2 DEF Noted
      <4>2. \A k \in 0 .. Quantity(req) - 1 : Entry(req, k)' = Entry(req, k)
        BY <2>1, <2>3, <3>2 DEF Entry
      <4>3. HeldFits'
        BY <2>1, <4>1, <4>2 DEF HeldFits, InTable, OutOfTable, Max, Quantity, Value
      <4> QED
        BY <2>1, <4>1, <4>3, LenProperties DEF Grown, HeldFits
    <3> QED
      BY <3>1, <3>2
  <2> QED
    BY <1>8, <2>2, <2>3 DEF PollStores
<1> QED
  BY <1>5, <1>6, <1>7, <1>8 DEF Handler

\* A command that is begun starts the history with what its entries hold.
LEMMA HeldReceive ==
    ASSUME TypeInv, NEW r \in Request, Receive(r)
    PROVE  HeldFits'
<1>1. CommandFits(r) /\ req' = r /\ UNCHANGED <<coils, holdings>>
  BY RequestFits DEF Receive, tables
<1> SUFFICES ASSUME InTable(r) PROVE HeldFits'
  BY <1>1 DEF HeldFits, InTable, OutOfTable, Max, Quantity
<1>2. held' = [k \in 0 .. Quantity(r) - 1 |-> <<Entry(r, k)>>]
  BY DEF Receive, InTable
<1>3. ASSUME NEW k \in 0 .. Quantity(r) - 1
      PROVE  Entry(r, k) \in Value(r) /\ Entry(r, k)' = Entry(r, k)
  BY <1>1, InRange DEF Entry, Value, TypeInv, SharedFits
<1>4. ASSUME NEW k \in 0 .. Quantity(r) - 1
      PROVE  /\ held'[k] \in Seq(Value(r)) /\ Len(held'[k]) > 0
             /\ held'[k][Len(held'[k])] = Entry(r, k)'
  BY <1>2, <1>3
<1> QED
  BY <1>1, <1>2, <1>4 DEF HeldFits

\* Every step keeps the history right.
LEMMA HeldAlways == TypeInv /\ HeldFits /\ [Next]_vars => HeldFits'
<1> SUFFICES ASSUME TypeInv, HeldFits, [Next]_vars PROVE HeldFits'
  OBVIOUS
<1>1. CASE UNCHANGED vars
  BY <1>1
     DEF vars, tables, effects, HeldFits, InTable, OutOfTable, Max, Quantity, Entry, Value
<1>2. CASE Reply
  BY <1>2 DEF Reply, HeldFits
<1>3. CASE \E r \in Request : Receive(r)
  BY <1>3, HeldReceive
<1>4. CASE (Handler \/ PollStores) /\ ~ Reply
  <2>1. pc # "idle"
    BY <1>4 DEF Handler, PackCoil, ReadWord, ReadEnds, StoreCoil, StoreHolding, Echo, Flag,
                WriteEnds, Give, PollStores
  <2>2. UNCHANGED req
    BY <1>4 DEF Handler, PackCoil, ReadWord, ReadEnds, StoreCoil, StoreHolding, Echo, Flag,
                WriteEnds, Give, PollStores
  <2>3. CASE InTable(req)
    BY <1>4, <2>1, <2>3, HeldStep
  <2>4. CASE ~ InTable(req)
    BY <2>2, <2>4 DEF HeldFits, InTable, OutOfTable, Max, Quantity
  <2> QED
    BY <2>3, <2>4
<1> QED
  BY <1>1, <1>2, <1>3, <1>4 DEF Next

-----------------------------------------------------------------------------
(* What a write does. *)

\* How an answer names the entry.
LEMMA NameOf ==
    ASSUME NEW r, CommandFits(r)
    PROVE  LET t == <<r.fc>> \o AddressBytes(r)
           IN  /\ FrameFits(t) /\ Len(t) = 3
               /\ t[1] = r.fc /\ t[2] = r.addr \div ByteMod /\ t[3] = r.addr % ByteMod
<1> DEFINE u == <<r.fc>>
           s == AddressBytes(r)
<1>1. r.fc \in 1 .. 16
  BY Codes, Zenon DEF CommandFits
<1>2. FrameFits(u) /\ Len(u) = 1 /\ u[1] = r.fc
  BY <1>1 DEF FrameFits
<1>3. /\ s \in Seq(Byte) /\ Len(s) = 2
      /\ s[1] = r.addr \div ByteMod /\ s[2] = r.addr % ByteMod
  BY BytesOf
<1> HIDE DEF u, s
<1>4. /\ FrameFits(u \o s) /\ Len(u \o s) = Len(u) + Len(s)
      /\ \A k \in 1 .. Len(u) : (u \o s)[k] = u[k]
      /\ \A k \in 1 .. Len(s) : (u \o s)[Len(u) + k] = s[k]
  BY <1>2, <1>3, FrameLonger
<1>5. (u \o s)[1] = u[1] /\ (u \o s)[1 + 1] = s[1] /\ (u \o s)[1 + 2] = s[2]
  BY <1>2, <1>3, <1>4
<1> QED
  BY <1>2, <1>3, <1>4, <1>5 DEF u, s

\* A command that arrives has written nothing.
LEMMA WriteReceive ==
    ASSUME TypeInv, NEW r \in Request, Receive(r)
    PROVE  WriteInv'
<1>1. /\ CommandFits(r) /\ req' = r /\ i' = 0 /\ touched' = {} /\ flagged' = {}
      /\ r.fc \in 1 .. 16
  BY RequestFits, Codes, Zenon DEF Receive, effects, TypeInv, Place, Idle, CommandFits
<1>2. CASE ~ InTable(r)
  <2>1. tx' = <<128 + r.fc, IF r.fc = Unknown THEN 1 ELSE 2>>
    BY <1>2 DEF Receive, InTable
  <2>2. pc' = "reply" => r.fc = Unknown \/ r.fc \in Reads
    BY <1>2 DEF Receive, InTable
  <2>3. ~ InTable(req)'
    BY <1>1, <1>2 DEF InTable, OutOfTable, Max, Quantity
  <2> QED
    BY <1>1, <2>1, <2>2, <2>3 DEF WriteInv, Refused
<1>3. CASE InTable(r)
  <2>1. tx' = Heading(r) /\ pc' = "loop"
    BY <1>3 DEF Receive, InTable
  <2>2. InTable(req)'
    BY <1>1, <1>3 DEF InTable, OutOfTable, Max, Quantity
  <2>3. Stored' = 0
    BY <1>1, <2>1 DEF Stored, Storing
  <2>4. Written'
    BY <1>1, <2>1, <2>3 DEF Written
  <2>5. ASSUME r.fc = WriteCoil
        PROVE  /\ Len(tx') = 3 /\ tx'[1] = r.fc
               /\ tx'[2] = r.addr \div ByteMod /\ tx'[3] = r.addr % ByteMod
    BY <1>1, <1>3, <2>1, <2>5, HeadingFits, NameOf
  <2>6. Answered'
    BY <1>1, <1>3, <2>1, <2>3, <2>5, HeadingFits, Codes DEF Answered, Named, Ended
  <2> QED
    BY <2>2, <2>4, <2>6 DEF WriteInv
<1> QED
  BY <1>2, <1>3

\* A refused command touches nothing until its reply is sent.
LEMMA WriteRefused ==
    ASSUME TypeInv, WriteInv, pc # "idle", ~ InTable(req), Handler \/ PollStores
    PROVE  WriteInv'
<1>1. Refused /\ pc \in {"give", "reply"}
  BY DEF WriteInv, TypeInv, Place
<1>2. CASE Give
  BY <1>1, <1>2
     DEF Give, tables, WriteInv, Refused, InTable, OutOfTable, Max, Quantity
<1>3. CASE Reply
  BY <1>3 DEF Reply, WriteInv
<1>4. CASE PollStores
  BY <1>1, <1>4
     DEF PollStores, effects, WriteInv, Refused, InTable, OutOfTable, Max, Quantity
<1> QED
  BY <1>1, <1>2, <1>3, <1>4
     DEF Handler, PackCoil, ReadWord, ReadEnds, StoreCoil, StoreHolding, Echo, Flag, WriteEnds

\* What was there stays there.
LEMMA WantedStays ==
    ASSUME Grown, NEW k \in 0 .. Quantity(req) - 1, Wanted(k)
    PROVE  Wanted(k)'
<1>1. PICK b \in DOMAIN held[k] : b > 1 /\ held[k][b] = req.want[k]
  BY DEF Wanted
<1>2. b \in DOMAIN held'[k] /\ held'[k][b] = req'.want[k]
  BY <1>1 DEF Grown
<1> QED
  BY <1>1, <1>2 DEF Wanted

\* What was echoed once stays echoed when the history grows.
LEMMA EchoStays ==
    ASSUME Grown, Quantity(req) = 1, tx'[4] = tx[4], tx'[5] = tx[5]
    PROVE  /\ EchoedHigh => EchoedHigh'
           /\ EchoedBoth => EchoedBoth'
<1>1. /\ req' = req /\ Len(held'[0]) \in Nat /\ Len(held[0]) \in Nat
      /\ Len(held[0]) <= Len(held'[0])
      /\ \A b \in 1 .. Len(held[0]) : held'[0][b] = held[0][b]
  BY DEF Grown
<1>2. ASSUME EchoedHigh PROVE EchoedHigh'
  <2>1. PICK f \in 2 .. Len(held[0]) : \E a \in f .. Len(held[0]) :
                held[0][f] = req.want[0] /\ tx[4] = held[0][a][1]
    BY <1>2 DEF EchoedHigh
  <2>2. PICK a \in f .. Len(held[0]) : held[0][f] = req.want[0] /\ tx[4] = held[0][a][1]
    BY <2>1
  <2>3. /\ f \in 2 .. Len(held'[0]) /\ a \in f .. Len(held'[0])
        /\ held'[0][f] = req'.want[0] /\ tx'[4] = held'[0][a][1]
    BY <1>1, <2>2
  <2> QED
    BY <2>3 DEF EchoedHigh
<1>3. ASSUME EchoedBoth PROVE EchoedBoth'
  <2>1. PICK f \in 2 .. Len(held[0]) : \E a \in f .. Len(held[0]) :
                \E b \in a .. Len(held[0]) :
                   /\ held[0][f] = req.want[0]
                   /\ tx[4] = held[0][a][1] /\ tx[5] = held[0][b][2]
    BY <1>3 DEF EchoedBoth
  <2>2. PICK a \in f .. Len(held[0]) : \E b \in a .. Len(held[0]) :
                   /\ held[0][f] = req.want[0]
                   /\ tx[4] = held[0][a][1] /\ tx[5] = held[0][b][2]
    BY <2>1
  <2>3. PICK b \in a .. Len(held[0]) :
                   /\ held[0][f] = req.want[0]
                   /\ tx[4] = held[0][a][1] /\ tx[5] = held[0][b][2]
    BY <2>2
  <2>4. /\ f \in 2 .. Len(held'[0]) /\ a \in f .. Len(held'[0]) /\ b \in a .. Len(held'[0])
        /\ held'[0][f] = req'.want[0] /\ tx'[4] = held'[0][a][1] /\ tx'[5] = held'[0][b][2]
    <3>1. f \in 1 .. Len(held[0]) /\ a \in 1 .. Len(held[0]) /\ b \in 1 .. Len(held[0])
      BY <1>1
    <3>2. /\ f \in 2 .. Len(held'[0]) /\ a \in f .. Len(held'[0])
          /\ b \in a .. Len(held'[0])
      BY <1>1, <3>1
    <3>3. /\ held'[0][f] = held[0][f] /\ held'[0][a] = held[0][a]
          /\ held'[0][b] = held[0][b]
      BY <1>1, <3>1
    <3> QED
      BY <1>1, <2>3, <3>2, <3>3
  <2> QED
    BY <2>4 DEF EchoedBoth
<1> QED
  BY <1>2, <1>3

Writing ==
    TypeInv /\ HeldFits /\ WriteInv /\ pc # "idle" /\ InTable(req) /\ req.fc \notin Reads

\* Where a write in progress can be.
LEMMA WritingMeans ==
    ASSUME Writing
    PROVE  /\ CommandFits(req) /\ Written /\ Answered
           /\ req.fc \in {WriteCoil, WriteHolding, WriteCoils, WriteHoldings}
           /\ i \in Nat /\ Quantity(req) \in Nat /\ i <= Quantity(req)
           /\ pc \in {"loop", "flag", "echoHigh", "echoLow", "give", "reply"}
           /\ pc \in Storing => i < Quantity(req)
           /\ pc \in {"give", "reply"} => i = Quantity(req)
           /\ pc \in {"echoHigh", "echoLow"} => req.fc = WriteHolding
           /\ req.fc \in Single => Quantity(req) = 1
           /\ FrameFits(tx)
<1>1. CommandFits(req) /\ Written /\ Answered /\ InWrite /\ i \in Nat /\ FrameFits(tx)
  BY DEF Writing, TypeInv, Place, WriteInv, OwnFits
<1>2. req.fc \in {WriteCoil, WriteHolding, WriteCoils, WriteHoldings}
  BY <1>1, Codes, Zenon DEF Writing, InTable, CommandFits
<1>3. Quantity(req) \in Nat
  BY <1>1, InRange
<1> QED
  BY <1>1, <1>2, <1>3 DEF InWrite, Storing, Quantity

\* A coil is stored.
LEMMA WriteStoreCoil ==
    ASSUME Writing, StoreCoil
    PROVE  WriteInv'
<1>1. /\ CommandFits(req) /\ Written /\ Answered /\ i \in Nat /\ Quantity(req) \in Nat
      /\ req.fc \in Single => Quantity(req) = 1
  BY WritingMeans
<1>2. /\ pc = "loop" /\ req.fc \in {WriteCoil, WriteCoils} /\ pc' = "flag"
      /\ i < Quantity(req) /\ i \in 0 .. Quantity(req) - 1
      /\ touched' = touched \cup {req.addr + i}
      /\ UNCHANGED <<flagged, req, i>>
      /\ held' = [held EXCEPT ![i] = Append(@, req.want[i])] /\ req.want[i] \in Bit
      /\ tx' = IF req.fc = WriteCoil THEN tx \o <<req.want[0] * (ByteMod - 1), 0>> ELSE tx
      /\ req.fc = WriteCoil => i = 0
  BY StoresWanted DEF Writing, StoreCoil, effects
<1>3. Stored = i /\ Stored' = i + 1
  BY <1>2 DEF Stored, Storing
<1>4. Grown
  BY HeldStep DEF Writing, Handler, StoreCoil, Reply
<1>5. Wanted(i)'
  <2>1. held[i] \in Seq(Bit) /\ Len(held[i]) > 0
    BY <1>2, Codes DEF Writing, HeldFits, Value
  <2>2. held'[i] = Append(held[i], req.want[i])
    BY <1>2 DEF Writing, HeldFits
  <2>3. /\ Len(held'[i]) = Len(held[i]) + 1 /\ held'[i][Len(held[i]) + 1] = req.want[i]
        /\ DOMAIN held'[i] = 1 .. Len(held[i]) + 1
    BY <1>2, <2>1, <2>2, AppendProperties, LenProperties
  <2> QED
    BY <1>2, <2>1, <2>3, LenProperties DEF Wanted
<1>6. Written'
  <2>1. \A k \in 0 .. i - 1 : Wanted(k)'
    BY <1>1, <1>2, <1>3, <1>4, WantedStays DEF Written
  <2>2. \A k \in 0 .. Stored' - 1 : Wanted(k)'
    BY <1>1, <1>2, <1>3, <1>5, <2>1
  <2> QED
    BY <1>1, <1>2, <1>3, <2>2 DEF Written
<1>7. Answered'
  <2>1. ASSUME req.fc = WriteCoil
        PROVE  /\ Len(tx') = 5 /\ tx'[4] = req.want[0] * (ByteMod - 1)
               /\ tx'[1] = tx[1] /\ tx'[2] = tx[2] /\ tx'[3] = tx[3]
    <3> DEFINE s == <<req.want[0] * (ByteMod - 1), 0>>
    <3>1. s \in Seq(Byte) /\ Len(s) = 2 /\ s[1] = req.want[0] * (ByteMod - 1)
      BY <1>2, <2>1, ByteWidth DEF Bit, Byte
    <3>2. tx' = tx \o s /\ Len(tx) = 3
      BY <1>1, <1>2, <1>3, <2>1 DEF Answered
    <3> HIDE DEF s
    <3>3. /\ Len(tx \o s) = Len(tx) + Len(s)
          /\ \A k \in 1 .. Len(tx) : (tx \o s)[k] = tx[k]
          /\ \A k \in 1 .. Len(s) : (tx \o s)[Len(tx) + k] = s[k]
      BY <3>1, WritingMeans, FrameLonger
    <3>4. /\ tx'[1] = tx[1] /\ tx'[2] = tx[2] /\ tx'[3] = tx[3]
          /\ tx'[3 + 1] = s[1] /\ Len(tx') = 5
      BY <3>1, <3>2, <3>3
    <3> QED
      BY <3>1, <3>4
  <2>2. req.fc = WriteCoil => Len(tx) = 3 /\ Named
    BY <1>1, <1>2, <1>3 DEF Answered
  <2>3. CASE req.fc = WriteCoil
    BY <1>1, <1>2, <1>3, <2>1, <2>2, <2>3, Codes DEF Answered, Named
  <2>4. CASE req.fc = WriteCoils
    BY <1>1, <1>2, <2>4, Codes DEF Answered, Ended
  <2> QED
    BY <1>2, <2>3, <2>4
<1> QED
  BY <1>6, <1>7, <1>2 DEF WriteInv, Writing, InTable, OutOfTable, Max, Quantity

\* A register is stored.
LEMMA WriteStoreHolding ==
    ASSUME Writing, StoreHolding
    PROVE  WriteInv'
<1>1. /\ CommandFits(req) /\ Written /\ Answered /\ i \in Nat /\ Quantity(req) \in Nat
      /\ req.fc \in Single => Quantity(req) = 1
  BY WritingMeans
<1>2. /\ pc = "loop" /\ req.fc \in {WriteHolding, WriteHoldings} /\ i < Quantity(req)
      /\ held' = [held EXCEPT ![i] = Append(@, req.want[i])]
      /\ touched' = touched \cup {req.addr + i}
      /\ IF req.fc = WriteHolding
           THEN tx' = <<req.fc>> \o AddressBytes(req) /\ pc' = "echoHigh"
           ELSE UNCHANGED tx /\ pc' = "flag"
      /\ UNCHANGED <<flagged, req, i>>
  BY DEF StoreHolding, effects
<1>3. Stored = i /\ Stored' = i + 1
  BY <1>2 DEF Stored, Storing
<1>4. Grown
  BY HeldStep DEF Writing, Handler, StoreHolding, Reply
<1>5. Wanted(i)'
  <2>1. i \in 0 .. Quantity(req) - 1 /\ Quantity(req) = req.qty
    BY <1>1, <1>2, Codes DEF Quantity, CommandFits
  <2>2. req.want[i] \in Word
    BY <1>1, <1>2, <2>1 DEF CommandFits
  <2>3. held[i] \in Seq(Word) /\ Len(held[i]) > 0
    BY <1>2, <2>1, Codes DEF Writing, HeldFits, Value
  <2>4. held'[i] = Append(held[i], req.want[i])
    BY <1>2, <2>1 DEF Writing, HeldFits
  <2>5. /\ Len(held'[i]) = Len(held[i]) + 1 /\ held'[i][Len(held[i]) + 1] = req.want[i]
        /\ DOMAIN held'[i] = 1 .. Len(held[i]) + 1
    BY <2>2, <2>3, <2>4, AppendProperties, LenProperties
  <2> QED
    BY <1>2, <2>3, <2>5, LenProperties DEF Wanted
<1>6. Written'
  <2>1. \A k \in 0 .. i - 1 : Wanted(k)'
    BY <1>1, <1>2, <1>3, <1>4, WantedStays DEF Written
  <2>2. \A k \in 0 .. Stored' - 1 : Wanted(k)'
    BY <1>1, <1>2, <1>3, <1>5, <2>1
  <2> QED
    BY <1>1, <1>2, <1>3, <2>2 DEF Written
<1>7. Answered'
  <2>1. req.fc = WriteHolding => Len(tx') = 3 /\ Named'
    BY <1>1, <1>2, NameOf DEF Named
  <2> QED
    BY <1>1, <1>2, <1>3, <2>1, Codes DEF Answered, Ended
<1> QED
  BY <1>6, <1>7, <1>2 DEF WriteInv, Writing, InTable, OutOfTable, Max, Quantity

\* The stored register is read back, byte by byte.
LEMMA WriteEcho ==
    ASSUME Writing, Echo
    PROVE  WriteInv'
<1>1. /\ CommandFits(req) /\ Written /\ Answered /\ i \in Nat /\ i < Quantity(req)
      /\ req.fc = WriteHolding /\ Quantity(req) = 1
  BY WritingMeans, Codes DEF Echo, Storing
<1>2. /\ \/ pc = "echoHigh" /\ tx' = Append(tx, holdings[req.addr][1]) /\ pc' = "echoLow"
         \/ pc = "echoLow" /\ tx' = Append(tx, holdings[req.addr][2]) /\ pc' = "flag"
      /\ UNCHANGED <<flagged, req, i, touched, held>>
  BY DEF Echo, effects
<1>3. i = 0 /\ Stored = 1 /\ Stored' = 1
  BY <1>1, <1>2 DEF Stored, Storing
<1>4. Grown
  BY HeldStep DEF Writing, Handler, Echo, Reply
<1>5. Written'
  <2>1. \A k \in 0 .. Stored' - 1 : Wanted(k)'
    BY <1>1, <1>3, <1>4, WantedStays DEF Written
  <2> QED
    BY <1>1, <1>2, <1>3, <2>1 DEF Written
<1>6. /\ held[0] \in Seq(Word) /\ Len(held[0]) \in Nat \ {0}
      /\ DOMAIN held[0] = 1 .. Len(held[0])
      /\ held[0][Len(held[0])] = holdings[req.addr]
  <2>1. 0 \in 0 .. Quantity(req) - 1 /\ req.addr + 0 = req.addr
    BY <1>1, InRange
  <2> QED
    BY <1>1, <2>1, Codes, LenProperties DEF Writing, HeldFits, Value, Entry
<1>7. holdings[req.addr][1] \in Byte /\ holdings[req.addr][2] \in Byte
  <2>1. holdings[req.addr] \in Word
    BY <1>6, ElementOfSeq
  <2> QED
    BY <2>1, WidthAssumption DEF Byte
<1>8. \A b \in Byte : /\ Len(Append(tx, b)) = Len(tx) + 1
                      /\ \A k \in 1 .. Len(tx) : Append(tx, b)[k] = tx[k]
                      /\ Append(tx, b)[Len(tx) + 1] = b
  BY WritingMeans, FrameAppend
<1>9. CASE pc = "echoHigh"
  <2>1. Len(tx) = 3 /\ Named
    BY <1>1, <1>9 DEF Answered
  <2>2. /\ Len(tx') = 4 /\ tx'[4] = holdings[req.addr][1]
        /\ tx'[1] = tx[1] /\ tx'[2] = tx[2] /\ tx'[3] = tx[3]
    BY <1>2, <1>7, <1>8, <1>9, <2>1
  <2>3. PICK b \in DOMAIN held[0] : b > 1 /\ held[0][b] = req.want[0]
    BY <1>1, <1>3 DEF Written, Wanted
  <2>4. b \in 2 .. Len(held[0]) /\ Len(held[0]) \in b .. Len(held[0])
    BY <1>6, <2>3
  <2>5. EchoedHigh'
    BY <1>2, <1>6, <2>2, <2>3, <2>4 DEF EchoedHigh
  <2>6. Answered'
    BY <1>1, <1>2, <1>3, <1>9, <2>1, <2>2, <2>5, Codes DEF Answered, Named
  <2> QED
    BY <1>2, <1>5, <2>6 DEF WriteInv, Writing, InTable, OutOfTable, Max, Quantity
<1>10. CASE pc = "echoLow"
  <2>1. Len(tx) = 4 /\ Named /\ EchoedHigh
    BY <1>1, <1>10 DEF Answered
  <2>2. /\ Len(tx') = 5 /\ tx'[5] = holdings[req.addr][2] /\ tx'[4] = tx[4]
        /\ tx'[1] = tx[1] /\ tx'[2] = tx[2] /\ tx'[3] = tx[3]
    BY <1>2, <1>7, <1>8, <1>10, <2>1
  <2>3. PICK f \in 2 .. Len(held[0]) : \E a \in f .. Len(held[0]) :
                held[0][f] = req.want[0] /\ tx[4] = held[0][a][1]
    BY <2>1 DEF EchoedHigh
  <2>4. PICK a \in f .. Len(held[0]) : held[0][f] = req.want[0] /\ tx[4] = held[0][a][1]
    BY <2>3
  <2>5. Len(held[0]) \in a .. Len(held[0])
    BY <1>6, <2>4
  <2>6. EchoedBoth'
    BY <1>2, <1>6, <2>2, <2>4, <2>5 DEF EchoedBoth
  <2>7. Answered'
    BY <1>1, <1>2, <1>3, <1>10, <2>1, <2>2, <2>6, Codes DEF Answered, Named
  <2> QED
    BY <1>2, <1>5, <2>7 DEF WriteInv, Writing, InTable, OutOfTable, Max, Quantity
<1> QED
  BY <1>2, <1>9, <1>10

\* Its flag is raised.
LEMMA WriteFlag ==
    ASSUME Writing, Flag
    PROVE  WriteInv'
<1>1. /\ CommandFits(req) /\ Written /\ Answered /\ i \in Nat /\ i < Quantity(req)
      /\ Quantity(req) \in Nat
      /\ req.fc \in {WriteCoil, WriteHolding, WriteCoils, WriteHoldings}
  BY WritingMeans DEF Flag, Storing
<1>2. /\ pc = "flag" /\ pc' = "loop" /\ i' = i + 1 /\ flagged' = flagged \cup {req.addr + i}
      /\ UNCHANGED <<req, tx, held, touched>>
  BY DEF Flag
<1>3. Stored = i + 1 /\ Stored' = i + 1
  BY <1>2 DEF Stored, Storing
<1>4. Grown
  BY HeldStep DEF Writing, Handler, Flag, Reply
<1>5. Written'
  <2>1. \A k \in 0 .. Stored' - 1 : Wanted(k)'
    BY <1>1, <1>3, <1>4, WantedStays DEF Written
  <2>2. flagged' = {req.addr + k : k \in 0 .. i}
    BY <1>1, <1>2 DEF Written
  <2> QED
    BY <1>1, <1>2, <1>3, <2>1, <2>2 DEF Written
<1>6. EchoedBoth => EchoedBoth'
  BY <1>2 DEF EchoedBoth
<1>7. Answered'
  BY <1>1, <1>2, <1>3, <1>6, Codes DEF Answered, Named, Counted, Ended
<1> QED
  BY <1>2, <1>5, <1>7 DEF WriteInv, Writing, InTable, OutOfTable, Max, Quantity

\* An answer that names the range.
LEMMA CountOf ==
    ASSUME NEW r, CommandFits(r), InTable(r), r.fc \notin Single
    PROVE  LET t == <<r.fc>> \o AddressBytes(r) \o QtyBytes(r)
           IN  /\ Len(t) = 5 /\ t[1] = r.fc
               /\ t[2] = r.addr \div ByteMod /\ t[3] = r.addr % ByteMod
               /\ t[4] = r.qty \div ByteMod /\ t[5] = r.qty % ByteMod
<1> DEFINE u == <<r.fc>> \o AddressBytes(r)
           s == QtyBytes(r)
<1>1. /\ FrameFits(u) /\ Len(u) = 3
      /\ u[1] = r.fc /\ u[2] = r.addr \div ByteMod /\ u[3] = r.addr % ByteMod
  BY NameOf
<1>2. /\ s \in Seq(Byte) /\ Len(s) = 2
      /\ s[1] = r.qty \div ByteMod /\ s[2] = r.qty % ByteMod
  BY BytesOf
<1> HIDE DEF u, s
<1>3. /\ Len(u \o s) = Len(u) + Len(s)
      /\ \A k \in 1 .. Len(u) : (u \o s)[k] = u[k]
      /\ \A k \in 1 .. Len(s) : (u \o s)[Len(u) + k] = s[k]
  BY <1>1, <1>2, FrameLonger
<1>4. /\ (u \o s)[1] = u[1] /\ (u \o s)[2] = u[2] /\ (u \o s)[3] = u[3]
      /\ (u \o s)[3 + 1] = s[1] /\ (u \o s)[3 + 2] = s[2]
  BY <1>1, <1>2, <1>3
<1> QED
  BY <1>1, <1>2, <1>3, <1>4 DEF u, s

\* The answer is completed.
LEMMA WriteWriteEnds ==
    ASSUME Writing, WriteEnds
    PROVE  WriteInv'
<1>1. /\ CommandFits(req) /\ InTable(req) /\ Written /\ Answered /\ Quantity(req) \in Nat
      /\ req.fc \in {WriteCoil, WriteHolding, WriteCoils, WriteHoldings}
  BY WritingMeans DEF Writing
<1>2. /\ pc = "loop" /\ pc' = "give" /\ UNCHANGED <<flagged, req, i, touched, held>>
      /\ i = Quantity(req)
      /\ tx' = CASE req.fc = WriteCoils    -> tx \o AddressBytes(req) \o QtyBytes(req)
                 [] req.fc = WriteHoldings -> <<req.fc>> \o AddressBytes(req) \o QtyBytes(req)
                 [] OTHER                  -> tx
  BY DEF WriteEnds, effects
<1>3. Stored = i /\ Stored' = i
  BY <1>2 DEF Stored, Storing
<1>4. Grown
  BY HeldStep DEF Writing, Handler, WriteEnds, Reply
<1>5. Written'
  <2>1. \A k \in 0 .. Stored' - 1 : Wanted(k)'
    BY <1>1, <1>2, <1>3, <1>4, WantedStays DEF Written
  <2> QED
    BY <1>1, <1>2, <1>3, <2>1 DEF Written
<1>6. ASSUME req.fc \in {WriteCoils, WriteHoldings}
      PROVE  Len(tx') = 5 /\ Named' /\ Counted'
  <2>1. tx' = <<req.fc>> \o AddressBytes(req) \o QtyBytes(req)
    BY <1>1, <1>2, <1>6, Codes DEF Answered, Ended
  <2>2. req.fc \notin Single
    BY <1>6, Codes
  <2> QED
    BY <1>1, <1>2, <2>1, <2>2, CountOf DEF Named, Counted
<1>7. req.fc \notin {WriteCoils, WriteHoldings} => tx' = tx
  BY <1>2
<1>8. EchoedBoth /\ tx' = tx => EchoedBoth'
  BY <1>2 DEF EchoedBoth
<1>9. Answered'
  BY <1>1, <1>2, <1>3, <1>6, <1>7, <1>8, Codes DEF Answered, Named, Ended
<1> QED
  BY <1>2, <1>5, <1>9 DEF WriteInv, Writing, InTable, OutOfTable, Max, Quantity

\* The write tasks are woken.
LEMMA WriteGive ==
    ASSUME Writing, Give
    PROVE  WriteInv'
<1>1. /\ CommandFits(req) /\ Written /\ Answered /\ i = Quantity(req)
      /\ Quantity(req) \in Nat
      /\ req.fc \in {WriteCoil, WriteHolding, WriteCoils, WriteHoldings}
  BY WritingMeans DEF Give
<1>2. /\ pc = "give" /\ pc' = "reply" /\ woken' = TRUE
      /\ UNCHANGED <<flagged, req, i, touched, held, tx>>
  BY DEF Give
<1>3. Stored = i /\ Stored' = i
  BY <1>2 DEF Stored, Storing
<1>4. Grown
  BY HeldStep DEF Writing, Handler, Give, Reply
<1>5. Written'
  <2>1. \A k \in 0 .. Stored' - 1 : Wanted(k)'
    BY <1>1, <1>2, <1>3, <1>4, WantedStays DEF Written
  <2> QED
    BY <1>1, <1>2, <1>3, <2>1 DEF Written
<1>6. EchoedBoth => EchoedBoth'
  BY <1>2 DEF EchoedBoth
<1>7. Answered'
  BY <1>1, <1>2, <1>3, <1>6, Codes DEF Answered, Named, Counted, Ended
<1> QED
  BY <1>2, <1>5, <1>7 DEF WriteInv, Writing, InTable, OutOfTable, Max, Quantity

\* The read tasks only add to the history.
LEMMA WritePoll ==
    ASSUME Writing, PollStores
    PROVE  WriteInv'
<1>1. /\ CommandFits(req) /\ Written /\ Answered /\ i \in Nat /\ i <= Quantity(req)
      /\ Quantity(req) \in Nat
      /\ pc \in Storing => i < Quantity(req)
      /\ req.fc \in Single => Quantity(req) = 1
      /\ req.fc \in {WriteCoil, WriteHolding, WriteCoils, WriteHoldings}
  BY WritingMeans
<1>2. UNCHANGED <<flagged, woken, pc, req, i, touched, tx>>
  BY DEF PollStores, effects
<1>3. Stored' = Stored /\ Stored \in Nat /\ Stored <= Quantity(req)
  <2>1. Stored' = Stored
    BY <1>2 DEF Stored
  <2>2. CASE pc \in Storing
    BY <1>1, <2>1, <2>2 DEF Stored
  <2>3. CASE pc \notin Storing
    BY <1>1, <2>1, <2>3 DEF Stored
  <2> QED
    BY <2>2, <2>3
<1>4. Grown
  BY HeldStep DEF Writing, PollStores, Reply
<1>5. Written'
  <2>1. ASSUME NEW k \in 0 .. Stored' - 1 PROVE Wanted(k)'
    <3>1. k \in 0 .. Stored - 1 /\ k \in 0 .. Quantity(req) - 1
      BY <1>1, <1>3
    <3>2. Wanted(k)
      BY <1>1, <3>1 DEF Written
    <3> QED
      BY <1>4, <3>1, <3>2, WantedStays
  <2> QED
    BY <1>1, <1>2, <1>3, <2>1 DEF Written
<1>6. /\ req.fc = WriteHolding /\ EchoedHigh => EchoedHigh'
      /\ req.fc = WriteHolding /\ EchoedBoth => EchoedBoth'
  BY <1>1, <1>2, <1>4, EchoStays, Codes
<1>7. Answered'
  BY <1>1, <1>2, <1>3, <1>6, Codes DEF Answered, Named, Counted, Ended
<1> QED
  BY <1>2, <1>5, <1>7 DEF WriteInv, Writing, InTable, OutOfTable, Max, Quantity

\* Every step keeps what a write has done and answered.
LEMMA WriteStep == TypeInv /\ HeldFits /\ WriteInv /\ [Next]_vars => WriteInv'
<1> SUFFICES ASSUME TypeInv, HeldFits, WriteInv, [Next]_vars PROVE WriteInv'
  OBVIOUS
<1>1. CASE UNCHANGED vars
  <2>1. UNCHANGED <<pc, req, i, tx, flagged, touched, woken, held>>
    BY <1>1 DEF vars, effects
  <2>2. Refused => Refused'
    BY <2>1 DEF Refused
  <2>3. Written => Written'
    BY <2>1 DEF Written, Stored, Wanted
  <2>4. Answered => Answered'
    BY <2>1 DEF Answered, Stored, Named, Counted, Ended, EchoedHigh, EchoedBoth
  <2>5. InTable(req)' = InTable(req)
    BY <2>1 DEF InTable, OutOfTable, Max, Quantity
  <2> QED
    BY <2>1, <2>2, <2>3, <2>4, <2>5 DEF WriteInv
<1>2. CASE \E r \in Request : Receive(r)
  BY <1>2, WriteReceive
<1>3. CASE Handler \/ PollStores
  <2>1. pc # "idle"
    BY <1>3 DEF Handler, PackCoil, ReadWord, ReadEnds, StoreCoil, StoreHolding, Echo, Flag,
                WriteEnds, Give, Reply, PollStores
  <2>2. CASE ~ InTable(req)
    BY <1>3, <2>1, <2>2, WriteRefused
  <2>3. CASE InTable(req) /\ req.fc \in Reads
    <3>1. pc' = "idle" \/ UNCHANGED req
      BY <1>3 DEF Handler, PackCoil, ReadWord, ReadEnds, StoreCoil, StoreHolding, Echo, Flag,
                  WriteEnds, Give, Reply, PollStores
    <3> QED
      BY <2>3, <3>1 DEF WriteInv, InTable, OutOfTable, Max, Quantity
  <2>4. CASE Writing
    <3>1. CASE PackCoil \/ ReadWord \/ ReadEnds
      BY <2>4, <3>1, Codes DEF PackCoil, ReadWord, ReadEnds, Writing
    <3>2. CASE Reply
      BY <3>2 DEF Reply, WriteInv
    <3> QED
      BY <1>3, <2>4, <3>1, <3>2, WriteStoreCoil, WriteStoreHolding, WriteEcho, WriteFlag,
         WriteWriteEnds, WriteGive, WritePoll DEF Handler
  <2> QED
    BY <2>1, <2>2, <2>3, <2>4 DEF Writing
<1> QED
  BY <1>1, <1>2, <1>3 DEF Next

\* What an answer says of the echo.
LEMMA EchoMeans ==
    ASSUME EchoedBoth, held[0] \in Seq(Word)
    PROVE  \E first \in 2 .. Len(held[0]) :
              /\ held[0][first] = req.want[0]
              /\ FromContents(tx[4], tx[5], SubSeq(held[0], first, Len(held[0])))
<1> DEFINE L == Len(held[0])
<1>1. L \in Nat /\ DOMAIN held[0] = 1 .. L /\ \A k \in 1 .. L : held[0][k] \in Word
  BY LenProperties, ElementOfSeq
<1>2. PICK first \in 2 .. L : \E a \in first .. L : \E b \in a .. L :
         /\ held[0][first] = req.want[0]
         /\ tx[4] = held[0][a][1] /\ tx[5] = held[0][b][2]
  BY DEF EchoedBoth
<1>3. PICK a \in first .. L : \E b \in a .. L :
         /\ held[0][first] = req.want[0]
         /\ tx[4] = held[0][a][1] /\ tx[5] = held[0][b][2]
  BY <1>2
<1>4. PICK b \in a .. L : /\ held[0][first] = req.want[0]
                          /\ tx[4] = held[0][a][1] /\ tx[5] = held[0][b][2]
  BY <1>3
<1> DEFINE s == SubSeq(held[0], first, L)
<1>5. first \in Int /\ L \in Int /\ \A k \in first .. L : held[0][k] \in Word
  BY <1>1
<1>6. /\ s \in Seq(Word)
      /\ Len(s) = IF first <= L THEN L - first + 1 ELSE 0
      /\ \A k \in 1 .. L - first + 1 : s[k] = held[0][first + k - 1]
  BY <1>5, SubSeqProperties
<1>7. DOMAIN s = 1 .. L - first + 1
  BY <1>1, <1>6, LenProperties
<1> DEFINE x == a - first + 1
           y == b - first + 1
<1> HIDE DEF L, s
<1>8. /\ x \in 1 .. L - first + 1 /\ y \in 1 .. L - first + 1 /\ x <= y
      /\ first + x - 1 = a /\ first + y - 1 = b
  BY <1>1, <1>2, <1>3, <1>4
<1>9. s[x] = held[0][a] /\ s[y] = held[0][b]
  <2>1. s[x] = held[0][first + x - 1] /\ s[y] = held[0][first + y - 1]
    BY <1>6, <1>8
  <2> QED
    BY <1>8, <2>1
<1> HIDE DEF x, y
<1>10. FromContents(tx[4], tx[5], s)
  BY <1>4, <1>7, <1>8, <1>9 DEF FromContents
<1> QED
  BY <1>4, <1>10 DEF L, s

\* The invariant of the writes, always.
LEMMA WriteAlways == Spec => [](TypeInv /\ HeldFits /\ WriteInv)
<1>1. Init => HeldFits /\ WriteInv
  BY DEF Init, HeldFits, WriteInv
<1> QED
  BY <1>1, TypeInit, TypeStep, HeldAlways, WriteStep, PTL DEF Spec

(* A write does what the panel means and nothing else, whatever the read    *)
(* tasks store meanwhile.                                                   *)
THEOREM WritesAreExact == Spec => []WritesExact
<1>1. TypeInv /\ HeldFits /\ WriteInv => WritesExact
  <2> SUFFICES ASSUME TypeInv, HeldFits, WriteInv, pc = "reply",
                      req.fc \notin Reads, req.fc # Unknown
               PROVE  /\ woken
                      /\ flagged = touched
                      /\ IF Rejected
                         THEN touched = {} /\ req.addr + Quantity(req) > Max(req)
                         ELSE
                         /\ touched = {req.addr + k : k \in 0 .. Quantity(req) - 1}
                         /\ \A k \in 0 .. Quantity(req) - 1 :
                               \E b \in DOMAIN held[k] : b > 1 /\ held[k][b] = req.want[k]
                         /\ SubSeq(tx, 1, 3) = <<req.fc>> \o AddressBytes(req)
                         /\ req.fc \notin Single => SubSeq(tx, 4, 5) = QtyBytes(req)
                         /\ req.fc = WriteCoil => tx[4] = req.want[0] * (ByteMod - 1)
                         /\ req.fc = WriteHolding =>
                               \E first \in 2 .. Len(held[0]) :
                                  /\ held[0][first] = req.want[0]
                                  /\ FromContents(tx[4], tx[5],
                                                  SubSeq(held[0], first, Len(held[0])))
    BY DEF WritesExact
  <2>1. CommandFits(req) /\ req.fc \in 1 .. 16
    BY Codes, Zenon DEF TypeInv, Place, CommandFits
  <2>2. CASE ~ InTable(req)
    <3>1. Refused
      BY <2>2 DEF WriteInv
    <3>2. Rejected
      BY <2>1, <3>1 DEF Refused, Rejected
    <3> QED
      BY <2>2, <3>1, <3>2 DEF Refused, InTable, OutOfTable
  <2>3. CASE InTable(req)
    <3>1. Writing
      BY <2>3 DEF Writing
    <3>2. /\ Written /\ Answered /\ Quantity(req) \in Nat /\ i = Quantity(req)
          /\ req.fc \in {WriteCoil, WriteHolding, WriteCoils, WriteHoldings}
          /\ req.fc \in Single => Quantity(req) = 1
          /\ FrameFits(tx)
      BY <3>1, WritingMeans
    <3>3. Stored = i
      BY DEF Stored, Storing
    <3>4. /\ Len(tx) = 5 /\ Named
          /\ req.fc \notin Single => Counted
          /\ req.fc = WriteCoil => tx[4] = req.want[0] * (ByteMod - 1)
          /\ req.fc = WriteHolding => EchoedBoth
      BY <3>2, <3>3, Codes DEF Answered, Ended
    <3>5. ~ Rejected
      BY <2>1, <3>4 DEF Rejected, Named
    <3>6. ASSUME NEW m \in 1 .. 5, NEW n \in 1 .. 5, m <= n
          PROVE  /\ SubSeq(tx, m, n) \in Seq(Nat) /\ Len(SubSeq(tx, m, n)) = n - m + 1
                 /\ \A k \in 1 .. n - m + 1 : SubSeq(tx, m, n)[k] = tx[m + k - 1]
      <4>1. \A k \in 1 .. Len(tx) : tx[k] \in Nat
        BY <3>2, ElementOfSeq DEF FrameFits
      <4>2. m \in Int /\ n \in Int /\ \A k \in m .. n : tx[k] \in Nat
        BY <3>4, <4>1
      <4> QED
        BY <3>6, <4>2, SubSeqProperties
    <3>7. SubSeq(tx, 1, 3) = <<req.fc>> \o AddressBytes(req)
      <4> DEFINE s == SubSeq(tx, 1, 3)
                 t == <<req.fc>> \o AddressBytes(req)
      <4>1. /\ t \in Seq(Nat) /\ Len(t) = 3 /\ t[1] = tx[1] /\ t[2] = tx[2] /\ t[3] = tx[3]
        BY <2>1, <3>4, NameOf DEF Named, FrameFits
      <4>2. s \in Seq(Nat) /\ Len(s) = 3 /\ \A k \in 1 .. 3 : s[k] = tx[1 + k - 1]
        BY <3>6
      <4> HIDE DEF s, t
      <4>3. \A k \in 1 .. Len(s) : s[k] = t[k]
        BY <4>1, <4>2
      <4>4. s = t
        BY <4>1, <4>2, <4>3, SeqEqual
      <4> QED
        BY <4>4 DEF s, t
    <3>8. ASSUME req.fc \notin Single PROVE SubSeq(tx, 4, 5) = QtyBytes(req)
      <4> DEFINE s == SubSeq(tx, 4, 5)
                 t == QtyBytes(req)
      <4>1. /\ t \in Seq(Nat) /\ Len(t) = 2 /\ t[1] = tx[4] /\ t[2] = tx[5]
        <5>1. t \in Seq(Byte) /\ Len(t) = 2 /\ t[1] = tx[4] /\ t[2] = tx[5]
          BY <2>1, <2>3, <3>4, <3>8, BytesOf DEF Counted
        <5>2. Byte \subseteq Nat
          BY ByteWidth DEF Byte
        <5> QED
          BY <5>1, <5>2, SeqMonotonic
      <4>2. s \in Seq(Nat) /\ Len(s) = 2 /\ \A k \in 1 .. 2 : s[k] = tx[4 + k - 1]
        BY <3>6
      <4> HIDE DEF s, t
      <4>3. \A k \in 1 .. Len(s) : s[k] = t[k]
        BY <4>1, <4>2
      <4>4. s = t
        BY <4>1, <4>2, <4>3, SeqEqual
      <4> QED
        BY <4>4 DEF s, t
    <3>9. ASSUME req.fc = WriteHolding
          PROVE  \E first \in 2 .. Len(held[0]) :
                    /\ held[0][first] = req.want[0]
                    /\ FromContents(tx[4], tx[5], SubSeq(held[0], first, Len(held[0])))
      <4>1. 0 \in 0 .. Quantity(req) - 1
        BY <3>2, <3>9, Codes
      <4>2. held[0] \in Seq(Word)
        BY <2>3, <3>9, <4>1, Codes DEF HeldFits, Value
      <4> QED
        BY <3>4, <3>9, <4>2, EchoMeans
    <3>10. /\ woken /\ flagged = touched
           /\ touched = {req.addr + k : k \in 0 .. Quantity(req) - 1}
           /\ \A k \in 0 .. Quantity(req) - 1 :
                 \E b \in DOMAIN held[k] : b > 1 /\ held[k][b] = req.want[k]
      BY <3>2, <3>3 DEF Written, Wanted
    <3> QED
      BY <3>4, <3>5, <3>7, <3>8, <3>9, <3>10
  <2> QED
    BY <2>2, <2>3
<1> QED
  BY <1>1, WriteAlways, PTL

-----------------------------------------------------------------------------
(* What a read shows. *)

\* A command that reads starts with nothing in its answer.
LEMMA ReadReceive ==
    ASSUME TypeInv, NEW r \in Request, Receive(r)
    PROVE  ReadInv'
<1>1. CommandFits(r) /\ req' = r /\ i' = 0 /\ r.fc \in Nat
  <2>1. CommandFits(r) /\ r.fc \in 1 .. 16
    BY RequestFits, Codes, Zenon DEF CommandFits
  <2> QED
    BY <2>1 DEF Receive
<1> SUFFICES ASSUME InTable(r), r.fc \in Reads PROVE ReadInv'
  BY <1>1, Codes DEF ReadInv, InTable, OutOfTable, Max, Quantity
<1>2. tx' = Heading(r) /\ pc' = "loop"
  BY DEF Receive, InTable
<1>3. 0 \div Bits = 0 /\ 0 % Bits = 0 /\ 0 * Bits = 0
  <2>1. Bits \in Nat \ {0} /\ Bits * 0 + 0 = 0 /\ 0 * Bits = 0
    BY WidthAssumption
  <2>2. (Bits * 0 + 0) \div Bits = 0 /\ (Bits * 0 + 0) % Bits = 0
    BY <2>1, DivisionUnique
  <2> QED
    BY <2>1, <2>2
<1>4. ASSUME r.fc = ReadCoils PROVE CoilsShown'
  <2>1. Len(tx') = 2 /\ tx'[1] = r.fc /\ tx'[2] = Packed(r.qty)
    <3>1. tx' = <<r.fc, Packed(r.qty)>>
      BY <1>1, <1>2, <1>4, HeadingFits
    <3> QED
      BY <3>1
  <2> QED
    BY <1>1, <1>3, <2>1 DEF CoilsShown
<1>5. ASSUME r.fc = ReadHoldings PROVE WordsShown'
  <2>1. Len(tx') = 2 /\ tx'[1] = r.fc /\ tx'[2] = (r.qty * 2) % ByteMod
    <3>1. tx' = <<r.fc, (r.qty * 2) % ByteMod>>
      BY <1>1, <1>2, <1>5, HeadingFits
    <3> QED
      BY <3>1
  <2> QED
    BY <1>1, <1>2, <2>1 DEF WordsShown
<1> QED
  BY <1>1, <1>4, <1>5 DEF ReadInv

\* A coil shown stays shown when the history grows.
LEMMA ShowedStays ==
    ASSUME Grown, Quantity(req) = req.qty, req.qty \in Nat,
           NEW bit, NEW k \in Nat, Showed(bit, k, req.qty, held)
    PROVE  Showed(bit, k, req.qty, held')
<1>1. CASE k < req.qty
  <2>1. k \in 0 .. Quantity(req) - 1
    BY <1>1
  <2>2. PICK b \in DOMAIN held[k] : bit = held[k][b]
    BY <1>1 DEF Showed
  <2>3. /\ DOMAIN held[k] = 1 .. Len(held[k]) /\ DOMAIN held'[k] = 1 .. Len(held'[k])
        /\ Len(held[k]) \in Nat /\ Len(held'[k]) \in Nat /\ Len(held[k]) <= Len(held'[k])
        /\ \A c \in 1 .. Len(held[k]) : held'[k][c] = held[k][c]
    BY <2>1 DEF Grown
  <2>4. b \in DOMAIN held'[k] /\ bit = held'[k][b]
    BY <2>2, <2>3
  <2> QED
    BY <1>1, <2>4 DEF Showed
<1>2. CASE ~ (k < req.qty)
  BY <1>2 DEF Showed
<1> QED
  BY <1>1, <1>2

\* So does a register.
LEMMA ContentsStay ==
    ASSUME Grown, NEW high, NEW low, NEW k \in 0 .. Quantity(req) - 1,
           FromContents(high, low, held[k])
    PROVE  FromContents(high, low, held'[k])
<1>1. PICK a \in DOMAIN held[k], b \in DOMAIN held[k] :
         a <= b /\ high = held[k][a][1] /\ low = held[k][b][2]
  BY DEF FromContents
<1>2. a \in DOMAIN held'[k] /\ b \in DOMAIN held'[k]
  BY DEF Grown
<1>3. held'[k][a] = held[k][a] /\ held'[k][b] = held[k][b]
  BY DEF Grown
<1> QED
  BY <1>1, <1>2, <1>3 DEF FromContents

\* The read tasks only add to the history.
LEMMA ReadPoll ==
    ASSUME TypeInv, HeldFits, ReadInv, PollStores, pc # "idle", InTable(req),
           req.fc \in Reads
    PROVE  ReadInv'
<1>1. UNCHANGED <<pc, req, i, data, tx>>
  BY DEF PollStores
<1>2. Grown
  BY HeldStep DEF PollStores, Reply
<1>3. CommandFits(req) /\ i \in Nat
  BY DEF TypeInv, OwnFits, Place
<1>4. Quantity(req) = req.qty /\ req.qty \in Nat
  BY <1>3, Codes DEF CommandFits, Quantity
<1>5. ASSUME req.fc = ReadCoils PROVE CoilsShown'
  <2>1. CoilsShown
    BY <1>5 DEF ReadInv
  <2>2. Bits \in Nat /\ i \div Bits \in Nat /\ i % Bits \in 0 .. Bits - 1
    BY <1>3, BytePlace, WidthAssumption
  <2>3. (i \div Bits) * Bits \in Nat
    BY <2>2
  <2>4. ASSUME NEW k \in 0 .. (i \div Bits) * Bits - 1
        PROVE  Showed(ReplyBit(k)', k, req'.qty, held')
    <3>1. Showed(ReplyBit(k), k, req.qty, held) /\ k \in Nat
      BY <2>1, <2>3 DEF CoilsShown
    <3>2. ReplyBit(k)' = ReplyBit(k)
      BY <1>1 DEF ReplyBit
    <3> QED
      BY <1>1, <1>2, <1>4, <3>1, <3>2, ShowedStays
  <2>5. ASSUME NEW j \in 0 .. (i % Bits) - 1
        PROVE  Showed(BitOf(data', Bits - (i % Bits) + j), (i \div Bits) * Bits + j,
                      req'.qty, held')
    <3>1. Showed(BitOf(data, Bits - (i % Bits) + j), (i \div Bits) * Bits + j, req.qty, held)
      BY <2>1 DEF CoilsShown
    <3>2. (i \div Bits) * Bits + j \in Nat
      BY <2>2, <2>3
    <3> QED
      BY <1>1, <1>2, <1>4, <3>1, <3>2, ShowedStays
  <2> QED
    BY <1>1, <2>1, <2>4, <2>5 DEF CoilsShown
<1>6. ASSUME req.fc = ReadHoldings PROVE WordsShown'
  <2>1. WordsShown
    BY <1>6 DEF ReadInv
  <2>2. i <= req.qty /\ (pc = "low" => i < req.qty)
    BY <1>6, Codes DEF TypeInv, Place, InReadHoldings
  <2>3. ASSUME NEW k \in 0 .. i - 1
        PROVE  FromContents(ReplyHigh(k), ReplyLow(k), held[k])'
    <3>1. k \in 0 .. Quantity(req) - 1
      BY <1>3, <1>4, <2>2
    <3>2. FromContents(ReplyHigh(k), ReplyLow(k), held'[k])
      BY <1>2, <2>1, <3>1, ContentsStay DEF WordsShown
    <3> QED
      BY <1>1, <3>2 DEF ReplyHigh, ReplyLow, FromContents
  <2>4. ASSUME pc = "low" PROVE HighRead'
    <3>1. i \in 0 .. Quantity(req) - 1
      BY <1>3, <1>4, <2>2, <2>4
    <3>2. PICK a \in DOMAIN held[i] : ReplyHigh(i) = held[i][a][1]
      BY <2>1, <2>4 DEF WordsShown, HighRead
    <3>3. a \in DOMAIN held'[i] /\ held'[i][a] = held[i][a]
      BY <1>2, <3>1, <3>2 DEF Grown
    <3> QED
      BY <1>1, <3>2, <3>3 DEF HighRead, ReplyHigh
  <2> QED
    BY <1>1, <2>1, <2>3, <2>4 DEF WordsShown
<1> QED
  BY <1>1, <1>5, <1>6 DEF ReadInv

\* A coil is shifted in, and at the end of a byte the byte joins the reply.
LEMMA ReadPackCoil ==
    ASSUME TypeInv, HeldFits, ReadInv, PackCoil
    PROVE  ReadInv'
<1>1. /\ pc = "loop" /\ req.fc = ReadCoils /\ i < Packed(req.qty) * Bits /\ i' = i + 1
      /\ UNCHANGED <<pc, req, held>>
  BY DEF PackCoil
<1>2. CommandFits(req) /\ InTable(req) /\ i \in Nat /\ data \in Byte /\ FrameFits(tx)
  BY <1>1, Working DEF TypeInv, OwnFits
<1>3. CoilsShown /\ Quantity(req) = req.qty /\ req.qty \in Nat
  BY <1>1, <1>2, Codes DEF ReadInv, CommandFits, Quantity
<1> DEFINE q == i \div Bits
           m == i % Bits
           bit == IF i < req.qty THEN coils[req.addr + i] ELSE 0
           old == IF m = 0 THEN 0 ELSE data
           byte == ShiftIn(old, bit)
           Shown(b, k) == Showed(b, k, req.qty, held)
<1>4. /\ Bits \in Nat \ {0, 1} /\ q \in Nat /\ m \in 0 .. Bits - 1
      /\ i = Bits * q + m /\ i = q * Bits + m /\ q * Bits \in Nat /\ Bits * q = q * Bits
  <2>1. Bits \in Nat \ {0, 1} /\ q \in Nat /\ m \in 0 .. Bits - 1
    BY <1>2, BytePlace, WidthAssumption
  <2>2. i = Bits * q + m /\ i = q * Bits + m
    BY <1>2, BytePlace
  <2> HIDE DEF q, m
  <2> QED
    BY <2>1, <2>2
<1>5. data' = byte /\ tx' = IF (i + 1) % Bits = 0 THEN Append(tx, byte) ELSE tx
  BY DEF PackCoil
<1>6. bit \in Bit /\ Shown(bit, i)
  <2>1. CASE i < req.qty
    <3>1. i \in 0 .. Quantity(req) - 1
      BY <1>2, <1>3, <2>1
    <3>2. /\ held[i] \in Seq(Bit) /\ Len(held[i]) > 0
          /\ held[i][Len(held[i])] = coils[req.addr + i]
      BY <1>1, <1>2, <3>1, Codes DEF HeldFits, Value, Entry
    <3>3. Len(held[i]) \in DOMAIN held[i] /\ held[i][Len(held[i])] \in Bit
      BY <3>2, LenProperties, ElementOfSeq
    <3> QED
      BY <2>1, <3>2, <3>3 DEF Showed
  <2>2. CASE ~ (i < req.qty)
    BY <2>2 DEF Showed, Bit
  <2> QED
    BY <2>1, <2>2
<1>7. old \in Byte
  BY <1>2, ByteWidth DEF Byte
<1> HIDE DEF bit, old, Shown
<1>8. /\ byte \in Byte /\ BitOf(byte, Bits - 1) = bit
      /\ \A j \in 0 .. Bits - 2 : BitOf(byte, j) = BitOf(old, j + 1)
  BY <1>6, <1>7, ShiftedIn
<1>9. /\ Len(tx) = 2 + q /\ tx[1] = req.fc /\ tx[2] = Packed(req.qty)
      /\ \A k \in 0 .. q * Bits - 1 : Shown(ReplyBit(k), k)
      /\ \A j \in 0 .. m - 1 : Shown(BitOf(data, Bits - m + j), q * Bits + j)
  BY <1>3 DEF CoilsShown, Shown
<1> HIDE DEF q, m, byte
\* What is in the byte now.
<1>10. ASSUME NEW j \in 0 .. m
       PROVE  Shown(BitOf(byte, Bits - (m + 1) + j), q * Bits + j)
  <2>1. CASE j = m
    <3>1. Bits - (m + 1) + j = Bits - 1 /\ q * Bits + j = i
      BY <1>4, <2>1
    <3> QED
      BY <1>6, <1>8, <3>1
  <2>2. CASE j # m
    <3>1. /\ j \in 0 .. m - 1 /\ m # 0 /\ Bits - (m + 1) + j \in 0 .. Bits - 2
          /\ Bits - (m + 1) + j + 1 = Bits - m + j
      BY <1>4, <2>2
    <3>2. BitOf(byte, Bits - (m + 1) + j) = BitOf(old, Bits - m + j)
      BY <1>8, <3>1
    <3>3. old = data
      BY <3>1 DEF old
    <3> QED
      BY <1>9, <3>1, <3>2, <3>3
  <2> QED
    BY <2>1, <2>2
<1>11. CASE m + 1 < Bits
  <2>1. Bits * q + (m + 1) = i + 1 /\ m + 1 \in 0 .. Bits - 1
    BY <1>4, <1>11
  <2>2. (i + 1) \div Bits = q /\ (i + 1) % Bits = m + 1
    <3>1. (Bits * q + (m + 1)) \div Bits = q /\ (Bits * q + (m + 1)) % Bits = m + 1
      BY <1>4, <2>1, DivisionUnique
    <3> QED
      BY <2>1, <3>1
  <2>3. tx' = tx
    BY <1>4, <1>5, <2>2
  <2>4. ASSUME NEW k \in 0 .. q * Bits - 1
        PROVE  Showed(ReplyBit(k)', k, req'.qty, held')
    <3>1. ReplyBit(k)' = ReplyBit(k)
      BY <2>3 DEF ReplyBit
    <3> QED
      BY <1>1, <1>9, <3>1 DEF Shown
  <2>5. ASSUME NEW j \in 0 .. m
        PROVE  Showed(BitOf(data', Bits - (m + 1) + j), q * Bits + j, req'.qty, held')
    BY <1>1, <1>5, <1>10 DEF Shown
  <2>6. CoilsShown'
    <3>1. 0 .. (m + 1) - 1 = 0 .. m
      BY <1>4
    <3> QED
      BY <1>1, <1>9, <2>2, <2>3, <2>4, <2>5, <3>1 DEF CoilsShown
  <2> QED
    BY <1>1, <2>6, Codes DEF ReadInv
<1>12. CASE m + 1 = Bits
  <2>1. Bits * (q + 1) + 0 = i + 1 /\ (q + 1) * Bits = q * Bits + Bits
    BY <1>4, <1>12
  <2>2. (i + 1) \div Bits = q + 1 /\ (i + 1) % Bits = 0
    BY <1>4, <2>1, DivisionUnique
  <2>3. /\ Len(tx') = Len(tx) + 1 /\ tx'[Len(tx) + 1] = byte
        /\ \A k \in 1 .. Len(tx) : tx'[k] = tx[k]
    BY <1>2, <1>5, <1>8, <2>2, FrameAppend
  <2>4. ASSUME NEW k \in 0 .. (q + 1) * Bits - 1
        PROVE  Showed(ReplyBit(k)', k, req'.qty, held')
    <3>1. CASE k < q * Bits
      <4>1. k \in 0 .. q * Bits - 1 /\ k \in Nat
        BY <1>4, <3>1
      <4>2. k \div Bits < q /\ k \div Bits \in Nat
        <5> DEFINE d == k \div Bits
                   e == k % Bits
        <5>1. d \in Nat /\ e \in 0 .. Bits - 1 /\ k = Bits * d + e
          BY <4>1, BytePlace
        <5> HIDE DEF d, e
        <5>2. ~ (d >= q)
          <6> SUFFICES ASSUME d >= q PROVE FALSE
            OBVIOUS
          <6>1. Bits * d >= Bits * q
            BY <1>4, <5>1
          <6> QED
            BY <1>4, <3>1, <4>1, <5>1, <6>1
        <5>3. d < q /\ d \in Nat
          BY <1>4, <5>1, <5>2
        <5> QED
          BY <5>3 DEF d
      <4>3. 3 + k \div Bits \in 1 .. Len(tx)
        BY <1>4, <1>9, <4>2
      <4>4. ReplyBit(k)' = ReplyBit(k)
        BY <2>3, <4>3 DEF ReplyBit
      <4> QED
        BY <1>1, <1>9, <4>1, <4>4 DEF Shown
    <3>2. CASE k >= q * Bits
      <4> DEFINE j == k - q * Bits
      <4>1. j \in 0 .. Bits - 1 /\ Bits * q + j = k /\ j \in 0 .. m /\ q * Bits + j = k
        BY <1>4, <1>12, <2>1, <3>2
      <4> HIDE DEF j
      <4>2. k \div Bits = q /\ k % Bits = j
        <5>1. (Bits * q + j) \div Bits = q /\ (Bits * q + j) % Bits = j
          BY <1>4, <4>1, DivisionUnique
        <5> QED
          BY <4>1, <5>1
      <4>3. ReplyBit(k)' = BitOf(byte, j)
        <5>1. 3 + q = Len(tx) + 1
          BY <1>4, <1>9
        <5> QED
          BY <2>3, <4>2, <5>1 DEF ReplyBit, BitOf
      <4>4. Bits - (m + 1) + j = j
        BY <1>4, <1>12, <4>1
      <4>5. Shown(BitOf(byte, j), k)
        BY <1>10, <4>1, <4>4
      <4> QED
        BY <1>1, <4>3, <4>5 DEF Shown
    <3> QED
      BY <1>4, <2>1, <3>1, <3>2
  <2>5. CoilsShown'
    <3>1. /\ Len(tx') = 2 + (q + 1) /\ tx'[1] = req'.fc /\ tx'[2] = Packed(req'.qty)
      BY <1>1, <1>4, <1>9, <2>3
    <3>2. 0 .. 0 - 1 = {}
      OBVIOUS
    <3> QED
      BY <1>1, <2>2, <2>4, <3>1, <3>2 DEF CoilsShown
  <2> QED
    BY <1>1, <2>5, Codes DEF ReadInv
<1> QED
  BY <1>4, <1>11, <1>12

\* A register is read byte by byte, the low one not before the high one.
LEMMA ReadReadWord ==
    ASSUME TypeInv, HeldFits, ReadInv, ReadWord
    PROVE  ReadInv'
<1>1. /\ pc \in {"loop", "low"} /\ req.fc = ReadHoldings /\ i < req.qty
      /\ pc = "loop" => /\ tx' = Append(tx, holdings[req.addr + i][1])
                        /\ pc' = "low" /\ i' = i
      /\ pc = "low" => /\ tx' = Append(tx, holdings[req.addr + i][2])
                       /\ pc' = "loop" /\ i' = i + 1
      /\ UNCHANGED <<req, held>>
  BY DEF ReadWord
<1>2. CommandFits(req) /\ InTable(req) /\ i \in Nat /\ FrameFits(tx)
  BY <1>1, Working DEF TypeInv, OwnFits
<1>3. WordsShown /\ i \in 0 .. Quantity(req) - 1
  BY <1>1, <1>2, Codes DEF ReadInv, CommandFits, Quantity
<1>4. /\ held[i] \in Seq(Word) /\ Len(held[i]) \in Nat \ {0}
      /\ DOMAIN held[i] = 1 .. Len(held[i])
      /\ held[i][Len(held[i])] = holdings[req.addr + i]
  BY <1>1, <1>2, <1>3, LenProperties, Codes DEF HeldFits, Value, Entry
<1>5. holdings[req.addr + i][1] \in Byte /\ holdings[req.addr + i][2] \in Byte
  <2>1. holdings[req.addr + i] \in Word
    BY <1>4, ElementOfSeq
  <2> QED
    BY <2>1, WidthAssumption DEF Byte
<1>6. \A b \in Byte : /\ Len(Append(tx, b)) = Len(tx) + 1
                      /\ \A k \in 1 .. Len(tx) : Append(tx, b)[k] = tx[k]
                      /\ Append(tx, b)[Len(tx) + 1] = b
  BY <1>2, FrameAppend
<1>7. /\ Len(tx') = Len(tx) + 1
      /\ \A k \in 1 .. Len(tx) : tx'[k] = tx[k]
      /\ pc = "loop" => tx'[Len(tx) + 1] = holdings[req.addr + i][1]
      /\ pc = "low" => tx'[Len(tx) + 1] = holdings[req.addr + i][2]
  BY <1>1, <1>5, <1>6
<1>8. /\ Len(tx) = 2 + 2 * i + (IF pc = "low" THEN 1 ELSE 0)
      /\ tx[1] = req.fc /\ tx[2] = (req.qty * 2) % ByteMod
      /\ \A k \in 0 .. i - 1 : FromContents(ReplyHigh(k), ReplyLow(k), held[k])
      /\ pc = "low" => HighRead
  BY <1>3 DEF WordsShown
<1>9. ASSUME NEW k \in 0 .. i - 1
      PROVE  FromContents(ReplyHigh(k)', ReplyLow(k)', held'[k])
  <2>1. 3 + 2 * k \in 1 .. Len(tx) /\ 4 + 2 * k \in 1 .. Len(tx)
    BY <1>2, <1>8
  <2>2. ReplyHigh(k)' = ReplyHigh(k) /\ ReplyLow(k)' = ReplyLow(k)
    BY <1>7, <2>1 DEF ReplyHigh, ReplyLow
  <2> QED
    BY <1>1, <1>8, <2>2
<1>10. tx'[1] = req'.fc /\ tx'[2] = (req'.qty * 2) % ByteMod
  BY <1>1, <1>2, <1>7, <1>8
<1>11. CASE pc = "loop"
  <2>1. 3 + 2 * i = Len(tx) + 1 /\ Len(tx') = 2 + 2 * i + 1
    BY <1>2, <1>7, <1>8, <1>11
  <2>2. tx'[3 + 2 * i] = held[i][Len(held[i])][1]
    BY <1>4, <1>7, <1>11, <2>1
  <2>3. HighRead'
    BY <1>1, <1>4, <1>11, <2>2 DEF HighRead, ReplyHigh
  <2>4. WordsShown'
    BY <1>1, <1>9, <1>10, <1>11, <2>1, <2>3 DEF WordsShown
  <2> QED
    BY <1>1, <2>4, Codes DEF ReadInv
<1>12. CASE pc = "low"
  <2>1. 4 + 2 * i = Len(tx) + 1 /\ Len(tx') = 2 + 2 * (i + 1) /\ 3 + 2 * i \in 1 .. Len(tx)
    BY <1>2, <1>7, <1>8, <1>12
  <2>2. /\ tx'[4 + 2 * i] = held[i][Len(held[i])][2] /\ tx'[3 + 2 * i] = tx[3 + 2 * i]
    BY <1>4, <1>7, <1>12, <2>1
  <2>3. PICK a \in DOMAIN held[i] : ReplyHigh(i) = held[i][a][1]
    BY <1>8, <1>12 DEF HighRead
  <2>4. Len(held[i]) \in DOMAIN held[i] /\ a <= Len(held[i])
    BY <1>4, <2>3
  <2>5. FromContents(tx'[3 + 2 * i], tx'[4 + 2 * i], held[i])
    BY <2>2, <2>3, <2>4 DEF FromContents, ReplyHigh
  <2>6. ASSUME NEW k \in 0 .. i
        PROVE  FromContents(ReplyHigh(k)', ReplyLow(k)', held'[k])
    <3>1. CASE k = i
      BY <1>1, <2>5, <3>1 DEF ReplyHigh, ReplyLow
    <3>2. CASE k # i
      BY <1>2, <1>9, <3>2
    <3> QED
      BY <3>1, <3>2
  <2>7. WordsShown'
    <3>1. pc' = "loop" /\ i' = i + 1 /\ 0 .. i' - 1 = 0 .. i
      BY <1>1, <1>2, <1>12
    <3>2. Len(tx') = 2 + 2 * i' + (IF pc' = "low" THEN 1 ELSE 0)
      BY <1>2, <2>1, <3>1
    <3>3. \A k \in 0 .. i' - 1 : FromContents(ReplyHigh(k)', ReplyLow(k)', held'[k])
      BY <2>6, <3>1
    <3>4. pc' # "low"
      BY <3>1
    <3> QED
      BY <1>10, <3>2, <3>3, <3>4 DEF WordsShown
  <2> QED
    BY <1>1, <2>7, Codes DEF ReadInv
<1> QED
  BY <1>1, <1>11, <1>12

\* The reply is complete.
LEMMA ReadReadEnds ==
    ASSUME TypeInv, ReadInv, ReadEnds
    PROVE  ReadInv'
<1>1. pc = "loop" /\ pc' = "reply" /\ UNCHANGED <<req, i, data, tx, held>>
  BY DEF ReadEnds
<1>2. InTable(req)
  BY <1>1, Working
<1>3. CoilsShown => CoilsShown'
  BY <1>1 DEF CoilsShown, ReplyBit
<1>4. WordsShown => WordsShown'
  BY <1>1 DEF WordsShown, ReplyHigh, ReplyLow
<1> QED
  BY <1>1, <1>2, <1>3, <1>4 DEF ReadInv

\* Every step keeps what the reply shows true.
LEMMA ReadStep == TypeInv /\ HeldFits /\ ReadInv /\ [Next]_vars => ReadInv'
<1> SUFFICES ASSUME TypeInv, HeldFits, ReadInv, [Next]_vars PROVE ReadInv'
  OBVIOUS
<1>1. CASE UNCHANGED vars
  BY <1>1
     DEF vars, tables, effects, ReadInv, InTable, OutOfTable, Max, Quantity, CoilsShown,
         WordsShown, HighRead, ReplyBit, ReplyHigh, ReplyLow
<1>2. CASE \E r \in Request : Receive(r)
  BY <1>2, ReadReceive
<1>3. CASE PackCoil \/ ReadWord \/ ReadEnds
  BY <1>3, ReadPackCoil, ReadReadWord, ReadReadEnds
<1>4. CASE StoreCoil \/ StoreHolding \/ Echo \/ Flag \/ WriteEnds \/ Give \/ PollStores
  <2>1. pc # "idle" /\ UNCHANGED req
    BY <1>4 DEF StoreCoil, StoreHolding, Echo, Flag, WriteEnds, Give, PollStores
  <2>2. CASE InTable(req) /\ req.fc \in Reads
    <3>1. PollStores
      <4>1. pc \in {"loop", "low", "reply"}
        BY <2>1, <2>2, Codes DEF TypeInv, Place, InReadCoils, InReadHoldings
      <4> QED
        BY <1>4, <2>2, <4>1, Codes DEF StoreCoil, StoreHolding, Echo, Flag, WriteEnds, Give
    <3> QED
      BY <2>1, <2>2, <3>1, ReadPoll
  <2>3. CASE ~ (InTable(req) /\ req.fc \in Reads)
    BY <2>1, <2>3, Codes DEF ReadInv, InTable, OutOfTable, Max, Quantity
  <2> QED
    BY <2>2, <2>3
<1>5. CASE Reply
  BY <1>5 DEF Reply, ReadInv
<1> QED
  BY <1>1, <1>2, <1>3, <1>4, <1>5 DEF Next, Handler

\* The invariants of writes and reads, always.
LEMMA ReadAlways == Spec => [](TypeInv /\ HeldFits /\ WriteInv /\ ReadInv)
<1>1. Init => ReadInv
  BY DEF Init, ReadInv
<1>2. Spec => []ReadInv
  <2>1. Spec => [](TypeInv /\ HeldFits)
    BY WriteAlways, PTL
  <2> QED
    BY <1>1, <2>1, ReadStep, PTL DEF Spec
<1> QED
  BY <1>2, WriteAlways, PTL

(* What a read brings the panel is true: each coil has a value it had       *)
(* during the command, and of a register that changed meanwhile each byte   *)
(* is of contents it had.                                                   *)
THEOREM ReadsAreTrue == Spec => []ReadsTrue
<1>1. TypeInv /\ HeldFits /\ WriteInv /\ ReadInv => ReadsTrue
  <2> SUFFICES ASSUME TypeInv, HeldFits, WriteInv, ReadInv, pc = "reply",
                      req.fc \in Reads, ~ Rejected
               PROVE  ReadsTrue
    BY DEF ReadsTrue
  <2>1. CommandFits(req) /\ req.fc \in 1 .. 16 /\ req.qty \in Nat
    BY Codes, Zenon DEF TypeInv, Place, CommandFits
  <2>2. InTable(req)
    <3>1. CASE ~ InTable(req)
      <4>1. Refused
        BY <3>1 DEF WriteInv
      <4> QED
        BY <2>1, <4>1 DEF Refused, Rejected
    <3> QED
      BY <3>1
  <2>3. CASE req.fc = ReadCoils
    <3> DEFINE P == Packed(req.qty)
    <3>1. P \in Nat /\ P * Bits \in Nat /\ req.qty <= P * Bits
      BY <2>1, PackedFits
    <3>2. CoilsShown /\ i = P * Bits
      BY <2>2, <2>3 DEF ReadInv, TypeInv, Place, InReadCoils
    <3>3. i \div Bits = P
      <4>1. Bits \in Nat \ {0} /\ i = Bits * P + 0
        BY <3>1, <3>2, WidthAssumption
      <4>2. (Bits * P + 0) \div Bits = P
        BY <3>1, <4>1, DivisionUnique
      <4> QED
        BY <4>1, <4>2
    <3>4. /\ Len(tx) = 2 + P /\ tx[2] = P
          /\ \A k \in 0 .. P * Bits - 1 : Showed(ReplyBit(k), k, req.qty, held)
      BY <3>2, <3>3 DEF CoilsShown
    <3> HIDE DEF P
    <3>5. ASSUME NEW k \in 0 .. req.qty - 1
          PROVE  \E b \in DOMAIN held[k] : ReplyBit(k) = held[k][b]
      <4>1. k \in 0 .. P * Bits - 1 /\ k < req.qty
        BY <2>1, <3>1
      <4> QED
        BY <3>4, <4>1 DEF Showed
    <3>6. ASSUME NEW k \in req.qty .. tx[2] * Bits - 1
          PROVE  ReplyBit(k) = 0
      <4>1. k \in 0 .. P * Bits - 1 /\ ~ (k < req.qty)
        BY <2>1, <3>1, <3>4
      <4> QED
        BY <3>4, <4>1 DEF Showed
    <3> QED
      BY <2>3, <3>4, <3>5, <3>6 DEF ReadsTrue
  <2>4. CASE req.fc = ReadHoldings
    <3>1. WordsShown /\ i = req.qty
      BY <2>2, <2>4, Codes DEF ReadInv, TypeInv, Place, InReadHoldings
    <3>2. /\ Len(tx) = 2 + 2 * req.qty /\ tx[2] = (req.qty * 2) % ByteMod
          /\ \A k \in 0 .. req.qty - 1 : FromContents(ReplyHigh(k), ReplyLow(k), held[k])
      BY <2>1, <3>1 DEF WordsShown
    <3>3. req.qty <= ByteMod - 1 /\ ByteMod \in Nat \ {0}
      BY <2>1, <2>2, <2>4, InRange, ByteWidth, Codes DEF Quantity
    <3>4. (req.qty * 2) % ByteMod
             = 2 * req.qty - (IF 2 * req.qty < ByteMod THEN 0 ELSE ByteMod)
      <4>1. CASE 2 * req.qty < ByteMod
        <5>1. 2 * req.qty \in 0 .. ByteMod - 1 /\ ByteMod * 0 + 2 * req.qty = req.qty * 2
          BY <2>1, <3>3, <4>1
        <5>2. (ByteMod * 0 + 2 * req.qty) % ByteMod = 2 * req.qty
          BY <3>3, <5>1, DivisionUnique
        <5> QED
          BY <2>1, <4>1, <5>1, <5>2
      <4>2. CASE ~ (2 * req.qty < ByteMod)
        <5> DEFINE r == 2 * req.qty - ByteMod
        <5>1. r \in 0 .. ByteMod - 1 /\ ByteMod * 1 + r = req.qty * 2
          BY <2>1, <3>3, <4>2
        <5> HIDE DEF r
        <5>2. (ByteMod * 1 + r) % ByteMod = r
          BY <3>3, <5>1, DivisionUnique
        <5> QED
          BY <4>2, <5>1, <5>2 DEF r
      <4> QED
        BY <4>1, <4>2
    <3>5. tx[2] = Len(tx) - 2 - (IF 2 * req.qty < ByteMod THEN 0 ELSE ByteMod)
      BY <2>1, <3>2, <3>3, <3>4
    <3> QED
      BY <2>4, <3>2, <3>5, Codes DEF ReadsTrue
  <2> QED
    BY <2>3, <2>4, Codes
<1> QED
  BY <1>1, ReadAlways, PTL

=============================================================================
