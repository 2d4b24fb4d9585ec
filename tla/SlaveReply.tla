----------------------------- MODULE SlaveReply -----------------------------
(***************************************************************************)
(* The command handlers of the HMI slave (mb_slave.c), with the frames     *)
(* they take apart and put together.  They run in the HMI task and work on *)
(* airsys_regs, while the read tasks store what they poll: one action is   *)
(* one access to the shared tables.  A register is read twice for a reply, *)
(* once for each of its bytes.  What the write tasks make of the flags is  *)
(* in ApTask.tla and AcTask.tla.                                           *)
(*                                                                         *)
(* Frames are sequences of bytes without slave id and CRC (Crc16.tla,      *)
(* SlaveHmi.tla).  The width of a byte and the sizes of the tables are     *)
(* parameters: a small byte keeps the tables small and every case alive.   *)
(***************************************************************************)
EXTENDS Naturals, Sequences, FiniteSets

CONSTANTS
    Bits,        \* the bits of a byte (8)
    CoilMax,     \* MODBUS_COIL_MAX
    HoldingMax,  \* MODBUS_HOLDING_MAX
    Word,        \* bound: contents of a register, as <<high byte, low byte>>
    Address,     \* bound: the addresses the panel asks for
    MaxQty,      \* bound: the quantities it asks for
    MaxStores    \* bound: stores of the read tasks during a command

ByteMod == 2 ^ Bits

ASSUME WidthAssumption ==
    /\ Bits \in Nat \ {0, 1}    \* a byte holds the exception codes 1 and 2
    /\ CoilMax \in 1 .. ByteMod - 1 /\ HoldingMax \in 1 .. ByteMod - 1
    /\ Word \subseteq (0 .. ByteMod - 1) \X (0 .. ByteMod - 1)
ASSUME BoundAssumption ==
    MaxStores \in Nat /\ MaxQty \in Nat /\ Address \subseteq 0 .. ByteMod * ByteMod - 1

ReadCoils == 1
ReadHoldings == 3
WriteCoil == 5
WriteHolding == 6
WriteCoils == 15
WriteHoldings == 16
Unknown == 2          \* stands for every other function code
OfCoils == {ReadCoils, WriteCoil, WriteCoils}
Reads == {ReadCoils, ReadHoldings}
Single == {WriteCoil, WriteHolding}
FunctionCode == OfCoils \cup {ReadHoldings, WriteHolding, WriteHoldings, Unknown}

Coil == 0 .. CoilMax - 1
Holding == 0 .. HoldingMax - 1
Bit == 0 .. 1

\* What the panel asks for: want is what it wants written, register by register.
\* Its frames are well formed: a frame with a good CRC whose byte count, or length,
\* is too small for its quantity is not looked at by the code either (mb_slave.c:105
\* and 152) and would be carried out with what the buffer held before; it is no
\* part of this model.
Request ==
    {[fc |-> f, addr |-> a, qty |-> n, want |-> w] :
        f \in Reads \cup {Unknown}, a \in Address, n \in 0 .. MaxQty, w \in {<< >>}}
    \cup (UNION {{[fc |-> f, addr |-> a, qty |-> n, want |-> w] :
        f \in {WriteCoil, WriteCoils} \ (IF n = 1 THEN {} ELSE Single),
        a \in Address, w \in [0 .. n - 1 -> Bit]} : n \in 0 .. MaxQty})
    \cup (UNION {{[fc |-> f, addr |-> a, qty |-> n, want |-> w] :
        f \in {WriteHolding, WriteHoldings} \ (IF n = 1 THEN {} ELSE Single),
        a \in Address, w \in [0 .. n - 1 -> Word]} : n \in 0 .. MaxQty})

\* The bytes n bits take.
Packed(n) == IF n % Bits = 0 THEN n \div Bits ELSE n \div Bits + 1

\* The data bytes of a frame that writes several coils: bit i is bit i % 8 of
\* byte i / 8.
PanelByte(r, k) ==
    CHOOSE byte \in 0 .. ByteMod - 1 : \A j \in 0 .. Bits - 1 :
        (byte \div 2 ^ j) % 2 =
            IF k * Bits + j < r.qty THEN r.want[k * Bits + j] ELSE 0
PanelBytes(r) == [k \in 0 .. Packed(r.qty) - 1 |-> PanelByte(r, k)]

VARIABLES
    coils, holdings,           \* airsys_regs
    pc, req, i,                \* the handler, its command and its index
    data,                      \* the byte being packed
    tx,                        \* tx_buf
    flagged,                   \* the entries whose flag this command has raised
    woken,                     \* it has given both write_sem
    stores,                    \* stores of the read tasks during this command
    held,                      \* history: the contents each entry of the commanded
                               \* range has had during this command, oldest first
    touched                    \* history: the entries the handler has written

tables == <<coils, holdings>>
effects == <<flagged, woken>>
vars == <<tables, effects, pc, req, i, data, tx, stores, held, touched>>

Max(r) == IF r.fc \in OfCoils THEN CoilMax ELSE HoldingMax
Entry(r, k) == IF r.fc \in OfCoils THEN coils[r.addr + k] ELSE holdings[r.addr + k]
Quantity(r) == IF r.fc \in Single THEN 1 ELSE r.qty
Rejected == Len(tx) > 0 /\ tx[1] > 128

AddressBytes(r) == <<r.addr \div ByteMod, r.addr % ByteMod>>
QtyBytes(r) == <<r.qty \div ByteMod, r.qty % ByteMod>>

NoRequest == [fc |-> Unknown, addr |-> 0, qty |-> 0, want |-> << >>]

Init ==
    /\ coils = [c \in Coil |-> 0]
    /\ holdings \in {[h \in Holding |-> w] : w \in Word}
    /\ flagged = {} /\ woken = FALSE
    /\ pc = "idle" /\ req = NoRequest /\ i = 0 /\ data = 0 /\ tx = << >>
    /\ stores = 0 /\ held = << >> /\ touched = {}

-----------------------------------------------------------------------------
(* Faulty variants of definitions below, no part of Spec: each one breaks   *)
(* the property PROJECT.json names with it.                                 *)

\* A range that ends with the table is refused.
OutOfTableAtEnd(r) == r.addr + Quantity(r) >= Max(r)

\* The bits enter the byte from the other end.
ShiftInLeft(byte, bit) == (2 * byte + bit) % ByteMod

\* The bits enter one place too high.
ShiftInTooHigh(byte, bit) == byte \div 2 + bit * 2 ^ Bits

-----------------------------------------------------------------------------
(* A command arrives and is refused or begun. *)

OutOfTable(r) == r.addr + Quantity(r) > Max(r)

\* What is put in the reply before the tables are touched.
Heading(r) ==
    CASE r.fc = ReadCoils    -> <<r.fc, Packed(r.qty)>>
      [] r.fc = ReadHoldings -> <<r.fc, (r.qty * 2) % ByteMod>>
      [] r.fc = WriteCoil    -> <<r.fc>> \o AddressBytes(r)
      [] r.fc = WriteCoils   -> <<r.fc>>
      [] OTHER               -> << >>

Receive(r) ==
    /\ pc = "idle"
    /\ req' = r /\ i' = 0 /\ data' = 0 /\ stores' = 0 /\ touched' = {}
    /\ IF r.fc = Unknown
         THEN tx' = <<128 + r.fc, 1>> /\ pc' = "reply" /\ held' = << >>
         ELSE IF OutOfTable(r)
           THEN /\ tx' = <<128 + r.fc, 2>>
                /\ pc' = IF r.fc \in Reads THEN "reply" ELSE "give"
                /\ held' = << >>
           ELSE /\ tx' = Heading(r)
                /\ pc' = "loop"
                /\ held' = [k \in 0 .. Quantity(r) - 1 |-> <<Entry(r, k)>>]
    /\ UNCHANGED <<tables, effects>>

-----------------------------------------------------------------------------
(* The read handlers. *)

ShiftIn(byte, bit) == byte \div 2 + bit * 2 ^ (Bits - 1)

\* Coils are shifted into a byte from the top, the last byte filled up with 0.
PackCoil ==
    /\ pc = "loop" /\ req.fc = ReadCoils
    /\ i < Packed(req.qty) * Bits
    /\ LET bit == IF i < req.qty THEN coils[req.addr + i] ELSE 0
           byte == ShiftIn(IF i % Bits = 0 THEN 0 ELSE data, bit)
       IN  /\ data' = byte
           /\ tx' = IF (i + 1) % Bits = 0 THEN Append(tx, byte) ELSE tx
    /\ i' = i + 1
    /\ UNCHANGED <<tables, effects, pc, req, stores, held, touched>>

\* A register is read for its high byte, and again for its low byte.
ReadWord ==
    /\ req.fc = ReadHoldings
    /\ i < req.qty
    /\ \/ /\ pc = "loop"
          /\ tx' = Append(tx, holdings[req.addr + i][1])
          /\ pc' = "low"
          /\ UNCHANGED i
       \/ /\ pc = "low"
          /\ tx' = Append(tx, holdings[req.addr + i][2])
          /\ pc' = "loop"
          /\ i' = i + 1
    /\ UNCHANGED <<tables, effects, req, data, stores, held, touched>>

ReadEnds ==
    /\ pc = "loop" /\ req.fc \in Reads
    /\ i = IF req.fc = ReadCoils THEN Packed(req.qty) * Bits ELSE req.qty
    /\ pc' = "reply"
    /\ UNCHANGED <<tables, effects, req, i, data, tx, stores, held, touched>>

-----------------------------------------------------------------------------
(* The write handlers. *)

CommandedBit(r, k) == (PanelBytes(r)[k \div Bits] \div 2 ^ (k % Bits)) % 2

StoreCoil ==
    /\ pc = "loop" /\ req.fc \in {WriteCoil, WriteCoils}
    /\ i < Quantity(req)
    /\ LET bit == IF req.fc = WriteCoil THEN req.want[0] ELSE CommandedBit(req, i)
       IN  /\ coils' = [coils EXCEPT ![req.addr + i] = bit]
           /\ tx' = IF req.fc = WriteCoil
                      THEN tx \o <<bit * (ByteMod - 1), 0>> ELSE tx
           /\ held' = [held EXCEPT ![i] = Append(@, bit)]
    /\ touched' = touched \cup {req.addr + i}
    /\ pc' = "flag"
    /\ UNCHANGED <<holdings, effects, req, i, data, stores>>

StoreHolding ==
    /\ pc = "loop" /\ req.fc \in {WriteHolding, WriteHoldings}
    /\ i < Quantity(req)
    /\ holdings' = [holdings EXCEPT ![req.addr + i] = req.want[i]]
    /\ held' = [held EXCEPT ![i] = Append(@, req.want[i])]
    /\ touched' = touched \cup {req.addr + i}
    /\ IF req.fc = WriteHolding
         THEN tx' = <<req.fc>> \o AddressBytes(req) /\ pc' = "echoHigh"
         ELSE UNCHANGED tx /\ pc' = "flag"
    /\ UNCHANGED <<coils, effects, req, i, data, stores>>

\* The echo of a single register is read back from the table.
Echo ==
    /\ \/ /\ pc = "echoHigh"
          /\ tx' = Append(tx, holdings[req.addr][1])
          /\ pc' = "echoLow"
       \/ /\ pc = "echoLow"
          /\ tx' = Append(tx, holdings[req.addr][2])
          /\ pc' = "flag"
    /\ UNCHANGED <<tables, effects, req, i, data, stores, held, touched>>

Flag ==
    /\ pc = "flag"
    /\ flagged' = flagged \cup {req.addr + i}
    /\ i' = i + 1
    /\ pc' = "loop"
    /\ UNCHANGED <<tables, woken, req, data, tx, stores, held, touched>>

WriteEnds ==
    /\ pc = "loop" /\ req.fc \notin Reads
    /\ i = Quantity(req)
    /\ tx' = CASE req.fc = WriteCoils    -> tx \o AddressBytes(req) \o QtyBytes(req)
               [] req.fc = WriteHoldings -> <<req.fc>> \o AddressBytes(req) \o QtyBytes(req)
               [] OTHER                  -> tx
    /\ pc' = "give"
    /\ UNCHANGED <<tables, effects, req, i, data, stores, held, touched>>

\* Both write tasks are woken, whatever was written.
Give ==
    /\ pc = "give"
    /\ woken' = TRUE
    /\ pc' = "reply"
    /\ UNCHANGED <<tables, flagged, req, i, data, tx, stores, held, touched>>

\* The reply is sent.
Reply ==
    /\ pc = "reply"
    /\ pc' = "idle"
    /\ req' = NoRequest /\ i' = 0 /\ data' = 0 /\ tx' = << >>
    /\ flagged' = {} /\ woken' = FALSE
    /\ held' = << >> /\ touched' = {} /\ stores' = 0
    /\ UNCHANGED tables

-----------------------------------------------------------------------------
(* The read tasks, at any time. *)

\* The history of an entry of the commanded range.
Noted(ofCoils, x, v) ==
    held' = IF req.fc \in OfCoils <=> ofCoils
              THEN [k \in DOMAIN held |->
                      IF req.addr + k = x THEN Append(held[k], v) ELSE held[k]]
              ELSE held

PollStores ==
    /\ pc # "idle" /\ stores < MaxStores
    /\ stores' = stores + 1
    /\ \/ \E c \in Coil, v \in Bit :
            /\ coils' = [coils EXCEPT ![c] = v]
            /\ Noted(TRUE, c, v)
            /\ UNCHANGED holdings
       \/ \E h \in Holding, v \in Word :
            /\ holdings' = [holdings EXCEPT ![h] = v]
            /\ Noted(FALSE, h, v)
            /\ UNCHANGED coils
    /\ UNCHANGED <<effects, pc, req, i, data, tx, touched>>

-----------------------------------------------------------------------------
Handler == PackCoil \/ ReadWord \/ ReadEnds \/ StoreCoil \/ StoreHolding \/ Echo
           \/ Flag \/ WriteEnds \/ Give \/ Reply

Next == (\E r \in Request : Receive(r)) \/ Handler \/ PollStores

Spec == Init /\ [][Next]_vars

-----------------------------------------------------------------------------
(* Every variable keeps its type, and a command that is carried out lies    *)
(* within its table, also when it ends with the table's last entry or       *)
(* starts near the largest address a frame can hold.                        *)
TypeOK ==
    /\ coils \in [Coil -> Bit] /\ holdings \in [Holding -> Word]
    /\ woken \in BOOLEAN
    /\ pc \in {"idle", "loop", "low", "flag", "echoHigh", "echoLow", "give", "reply"}
    /\ data \in 0 .. ByteMod - 1
    /\ \A k \in 2 .. Len(tx) : tx[k] \in 0 .. ByteMod - 1
    /\ flagged \subseteq touched
    /\ pc \in {"loop", "low", "flag", "echoHigh", "echoLow"} =>
          \A k \in 0 .. Quantity(req) - 1 :
              req.addr + k \in IF req.fc \in OfCoils THEN Coil ELSE Holding

\* A coil of a reply, taken out as mb_master.c does, and the two bytes of a register.
ReplyBit(k) == (tx[3 + k \div Bits] \div 2 ^ (k % Bits)) % 2
ReplyHigh(k) == tx[3 + 2 * k]
ReplyLow(k) == tx[4 + 2 * k]

\* The bytes come from contents the entry had in this order during the command.
FromContents(high, low, contents) ==
    \E a, b \in DOMAIN contents :
        a <= b /\ high = contents[a][1] /\ low = contents[b][2]

(* What a read brings the panel is true: each coil has a value the entry    *)
(* had during the command, the bits beyond are 0; a register nobody stored  *)
(* into meanwhile is exact, and of one that changed each byte is of         *)
(* contents it had, the low one not older than the high one.  The byte      *)
(* count is right, but for 2^8 or more bytes of registers it is 2^8 short.  *)
ReadsTrue ==
    pc = "reply" /\ req.fc \in Reads /\ ~Rejected =>
        IF req.fc = ReadCoils
          THEN /\ Len(tx) = 2 + tx[2]
               /\ \A k \in 0 .. req.qty - 1 : \E b \in DOMAIN held[k] :
                      ReplyBit(k) = held[k][b]
               /\ \A k \in req.qty .. tx[2] * Bits - 1 : ReplyBit(k) = 0
          ELSE /\ Len(tx) = 2 + 2 * req.qty
               /\ tx[2] = Len(tx) - 2 - (IF 2 * req.qty < ByteMod THEN 0 ELSE ByteMod)
               /\ \A k \in 0 .. req.qty - 1 :
                      FromContents(ReplyHigh(k), ReplyLow(k), held[k])

(* A write does what the panel means and nothing else: an accepted command  *)
(* has put the wanted value in each entry of its range, raised its flag and *)
(* written no other entry, a refused one has written none, and both wake    *)
(* the write tasks; the answer names the range, and echoes a single value   *)
(* unless a task has overwritten it.                                        *)
WritesExact ==
    pc = "reply" /\ req.fc \notin Reads \cup {Unknown} =>
        /\ woken
        /\ flagged = touched
        /\ IF Rejected
             THEN touched = {} /\ req.addr + Quantity(req) > Max(req)
             ELSE /\ touched = {req.addr + k : k \in 0 .. Quantity(req) - 1}
                  /\ \A k \in 0 .. Quantity(req) - 1 :
                         \E b \in DOMAIN held[k] : b > 1 /\ held[k][b] = req.want[k]
                  /\ SubSeq(tx, 1, 3) = <<req.fc>> \o AddressBytes(req)
                  /\ req.fc \notin Single => SubSeq(tx, 4, 5) = QtyBytes(req)
                  /\ req.fc = WriteCoil => tx[4] = req.want[0] * (ByteMod - 1)
                  /\ req.fc = WriteHolding =>
                         \E first \in 2 .. Len(held[0]) :
                             /\ held[0][first] = req.want[0]
                             /\ FromContents(tx[4], tx[5],
                                             SubSeq(held[0], first, Len(held[0])))
=============================================================================
