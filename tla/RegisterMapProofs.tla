-------------------------- MODULE RegisterMapProofs --------------------------
(***************************************************************************)
(* Proofs about RegisterMap: for any commands of the panel, on any ranges, *)
(* any number of them and any number of polls that fail.                   *)
(***************************************************************************)
EXTENDS RegisterMap, TLAPS

-----------------------------------------------------------------------------
(* The inductive invariant.  TypeOK and the properties say what each entry  *)
(* may hold; inductive is only all of it together, with the entry each      *)
(* settable device register may have been commanded through.                *)
Domains ==
    /\ DOMAIN coils = 0 .. 254 /\ DOMAIN holdings = 0 .. 254
    /\ DOMAIN relays = Relay

\* What is polled into the coils, and from where.
CoilPolled == 1 .. 42 \cup 101 .. 131
CoilSource(a) ==
    IF a <= 39 THEN Ac("disc", a)
    ELSE IF a = 40 THEN Ac("coil", 1)
    ELSE IF a <= 42 THEN <<"link">> ELSE Ap("disc", a - 100)

CoilFits(a, c) ==
    \/ c = Commanded(Coil(a))
    \/ a \in CoilPolled /\ c.from = CoilSource(a) /\ c.cmd \in {Own, Coil(a)}

\* The same of the holding registers.
HoldingPolled == 1 .. 22 \cup 25 .. 27 \cup 101 .. 135
HoldingSource(a) ==
    IF a <= 20 THEN Ac("input", a)
    ELSE IF a = 21 THEN Ac("hold", 1)
    ELSE IF a <= 25 THEN Ac("hold", a + 14)
    ELSE IF a <= 27 THEN Ac("hold", a + 35)
    ELSE IF a <= 119 THEN Ap("input", a - 100) ELSE Ap("hold", a - 119)

\* The entry behind a device register that is mirrored in entry a.
Through(a) == IF a \in {26, 27} THEN Holding(28) ELSE Holding(a)

\* The commands the device register behind an entry may carry: those to the entry,
\* and to the setpoint also the strays of a crossing.
Carried(e, strays) == {Own, e} \cup (IF e = Holding(28) THEN strays ELSE {})

HoldingFits(a, c, strays) ==
    \/ c = Commanded(Holding(a))
    \/ /\ a \in HoldingPolled /\ c.from = HoldingSource(a)
       /\ c.cmd \in Carried(Through(a), strays)
    \/ /\ a = 28 /\ c.from \in {Ac("hold", 61), Ac("hold", 62)}
       /\ c.cmd \in Carried(Holding(28), strays)
    \/ a = 28 /\ \E e \in strays : c = Commanded(e)

EntriesFit ==
    /\ \A a \in 0 .. 254 : coils[a] = Zero \/ CoilFits(a, coils[a])
    /\ \A a \in 0 .. 254 : holdings[a] = Zero \/ HoldingFits(a, holdings[a], Strays)

\* Which entry commands which device register.
Routes ==
    {<<Coil(40), Ac("coil", 1)>>, <<Holding(21), Ac("hold", 1)>>,
     <<Holding(28), Ac("hold", 61)>>, <<Holding(28), Ac("hold", 62)>>}
        \cup {<<Holding(119 + a), Ap("hold", a)>> : a \in 1 .. 16}

DeviceFits ==
    /\ device = [x \in Settable |-> device[x]]
    /\ \A x \in Settable :
          \E r \in Routes : r[2] = x /\ device[x] \in Carried(r[1], Strays)

\* Between the stores of the poll of the setpoints and its copy, what it may copy
\* fits the setpoint: what it has stored, or what has crossed it.
Window ==
    /\ acTurn \in 1 .. 8
    /\ acTurn \in {7, 8} => \A a \in {26, 27} : HoldingFits(28, holdings[a], Strays)

MapInv == Domains /\ EntriesFit /\ DeviceFits /\ Window /\ RelayCommanded

-----------------------------------------------------------------------------
(* Lemmas about the operators. *)
LEMMA CopiedAt ==
    ASSUME NEW entries, NEW array
    PROVE  /\ DOMAIN Copied(entries, array) = DOMAIN array
           /\ \A a \in DOMAIN array :
                 Copied(entries, array)[a] =
                    IF a \in DOMAIN entries THEN entries[a] ELSE array[a]
BY DEF Copied

\* What contents that fit an entry hold.
LEMMA FitsHold ==
    ASSUME NEW a, NEW c
    PROVE  /\ c = Zero => c.from = <<"zero">> /\ c.cmd = Own
           /\ CoilFits(a, c) => /\ c.from \in {<<"hmi">>, CoilSource(a)}
                                /\ c.cmd \in {Own, Coil(a)}
           /\ HoldingFits(a, c, Strays)
                => /\ a # 28 => c.from \in {<<"hmi">>, HoldingSource(a)}
                   /\ c.cmd \in {Holding(a)} \cup Carried(Through(a), Strays)
<1>1. Zero.from = <<"zero">> /\ Zero.cmd = Own
  BY DEF Zero
<1>2. \A e : Commanded(e).from = <<"hmi">> /\ Commanded(e).cmd = e
  BY DEF Commanded
<1>3. Through(28) = Holding(28)
  BY DEF Through
<1>4. CoilFits(a, c) => c.from \in {<<"hmi">>, CoilSource(a)} /\ c.cmd \in {Own, Coil(a)}
  BY <1>2 DEF CoilFits
<1>5. ASSUME HoldingFits(a, c, Strays)
      PROVE  /\ a # 28 => c.from \in {<<"hmi">>, HoldingSource(a)}
             /\ c.cmd \in {Holding(a)} \cup Carried(Through(a), Strays)
  BY <1>2, <1>3, <1>5 DEF HoldingFits, Carried
<1> QED
  BY <1>1, <1>4, <1>5

\* What fits goes on fitting when a command strays.
LEMMA FitsMore ==
    ASSUME NEW s, NEW t, s \subseteq t
    PROVE  /\ \A e : Carried(e, s) \subseteq Carried(e, t)
           /\ \A a, c : HoldingFits(a, c, s) => HoldingFits(a, c, t)
<1>1. \A e : Carried(e, s) \subseteq Carried(e, t)
  BY DEF Carried
<1> QED
  BY <1>1 DEF HoldingFits

\* A register that cannot be set brings back no command.
LEMMA ReadsOwn ==
    ASSUME NEW x, x \notin Settable
    PROVE  ReadFrom(x).from = x /\ ReadFrom(x).cmd = Own
BY DEF ReadFrom

\* An entry fed by one command is read from its own register.
LEMMA ReadsCommand ==
    ASSUME DeviceFits, NEW x \in Settable, NEW entry,
           \A e : <<e, x>> \in Routes => e = entry
    PROVE  ReadFrom(x).from = x /\ ReadFrom(x).cmd \in Carried(entry, Strays)
<1>1. PICK r \in Routes : r[2] = x /\ device[x] \in Carried(r[1], Strays)
  BY DEF DeviceFits
<1>2. r = <<r[1], r[2]>>
  BY DEF Routes
<1> QED
  BY <1>1, <1>2 DEF ReadFrom

\* Registers nothing sets.
LEMMA NotSettable ==
    /\ \A a : Ac("disc", a) \notin Settable /\ Ac("input", a) \notin Settable
              /\ Ap("disc", a) \notin Settable /\ Ap("input", a) \notin Settable
    /\ Ac("hold", 36) \notin Settable /\ Ac("hold", 39) \notin Settable
BY DEF Settable, Ac, Ap

\* Where the commands of the panel lead, one entry to a register.
LEMMA RoutesAre ==
    /\ Ac("coil", 1) \in Settable /\ Ac("hold", 1) \in Settable
    /\ Ac("hold", 61) \in Settable /\ Ac("hold", 62) \in Settable
    /\ \A a \in 1 .. 16 : Ap("hold", a) \in Settable
    /\ \A e : <<e, Ac("coil", 1)>> \in Routes => e = Coil(40)
    /\ \A e : <<e, Ac("hold", 1)>> \in Routes => e = Holding(21)
    /\ \A e : <<e, Ac("hold", 61)>> \in Routes => e = Holding(28)
    /\ \A e : <<e, Ac("hold", 62)>> \in Routes => e = Holding(28)
    /\ \A a \in 1 .. 16 : \A e : <<e, Ap("hold", a)>> \in Routes => e = Holding(119 + a)
BY DEF Settable, Routes, Ac, Ap

\* What a poll stores fits the entry it stores it in.
LEMMA PollsFit ==
    ASSUME DeviceFits
    PROVE  /\ \A a \in 1 .. 39 : CoilFits(a, ReadFrom(Ac("disc", a)))
           /\ CoilFits(40, ReadFrom(Ac("coil", 1)))
           /\ CoilFits(41, Link) /\ CoilFits(42, Link)
           /\ \A a \in 101 .. 131 : CoilFits(a, ReadFrom(Ap("disc", a - 100)))
           /\ \A a \in 1 .. 20 : HoldingFits(a, ReadFrom(Ac("input", a)), Strays)
           /\ HoldingFits(21, ReadFrom(Ac("hold", 1)), Strays)
           /\ \A a \in {22, 25} : HoldingFits(a, ReadFrom(Ac("hold", a + 14)), Strays)
           /\ \A a \in {26, 27} : HoldingFits(a, ReadFrom(Ac("hold", a + 35)), Strays)
           /\ \A a \in {26, 27} : HoldingFits(28, ReadFrom(Ac("hold", a + 35)), Strays)
           /\ \A a \in 101 .. 119 : HoldingFits(a, ReadFrom(Ap("input", a - 100)), Strays)
           /\ \A a \in 120 .. 135 : HoldingFits(a, ReadFrom(Ap("hold", a - 119)), Strays)
<1>1. ASSUME NEW a \in 1 .. 39 PROVE CoilFits(a, ReadFrom(Ac("disc", a)))
  BY ReadsOwn, NotSettable DEF CoilFits, CoilPolled, CoilSource
<1>2. CoilFits(40, ReadFrom(Ac("coil", 1)))
  <2>1. Coil(40) # Holding(28)
    BY DEF Coil, Holding
  <2> QED
    BY <2>1, ReadsCommand, RoutesAre DEF CoilFits, CoilPolled, CoilSource, Carried
<1>3. CoilFits(41, Link) /\ CoilFits(42, Link)
  BY DEF CoilFits, CoilPolled, CoilSource, Link
<1>4. ASSUME NEW a \in 101 .. 131 PROVE CoilFits(a, ReadFrom(Ap("disc", a - 100)))
  BY ReadsOwn, NotSettable DEF CoilFits, CoilPolled, CoilSource
<1>5. ASSUME NEW a \in 1 .. 20 PROVE HoldingFits(a, ReadFrom(Ac("input", a)), Strays)
  BY ReadsOwn, NotSettable DEF HoldingFits, HoldingPolled, HoldingSource, Carried
<1>6. HoldingFits(21, ReadFrom(Ac("hold", 1)), Strays)
  BY ReadsCommand, RoutesAre DEF HoldingFits, HoldingPolled, HoldingSource, Through
<1>7. ASSUME NEW a \in {22, 25} PROVE HoldingFits(a, ReadFrom(Ac("hold", a + 14)), Strays)
  <2>1. Ac("hold", a + 14) \notin Settable
    BY NotSettable
  <2> QED
    BY <2>1, ReadsOwn DEF HoldingFits, HoldingPolled, HoldingSource, Carried
<1>8. ASSUME NEW a \in {26, 27}
      PROVE  /\ HoldingFits(a, ReadFrom(Ac("hold", a + 35)), Strays)
             /\ HoldingFits(28, ReadFrom(Ac("hold", a + 35)), Strays)
  <2>1. /\ ReadFrom(Ac("hold", a + 35)).from = Ac("hold", a + 35)
        /\ ReadFrom(Ac("hold", a + 35)).cmd \in Carried(Holding(28), Strays)
    <3>1. CASE a = 26
      BY <3>1, ReadsCommand, RoutesAre
    <3>2. CASE a = 27
      BY <3>2, ReadsCommand, RoutesAre
    <3> QED
      BY <3>1, <3>2
  <2> QED
    BY <2>1 DEF HoldingFits, HoldingPolled, HoldingSource, Through
<1>9. ASSUME NEW a \in 101 .. 119 PROVE HoldingFits(a, ReadFrom(Ap("input", a - 100)), Strays)
  BY ReadsOwn, NotSettable DEF HoldingFits, HoldingPolled, HoldingSource, Carried
<1>10. ASSUME NEW a \in 120 .. 135 PROVE HoldingFits(a, ReadFrom(Ap("hold", a - 119)), Strays)
  <2>1. a - 119 \in 1 .. 16 /\ 119 + (a - 119) = a
    OBVIOUS
  <2>2. /\ Ap("hold", a - 119) \in Settable
        /\ \A entry : <<entry, Ap("hold", a - 119)>> \in Routes => entry = Holding(119 + (a - 119))
    BY <2>1, RoutesAre
  <2>3. /\ ReadFrom(Ap("hold", a - 119)).from = Ap("hold", a - 119)
        /\ ReadFrom(Ap("hold", a - 119)).cmd \in Carried(Holding(a), Strays)
    BY <2>1, <2>2, ReadsCommand
  <2> QED
    BY <2>3 DEF HoldingFits, HoldingPolled, HoldingSource, Through
<1> QED
  BY <1>1, <1>2, <1>3, <1>4, <1>5, <1>6, <1>7, <1>8, <1>9, <1>10

-----------------------------------------------------------------------------
(* What a step stores. *)
CoilsKept(array) ==
    /\ DOMAIN array = 0 .. 254
    /\ \A a \in 0 .. 254 : array[a] = coils[a] \/ CoilFits(a, array[a])

HoldingsKept(array) ==
    /\ DOMAIN array = 0 .. 254
    /\ \A a \in 0 .. 254 : array[a] = holdings[a] \/ HoldingFits(a, array[a], Strays)

StoresFit == CoilsKept(coils') /\ HoldingsKept(holdings')

\* Entries that fit may be copied over.
LEMMA CoilsCopied ==
    ASSUME NEW entries, NEW array, CoilsKept(array),
           \A a \in DOMAIN entries : a \in 0 .. 254 => CoilFits(a, entries[a])
    PROVE  CoilsKept(Copied(entries, array))
<1> DEFINE copy == Copied(entries, array)
<1>1. DOMAIN copy = 0 .. 254
  BY CopiedAt DEF CoilsKept
<1>2. ASSUME NEW a \in 0 .. 254 PROVE copy[a] = coils[a] \/ CoilFits(a, copy[a])
  <2>1. copy[a] = IF a \in DOMAIN entries THEN entries[a] ELSE array[a]
    BY CopiedAt DEF CoilsKept
  <2>2. array[a] = coils[a] \/ CoilFits(a, array[a])
    BY ZenonT(40) DEF CoilsKept
  <2> HIDE DEF copy
  <2> QED
    BY <2>1, <2>2
<1> HIDE DEF copy
<1>3. CoilsKept(copy)
  BY <1>1, <1>2 DEF CoilsKept
<1> QED
  BY <1>3 DEF copy

\* Copying fitting entries keeps the table.
LEMMA HoldingsCopied ==
    ASSUME NEW entries, NEW array, HoldingsKept(array),
           \A a \in DOMAIN entries :
              a \in 0 .. 254 =>
                 HoldingFits(a, entries[a], Strays) \/ entries[a] = holdings[a]
    PROVE  HoldingsKept(Copied(entries, array))
<1> DEFINE copy == Copied(entries, array)
<1>1. DOMAIN copy = 0 .. 254
  BY CopiedAt DEF HoldingsKept
<1>2. ASSUME NEW a \in 0 .. 254 PROVE copy[a] = holdings[a] \/ HoldingFits(a, copy[a], Strays)
  <2>1. copy[a] = IF a \in DOMAIN entries THEN entries[a] ELSE array[a]
    BY CopiedAt DEF HoldingsKept
  <2>2. array[a] = holdings[a] \/ HoldingFits(a, array[a], Strays)
    BY ZenonT(40) DEF HoldingsKept
  <2> HIDE DEF copy
  <2> QED
    BY <2>1, <2>2
<1> HIDE DEF copy
<1>3. HoldingsKept(copy)
  BY <1>1, <1>2 DEF HoldingsKept
<1> QED
  BY <1>3 DEF copy

\* Copying the coils of the link flags keeps the table.
LEMMA LinksKept ==
    ASSUME DeviceFits, NEW array, CoilsKept(array)
    PROVE  CoilsKept(Copied(AcLink, array)) /\ CoilsKept(Copied(ApLink, array))
BY CoilsCopied, PollsFit DEF AcLink, ApLink

\* What Domains says of the two tables.
LEMMA Kept == Domains => CoilsKept(coils) /\ HoldingsKept(holdings)
BY DEF Domains, CoilsKept, HoldingsKept

\* The polls store what fits and touch no device.
LEMMA PollsStore ==
    ASSUME MapInv,
           \/ AcReadDiscs \/ AcReadInputs \/ AcReadPower \/ AcReadMode
           \/ AcReadDefrost \/ AcReadSetpoints \/ AcTestSetpoint \/ AcCopySetpoint
           \/ ApReadDiscs \/ ApReadInputs \/ ApReadSettings \/ PollFails
    PROVE  StoresFit /\ UNCHANGED <<device, relays, crossed>>
<1> USE DEF MapInv
<1>0. CoilsKept(coils) /\ HoldingsKept(holdings)
  BY Kept
<1>1. UNCHANGED <<device, relays, crossed>>
  BY DEF AcReadDiscs, AcReadInputs, AcReadPower, AcReadMode, AcReadDefrost,
         AcReadSetpoints, AcTestSetpoint, AcCopySetpoint, ApReadDiscs, ApReadInputs,
         ApReadSettings, PollFails, AcPoll, AcStep, ApPoll
<1>2. CoilsKept(Copied(AcLink, coils)) /\ CoilsKept(Copied(ApLink, coils))
  BY <1>0, LinksKept
<1>3. CASE AcReadDiscs
  <2> DEFINE read == [a \in 1 .. 39 |-> ReadFrom(Ac("disc", a))]
  <2>1. CoilsKept(Copied(read, coils))
    <3>1. \A a \in DOMAIN read : CoilFits(a, read[a])
      BY PollsFit
    <3> QED
      BY <1>0, <3>1, CoilsCopied
  <2>2. coils' = Copied(AcLink, Copied(read, coils)) /\ holdings' = holdings
    BY <1>3 DEF AcReadDiscs
  <2> QED
    BY <1>0, <1>1, <2>1, <2>2, LinksKept DEF StoresFit
<1>4. CASE AcReadInputs
  <2> DEFINE read == [a \in 1 .. 20 |-> ReadFrom(Ac("input", a))]
  <2>1. \A a \in DOMAIN read : HoldingFits(a, read[a], Strays)
    BY PollsFit
  <2>2. HoldingsKept(Copied(read, holdings))
    BY <1>0, <2>1, HoldingsCopied
  <2> QED
    BY <1>1, <1>2, <1>4, <2>2 DEF AcReadInputs, StoresFit
<1>5. CASE AcReadPower
  <2> DEFINE read == [a \in {40} |-> ReadFrom(Ac("coil", 1))]
  <2>1. \A a \in DOMAIN read : CoilFits(a, read[a])
    BY PollsFit
  <2>2. CoilsKept(Copied(AcLink, Copied(read, coils)))
    BY <1>0, <2>1, CoilsCopied, LinksKept
  <2> QED
    BY <1>0, <1>1, <1>2, <1>5, <2>2 DEF AcReadPower, StoresFit
<1>6. CASE AcReadMode
  <2> DEFINE read == [a \in {21} |-> ReadFrom(Ac("hold", 1))]
  <2>1. \A a \in DOMAIN read : HoldingFits(a, read[a], Strays)
    BY PollsFit
  <2>2. HoldingsKept(Copied(read, holdings))
    BY <1>0, <2>1, HoldingsCopied
  <2> QED
    BY <1>0, <1>1, <1>2, <1>6, <2>2 DEF AcReadMode, StoresFit
<1>7. CASE AcReadDefrost
  <2> DEFINE read == [a \in {22, 25} |-> ReadFrom(Ac("hold", a + 14))]
  <2>1. \A a \in DOMAIN read : HoldingFits(a, read[a], Strays)
    BY PollsFit
  <2>2. HoldingsKept(Copied(read, holdings))
    BY <1>0, <2>1, HoldingsCopied
  <2> QED
    BY <1>1, <1>2, <1>7, <2>2 DEF AcReadDefrost, StoresFit
<1>8. CASE AcReadSetpoints
  <2> DEFINE read == [a \in {26, 27} |-> ReadFrom(Ac("hold", a + 35))]
  <2>1. \A a \in DOMAIN read : HoldingFits(a, read[a], Strays)
    BY PollsFit
  <2>2. HoldingsKept(Copied(read, holdings))
    BY <1>0, <2>1, HoldingsCopied
  <2> QED
    BY <1>1, <1>2, <1>8, <2>2 DEF AcReadSetpoints, StoresFit
<1>13. CASE AcTestSetpoint
  BY <1>0, <1>1, <1>13 DEF AcTestSetpoint, StoresFit
<1>14. CASE AcCopySetpoint
  <2>1. PICK active \in {holdings[26], holdings[27], holdings[28]} :
            holdings' = Copied([a \in {28} |-> active], holdings)
    BY <1>14 DEF AcCopySetpoint
  <2>2. acTurn = 8 /\ coils' = coils
    BY <1>14 DEF AcCopySetpoint, AcStep
  <2>3. HoldingFits(28, active, Strays) \/ active = holdings[28]
    BY <2>2 DEF Window
  <2>4. HoldingsKept(Copied([a \in {28} |-> active], holdings))
    BY <1>0, <2>3, HoldingsCopied
  <2> QED
    BY <1>0, <1>1, <2>1, <2>2, <2>4 DEF StoresFit
<1>9. CASE ApReadDiscs
  <2> DEFINE read == [a \in 101 .. 131 |-> ReadFrom(Ap("disc", a - 100))]
  <2>1. \A a \in DOMAIN read : CoilFits(a, read[a])
    BY PollsFit
  <2>2. CoilsKept(Copied(read, coils))
    BY <1>0, <2>1, CoilsCopied
  <2>3. CoilsKept(Copied(ApLink, Copied(read, coils)))
    <3> HIDE DEF read
    <3> QED
      BY <2>2, LinksKept DEF MapInv
  <2> QED
    BY <1>0, <1>1, <1>9, <2>3 DEF ApReadDiscs, StoresFit
<1>10. CASE ApReadInputs
  <2> DEFINE read == [a \in 101 .. 119 |-> ReadFrom(Ap("input", a - 100))]
  <2>1. \A a \in DOMAIN read : HoldingFits(a, read[a], Strays)
    BY PollsFit
  <2>2. HoldingsKept(Copied(read, holdings))
    BY <1>0, <2>1, HoldingsCopied
  <2> QED
    BY <1>1, <1>2, <1>10, <2>2 DEF ApReadInputs, StoresFit
<1>11. CASE ApReadSettings
  <2> DEFINE unflagged == {120 + i : i \in {j \in 0 .. 15 : Holding(120 + j) \notin flags}}
  <2> DEFINE read == [a \in unflagged |-> ReadFrom(Ap("hold", a - 119))]
  <2>1. unflagged \subseteq 120 .. 135
    OBVIOUS
  <2>2. \A a \in DOMAIN read : HoldingFits(a, read[a], Strays)
    BY <2>1, PollsFit
  <2>3. HoldingsKept(Copied(read, holdings))
    BY <1>0, <2>2, HoldingsCopied
  <2> QED
    BY <1>1, <1>2, <1>11, <2>3 DEF ApReadSettings, StoresFit
<1>12. CASE PollFails
  BY <1>0, <1>1, <1>2, <1>12 DEF PollFails, StoresFit
<1> QED
  BY <1>3, <1>4, <1>5, <1>6, <1>7, <1>8, <1>9, <1>10, <1>11, <1>12,
     <1>13, <1>14

\* The entries that command a device register hold a command to themselves or none,
\* the setpoint a stray one at most.
LEMMA RoutesCarry ==
    ASSUME EntriesFit
    PROVE  \A r \in Routes :
              /\ r[2] \in Settable
              /\ (IF r[1][1] = "coil" THEN coils[r[1][2]] ELSE holdings[r[1][2]]).cmd
                    \in Carried(r[1], Strays)
<1>1. \A a \in {21, 28} \cup 120 .. 135 : holdings[a].cmd \in Carried(Holding(a), Strays)
  BY FitsHold DEF EntriesFit, Through, Carried
<1>2. coils[40].cmd \in Carried(Coil(40), Strays)
  BY FitsHold DEF EntriesFit, Carried
<1>3. \A a \in 1 .. 16 : 119 + a \in 120 .. 135
  OBVIOUS
<1>4. \A a : /\ Holding(a)[1] = "holding" /\ Holding(a)[2] = a
             /\ Coil(a)[1] = "coil" /\ Coil(a)[2] = a
  BY DEF Holding, Coil
<1> SUFFICES ASSUME NEW r \in Routes
             PROVE  /\ r[2] \in Settable
                    /\ (IF r[1][1] = "coil" THEN coils[r[1][2]] ELSE holdings[r[1][2]]).cmd
                          \in Carried(r[1], Strays)
  OBVIOUS
<1>5. CASE r = <<Coil(40), Ac("coil", 1)>>
  BY <1>2, <1>4, <1>5, RoutesAre
<1>6. CASE r = <<Holding(21), Ac("hold", 1)>>
  BY <1>1, <1>4, <1>6, RoutesAre
<1>7. CASE r \in {<<Holding(28), Ac("hold", 61)>>, <<Holding(28), Ac("hold", 62)>>}
  BY <1>1, <1>4, <1>7, RoutesAre
<1>8. ASSUME NEW a \in 1 .. 16, r = <<Holding(119 + a), Ap("hold", a)>>
      PROVE  /\ r[2] \in Settable
             /\ (IF r[1][1] = "coil" THEN coils[r[1][2]] ELSE holdings[r[1][2]]).cmd
                   \in Carried(r[1], Strays)
  BY <1>1, <1>3, <1>4, <1>8, RoutesAre
<1> QED
  BY <1>5, <1>6, <1>7, <1>8 DEF Routes

\* Forwarding a command sets registers of the device to what fits.
LEMMA Forwards ==
    ASSUME MapInv, NEW route, NEW link, Forward(route, link), link \in {AcLink, ApLink},
           \A e \in DOMAIN route : route[e] = Nowhere \/ <<e, route[e]>> \in Routes
    PROVE  StoresFit /\ DeviceFits' /\ UNCHANGED <<relays, crossed>>
<1> USE DEF MapInv
<1> DEFINE due == flags \cap DOMAIN route
           reached == {route[e] : e \in due} \ {Nowhere}
           Contents(e) == IF e[1] = "coil" THEN coils[e[2]] ELSE holdings[e[2]]
           Chosen(x) == CHOOSE e \in due : route[e] = x
           commanded == [x \in reached |-> Contents(Chosen(x)).cmd]
<1>1. /\ device' = Copied(commanded, device)
      /\ coils' = coils \/ coils' = Copied(link, coils)
      /\ UNCHANGED <<holdings, relays, crossed>>
  BY DEF Forward
<1>2. StoresFit
  BY <1>1, Kept, LinksKept DEF StoresFit
<1>3. ASSUME NEW x \in reached
      PROVE  \E r \in Routes : r[2] = x /\ commanded[x] \in Carried(r[1], Strays)
  <2>1. Chosen(x) \in due /\ route[Chosen(x)] = x
    BY <1>3
  <2> DEFINE r == <<Chosen(x), x>>
  <2>2. r \in Routes
    BY <1>3, <2>1
  <2>3. Contents(Chosen(x)).cmd \in Carried(Chosen(x), Strays)
    BY <2>2, RoutesCarry
  <2> QED
    BY <2>2, <2>3
<1>4. DeviceFits'
  <2>0. device' = [x \in Settable |-> device'[x]]
    BY <1>1 DEF DeviceFits, Copied
  <2>1. Strays' = Strays
    BY <1>1 DEF Strays
  <2>2. ASSUME NEW x \in Settable
        PROVE  \E r \in Routes : r[2] = x /\ device'[x] \in Carried(r[1], Strays)
    <3>1. device'[x] = IF x \in reached THEN commanded[x] ELSE device[x]
      BY <1>1, CopiedAt DEF DeviceFits
    <3>2. \E r \in Routes : r[2] = x /\ device[x] \in Carried(r[1], Strays)
      BY Zenon DEF DeviceFits
    <3> HIDE DEF commanded, reached
    <3> QED
      BY <1>3, <3>1, <3>2
  <2> QED
    BY <2>0, <2>1, <2>2 DEF DeviceFits
<1> QED
  BY <1>1, <1>2, <1>4

\* So do the write tasks.
LEMMA WritesStore ==
    ASSUME MapInv, AcWrite \/ ApWrite
    PROVE  StoresFit /\ DeviceFits' /\ UNCHANGED <<relays, crossed>>
<1>1. CASE AcWrite
  <2>1. PICK target \in {Ac("hold", 61), Ac("hold", 62), Nowhere} :
            Forward([e \in {Coil(40), Holding(21), Holding(28)} |->
                        CASE e = Coil(40)    -> Ac("coil", 1)
                          [] e = Holding(21) -> Ac("hold", 1)
                          [] e = Holding(28) -> target], AcLink)
    BY <1>1 DEF AcWrite
  <2> DEFINE route == [e \in {Coil(40), Holding(21), Holding(28)} |->
                          CASE e = Coil(40)    -> Ac("coil", 1)
                            [] e = Holding(21) -> Ac("hold", 1)
                            [] e = Holding(28) -> target]
  <2>2. /\ Coil(40) # Holding(21) /\ Coil(40) # Holding(28)
        /\ Holding(21) # Holding(28)
    BY DEF Coil, Holding
  <2>3. /\ route[Coil(40)] = Ac("coil", 1) /\ route[Holding(21)] = Ac("hold", 1)
        /\ route[Holding(28)] = target
        /\ DOMAIN route = {Coil(40), Holding(21), Holding(28)}
    BY <2>2
  <2>4. Forward(route, AcLink)
    BY <2>1
  <2> HIDE DEF route
  <2>5. \A e \in DOMAIN route : route[e] = Nowhere \/ <<e, route[e]>> \in Routes
    BY <2>3 DEF Routes
  <2> QED
    BY <2>4, <2>5, Forwards
<1>2. CASE ApWrite
  <2>1. ASSUME NEW e \in DOMAIN ApRoute
        PROVE  <<e, ApRoute[e]>> \in Routes
    <3>1. PICK i \in 0 .. 15 : e = Holding(120 + i)
      BY DEF ApRoute
    <3>2. i + 1 \in 1 .. 16 /\ 119 + (i + 1) = 120 + i /\ (120 + i) - 119 = i + 1
      OBVIOUS
    <3>3. ApRoute[e] = Ap("hold", i + 1)
      BY <3>1, <3>2 DEF ApRoute, Holding
    <3>4. <<Holding(119 + (i + 1)), Ap("hold", i + 1)>> \in Routes
      BY <3>2 DEF Routes
    <3> QED
      BY <3>1, <3>2, <3>3, <3>4
  <2> QED
    BY <1>2, <2>1, Forwards DEF ApWrite
<1> QED
  BY <1>1, <1>2

\* The commands of the panel store what fits.
LEMMA CommandsStore ==
    ASSUME MapInv, NEW first \in Nat, NEW qty \in Nat,
           HmiWriteCoils(first, qty) \/ HmiWriteHoldings(first, qty)
    PROVE  StoresFit /\ UNCHANGED <<device, relays>> /\ (crossed => crossed')
<1> USE DEF MapInv
<1>1. CoilsKept(coils) /\ HoldingsKept(holdings)
  BY Kept
<1>2. CASE HmiWriteCoils(first, qty)
  <2> DEFINE range == IF first + qty > CoilMax THEN {} ELSE first .. first + qty - 1
             written == [a \in range |-> Commanded(Coil(a))]
  <2>1. \A a \in DOMAIN written : CoilFits(a, written[a])
    BY DEF CoilFits
  <2>2. coils' = Copied(written, coils) /\ UNCHANGED <<holdings, device, relays, crossed>>
    BY <1>2 DEF HmiWriteCoils
  <2> HIDE DEF written
  <2> QED
    BY <1>1, <2>1, <2>2, CoilsCopied DEF StoresFit
<1>3. CASE HmiWriteHoldings(first, qty)
  <2> DEFINE range == IF first + qty > HoldingMax THEN {} ELSE first .. first + qty - 1
             written == [a \in range |-> Commanded(Holding(a))]
  <2>1. \A a \in DOMAIN written : HoldingFits(a, written[a], Strays)
    BY DEF HoldingFits
  <2>2. /\ holdings' = Copied(written, holdings) /\ UNCHANGED <<coils, device, relays>>
        /\ crossed => crossed'
    BY <1>3 DEF HmiWriteHoldings
  <2> HIDE DEF written
  <2> QED
    BY <1>1, <2>1, <2>2, HoldingsCopied DEF StoresFit
<1> QED
  BY <1>2, <1>3

-----------------------------------------------------------------------------
(* The theorems. *)
LEMMA MapInit == Init => MapInv
<1> SUFFICES ASSUME Init PROVE MapInv
  OBVIOUS
<1>1. Domains
  BY DEF Init, Domains, CoilMax, HoldingMax
<1>2. EntriesFit
  BY DEF Init, EntriesFit, CoilMax, HoldingMax
<1>3. DeviceFits
  <2>1. ASSUME NEW x \in Settable PROVE \E r \in Routes : r[2] = x
    <3>1. CASE x \in {Ac("coil", 1), Ac("hold", 1), Ac("hold", 61), Ac("hold", 62)}
      <4>1. PICK e : <<e, x>> \in Routes
        BY <3>1 DEF Routes
      <4> QED
        BY <4>1
    <3>2. ASSUME NEW a \in 1 .. 16, x = Ap("hold", a) PROVE \E r \in Routes : r[2] = x
      <4>1. <<Holding(119 + a), x>> \in Routes
        BY <3>2 DEF Routes
      <4> QED
        BY <4>1
    <3> QED
      BY <3>1, <3>2 DEF Settable
  <2> QED
    BY <2>1 DEF Init, DeviceFits, Carried
<1>4. RelayCommanded /\ Window
  BY DEF Init, RelayCommanded, Window
<1> QED
  BY <1>1, <1>2, <1>3, <1>4 DEF MapInv

\* Every step stores what fits.
LEMMA StepsStore ==
    ASSUME MapInv, [Next]_vars
    PROVE  /\ StoresFit /\ DeviceFits' /\ (UNCHANGED relays \/ RelayTask)
           /\ Strays \subseteq Strays'
<1>1. CASE \/ AcReadDiscs \/ AcReadInputs \/ AcReadPower \/ AcReadMode
           \/ AcReadDefrost \/ AcReadSetpoints \/ AcTestSetpoint \/ AcCopySetpoint
           \/ ApReadDiscs \/ ApReadInputs \/ ApReadSettings \/ PollFails
  <2>1. StoresFit /\ UNCHANGED <<device, relays, crossed>>
    BY <1>1, PollsStore
  <2> QED
    BY <2>1 DEF MapInv, DeviceFits, Strays
<1>2. CASE AcWrite \/ ApWrite
  BY <1>2, WritesStore DEF Strays
<1>3. ASSUME NEW first \in Nat, NEW qty \in Nat,
             HmiWriteCoils(first, qty) \/ HmiWriteHoldings(first, qty)
      PROVE  StoresFit /\ DeviceFits' /\ UNCHANGED relays /\ Strays \subseteq Strays'
  <2>1. StoresFit /\ UNCHANGED <<device, relays>> /\ (crossed => crossed')
    BY <1>3, CommandsStore
  <2>2. Strays \subseteq Strays'
    BY <2>1 DEF Strays
  <2>3. \A e : Carried(e, Strays) \subseteq Carried(e, Strays')
    BY <2>2, FitsMore
  <2> QED
    BY <2>1, <2>2, <2>3 DEF MapInv, DeviceFits
<1>4. ASSUME NEW c \in CoilRanges, HmiWriteCoils(c[1], c[2])
      PROVE  StoresFit /\ DeviceFits' /\ UNCHANGED relays /\ Strays \subseteq Strays'
  <2>1. c[1] \in Nat /\ c[2] \in Nat
    BY RangeAssumption
  <2> QED
    BY <1>3, <1>4, <2>1
<1>5. ASSUME NEW h \in HoldingRanges, HmiWriteHoldings(h[1], h[2])
      PROVE  StoresFit /\ DeviceFits' /\ UNCHANGED relays /\ Strays \subseteq Strays'
  <2>1. h[1] \in Nat /\ h[2] \in Nat
    BY RangeAssumption
  <2> QED
    BY <1>3, <1>5, <2>1
<1>6. CASE RelayTask \/ UNCHANGED vars
  <2>1. /\ UNCHANGED <<coils, holdings, device, crossed>>
        /\ UNCHANGED relays \/ RelayTask
    BY <1>6 DEF RelayTask, vars
  <2>2. StoresFit
    BY <2>1, Kept DEF StoresFit, MapInv
  <2> QED
    BY <2>1, <2>2 DEF MapInv, DeviceFits, Strays
<1> QED
  BY <1>1, <1>2, <1>4, <1>5, <1>6 DEF Next, AcTasks, ApTasks

\* Within the poll of the setpoints only a command changes entries 26 and 27, and
\* it leaves its mark.
LEMMA WindowStep ==
    ASSUME MapInv, [Next]_vars
    PROVE  Window'
<1> USE DEF MapInv
<1>1. Strays \subseteq Strays'
  BY StepsStore
<1>2. ASSUME acTurn' = acTurn, UNCHANGED <<holdings[26], holdings[27]>>
      PROVE  Window'
  BY <1>1, <1>2, FitsMore DEF Window
<1>3. ASSUME acTurn' \in 1 .. 6 PROVE Window'
  BY <1>3 DEF Window
<1>4. ASSUME NEW turn \in 1 .. 6, AcPoll(turn) PROVE Window'
  BY <1>3, <1>4 DEF AcPoll, AcStep
<1>5. CASE AcReadDiscs \/ AcReadInputs \/ AcReadPower \/ AcReadMode \/ AcReadDefrost
  BY <1>4, <1>5 DEF AcReadDiscs, AcReadInputs, AcReadPower, AcReadMode, AcReadDefrost
<1>6. CASE AcReadSetpoints
  <2> DEFINE read == [a \in {26, 27} |-> ReadFrom(Ac("hold", a + 35))]
  <2>1. holdings' = Copied(read, holdings) /\ acTurn' = 7 /\ UNCHANGED crossed
    BY <1>6 DEF AcReadSetpoints, AcStep
  <2>2. \A a \in {26, 27} : holdings'[a] = ReadFrom(Ac("hold", a + 35))
    BY <2>1, CopiedAt DEF Domains
  <2>3. Strays' = Strays
    BY <2>1 DEF Strays
  <2> QED
    BY <2>1, <2>2, <2>3, PollsFit DEF Window
<1>7. CASE AcTestSetpoint
  <2>1. acTurn = 7 /\ acTurn' \in {1, 8} /\ UNCHANGED <<holdings, crossed>>
    BY <1>7 DEF AcTestSetpoint, AcStep
  <2>2. Strays' = Strays
    BY <2>1 DEF Strays
  <2> QED
    BY <2>1, <2>2 DEF Window
<1>8. CASE AcCopySetpoint
  BY <1>3, <1>8 DEF AcCopySetpoint, AcStep
<1>9. CASE ApReadDiscs \/ ApReadInputs \/ ApReadSettings
  <2>1. acTurn' = acTurn
    BY <1>9 DEF ApReadDiscs, ApReadInputs, ApReadSettings, ApPoll
  <2>2. UNCHANGED <<holdings[26], holdings[27]>>
    <3>1. \/ holdings' = holdings
          \/ \E entries : /\ holdings' = Copied(entries, holdings)
                         /\ DOMAIN entries \subseteq 101 .. 135
      BY <1>9 DEF ApReadDiscs, ApReadInputs, ApReadSettings
    <3> QED
      BY <3>1, CopiedAt DEF Domains
  <2> QED
    BY <1>2, <2>1, <2>2
<1>10. CASE PollFails
  <2>1. \/ acTurn \in 1 .. 6 /\ AcPoll(acTurn)
        \/ acTurn' = acTurn /\ holdings' = holdings
    BY <1>10 DEF PollFails, ApPoll, AcMutexFree, Window
  <2> QED
    BY <1>2, <1>4, <2>1
<1>11. CASE AcWrite \/ ApWrite
  BY <1>2, <1>11 DEF AcWrite, ApWrite, Forward
<1>12. ASSUME NEW c \in CoilRanges, HmiWriteCoils(c[1], c[2])
       PROVE  Window'
  BY <1>2, <1>12 DEF HmiWriteCoils
<1>13. ASSUME NEW h \in HoldingRanges, HmiWriteHoldings(h[1], h[2])
       PROVE  Window'
  <2> DEFINE range == IF h[1] + h[2] > HoldingMax THEN {} ELSE h[1] .. h[1] + h[2] - 1
  <2>1. /\ holdings' = Copied([a \in range |-> Commanded(Holding(a))], holdings)
        /\ acTurn' = acTurn
        /\ ~AcMutexFree /\ range \cap {26, 27} # {} => crossed'
    BY <1>13 DEF HmiWriteHoldings
  <2>5. acTurn \in {7, 8} => ~AcMutexFree
    BY DEF AcMutexFree
  <2> HIDE DEF range
  <2>2. \A a \in {26, 27} :
            holdings'[a] = IF a \in range THEN Commanded(Holding(a)) ELSE holdings[a]
    BY <2>1, CopiedAt DEF Domains
  <2> SUFFICES ASSUME acTurn \in {7, 8}, NEW a \in {26, 27}
               PROVE  HoldingFits(28, holdings'[a], Strays')
    BY <2>1 DEF Window
  <2>3. CASE a \in range
    BY <2>1, <2>2, <2>3, <2>5 DEF Strays, HoldingFits
  <2>4. CASE a \notin range
    BY <1>1, <2>2, <2>4, FitsMore DEF Window
  <2> QED
    BY <2>3, <2>4
<1>14. CASE RelayTask \/ UNCHANGED vars
  BY <1>2, <1>14 DEF RelayTask, vars
<1> QED
  BY <1>5, <1>6, <1>7, <1>8, <1>9, <1>10, <1>11, <1>12, <1>13, <1>14
  DEF Next, AcTasks, ApTasks

\* Every step keeps the map.
LEMMA MapStep == MapInv /\ [Next]_vars => MapInv'
<1> SUFFICES ASSUME MapInv, [Next]_vars PROVE MapInv'
  OBVIOUS
<1>1. /\ StoresFit /\ DeviceFits' /\ (UNCHANGED relays \/ RelayTask)
      /\ Strays \subseteq Strays'
  BY StepsStore, Zenon
<1>2. EntriesFit'
  <2>1. \A a \in 0 .. 254 : coils'[a] = coils[a] \/ CoilFits(a, coils'[a])
    BY <1>1 DEF StoresFit, CoilsKept
  <2>2. \A a \in 0 .. 254 :
            holdings'[a] = holdings[a] \/ HoldingFits(a, holdings'[a], Strays)
    BY <1>1 DEF StoresFit, HoldingsKept
  <2>3. \A a \in 0 .. 254 : coils'[a] = Zero \/ CoilFits(a, coils'[a])
    BY <2>1, ZenonT(30) DEF MapInv, EntriesFit
  <2>4. \A a \in 0 .. 254 : holdings'[a] = Zero \/ HoldingFits(a, holdings'[a], Strays)
    BY <2>2, ZenonT(30) DEF MapInv, EntriesFit
  <2>5. \A a \in 0 .. 254 : holdings'[a] = Zero \/ HoldingFits(a, holdings'[a], Strays')
    BY <1>1, <2>4, FitsMore
  <2> QED
    BY <2>3, <2>5, Zenon DEF EntriesFit, CoilFits, HoldingFits
<1>3. Domains' /\ RelayCommanded'
  <2>1. CASE UNCHANGED relays
    BY <1>1, <2>1 DEF StoresFit, CoilsKept, HoldingsKept, Domains, MapInv, RelayCommanded
  <2>2. CASE RelayTask
    <3>1. ASSUME NEW n \in Relay
          PROVE  coils[200 + n] \in {Zero, Commanded(Coil(200 + n))}
      <4>1. 200 + n \in 0 .. 254 /\ 200 + n \notin CoilPolled
        BY DEF Relay, CoilPolled
      <4> QED
        BY <4>1, ZenonT(30) DEF MapInv, EntriesFit, CoilFits
    <3> QED
      BY <1>1, <2>2, <3>1
         DEF RelayTask, StoresFit, CoilsKept, HoldingsKept, Domains, RelayCommanded
  <2> QED
    BY <1>1, <2>1, <2>2
<1> QED
  BY <1>1, <1>2, <1>3, WindowStep DEF MapInv

(* What the HMI commands through an entry never shows up in another one,    *)
(* whatever it commands, on whatever range: of every register the routes of *)
(* the write tasks and the polls name the same entry.  The setpoint (28)    *)
(* comes back in 26 and 27, and what is commanded to those two gets into    *)
(* the setpoint only by crossing the poll that copies it                    *)
(* (mb_ac_task.c:79-89).                                                    *)
THEOREM CommandsComeBack == Spec => []CommandComesBack
<1>1. MapInv => CommandComesBack
  <2> SUFFICES ASSUME MapInv PROVE CommandComesBack
    OBVIOUS
  <2>1. \A a \in DOMAIN coils : coils[a].cmd \in {Own, Coil(a)}
    BY FitsHold, ZenonT(30) DEF MapInv, Domains, EntriesFit
  <2>2. \A a \in DOMAIN holdings :
           holdings[a].cmd \in {Own, Holding(a)}
              \cup (IF a \in 26 .. 28 THEN {Holding(28)} \cup Strays ELSE {})
    <3>1. ASSUME NEW a \in DOMAIN holdings
          PROVE  holdings[a].cmd \in {Own, Holding(a)} \cup Carried(Through(a), Strays)
      BY FitsHold, ZenonT(30) DEF MapInv, Domains, EntriesFit
    <3>2. ASSUME NEW a \in DOMAIN holdings, a \notin 26 .. 28
          PROVE  Carried(Through(a), Strays) = {Own, Holding(a)}
      BY <3>2 DEF Through, Carried, Holding, MapInv, Domains
    <3>3. ASSUME NEW a \in 26 .. 28
          PROVE  Carried(Through(a), Strays) = {Own, Holding(28)} \cup Strays
      BY DEF Through, Carried
    <3> QED
      BY <3>1, <3>2, <3>3
  <2> QED
    BY <2>1, <2>2 DEF CommandComesBack
<1> QED
  BY <1>1, MapInit, MapStep, PTL DEF Spec

(* A relay only ever follows commands to its own coil: no poll and no link  *)
(* status is stored into the coils of the relays.                           *)
THEOREM RelaysFollowCommands == Spec => []RelayCommanded
<1>1. MapInv => RelayCommanded
  BY DEF MapInv
<1> QED
  BY <1>1, MapInit, MapStep, PTL DEF Spec

(* The status tables, the power switch and the mode are where the address   *)
(* tables say, in every state.                                              *)
THEOREM StatusAsDocumented == Spec => []DocumentedStatus
<1>1. MapInv => DocumentedStatus
  <2> SUFFICES ASSUME MapInv PROVE DocumentedStatus
    OBVIOUS
  <2>1. /\ \A a \in 0 .. 254 : /\ coils[a].from \in {<<"zero">>, <<"hmi">>, CoilSource(a)}
                               /\ a # 28 => holdings[a].from \in
                                              {<<"zero">>, <<"hmi">>, HoldingSource(a)}
    BY FitsHold, ZenonT(30) DEF MapInv, EntriesFit
  <2>2. /\ \A a \in 1 .. 39 : Agrees(coils[a], Ac("disc", a))
        /\ Agrees(coils[40], Ac("coil", 1))
        /\ \A a \in 1 .. 31 : Agrees(coils[100 + a], Ap("disc", a))
    <3>1. \A a \in 1 .. 31 : 100 + a \in 0 .. 254 /\ (100 + a) - 100 = a
      OBVIOUS
    <3>2. \A a \in 1 .. 31 : CoilSource(100 + a) = Ap("disc", a)
      BY <3>1 DEF CoilSource
    <3>3. /\ \A a \in 1 .. 39 : a \in 0 .. 254 /\ CoilSource(a) = Ac("disc", a)
          /\ 40 \in 0 .. 254 /\ CoilSource(40) = Ac("coil", 1)
      BY DEF CoilSource
    <3> HIDE DEF CoilSource
    <3> QED
      BY <2>1, <3>1, <3>2, <3>3, ZenonT(30) DEF Agrees
  <2>3. /\ \A a \in 1 .. 20 : Agrees(holdings[a], Ac("input", a))
        /\ Agrees(holdings[21], Ac("hold", 1))
        /\ \A a \in 1 .. 19 : Agrees(holdings[100 + a], Ap("input", a))
    <3>1. \A a \in 1 .. 19 : 100 + a \in 0 .. 254 /\ (100 + a) - 100 = a
      OBVIOUS
    <3>2. \A a \in 1 .. 19 : HoldingSource(100 + a) = Ap("input", a) /\ 100 + a # 28
      BY <3>1 DEF HoldingSource
    <3>3. /\ \A a \in 1 .. 20 : a \in 0 .. 254 /\ a # 28 /\ HoldingSource(a) = Ac("input", a)
          /\ 21 \in 0 .. 254 /\ 21 # 28 /\ HoldingSource(21) = Ac("hold", 1)
      BY DEF HoldingSource
    <3> QED
      BY <2>1, <3>1, <3>2, <3>3, ZenonT(30) DEF Agrees
  <2> QED
    BY <2>2, <2>3, Zenon DEF DocumentedStatus
<1> QED
  BY <1>1, MapInit, MapStep, PTL DEF Spec

(* An entry that mirrors a device register never comes to mirror another    *)
(* one or a link status.                                                    *)
THEOREM SourcesAreForever == Spec => OneSource
<1>1. MapInv /\ [Next]_vars =>
         [/\ \A a \in DOMAIN coils : Settles(coils[a], coils'[a])
          /\ \A a \in DOMAIN holdings \ {28} : Settles(holdings[a], holdings'[a])]_vars
  <2> SUFFICES ASSUME MapInv, [Next]_vars
               PROVE  /\ \A a \in DOMAIN coils : Settles(coils[a], coils'[a])
                      /\ \A a \in DOMAIN holdings \ {28} :
                            Settles(holdings[a], holdings'[a])
    OBVIOUS
  <2>1. StoresFit
    BY StepsStore
  <2>2. ASSUME NEW a \in 0 .. 254
        PROVE  Settles(coils[a], coils'[a])
    <3>1. coils[a].from \in {<<"zero">>, <<"hmi">>, CoilSource(a)}
      BY FitsHold, ZenonT(30) DEF MapInv, EntriesFit
    <3>2. coils'[a] = coils[a] \/ coils'[a].from \in {<<"hmi">>, CoilSource(a)}
      BY <2>1, FitsHold DEF StoresFit, CoilsKept
    <3> QED
      BY <3>1, <3>2 DEF Settles
  <2>3. ASSUME NEW a \in (0 .. 254) \ {28}
        PROVE  Settles(holdings[a], holdings'[a])
    <3>1. holdings[a].from \in {<<"zero">>, <<"hmi">>, HoldingSource(a)}
      BY FitsHold, ZenonT(30) DEF MapInv, EntriesFit
    <3>2. holdings'[a] = holdings[a] \/ holdings'[a].from \in {<<"hmi">>, HoldingSource(a)}
      BY <2>1, FitsHold DEF StoresFit, HoldingsKept
    <3> QED
      BY <3>1, <3>2 DEF Settles
  <2> QED
    BY <2>2, <2>3, Zenon DEF MapInv, Domains
<1> QED
  BY <1>1, MapInit, MapStep, PTL DEF Spec, OneSource

-----------------------------------------------------------------------------
(* Types.  What commanded a device register is an entry by the routes. *)
Counted ==
    /\ flags \subseteq EntryName
    /\ acTurn \in 1 .. 8 /\ apTurn \in 1 .. 3 /\ crossed \in BOOLEAN
    /\ commands \in 0 .. MaxCommands /\ failures \in 0 .. MaxFailures

\* Every step keeps the counters in range.
LEMMA CountedStep == Counted /\ [Next]_vars => Counted'
<1> SUFFICES ASSUME Counted, [Next]_vars PROVE Counted'
  OBVIOUS
<1> USE RangeAssumption DEF Counted
<1>1. ASSUME NEW turn \in 1 .. 6, AcPoll(turn), failures' \in {failures, failures + 1},
             failures' # failures => failures < MaxFailures
      PROVE  Counted'
  BY <1>1 DEF AcPoll, AcStep
<1>2. ASSUME NEW turn \in 1 .. 3, ApPoll(turn), failures' \in {failures, failures + 1},
             failures' # failures => failures < MaxFailures
      PROVE  Counted'
  BY <1>2 DEF ApPoll
<1>3. CASE AcReadDiscs \/ AcReadInputs \/ AcReadPower \/ AcReadMode \/ AcReadDefrost
  BY <1>1, <1>3 DEF AcReadDiscs, AcReadInputs, AcReadPower, AcReadMode, AcReadDefrost
<1>10. CASE AcReadSetpoints \/ AcTestSetpoint \/ AcCopySetpoint
  BY <1>10 DEF AcReadSetpoints, AcTestSetpoint, AcCopySetpoint, AcStep
<1>4. CASE ApReadDiscs \/ ApReadInputs \/ ApReadSettings
  BY <1>2, <1>4 DEF ApReadDiscs, ApReadInputs, ApReadSettings
<1>5. CASE PollFails
  BY <1>1, <1>2, <1>5 DEF PollFails, AcMutexFree
<1>6. CASE AcWrite \/ ApWrite
  <2>1. flags' \subseteq flags /\ UNCHANGED <<acTurn, apTurn, crossed, commands, failures>>
    BY <1>6, Zenon DEF AcWrite, ApWrite, Forward
  <2> QED
    BY <2>1, SMTT(20)
<1>7. ASSUME NEW c \in CoilRanges, HmiWriteCoils(c[1], c[2])
      PROVE  Counted'
  <2> DEFINE range == IF c[1] + c[2] > CoilMax THEN {} ELSE c[1] .. c[1] + c[2] - 1
  <2>1. c[1] \in Nat /\ c[2] \in Nat
    OBVIOUS
  <2>2. range \subseteq 0 .. CoilMax - 1
    BY <2>1 DEF CoilMax
  <2>3. flags' = flags \cup {Coil(a) : a \in range}
    BY <1>7 DEF HmiWriteCoils
  <2> HIDE DEF range
  <2>4. flags' \subseteq EntryName
    BY <2>2, <2>3 DEF EntryName
  <2> QED
    BY <1>7, <2>4 DEF HmiWriteCoils
<1>8. ASSUME NEW h \in HoldingRanges, HmiWriteHoldings(h[1], h[2])
      PROVE  Counted'
  <2> DEFINE range == IF h[1] + h[2] > HoldingMax THEN {} ELSE h[1] .. h[1] + h[2] - 1
  <2>1. h[1] \in Nat /\ h[2] \in Nat
    OBVIOUS
  <2>2. range \subseteq 0 .. HoldingMax - 1
    BY <2>1 DEF HoldingMax
  <2>3. flags' = flags \cup {Holding(a) : a \in range}
    BY <1>8 DEF HmiWriteHoldings
  <2> HIDE DEF range
  <2>4. flags' \subseteq EntryName
    BY <2>2, <2>3 DEF EntryName
  <2> QED
    BY <1>8, <2>4 DEF HmiWriteHoldings
<1>9. CASE RelayTask \/ UNCHANGED vars
  BY <1>9 DEF RelayTask, vars
<1> QED
  BY <1>3, <1>4, <1>5, <1>6, <1>7, <1>8, <1>9, <1>10 DEF Next, AcTasks, ApTasks

(* Flags, turns and counters stay in their ranges, and a device register is *)
(* only commanded through an entry of the tables.                           *)
THEOREM TypeCorrect == Spec => []TypeOK
<1>1. Init => Counted
  <2>1. Init => crossed \in BOOLEAN
    BY Zenon DEF Init
  <2>2. Init => acTurn \in 1 .. 8 /\ apTurn \in 1 .. 3 /\ flags \subseteq EntryName
    BY DEF Init
  <2>3. Init => commands \in 0 .. MaxCommands /\ failures \in 0 .. MaxFailures
    BY RangeAssumption DEF Init
  <2> QED
    BY <2>1, <2>2, <2>3, Zenon DEF Counted
<1>2. \A r \in Routes : r[1] \in EntryName
  <2>1. \A a \in {21, 28} \cup 120 .. 135 : Holding(a) \in EntryName
    BY DEF EntryName, HoldingMax
  <2>2. Coil(40) \in EntryName
    BY DEF EntryName, CoilMax
  <2>3. \A a \in 1 .. 16 : 119 + a \in 120 .. 135
    OBVIOUS
  <2> QED
    BY <2>1, <2>2, <2>3 DEF Routes
<1>3. MapInv /\ Counted => TypeOK
  <2> SUFFICES ASSUME MapInv, Counted PROVE TypeOK
    OBVIOUS
  <2>1. ASSUME NEW x \in Settable PROVE device[x] \in {Own} \cup EntryName
    <3>1. PICK r \in Routes : r[2] = x /\ device[x] \in Carried(r[1], Strays)
      BY DEF MapInv, DeviceFits
    <3>2. r[1] \in EntryName
      BY <1>2, <3>1
    <3>3. Holding(26) \in EntryName /\ Holding(27) \in EntryName
      BY DEF EntryName, HoldingMax
    <3> QED
      BY <3>1, <3>2, <3>3 DEF Carried, Strays
  <2>2. device = [x \in Settable |-> device[x]]
    BY DEF MapInv, DeviceFits
  <2> QED
    BY <2>1, <2>2 DEF Counted, TypeOK
<1> QED
  BY <1>1, <1>3, MapInit, MapStep, CountedStep, PTL DEF Spec
=============================================================================
