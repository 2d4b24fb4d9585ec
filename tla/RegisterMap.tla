---------------------------- MODULE RegisterMap ----------------------------
(***************************************************************************)
(* Which register is which.  The gateway keeps two arrays, airsys_regs.    *)
(* coils and airsys_regs.holdings, and all it does is copy between their   *)
(* entries and the registers of the air conditioner (AC), those of the air *)
(* purifier (AP), the commands of the panel (HMI) and the relay outputs.   *)
(* The model keeps no values: an entry holds where its contents come from, *)
(* so a wrong address, two polls that overlap, or a write that answers a   *)
(* poll one register off is visible in the state.                          *)
(*                                                                         *)
(* An action is one poll with all its copies, one scan of a write task,    *)
(* one HMI command or one turn of the relay task; what happens between     *)
(* their accesses is the subject of ApTask.tla and AcTask.tla.  The poll   *)
(* of the setpoints alone is split at its accesses: it copies one entry    *)
(* of the table into another, which the HMI may have written meanwhile.    *)
(***************************************************************************)
EXTENDS Naturals

CONSTANTS
    MaxCommands,   \* bound: write commands of the HMI
    MaxFailures,   \* bound: polls without a valid reply
    CoilRanges,    \* bound: <<first, quantity>> of the coil commands
    HoldingRanges  \* bound: the same for holding registers

ASSUME RangeAssumption ==
    /\ MaxCommands \in Nat /\ MaxFailures \in Nat
    /\ CoilRanges \subseteq Nat \X Nat
    /\ HoldingRanges \subseteq Nat \X Nat

CoilMax == 255      \* MODBUS_COIL_MAX
HoldingMax == 255   \* MODBUS_HOLDING_MAX
Coil(a) == <<"coil", a>>
Holding(a) == <<"holding", a>>

VARIABLES
    coils,     \* airsys_regs.coils: for each address, where its contents come from
    holdings,  \* airsys_regs.holdings: the same
    flags,     \* the entries whose coil_flags or holding_flags is up
    device,    \* for each settable device register, the entry it was commanded
               \* through, or Own
    relays,    \* the levels last asked of the relay outputs (no pin for 9; the
               \* pins of 3 and 4 are not configured as outputs)
    acTurn, apTurn,       \* which poll of its cycle each read task is at
    crossed,   \* history: the HMI wrote 26 or 27 within the poll of the setpoints
    commands, failures    \* counters behind the bounds

vars == <<coils, holdings, flags, device, relays, acTurn, apTurn, crossed,
          commands, failures>>

\* Device registers: a unit, a table of it, an address.
Ac(table, a) == <<"ac", table, a>>
Ap(table, a) == <<"ap", table, a>>
Own == << >>
Nowhere == << >>

Settable ==
    {Ac("coil", 1), Ac("hold", 1), Ac("hold", 61), Ac("hold", 62)}
        \cup {Ap("hold", a) : a \in 1 .. 16}

\* Contents: what they were read from, and the command they go back to.
Zero == [from |-> <<"zero">>, cmd |-> Own]
Link == [from |-> <<"link">>, cmd |-> Own]
Commanded(entry) == [from |-> <<"hmi">>, cmd |-> entry]
ReadFrom(x) == [from |-> x, cmd |-> IF x \in Settable THEN device[x] ELSE Own]

\* The array after some of its entries are copied over.
Copied(entries, array) ==
    [a \in DOMAIN array |-> IF a \in DOMAIN entries THEN entries[a] ELSE array[a]]

Relay == (1 .. 8) \cup (10 .. 12)

Init ==
    /\ coils = [a \in 0 .. CoilMax - 1 |-> Zero]
    /\ holdings = [a \in 0 .. HoldingMax - 1 |-> Zero]
    /\ flags = {}
    /\ device = [x \in Settable |-> Own]
    /\ relays = [n \in Relay |-> Zero]
    /\ acTurn = 1 /\ apTurn = 1
    /\ crossed = FALSE
    /\ commands = 0 /\ failures = 0

-----------------------------------------------------------------------------
(* The polls, in the order of the read tasks.  A transaction sets the link  *)
(* status of its unit, coil 41 or 42, whatever its result.                  *)

AcLink == [a \in {41} |-> Link]
ApLink == [a \in {42} |-> Link]

AcStep(turn, next) ==
    /\ acTurn = turn
    /\ acTurn' = next
    /\ UNCHANGED <<flags, device, relays, apTurn, crossed, commands>>

\* Turns 1 to 6 are the polls; 7 and 8 are within the sixth, uart_mutex taken.
AcPoll(turn) == AcStep(turn, (turn % 6) + 1)
AcMutexFree == acTurn <= 6

ApPoll(turn) ==
    /\ apTurn = turn
    /\ apTurn' = (turn % 3) + 1
    /\ UNCHANGED <<flags, device, relays, acTurn, crossed, commands>>

AcReadDiscs ==
    /\ AcPoll(1)
    /\ coils' = Copied(AcLink, Copied([a \in 1 .. 39 |-> ReadFrom(Ac("disc", a))], coils))
    /\ UNCHANGED <<holdings, failures>>

AcReadInputs ==
    /\ AcPoll(2)
    /\ coils' = Copied(AcLink, coils)
    /\ holdings' = Copied([a \in 1 .. 20 |-> ReadFrom(Ac("input", a))], holdings)
    /\ UNCHANGED failures

AcReadPower ==
    /\ AcPoll(3)
    /\ coils' = IF Coil(40) \in flags
                  THEN Copied(AcLink, coils)
                  ELSE Copied(AcLink,
                              Copied([a \in {40} |-> ReadFrom(Ac("coil", 1))], coils))
    /\ UNCHANGED <<holdings, failures>>

AcReadMode ==
    /\ AcPoll(4)
    /\ coils' = Copied(AcLink, coils)
    /\ holdings' = IF Holding(21) \in flags
                     THEN holdings
                     ELSE Copied([a \in {21} |-> ReadFrom(Ac("hold", 1))], holdings)
    /\ UNCHANGED failures

\* Four registers are read, the first and the last are kept.
AcReadDefrost ==
    /\ AcPoll(5)
    /\ coils' = Copied(AcLink, coils)
    /\ holdings' = Copied([a \in {22, 25} |-> ReadFrom(Ac("hold", a + 14))], holdings)
    /\ UNCHANGED failures

\* The last poll reaches entry 28 in three steps, as the HMI task may store between
\* them.  Of the two stores here no order is kept: a command between them has
\* the effect of one to entry 26 alone after both.
AcReadSetpoints ==
    /\ AcStep(6, 7)
    /\ coils' = Copied(AcLink, coils)
    /\ holdings' = Copied([a \in {26, 27} |-> ReadFrom(Ac("hold", a + 35))], holdings)
    /\ UNCHANGED failures

AcTestSetpoint ==
    /\ AcStep(7, IF Holding(28) \in flags THEN 1 ELSE 8)
    /\ UNCHANGED <<coils, holdings, failures>>

\* Entry 28 follows the setpoint of the mode: heating (1), cooling (2) or
\* neither, in which case it keeps what it has.  What is copied is the entry
\* of that setpoint, whatever it holds by now.
AcCopySetpoint ==
    /\ AcStep(8, 1)
    /\ \E active \in {holdings[26], holdings[27], holdings[28]} :
          holdings' = Copied([a \in {28} |-> active], holdings)
    /\ UNCHANGED <<coils, failures>>

\* Faulty: the table is stored one entry late; one register too many is stored.
ApReadDiscsLate ==
    /\ ApPoll(1)
    /\ coils' = Copied(ApLink,
                       Copied([a \in 102 .. 132 |-> ReadFrom(Ap("disc", a - 101))], coils))
    /\ UNCHANGED <<holdings, failures>>
ApReadInputsTooMany ==
    /\ ApPoll(2)
    /\ coils' = Copied(ApLink, coils)
    /\ holdings' = Copied([a \in 101 .. 120 |-> ReadFrom(Ap("input", a - 100))],
                          holdings)
    /\ UNCHANGED failures

ApReadDiscs ==
    /\ ApPoll(1)
    /\ coils' = Copied(ApLink,
                       Copied([a \in 101 .. 131 |-> ReadFrom(Ap("disc", a - 100))], coils))
    /\ UNCHANGED <<holdings, failures>>

ApReadInputs ==
    /\ ApPoll(2)
    /\ coils' = Copied(ApLink, coils)
    /\ holdings' = Copied([a \in 101 .. 119 |-> ReadFrom(Ap("input", a - 100))],
                          holdings)
    /\ UNCHANGED failures

ApReadSettings ==
    /\ ApPoll(3)
    /\ coils' = Copied(ApLink, coils)
    /\ LET unflagged == {120 + i : i \in {j \in 0 .. 15 : Holding(120 + j) \notin flags}}
       IN  holdings' = Copied([a \in unflagged |-> ReadFrom(Ap("hold", a - 119))],
                              holdings)
    /\ UNCHANGED failures

\* No reply, or none that is valid.
PollFails ==
    /\ failures < MaxFailures
    /\ failures' = failures + 1
    /\ \/ AcMutexFree /\ AcPoll(acTurn) /\ coils' = Copied(AcLink, coils)
       \/ ApPoll(apTurn) /\ coils' = Copied(ApLink, coils)
    /\ UNCHANGED holdings

-----------------------------------------------------------------------------
(* The write tasks. *)

\* Transmits the flagged entries of a route, a function from entries to the
\* device registers they command, and lowers their flags.  Every frame arrives
\* here: a lost one would leave the device register as it was.
Forward(route, link) ==
    LET due == flags \cap DOMAIN route
        reached == {route[e] : e \in due} \ {Nowhere}
        Contents(e) == IF e[1] = "coil" THEN coils[e[2]] ELSE holdings[e[2]]
    IN  /\ due # {}
        /\ flags' = flags \ due
        /\ device' = Copied([x \in reached |->
                                Contents(CHOOSE e \in due : route[e] = x).cmd], device)
        /\ coils' = IF reached = {} THEN coils ELSE Copied(link, coils)
        /\ UNCHANGED <<holdings, relays, acTurn, apTurn, crossed, commands, failures>>

\* The setpoint goes to the register of the mode, heating or cooling, and
\* nowhere in any other mode.
AcWrite ==
    /\ AcMutexFree
    /\ \E target \in {Ac("hold", 61), Ac("hold", 62), Nowhere} :
          Forward([e \in {Coil(40), Holding(21), Holding(28)} |->
                      CASE e = Coil(40)    -> Ac("coil", 1)
                        [] e = Holding(21) -> Ac("hold", 1)
                        [] e = Holding(28) -> target], AcLink)

\* Faulty: register i for index i, without the one the registers start at.
ApRouteFromZero == [e \in {Holding(120 + i) : i \in 0 .. 15} |-> Ap("hold", e[2] - 120)]

ApRoute == [e \in {Holding(120 + i) : i \in 0 .. 15} |-> Ap("hold", e[2] - 119)]

ApWrite == Forward(ApRoute, ApLink)

-----------------------------------------------------------------------------
(* The HMI and the relays. *)

\* A range that ends past the last entry is refused as a whole.
HmiWriteCoils(first, qty) ==
    /\ commands < MaxCommands
    /\ commands' = commands + 1
    /\ LET range == IF first + qty > CoilMax THEN {} ELSE first .. first + qty - 1
       IN  /\ coils' = Copied([a \in range |-> Commanded(Coil(a))], coils)
           /\ flags' = flags \cup {Coil(a) : a \in range}
    /\ UNCHANGED <<holdings, device, relays, acTurn, apTurn, crossed, failures>>

HmiWriteHoldings(first, qty) ==
    /\ commands < MaxCommands
    /\ commands' = commands + 1
    /\ LET range == IF first + qty > HoldingMax THEN {} ELSE first .. first + qty - 1
       IN  /\ holdings' = Copied([a \in range |-> Commanded(Holding(a))], holdings)
           /\ flags' = flags \cup {Holding(a) : a \in range}
           /\ crossed' = (crossed \/ (~AcMutexFree /\ range \cap {26, 27} # {}))
    /\ UNCHANGED <<coils, device, relays, acTurn, apTurn, failures>>

\* Faulty: the coil of the next relay.
RelayTaskNext ==
    /\ relays' = [n \in Relay |-> coils[201 + n]]
    /\ UNCHANGED <<coils, holdings, flags, device, acTurn, apTurn, crossed, commands,
                   failures>>

RelayTask ==
    /\ relays' = [n \in Relay |-> coils[200 + n]]
    /\ UNCHANGED <<coils, holdings, flags, device, acTurn, apTurn, crossed, commands,
                   failures>>

AcTasks == AcReadDiscs \/ AcReadInputs \/ AcReadPower \/ AcReadMode
           \/ AcReadDefrost \/ AcReadSetpoints \/ AcTestSetpoint \/ AcCopySetpoint
           \/ AcWrite
ApTasks == ApReadDiscs \/ ApReadInputs \/ ApReadSettings \/ ApWrite

Next ==
    \/ AcTasks
    \/ ApTasks
    \/ PollFails
    \/ \E c \in CoilRanges : HmiWriteCoils(c[1], c[2])
    \/ \E h \in HoldingRanges : HmiWriteHoldings(h[1], h[2])
    \/ RelayTask

Spec == Init /\ [][Next]_vars

-----------------------------------------------------------------------------
EntryName ==
    {Coil(a) : a \in 0 .. CoilMax - 1} \cup {Holding(a) : a \in 0 .. HoldingMax - 1}

(* Flags, turns and counters stay in their ranges.                          *)
TypeOK ==
    /\ flags \subseteq EntryName
    /\ device \in [Settable -> {Own} \cup EntryName]
    /\ acTurn \in 1 .. 8 /\ apTurn \in 1 .. 3 /\ crossed \in BOOLEAN
    /\ commands \in 0 .. MaxCommands /\ failures \in 0 .. MaxFailures

\* Commands that a crossing may have carried into the setpoint.
Strays == IF crossed THEN {Holding(26), Holding(27)} ELSE {}

(* What the HMI commands through an entry never shows up in another entry:  *)
(* the write task and the poll of each of the 19 settable entries agree on  *)
(* the device register behind it.  Two exceptions, both of the setpoints.   *)
(* The setpoint (28) comes back through the entries of its two registers,   *)
(* 26 and 27.  And a command to 26 or 27, which no write task forwards,     *)
(* gets into 28, and with a command to 28 to the unit and back into either, *)
(* but only if it was stored within the poll of the setpoints: after the    *)
(* poll's own stores and before its copy (mb_ac_task.c:79-89).              *)
CommandComesBack ==
    /\ \A a \in DOMAIN coils : coils[a].cmd \in {Own, Coil(a)}
    /\ \A a \in DOMAIN holdings :
          holdings[a].cmd \in {Own, Holding(a)}
              \cup (IF a \in 26 .. 28 THEN {Holding(28)} \cup Strays ELSE {})

Settles(old, new) ==
    old.from \in {<<"zero">>, <<"hmi">>} \/ new.from \in {old.from, <<"hmi">>}

(* An entry that mirrors a device register never comes to mirror another    *)
(* one or a link status: no two polls share an entry, and the link status   *)
(* of the transactions (coils 41 and 42) is not a polled entry.             *)
OneSource ==
    [][/\ \A a \in DOMAIN coils : Settles(coils[a], coils'[a])
       /\ \A a \in DOMAIN holdings \ {28} : Settles(holdings[a], holdings'[a])
      ]_vars

(* A relay only ever follows commands to its own coil, 200 + n: no poll of  *)
(* the AC or the AP and no link status reaches a relay.                     *)
RelayCommanded ==
    \A n \in Relay : relays[n] \in {Zero, Commanded(Coil(200 + n))}

-----------------------------------------------------------------------------
(* What the address tables of mb_address.h and the comments of the polls    *)
(* say.  An entry agrees with a device register if nothing else was read    *)
(* into it.                                                                 *)
Agrees(entry, x) == entry.from \in {<<"zero">>, <<"hmi">>, x}

(* The status tables, the power switch and the mode are where mb_address.h  *)
(* (lines 5, 48, 72, 86, 118) and the comments of the polls say.            *)
DocumentedStatus ==
    /\ \A a \in 1 .. 39 : Agrees(coils[a], Ac("disc", a))
    /\ \A a \in 1 .. 20 : Agrees(holdings[a], Ac("input", a))
    /\ Agrees(coils[40], Ac("coil", 1))
    /\ Agrees(holdings[21], Ac("hold", 1))
    /\ \A a \in 1 .. 31 : Agrees(coils[100 + a], Ap("disc", a))
    /\ \A a \in 1 .. 19 : Agrees(holdings[100 + a], Ap("input", a))

(* mb_address.h:77, "AC_HOLDING_SET--->SYS_HOLDING[21-25]": the five AC     *)
(* settings 1, 36, 39, 61 and 62 are entries 21 to 25.                      *)
DocumentedAcSettings ==
    \A i \in 1 .. 5 :
        Agrees(holdings[20 + i], Ac("hold", <<1, 36, 39, 61, 62>>[i]))

(* mb_ac_task.c:63, "ac_holding[36-39] ----> sys_holding[22-25]": the four  *)
(* registers of that poll are mirrored together.                            *)
DocumentedDefrost ==
    \A i \in 0 .. 3 :
        holdings[22].from = Ac("hold", 36)
            => holdings[22 + i].from \in {Ac("hold", 36 + i), <<"hmi">>}

(* mb_address.h:141, "AP_HOLDING_SET--->SYS_HOLDING[121-136]".              *)
DocumentedApSettings ==
    \A i \in 1 .. 16 : Agrees(holdings[120 + i], Ap("hold", i))

(* What the three of them say of the settings.  A state in which this fails *)
(* refutes each of them, and with it each of the three places quoted.       *)
DocumentedSettings ==
    DocumentedAcSettings \/ DocumentedDefrost \/ DocumentedApSettings
=============================================================================
