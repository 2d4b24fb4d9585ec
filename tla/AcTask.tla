------------------------------- MODULE AcTask -------------------------------
(***************************************************************************)
(* The settings of the air conditioner (AC) as the gateway keeps them, and *)
(* the three tasks that share them without a lock: the HMI task, the AC    *)
(* read task and the AC write task.  What distinguishes it from the AP     *)
(* (ApTask.tla) is that entry 28, the setpoint the panel shows and         *)
(* commands, belongs to no register of the AC: the mode (entry 21) decides *)
(* whether it stands for the cooling setpoint (register 61, mirrored in    *)
(* entry 26) or the heating one (register 62, mirrored in entry 27), and   *)
(* both tasks read the mode while the HMI may be changing it.              *)
(*                                                                         *)
(* An action is one access to the shared entries.  A transaction on the    *)
(* line is abstracted to its outcome.  A local variable is reset when its  *)
(* contents are dead.                                                      *)
(***************************************************************************)
EXTENDS Naturals, Sequences

CONSTANTS
    Temp,         \* temperatures, 0 included
    Mode,         \* what the mode may hold: 0 (at start), 1, 2 and any other
    Ranges,       \* bound: the blocks of entries the HMI commands at once
    Initial,      \* bound: what the registers of the AC may hold at start
    NoValue,      \* "never commanded", "never transmitted"
    Lines,        \* bound: which lines there are: reliable (TRUE), or not
    MaxChanges,   \* bound: write commands the HMI sends, and changes made at the
                  \* AC itself, together
    MaxPanel      \* bound: changes made at the AC itself

Heating == 1
Cooling == 2

\* Entries: coil 40, holdings 21, 26, 27 and 28.
Reg == {"power", "mode", "cool", "heat", "set"}
Settings == {"power", "mode", "set"}
\* Registers of the AC: coil 1, holdings 1, 61 and 62.
DevReg == {"power", "mode", "cool", "heat"}

\* Entries 21 to 28 are contiguous; the coil is commanded on its own.
Block == <<"mode", "cool", "heat", "set">>
AllRanges == {<< >>, <<"power">>} \cup {SubSeq(Block, i, j) : i, j \in 1 .. 4}

Values(r) == CASE r = "power" -> {0, 1}
               [] r = "mode" -> Mode
               [] OTHER -> Temp
AnyValue == {0, 1} \cup Mode \cup Temp

\* The contents of the registers of the AC.
DeviceWord == [power : {0, 1}, mode : Mode, cool : Temp, heat : Temp]

ASSUME ValueAssumption ==
    0 \in Temp /\ {0, Heating, Cooling} \subseteq Mode /\ NoValue \notin AnyValue
ASSUME BoundAssumption ==
    /\ MaxChanges \in Nat /\ MaxPanel \in Nat /\ Lines \subseteq BOOLEAN
    /\ Ranges \subseteq AllRanges /\ Initial \subseteq DeviceWord

VARIABLES
    regs,       \* airsys_regs.coils[40] and holdings[21], [26], [27], [28]
    flags,      \* their coil_flags and holding_flags
    writeSem,   \* master_ac.write_sem
    uartMutex,  \* master_ac.uart_mutex: "free", "reader" or "writer"
    hmiPc, hmiTodo,                  \* the HMI task, the entries left to command
    wrPc, wrReg, wrTo, wrVal,        \* the write task: entry, register, argument
    rdPc, rdPoll, rdReply, rdVal,    \* the read task: which poll, its reply, a copy
    snapshots,  \* the AC: its registers now (last) and the older contents a late
                \* reply may still carry
    reliable,   \* fixed at start: whether the AC executes every frame, answers
                \* in time or not at all, and is only set through the gateway
    commands, panel,   \* counters behind the bounds
    commanded,  \* history: the value the HMI last stored in each setting
    sent,       \* history: the value last transmitted for it
    dropped,    \* history: the last setpoint was given up for want of a mode
    overlapped, \* history: its last command met an open window (as in ApTask)
    modeMoved   \* history: the HMI stored a mode since the write task looked

hmiVars == <<hmiPc, hmiTodo, commands>>
wrVars == <<wrPc, wrReg, wrTo, wrVal>>
rdVars == <<rdPc, rdPoll, rdReply, rdVal>>
history == <<reliable, commanded, sent, dropped, overlapped, modeMoved>>
vars == <<regs, flags, writeSem, uartMutex, hmiVars, wrVars, rdVars, snapshots,
          panel, history>>

Device == snapshots[Len(snapshots)]
NoReply == << >>

HmiBetween(r) == hmiPc = "flag" /\ hmiTodo[1] = r
WriterCommitted(r) == wrPc \in {"wait", "clear"} /\ wrReg = r
\* The entry the read task stores into after testing its flag.
RdEntry == IF rdPoll = "temps" THEN "set" ELSE rdPoll
ReaderCommitted(r) ==
    /\ rdPc \in {"heating", "cooling", "copyHeat", "copyCool", "store"}
    /\ RdEntry = r

Init ==
    /\ regs = [r \in Reg |-> 0]
    /\ flags = [r \in Reg |-> FALSE]
    /\ writeSem = FALSE
    /\ uartMutex = "free"
    /\ hmiPc = "idle" /\ hmiTodo = << >>
    /\ wrPc = "sleep" /\ wrReg = "power" /\ wrTo = "power" /\ wrVal = NoValue
    /\ rdPc = "lock" /\ rdPoll = "status" /\ rdVal = NoValue
    /\ rdReply = NoReply
    /\ \E w \in Initial : snapshots = <<w>>
    /\ reliable \in Lines
    /\ commands = 0 /\ panel = 0
    /\ commanded = [r \in Settings |-> NoValue]
    /\ sent = [r \in Settings |-> NoValue]
    /\ dropped = FALSE
    /\ overlapped = [r \in Settings |-> FALSE]
    /\ modeMoved = FALSE

-----------------------------------------------------------------------------
(* Faulty variants of definitions below, no part of Spec: each one breaks   *)
(* the property PROJECT.json names with it.                                 *)

\* The semaphore is only given to a write task that waits for it.
HmiGiveToSleeper ==
    /\ hmiPc = "give"
    /\ writeSem' = (writeSem \/ wrPc = "sleep")
    /\ hmiPc' = "idle"
    /\ UNCHANGED <<regs, flags, uartMutex, hmiTodo, commands, wrVars, rdVars,
                   snapshots, panel, history>>

\* The two setpoints are swapped: in a write, and in the mirror.
WrHeatingToCool ==
    /\ wrPc = "heating"
    /\ IF regs["mode"] = Heating
         THEN wrPc' = "send" /\ wrTo' = "cool"
         ELSE wrPc' = "cooling" /\ UNCHANGED wrTo
    /\ UNCHANGED <<regs, flags, writeSem, uartMutex, hmiVars, wrReg, wrVal,
                   rdVars, snapshots, panel, history>>
RdMirrorOfSwapped == IF rdPc = "copyHeat" THEN "cool" ELSE "heat"

\* One flag for all settings.
WrLoweredAll == [r \in Reg |-> FALSE]

\* The flag is not tested; the wrong register is taken from the reply.
ShieldedNot(r) == FALSE
RdValueOfMode == IF rdPoll = "temps" THEN rdVal ELSE rdReply.mode

-----------------------------------------------------------------------------
(* The HMI task. *)

\* A write frame; << >> stands for one that changes none of these entries.
HmiCommand(range) ==
    /\ hmiPc = "idle"
    /\ commands + panel < MaxChanges
    /\ hmiTodo' = range
    /\ hmiPc' = IF range = << >> THEN "give" ELSE "store"
    /\ commands' = commands + 1
    /\ UNCHANGED <<regs, flags, writeSem, uartMutex, wrVars, rdVars, snapshots,
                   panel, history>>

HmiStore(v) ==
    LET r == hmiTodo[1]
    IN  /\ hmiPc = "store"
        /\ v \in Values(r)
        /\ regs' = [regs EXCEPT ![r] = v]
        /\ hmiPc' = "flag"
        /\ commanded' = [x \in Settings |-> IF x = r THEN v ELSE commanded[x]]
        /\ overlapped' = [x \in Settings |->
                            IF x = r THEN ReaderCommitted(r) ELSE overlapped[x]]
        /\ dropped' = (dropped /\ r # "set")
        /\ modeMoved' = (modeMoved \/ r = "mode")
        /\ UNCHANGED <<flags, writeSem, uartMutex, hmiTodo, commands, wrVars,
                       rdVars, snapshots, panel, reliable, sent>>

HmiFlag ==
    LET r == hmiTodo[1]
    IN  /\ hmiPc = "flag"
        /\ flags' = [flags EXCEPT ![r] = TRUE]
        /\ hmiTodo' = Tail(hmiTodo)
        /\ hmiPc' = IF Tail(hmiTodo) = << >> THEN "give" ELSE "store"
        /\ overlapped' = [x \in Settings |->
              overlapped[x] \/ (x = r /\ WriterCommitted(r) /\ wrVal # commanded[r])]
        /\ UNCHANGED <<regs, writeSem, uartMutex, commands, wrVars, rdVars,
                       snapshots, panel, reliable, commanded, sent, dropped,
                       modeMoved>>

HmiGive ==
    /\ hmiPc = "give"
    /\ writeSem' = TRUE
    /\ hmiPc' = "idle"
    /\ UNCHANGED <<regs, flags, uartMutex, hmiTodo, commands, wrVars, rdVars,
                   snapshots, panel, history>>

-----------------------------------------------------------------------------
(* modbus_ac_write_task. *)

WrTakeSem ==
    /\ wrPc = "sleep"
    /\ writeSem
    /\ writeSem' = FALSE
    /\ wrPc' = "lock"
    /\ UNCHANGED <<regs, flags, uartMutex, hmiVars, wrReg, wrTo, wrVal, rdVars,
                   snapshots, panel, history>>

WrLock ==
    /\ wrPc = "lock"
    /\ uartMutex = "free"
    /\ uartMutex' = "writer"
    /\ wrPc' = "test"
    /\ wrReg' = "power"
    /\ UNCHANGED <<regs, flags, writeSem, hmiVars, wrTo, wrVal, rdVars,
                   snapshots, panel, history>>

\* On to the next of the three settings, or out of the scan.
WrAdvance ==
    IF wrReg = "set"
      THEN wrPc' = "unlock" /\ UNCHANGED wrReg
      ELSE wrPc' = "test" /\ wrReg' = IF wrReg = "power" THEN "mode" ELSE "set"

WrTest ==
    /\ wrPc = "test"
    /\ IF ~flags[wrReg]
         THEN WrAdvance /\ UNCHANGED wrTo
         ELSE /\ wrPc' = IF wrReg = "set" THEN "heating" ELSE "send"
              /\ wrTo' = IF wrReg = "set" THEN wrTo ELSE wrReg
              /\ UNCHANGED wrReg
    /\ modeMoved' = FALSE
    /\ UNCHANGED <<regs, flags, writeSem, uartMutex, hmiVars, wrVal, rdVars,
                   snapshots, panel, reliable, commanded, sent, dropped,
                   overlapped>>

\* The two tests of the mode are two reads of entry 21.
WrHeating ==
    /\ wrPc = "heating"
    /\ IF regs["mode"] = Heating
         THEN wrPc' = "send" /\ wrTo' = "heat"
         ELSE wrPc' = "cooling" /\ UNCHANGED wrTo
    /\ UNCHANGED <<regs, flags, writeSem, uartMutex, hmiVars, wrReg, wrVal,
                   rdVars, snapshots, panel, history>>

\* Neither mode: the setpoint is given up, its flag lowered all the same.
WrCooling ==
    /\ wrPc = "cooling"
    /\ IF regs["mode"] = Cooling
         THEN wrPc' = "send" /\ wrTo' = "cool" /\ UNCHANGED <<wrVal, dropped>>
         ELSE wrPc' = "clear" /\ wrVal' = NoValue /\ dropped' = TRUE /\ UNCHANGED wrTo
    /\ UNCHANGED <<regs, flags, writeSem, uartMutex, hmiVars, wrReg, rdVars,
                   snapshots, panel, reliable, commanded, sent, overlapped,
                   modeMoved>>

WrSend ==
    /\ wrPc = "send"
    /\ wrVal' = regs[wrReg]
    /\ wrPc' = "wait"
    /\ sent' = [sent EXCEPT ![wrReg] = regs[wrReg]]
    /\ dropped' = (dropped /\ wrReg # "set")
    /\ UNCHANGED <<regs, flags, writeSem, uartMutex, hmiVars, wrReg, wrTo,
                   rdVars, snapshots, panel, reliable, commanded, overlapped,
                   modeMoved>>

\* The result of the call is not looked at.
WrReturn(executed) ==
    /\ wrPc = "wait"
    /\ reliable => executed
    /\ wrPc' = "clear"
    /\ snapshots' = IF executed /\ Device[wrTo] # wrVal
                      THEN Append(snapshots, [Device EXCEPT ![wrTo] = wrVal])
                      ELSE snapshots
    /\ UNCHANGED <<regs, flags, writeSem, uartMutex, hmiVars, wrReg, wrTo,
                   wrVal, rdVars, panel, history>>

WrLowered == [flags EXCEPT ![wrReg] = FALSE]

WrClear ==
    /\ wrPc = "clear"
    /\ flags' = WrLowered
    /\ WrAdvance
    /\ wrTo' = "power" /\ wrVal' = NoValue
    /\ UNCHANGED <<regs, writeSem, uartMutex, hmiVars, rdVars, snapshots, panel,
                   history>>

WrUnlock ==
    /\ wrPc = "unlock"
    /\ uartMutex' = "free"
    /\ wrPc' = "sleep"
    /\ UNCHANGED <<regs, flags, writeSem, hmiVars, wrReg, wrTo, wrVal, rdVars,
                   snapshots, panel, history>>

-----------------------------------------------------------------------------
(* modbus_ac_read_task. *)

RdLock ==
    /\ rdPc = "lock"
    /\ uartMutex = "free"
    /\ uartMutex' = "reader"
    /\ rdPc' = "poll"
    /\ UNCHANGED <<regs, flags, writeSem, hmiVars, wrVars, rdPoll, rdReply,
                   rdVal, snapshots, panel, history>>

\* Stands for the three polls, of the status tables and of the defrost settings,
\* whose entries are not among these (RegisterMap.tla).
RdStatus ==
    /\ rdPc = "poll"
    /\ rdPoll = "status"
    /\ rdPc' = "unlock"
    /\ UNCHANGED <<regs, flags, writeSem, uartMutex, hmiVars, wrVars, rdPoll,
                   rdReply, rdVal, snapshots, panel, history>>

\* A poll is answered, with contents the AC had at some time since the ones the
\* last answer carried.
RdAccept(k) ==
    /\ rdPc = "poll"
    /\ rdPoll # "status"
    /\ k \in 1 .. Len(snapshots)
    /\ reliable => k = Len(snapshots)
    /\ rdReply' = snapshots[k]
    /\ snapshots' = SubSeq(snapshots, k, Len(snapshots))
    /\ rdPc' = IF rdPoll = "temps" THEN "mirrorCool" ELSE "check"
    /\ UNCHANGED <<regs, flags, writeSem, uartMutex, hmiVars, wrVars, rdPoll,
                   rdVal, panel, history>>

RdFail ==
    /\ rdPc = "poll"
    /\ rdPoll # "status"
    /\ rdPc' = "unlock"
    /\ UNCHANGED <<regs, flags, writeSem, uartMutex, hmiVars, wrVars, rdPoll,
                   rdReply, rdVal, snapshots, panel, history>>

\* The two setpoints are mirrored whatever their flags.
RdMirror ==
    /\ \/ /\ rdPc = "mirrorCool"
          /\ regs' = [regs EXCEPT !["cool"] = rdReply.cool]
          /\ rdPc' = "mirrorHeat"
       \/ /\ rdPc = "mirrorHeat"
          /\ regs' = [regs EXCEPT !["heat"] = rdReply.heat]
          /\ rdPc' = "check"
    /\ UNCHANGED <<flags, writeSem, uartMutex, hmiVars, wrVars, rdPoll, rdReply,
                   rdVal, snapshots, panel, history>>

\* A raised flag keeps the polls off an entry.
Shielded(r) == flags[r]

\* What the poll of the power switch or of the mode stores.
RdValue == IF rdPoll = "temps" THEN rdVal ELSE rdReply[rdPoll]

RdCheck ==
    /\ rdPc = "check"
    /\ IF Shielded(RdEntry)
         THEN rdPc' = "unlock" /\ UNCHANGED <<rdVal, overlapped>>
         ELSE /\ rdPc' = IF rdPoll = "temps" THEN "heating" ELSE "store"
              /\ rdVal' = RdValue
              /\ overlapped' = [overlapped EXCEPT ![RdEntry] = @ \/ HmiBetween(RdEntry)]
    /\ UNCHANGED <<regs, flags, writeSem, uartMutex, hmiVars, wrVars, rdPoll,
                   rdReply, snapshots, panel, reliable, commanded, sent, dropped,
                       modeMoved>>

\* The two tests of the mode, each a read of entry 21.
RdSelect ==
    /\ \/ /\ rdPc = "heating"
          /\ rdPc' = IF regs["mode"] = Heating THEN "copyHeat" ELSE "cooling"
       \/ /\ rdPc = "cooling"
          /\ rdPc' = IF regs["mode"] = Cooling THEN "copyCool" ELSE "unlock"
    /\ UNCHANGED <<regs, flags, writeSem, uartMutex, hmiVars, wrVars, rdPoll,
                   rdReply, rdVal, snapshots, panel, history>>

\* The setpoint is copied from its mirror, which the HMI may have overwritten.
RdMirrorOf == IF rdPc = "copyHeat" THEN "heat" ELSE "cool"

RdCopy ==
    /\ rdPc \in {"copyHeat", "copyCool"}
    /\ rdVal' = regs[RdMirrorOf]
    /\ rdPc' = "store"
    /\ UNCHANGED <<regs, flags, writeSem, uartMutex, hmiVars, wrVars, rdPoll,
                   rdReply, snapshots, panel, history>>

RdStore ==
    /\ rdPc = "store"
    /\ regs' = [regs EXCEPT ![RdEntry] = rdVal]
    /\ rdPc' = "unlock"
    /\ UNCHANGED <<flags, writeSem, uartMutex, hmiVars, wrVars, rdPoll, rdReply,
                   rdVal, snapshots, panel, history>>

\* The poll ends; a pause follows the last one of the cycle.
NextPoll == [status |-> "power", power |-> "mode", mode |-> "temps",
             temps |-> "status"]

RdUnlock ==
    /\ rdPc = "unlock"
    /\ uartMutex' = "free"
    /\ rdPoll' = NextPoll[rdPoll]
    /\ rdPc' = IF rdPoll = "temps" THEN "delay" ELSE "lock"
    /\ rdReply' = NoReply /\ rdVal' = NoValue
    /\ UNCHANGED <<regs, flags, writeSem, hmiVars, wrVars, snapshots, panel,
                   history>>

RdDelay ==
    /\ rdPc = "delay"
    /\ rdPc' = "lock"
    /\ UNCHANGED <<regs, flags, writeSem, uartMutex, hmiVars, wrVars, rdPoll,
                   rdReply, rdVal, snapshots, panel, history>>

-----------------------------------------------------------------------------
(* The AC itself: someone changes a setting on the unit. *)
DevPanel(r, v) ==
    /\ ~reliable
    /\ panel < MaxPanel /\ commands + panel < MaxChanges
    /\ v \in Values(r) /\ Device[r] # v
    /\ snapshots' = Append(snapshots, [Device EXCEPT ![r] = v])
    /\ panel' = panel + 1
    /\ UNCHANGED <<regs, flags, writeSem, uartMutex, hmiVars, wrVars, rdVars,
                   history>>

-----------------------------------------------------------------------------
HmiTask == (\E v \in AnyValue : HmiStore(v)) \/ HmiFlag \/ HmiGive

WriteTask == WrTakeSem \/ WrLock \/ WrTest \/ WrHeating \/ WrCooling \/ WrSend
             \/ (\E x \in BOOLEAN : WrReturn(x)) \/ WrClear \/ WrUnlock

ReadTask == RdLock \/ RdStatus \/ (\E k \in 1 .. Len(snapshots) : RdAccept(k))
            \/ RdFail \/ RdMirror \/ RdCheck \/ RdSelect \/ RdCopy \/ RdStore
            \/ RdUnlock \/ RdDelay

Environment == (\E range \in Ranges : HmiCommand(range))
               \/ (\E r \in DevReg, v \in AnyValue : DevPanel(r, v))

Next == HmiTask \/ WriteTask \/ ReadTask \/ Environment

Spec == Init /\ [][Next]_vars

(***************************************************************************)
(* Fairness, as in ApTask: running tasks run, waits on the line end,       *)
(* uart_mutex is not withheld from the write task forever (the read task   *)
(* gets it while the write task sleeps), and the AC answers each kind of   *)
(* poll infinitely often in time.                                          *)
(***************************************************************************)
Fairness ==
    /\ WF_vars(HmiTask)
    /\ WF_vars(WriteTask) /\ SF_vars(WrLock)
    /\ WF_vars(ReadTask)
    /\ \A p \in {"power", "mode", "temps"} :
          SF_vars(rdPoll = p /\ RdAccept(Len(snapshots)))

FairSpec == Spec /\ Fairness

-----------------------------------------------------------------------------
(* Every variable keeps its type: each entry only holds values of its own   *)
(* kind, whichever entry the read task copied it from.                      *)
TypeOK ==
    /\ \A r \in Reg : regs[r] \in Values(r)
    /\ flags \in [Reg -> BOOLEAN]
    /\ writeSem \in BOOLEAN
    /\ uartMutex \in {"free", "reader", "writer"}
    /\ hmiPc \in {"idle", "store", "flag", "give"}
    /\ hmiTodo \in AllRanges
    /\ hmiPc \in {"store", "flag"} => hmiTodo # << >>
    /\ wrPc \in {"sleep", "lock", "test", "heating", "cooling", "send", "wait",
                 "clear", "unlock"}
    /\ wrReg \in Settings /\ wrTo \in DevReg
    /\ wrVal \in AnyValue \cup {NoValue}
    /\ wrPc = "wait" => wrVal \in Values(wrTo)
    /\ rdPc \in {"lock", "poll", "mirrorCool", "mirrorHeat", "check", "heating",
                 "cooling", "copyHeat", "copyCool", "store", "unlock", "delay"}
    /\ rdPoll \in DOMAIN NextPoll
    /\ rdVal \in AnyValue \cup {NoValue}
    /\ rdPc = "store" => rdVal \in Values(RdEntry)
    /\ \A k \in DOMAIN snapshots : snapshots[k] \in DeviceWord
    /\ snapshots # << >>
    /\ rdReply # NoReply => rdReply \in DeviceWord
    /\ reliable \in BOOLEAN
    /\ commands \in 0 .. MaxChanges /\ panel \in 0 .. MaxPanel

(* The command on its way is what the entry holds (as ApTask!PendingKept),  *)
(* for the power switch, the mode and the setpoint.                         *)
PendingKept ==
    \A r \in Settings : flags[r] /\ ~overlapped[r] => regs[r] = commanded[r]

(* No setting is silently forgotten: once nothing is pending for it, the    *)
(* last value transmitted is the last one commanded, unless the command met *)
(* one of the windows of ApTask, or is a setpoint the write task gave up    *)
(* because entry 21 held neither heating nor cooling when it looked.        *)
NoCommandForgotten ==
    \A r \in Settings :
        ( /\ commanded[r] # NoValue
          /\ ~flags[r] /\ ~HmiBetween(r) /\ ~overlapped[r]
          /\ ~(r = "set" /\ dropped) )
        => sent[r] = commanded[r]

(* On a reliable line a setpoint goes to the register of the mode the HMI   *)
(* last commanded, even when one command carries both and the write task    *)
(* is running meanwhile; the mode's command must not have been overwritten  *)
(* by a poll it overlapped, nor the mode be commanded while the write task  *)
(* is already at the setpoint.                                              *)
SetpointFollowsMode ==
    ( /\ reliable /\ wrPc = "wait" /\ wrReg = "set"
      /\ commanded["mode"] \in {Heating, Cooling}
      /\ ~overlapped["mode"] /\ ~modeMoved )
    => wrTo = IF commanded["mode"] = Heating THEN "heat" ELSE "cool"

(* When commands cease every raised flag is lowered, also when the setpoint *)
(* is given up: no wake-up is lost, although write_sem is binary and may be *)
(* given while the write task is in its scan, past the flag just raised.    *)
FlagsServed == <>[](\A r \in Settings : ~flags[r])

(* When commands and panel changes cease the entries converge to the AC and *)
(* the setpoint to the one of the mode the AC is in, although the tasks     *)
(* compute it from entries they do not lock.                                *)
MirrorConverges ==
    <>[]( /\ \A r \in DevReg : regs[r] = Device[r]
          /\ Device["mode"] = Heating => regs["set"] = Device["heat"]
          /\ Device["mode"] = Cooling => regs["set"] = Device["cool"] )
=============================================================================
