------------------------------- MODULE ApTask -------------------------------
(***************************************************************************)
(* The settable registers of the air purifier (AP) as the gateway keeps    *)
(* them: airsys_regs.holdings[120+i] and airsys_regs.holding_flags[120+i], *)
(* shared without a lock by three FreeRTOS tasks on two cores:             *)
(*                                                                         *)
(*   - the HMI task, which executes a write command of the touch panel     *)
(*     (mb_hmi_task.c, the write handlers of mb_slave.c);                  *)
(*   - modbus_ap_read_task, which polls the AP and mirrors its registers;  *)
(*   - modbus_ap_write_task, which forwards flagged registers to the AP.   *)
(*                                                                         *)
(* uart_mutex keeps the two AP tasks apart, nothing keeps the HMI task     *)
(* out: an action is one access to the shared registers.  A transaction    *)
(* on the line is abstracted to its outcome (MasterLink.tla models it).    *)
(***************************************************************************)
EXTENDS Naturals, Sequences

CONSTANTS
    N,            \* number of settable AP registers (16 in the code)
    Value,        \* what a register may hold, 0 included
    NoValue,      \* "never commanded", "never transmitted"
    MaxCommands,  \* bound: write commands the HMI sends
    MaxPanel      \* bound: changes made at the AP itself

ASSUME NAssumption == N \in Nat \ {0}
ASSUME ValueAssumption == 0 \in Value /\ NoValue \notin Value
ASSUME BoundAssumption == MaxCommands \in Nat /\ MaxPanel \in Nat

Reg == 0 .. N - 1
Word == [Reg -> Value]

VARIABLES
    holdings,   \* airsys_regs.holdings[120 + i]
    flags,      \* airsys_regs.holding_flags[120 + i]
    writeSem,   \* master_ap.write_sem, a binary semaphore
    uartMutex,  \* master_ap.uart_mutex: "free", "reader" or "writer"
    hmiPc, hmiAt, hmiEnd,    \* the HMI task, its loop index and loop end
    wrPc, wrAt, wrVal,       \* the write task, its loop index, the argument it read
    rdPc, rdPoll, rdAt,      \* the read task, which poll of its cycle, its loop index
    wordResult,              \* word_result, the values the last poll returned
    snapshots,               \* the AP: its registers now (last) and the older
                             \* contents a late reply may still carry
    commands, panel,         \* counters behind the two bounds
    commanded,  \* history: the value the HMI last stored in each register
    sent,       \* history: the value last transmitted to the AP for it
    overlapped  \* history: its last command met one of the three open windows

hmiVars == <<hmiPc, hmiAt, hmiEnd, commands>>
wrVars == <<wrPc, wrAt, wrVal>>
rdVars == <<rdPc, rdPoll, rdAt, wordResult>>
history == <<commanded, sent, overlapped>>
vars == <<holdings, flags, writeSem, uartMutex, hmiVars, wrVars, rdVars,
          snapshots, panel, history>>

\* The registers of the AP as they are now.
Device == snapshots[Len(snapshots)]

-----------------------------------------------------------------------------
(* Where a task stands with respect to register r. *)

\* The HMI task has stored a value in r and has not raised its flag yet.
HmiBetween(r) == hmiPc = "flag" /\ hmiAt = r

\* The write task has read r for a transmission and will lower its flag.
WriterCommitted(r) == wrPc \in {"wait", "clear"} /\ wrAt = r

\* The read task has found the flag of r down and will overwrite r.
ReaderCommitted(r) == rdPc = "store" /\ rdAt = r

-----------------------------------------------------------------------------
Init ==
    /\ holdings = [r \in Reg |-> 0]
    /\ flags = [r \in Reg |-> FALSE]
    /\ writeSem = FALSE
    /\ uartMutex = "free"
    /\ hmiPc = "idle" /\ hmiAt = 0 /\ hmiEnd = 0
    /\ wrPc = "sleep" /\ wrAt = 0 /\ wrVal = NoValue
    /\ rdPc = "lock" /\ rdPoll = "disc" /\ rdAt = 0
    /\ wordResult = [r \in Reg |-> NoValue]
    /\ \E w \in Word : snapshots = <<w>>
    /\ commands = 0 /\ panel = 0
    /\ commanded = [r \in Reg |-> NoValue]
    /\ sent = [r \in Reg |-> NoValue]
    /\ overlapped = [r \in Reg |-> FALSE]

-----------------------------------------------------------------------------
(* Faulty variants of actions below, no part of Spec: each one breaks the   *)
(* property PROJECT.json names with it.                                     *)

\* A frame of quantity 0 stores one register.
HmiCommandAlwaysStores(first, last) ==
    /\ hmiPc = "idle" /\ commands < MaxCommands
    /\ hmiPc' = "store" /\ hmiAt' = first /\ hmiEnd' = last
    /\ commands' = commands + 1
    /\ UNCHANGED <<holdings, flags, writeSem, uartMutex, wrVars, rdVars,
                   snapshots, panel, history>>

\* A raised flag shields from one poll only.
RdCheckOnce ==
    /\ rdPc = "check"
    /\ rdAt < N
    /\ IF flags[rdAt]
         THEN /\ flags' = [flags EXCEPT ![rdAt] = FALSE]
              /\ rdAt' = rdAt + 1
              /\ UNCHANGED <<rdPc, overlapped>>
         ELSE /\ rdPc' = "store"
              /\ overlapped' = [overlapped EXCEPT ![rdAt] = @ \/ HmiBetween(rdAt)]
              /\ UNCHANGED <<rdAt, flags>>
    /\ UNCHANGED <<holdings, writeSem, uartMutex, hmiVars, wrVars,
                   rdPoll, wordResult, snapshots, panel, commanded, sent>>

\* The flag stays up.
WrClearNot ==
    /\ wrPc = "clear"
    /\ wrAt' = wrAt + 1 /\ wrPc' = "scan"
    /\ UNCHANGED <<holdings, flags, writeSem, uartMutex, hmiVars, wrVal, rdVars,
                   snapshots, panel, history>>

\* The semaphore is emptied once more after the scan.
WrUnlockDrains ==
    /\ wrPc = "scan" /\ wrAt = N
    /\ uartMutex' = "free" /\ wrPc' = "sleep" /\ writeSem' = FALSE
    /\ UNCHANGED <<holdings, flags, hmiVars, wrAt, wrVal, rdVars, snapshots,
                   panel, history>>

\* The read task does not wait for the mutex.
RdLockAnyway ==
    /\ rdPc = "lock"
    /\ uartMutex' = "reader" /\ rdPc' = "poll"
    /\ UNCHANGED <<holdings, flags, writeSem, hmiVars, wrVars, rdPoll, rdAt,
                   wordResult, snapshots, panel, history>>

\* The flag is not tested.
RdCheckNot ==
    /\ rdPc = "check" /\ rdAt < N
    /\ rdPc' = "store"
    /\ overlapped' = [overlapped EXCEPT ![rdAt] = @ \/ HmiBetween(rdAt)]
    /\ UNCHANGED <<holdings, flags, writeSem, uartMutex, hmiVars, wrVars, rdPoll,
                   rdAt, wordResult, snapshots, panel, commanded, sent>>

-----------------------------------------------------------------------------
(* The HMI task. *)

\* A valid write frame for the registers first .. last - 1.  An empty range
\* stands for a frame the handler rejects, one of quantity 0 and one for other
\* registers: all of them only give the semaphores.
HmiCommand(first, last) ==
    /\ hmiPc = "idle"
    /\ commands < MaxCommands
    /\ hmiPc' = IF first = last THEN "give" ELSE "store"
    /\ hmiAt' = first
    /\ hmiEnd' = last
    /\ commands' = commands + 1
    /\ UNCHANGED <<holdings, flags, writeSem, uartMutex, wrVars, rdVars,
                   snapshots, panel, history>>

HmiStore(v) ==
    /\ hmiPc = "store"
    /\ holdings' = [holdings EXCEPT ![hmiAt] = v]
    /\ hmiPc' = "flag"
    /\ commanded' = [commanded EXCEPT ![hmiAt] = v]
    /\ overlapped' = [overlapped EXCEPT ![hmiAt] = ReaderCommitted(hmiAt)]
    /\ UNCHANGED <<flags, writeSem, uartMutex, hmiAt, hmiEnd, commands, wrVars,
                   rdVars, snapshots, panel, sent>>

HmiFlag ==
    /\ hmiPc = "flag"
    /\ flags' = [flags EXCEPT ![hmiAt] = TRUE]
    /\ hmiAt' = hmiAt + 1
    /\ hmiPc' = IF hmiAt + 1 = hmiEnd THEN "give" ELSE "store"
    /\ overlapped' = [overlapped EXCEPT ![hmiAt] =
                        \/ @
                        \/ WriterCommitted(hmiAt) /\ wrVal # commanded[hmiAt]]
    /\ UNCHANGED <<holdings, writeSem, uartMutex, hmiEnd, commands, wrVars,
                   rdVars, snapshots, panel, commanded, sent>>

HmiGive ==
    /\ hmiPc = "give"
    /\ writeSem' = TRUE
    /\ hmiPc' = "idle"
    /\ UNCHANGED <<holdings, flags, uartMutex, hmiAt, hmiEnd, commands, wrVars,
                   rdVars, snapshots, panel, history>>

-----------------------------------------------------------------------------
(* modbus_ap_write_task. *)

WrTakeSem ==
    /\ wrPc = "sleep"
    /\ writeSem
    /\ writeSem' = FALSE
    /\ wrPc' = "lock"
    /\ UNCHANGED <<holdings, flags, uartMutex, hmiVars, wrAt, wrVal, rdVars,
                   snapshots, panel, history>>

WrLock ==
    /\ wrPc = "lock"
    /\ uartMutex = "free"
    /\ uartMutex' = "writer"
    /\ wrPc' = "scan"
    /\ wrAt' = 0
    /\ UNCHANGED <<holdings, flags, writeSem, hmiVars, wrVal, rdVars,
                   snapshots, panel, history>>

\* One test of the loop: a register that is not flagged is passed over.
WrScan ==
    /\ wrPc = "scan"
    /\ wrAt < N
    /\ IF flags[wrAt]
         THEN wrPc' = "send" /\ UNCHANGED wrAt
         ELSE wrAt' = wrAt + 1 /\ UNCHANGED wrPc
    /\ UNCHANGED <<holdings, flags, writeSem, uartMutex, hmiVars, wrVal, rdVars,
                   snapshots, panel, history>>

\* The register is read as the argument of the call that transmits it.
WrSend ==
    /\ wrPc = "send"
    /\ wrVal' = holdings[wrAt]
    /\ wrPc' = "wait"
    /\ sent' = [sent EXCEPT ![wrAt] = holdings[wrAt]]
    /\ UNCHANGED <<holdings, flags, writeSem, uartMutex, hmiVars, wrAt, rdVars,
                   snapshots, panel, commanded, overlapped>>

\* The call returns.  Its result is not looked at: the frame may have been
\* executed by the AP or lost.
WrReturn(executed) ==
    /\ wrPc = "wait"
    /\ wrPc' = "clear"
    /\ snapshots' = IF executed /\ Device[wrAt] # wrVal
                      THEN Append(snapshots, [Device EXCEPT ![wrAt] = wrVal])
                      ELSE snapshots
    /\ UNCHANGED <<holdings, flags, writeSem, uartMutex, hmiVars, wrAt, wrVal,
                   rdVars, panel, history>>

WrClear ==
    /\ wrPc = "clear"
    /\ flags' = [flags EXCEPT ![wrAt] = FALSE]
    /\ wrAt' = wrAt + 1
    /\ wrPc' = "scan"
    /\ UNCHANGED <<holdings, writeSem, uartMutex, hmiVars, wrVal, rdVars,
                   snapshots, panel, history>>

WrUnlock ==
    /\ wrPc = "scan"
    /\ wrAt = N
    /\ uartMutex' = "free"
    /\ wrPc' = "sleep"
    /\ UNCHANGED <<holdings, flags, writeSem, hmiVars, wrAt, wrVal, rdVars,
                   snapshots, panel, history>>

-----------------------------------------------------------------------------
(* modbus_ap_read_task. *)

RdLock ==
    /\ rdPc = "lock"
    /\ uartMutex = "free"
    /\ uartMutex' = "reader"
    /\ rdPc' = "poll"
    /\ UNCHANGED <<holdings, flags, writeSem, hmiVars, wrVars, rdPoll, rdAt,
                   wordResult, snapshots, panel, history>>

\* The two status polls, answered or not: what they mirror is disjoint from the
\* settable registers (RegisterMap.tla).
RdStatus ==
    /\ rdPc = "poll"
    /\ rdPoll \in {"disc", "input"}
    /\ uartMutex' = "free"
    /\ rdPoll' = IF rdPoll = "disc" THEN "input" ELSE "holding"
    /\ rdPc' = "lock"
    /\ UNCHANGED <<holdings, flags, writeSem, hmiVars, wrVars, rdAt, wordResult,
                   snapshots, panel, history>>

\* The poll of the settable registers is answered, with contents the AP had at
\* some time since the ones the last answer carried (a late reply is accepted).
RdAccept(k) ==
    /\ rdPc = "poll"
    /\ rdPoll = "holding"
    /\ k \in 1 .. Len(snapshots)
    /\ wordResult' = snapshots[k]
    /\ snapshots' = SubSeq(snapshots, k, Len(snapshots))
    /\ rdPc' = "check"
    /\ rdAt' = 0
    /\ UNCHANGED <<holdings, flags, writeSem, uartMutex, hmiVars, wrVars,
                   rdPoll, panel, history>>

\* It fails: no reply, or one that is not valid.
RdFail ==
    /\ rdPc = "poll"
    /\ rdPoll = "holding"
    /\ uartMutex' = "free"
    /\ rdPc' = "delay"
    /\ UNCHANGED <<holdings, flags, writeSem, hmiVars, wrVars, rdPoll, rdAt,
                   wordResult, snapshots, panel, history>>

RdCheck ==
    /\ rdPc = "check"
    /\ rdAt < N
    /\ IF flags[rdAt]
         THEN rdAt' = rdAt + 1 /\ UNCHANGED <<rdPc, overlapped>>
         ELSE /\ rdPc' = "store"
              /\ overlapped' = [overlapped EXCEPT ![rdAt] = @ \/ HmiBetween(rdAt)]
              /\ UNCHANGED rdAt
    /\ UNCHANGED <<holdings, flags, writeSem, uartMutex, hmiVars, wrVars,
                   rdPoll, wordResult, snapshots, panel, commanded, sent>>

RdStore ==
    /\ rdPc = "store"
    /\ holdings' = [holdings EXCEPT ![rdAt] = wordResult[rdAt]]
    /\ rdAt' = rdAt + 1
    /\ rdPc' = "check"
    /\ UNCHANGED <<flags, writeSem, uartMutex, hmiVars, wrVars, rdPoll,
                   wordResult, snapshots, panel, history>>

RdUnlock ==
    /\ rdPc = "check"
    /\ rdAt = N
    /\ uartMutex' = "free"
    /\ rdPc' = "delay"
    /\ UNCHANGED <<holdings, flags, writeSem, hmiVars, wrVars, rdPoll, rdAt,
                   wordResult, snapshots, panel, history>>

RdDelay ==
    /\ rdPc = "delay"
    /\ rdPoll' = "disc"
    /\ rdPc' = "lock"
    /\ UNCHANGED <<holdings, flags, writeSem, uartMutex, hmiVars, wrVars, rdAt,
                   wordResult, snapshots, panel, history>>

-----------------------------------------------------------------------------
(* The AP itself: someone changes a setting on the unit. *)
DevPanel(r, v) ==
    /\ panel < MaxPanel
    /\ Device[r] # v
    /\ snapshots' = Append(snapshots, [Device EXCEPT ![r] = v])
    /\ panel' = panel + 1
    /\ UNCHANGED <<holdings, flags, writeSem, uartMutex, hmiVars, wrVars,
                   rdVars, history>>

-----------------------------------------------------------------------------
HmiTask == (\E v \in Value : HmiStore(v)) \/ HmiFlag \/ HmiGive

WriteTask == WrTakeSem \/ WrLock \/ WrScan \/ WrSend
             \/ (\E x \in BOOLEAN : WrReturn(x)) \/ WrClear \/ WrUnlock

ReadTask == RdLock \/ RdStatus \/ (\E k \in 1 .. Len(snapshots) : RdAccept(k))
            \/ RdFail \/ RdCheck \/ RdStore \/ RdUnlock \/ RdDelay

Environment ==
    \/ \E first \in Reg : \E last \in first .. N : HmiCommand(first, last)
    \/ \E r \in Reg, v \in Value : DevPanel(r, v)

Next == HmiTask \/ WriteTask \/ ReadTask \/ Environment

Spec == Init /\ [][Next]_vars

(***************************************************************************)
(* Fairness.  A task that can run does (the scheduler, two cores), and     *)
(* every wait on the line ends (MODBUS_TIMEOUT).  Taking uart_mutex is     *)
(* strongly fair: the read task leaves it free for 200 ms in each cycle    *)
(* and the write task has the higher priority.  The AP answers infinitely  *)
(* often in time.  Nothing obliges the HMI, the panel, or a frame to the   *)
(* AP to arrive.                                                           *)
(***************************************************************************)
Fairness ==
    /\ WF_vars(HmiTask)
    /\ WF_vars(WriteTask) /\ SF_vars(WrLock)
    /\ WF_vars(ReadTask) /\ SF_vars(RdLock)
    /\ SF_vars(RdAccept(Len(snapshots)))

FairSpec == Spec /\ Fairness

-----------------------------------------------------------------------------
(* Every variable keeps its type: indices stay in the loops' ranges (an     *)
(* index may stand one past the end), the registers only hold values.       *)
TypeOK ==
    /\ holdings \in Word
    /\ flags \in [Reg -> BOOLEAN]
    /\ writeSem \in BOOLEAN
    /\ uartMutex \in {"free", "reader", "writer"}
    /\ hmiPc \in {"idle", "store", "flag", "give"}
    /\ hmiAt \in 0 .. N /\ hmiEnd \in 0 .. N
    /\ hmiPc \in {"store", "flag"} => hmiAt < hmiEnd
    /\ commands \in 0 .. MaxCommands
    /\ wrPc \in {"sleep", "lock", "scan", "send", "wait", "clear"}
    /\ wrAt \in 0 .. N
    /\ wrPc \in {"send", "wait", "clear"} => wrAt \in Reg
    /\ wrVal \in Value \cup {NoValue}
    /\ wrPc = "wait" => wrVal \in Value
    /\ rdPc \in {"lock", "poll", "check", "store", "delay"}
    /\ rdPoll \in {"disc", "input", "holding"}
    /\ rdAt \in 0 .. N
    /\ rdPc = "store" => rdAt \in Reg
    /\ wordResult \in [Reg -> Value \cup {NoValue}]
    /\ rdPc \in {"check", "store"} => wordResult \in Word
    /\ snapshots \in Seq(Word) /\ snapshots # << >>
    /\ panel \in 0 .. MaxPanel
    /\ commanded \in [Reg -> Value \cup {NoValue}]
    /\ sent \in [Reg -> Value \cup {NoValue}]
    /\ overlapped \in [Reg -> BOOLEAN]

(* At most one of the two AP tasks is inside a transaction, and uart_mutex  *)
(* says which: func_code, tx_buf, rx_buf and rx_len of master_ap are shared *)
(* by both (mb_master.c).                                                   *)
MutexOwner ==
    /\ wrPc \in {"scan", "send", "wait", "clear"} <=> uartMutex = "writer"
    /\ rdPc \in {"poll", "check", "store"} <=> uartMutex = "reader"

(* Until a flagged command is transmitted the register holds what the HMI   *)
(* commanded: a poll in between does not restore the old setting, unless    *)
(* the poll had already tested the flag when the command was stored, or     *)
(* tested it between the store and the raising of the flag.                 *)
PendingKept ==
    \A r \in Reg : flags[r] /\ ~overlapped[r] => holdings[r] = commanded[r]

(* No command is silently forgotten: once nothing is pending for a register *)
(* the last value transmitted to the AP is the last value the HMI stored,   *)
(* unless the command met one of three windows: the two of PendingKept, or  *)
(* its flag was raised while the write task was transmitting an older value *)
(* and was lowered when that transmission ended.                            *)
NoCommandForgotten ==
    \A r \in Reg :
        commanded[r] # NoValue /\ ~flags[r] /\ ~HmiBetween(r) /\ ~overlapped[r]
            => sent[r] = commanded[r]

(* A raised flag is eventually lowered: the give of write_sem after the     *)
(* flags wakes the write task even if it was scanning, transmitting or      *)
(* waiting for uart_mutex when the flag went up (no lost wake-up).          *)
FlagsServed == \A r \in Reg : flags[r] ~> ~flags[r]

(* When commands and panel changes cease the mirror converges to the AP and *)
(* stays equal to it, whatever the races, lost frames and late replies did  *)
(* before: no flag is left up to shield a stale value from the polls.       *)
MirrorConverges == <>[](\A r \in Reg : holdings[r] = Device[r])
=============================================================================
