---------------------------- MODULE AcTaskProofs ----------------------------
(***************************************************************************)
(* Proofs about AcTask for any temperatures, any modes, any blocks of      *)
(* commands, any contents of the AC at start and any bounds.               *)
(***************************************************************************)
EXTENDS AcTask, SequenceTheorems, TLAPS

-----------------------------------------------------------------------------
(* Types, one part for each task.  TypeOK alone is not inductive: which     *)
(* entry and which register a task is at has to fit its place.              *)
EntriesTyped ==
    /\ regs \in [Reg -> AnyValue] /\ flags \in [Reg -> BOOLEAN]
    /\ \A r \in Reg : regs[r] \in Values(r)

HmiTyped ==
    /\ writeSem \in BOOLEAN /\ uartMutex \in {"free", "reader", "writer"}
    /\ hmiPc \in {"idle", "store", "flag", "give"}
    /\ hmiTodo \in AllRanges
    /\ hmiPc \in {"store", "flag"} => hmiTodo # << >>
    /\ commands \in 0 .. MaxChanges

WriterTyped ==
    /\ wrPc \in {"sleep", "lock", "test", "heating", "cooling", "send", "wait",
                 "clear", "unlock"}
    /\ wrReg \in Settings /\ wrTo \in DevReg
    /\ wrVal \in AnyValue \cup {NoValue}
    /\ wrPc = "wait" => wrVal \in Values(wrTo)
    /\ wrPc \in {"heating", "cooling"} => wrReg = "set"
    /\ wrPc \in {"send", "wait"} =>
          IF wrReg = "set" THEN wrTo \in {"cool", "heat"} ELSE wrTo = wrReg

Decoding == {"mirrorCool", "mirrorHeat", "check"}
Selecting == {"heating", "cooling", "copyHeat", "copyCool"}

ReaderTyped ==
    /\ rdPc \in {"lock", "poll", "store", "unlock", "delay"}
                    \cup Decoding \cup Selecting
    /\ rdPoll \in {"status", "power", "mode", "temps"}
    /\ rdVal \in AnyValue \cup {NoValue}
    /\ rdPc = "store" => rdVal \in Values(RdEntry)
    /\ rdReply # NoReply => rdReply \in DeviceWord
    /\ rdPc \in Decoding => rdReply # NoReply
    /\ rdPc \in Decoding \cup Selecting \cup {"store"} => rdPoll # "status"
    /\ rdPc \in {"mirrorCool", "mirrorHeat"} \cup Selecting => rdPoll = "temps"

UnitTyped ==
    /\ snapshots \in Seq(DeviceWord) /\ snapshots # << >>
    /\ reliable \in BOOLEAN /\ panel \in 0 .. MaxPanel

HistoryTyped ==
    /\ commanded \in [Settings -> AnyValue \cup {NoValue}]
    /\ sent \in [Settings -> AnyValue \cup {NoValue}]
    /\ overlapped \in [Settings -> BOOLEAN]
    /\ dropped \in BOOLEAN /\ modeMoved \in BOOLEAN

TypeInv ==
    /\ EntriesTyped /\ HmiTyped /\ WriterTyped /\ ReaderTyped /\ UnitTyped
    /\ HistoryTyped

-----------------------------------------------------------------------------
(* The inductive invariant behind PendingKept and NoCommandForgotten, as    *)
(* ApTaskProofs!SyncInv.                                                    *)

\* A command on its way (stored, or stored and flagged) is in its entry.
CommandInPlace ==
    \A r \in Settings : (flags[r] \/ HmiBetween(r)) /\ ~overlapped[r]
                            => regs[r] = commanded[r]

\* A poll about to overwrite a command on its way is a recorded overlap.
PollRecorded ==
    \A r \in Settings : ReaderCommitted(r) /\ (flags[r] \/ HmiBetween(r))
                            => overlapped[r]

\* A setting of which a command has not been flagged yet has been commanded.
BetweenCommanded ==
    \A r \in Settings : HmiBetween(r) => commanded[r] # NoValue

\* The write task is only at flagged settings; what it has transmitted is the last
\* command unless a newer one is on its way or was recorded, or it gave it up.
WriterFaithful ==
    /\ wrPc \in {"heating", "cooling", "send", "wait", "clear"} => flags[wrReg]
    /\ wrPc = "wait" => sent[wrReg] = wrVal
    /\ wrPc = "clear" => wrVal \in {NoValue, sent[wrReg]}
    /\ \A r \in Settings :
          WriterCommitted(r) /\ ~HmiBetween(r) /\ ~overlapped[r]
              => sent[r] = commanded[r] \/ (r = "set" /\ dropped)

SyncInv ==
    /\ CommandInPlace /\ PollRecorded /\ BetweenCommanded /\ WriterFaithful
    /\ NoCommandForgotten

-----------------------------------------------------------------------------
(* What SetpointFollowsMode rests on besides: the mutex, and a reliable     *)
(* line.                                                                    *)
MutexInv ==
    /\ uartMutex = "reader" <=> rdPc \notin {"lock", "delay"}
    /\ uartMutex = "writer" <=> wrPc \notin {"sleep", "lock"}

\* The AC is in the mode last transmitted, and a poll brings what it is in now.
DeviceInMode ==
    reliable =>
        /\ sent["mode"] # NoValue /\ ~(wrPc = "wait" /\ wrReg = "mode")
              => Device["mode"] = sent["mode"]
        /\ rdPoll = "mode" /\ rdPc = "check" => rdReply.mode = Device["mode"]
        /\ rdPoll = "mode" /\ rdPc = "store" => rdVal = Device["mode"]

\* Once commanded, entry 21 holds the mode commanded last, also when no command is
\* on its way any more and the polls store into it again.
ModeInPlace ==
    reliable /\ commanded["mode"] # NoValue /\ ~overlapped["mode"]
        => regs["mode"] = commanded["mode"]

\* The write task has chosen, or is about to choose, the setpoint of that mode.
ChoiceFits ==
    ( /\ reliable /\ wrReg = "set"
      /\ commanded["mode"] \in {Heating, Cooling}
      /\ ~overlapped["mode"] /\ ~modeMoved )
    => /\ wrPc = "cooling" => commanded["mode"] = Cooling
       /\ wrPc \in {"send", "wait"} =>
             wrTo = IF commanded["mode"] = Heating THEN "heat" ELSE "cool"

ModeInv == MutexInv /\ DeviceInMode /\ ModeInPlace /\ ChoiceFits

-----------------------------------------------------------------------------
(* The entries a command changes, and the contents of the AC.               *)

\* A command's entries, spelled out.
LEMMA RangeOf ==
    ASSUME NEW t
    PROVE  t \in AllRanges <=>
              \/ t = << >> \/ t = <<"power">>
              \/ \E i \in 1 .. 4 : \E j \in 1 .. 4 : t = SubSeq(Block, i, j)
<1> HIDE DEF Block
<1> QED
  BY DEF AllRanges

\* A command's entries are settings or mirrors, and the rest of a block is a block.
LEMMA RestOfRange ==
    ASSUME NEW t \in AllRanges, t # << >>
    PROVE  t[1] \in Reg /\ Tail(t) \in AllRanges
<1>1. CASE t = <<"power">>
  BY <1>1 DEF Reg, AllRanges
<1>2. ASSUME NEW i \in 1 .. 4, NEW j \in 1 .. 4, t = SubSeq(Block, i, j)
      PROVE  t[1] \in Reg /\ Tail(t) \in AllRanges
  <2>1. Block \in Seq(Reg) /\ Len(Block) = 4
    BY DEF Block, Reg
  <2> HIDE DEF Block
  <2>2. i <= j
    BY <1>2, SubSeqEmpty
  <2>3. Head(t) = Block[i] /\ Tail(t) = SubSeq(Block, i + 1, j)
    BY <1>2, <2>1, <2>2, HeadTailOfSubSeq
  <2>4. t[1] = Block[i]
    BY <1>2, <2>1, <2>2, ElementOfSeq, SubSeqProperties
  <2>5. Tail(t) \in AllRanges
    <3>1. CASE i = 4
      BY <2>3, <3>1, SubSeqEmpty DEF AllRanges
    <3>2. CASE i < 4
      <4>1. i + 1 \in 1 .. 4
        BY <3>2
      <4> QED
        BY <2>3, <4>1, RangeOf
    <3> QED
      BY <3>1, <3>2
  <2> QED
    BY <2>1, <2>4, <2>5, ElementOfSeq
<1> QED
  BY <1>1, <1>2, RangeOf

\* The AC's registers are a word, and so they are after one of them changes.
LEMMA DeviceKept ==
    ASSUME snapshots \in Seq(DeviceWord), snapshots # << >>
    PROVE  /\ Device \in DeviceWord
           /\ \A r \in DevReg : \A v \in Values(r) :
                 LET s == Append(snapshots, [Device EXCEPT ![r] = v])
                 IN  /\ s \in Seq(DeviceWord) /\ s # << >>
                     /\ s[Len(s)] = [Device EXCEPT ![r] = v]
<1>1. Device \in DeviceWord
  BY ElementOfSeq, EmptySeq DEF Device
<1>2. ASSUME NEW r \in DevReg, NEW v \in Values(r)
      PROVE  [Device EXCEPT ![r] = v] \in DeviceWord
  BY <1>1, <1>2 DEF DeviceWord, DevReg, Values
<1>3. ASSUME NEW w \in DeviceWord
      PROVE  LET s == Append(snapshots, w)
             IN  s \in Seq(DeviceWord) /\ s # << >> /\ s[Len(s)] = w
  BY AppendProperties
<1> QED
  BY <1>1, <1>2, <1>3

\* A late reply leaves the latest contents.
LEMMA SuffixKept ==
    ASSUME snapshots \in Seq(DeviceWord), NEW k \in 1 .. Len(snapshots)
    PROVE  LET s == SubSeq(snapshots, k, Len(snapshots))
           IN  /\ s \in Seq(DeviceWord) /\ s # << >> /\ s[Len(s)] = Device
               /\ snapshots[k] \in DeviceWord
<1> DEFINE s == SubSeq(snapshots, k, Len(snapshots))
<1>1. \A i \in k .. Len(snapshots) : snapshots[i] \in DeviceWord
  BY ElementOfSeq, LenProperties
<1>2. /\ s \in Seq(DeviceWord) /\ Len(s) = Len(snapshots) - k + 1
      /\ \A i \in 1 .. Len(snapshots) - k + 1 : s[i] = snapshots[k + i - 1]
  BY <1>1, LenProperties, SubSeqProperties
<1> HIDE DEF s
<1>3. s[Len(s)] = Device
  BY <1>2, LenProperties DEF Device
<1>4. s # << >>
  BY <1>2, LenProperties, EmptySeq
<1> QED
  BY <1>1, <1>2, <1>3, <1>4 DEF s

-----------------------------------------------------------------------------
(* Type correctness.  A part is kept by the steps that leave its variables  *)
(* alone.                                                                   *)
LEMMA PartsKept ==
    ASSUME TypeInv
    PROVE  /\ UNCHANGED <<regs, flags>> => EntriesTyped'
           /\ UNCHANGED <<writeSem, uartMutex, hmiVars>> => HmiTyped'
           /\ UNCHANGED wrVars => WriterTyped'
           /\ UNCHANGED rdVars => ReaderTyped'
           /\ UNCHANGED <<snapshots, panel, reliable>> => UnitTyped'
           /\ UNCHANGED <<commanded, sent, dropped, overlapped, modeMoved>>
                 => HistoryTyped'
<1> USE DEF TypeInv
<1>1. UNCHANGED <<regs, flags>> => EntriesTyped'
  BY DEF EntriesTyped
<1>2. UNCHANGED <<writeSem, uartMutex, hmiVars>> => HmiTyped'
  BY DEF HmiTyped, hmiVars
<1>3. UNCHANGED wrVars => WriterTyped'
  BY DEF WriterTyped, wrVars
<1>4. UNCHANGED rdVars => ReaderTyped'
  BY DEF ReaderTyped, rdVars, RdEntry
<1>5. UNCHANGED <<snapshots, panel, reliable>> => UnitTyped'
  BY DEF UnitTyped
<1>6. UNCHANGED <<commanded, sent, dropped, overlapped, modeMoved>> => HistoryTyped'
  BY DEF HistoryTyped
<1> QED
  BY <1>1, <1>2, <1>3, <1>4, <1>5, <1>6

\* The types hold at the start.
LEMMA TypeInit == Init => TypeInv
<1> SUFFICES ASSUME Init PROVE TypeInv
  OBVIOUS
<1>1. EntriesTyped
  BY ValueAssumption DEF Init, EntriesTyped, Values, AnyValue
<1>2. HmiTyped
  <2>1. << >> \in AllRanges
    BY RangeOf
  <2>2. hmiTodo \in AllRanges
    BY <2>1 DEF Init
  <2>3. commands \in 0 .. MaxChanges
    BY BoundAssumption DEF Init
  <2> QED
    BY <2>2, <2>3 DEF Init, HmiTyped
<1>3. WriterTyped
  BY DEF Init, WriterTyped, Settings, DevReg
<1>4. ReaderTyped
  BY DEF Init, ReaderTyped, Decoding, Selecting
<1>5. UnitTyped
  <2>1. PICK w \in Initial : snapshots = <<w>>
    BY DEF Init
  <2>2. w \in DeviceWord
    BY BoundAssumption
  <2> QED
    BY <2>1, <2>2, BoundAssumption DEF Init, UnitTyped
<1>6. HistoryTyped
  BY DEF Init, HistoryTyped
<1> QED
  BY <1>1, <1>2, <1>3, <1>4, <1>5, <1>6 DEF TypeInv

\* The HMI task keeps the types.
LEMMA TypeHmi ==
    ASSUME TypeInv, HmiTask
    PROVE  TypeInv'
<1> USE PartsKept DEF TypeInv
<1>1. ASSUME NEW v \in AnyValue, HmiStore(v)
      PROVE  TypeInv'
  <2>1. hmiTodo[1] \in Reg
    BY <1>1, RestOfRange DEF HmiStore, HmiTyped
  <2>2. EntriesTyped'
    BY <1>1, <2>1 DEF HmiStore, EntriesTyped
  <2>3. HmiTyped'
    BY <1>1 DEF HmiStore, HmiTyped
  <2>4. HistoryTyped'
    BY <1>1 DEF HmiStore, HistoryTyped, ReaderCommitted
  <2> QED
    BY <1>1, <2>2, <2>3, <2>4 DEF HmiStore
<1>2. CASE HmiFlag
  <2>1. Tail(hmiTodo) \in AllRanges
    BY <1>2, RestOfRange DEF HmiFlag, HmiTyped
  <2>2. EntriesTyped'
    BY <1>2 DEF HmiFlag, EntriesTyped
  <2>3. HmiTyped'
    BY <1>2, <2>1 DEF HmiFlag, HmiTyped
  <2>4. HistoryTyped'
    BY <1>2 DEF HmiFlag, HistoryTyped, WriterCommitted
  <2> QED
    BY <1>2, <2>2, <2>3, <2>4 DEF HmiFlag
<1>3. CASE HmiGive
  BY <1>3 DEF HmiGive, HmiTyped, history
<1> QED
  BY <1>1, <1>2, <1>3 DEF HmiTask

\* So does the write task.
LEMMA TypeWrite ==
    ASSUME TypeInv, WriteTask
    PROVE  TypeInv'
<1> USE PartsKept DEF TypeInv, history
<1>1. CASE WrTakeSem
  BY <1>1 DEF WrTakeSem, HmiTyped, hmiVars, WriterTyped
<1>2. CASE WrLock
  BY <1>2 DEF WrLock, HmiTyped, hmiVars, WriterTyped, Settings
<1>3. CASE WrTest
  <2>1. WriterTyped'
    BY <1>3 DEF WrTest, WrAdvance, WriterTyped, Settings, DevReg
  <2>2. HistoryTyped'
    BY <1>3 DEF WrTest, HistoryTyped
  <2> QED
    BY <1>3, <2>1, <2>2 DEF WrTest
<1>4. CASE WrHeating
  BY <1>4 DEF WrHeating, WriterTyped, DevReg
<1>5. CASE WrCooling
  <2>1. WriterTyped'
    BY <1>5 DEF WrCooling, WriterTyped, DevReg
  <2>2. HistoryTyped'
    BY <1>5 DEF WrCooling, HistoryTyped
  <2> QED
    BY <1>5, <2>1, <2>2 DEF WrCooling
<1>6. CASE WrSend
  <2>1. regs[wrReg] \in Values(wrTo) /\ regs[wrReg] \in AnyValue
    BY <1>6 DEF WrSend, EntriesTyped, WriterTyped, Settings, Reg, Values
  <2>2. WriterTyped'
    BY <1>6, <2>1 DEF WrSend, WriterTyped
  <2>3. HistoryTyped'
    BY <1>6, <2>1 DEF WrSend, HistoryTyped
  <2> QED
    BY <1>6, <2>2, <2>3 DEF WrSend
<1>7. ASSUME NEW x \in BOOLEAN, WrReturn(x)
      PROVE  TypeInv'
  <2>1. UnitTyped'
    BY <1>7, DeviceKept DEF WrReturn, UnitTyped, WriterTyped
  <2>2. WriterTyped'
    BY <1>7 DEF WrReturn, WriterTyped
  <2> QED
    BY <1>7, <2>1, <2>2 DEF WrReturn
<1>8. CASE WrClear
  <2>1. WriterTyped'
    BY <1>8 DEF WrClear, WrAdvance, WriterTyped, Settings, DevReg
  <2>2. EntriesTyped'
    BY <1>8 DEF WrClear, WrLowered, EntriesTyped
  <2> QED
    BY <1>8, <2>1, <2>2 DEF WrClear
<1>9. CASE WrUnlock
  BY <1>9 DEF WrUnlock, HmiTyped, hmiVars, WriterTyped
<1> QED
  BY <1>1, <1>2, <1>3, <1>4, <1>5, <1>6, <1>7, <1>8, <1>9 DEF WriteTask

\* So does the read task.
LEMMA TypeRead ==
    ASSUME TypeInv, ReadTask
    PROVE  TypeInv'
<1> USE PartsKept DEF TypeInv, history, RdEntry, Decoding, Selecting
<1>1. CASE RdLock
  BY <1>1 DEF RdLock, ReaderTyped, HmiTyped, hmiVars
<1>2. CASE RdStatus
  BY <1>2 DEF RdStatus, ReaderTyped
<1>3. ASSUME NEW k \in 1 .. Len(snapshots), RdAccept(k)
      PROVE  TypeInv'
  <2>1. UnitTyped' /\ rdReply' \in DeviceWord
    BY <1>3, SuffixKept DEF RdAccept, UnitTyped
  <2>2. rdReply' # NoReply
    <3>1. DOMAIN rdReply' = {"power", "mode", "cool", "heat"} /\ DOMAIN NoReply = {}
      BY <2>1 DEF DeviceWord, NoReply
    <3> QED
      BY <3>1
  <2>3. ReaderTyped'
    BY <1>3, <2>1, <2>2 DEF RdAccept, ReaderTyped
  <2> QED
    BY <1>3, <2>1, <2>3 DEF RdAccept
<1>4. CASE RdFail
  BY <1>4 DEF RdFail, ReaderTyped
<1>5. CASE RdMirror
  <2>1. rdReply \in DeviceWord
    BY <1>5 DEF RdMirror, ReaderTyped
  <2>2. rdReply.cool \in Temp /\ rdReply.heat \in Temp
    BY <2>1 DEF DeviceWord
  <2>3. EntriesTyped'
    BY <1>5, <2>2 DEF RdMirror, EntriesTyped, Reg, Values, AnyValue
  <2>4. ReaderTyped'
    BY <1>5 DEF RdMirror, ReaderTyped
  <2> QED
    BY <1>5, <2>3, <2>4 DEF RdMirror
<1>6. CASE RdCheck
  <2>1. CASE Shielded(RdEntry)
    BY <1>6, <2>1 DEF RdCheck, ReaderTyped
  <2>2. CASE ~Shielded(RdEntry)
    <3>1. HistoryTyped'
      BY <1>6, <2>2 DEF RdCheck, HmiBetween, HistoryTyped
    <3>2. rdPoll # "temps" => RdValue \in Values(rdPoll) /\ RdValue \in AnyValue
      BY <1>6 DEF RdCheck, ReaderTyped, RdValue, DeviceWord, Values, AnyValue
    <3>3. rdPoll = "temps" => RdValue \in AnyValue \cup {NoValue}
      BY DEF RdValue, ReaderTyped
    <3>4. ReaderTyped'
      BY <1>6, <2>2, <3>2, <3>3 DEF RdCheck, ReaderTyped
    <3> QED
      BY <1>6, <3>1, <3>4 DEF RdCheck
  <2> QED
    BY <2>1, <2>2
<1>7. CASE RdSelect
  BY <1>7 DEF RdSelect, ReaderTyped
<1>8. CASE RdCopy
  <2>1. regs[RdMirrorOf] \in AnyValue /\ regs[RdMirrorOf] \in Values("set")
    BY DEF RdMirrorOf, Reg, Values, EntriesTyped
  <2>2. ReaderTyped'
    BY <1>8, <2>1 DEF RdCopy, ReaderTyped
  <2> QED
    BY <1>8, <2>2 DEF RdCopy
<1>9. CASE RdStore
  <2>1. rdVal \in Values(RdEntry) /\ RdEntry \in Reg
    BY <1>9 DEF RdStore, Reg, ReaderTyped
  <2>2. rdVal \in AnyValue
    BY <2>1 DEF Values, AnyValue
  <2>3. EntriesTyped'
    BY <1>9, <2>1, <2>2 DEF RdStore, EntriesTyped
  <2>4. ReaderTyped'
    BY <1>9 DEF RdStore, ReaderTyped
  <2> QED
    BY <1>9, <2>3, <2>4 DEF RdStore
<1>10. CASE RdUnlock
  BY <1>10 DEF RdUnlock, NextPoll, ReaderTyped, HmiTyped, hmiVars
<1>11. CASE RdDelay
  BY <1>11 DEF RdDelay, ReaderTyped
<1> QED
  BY <1>1, <1>2, <1>3, <1>4, <1>5, <1>6, <1>7, <1>8, <1>9, <1>10, <1>11
  DEF ReadTask

\* So do the panel and the device.
LEMMA TypeEnvironment ==
    ASSUME TypeInv, Environment
    PROVE  TypeInv'
<1> USE PartsKept, BoundAssumption DEF TypeInv, history
<1>1. ASSUME NEW range \in Ranges, HmiCommand(range)
      PROVE  TypeInv'
  <2>1. commands' \in 0 .. MaxChanges
    BY <1>1 DEF HmiCommand, HmiTyped, UnitTyped
  <2> QED
    BY <1>1, <2>1 DEF HmiCommand, HmiTyped
<1>2. ASSUME NEW r \in DevReg, NEW v \in AnyValue, DevPanel(r, v)
      PROVE  TypeInv'
  <2>1. UnitTyped'
    BY <1>2, DeviceKept DEF DevPanel, UnitTyped
  <2> QED
    BY <1>2, <2>1 DEF DevPanel
<1> QED
  BY <1>1, <1>2 DEF Environment

\* Every step keeps the types.
LEMMA TypeStep == TypeInv /\ [Next]_vars => TypeInv'
<1>1. ASSUME TypeInv, UNCHANGED vars PROVE TypeInv'
  BY <1>1, PartsKept DEF vars, history, TypeInv
<1> QED
  BY <1>1, TypeHmi, TypeWrite, TypeRead, TypeEnvironment DEF Next

(* Type correctness: for any temperatures and modes, every entry only ever  *)
(* holds values of its own kind, also the setpoint, which the read task     *)
(* copies from one of two other entries, and a write is never sent to a     *)
(* register of another kind than the value it carries.                      *)
THEOREM TypeCorrect == Spec => []TypeOK
<1>1. TypeInv => TypeOK
  BY LenProperties
  DEF TypeInv, TypeOK, EntriesTyped, HmiTyped, WriterTyped, ReaderTyped, UnitTyped,
      HistoryTyped, NextPoll, Decoding, Selecting
<1> QED
  BY <1>1, TypeInit, TypeStep, PTL DEF Spec

-----------------------------------------------------------------------------
(* Commands.  SyncInv only looks at these variables.                        *)
SyncVars == <<flags, hmiPc, hmiTodo, wrPc, wrReg, wrVal, rdPc, rdPoll,
              commanded, sent, overlapped, dropped>>

\* A step that leaves them alone and the settings' entries as well keeps it.
LEMMA SyncStutter ==
    ASSUME SyncInv, UNCHANGED SyncVars, \A r \in Settings : regs'[r] = regs[r]
    PROVE  SyncInv'
BY DEF SyncVars, SyncInv, CommandInPlace, PollRecorded, BetweenCommanded,
       WriterFaithful, NoCommandForgotten, HmiBetween, WriterCommitted,
       ReaderCommitted, RdEntry

\* The same of the commands on their way.
LEMMA SyncInit == Init => SyncInv
<1> SUFFICES ASSUME Init PROVE SyncInv
  OBVIOUS
<1>1. /\ \A r \in Settings : ~flags[r] /\ commanded[r] = NoValue
      /\ hmiPc = "idle" /\ wrPc = "sleep" /\ rdPc = "lock"
  BY DEF Init, Settings, Reg
<1> QED
  BY <1>1 DEF SyncInv, CommandInPlace, PollRecorded, BetweenCommanded,
       WriterFaithful, NoCommandForgotten, HmiBetween, WriterCommitted,
       ReaderCommitted, RdEntry

\* The HMI task.  Storing a command puts it in its entry and records a poll
\* already past the flag; raising the flag records an older transmission.
LEMMA SyncHmi ==
    ASSUME TypeInv, SyncInv, HmiTask
    PROVE  SyncInv'
<1> USE DEF HmiBetween, WriterCommitted, ReaderCommitted, RdEntry
<1> DEFINE r0 == hmiTodo[1]
<1>1. ASSUME NEW v \in AnyValue, HmiStore(v)
      PROVE  SyncInv'
  <2>1. r0 \in Reg /\ Settings \subseteq Reg
    BY <1>1, RestOfRange DEF HmiStore, TypeInv, HmiTyped, Settings, Reg
  <2>2. /\ regs'[r0] = v
        /\ r0 \in Settings => /\ commanded'[r0] = v
                              /\ overlapped'[r0] = ReaderCommitted(r0)
        /\ \A r \in Settings \ {r0} : /\ commanded'[r] = commanded[r]
                                      /\ regs'[r] = regs[r]
                                      /\ overlapped'[r] = overlapped[r]
    BY <1>1, <2>1 DEF HmiStore, TypeInv, EntriesTyped
  <2>3. /\ hmiPc = "store" /\ hmiPc' = "flag"
        /\ dropped' = (dropped /\ r0 # "set")
        /\ UNCHANGED <<hmiTodo, flags, sent, wrPc, wrReg, wrVal, rdPc, rdPoll>>
    BY <1>1 DEF HmiStore, wrVars, rdVars
  <2>4. v # NoValue
    BY ValueAssumption
  <2> HIDE DEF r0
  <2>5. hmiTodo[1] = r0
    BY DEF r0
  <2>6. CommandInPlace'
    BY <2>1, <2>2, <2>3, <2>5 DEF SyncInv, CommandInPlace
  <2>7. PollRecorded'
    BY <2>1, <2>2, <2>3, <2>5 DEF SyncInv, PollRecorded
  <2>8. BetweenCommanded'
    BY <2>2, <2>3, <2>4, <2>5 DEF SyncInv, BetweenCommanded
  <2>9. WriterFaithful'
    BY <2>1, <2>2, <2>3, <2>5 DEF SyncInv, WriterFaithful
  <2>10. NoCommandForgotten'
    BY <2>1, <2>2, <2>3, <2>5 DEF SyncInv, NoCommandForgotten
  <2> QED
    BY <2>6, <2>7, <2>8, <2>9, <2>10 DEF SyncInv
<1>2. CASE HmiFlag
  <2>1. r0 \in Reg /\ Settings \subseteq Reg
    BY <1>2, RestOfRange DEF HmiFlag, TypeInv, HmiTyped, Settings, Reg
  <2>2. /\ flags'[r0]
        /\ r0 \in Settings =>
              overlapped'[r0] = (overlapped[r0]
                  \/ (WriterCommitted(r0) /\ wrVal # commanded[r0]))
        /\ \A r \in Settings \ {r0} : /\ flags'[r] = flags[r]
                                      /\ overlapped'[r] = overlapped[r]
    BY <1>2, <2>1 DEF HmiFlag, TypeInv, EntriesTyped, HistoryTyped
  <2>3. /\ hmiPc = "flag" /\ hmiPc' # "flag"
        /\ UNCHANGED <<regs, commanded, sent, dropped, wrPc, wrReg, wrVal, rdPc,
                       rdPoll>>
    BY <1>2 DEF HmiFlag, wrVars, rdVars
  <2>4. wrReg \in Settings
    BY DEF TypeInv, WriterTyped
  <2> HIDE DEF r0
  <2>5. hmiTodo[1] = r0
    BY DEF r0
  <2>6. CommandInPlace'
    BY <2>1, <2>2, <2>3, <2>5 DEF SyncInv, CommandInPlace
  <2>7. PollRecorded'
    BY <2>1, <2>2, <2>3, <2>5 DEF SyncInv, PollRecorded
  <2>8. BetweenCommanded'
    BY <2>3 DEF BetweenCommanded
  <2>9. WriterFaithful'
    BY <2>1, <2>2, <2>3, <2>4, <2>5 DEF SyncInv, WriterFaithful, BetweenCommanded
  <2>10. NoCommandForgotten'
    BY <2>1, <2>2, <2>3, <2>5 DEF SyncInv, NoCommandForgotten
  <2> QED
    BY <2>6, <2>7, <2>8, <2>9, <2>10 DEF SyncInv
<1>3. CASE HmiGive
  BY <1>3 DEF HmiGive, wrVars, rdVars, history, SyncInv, CommandInPlace,
              PollRecorded, BetweenCommanded, WriterFaithful, NoCommandForgotten
<1> QED
  BY <1>1, <1>2, <1>3 DEF HmiTask

\* The write task.  It transmits an entry whose command is in place, records a
\* setpoint it gives up, and lowers the flag of the entry it was at.
LEMMA SyncWrite ==
    ASSUME TypeInv, SyncInv, WriteTask
    PROVE  SyncInv'
<1> USE DEF HmiBetween, WriterCommitted, ReaderCommitted, RdEntry
<1>0. wrReg \in Settings
  BY DEF TypeInv, WriterTyped
<1>1. CASE WrTakeSem \/ WrLock \/ WrUnlock
  BY <1>1 DEF WrTakeSem, WrLock, WrUnlock, hmiVars, rdVars, history, SyncInv,
              CommandInPlace, PollRecorded, BetweenCommanded, WriterFaithful,
              NoCommandForgotten
<1>2. CASE WrTest
  BY <1>2 DEF WrTest, WrAdvance, hmiVars, rdVars, SyncInv, CommandInPlace,
              PollRecorded, BetweenCommanded, WriterFaithful, NoCommandForgotten
<1>3. CASE WrHeating
  BY <1>3 DEF WrHeating, hmiVars, rdVars, history, SyncInv, CommandInPlace,
              PollRecorded, BetweenCommanded, WriterFaithful, NoCommandForgotten
<1>4. CASE WrCooling
  <2>1. wrReg = "set"
    BY <1>4 DEF WrCooling, TypeInv, WriterTyped
  <2>2. CASE wrPc' = "send"
    BY <1>4, <2>2 DEF WrCooling, hmiVars, rdVars, SyncInv, CommandInPlace,
              PollRecorded, BetweenCommanded, WriterFaithful, NoCommandForgotten
  <2>3. CASE wrPc' = "clear" /\ wrVal' = NoValue /\ dropped' = TRUE
    BY <1>4, <2>1, <2>3 DEF WrCooling, hmiVars, rdVars, SyncInv, CommandInPlace,
              PollRecorded, BetweenCommanded, WriterFaithful, NoCommandForgotten
  <2> QED
    BY <1>4, <2>2, <2>3 DEF WrCooling
<1>5. CASE WrSend
  <2>1. flags[wrReg]
    BY <1>5 DEF WrSend, SyncInv, WriterFaithful
  <2>2. /\ sent'[wrReg] = regs[wrReg] /\ wrVal' = regs[wrReg]
        /\ \A r \in Settings \ {wrReg} : sent'[r] = sent[r]
        /\ dropped' = (dropped /\ wrReg # "set")
    BY <1>0, <1>5 DEF WrSend, TypeInv, HistoryTyped
  <2>3. /\ UNCHANGED <<regs, flags, wrReg, hmiPc, hmiTodo, rdPc, rdPoll,
                       commanded, overlapped>>
        /\ wrPc = "send" /\ wrPc' = "wait"
    BY <1>5 DEF WrSend, hmiVars, rdVars
  <2>4. CommandInPlace' /\ PollRecorded' /\ BetweenCommanded'
    BY <2>3 DEF SyncInv, CommandInPlace, PollRecorded, BetweenCommanded
  <2>5. WriterFaithful'
    BY <1>0, <2>1, <2>2, <2>3 DEF SyncInv, CommandInPlace, WriterFaithful
  <2>6. NoCommandForgotten'
    BY <1>0, <2>1, <2>2, <2>3 DEF SyncInv, CommandInPlace, NoCommandForgotten
  <2> QED
    BY <2>4, <2>5, <2>6 DEF SyncInv
<1>6. ASSUME NEW x \in BOOLEAN, WrReturn(x)
      PROVE  SyncInv'
  BY <1>6 DEF WrReturn, hmiVars, rdVars, history, SyncInv, CommandInPlace,
              PollRecorded, BetweenCommanded, WriterFaithful, NoCommandForgotten
<1>7. CASE WrClear
  <2>1. ~flags'[wrReg] /\ \A r \in Settings \ {wrReg} : flags'[r] = flags[r]
    BY <1>0, <1>7 DEF WrClear, WrLowered, TypeInv, EntriesTyped, Settings, Reg
  <2>2. /\ UNCHANGED <<regs, hmiPc, hmiTodo, rdPc, rdPoll, commanded, sent,
                       overlapped, dropped>>
        /\ wrPc = "clear" /\ wrPc' \in {"test", "unlock"}
    BY <1>7 DEF WrClear, WrAdvance, hmiVars, rdVars, history
  <2>3. CommandInPlace' /\ PollRecorded' /\ BetweenCommanded'
    BY <1>0, <2>1, <2>2 DEF SyncInv, CommandInPlace, PollRecorded, BetweenCommanded
  <2>4. WriterFaithful'
    BY <2>2 DEF WriterFaithful
  <2>5. NoCommandForgotten'
    BY <1>0, <2>1, <2>2 DEF SyncInv, WriterFaithful, NoCommandForgotten
  <2> QED
    BY <2>3, <2>4, <2>5 DEF SyncInv
<1> QED
  BY <1>1, <1>2, <1>3, <1>4, <1>5, <1>6, <1>7 DEF WriteTask

\* The read task.  A flag it tests records a command stored but not yet flagged;
\* what it stores meets no command that is not recorded.
LEMMA SyncRead ==
    ASSUME TypeInv, SyncInv, ReadTask
    PROVE  SyncInv'
<1> USE DEF HmiBetween, WriterCommitted, ReaderCommitted, RdEntry
<1>1. CASE RdLock \/ RdStatus \/ RdFail \/ RdUnlock \/ RdDelay
  BY <1>1 DEF RdLock, RdStatus, RdFail, RdUnlock, RdDelay, hmiVars, wrVars,
              history, SyncInv, CommandInPlace, PollRecorded, BetweenCommanded,
              WriterFaithful, NoCommandForgotten
<1>2. ASSUME NEW k \in 1 .. Len(snapshots), RdAccept(k)
      PROVE  SyncInv'
  BY <1>2 DEF RdAccept, hmiVars, wrVars, history, SyncInv, CommandInPlace,
              PollRecorded, BetweenCommanded, WriterFaithful, NoCommandForgotten
<1>3. CASE RdMirror
  <2>1. \A r \in Settings : regs'[r] = regs[r]
    BY <1>3 DEF RdMirror, TypeInv, EntriesTyped, Settings, Reg
  <2>2. /\ rdPc' \in {"mirrorHeat", "check"}
        /\ UNCHANGED <<flags, hmiPc, hmiTodo, wrPc, wrReg, wrVal, commanded,
                       sent, overlapped, dropped>>
    BY <1>3 DEF RdMirror, hmiVars, wrVars, history
  <2> QED
    BY <2>1, <2>2 DEF SyncInv, CommandInPlace, PollRecorded, BetweenCommanded,
                      WriterFaithful, NoCommandForgotten
<1>4. CASE RdCheck
  <2>1. CASE Shielded(RdEntry)
    BY <1>4, <2>1 DEF RdCheck, hmiVars, wrVars, SyncInv, CommandInPlace,
              PollRecorded, BetweenCommanded, WriterFaithful, NoCommandForgotten
  <2>2. CASE ~Shielded(RdEntry)
    <3>1. RdEntry \in Settings /\ ~flags[RdEntry]
      BY <1>4, <2>2 DEF RdCheck, Shielded, TypeInv, ReaderTyped, Settings, Decoding
    <3>2. /\ overlapped'[RdEntry] = (overlapped[RdEntry] \/ HmiBetween(RdEntry))
          /\ \A r \in Settings \ {RdEntry} : overlapped'[r] = overlapped[r]
      BY <1>4, <2>2, <3>1 DEF RdCheck, TypeInv, HistoryTyped
    <3>3. UNCHANGED <<regs, flags, hmiPc, hmiTodo, wrPc, wrReg, wrVal, rdPoll,
                      commanded, sent, dropped>>
      BY <1>4 DEF RdCheck, hmiVars, wrVars
    <3>4. CommandInPlace'
      BY <3>1, <3>2, <3>3 DEF SyncInv, CommandInPlace
    <3>5. PollRecorded'
      BY <3>1, <3>2, <3>3 DEF PollRecorded
    <3>6. BetweenCommanded'
      BY <3>3 DEF SyncInv, BetweenCommanded
    <3>7. WriterFaithful'
      BY <3>1, <3>2, <3>3 DEF SyncInv, WriterFaithful
    <3>8. NoCommandForgotten'
      BY <3>1, <3>2, <3>3 DEF SyncInv, NoCommandForgotten
    <3> QED
      BY <3>4, <3>5, <3>6, <3>7, <3>8 DEF SyncInv
  <2> QED
    BY <2>1, <2>2
<1>5. CASE RdSelect
  BY <1>5 DEF RdSelect, hmiVars, wrVars, history, SyncInv, CommandInPlace,
              PollRecorded, BetweenCommanded, WriterFaithful, NoCommandForgotten
<1>6. CASE RdCopy
  BY <1>6 DEF RdCopy, hmiVars, wrVars, history, SyncInv, CommandInPlace,
              PollRecorded, BetweenCommanded, WriterFaithful, NoCommandForgotten
<1>7. CASE RdStore
  <2>1. RdEntry \in Settings /\ ReaderCommitted(RdEntry)
    BY <1>7 DEF RdStore, TypeInv, ReaderTyped, Settings
  <2>2. /\ \A r \in Settings \ {RdEntry} : regs'[r] = regs[r]
        /\ rdPc' = "unlock"
        /\ UNCHANGED <<flags, hmiPc, hmiTodo, wrPc, wrReg, wrVal, rdPoll,
                       commanded, sent, overlapped, dropped>>
    BY <1>7 DEF RdStore, hmiVars, wrVars, history, TypeInv, EntriesTyped, Settings,
                Reg
  <2>3. CommandInPlace'
    BY <2>1, <2>2 DEF SyncInv, PollRecorded, CommandInPlace
  <2>4. PollRecorded' /\ BetweenCommanded' /\ WriterFaithful' /\ NoCommandForgotten'
    BY <2>2 DEF SyncInv, PollRecorded, BetweenCommanded, WriterFaithful,
                NoCommandForgotten
  <2> QED
    BY <2>3, <2>4 DEF SyncInv
<1> QED
  BY <1>1, <1>2, <1>3, <1>4, <1>5, <1>6, <1>7 DEF ReadTask

\* Every step keeps the commands in place and forgets none.
LEMMA SyncStep == TypeInv /\ SyncInv /\ [Next]_vars => SyncInv'
<1>1. ASSUME SyncInv, NEW range \in Ranges, HmiCommand(range)
      PROVE  SyncInv'
  BY <1>1 DEF HmiCommand, wrVars, rdVars, history, SyncInv, CommandInPlace,
              PollRecorded, BetweenCommanded, WriterFaithful, NoCommandForgotten,
              HmiBetween, WriterCommitted, ReaderCommitted, RdEntry
<1>2. ASSUME SyncInv, NEW r \in DevReg, NEW v \in AnyValue, DevPanel(r, v)
      PROVE  SyncInv'
  BY <1>2, SyncStutter DEF DevPanel, SyncVars, hmiVars, wrVars, rdVars, history
<1>3. ASSUME SyncInv, UNCHANGED vars PROVE SyncInv'
  BY <1>3, SyncStutter DEF vars, SyncVars, hmiVars, wrVars, rdVars, history
<1> QED
  BY <1>1, <1>2, <1>3, SyncHmi, SyncWrite, SyncRead DEF Next, Environment

\* Both together, always.
LEMMA SyncAlways == Spec => [](TypeInv /\ SyncInv)
BY TypeInit, TypeStep, SyncInit, SyncStep, PTL DEF Spec

(* Until its flag is lowered a commanded setting stays what the HMI stored, *)
(* whatever the polls and the copies of the setpoint bring meanwhile.       *)
THEOREM CommandsKept == Spec => []PendingKept
<1>1. SyncInv => PendingKept
  BY DEF SyncInv, CommandInPlace, PendingKept
<1> QED
  BY <1>1, SyncAlways, PTL

(* No command is silently lost: once nothing is pending for a setting, what *)
(* was transmitted last is what was commanded last, the overlaps and the    *)
(* setpoint without a mode excepted.                                        *)
THEOREM CommandsNotForgotten == Spec => []NoCommandForgotten
<1>1. SyncInv => NoCommandForgotten
  BY DEF SyncInv
<1> QED
  BY <1>1, SyncAlways, PTL

-----------------------------------------------------------------------------
(* Wake-ups, as in ApTaskProofs.tla: the flag of a setting is on the way to *)
(* being lowered.  The scan of the write task is its code, setting by       *)
(* setting.                                                                 *)
Ahead(r) ==
    /\ wrPc \in {"test", "heating", "cooling", "send", "wait", "clear"}
    /\ \/ wrReg = "power"
       \/ wrReg = "mode" /\ r # "power"
       \/ wrReg = "set" /\ r = "set"

Awaited(r) ==
    \/ writeSem
    \/ hmiPc \in {"store", "flag", "give"}
    \/ wrPc = "lock"
    \/ Ahead(r)

WakeUpOwed == \A r \in Settings : flags[r] => Awaited(r)

\* The HMI task raises flags before it gives the semaphore.
LEMMA WakeHmi ==
    ASSUME WakeUpOwed, HmiTask
    PROVE  WakeUpOwed'
<1>1. CASE \E v \in AnyValue : HmiStore(v)
  BY <1>1 DEF HmiStore, WakeUpOwed, Awaited
<1>2. CASE HmiFlag
  BY <1>2 DEF HmiFlag, WakeUpOwed, Awaited
<1>3. CASE HmiGive
  BY <1>3 DEF HmiGive, WakeUpOwed, Awaited
<1> QED
  BY <1>1, <1>2, <1>3 DEF HmiTask

\* On to the next setting with the flag of this one down, nothing is passed over.
LEMMA WakeAdvance ==
    ASSUME TypeInv, WakeUpOwed, WrAdvance, wrPc \in {"test", "clear"},
           \A r \in Settings : flags'[r] => flags[r] /\ r # wrReg,
           UNCHANGED <<writeSem, hmiPc>>
    PROVE  WakeUpOwed'
<1>1. wrReg \in {"power", "mode", "set"}
  BY DEF TypeInv, WriterTyped, Settings
<1>2. ASSUME NEW r \in Settings, flags'[r], Ahead(r) PROVE Ahead(r)'
  <2>1. r \in {"power", "mode", "set"} /\ r # wrReg
    BY <1>2 DEF Settings
  <2>2. CASE wrReg = "power"
    BY <2>1, <2>2 DEF Ahead, WrAdvance
  <2>3. CASE wrReg = "mode"
    BY <1>2, <2>1, <2>3 DEF Ahead, WrAdvance
  <2>4. CASE wrReg = "set"
    BY <1>2, <2>1, <2>4 DEF Ahead
  <2> QED BY <1>1, <2>2, <2>3, <2>4
<1> QED
  BY <1>2 DEF WakeUpOwed, Awaited

\* The write task takes the semaphore before its scan, and its scan passes a
\* setting only with the flag down, also when it gives a setpoint up.
LEMMA WakeWrite ==
    ASSUME TypeInv, WakeUpOwed, WriteTask
    PROVE  WakeUpOwed'
<1>1. CASE WrTakeSem
  BY <1>1 DEF WrTakeSem, hmiVars, WakeUpOwed, Awaited
<1>2. CASE WrLock
  BY <1>2 DEF WrLock, hmiVars, WakeUpOwed, Awaited, Ahead
<1>3. CASE WrTest
  <2>1. CASE flags[wrReg]
    <3>1. /\ wrPc = "test" /\ wrPc' \in {"heating", "send"}
          /\ UNCHANGED <<flags, writeSem, hmiPc, wrReg>>
      BY <1>3, <2>1 DEF WrTest, hmiVars
    <3> QED BY <3>1 DEF WakeUpOwed, Awaited, Ahead
  <2>2. CASE ~flags[wrReg]
    <3>1. WrAdvance /\ wrPc = "test" /\ UNCHANGED <<flags, writeSem, hmiPc>>
      BY <1>3, <2>2 DEF WrTest, hmiVars
    <3> QED BY <2>2, <3>1, WakeAdvance
  <2> QED BY <2>1, <2>2
<1>4. CASE WrHeating \/ WrCooling \/ WrSend \/ \E x \in BOOLEAN : WrReturn(x)
  <2>1. /\ wrPc \in {"heating", "cooling", "send", "wait"}
        /\ wrPc' \in {"cooling", "send", "wait", "clear"}
        /\ UNCHANGED <<flags, writeSem, hmiPc, wrReg>>
    BY <1>4 DEF WrHeating, WrCooling, WrSend, WrReturn, hmiVars
  <2> QED BY <2>1 DEF WakeUpOwed, Awaited, Ahead
<1>5. CASE WrClear
  <2>1. WrAdvance /\ wrPc = "clear" /\ flags' = WrLowered /\ UNCHANGED <<writeSem, hmiPc>>
    BY <1>5 DEF WrClear, hmiVars
  <2>2. \A r \in Settings : flags'[r] => flags[r] /\ r # wrReg
    <3>1. flags \in [Reg -> BOOLEAN] /\ \A r \in Settings : r \in Reg
      BY DEF TypeInv, EntriesTyped, Settings, Reg
    <3> QED BY <2>1, <3>1 DEF WrLowered
  <2> QED BY <2>1, <2>2, WakeAdvance
<1>6. CASE WrUnlock
  BY <1>6 DEF WrUnlock, hmiVars, WakeUpOwed, Awaited, Ahead
<1> QED
  BY <1>1, <1>2, <1>3, <1>4, <1>5, <1>6 DEF WriteTask

(* No wake-up is lost: whenever the write task of the AC sleeps on an empty *)
(* write_sem with no command under way, no flag of a setting is up.         *)
THEOREM WakeUpsKept == Spec => []WakeUpOwed
<1>1. Init => WakeUpOwed
  BY DEF Init, WakeUpOwed, Settings, Reg
<1>2. TypeInv /\ WakeUpOwed /\ [Next]_vars => WakeUpOwed'
  <2> SUFFICES ASSUME TypeInv, WakeUpOwed, [Next]_vars PROVE WakeUpOwed'
    OBVIOUS
  <2>1. CASE ReadTask
    <3>1. UNCHANGED <<flags, writeSem, hmiPc, wrPc, wrReg>>
      BY <2>1 DEF ReadTask, RdLock, RdStatus, RdAccept, RdFail, RdMirror, RdCheck,
                  RdSelect, RdCopy, RdStore, RdUnlock, RdDelay, hmiVars, wrVars
    <3> QED BY <3>1 DEF WakeUpOwed, Awaited, Ahead
  <2>2. CASE Environment
    <3>1. /\ UNCHANGED <<flags, writeSem, wrPc, wrReg>>
          /\ hmiPc' = hmiPc \/ hmiPc' \in {"store", "give"}
      BY <2>2 DEF Environment, HmiCommand, DevPanel, hmiVars, wrVars
    <3> QED BY <3>1 DEF WakeUpOwed, Awaited, Ahead
  <2>3. CASE UNCHANGED vars
    BY <2>3 DEF vars, hmiVars, wrVars, WakeUpOwed, Awaited, Ahead
  <2> QED
    BY <2>1, <2>2, <2>3, WakeHmi, WakeWrite DEF Next
<1> QED
  BY <1>1, <1>2, TypeInit, TypeStep, PTL DEF Spec

(* A flag of a setting is only lowered by the write task, for the setting   *)
(* it has just transmitted or given up, and what it has transmitted is the  *)
(* last command unless a newer one is between its store and its flag or the *)
(* command met an open window.                                              *)
LoweredWhenSent ==
    \A r \in Settings :
        flags[r] /\ ~flags'[r]
            => /\ wrPc = "clear" /\ wrReg = r
               /\ \/ HmiBetween(r) \/ overlapped[r]
                  \/ r = "set" /\ dropped
                  \/ sent[r] = commanded[r]

\* That holds of every step that lowers one.
THEOREM FlagsLoweredWhenSent == Spec => [][LoweredWhenSent]_vars
<1>1. TypeInv /\ SyncInv /\ [Next]_vars => [LoweredWhenSent]_vars
  <2> SUFFICES ASSUME TypeInv, SyncInv, Next, NEW r \in Settings, flags[r], ~flags'[r]
               PROVE  /\ wrPc = "clear" /\ wrReg = r
                      /\ \/ HmiBetween(r) \/ overlapped[r]
                         \/ r = "set" /\ dropped
                         \/ sent[r] = commanded[r]
    BY DEF LoweredWhenSent
  <2>1. flags' # flags
    OBVIOUS
  <2>2. ~ReadTask /\ ~Environment
    BY <2>1 DEF ReadTask, RdLock, RdStatus, RdAccept, RdFail, RdMirror, RdCheck,
                RdSelect, RdCopy, RdStore, RdUnlock, RdDelay, Environment,
                HmiCommand, DevPanel
  <2>3. flags \in [Reg -> BOOLEAN] /\ r \in Reg
    BY DEF TypeInv, EntriesTyped, Settings, Reg
  <2>4. ~HmiTask
    <3>1. flags' # [flags EXCEPT ![hmiTodo[1]] = TRUE]
      BY <2>3
    <3> QED BY <2>1, <3>1 DEF HmiTask, HmiStore, HmiFlag, HmiGive
  <2>5. WrClear
    BY <2>1, <2>2, <2>4 DEF Next, WriteTask, WrTakeSem, WrLock, WrTest, WrHeating,
                            WrCooling, WrSend, WrReturn, WrUnlock
  <2>6. wrPc = "clear" /\ flags' = [flags EXCEPT ![wrReg] = FALSE]
    BY <2>5 DEF WrClear, WrLowered
  <2>7. wrReg = r
    BY <2>3, <2>6
  <2> QED
    BY <2>6, <2>7 DEF SyncInv, WriterFaithful, WriterCommitted
<1> QED
  BY <1>1, SyncAlways, PTL DEF Spec

-----------------------------------------------------------------------------
(* The mode.  The mutex first: the AC changes in no poll of the gateway.    *)
LEMMA MutexStep == MutexInv /\ [Next]_vars => MutexInv'
<1> SUFFICES ASSUME MutexInv, [Next]_vars PROVE MutexInv'
  OBVIOUS
<1> USE DEF MutexInv
<1>1. CASE HmiTask
  BY <1>1 DEF HmiTask, HmiStore, HmiFlag, HmiGive, wrVars, rdVars
<1>2. CASE WriteTask
  BY <1>2 DEF WriteTask, WrTakeSem, WrLock, WrTest, WrAdvance, WrHeating,
              WrCooling, WrSend, WrReturn, WrClear, WrUnlock, rdVars
<1>3. CASE ReadTask
  BY <1>3 DEF ReadTask, RdLock, RdStatus, RdAccept, RdFail, RdMirror, RdCheck,
              RdSelect, RdCopy, RdStore, RdUnlock, RdDelay, wrVars
<1>4. CASE Environment
  BY <1>4 DEF Environment, HmiCommand, DevPanel, wrVars, rdVars
<1>5. CASE UNCHANGED vars
  BY <1>5 DEF vars, wrVars, rdVars
<1> QED
  BY <1>1, <1>2, <1>3, <1>4, <1>5 DEF Next

\* The HMI task: a new command for the mode is in entry 21 and recorded in modeMoved.
LEMMA ModeHmi ==
    ASSUME TypeInv, ModeInv, HmiTask
    PROVE  DeviceInMode' /\ ModeInPlace' /\ ChoiceFits'
<1> USE DEF ModeInv
<1>1. ASSUME NEW v \in AnyValue, HmiStore(v)
      PROVE  DeviceInMode' /\ ModeInPlace' /\ ChoiceFits'
  <2>1. hmiTodo[1] \in Reg
    BY <1>1, RestOfRange DEF HmiStore, TypeInv, HmiTyped
  <2>2. /\ hmiTodo[1] = "mode" => /\ commanded'["mode"] = v /\ regs'["mode"] = v
                                  /\ modeMoved'
        /\ hmiTodo[1] # "mode" => /\ commanded'["mode"] = commanded["mode"]
                                  /\ regs'["mode"] = regs["mode"]
                                  /\ overlapped'["mode"] = overlapped["mode"]
                                  /\ modeMoved' = modeMoved
    BY <1>1, <2>1 DEF HmiStore, TypeInv, EntriesTyped, HistoryTyped, Settings, Reg
  <2>3. /\ UNCHANGED <<reliable, sent, wrPc, wrReg, wrTo, rdPc, rdPoll, rdReply,
                       rdVal>>
        /\ Device' = Device
    BY <1>1 DEF HmiStore, wrVars, rdVars, Device
  <2> QED
    BY <2>2, <2>3 DEF DeviceInMode, ModeInPlace, ChoiceFits
<1>2. CASE HmiFlag \/ HmiGive
  <2>1. /\ UNCHANGED <<regs, reliable, sent, commanded, modeMoved, wrPc, wrReg,
                       wrTo, rdPc, rdPoll, rdReply, rdVal>>
        /\ Device' = Device
    BY <1>2 DEF HmiFlag, HmiGive, wrVars, rdVars, history, Device
  <2>2. overlapped["mode"] => overlapped'["mode"]
    BY <1>2 DEF HmiFlag, HmiGive, history, Settings
  <2> QED
    BY <2>1, <2>2 DEF DeviceInMode, ModeInPlace, ChoiceFits
<1> QED
  BY <1>1, <1>2 DEF HmiTask

\* The write task: what it transmits for the mode the AC then is in, and the tests
\* of entry 21 find the mode commanded last.
LEMMA ModeWrite ==
    ASSUME TypeInv, SyncInv, ModeInv, WriteTask
    PROVE  DeviceInMode' /\ ModeInPlace' /\ ChoiceFits'
<1> USE DEF ModeInv
<1>0. wrReg \in Settings
  BY DEF TypeInv, WriterTyped
<1>1. CASE WrTakeSem \/ WrLock \/ WrTest \/ WrClear \/ WrUnlock
  <2>1. /\ UNCHANGED <<regs, reliable, sent, commanded, overlapped, rdPc, rdPoll,
                       rdReply, rdVal>>
        /\ Device' = Device
        /\ wrPc # "wait" /\ wrPc' # "wait" /\ wrPc' # "cooling"
        /\ wrPc' = "send" => wrReg' # "set"
    BY <1>1 DEF WrTakeSem, WrLock, WrTest, WrAdvance, WrClear, WrUnlock, hmiVars,
                rdVars, history, Device
  <2> QED
    BY <2>1 DEF DeviceInMode, ModeInPlace, ChoiceFits
<1>2. CASE WrHeating \/ WrCooling
  <2>1. /\ UNCHANGED <<regs, reliable, sent, commanded, overlapped, modeMoved,
                       rdPc, rdPoll, rdReply, rdVal, wrReg>>
        /\ Device' = Device
        /\ wrPc # "wait" /\ wrPc' # "wait"
    BY <1>2 DEF WrHeating, WrCooling, hmiVars, rdVars, history, Device
  <2>2. DeviceInMode' /\ ModeInPlace'
    BY <2>1 DEF DeviceInMode, ModeInPlace
  <2>3. ChoiceFits'
    <3> SUFFICES ASSUME reliable, wrReg = "set",
                        commanded["mode"] \in {Heating, Cooling},
                        ~overlapped["mode"], ~modeMoved
                 PROVE  /\ wrPc' = "cooling" => commanded["mode"] = Cooling
                        /\ wrPc' = "send" => wrTo' = IF commanded["mode"] = Heating
                                                       THEN "heat" ELSE "cool"
      BY <2>1 DEF ChoiceFits
    <3>1. regs["mode"] = commanded["mode"]
      BY ValueAssumption DEF ModeInPlace, AnyValue
    <3>2. Heating # Cooling
      BY DEF Heating, Cooling
    <3>3. CASE WrHeating
      BY <3>1, <3>2, <3>3 DEF WrHeating
    <3>4. CASE WrCooling
      BY <3>1, <3>2, <3>4 DEF WrCooling
    <3> QED
      BY <1>2, <3>3, <3>4
  <2> QED
    BY <2>2, <2>3
<1>3. CASE WrSend
  <2>1. /\ UNCHANGED <<regs, reliable, commanded, overlapped, modeMoved, rdPc,
                       rdPoll, rdReply, rdVal, wrReg, wrTo>>
        /\ Device' = Device
        /\ wrPc = "send" /\ wrPc' = "wait"
        /\ wrReg # "mode" => sent'["mode"] = sent["mode"]
    BY <1>3 DEF WrSend, hmiVars, rdVars, Device, TypeInv, HistoryTyped, Settings
  <2> QED
    BY <2>1 DEF DeviceInMode, ModeInPlace, ChoiceFits
<1>4. ASSUME NEW x \in BOOLEAN, WrReturn(x)
      PROVE  DeviceInMode' /\ ModeInPlace' /\ ChoiceFits'
  <2>1. /\ UNCHANGED <<regs, reliable, sent, commanded, overlapped, modeMoved,
                       rdPc, rdPoll, rdReply, rdVal, wrReg, wrTo>>
        /\ wrPc = "wait" /\ wrPc' = "clear"
    BY <1>4 DEF WrReturn, hmiVars, rdVars, history
  <2>2. ModeInPlace' /\ ChoiceFits'
    BY <2>1 DEF ModeInPlace, ChoiceFits
  <2>3. rdPc \in {"lock", "delay"}
    BY <2>1 DEF MutexInv
  <2>4. ASSUME reliable
        PROVE  /\ wrReg = "mode" => Device'["mode"] = sent["mode"]
               /\ wrReg # "mode" => Device'["mode"] = Device["mode"]
    <3>1. /\ wrTo \in DevReg /\ wrVal \in Values(wrTo)
          /\ wrTo = "mode" <=> wrReg = "mode"
      BY <2>1 DEF TypeInv, WriterTyped
    <3>2. snapshots \in Seq(DeviceWord) /\ snapshots # << >>
      BY DEF TypeInv, UnitTyped
    <3>3. wrReg = "mode" => sent["mode"] = wrVal
      BY <2>1 DEF SyncInv, WriterFaithful
    <3>4. CASE Device[wrTo] = wrVal
      BY <1>4, <3>1, <3>3, <3>4 DEF WrReturn, Device
    <3>5. CASE Device[wrTo] # wrVal
      <4>1. x
        BY <1>4, <2>4 DEF WrReturn
      <4>2. Device' = [Device EXCEPT ![wrTo] = wrVal]
        <5>1. snapshots' = Append(snapshots, [Device EXCEPT ![wrTo] = wrVal])
          BY <1>4, <3>5, <4>1 DEF WrReturn
        <5>2. Device' = snapshots'[Len(snapshots')]
          BY DEF Device
        <5> QED
          BY <3>1, <3>2, <5>1, <5>2, DeviceKept
      <4>3. Device \in DeviceWord
        BY <3>2, DeviceKept
      <4> QED
        BY <3>1, <3>3, <4>2, <4>3 DEF DeviceWord
    <3> QED
      BY <3>4, <3>5
  <2>5. DeviceInMode'
    BY <2>1, <2>3, <2>4 DEF DeviceInMode
  <2> QED
    BY <2>2, <2>5
<1> QED
  BY <1>1, <1>2, <1>3, <1>4 DEF WriteTask

\* The read task: a poll of the mode brings the mode of the AC, which is the one
\* commanded last unless a command is on its way.
LEMMA ModeRead ==
    ASSUME TypeInv, SyncInv, ModeInv, ReadTask
    PROVE  DeviceInMode' /\ ModeInPlace' /\ ChoiceFits'
<1> USE DEF ModeInv
<1>1. CASE RdLock \/ RdStatus \/ RdFail \/ RdSelect \/ RdCopy \/ RdUnlock \/ RdDelay
  <2>1. /\ UNCHANGED <<regs, reliable, sent, commanded, overlapped, modeMoved,
                       wrPc, wrReg, wrTo>>
        /\ Device' = Device
        /\ rdPc' # "check"
        /\ rdPc' = "store" => rdPoll' = rdPoll /\ rdPoll = "temps"
    BY <1>1 DEF RdLock, RdStatus, RdFail, RdSelect, RdCopy, RdUnlock, RdDelay,
                hmiVars, wrVars, history, Device, TypeInv, ReaderTyped, Selecting
  <2> QED
    BY <2>1 DEF DeviceInMode, ModeInPlace, ChoiceFits
<1>2. ASSUME NEW k \in 1 .. Len(snapshots), RdAccept(k)
      PROVE  DeviceInMode' /\ ModeInPlace' /\ ChoiceFits'
  <2>1. /\ UNCHANGED <<regs, reliable, sent, commanded, overlapped, modeMoved,
                       wrPc, wrReg, wrTo, rdPoll>>
        /\ rdReply' = snapshots[k]
        /\ reliable => k = Len(snapshots)
        /\ rdPc' # "store"
    BY <1>2 DEF RdAccept, hmiVars, wrVars, history
  <2>2. Device' = Device
    BY <1>2, SuffixKept DEF RdAccept, TypeInv, UnitTyped, Device
  <2> QED
    BY <2>1, <2>2 DEF DeviceInMode, ModeInPlace, ChoiceFits, Device
<1>3. CASE RdMirror
  <2>1. /\ UNCHANGED <<reliable, sent, commanded, overlapped, modeMoved, wrPc,
                       wrReg, wrTo, rdPoll, rdReply, rdVal>>
        /\ Device' = Device /\ regs'["mode"] = regs["mode"]
        /\ rdPoll = "temps" /\ rdPc' # "store"
    BY <1>3 DEF RdMirror, hmiVars, wrVars, history, Device, TypeInv, EntriesTyped,
                ReaderTyped, Reg
  <2> QED
    BY <2>1 DEF DeviceInMode, ModeInPlace, ChoiceFits
<1>4. CASE RdCheck
  <2>1. /\ UNCHANGED <<regs, reliable, sent, commanded, modeMoved, wrPc, wrReg,
                       wrTo, rdPoll, rdReply>>
        /\ Device' = Device
        /\ rdPc = "check" /\ rdPc' # "check"
        /\ rdPc' = "store" => rdPoll # "temps" /\ rdVal' = rdReply[rdPoll]
    BY <1>4 DEF RdCheck, RdValue, hmiVars, wrVars, Device
  <2>2. overlapped["mode"] => overlapped'["mode"]
    BY <1>4 DEF RdCheck, TypeInv, HistoryTyped, Settings
  <2> QED
    BY <2>1, <2>2 DEF DeviceInMode, ModeInPlace, ChoiceFits
<1>5. CASE RdStore
  <2>1. /\ UNCHANGED <<reliable, sent, commanded, overlapped, modeMoved, wrPc,
                       wrReg, wrTo, rdPoll, rdReply>>
        /\ Device' = Device
        /\ rdPc = "store" /\ rdPc' = "unlock"
        /\ rdPoll = "mode" => regs'["mode"] = rdVal
        /\ rdPoll # "mode" => regs'["mode"] = regs["mode"]
    BY <1>5 DEF RdStore, RdEntry, hmiVars, wrVars, history, Device, TypeInv,
                EntriesTyped, Reg
  <2>2. DeviceInMode' /\ ChoiceFits'
    BY <2>1 DEF DeviceInMode, ChoiceFits
  <2>3. ModeInPlace'
    <3> SUFFICES ASSUME reliable, commanded["mode"] # NoValue, ~overlapped["mode"],
                        rdPoll = "mode"
                 PROVE  rdVal = commanded["mode"]
      BY <2>1 DEF ModeInPlace
    <3>1. ~flags["mode"] /\ ~HmiBetween("mode")
      BY <2>1 DEF SyncInv, PollRecorded, ReaderCommitted, RdEntry, Settings
    <3>2. sent["mode"] = commanded["mode"]
      BY <3>1 DEF SyncInv, NoCommandForgotten, Settings
    <3>3. wrPc # "wait"
      BY <2>1 DEF MutexInv
    <3> QED
      BY <2>1, <3>2, <3>3 DEF DeviceInMode
  <2> QED
    BY <2>2, <2>3
<1> QED
  BY <1>1, <1>2, <1>3, <1>4, <1>5 DEF ReadTask

\* The mode invariant at the start.
LEMMA ModeInit == Init => ModeInv
BY DEF Init, ModeInv, MutexInv, DeviceInMode, ModeInPlace, ChoiceFits, Settings

\* Every step keeps it.
LEMMA ModeStep == TypeInv /\ SyncInv /\ ModeInv /\ [Next]_vars => ModeInv'
<1> SUFFICES ASSUME TypeInv, SyncInv, ModeInv, [Next]_vars PROVE ModeInv'
  OBVIOUS
<1>1. CASE Environment
  <2>1. /\ UNCHANGED <<regs, sent, commanded, overlapped, modeMoved, wrPc, wrReg,
                       wrTo, rdPc, rdPoll, rdReply, rdVal, reliable>>
        /\ reliable => Device' = Device
    BY <1>1 DEF Environment, HmiCommand, DevPanel, wrVars, rdVars, history, Device
  <2> QED
    BY <2>1, MutexStep DEF ModeInv, DeviceInMode, ModeInPlace, ChoiceFits
<1>2. CASE UNCHANGED vars
  BY <1>2, MutexStep DEF vars, wrVars, rdVars, history, Device, ModeInv,
              DeviceInMode, ModeInPlace, ChoiceFits
<1>3. CASE HmiTask \/ WriteTask \/ ReadTask
  BY <1>3, MutexStep, ModeHmi, ModeWrite, ModeRead DEF ModeInv
<1> QED
  BY <1>1, <1>2, <1>3 DEF Next

(* On a reliable line a setpoint is sent to the register of the mode the    *)
(* HMI last commanded, although the write task reads the mode from an entry *)
(* that the HMI task and the polls store into without a lock.               *)
THEOREM SetpointsFollowMode == Spec => []SetpointFollowsMode
<1>1. ModeInv => SetpointFollowsMode
  BY DEF ModeInv, ChoiceFits, SetpointFollowsMode
<1> QED
  BY <1>1, TypeInit, TypeStep, SyncInit, SyncStep, ModeInit, ModeStep, PTL DEF Spec
=============================================================================
