---------------------------- MODULE ApTaskProofs ----------------------------
(***************************************************************************)
(* Proofs about ApTask for any number of registers, any set of values and  *)
(* any bounds, and, in the second part, about LinkTiming, the line its two *)
(* tasks share, for any number of polls, any timeout, pause and bounds.    *)
(***************************************************************************)
EXTENDS ApTask, LinkTiming, Integers, TLAPS

-----------------------------------------------------------------------------
(* The inductive invariant behind PendingKept and NoCommandForgotten.  It   *)
(* extends both to the moments at which a task is between two accesses.     *)

\* A command on its way (stored, or stored and flagged) is in its register.
CommandInPlace ==
    \A r \in Reg : (flags[r] \/ HmiBetween(r)) /\ ~overlapped[r]
                       => holdings[r] = commanded[r]

\* A poll about to overwrite a command on its way is a recorded overlap.
PollRecorded ==
    \A r \in Reg : ReaderCommitted(r) /\ (flags[r] \/ HmiBetween(r))
                       => overlapped[r]

\* The write task transmits only what is flagged; what it has transmitted is
\* the last command unless a newer one is on its way or was recorded.
WriterFaithful ==
    /\ wrPc \in {"send", "wait", "clear"} => flags[wrAt]
    /\ wrPc \in {"wait", "clear"} => sent[wrAt] = wrVal
    /\ \A r \in Reg :
          WriterCommitted(r) /\ ~HmiBetween(r) /\ ~overlapped[r]
              => sent[r] = commanded[r]

SyncInv ==
    /\ CommandInPlace
    /\ PollRecorded
    /\ WriterFaithful
    /\ NoCommandForgotten

-----------------------------------------------------------------------------
\* The AP's registers are a word, and so they are after one of them changes.
LEMMA DeviceWord ==
    ASSUME snapshots \in Seq(Word), snapshots # << >>
    PROVE  /\ Device \in Word
           /\ \A r \in Reg, v \in Value :
                 LET s == Append(snapshots, [Device EXCEPT ![r] = v])
                 IN  s \in Seq(Word) /\ s # << >>
<1>1. Device \in Word
  BY DEF Device
<1>2. \A r \in Reg, v \in Value : [Device EXCEPT ![r] = v] \in Word
  BY <1>1 DEF Word
<1> QED
  BY <1>1, <1>2

\* A late reply leaves a non-empty sequence of contents.
LEMMA SuffixWord ==
    ASSUME snapshots \in Seq(Word), NEW k \in 1 .. Len(snapshots)
    PROVE  /\ SubSeq(snapshots, k, Len(snapshots)) \in Seq(Word)
           /\ SubSeq(snapshots, k, Len(snapshots)) # << >>
<1> DEFINE s == SubSeq(snapshots, k, Len(snapshots))
<1>1. s \in Seq(Word)
  BY SMTT(20)
<1>2. Len(s) = Len(snapshots) - k + 1
  BY SMTT(20)
<1>3. Len(s) # 0
  <2> HIDE DEF s
  <2> QED BY <1>2
<1>4. s # << >>
  <2> HIDE DEF s
  <2> QED BY <1>3
<1> QED
  BY <1>1, <1>4

(* Type correctness: in every behaviour, for every N, each variable keeps   *)
(* its type; in particular the loops of the three tasks never index a       *)
(* register outside 0 .. N - 1.                                             *)
THEOREM TypeCorrect == Spec => []TypeOK
<1>1. Init => TypeOK
  <2> SUFFICES ASSUME Init PROVE TypeOK
    OBVIOUS
  <2>1. snapshots \in Seq(Word) /\ snapshots # << >>
    BY DEF Init
  <2>2. holdings \in Word
    BY ValueAssumption DEF Init, Word
  <2>3. /\ wordResult \in [Reg -> Value \cup {NoValue}]
        /\ commanded \in [Reg -> Value \cup {NoValue}]
        /\ sent \in [Reg -> Value \cup {NoValue}]
        /\ flags \in [Reg -> BOOLEAN] /\ overlapped \in [Reg -> BOOLEAN]
    BY DEF Init
  <2>4. 0 \in 0 .. N /\ 0 \in 0 .. MaxCommands /\ 0 \in 0 .. MaxPanel
    BY NAssumption, BoundAssumption
  <2> QED
    BY <2>1, <2>2, <2>3, <2>4 DEF Init, TypeOK
<1>2. TypeOK /\ [Next]_vars => TypeOK'
  <2> SUFFICES ASSUME TypeOK, [Next]_vars PROVE TypeOK'
    OBVIOUS
  <2> USE NAssumption, BoundAssumption DEF TypeOK, Reg
  <2>1. ASSUME NEW first \in Reg, NEW last \in first .. N, HmiCommand(first, last)
        PROVE  TypeOK'
    BY <2>1 DEF HmiCommand, wrVars, rdVars, history
  <2>2. ASSUME NEW v \in Value, HmiStore(v)
        PROVE  TypeOK'
    BY <2>2 DEF HmiStore, wrVars, rdVars, Word, ReaderCommitted
  <2>3. CASE HmiFlag
    BY <2>3 DEF HmiFlag, wrVars, rdVars, WriterCommitted
  <2>4. CASE HmiGive
    BY <2>4 DEF HmiGive, wrVars, rdVars, history
  <2>5. CASE WrTakeSem
    <3>1. writeSem' \in BOOLEAN /\ wrPc' = "lock"
      BY <2>5, Zenon DEF WrTakeSem
    <3>2. UNCHANGED <<holdings, flags, uartMutex, hmiVars, wrAt, wrVal, rdVars,
                      snapshots, panel, history>>
      BY <2>5, Zenon DEF WrTakeSem
    <3> QED
      BY <3>1, <3>2 DEF hmiVars, rdVars, history
  <2>6. CASE WrLock
    BY <2>6 DEF WrLock, hmiVars, rdVars, history
  <2>7. CASE WrScan
    BY <2>7 DEF WrScan, hmiVars, rdVars, history
  <2>8. CASE WrSend
    BY <2>8 DEF WrSend, hmiVars, rdVars, Word
  <2>9. ASSUME NEW x \in BOOLEAN, WrReturn(x)
        PROVE  TypeOK'
    <3>1. snapshots' \in Seq(Word) /\ snapshots' # << >>
      BY <2>9, DeviceWord DEF WrReturn
    <3> QED
      BY <2>9, <3>1 DEF WrReturn, hmiVars, rdVars, history
  <2>10. CASE WrClear
    BY <2>10 DEF WrClear, hmiVars, rdVars, history
  <2>11. CASE WrUnlock
    BY <2>11 DEF WrUnlock, hmiVars, rdVars, history
  <2>12. CASE RdLock
    BY <2>12 DEF RdLock, hmiVars, wrVars, history
  <2>13. CASE RdStatus
    BY <2>13 DEF RdStatus, hmiVars, wrVars, history
  <2>14. ASSUME NEW k \in 1 .. Len(snapshots), RdAccept(k)
         PROVE  TypeOK'
    <3>1. snapshots[k] \in Word
      BY <2>14
    <3>2. snapshots' \in Seq(Word) /\ snapshots' # << >>
      BY <2>14, SuffixWord DEF RdAccept
    <3>3. wordResult' \in Word
      BY <2>14, <3>1 DEF RdAccept
    <3>4. wordResult' \in [Reg -> Value \cup {NoValue}]
      BY <3>3 DEF Word
    <3> QED
      BY <2>14, <3>2, <3>3, <3>4 DEF RdAccept, hmiVars, wrVars, history
  <2>15. CASE RdFail
    BY <2>15 DEF RdFail, hmiVars, wrVars, history
  <2>16. CASE RdCheck
    <3>1. rdAt \in Reg
      BY <2>16 DEF RdCheck
    <3>2. CASE flags[rdAt]
      BY <2>16, <3>1, <3>2 DEF RdCheck, hmiVars, wrVars
    <3>3. CASE ~flags[rdAt]
      <4>1. overlapped' \in [Reg -> BOOLEAN]
        BY <2>16, <3>3 DEF RdCheck, HmiBetween
      <4> QED
        BY <2>16, <3>1, <3>3, <4>1 DEF RdCheck, hmiVars, wrVars
    <3> QED
      BY <3>2, <3>3
  <2>17. CASE RdStore
    BY <2>17 DEF RdStore, hmiVars, wrVars, history, Word
  <2>18. CASE RdUnlock
    BY <2>18 DEF RdUnlock, hmiVars, wrVars, history
  <2>19. CASE RdDelay
    BY <2>19 DEF RdDelay, hmiVars, wrVars, history
  <2>20. ASSUME NEW r \in Reg, NEW v \in Value, DevPanel(r, v)
         PROVE  TypeOK'
    <3>1. snapshots' \in Seq(Word) /\ snapshots' # << >>
      BY <2>20, DeviceWord DEF DevPanel
    <3> QED
      BY <2>20, <3>1 DEF DevPanel, hmiVars, wrVars, rdVars, history
  <2>21. CASE UNCHANGED vars
    BY <2>21 DEF vars, hmiVars, wrVars, rdVars, history
  <2> QED
    BY <2>1, <2>2, <2>3, <2>4, <2>5, <2>6, <2>7, <2>8, <2>9, <2>10, <2>11,
       <2>12, <2>13, <2>14, <2>15, <2>16, <2>17, <2>18, <2>19, <2>20, <2>21
    DEF Next, HmiTask, WriteTask, ReadTask, Environment
<1> QED
  BY <1>1, <1>2, PTL DEF Spec

-----------------------------------------------------------------------------
(* Mutual exclusion of the two AP tasks on master_ap: MutexOwner is         *)
(* inductive as it stands.                                                  *)
THEOREM MutualExclusion == Spec => []MutexOwner
<1>1. Init => MutexOwner
  BY DEF Init, MutexOwner
<1>2. MutexOwner /\ [Next]_vars => MutexOwner'
  <2> SUFFICES ASSUME MutexOwner, [Next]_vars PROVE MutexOwner'
    OBVIOUS
  <2> USE DEF MutexOwner
  <2>1. CASE HmiTask
    BY <2>1 DEF HmiTask, HmiStore, HmiFlag, HmiGive, wrVars, rdVars
  <2>2. CASE WriteTask
    BY <2>2 DEF WriteTask, WrTakeSem, WrLock, WrScan, WrSend, WrReturn,
                WrClear, WrUnlock, rdVars
  <2>3. CASE ReadTask
    BY <2>3 DEF ReadTask, RdLock, RdStatus, RdAccept, RdFail, RdCheck, RdStore,
                RdUnlock, RdDelay, wrVars
  <2>4. CASE Environment
    BY <2>4 DEF Environment, HmiCommand, DevPanel, wrVars, rdVars
  <2>5. CASE UNCHANGED vars
    BY <2>5 DEF vars, wrVars, rdVars
  <2> QED
    BY <2>1, <2>2, <2>3, <2>4, <2>5 DEF Next
<1> QED
  BY <1>1, <1>2, PTL DEF Spec

-----------------------------------------------------------------------------
\* SyncInv only looks at these variables, so a step that leaves them alone and
\* moves neither the write task nor the read task into a window keeps it.
SyncVars == <<holdings, flags, hmiPc, hmiAt, wrPc, wrAt, wrVal, rdPc, rdAt,
              commanded, sent, overlapped>>

\* The invariant is about SyncVars alone.
LEMMA SyncStutter ==
    ASSUME SyncInv, UNCHANGED SyncVars
    PROVE  SyncInv'
BY DEF SyncVars, SyncInv, CommandInPlace, PollRecorded, WriterFaithful,
       NoCommandForgotten, HmiBetween, WriterCommitted, ReaderCommitted

\* It holds at the start.
LEMMA SyncInit == Init => SyncInv
BY DEF Init, SyncInv, CommandInPlace, PollRecorded, WriterFaithful,
       NoCommandForgotten, HmiBetween, WriterCommitted, ReaderCommitted

\* The HMI task.  Storing a command puts it in its register and records a poll
\* already past the flag; raising the flag records an older transmission.
LEMMA SyncHmi ==
    ASSUME TypeOK, SyncInv, HmiTask
    PROVE  SyncInv'
<1> USE DEF HmiBetween, WriterCommitted, ReaderCommitted
<1>1. ASSUME NEW v \in Value, HmiStore(v)
      PROVE  SyncInv'
  <2>1. hmiAt \in Reg
    BY <1>1, NAssumption DEF HmiStore, TypeOK, Reg
  <2>2. /\ commanded'[hmiAt] = v /\ holdings'[hmiAt] = v
        /\ overlapped'[hmiAt] = (rdPc = "store" /\ rdAt = hmiAt)
        /\ \A r \in Reg \ {hmiAt} : /\ commanded'[r] = commanded[r]
                                    /\ holdings'[r] = holdings[r]
                                    /\ overlapped'[r] = overlapped[r]
    BY <1>1, <2>1 DEF HmiStore, TypeOK, Word
  <2>3. /\ hmiPc = "store" /\ hmiPc' = "flag"
        /\ UNCHANGED <<hmiAt, flags, sent, wrPc, wrAt, wrVal, rdPc, rdAt>>
    BY <1>1 DEF HmiStore, wrVars, rdVars
  <2>4. CommandInPlace'
    BY <2>1, <2>2, <2>3 DEF SyncInv, CommandInPlace
  <2>5. PollRecorded'
    BY <2>1, <2>2, <2>3 DEF SyncInv, PollRecorded
  <2>6. WriterFaithful'
    BY <2>1, <2>2, <2>3 DEF SyncInv, WriterFaithful
  <2>7. NoCommandForgotten'
    BY <2>1, <2>2, <2>3 DEF SyncInv, NoCommandForgotten
  <2> QED
    BY <2>4, <2>5, <2>6, <2>7 DEF SyncInv
<1>2. CASE HmiFlag
  <2>1. hmiAt \in Reg /\ hmiAt \in Nat
    BY <1>2, NAssumption DEF HmiFlag, TypeOK, Reg
  <2>2. /\ flags'[hmiAt]
        /\ overlapped'[hmiAt] = (overlapped[hmiAt]
               \/ (WriterCommitted(hmiAt) /\ wrVal # commanded[hmiAt]))
        /\ \A r \in Reg \ {hmiAt} : /\ flags'[r] = flags[r]
                                    /\ overlapped'[r] = overlapped[r]
    BY <1>2, <2>1 DEF HmiFlag, TypeOK
  <2>3. /\ hmiPc = "flag" /\ hmiPc' # "flag"
        /\ UNCHANGED <<holdings, commanded, sent, wrPc, wrAt, wrVal, rdPc, rdAt>>
    BY <1>2 DEF HmiFlag, wrVars, rdVars
  <2>4. CommandInPlace'
    BY <2>1, <2>2, <2>3 DEF SyncInv, CommandInPlace
  <2>5. PollRecorded'
    BY <2>1, <2>2, <2>3 DEF SyncInv, PollRecorded
  <2>6. WriterFaithful'
    <3>1. wrPc \in {"send", "wait", "clear"} => wrAt \in Reg
      BY DEF TypeOK
    <3> QED
      BY <2>1, <2>2, <2>3, <3>1 DEF SyncInv, WriterFaithful
  <2>7. NoCommandForgotten'
    BY <2>1, <2>2, <2>3 DEF SyncInv, NoCommandForgotten
  <2> QED
    BY <2>4, <2>5, <2>6, <2>7 DEF SyncInv
<1>3. CASE HmiGive
  BY <1>3 DEF HmiGive, wrVars, rdVars, history, SyncInv, CommandInPlace,
              PollRecorded, WriterFaithful, NoCommandForgotten
<1> QED
  BY <1>1, <1>2, <1>3 DEF HmiTask

\* The write task.  It transmits a register whose command is in place, and
\* lowers the flag of the register it transmitted.
LEMMA SyncWrite ==
    ASSUME TypeOK, SyncInv, WriteTask
    PROVE  SyncInv'
<1> USE DEF HmiBetween, WriterCommitted, ReaderCommitted
<1>1. CASE WrTakeSem \/ WrLock \/ WrUnlock
  BY <1>1 DEF WrTakeSem, WrLock, WrUnlock, hmiVars, rdVars, history, SyncInv,
              CommandInPlace, PollRecorded, WriterFaithful, NoCommandForgotten
<1>2. CASE WrScan
  BY <1>2 DEF WrScan, hmiVars, rdVars, history, SyncInv, CommandInPlace,
              PollRecorded, WriterFaithful, NoCommandForgotten
<1>3. CASE WrSend
  <2>1. wrAt \in Reg /\ flags[wrAt]
    BY <1>3 DEF WrSend, TypeOK, SyncInv, WriterFaithful
  <2>2. /\ sent'[wrAt] = holdings[wrAt] /\ wrVal' = holdings[wrAt]
        /\ \A r \in Reg \ {wrAt} : sent'[r] = sent[r]
    BY <1>3, <2>1 DEF WrSend, TypeOK
  <2>3. /\ UNCHANGED <<holdings, flags, wrAt, hmiPc, hmiAt, rdPc, rdAt,
                       commanded, overlapped>>
        /\ wrPc' = "wait"
    BY <1>3 DEF WrSend, hmiVars, rdVars
  <2>4. CommandInPlace' /\ PollRecorded'
    BY <2>3 DEF SyncInv, CommandInPlace, PollRecorded
  <2>5. WriterFaithful'
    BY <2>1, <2>2, <2>3 DEF SyncInv, CommandInPlace, WriterFaithful
  <2>6. NoCommandForgotten'
    BY <2>1, <2>2, <2>3 DEF SyncInv, NoCommandForgotten
  <2> QED
    BY <2>4, <2>5, <2>6 DEF SyncInv
<1>4. ASSUME NEW x \in BOOLEAN, WrReturn(x)
      PROVE  SyncInv'
  BY <1>4 DEF WrReturn, hmiVars, rdVars, history, SyncInv, CommandInPlace,
              PollRecorded, WriterFaithful, NoCommandForgotten
<1>5. CASE WrClear
  <2>1. wrAt \in Reg
    BY <1>5 DEF WrClear, TypeOK
  <2>2. ~flags'[wrAt] /\ \A r \in Reg \ {wrAt} : flags'[r] = flags[r]
    BY <1>5, <2>1 DEF WrClear, TypeOK
  <2>3. /\ UNCHANGED <<holdings, hmiPc, hmiAt, rdPc, rdAt, commanded, sent,
                       overlapped>>
        /\ wrPc = "clear" /\ wrPc' = "scan"
    BY <1>5 DEF WrClear, hmiVars, rdVars, history
  <2>4. CommandInPlace' /\ PollRecorded'
    BY <2>1, <2>2, <2>3 DEF SyncInv, CommandInPlace, PollRecorded
  <2>5. WriterFaithful'
    BY <2>3 DEF WriterFaithful
  <2>6. NoCommandForgotten'
    BY <2>1, <2>2, <2>3 DEF SyncInv, WriterFaithful, NoCommandForgotten
  <2> QED
    BY <2>4, <2>5, <2>6 DEF SyncInv
<1> QED
  BY <1>1, <1>2, <1>3, <1>4, <1>5 DEF WriteTask

\* The read task.  It overwrites a command on its way only if that overlap was
\* recorded when it passed the flag or when the command was stored.
LEMMA SyncRead ==
    ASSUME TypeOK, SyncInv, ReadTask
    PROVE  SyncInv'
<1> USE DEF HmiBetween, WriterCommitted, ReaderCommitted
<1>1. CASE RdLock \/ RdStatus \/ RdFail \/ RdUnlock \/ RdDelay
  BY <1>1 DEF RdLock, RdStatus, RdFail, RdUnlock, RdDelay, hmiVars, wrVars,
              history, SyncInv, CommandInPlace, PollRecorded, WriterFaithful,
              NoCommandForgotten
<1>2. ASSUME NEW k \in 1 .. Len(snapshots), RdAccept(k)
      PROVE  SyncInv'
  BY <1>2 DEF RdAccept, hmiVars, wrVars, history, SyncInv, CommandInPlace,
              PollRecorded, WriterFaithful, NoCommandForgotten
<1>3. CASE RdCheck
  <2>1. rdAt \in Reg
    BY <1>3, NAssumption DEF RdCheck, TypeOK, Reg
  <2>2. CASE flags[rdAt]
    BY <1>3, <2>2 DEF RdCheck, hmiVars, wrVars, SyncInv, CommandInPlace,
                      PollRecorded, WriterFaithful, NoCommandForgotten
  <2>3. CASE ~flags[rdAt]
    <3>1. /\ overlapped'[rdAt] = (overlapped[rdAt] \/ HmiBetween(rdAt))
          /\ \A r \in Reg \ {rdAt} : overlapped'[r] = overlapped[r]
      BY <1>3, <2>1, <2>3 DEF RdCheck, TypeOK
    <3>2. /\ UNCHANGED <<holdings, flags, hmiPc, hmiAt, wrPc, wrAt, wrVal, rdAt,
                         commanded, sent>>
          /\ rdPc = "check" /\ rdPc' = "store"
      BY <1>3, <2>3 DEF RdCheck, hmiVars, wrVars
    <3>3. CommandInPlace' /\ WriterFaithful' /\ NoCommandForgotten'
      BY <2>1, <3>1, <3>2
      DEF SyncInv, CommandInPlace, WriterFaithful, NoCommandForgotten
    <3>4. PollRecorded'
      BY <2>1, <2>3, <3>1, <3>2 DEF PollRecorded
    <3> QED
      BY <3>3, <3>4 DEF SyncInv
  <2> QED
    BY <2>2, <2>3
<1>4. CASE RdStore
  <2>1. rdAt \in Reg
    BY <1>4 DEF RdStore, TypeOK
  <2>2. \A r \in Reg \ {rdAt} : holdings'[r] = holdings[r]
    BY <1>4, <2>1 DEF RdStore, TypeOK, Word
  <2>3. /\ UNCHANGED <<flags, hmiPc, hmiAt, wrPc, wrAt, wrVal, commanded, sent,
                       overlapped>>
        /\ rdPc = "store" /\ rdPc' = "check"
    BY <1>4 DEF RdStore, hmiVars, wrVars, history
  <2>4. CommandInPlace'
    BY <2>1, <2>2, <2>3 DEF SyncInv, CommandInPlace, PollRecorded
  <2>5. PollRecorded' /\ WriterFaithful' /\ NoCommandForgotten'
    BY <2>3 DEF SyncInv, PollRecorded, WriterFaithful, NoCommandForgotten
  <2> QED
    BY <2>4, <2>5 DEF SyncInv
<1> QED
  BY <1>1, <1>2, <1>3, <1>4 DEF ReadTask

\* The environment, and a stutter, touch nothing SyncInv looks at.
LEMMA SyncEnvironment ==
    ASSUME SyncInv, Environment \/ UNCHANGED vars
    PROVE  SyncInv'
<1>1. ASSUME NEW first, NEW last, HmiCommand(first, last)
      PROVE  SyncInv'
  BY <1>1 DEF HmiCommand, wrVars, rdVars, history, SyncInv, CommandInPlace,
              PollRecorded, WriterFaithful, NoCommandForgotten, HmiBetween,
              WriterCommitted, ReaderCommitted
<1>2. ASSUME NEW r, NEW v, DevPanel(r, v)
      PROVE  SyncInv'
  BY <1>2, SyncStutter
  DEF DevPanel, hmiVars, wrVars, rdVars, history, SyncVars
<1>3. CASE UNCHANGED vars
  BY <1>3, SyncStutter DEF vars, hmiVars, wrVars, rdVars, history, SyncVars
<1> QED
  BY <1>1, <1>2, <1>3 DEF Environment

\* It holds always.
LEMMA SyncAlways == Spec => []SyncInv
<1>1. TypeOK /\ SyncInv /\ [Next]_vars => SyncInv'
  BY SyncHmi, SyncWrite, SyncRead, SyncEnvironment DEF Next
<1> QED
  BY <1>1, SyncInit, TypeCorrect, PTL DEF Spec

(* A pending command stays in its register (PendingKept), in every          *)
(* behaviour and for every number of registers, values and commands: what   *)
(* the poll's test of the flag (mb_ap_task.c:43) does guarantee.            *)
THEOREM CommandsKept == Spec => []PendingKept
<1>1. SyncInv => PendingKept
  BY DEF SyncInv, CommandInPlace, PendingKept
<1> QED
  BY <1>1, SyncAlways, PTL

(* No command is forgotten outside the three windows (NoCommandForgotten):  *)
(* the last value transmitted is the last one commanded once no flag is up. *)
THEOREM CommandsNotForgotten == Spec => []NoCommandForgotten
<1>1. SyncInv => NoCommandForgotten
  BY DEF SyncInv
<1> QED
  BY <1>1, SyncAlways, PTL

-----------------------------------------------------------------------------
(* Wake-ups: the part of FlagsServed that is safety.  A raised flag is on   *)
(* the way to being lowered: write_sem is given, or a command under way is  *)
(* going to give it, or the write task has been woken and its scan has not  *)
(* passed the register.  What is left to fairness is that those tasks run.  *)
Awaited(r) ==
    \/ writeSem
    \/ hmiPc \in {"store", "flag", "give"}
    \/ wrPc = "lock"
    \/ wrPc \in {"scan", "send", "wait", "clear"} /\ wrAt <= r

WakeUpOwed == \A r \in Reg : flags[r] => Awaited(r)

\* The HMI task raises flags before it gives the semaphore.
LEMMA WakeHmi ==
    ASSUME WakeUpOwed, HmiTask
    PROVE  WakeUpOwed'
<1>1. CASE \E v \in Value : HmiStore(v)
  BY <1>1 DEF HmiStore, wrVars, WakeUpOwed, Awaited
<1>2. CASE HmiFlag
  BY <1>2 DEF HmiFlag, WakeUpOwed, Awaited
<1>3. CASE HmiGive
  BY <1>3 DEF HmiGive, WakeUpOwed, Awaited
<1> QED
  BY <1>1, <1>2, <1>3 DEF HmiTask

\* The write task takes the semaphore before its scan, and its scan passes a
\* register only with the flag down.
LEMMA WakeWrite ==
    ASSUME TypeOK, WakeUpOwed, WriteTask
    PROVE  WakeUpOwed'
<1> USE DEF WakeUpOwed, Awaited
<1>1. CASE WrTakeSem
  BY <1>1 DEF WrTakeSem
<1>2. CASE WrLock
  BY <1>2 DEF WrLock, Reg, hmiVars
<1>3. CASE WrScan
  <2>1. ~flags[wrAt] \/ UNCHANGED wrAt
    BY <1>3 DEF WrScan
  <2>2. /\ wrPc = "scan" /\ wrPc' \in {"scan", "send"} /\ wrAt' \in {wrAt, wrAt + 1}
        /\ UNCHANGED <<flags, writeSem, hmiPc>>
    BY <1>3 DEF WrScan, hmiVars
  <2>3. ASSUME NEW r \in Reg, wrAt <= r, flags[r] PROVE wrAt' <= r
    <3>1. r \in Int /\ wrAt \in Int
      BY NAssumption DEF Reg, TypeOK
    <3> QED BY <2>1, <2>2, <2>3, <3>1
  <2> QED BY <2>2, <2>3
<1>4. CASE WrSend
  BY <1>4 DEF WrSend, hmiVars
<1>5. CASE \E x \in BOOLEAN : WrReturn(x)
  BY <1>5 DEF WrReturn, hmiVars
<1>6. CASE WrClear
  <2>1. /\ wrAt \in Reg /\ wrPc = "clear" /\ wrPc' = "scan" /\ wrAt' = wrAt + 1
        /\ flags' = [flags EXCEPT ![wrAt] = FALSE]
        /\ UNCHANGED <<writeSem, hmiPc>>
    BY <1>6 DEF WrClear, TypeOK, hmiVars
  <2>2. ASSUME NEW r \in Reg, wrAt <= r, flags'[r] PROVE flags[r] /\ wrAt' <= r
    <3>1. r # wrAt /\ r \in Int /\ wrAt \in Int
      BY <2>1, <2>2, NAssumption DEF Reg, TypeOK
    <3> QED BY <2>1, <2>2, <3>1 DEF TypeOK
  <2>3. \A r \in Reg : flags'[r] => flags[r]
    BY <2>1 DEF TypeOK
  <2> QED BY <2>1, <2>2, <2>3
<1>7. CASE WrUnlock
  <2>1. \A r \in Reg : ~(N <= r)
    BY NAssumption DEF Reg
  <2> QED BY <1>7, <2>1 DEF WrUnlock, hmiVars
<1> QED
  BY <1>1, <1>2, <1>3, <1>4, <1>5, <1>6, <1>7 DEF WriteTask

(* No wake-up is lost: whenever the write task sleeps on an empty write_sem *)
(* with no command under way, no flag is up, however the HMI's commands     *)
(* fell on the task's scan, transmissions and wait for uart_mutex.          *)
THEOREM WakeUpsKept == Spec => []WakeUpOwed
<1>1. Init => WakeUpOwed
  BY DEF Init, WakeUpOwed
<1>2. TypeOK /\ WakeUpOwed /\ [Next]_vars => WakeUpOwed'
  <2> SUFFICES ASSUME TypeOK, WakeUpOwed, [Next]_vars PROVE WakeUpOwed'
    OBVIOUS
  <2>1. CASE ReadTask
    <3>1. UNCHANGED <<flags, writeSem, hmiPc, wrPc, wrAt>>
      BY <2>1 DEF ReadTask, RdLock, RdStatus, RdAccept, RdFail, RdCheck, RdStore,
                  RdUnlock, RdDelay, hmiVars, wrVars
    <3> QED BY <3>1 DEF WakeUpOwed, Awaited
  <2>2. CASE Environment
    <3>1. /\ UNCHANGED <<flags, writeSem, wrPc, wrAt>>
          /\ hmiPc' = hmiPc \/ hmiPc' \in {"store", "give"}
      BY <2>2 DEF Environment, HmiCommand, DevPanel, hmiVars, wrVars
    <3> QED BY <3>1 DEF WakeUpOwed, Awaited
  <2>3. CASE UNCHANGED vars
    BY <2>3 DEF vars, hmiVars, wrVars, WakeUpOwed, Awaited
  <2> QED
    BY <2>1, <2>2, <2>3, WakeHmi, WakeWrite DEF Next
<1> QED
  BY <1>1, <1>2, TypeCorrect, PTL DEF Spec

(* A flag is only lowered by the write task, for the register it has just   *)
(* transmitted, and what it has transmitted is the last command unless a    *)
(* newer one is between its store and its flag or the command met one of    *)
(* the three windows.                                                       *)
LoweredWhenSent ==
    \A r \in Reg :
        flags[r] /\ ~flags'[r]
            => /\ wrPc = "clear" /\ wrAt = r /\ sent[r] = wrVal
               /\ HmiBetween(r) \/ overlapped[r] \/ sent[r] = commanded[r]

\* That holds of every step that lowers one.
THEOREM FlagsLoweredWhenSent == Spec => [][LoweredWhenSent]_vars
<1>1. TypeOK /\ SyncInv /\ [Next]_vars => [LoweredWhenSent]_vars
  <2> SUFFICES ASSUME TypeOK, SyncInv, Next, NEW r \in Reg, flags[r], ~flags'[r]
               PROVE  /\ wrPc = "clear" /\ wrAt = r /\ sent[r] = wrVal
                      /\ HmiBetween(r) \/ overlapped[r] \/ sent[r] = commanded[r]
    BY DEF LoweredWhenSent
  <2>1. flags' # flags
    OBVIOUS
  <2>2. ~ReadTask /\ ~Environment
    BY <2>1 DEF ReadTask, RdLock, RdStatus, RdAccept, RdFail, RdCheck, RdStore,
                RdUnlock, RdDelay, Environment, HmiCommand, DevPanel
  <2>3. ~HmiTask
    <3>1. flags' # [flags EXCEPT ![hmiAt] = TRUE]
      BY DEF TypeOK
    <3> QED BY <2>1, <3>1 DEF HmiTask, HmiStore, HmiFlag, HmiGive
  <2>4. WrClear
    BY <2>1, <2>2, <2>3 DEF Next, WriteTask, WrTakeSem, WrLock, WrScan, WrSend,
                            WrReturn, WrUnlock
  <2>5. wrPc = "clear" /\ flags' = [flags EXCEPT ![wrAt] = FALSE]
    BY <2>4 DEF WrClear
  <2>6. wrAt = r
    BY <2>5 DEF TypeOK
  <2> QED
    BY <2>5, <2>6 DEF SyncInv, WriterFaithful, WriterCommitted
<1> QED
  BY <1>1, TypeCorrect, SyncAlways, PTL DEF Spec

-----------------------------------------------------------------------------
(* The line in time.  The proof counts how many polls may still fail        *)
(* (MayFail): no step but a disturbance or a write lets the sum of it and   *)
(* of the polls that have failed grow, and right after those it is at most  *)
(* Longest.                                                                 *)
Bit(x) == IF x THEN 1 ELSE 0

\* The assumptions on the constants of LinkTiming.
TimesFit ==
    /\ Polls \in Nat /\ Polls >= 2 /\ MaxPrompt \in Nat /\ MaxPrompt >= 1
    /\ Pause \in Nat /\ Timeout \in Nat \ {0} /\ MaxLate \in Nat
    /\ MaxPrompt <= Pause /\ Pause < Timeout
    /\ MaxDisturbances \in Nat /\ MaxWrites \in Nat

\* They hold.
LEMMA TimesAssumed == TimesFit
BY TimeAssumption, CountAssumption DEF TimesFit

\* Polls that fail at most from a pause on: the first two of a cycle run into
\* each other, so that two replies fewer are owed after each cycle.
FromPause(owed) ==
    IF owed <= 0 THEN 0
    ELSE Polls * ((owed - 1) \div 2) + (IF owed % 2 = 1 THEN 2 ELSE 3)

-----------------------------------------------------------------------------
\* Quotient and remainder.
LEMMA Division ==
    ASSUME NEW x \in Nat, NEW d \in Nat \ {0}
    PROVE  /\ x \div d \in Nat /\ x % d \in 0 .. d - 1
           /\ x = d * (x \div d) + (x % d)
OBVIOUS

\* There is only one quotient and one remainder.
LEMMA DivisionUnique ==
    ASSUME NEW d \in Nat \ {0}, NEW q \in Nat, NEW r \in 0 .. d - 1
    PROVE  (d * q + r) \div d = q /\ (d * q + r) % d = r
<1> DEFINE x == d * q + r
           p == x \div d
           s == x % d
<1>1. x \in Nat
  OBVIOUS
<1>2. p \in Nat /\ s \in 0 .. d - 1 /\ x = d * p + s
  BY <1>1, Division
<1>3. d * p + s = d * q + r
  BY <1>2
<1> HIDE DEF x, p, s
<1>4. ~ (p >= q + 1)
  <2> SUFFICES ASSUME p >= q + 1 PROVE FALSE
    OBVIOUS
  <2>1. PICK e \in Nat : p = q + 1 + e
    <3>1. p - q - 1 \in Nat /\ p = q + 1 + (p - q - 1)
      BY <1>2
    <3> QED
      BY <3>1
  <2>2. d * p = d * q + d + d * e
    BY <2>1
  <2>3. d * e \in Nat
    BY <2>1
  <2> QED
    BY <1>2, <1>3, <2>2, <2>3
<1>5. ~ (q >= p + 1)
  <2> SUFFICES ASSUME q >= p + 1 PROVE FALSE
    OBVIOUS
  <2>1. PICK e \in Nat : q = p + 1 + e
    <3>1. q - p - 1 \in Nat /\ q = p + 1 + (q - p - 1)
      BY <1>2
    <3> QED
      BY <1>2, <3>1
  <2>2. d * q = d * p + d + d * e
    BY <1>2, <2>1
  <2>3. d * e \in Nat
    BY <2>1
  <2> QED
    BY <1>2, <1>3, <2>2, <2>3
<1>6. p = q
  BY <1>2, <1>4, <1>5
<1>7. s = r
  BY <1>2, <1>3, <1>6
<1> QED
  BY <1>6, <1>7 DEF p, s, x

\* A product grows with its second factor, by the first at least.
LEMMA ProductGrows ==
    ASSUME NEW p \in Nat, NEW a \in Nat, NEW b \in Nat, a < b
    PROVE  p * a \in Nat /\ p * b \in Nat /\ p * a + p <= p * b
<1>1. PICK e \in Nat : b = a + 1 + e
  <2>1. b - a - 1 \in Nat /\ b = a + 1 + (b - a - 1)
    OBVIOUS
  <2> QED
    BY <2>1
<1>2. p * b = p * a + p + p * e
  BY <1>1
<1>3. p * a \in Nat /\ p * e \in Nat
  BY <1>1
<1> QED
  BY <1>2, <1>3

\* Quotients of the numbers a wait is long.
LEMMA Quotients ==
    ASSUME NEW t \in Nat \ {0}, NEW x \in Nat, NEW y \in Nat
    PROVE  /\ x \div t \in Nat
           /\ x < t => x \div t = 0
           /\ x >= t => x \div t >= 1
           /\ (x + t) \div t = x \div t + 1
           /\ x <= y => x \div t <= y \div t
<1> DEFINE p == x \div t
           q == y \div t
           r == x % t
           s == y % t
<1>1. p \in Nat /\ r \in 0 .. t - 1 /\ x = t * p + r
  BY Division
<1>2. q \in Nat /\ s \in 0 .. t - 1 /\ y = t * q + s
  BY Division
<1>3. (x + t) \div t = p + 1
  <2>1. p + 1 \in Nat /\ (t * (p + 1) + r) \div t = p + 1
    <3> HIDE DEF p, r
    <3> QED BY <1>1, DivisionUnique
  <2>2. t * (p + 1) + r = x + t
    <3>1. t * (p + 1) = t * p + t
      <4> HIDE DEF p
      <4> QED BY <1>1
    <3> HIDE DEF p, r
    <3> QED BY <1>1, <3>1
  <2> QED
    BY <2>1, <2>2
<1> HIDE DEF p, q, r, s
<1>4. x < t => p = 0
  <2> SUFFICES ASSUME x < t, 0 < p PROVE FALSE
    BY <1>1
  <2>1. t * 0 + t <= t * p
    BY <1>1, ProductGrows
  <2> QED
    BY <1>1, <2>1
<1>5. x >= t => p >= 1
  <2> SUFFICES ASSUME x >= t, p = 0 PROVE FALSE
    BY <1>1
  <2>1. t * p = 0
    OBVIOUS
  <2> QED
    BY <1>1, <2>1
<1>6. x <= y => p <= q
  <2> SUFFICES ASSUME x <= y, q < p PROVE FALSE
    BY <1>1, <1>2
  <2>1. t * q + t <= t * p /\ t * q \in Nat /\ t * p \in Nat
    BY <1>1, <1>2, ProductGrows
  <2> QED
    BY <1>1, <1>2, <2>1
<1> QED
  BY <1>1, <1>3, <1>4, <1>5, <1>6 DEF p, q

\* Halves of the replies owed, from the second on.
LEMMA Halves ==
    ASSUME NEW b \in Nat \ {0}
    PROVE  /\ (b - 1) \div 2 \in Nat /\ b % 2 \in {0, 1}
           /\ b = 2 * ((b - 1) \div 2) + (IF b % 2 = 1 THEN 1 ELSE 2)
           /\ b >= 3 => (b - 1) \div 2 = (b - 2 - 1) \div 2 + 1 /\ b % 2 = (b - 2) % 2
OBVIOUS

\* FromPause grows with what is owed, by a cycle for two replies.
LEMMA FromPauseIs ==
    ASSUME TimesFit
    PROVE  /\ \A b \in Int : FromPause(b) \in Nat
           /\ \A b \in Int : b <= 0 => FromPause(b) = 0
           /\ FromPause(1) = 2 /\ FromPause(2) = 3
           /\ \A b \in Int : b >= 3 => FromPause(b) = Polls + FromPause(b - 2)
           /\ \A a, b \in Int : a <= b => FromPause(a) <= FromPause(b)
<1>0. Polls \in Nat /\ Polls >= 2
  BY DEF TimesFit
<1> DEFINE h(b) == (b - 1) \div 2
           e(b) == IF b % 2 = 1 THEN 2 ELSE 3
<1>1. ASSUME NEW b \in Int, b > 0
      PROVE  /\ h(b) \in Nat /\ e(b) \in {2, 3} /\ b = 2 * h(b) + e(b) - 1
             /\ b >= 3 => h(b) = h(b - 2) + 1 /\ e(b) = e(b - 2)
  BY <1>1, Halves
<1>2. ASSUME NEW b \in Int, b > 0
      PROVE  FromPause(b) = Polls * h(b) + e(b)
  BY <1>2 DEF FromPause
<1>3. \A b \in Int : b <= 0 => FromPause(b) = 0
  BY DEF FromPause
<1>5. h(1) = 0 /\ h(2) = 0 /\ e(1) = 2 /\ e(2) = 3
  OBVIOUS
<1> HIDE DEF h, e
<1>6. FromPause(1) = 2 /\ FromPause(2) = 3
  <2>1. Polls * 0 = 0
    BY <1>0
  <2>2. FromPause(1) = Polls * h(1) + e(1) /\ FromPause(2) = Polls * h(2) + e(2)
    BY <1>2
  <2> QED BY <2>1, <2>2, <1>5
<1>4. ASSUME NEW b \in Int
      PROVE  FromPause(b) \in Nat
  <2>1. CASE b <= 0
    BY <2>1, <1>3
  <2>2. CASE b > 0
    <3>1. Polls * h(b) \in Nat
      BY <1>0, <1>1, <2>2
    <3>2. e(b) \in Nat
      BY <1>1, <2>2
    <3> QED BY <3>1, <3>2, <1>2, <2>2
  <2> QED BY <2>1, <2>2
<1>7. ASSUME NEW b \in Int, b >= 3
      PROVE  FromPause(b) = Polls + FromPause(b - 2)
  <2>1. h(b) = h(b - 2) + 1 /\ e(b) = e(b - 2) /\ h(b - 2) \in Nat /\ e(b - 2) \in Nat
    BY <1>1, <1>7
  <2>2. Polls * (h(b - 2) + 1) = Polls * h(b - 2) + Polls /\ Polls * h(b - 2) \in Nat
    BY <1>0, <2>1
  <2>3. FromPause(b) = Polls * h(b) + e(b) /\ FromPause(b - 2) = Polls * h(b - 2) + e(b - 2)
    BY <1>2, <1>7
  <2> QED
    BY <2>1, <2>2, <2>3, <1>0
<1>8. ASSUME NEW a \in Int, NEW b \in Int, a <= b
      PROVE  FromPause(a) <= FromPause(b)
  <2>1. CASE a <= 0
    BY <2>1, <1>3, <1>4
  <2>2. CASE a > 0
    <3>1. /\ h(a) \in Nat /\ h(b) \in Nat /\ e(a) \in {2, 3} /\ e(b) \in {2, 3}
          /\ a = 2 * h(a) + e(a) - 1 /\ b = 2 * h(b) + e(b) - 1
      BY <1>1, <1>8, <2>2
    <3>2. FromPause(a) = Polls * h(a) + e(a) /\ FromPause(b) = Polls * h(b) + e(b)
      BY <1>2, <1>8, <2>2
    <3>3. CASE h(a) = h(b)
      <4>1. e(a) <= e(b)
        BY <1>8, <3>1, <3>3
      <4>2. Polls * h(a) = Polls * h(b) /\ Polls * h(a) \in Nat
        BY <1>0, <3>1, <3>3
      <4> QED BY <3>1, <3>2, <4>1, <4>2
    <3>4. CASE h(a) # h(b)
      <4>1. h(a) < h(b)
        BY <1>8, <3>1, <3>4
      <4>2. /\ Polls * h(a) \in Nat /\ Polls * h(b) \in Nat
            /\ Polls * h(a) + Polls <= Polls * h(b)
        BY <4>1, <3>1, <1>0, ProductGrows
      <4> QED BY <4>2, <3>1, <3>2, <1>0
    <3> QED BY <3>3, <3>4
  <2> QED BY <2>1, <2>2, <1>8
<1> QED
  BY <1>3, <1>4, <1>6, <1>7, <1>8

-----------------------------------------------------------------------------
(* Types, and what the places of the tasks say of the line.                 *)
Placed ==
    /\ rd = "send" => rdTimer = 0
    /\ rd = "pause" => poll = 1
    /\ rd = "wait" => wr = "idle"
    /\ rd = "wait" /\ wire # << >> => rdTimer = Timeout
    /\ rd = "wait" /\ Len(wire) = 1 => wire = <<poll>>
    /\ wr = "wait" /\ wire # << >> => wrTimer = Timeout
    /\ "wait" \in {rd, wr} /\ ~replySem => rx = << >>
    /\ queue = << >> => delay = NotBegun

\* TypeOK but for longest, on which nothing of the line depends.
LineTypes ==
    /\ rd \in {"send", "wait", "pause"} /\ poll \in 1 .. Polls
    /\ rdTimer \in 0 .. Timeout
    /\ wr \in {"idle", "wait"} /\ wrTimer \in 0 .. Timeout
    /\ rx \in Seq(Request) /\ replySem \in BOOLEAN
    /\ wire \in Seq(Request) /\ queue \in Seq(Request)
    /\ delay \in 0 .. MaxLate + 1
    /\ good \in BOOLEAN /\ failed \in Nat
    /\ disturbances \in 0 .. MaxDisturbances /\ writes \in 0 .. MaxWrites

LineOK == LineTypes /\ Placed

\* Only the empty sequence has length 0.
LEMMA EmptySeq ==
    ASSUME NEW S, NEW s \in Seq(S)
    PROVE  Len(s) \in Nat /\ (Len(s) = 0 <=> s = << >>)
OBVIOUS

Numbers ==
    /\ Answers \in Nat /\ Due \in Nat /\ TimeLeft \in 0 .. Timeout
    /\ Timeouts \in Nat /\ Owed \in Int /\ Longest \in Nat

\* What is owed is a number, and the longest shift is one.
LEMMA AreNumbers == TimesFit /\ LineTypes => Numbers
<1> SUFFICES ASSUME TimesFit, LineTypes PROVE Numbers
  OBVIOUS
<1>1. Answers \in Nat
  BY DEF Answers, LineTypes
<1>2. Due \in Nat
  BY DEF TimesFit, Due, LineTypes, NotBegun
<1>3. TimeLeft \in 0 .. Timeout
  BY DEF TimesFit, TimeLeft, LineTypes
<1>4. Timeouts \in Nat
  <2>1. Due + Timeout - TimeLeft \in Nat
    BY <1>2, <1>3 DEF TimesFit
  <2>2. (Due + Timeout - TimeLeft) \div Timeout \in Nat
    BY <2>1, Quotients DEF TimesFit
  <2> QED BY <2>2 DEF Timeouts
<1>5. Owed \in Int
  BY <1>1, <1>4 DEF Owed
<1>6. Longest \in Nat
  <2>1. ASSUME Owed > 0 PROVE Polls * ((Owed + 1) \div 2) \in Nat
    <3>1. (Owed + 1) \div 2 \in Nat
      BY <1>5, <2>1
    <3> QED BY <3>1 DEF TimesFit
  <2> QED BY <2>1, <1>4, <1>5 DEF Longest
<1> QED
  BY <1>1, <1>2, <1>3, <1>4, <1>5, <1>6 DEF Numbers

\* AreNumbers for the next state.
LEMMA NumbersNext ==
    ASSUME TimesFit, LineTypes' PROVE Numbers'
<1>1. TimesFit'
  BY DEF TimesFit
<1> QED
  BY <1>1, AreNumbers, PTL

\* The line is in order at the start.
LEMMA LineInit ==
    ASSUME TimesFit, TimedInit PROVE LineOK
<1>0. << >> \in Seq(Request)
  OBVIOUS
<1>1. LineTypes
  <2>1. delay \in 0 .. MaxLate + 1 /\ poll \in 1 .. Polls /\ rdTimer \in 0 .. Timeout
        /\ wrTimer \in 0 .. Timeout /\ disturbances \in 0 .. MaxDisturbances
        /\ writes \in 0 .. MaxWrites /\ failed \in Nat
    BY DEF TimesFit, TimedInit, NotBegun
  <2> QED
    BY <1>0, <2>1 DEF TimedInit, LineTypes
<1>2. Placed
  BY DEF TimesFit, TimedInit, Placed
<1> QED
  BY <1>1, <1>2 DEF LineOK

\* A step of the read task.
LEMMA LineRead ==
    ASSUME TimesFit, LineOK, PollingTask PROVE LineOK'
<1> USE DEF TimesFit, LineOK, LineTypes, Placed, masterVars, unitVars, shift, counters, NotBegun
<1>0. poll \in Request
  BY DEF Request
<1>1. CASE SendPoll
  <2> USE <1>1 DEF SendPoll
  <2>1. wire' \in Seq(Request) /\ Len(wire') = Len(wire) + 1 /\ wire' # << >>
    BY <1>0
  <2>2. Len(wire') = 1 => wire' = <<poll>>
    <3>1. Len(wire) = 0 => wire = << >>
      OBVIOUS
    <3>2. wire = << >> => wire' = <<poll>>
      OBVIOUS
    <3> QED BY <2>1, <3>1, <3>2
  <2>3. LineTypes'
    BY <2>1
  <2>4. Placed'
    BY <2>1, <2>2
  <2> QED BY <2>3, <2>4
<1>2. ASSUME NEW a \in BOOLEAN, PollEnds(a)
      PROVE  /\ poll' \in 1 .. Polls /\ rd' \in {"send", "pause"}
             /\ rd' = "send" => rdTimer' = 0
             /\ rd' = "pause" => poll' = 1
             /\ rdTimer' \in 0 .. Timeout /\ good' \in BOOLEAN
             /\ failed' \in Nat
  BY <1>2 DEF PollEnds, AfterLast, OneMore
<1>3. CASE PollReplied
  <2>1. (rx = <<poll>>) \in BOOLEAN /\ PollEnds(rx = <<poll>>)
    BY <1>3 DEF PollReplied
  <2> QED BY <1>3, <1>2, <2>1 DEF PollReplied, TokenAfter
<1>4. CASE PollTimesOut
  BY <1>2, <1>4 DEF PollTimesOut
<1>5. CASE PauseEnds
  BY <1>5 DEF PauseEnds
<1> QED
  BY <1>1, <1>3, <1>4, <1>5 DEF PollingTask

\* A step of the write task.
LEMMA LineWrite ==
    ASSUME TimesFit, LineOK, WritingTask PROVE LineOK'
<1> USE DEF TimesFit, LineOK, LineTypes, Placed, masterVars, unitVars, shift, counters, NotBegun
<1>1. CASE SendWrite
  <2>0. 0 \in Request
    BY DEF Request
  <2>1. wire' \in Seq(Request) /\ wire' # << >>
    BY <1>1, <2>0 DEF SendWrite, WriteRequest
  <2>2. LineTypes'
    BY <1>1, <2>1 DEF SendWrite, Disturbed
  <2>3. Placed'
    BY <1>1 DEF SendWrite, Disturbed
  <2> QED BY <2>2, <2>3
<1>2. CASE WriteReplied
  <2>1. LineTypes'
    <3>1. 0 \in 0 .. Timeout
      BY DEF TimesFit
    <3> QED BY ONLY <1>2, LineTypes, <3>1
        DEF LineTypes, WriteReplied, TokenAfter, unitVars, shift, counters
  <2>2. rd' # "wait" /\ wr' # "wait"
    BY ONLY <1>2, LineOK DEF WriteReplied, LineOK, LineTypes, Placed
  <2>3. Placed'
    BY <1>2, <2>2 DEF WriteReplied
  <2> QED BY <2>1, <2>3
<1>3. CASE WriteTimesOut
  BY <1>3 DEF WriteTimesOut
<1> QED
  BY <1>1, <1>2, <1>3 DEF WritingTask

\* A step of the unit.
LEMMA LineUnit ==
    ASSUME TimesFit, LineOK, Unit PROVE LineOK'
<1> USE DEF TimesFit, LineOK, LineTypes, Placed, masterVars, unitVars, shift, counters, NotBegun
<1>1. ASSUME NEW d \in 0 .. MaxLate, Prompt(d) PROVE LineOK'
  BY <1>1 DEF Prompt
<1>2. ASSUME NEW d \in 0 .. MaxLate, Late(d) PROVE LineOK'
  BY <1>2 DEF Late, Disturb, Disturbed
<1>3. CASE Lost
  <2>1. queue' \in Seq(Request)
    BY <1>3 DEF Lost
  <2>2. LineTypes'
    BY <1>3, <2>1 DEF Lost, Disturb, Disturbed
  <2>3. Placed'
    BY <1>3 DEF Lost, Disturb, Disturbed
  <2> QED BY <2>2, <2>3
<1>4. CASE Arrive
  <2>1. /\ queue' \in Seq(Request) /\ Head(queue) \in Request
        /\ rx' \in Seq(Request)
    BY <1>4 DEF Arrive
  <2>2. LineTypes'
    <3>1. delay' \in 0 .. MaxLate + 1
      BY <1>4 DEF Arrive
    <3> QED BY <1>4, <2>1, <3>1 DEF Arrive
  <2>3. Placed'
    BY <1>4 DEF Arrive
  <2> QED BY <2>2, <2>3
<1> QED
  BY <1>1, <1>2, <1>3, <1>4 DEF Unit

\* Time passes.
LEMMA LineTime ==
    ASSUME TimesFit, LineOK, Tick \/ HeldUp PROVE LineOK'
<1> USE DEF TimesFit, LineOK, LineTypes, Placed, masterVars, unitVars, shift, counters, NotBegun
<1>1. TimePasses
  BY DEF Tick, HeldUp
<1>2. failed' \in Nat /\ disturbances' \in 0 .. MaxDisturbances
  <2>1. CASE Tick
    BY <2>1 DEF Tick
  <2>2. CASE HeldUp
    BY <2>2 DEF HeldUp, Disturb, Disturbed
  <2> QED BY <2>1, <2>2
<1>3. rdTimer' \in 0 .. Timeout /\ wrTimer' \in 0 .. Timeout /\ (rdTimer = 0 => rdTimer' = 0)
  <2>1. /\ rdTimer' = Minus(rdTimer) /\ wrTimer' = Minus(wrTimer)
        /\ rdTimer \in 0 .. Timeout /\ wrTimer \in 0 .. Timeout
    BY <1>1 DEF TimePasses
  <2>2. Timeout \in Nat
    BY DEF TimesFit
  <2> QED BY ONLY <2>1, <2>2 DEF Minus
<1>4. delay' \in 0 .. MaxLate + 1 /\ (queue = << >> => delay' = MaxLate + 1)
  <2>1. /\ delay' = (IF queue = << >> THEN MaxLate + 1 ELSE delay - 1)
        /\ queue # << >> => delay # 0 /\ delay # MaxLate + 1
        /\ delay \in 0 .. MaxLate + 1
    BY <1>1 DEF TimePasses, UnitReady
  <2>2. MaxLate \in Nat
    BY DEF TimesFit
  <2> QED BY ONLY <2>1, <2>2
<1>5. /\ wire' = << >> /\ queue' \in Seq(Request)
      /\ queue' = << >> => queue = << >>
  <2>1. CASE queue' = queue
    BY <1>1, <2>1 DEF TimePasses
  <2>2. CASE queue' = queue \o wire
    <3>1. queue \o wire \in Seq(Request) /\ (queue \o wire = << >> => queue = << >>)
      OBVIOUS
    <3> QED BY <1>1, <2>2, <3>1 DEF TimePasses
  <2> QED BY <1>1, <2>1, <2>2 DEF TimePasses
<1>6. Len(wire') = 0
  BY <1>5
<1>7. rd' = rd /\ poll' = poll /\ wr' = wr /\ rx' = rx /\ replySem' = replySem /\ good' = good /\ writes' = writes
  BY <1>1 DEF TimePasses
<1>8. LineTypes'
  BY <1>2, <1>3, <1>4, <1>5, <1>7
<1>9. Placed'
  BY <1>3, <1>4, <1>5, <1>6, <1>7
<1> QED BY <1>8, <1>9

\* The line stays in order.
LEMMA LineStep ==
    ASSUME TimesFit, LineOK, [TimedNext]_timedVars PROVE LineOK'
<1>1. CASE TimedNext
  BY <1>1, LineRead, LineWrite, LineUnit, LineTime DEF TimedNext
<1>2. CASE UNCHANGED timedVars
  BY <1>2 DEF LineOK, LineTypes, Placed, timedVars, masterVars, unitVars, shift,
              counters, NotBegun, Request
<1> QED
  BY <1>1, <1>2

\* longest is set when the polls that failed are counted anew.
LEMMA LongestStep ==
    ASSUME [TimedNext]_timedVars
    PROVE  longest' = longest \/ longest' = Longest'
<1> USE DEF shift
<1>1. CASE PollingTask
  BY <1>1 DEF PollingTask, SendPoll, PollReplied, PollTimesOut,
              PollEnds, PauseEnds
<1>2. CASE WritingTask
  BY <1>2 DEF WritingTask, SendWrite, WriteReplied, WriteTimesOut, Disturbed
<1>3. CASE Unit
  BY <1>3 DEF Unit, Prompt, Late, Lost, Arrive, Disturb,
              Disturbed
<1>4. CASE Tick \/ HeldUp
  BY <1>4 DEF Tick, HeldUp, TimePasses, Disturb, Disturbed
<1>5. CASE UNCHANGED timedVars
  BY <1>5 DEF timedVars
<1> QED
  BY <1>1, <1>2, <1>3, <1>4, <1>5 DEF TimedNext

\* The variables of the line keep their types.
THEOREM LinkTypeCorrect == TimedSpec => []TimedTypeOK
<1>0. TimesFit
  BY TimesAssumed
<1> DEFINE I == LineOK /\ longest \in Nat
<1>1. TimedInit => I
  <2>1. TimedInit => longest \in Nat
    BY DEF TimedInit
  <2> QED BY <1>0, <2>1, LineInit
<1>2. I /\ [TimedNext]_timedVars => I'
  <2> SUFFICES ASSUME I, [TimedNext]_timedVars PROVE I'
    OBVIOUS
  <2>1. LineOK'
    BY <1>0, LineStep
  <2>2. Longest' \in Nat
    BY <1>0, <2>1, NumbersNext DEF LineOK, Numbers
  <2> QED BY <2>1, <2>2, LongestStep
<1>3. I => TimedTypeOK
  BY DEF LineOK, LineTypes, TimedTypeOK, NotBegun
<1> QED
  BY <1>1, <1>2, <1>3, PTL DEF TimedSpec

-----------------------------------------------------------------------------
(* How many polls may still fail.                                           *)

\* Requests that ran into each other are on the line.
Dead == Len(wire) >= 2

\* What the poll under way will be answered, or is, is its own reply.
OwnReply ==
    /\ rd = "wait"
    /\ \/ wire = <<poll>>
       \/ queue = <<poll>> /\ ~replySem
       \/ replySem /\ rx = <<poll>>

\* A late answer is awaited, and not by the wait under way alone.
Slow == Answers > 0 /\ Due > MaxPrompt /\ (rd # "wait" \/ replySem)

\* The first poll of a cycle ends in the instant of its request, which thus runs
\* into the next, and has ended so.
Colliding ==
    /\ rd = "wait" /\ poll = 1 /\ Len(wire) = 1
    /\ replySem \/ (queue # << >> /\ Due = 0)
Collided == rd = "send" /\ poll = 2 /\ Len(wire) = 1

\* It will, as a token is there or comes before the end of the pause.
Ripe ==
    /\ rd # "wait" /\ poll = 1
    /\ replySem \/ Due <= rdTimer
    /\ Len(wire) <= 1 \/ rdTimer > 0

MayFail ==
    IF Owed < 0 THEN Bit(rd = "wait")
    ELSE IF Owed = 0 THEN Bit(Dead) + Bit(rd = "wait" /\ ~OwnReply)
    ELSE IF Timeouts > 0 \/ Slow \/ wr = "wait"
      THEN Timeouts + Bit(Slow /\ replySem) + Polls + FromPause(Owed)
    ELSE IF Colliding \/ Ripe THEN FromPause(Owed)
    ELSE IF Collided THEN FromPause(Owed) - 1
    ELSE Polls - poll + 1 + FromPause(Owed)

\* FromPause at two numbers.
LEMMA FromPauses ==
    ASSUME TimesFit, NEW a \in Int, NEW b \in Int
    PROVE  /\ FromPause(a) \in Nat /\ FromPause(b) \in Nat
           /\ a <= b => FromPause(a) <= FromPause(b)
           /\ b = 1 => FromPause(b) = 2
           /\ b = 2 => FromPause(b) = 3
           /\ b >= 1 => FromPause(b) >= 2
           /\ b >= 3 /\ a = b - 2 => FromPause(b) = Polls + FromPause(a)
<1>1. b >= 1 => FromPause(1) <= FromPause(b)
  BY FromPauseIs
<1> QED
  BY <1>1, FromPauseIs

TimedOut(due, left) == (due + Timeout - left) \div Timeout

\* Waits that time out before an answer that is due.
LEMMA LateIs ==
    ASSUME TimesFit, NEW d \in Nat, NEW l \in 0 .. Timeout
    PROVE  /\ TimedOut(d, l) \in Nat
           /\ d < l => TimedOut(d, l) = 0
           /\ d >= l => TimedOut(d, l) >= 1
           /\ TimedOut(d, 0) = TimedOut(d, Timeout) + 1
           /\ d >= 1 /\ l >= 1 => TimedOut(d - 1, l - 1) = TimedOut(d, l)
           /\ \A e \in Nat : e <= d => TimedOut(e, l) <= TimedOut(d, l)
<1> USE DEF TimesFit
<1> DEFINE x == d + Timeout - l
<1>1. x \in Nat /\ (d < l => x < Timeout) /\ (d >= l => x >= Timeout)
  OBVIOUS
<1>2. TimedOut(d, l) \in Nat /\ (d < l => TimedOut(d, l) = 0) /\ (d >= l => TimedOut(d, l) >= 1)
  BY <1>1, Quotients DEF TimedOut
<1>3. TimedOut(d, 0) = TimedOut(d, Timeout) + 1
  <2>1. (d + Timeout) \div Timeout = d \div Timeout + 1
    BY Quotients
  <2>2. d + Timeout - Timeout = d /\ d + Timeout - 0 = d + Timeout
    OBVIOUS
  <2> QED BY <2>1, <2>2 DEF TimedOut
<1>4. d >= 1 /\ l >= 1 => TimedOut(d - 1, l - 1) = TimedOut(d, l)
  <2>1. d >= 1 /\ l >= 1 => d - 1 + Timeout - (l - 1) = d + Timeout - l
    OBVIOUS
  <2> QED BY <2>1 DEF TimedOut
<1>5. ASSUME NEW e \in Nat, e <= d PROVE TimedOut(e, l) <= TimedOut(d, l)
  <2>1. e + Timeout - l \in Nat /\ e + Timeout - l <= x
    BY <1>5
  <2> QED BY <1>1, <2>1, Quotients DEF TimedOut
<1> QED
  BY <1>2, <1>3, <1>4, <1>5

\* Polls and writes that time out before an answer comes.
LEMMA TimeoutsAre ==
    ASSUME TimesFit, LineTypes
    PROVE  /\ Answers = 0 => Timeouts = 0
           /\ Answers > 0 => Timeouts = TimedOut(Due, TimeLeft)
<1>1. Answers \in Nat
  BY AreNumbers DEF Numbers
<1> QED
  BY <1>1 DEF Timeouts, TimedOut

\* TimeoutsAre for the next state.
LEMMA TimeoutsAreNext ==
    ASSUME TimesFit, LineTypes'
    PROVE  /\ Answers' = 0 => Timeouts' = 0
           /\ Answers' > 0 => Timeouts' = TimedOut(Due', TimeLeft')
<1>1. Answers' \in Nat
  BY NumbersNext DEF Numbers
<1> QED
  BY <1>1 DEF Timeouts, TimedOut

\* MayFail is a number.
LEMMA MayFailIsNat ==
    TimesFit /\ LineTypes => MayFail \in Nat
<1> SUFFICES ASSUME TimesFit, LineTypes PROVE MayFail \in Nat
  OBVIOUS
<1>1. Owed \in Int /\ Timeouts \in Nat
  BY AreNumbers DEF Numbers
<1>2. FromPause(Owed) \in Nat /\ (Owed >= 1 => FromPause(Owed) >= 2)
  BY <1>1, FromPauses
<1>3. \A x : Bit(x) \in 0 .. 1
  BY DEF Bit
<1>4. poll \in 1 .. Polls /\ Polls \in Nat
  BY DEF TimesFit, LineTypes
<1> QED
  BY ONLY <1>1, <1>2, <1>3, <1>4 DEF MayFail

\* MayFailIsNat for the next state.
LEMMA MayFailIsNatNext ==
    ASSUME TimesFit, LineTypes' PROVE MayFail' \in Nat
<1>1. TimesFit'
  BY DEF TimesFit
<1>2. (MayFail \in Nat)'
  BY <1>1, MayFailIsNat, PTL
<1> QED
  BY <1>2

\* A poll is sent.
LEMMA ShiftSendPoll ==
    ASSUME TimesFit, LineOK, LineOK', SendPoll
    PROVE  failed' = failed /\ MayFail' <= MayFail
<1>1. Numbers /\ Numbers'
  BY AreNumbers, NumbersNext DEF LineOK
<1>2. /\ rd = "send" /\ wr = "idle" /\ rd' = "wait" /\ wr' = "idle"
  BY DEF SendPoll
<1>a. /\ poll' = poll /\ poll \in 1 .. Polls
      /\ replySem' = replySem /\ replySem \in BOOLEAN
  BY DEF SendPoll, LineOK, LineTypes
<1>b. queue' = queue /\ delay' = delay /\ failed' = failed
  BY DEF SendPoll, unitVars, shift
<1>c. rdTimer = 0 /\ rdTimer' = Timeout
  BY DEF SendPoll, LineOK, Placed
<1>3. Len(wire) \in Nat /\ Len(wire') = Len(wire) + 1 /\ Len(queue) \in Nat
      /\ (Len(queue) = 0 <=> queue = << >>)
  BY EmptySeq DEF SendPoll, LineOK, LineTypes
<1>d. Len(wire') = 1 => wire' = <<poll>>
  BY <1>2, <1>a DEF LineOK, Placed
<1>4. TimeLeft' = Timeout /\ TimeLeft = Timeout
  BY ONLY <1>2, <1>a, <1>c DEF TimeLeft
<1>5. Due' = Due /\ (queue = << >> => Due = MaxPrompt)
  BY ONLY <1>b DEF Due, NotBegun
<1>6. /\ Len(wire) = 0 => Answers' = Answers + 1
      /\ Len(wire) = 1 => Answers' = Answers - 1
      /\ Len(wire) >= 2 => Answers' = Answers
      /\ Answers = 0 \/ Answers' = 0 => queue = << >>
      /\ Answers = 0 => Len(wire) # 1
  <2> DEFINE m == Len(queue)
             k == Len(wire)
             l == Len(wire')
  <2>1. Answers' = m + (IF l = 1 THEN 1 ELSE 0)
    BY ONLY <1>b DEF Answers
  <2>2. Answers = m + (IF k = 1 THEN 1 ELSE 0)
    BY DEF Answers
  <2>3. k \in Nat /\ l = k + 1 /\ m \in Nat /\ (m = 0 <=> queue = << >>)
    BY ONLY <1>3
  <2> HIDE DEF m, k, l
  <2>4. /\ k = 0 => Answers' = Answers + 1
        /\ k = 1 => Answers' = Answers - 1
        /\ k >= 2 => Answers' = Answers
        /\ Answers = 0 \/ Answers' = 0 => m = 0
        /\ Answers = 0 => k # 1
    BY ONLY <2>1, <2>2, <2>3
  <2> QED BY ONLY <2>3, <2>4 DEF k
<1>7. Timeouts' = Timeouts
  <2>1. queue = << >> => TimedOut(Due, Timeout) = 0
    <3>1. TimesFit
      OBVIOUS
    <3>2. MaxPrompt \in Nat /\ MaxPrompt < Timeout /\ Timeout \in 0 .. Timeout
      BY ONLY <3>1 DEF TimesFit
    <3>3. TimedOut(MaxPrompt, Timeout) = 0
      BY <3>2, LateIs
    <3> QED BY ONLY <1>5, <3>3
  <2>2. /\ Answers = 0 => Timeouts = 0
        /\ Answers > 0 => Timeouts = TimedOut(Due, Timeout)
    BY <1>4, TimeoutsAre DEF LineOK
  <2>3. /\ Answers' = 0 => Timeouts' = 0
        /\ Answers' > 0 => Timeouts' = TimedOut(Due, Timeout)
    BY <1>4, <1>5, TimeoutsAreNext DEF LineOK
  <2>4. Answers \in Nat /\ Answers' \in Nat
    BY <1>1 DEF Numbers
  <2> QED BY ONLY <1>6, <2>1, <2>2, <2>3, <2>4
<1>8. /\ Owed = Answers + Bit(replySem) + Timeouts
      /\ Owed' = Answers' + Bit(replySem) + Timeouts - 1
  <2>1. "wait" \notin {rd, wr} /\ "wait" \in {rd', wr'}
    BY ONLY <1>2
  <2>2. Answers \in Nat /\ Answers' \in Nat /\ Timeouts \in Nat
    BY ONLY <1>1 DEF Numbers
  <2> QED
    BY ONLY <1>a, <1>7, <2>1, <2>2 DEF Owed, Bit
<1> DEFINE o == Owed
           p == Owed'
           t == Timeouts
           n == Len(wire)
<1>e. Answers \in Nat /\ Answers' \in Nat /\ t \in Nat /\ Bit(replySem) \in {0, 1}
  BY <1>1 DEF Numbers, Bit
<1>9. /\ n = 0 => p = o
      /\ n = 1 => p = o - 2
      /\ n >= 2 => p = o - 1
      /\ n \in Nat /\ o \in Int /\ p \in Int
  <2> DEFINE a == Answers
             b == Answers'
             r == Bit(replySem)
  <2>1. /\ n = 0 => b = a + 1
        /\ n = 1 => b = a - 1
        /\ n >= 2 => b = a
    BY ONLY <1>6
  <2>2. o = a + r + t /\ p = b + r + t - 1
    BY ONLY <1>8
  <2>3. a \in Nat /\ b \in Nat /\ t \in Nat /\ r \in {0, 1} /\ n \in Nat
    BY ONLY <1>e, <1>3
  <2> HIDE DEF a, b, r, o, p, n, t
  <2> QED BY ONLY <2>1, <2>2, <2>3
<1>11. /\ o = 0 => Answers = 0 /\ ~replySem /\ t = 0 /\ n # 1
       /\ o \in Nat /\ p \in Int
  <2>1. Bit(replySem) = 0 => ~replySem
    BY <1>a DEF Bit
  <2> DEFINE a == Answers
             r == Bit(replySem)
  <2>2. /\ o = a + r + t /\ a \in Nat /\ t \in Nat /\ r \in {0, 1}
        /\ a = 0 => n # 1
    BY ONLY <1>e, <1>6, <1>8
  <2>3. /\ o = 0 => a = 0 /\ r = 0 /\ t = 0 /\ n # 1
        /\ o \in Nat
    <3> HIDE DEF a, r, o, t, n
    <3> QED BY ONLY <2>2
  <2> QED BY ONLY <2>1, <2>3, <1>9
<1>10. Slow' => Slow /\ replySem
  <2>1. n = 0 /\ Answers = 0 => Due = MaxPrompt
    BY ONLY <1>5, <1>6
  <2>2. TimesFit
    OBVIOUS
  <2> QED BY ONLY <2>1, <2>2, <1>2, <1>a, <1>5, <1>6, <1>e, <1>9 DEF Slow, TimesFit
<1>f. /\ Dead' <=> n >= 1
      /\ Dead <=> n >= 2
      /\ ~Ripe' /\ ~Collided' /\ ~Colliding
      /\ n = 0 => OwnReply'
  <2>1. (Dead' <=> n >= 1) /\ (Dead <=> n >= 2)
    BY ONLY <1>3 DEF Dead
  <2>2. ~Ripe' /\ ~Collided' /\ ~Colliding
    BY ONLY <1>2 DEF Ripe, Collided, Colliding
  <2>3. n = 0 => OwnReply'
    BY ONLY <1>2, <1>3, <1>d, <1>a DEF OwnReply
  <2> QED BY ONLY <2>1, <2>2, <2>3
<1>13. /\ Ripe /\ n = 0 => Colliding'
       /\ Ripe => poll = 1 /\ n <= 1
       /\ Collided => poll = 2 /\ n = 1
  <2>1. Ripe => poll = 1 /\ n <= 1 /\ (replySem \/ Due = 0)
    <3>1. Due \in Nat
      BY <1>1 DEF Numbers
    <3> QED BY ONLY <3>1, <1>c, <1>3 DEF Ripe
  <2>2. Due = 0 => queue # << >>
    <3>1. TimesFit
      OBVIOUS
    <3> QED BY ONLY <1>5, <3>1 DEF TimesFit
  <2>3. Ripe /\ n = 0 => Colliding'
    BY ONLY <2>1, <2>2, <1>2, <1>3, <1>a, <1>b, <1>5 DEF Colliding
  <2> QED BY ONLY <2>1, <2>3 DEF Collided
<1>14. /\ FromPause(p) \in Nat /\ FromPause(o) \in Nat
       /\ p <= o => FromPause(p) <= FromPause(o)
       /\ o = 1 => FromPause(o) = 2
       /\ o = 2 => FromPause(o) = 3
       /\ o >= 1 => FromPause(o) >= 2
       /\ o >= 3 /\ p = o - 2 => FromPause(o) = Polls + FromPause(p)
  <2> HIDE DEF o, p
  <2> QED BY <1>11, FromPauses
<1>g. Polls \in Nat /\ Polls >= 2 /\ MayFail \in Nat /\ MayFail' \in Nat
  BY MayFailIsNat, MayFailIsNatNext DEF TimesFit, LineOK
<1>16. CASE o = 0
  <2>1. MayFail = Bit(Dead)
    BY ONLY <1>2, <1>16 DEF MayFail, Bit
  <2>2. CASE n = 0
    <3>1. p = 0 /\ ~Dead' /\ ~Dead /\ OwnReply'
      BY ONLY <1>16, <2>2, <1>9, <1>f
    <3> QED BY ONLY <2>1, <3>1, <1>b DEF MayFail, Bit
  <2>3. CASE n >= 2
    <3>1. Dead /\ p < 0
      BY ONLY <1>9, <1>16, <2>3, <1>f
    <3> QED BY ONLY <2>1, <3>1, <1>b DEF MayFail, Bit
  <2>4. n = 0 \/ n >= 2
    <3> HIDE DEF o, n
    <3> QED BY ONLY <1>9, <1>11, <1>16
  <2> QED BY ONLY <2>2, <2>3, <2>4
<1>17. CASE o > 0
  <2>1. p < 0 => MayFail' <= 1
    BY ONLY TRUE DEF MayFail, Bit
  <2>2. p = 0 => MayFail' <= 2
    BY ONLY TRUE DEF MayFail, Bit
  <2>3. p > 0 /\ (t > 0 \/ Slow') => MayFail' = t + Bit(Slow' /\ replySem) + Polls + FromPause(p)
    BY ONLY <1>a, <1>7, <1>11 DEF MayFail
  <2>4. p > 0 /\ ~(t > 0 \/ Slow') =>
           MayFail' = IF Colliding' THEN FromPause(p) ELSE Polls - poll + 1 + FromPause(p)
    BY ONLY <1>2, <1>a, <1>7, <1>f, <1>11 DEF MayFail
  <2>5. CASE t > 0 \/ Slow
    <3>1. MayFail = t + Bit(Slow /\ replySem) + Polls + FromPause(o)
      BY ONLY <1>17, <2>5, <1>11 DEF MayFail
    <3>2. Bit(Slow' /\ replySem) <= Bit(Slow /\ replySem) /\ Bit(Slow /\ replySem) \in 0 .. 1 /\ Bit(Slow' /\ replySem) \in 0 .. 1
      BY ONLY <1>10 DEF Bit
    <3> DEFINE s == Bit(Slow /\ replySem)
               sn == Bit(Slow' /\ replySem)
    <3>5. MayFail = t + s + Polls + FromPause(o) /\ (p > 0 /\ (t > 0 \/ Slow') => MayFail' = t + sn + Polls + FromPause(p))
      BY ONLY <2>3, <3>1
    <3>6. sn <= s /\ s \in Nat /\ sn \in Nat
      BY ONLY <3>2
    <3> HIDE DEF o, p, t, n, s, sn
    <3>3. p <= o
      BY ONLY <1>9, <1>11
    <3>9. CASE p <= 0
      <4>1. MayFail' <= 2
        BY ONLY <2>1, <2>2, <3>9, <1>11, <1>g
      <4> QED BY ONLY <4>1, <3>5, <3>6, <1>14, <1>e, <1>g, <1>b
    <3>7. CASE p > 0 /\ (t > 0 \/ Slow')
      <4>1. FromPause(p) <= FromPause(o)
        BY ONLY <3>3, <1>14
      <4> QED BY ONLY <4>1, <3>7, <3>5, <3>6, <1>14, <1>e, <1>g, <1>b
    <3>8. CASE p > 0 /\ ~(t > 0 \/ Slow')
      <4>1. MayFail' <= Polls + FromPause(p)
        BY ONLY <3>8, <2>4, <1>14, <1>a, <1>g
      <4>2. FromPause(p) <= FromPause(o)
        BY ONLY <3>3, <1>14
      <4> QED
        BY ONLY <4>1, <4>2, <3>5, <3>6, <1>14, <1>e, <1>g, <1>b
    <3> QED BY ONLY <3>9, <3>7, <3>8, <1>11
  <2>6. CASE ~(t > 0 \/ Slow)
    <3>1. MayFail = IF Ripe THEN FromPause(o)
                    ELSE IF Collided THEN FromPause(o) - 1 ELSE Polls - poll + 1 + FromPause(o)
      BY ONLY <1>2, <1>f, <1>17, <2>6, <1>11 DEF MayFail
    <3>2. ~(t > 0 \/ Slow')
      BY ONLY <2>6, <1>10
    <3> HIDE DEF o, p, t, n
    <3>3. CASE n = 0
      <4>1. p = o /\ ~Collided /\ MayFail' = IF Colliding' THEN FromPause(o) ELSE Polls - poll + 1 + FromPause(o)
        BY ONLY <3>3, <1>9, <1>13, <2>4, <3>2, <1>17
      <4> QED BY ONLY <3>1, <4>1, <1>a, <1>13, <1>14, <1>g, <1>b, <3>3
    <3>4. CASE n = 1 /\ p < 0
      BY ONLY <3>4, <2>1, <3>1, <1>14, <1>17, <1>11, <1>a, <1>b, <1>g, <1>9
    <3>5. CASE n = 1 /\ p = 0
      BY ONLY <3>5, <2>2, <3>1, <1>14, <1>17, <1>11, <1>a, <1>b, <1>g, <1>9
    <3>6. CASE n = 1 /\ p > 0
      <4>1. MayFail' <= Polls - poll + 1 + FromPause(p) /\ FromPause(o) = Polls + FromPause(p)
        BY ONLY <3>6, <2>4, <3>2, <1>14, <1>a, <1>g, <1>9, <1>11
      <4>2. MayFail >= IF Ripe THEN FromPause(o) ELSE IF Collided THEN FromPause(o) - 1 ELSE FromPause(o)
        BY ONLY <3>1, <1>14, <1>a, <1>g
      <4>3. Collided => poll = 2
        BY ONLY <1>13
      <4>4. FromPause(p) \in Nat /\ FromPause(o) \in Nat
        BY ONLY <1>14
      <4>5. MayFail' <= Polls + FromPause(p) /\ (Collided => MayFail' <= Polls - 1 + FromPause(p))
        BY ONLY <4>1, <4>3, <4>4, <1>a, <1>g, <3>6, <2>4, <3>2
      <4> QED BY ONLY <4>1, <4>2, <4>4, <4>5, <1>b, <1>g, <2>4, <3>1, <3>2, <3>6, <1>a
    <3>7. CASE n >= 2
      <4>1. ~Ripe /\ ~Collided /\ MayFail = Polls - poll + 1 + FromPause(o) /\ p = o - 1
        BY ONLY <3>7, <1>13, <1>9, <3>1
      <4>2. p >= 0
        BY ONLY <4>1, <1>11, <1>17
      <4>3. CASE p = 0
        BY ONLY <4>1, <4>3, <2>2, <1>14, <1>a, <1>b, <1>g, <1>11, <1>17
      <4>4. CASE p > 0
        <5>1. MayFail' = IF Colliding' THEN FromPause(p) ELSE Polls - poll + 1 + FromPause(p)
          BY ONLY <4>4, <2>4, <3>2
        <5>2. FromPause(p) \in Nat /\ FromPause(o) \in Nat /\ FromPause(p) <= FromPause(o)
          BY ONLY <4>1, <1>14, <1>11
        <5> QED BY ONLY <4>1, <5>1, <5>2, <1>a, <1>b, <1>g
      <4> QED BY ONLY <4>2, <4>3, <4>4, <1>11
    <3> QED BY ONLY <3>3, <3>4, <3>5, <3>6, <3>7, <1>9, <1>11
  <2> QED BY ONLY <2>5, <2>6
<1> QED
  BY ONLY <1>11, <1>16, <1>17

\* It is not settled when the first two polls of a cycle will run into each other.
Unsure == Timeouts > 0 \/ Slow \/ wr = "wait"
SlowBit == Bit(Slow /\ replySem)

\* Bounds of MayFail.
Bounds ==
    /\ MayFail \in Nat /\ SlowBit \in 0 .. 1
    /\ Owed <= 0 => MayFail <= 2
    /\ Owed > 0 => MayFail <= Timeouts + SlowBit + Polls + FromPause(Owed)
    /\ Owed > 0 /\ Unsure => MayFail = Timeouts + SlowBit + Polls + FromPause(Owed)

\* At most what times out, a cycle and the polls from the pause on may fail.
LEMMA MayFailBounds == TimesFit /\ LineTypes => Bounds
<1> SUFFICES ASSUME TimesFit, LineTypes PROVE Bounds
  OBVIOUS
<1>1. MayFail \in Nat
  BY MayFailIsNat
<1>2. Owed \in Int /\ Timeouts \in Nat /\ FromPause(Owed) \in Nat
  BY AreNumbers, FromPauses DEF Numbers
<1>3. SlowBit \in 0 .. 1
  BY DEF SlowBit, Bit
<1>4. Owed <= 0 => MayFail <= 2
  BY ONLY <1>2 DEF MayFail, Bit
<1>5. Owed > 0 /\ Unsure => MayFail = Timeouts + SlowBit + Polls + FromPause(Owed)
  BY ONLY <1>2 DEF MayFail, Unsure, SlowBit
<1>6. poll \in 1 .. Polls /\ Polls \in Nat
  BY DEF LineTypes, TimesFit
<1>7. ASSUME Owed > 0, ~Unsure
      PROVE  MayFail <= Timeouts + SlowBit + Polls + FromPause(Owed)
  <2>1. \/ MayFail = FromPause(Owed) \/ MayFail = FromPause(Owed) - 1
        \/ MayFail = Polls - poll + 1 + FromPause(Owed)
    BY ONLY <1>2, <1>7 DEF MayFail, Unsure
  <2>2. SlowBit \in Nat
    BY ONLY <1>3
  <2> QED BY ONLY <2>1, <2>2, <1>2, <1>6
<1>8. Owed > 0 => MayFail <= Timeouts + SlowBit + Polls + FromPause(Owed)
  BY ONLY <1>1, <1>5, <1>7
<1> QED BY ONLY <1>1, <1>3, <1>4, <1>5, <1>8 DEF Bounds

\* MayFailBounds for the next state.
LEMMA MayFailBoundsNext ==
    ASSUME TimesFit, LineTypes' PROVE Bounds'
<1>1. TimesFit'
  BY DEF TimesFit
<1> QED
  BY <1>1, MayFailBounds, PTL

\* No more polls may fail than a shift may last.
LEMMA NoMoreThanLongest == TimesFit /\ LineTypes => MayFail <= Longest
<1> SUFFICES ASSUME TimesFit, LineTypes PROVE MayFail <= Longest
  OBVIOUS
<1>1. Bounds
  BY MayFailBounds
<1>2. Owed \in Int /\ Timeouts \in Nat /\ Longest \in Nat
  BY AreNumbers DEF Numbers
<1>3. CASE Owed <= 0
  BY ONLY <1>1, <1>2, <1>3 DEF Bounds, Longest
<1>4. CASE Owed > 0
  <2> DEFINE b == Owed
             h == (b - 1) \div 2
             x == IF b % 2 = 1 THEN 2 ELSE 3
  <2>1. FromPause(b) = Polls * h + x /\ Longest = Timeouts + Polls * ((b + 1) \div 2) + 4
    BY ONLY <1>2, <1>4 DEF FromPause, Longest
  <2>2. h \in Nat /\ (b + 1) \div 2 = h + 1 /\ x \in {2, 3}
    BY ONLY <1>2, <1>4
  <2>3. Polls \in Nat
    BY DEF TimesFit
  <2>4. Polls * (h + 1) = Polls * h + Polls /\ Polls * h \in Nat
    BY ONLY <2>2, <2>3
  <2>5. MayFail <= Timeouts + SlowBit + Polls + FromPause(b) /\ SlowBit \in {0, 1} /\ MayFail \in Nat
    BY ONLY <1>1, <1>4 DEF Bounds
  <2> DEFINE y == Polls * h
  <2>6. /\ MayFail <= Timeouts + SlowBit + Polls + (y + x)
        /\ Longest = Timeouts + (y + Polls) + 4
    BY ONLY <2>1, <2>2, <2>4, <2>5
  <2>7. y \in Nat
    BY ONLY <2>4
  <2> HIDE DEF b, h, x, y
  <2> QED BY ONLY <2>2, <2>3, <2>5, <2>6, <2>7, <1>2
<1> QED BY <1>2, <1>3, <1>4

\* NoMoreThanLongest for the next state.
LEMMA NoMoreThanLongestNext ==
    ASSUME TimesFit, LineTypes' PROVE MayFail' <= Longest'
<1>1. TimesFit'
  BY DEF TimesFit
<1>2. (MayFail <= Longest)'
  BY <1>1, NoMoreThanLongest, PTL
<1> QED
  BY <1>2

\* While it is not settled, fewer replies owed are fewer polls that may fail.
LEMMA FewerUnsure ==
    ASSUME TimesFit, LineTypes, LineTypes', Owed > 0, Unsure,
           Owed' <= Owed, Timeouts' <= Timeouts,
           SlowBit' <= SlowBit
    PROVE  MayFail' <= MayFail
<1>1. Bounds /\ Bounds'
  BY MayFailBounds, MayFailBoundsNext
<1>2. Numbers /\ Numbers'
  BY AreNumbers, NumbersNext
<1> DEFINE o == Owed
           p == Owed'
           f == FromPause(o)
           g == FromPause(p)
<1>3. o \in Int /\ p \in Int /\ Timeouts \in Nat /\ Timeouts' \in Nat
  BY ONLY <1>2 DEF Numbers
<1>4. f \in Nat /\ g \in Nat /\ g <= f
  BY <1>3, FromPauses
<1>5. SlowBit \in Nat /\ SlowBit' \in Nat /\ MayFail \in Nat /\ MayFail' \in Nat
  BY ONLY <1>1 DEF Bounds
<1>6. MayFail = Timeouts + SlowBit + Polls + f
  BY <1>1 DEF Bounds
<1>7. Polls \in Nat /\ Polls >= 2
  BY DEF TimesFit
<1>8. CASE p <= 0
  <2>1. MayFail' <= 2
    BY ONLY <1>1, <1>8 DEF Bounds
  <2> HIDE DEF f
  <2> QED BY ONLY <2>1, <1>3, <1>4, <1>5, <1>6, <1>7
<1>9. CASE p > 0
  <2>1. MayFail' <= Timeouts' + SlowBit' + Polls + g
    BY ONLY <1>1, <1>9 DEF Bounds
  <2> DEFINE t == Timeouts
             u == Timeouts'
             s == SlowBit
             r == SlowBit'
             m == MayFail
             n == MayFail'
  <2>2. /\ n <= u + r + Polls + g /\ m = t + s + Polls + f /\ u <= t /\ r <= s
        /\ t \in Nat /\ u \in Nat /\ s \in Nat /\ r \in Nat /\ m \in Nat /\ n \in Nat
    BY <2>1, <1>3, <1>5, <1>6
  <2> HIDE DEF f, g, t, u, s, r, m, n
  <2>3. n <= m
    BY ONLY <2>2, <1>4, <1>7
  <2> QED BY ONLY <2>3 DEF n, m
<1> QED
  BY ONLY <1>3, <1>8, <1>9

\* Once it is, too.
LEMMA FewerSettled ==
    ASSUME TimesFit, LineTypes, LineTypes', Owed > 0, Owed' > 0,
           ~Unsure, ~Unsure', Owed' <= Owed,
           poll' = poll,
           Colliding \/ Ripe => Colliding' \/ Ripe',
           Collided => Collided'
    PROVE  MayFail' <= MayFail
<1>2. Numbers /\ Numbers'
  BY AreNumbers, NumbersNext
<1> DEFINE o == Owed
           p == Owed'
           f == FromPause(o)
           g == FromPause(p)
<1>3. o \in Int /\ p \in Int /\ o > 0 /\ p > 0 /\ p <= o
  BY <1>2 DEF Numbers
<1>4. f \in Nat /\ g \in Nat /\ g <= f
  BY <1>3, FromPauses
<1>5. poll \in 1 .. Polls /\ Polls \in Nat
  BY DEF LineTypes, TimesFit
<1>6. MayFail = IF Colliding \/ Ripe THEN f ELSE IF Collided THEN f - 1 ELSE Polls - poll + 1 + f
  BY ONLY <1>3, ~Unsure DEF MayFail, Unsure
<1>7. MayFail' = IF Colliding' \/ Ripe' THEN g ELSE IF Collided' THEN g - 1 ELSE Polls - poll + 1 + g
  BY ONLY <1>3, ~Unsure', poll' = poll DEF MayFail, Unsure
<1>8. Collided => poll = 2
  BY ONLY TRUE DEF Collided
<1>9. Colliding' \/ Ripe' => poll = 1
  BY ONLY poll' = poll DEF Colliding, Ripe
<1>10. (Colliding \/ Ripe => Colliding' \/ Ripe') /\ (Collided => Collided')
  OBVIOUS
<1> HIDE DEF f, g, o, p
<1> QED
  BY ONLY <1>4, <1>5, <1>6, <1>7, <1>8, <1>9, <1>10

\* A failed poll is one failure more at most.
LEMMA PollEndsFails ==
    ASSUME LineTypes, NEW a \in BOOLEAN, PollEnds(a)
    PROVE  failed \in Nat /\ failed' \in Nat /\ failed' <= failed + Bit(~a)
<1>1. failed \in Nat
  BY DEF LineTypes
<1>2. failed' = IF a THEN failed ELSE IF failed > longest THEN failed ELSE failed + 1
  BY DEF PollEnds, OneMore
<1> QED
  BY ONLY <1>1, <1>2, a \in BOOLEAN DEF Bit

\* What is on the line, and what the unit has read, stays.
LEMMA LineStays ==
    ASSUME UNCHANGED <<queue, delay, wire>>
    PROVE  Answers' = Answers /\ Due' = Due /\ (Dead' <=> Dead)
BY DEF Answers, Due, NotBegun, Dead

\* A poll or a write times out: the timeout before the answers is over.
LEMMA TimesOut ==
    ASSUME TimesFit, LineOK, LineOK', UNCHANGED <<queue, delay, wire, replySem, rx>>, ~replySem,
           wire = << >>, TimeLeft = 0, TimeLeft' = Timeout,
           "wait" \in {rd, wr}, "wait" \notin {rd', wr'}
    PROVE  /\ Answers = 0 => Owed = -1 /\ MayFail' = 0
           /\ Answers > 0 => MayFail' + 1 <= MayFail
<1>1. Numbers /\ Numbers' /\ Bounds /\ Bounds'
  BY AreNumbers, NumbersNext, MayFailBounds, MayFailBoundsNext DEF LineOK
<1>2. Answers' = Answers /\ Due' = Due /\ (Dead' <=> Dead)
  BY LineStays
<1> DEFINE a == Answers
           d == Due
           t == Timeouts
           u == Timeouts'
           o == Owed
           p == Owed'
<1>3. a \in Nat /\ d \in Nat /\ t \in Nat /\ u \in Nat /\ o \in Int /\ p \in Int
  BY <1>1 DEF Numbers
<1>4. o = a + t - 1 /\ p = a + u
  <2>1. Answers + 0 = Answers
    BY ONLY <1>3
  <2> QED BY <1>2, <1>3, <2>1 DEF Owed
<1>5. CASE a = 0
  <2>1. t = 0 /\ u = 0
    BY <1>2, <1>5, TimeoutsAre, TimeoutsAreNext DEF LineOK
  <2>2. ~Dead' /\ rd' # "wait"
    BY <1>2 DEF Dead
  <2>3. p = 0 /\ o = -1
    BY ONLY <1>4, <1>5, <2>1
  <2>4. MayFail' = 0
    BY ONLY <2>2, <2>3 DEF MayFail, Bit
  <2> QED BY <2>3, <2>4, <1>5
<1>6. CASE a > 0
  <2>1. t = TimedOut(d, 0) /\ u = TimedOut(d, Timeout)
    BY <1>2, <1>6, TimeoutsAre, TimeoutsAreNext DEF LineOK
  <2>2. t = u + 1
    <3>1. 0 \in 0 .. Timeout
      BY DEF TimesFit
    <3> QED BY <2>1, <1>3, <3>1, LateIs
  <2>3. p = o /\ o > 0
    <3> HIDE DEF a, t, u, o, p
    <3> QED BY ONLY <1>3, <1>4, <1>6, <2>2
  <2>4. SlowBit' = 0 /\ SlowBit = 0
    BY DEF SlowBit, Bit
  <2>5. Unsure
    <3> HIDE DEF u
    <3>1. t > 0
      BY ONLY <1>3, <2>2
    <3> QED BY ONLY <3>1 DEF Unsure
  <2>6. MayFail = t + Polls + FromPause(o) /\ MayFail' <= u + Polls + FromPause(p)
    <3>1. MayFail = t + 0 + Polls + FromPause(o) /\ MayFail' <= u + 0 + Polls + FromPause(p)
      BY ONLY <1>1, <2>3, <2>4, <2>5 DEF Bounds
    <3>2. t + 0 = t /\ u + 0 = u
      <4> HIDE DEF t, u
      <4> QED BY ONLY <1>3
    <3> QED BY ONLY <3>1, <3>2
  <2>7. FromPause(o) \in Nat /\ Polls \in Nat /\ MayFail \in Nat /\ MayFail' \in Nat /\ FromPause(p) = FromPause(o)
    BY <1>1, <1>3, <2>3, FromPauses DEF Bounds, TimesFit
  <2> HIDE DEF t, u, o, p
  <2>8. MayFail' + 1 <= MayFail
    BY ONLY <1>3, <2>2, <2>6, <2>7
  <2> QED BY <2>8, <1>6
<1> QED
  BY <1>3, <1>5, <1>6

\* A poll times out.
LEMMA ShiftPollTimesOut ==
    ASSUME TimesFit, LineOK, LineOK', PollTimesOut
    PROVE  failed' + MayFail' <= failed + MayFail
<1>1. /\ rd = "wait" /\ rdTimer = 0 /\ ~replySem
      /\ UNCHANGED <<queue, delay, wire, replySem, rx>> /\ wr' = wr
      /\ PollEnds(FALSE)
  BY DEF PollTimesOut, unitVars
<1>2. wr = "idle" /\ wire = << >> /\ Timeout # 0
  BY <1>1 DEF LineOK, Placed, TimesFit
<1>3. rd' \in {"send", "pause"}
  BY ONLY <1>1 DEF PollEnds, AfterLast
<1>4. TimeLeft = 0 /\ TimeLeft' = Timeout
  BY ONLY <1>1, <1>2, <1>3 DEF TimeLeft
<1>5. failed \in Nat /\ failed' \in Nat /\ failed' <= failed + 1
  <2>1. LineTypes
    BY DEF LineOK
  <2> QED BY <1>1, <2>1, PollEndsFails DEF Bit
<1>6. /\ Answers = 0 => Owed = -1 /\ MayFail' = 0
      /\ Answers > 0 => MayFail' + 1 <= MayFail
  <2>1. "wait" \in {rd, wr} /\ "wait" \notin {rd', wr'}
    BY ONLY <1>1, <1>2, <1>3
  <2> QED BY <1>1, <1>2, <1>4, <2>1, TimesOut
<1>7. Owed = -1 => MayFail = 1
  BY ONLY <1>1 DEF MayFail, Bit
<1>8. Answers \in Nat /\ MayFail \in Nat /\ MayFail' \in Nat
  BY AreNumbers, MayFailIsNat, MayFailIsNatNext DEF Numbers, LineOK
<1> DEFINE a == Answers
           o == Owed
           m == MayFail
           n == MayFail'
           f == failed'
<1>9. /\ a \in Nat /\ m \in Nat /\ n \in Nat /\ failed \in Nat /\ f \in Nat /\ f <= failed + 1
      /\ a = 0 => n = 0 /\ m = 1
      /\ a > 0 => n + 1 <= m
  BY ONLY <1>5, <1>6, <1>7, <1>8
<1>10. f + n <= failed + m
  <2> HIDE DEF a, m, n, f
  <2> QED BY ONLY <1>9
<1> QED
  BY ONLY <1>10

\* A write times out.
LEMMA ShiftWriteTimesOut ==
    ASSUME TimesFit, LineOK, LineOK', WriteTimesOut
    PROVE  failed' = failed /\ MayFail' <= MayFail
<1>1. /\ wr = "wait" /\ wrTimer = 0 /\ ~replySem
      /\ UNCHANGED <<queue, delay, wire, replySem, rx>> /\ wr' = "idle"
      /\ rd' = rd /\ failed' = failed
  BY DEF WriteTimesOut, unitVars, shift
<1>2. rd # "wait" /\ wire = << >> /\ Timeout # 0
  BY <1>1 DEF LineOK, Placed, TimesFit
<1>4. TimeLeft = 0 /\ TimeLeft' = Timeout
  BY ONLY <1>1, <1>2 DEF TimeLeft
<1>6. /\ Answers = 0 => Owed = -1 /\ MayFail' = 0
      /\ Answers > 0 => MayFail' + 1 <= MayFail
  <2>1. "wait" \in {rd, wr} /\ "wait" \notin {rd', wr'}
    BY ONLY <1>1, <1>2
  <2> QED BY <1>1, <1>2, <1>4, <2>1, TimesOut
<1>8. Answers \in Nat /\ MayFail \in Nat /\ MayFail' \in Nat
  BY AreNumbers, MayFailIsNat, MayFailIsNatNext DEF Numbers, LineOK
<1> DEFINE a == Answers
           m == MayFail
           n == MayFail'
<1>9. /\ a \in Nat /\ m \in Nat /\ n \in Nat
      /\ a = 0 => n = 0
      /\ a > 0 => n + 1 <= m
  BY ONLY <1>6, <1>8
<1>10. n <= m
  <2> HIDE DEF a, m, n
  <2> QED BY ONLY <1>9
<1> QED
  BY ONLY <1>1, <1>10

\* The pause is over.
LEMMA ShiftPauseEnds ==
    ASSUME TimesFit, LineOK, LineOK', PauseEnds
    PROVE  failed' = failed /\ MayFail' <= MayFail
<1>1. /\ rd = "pause" /\ rdTimer = 0 /\ rd' = "send" /\ rdTimer' = rdTimer /\ poll' = poll
      /\ UNCHANGED <<queue, delay, wire, replySem, rx>> /\ wr' = wr /\ wrTimer' = wrTimer
      /\ failed' = failed
  BY DEF PauseEnds, unitVars, shift
<1>2. poll = 1
  BY <1>1 DEF LineOK, Placed
<1>3. Answers' = Answers /\ Due' = Due /\ (Dead' <=> Dead)
  BY <1>1, LineStays
<1>4. TimeLeft' = TimeLeft
  BY ONLY <1>1 DEF TimeLeft
<1>5. Timeouts' = Timeouts
  BY ONLY <1>3, <1>4 DEF Timeouts
<1>6. Owed' = Owed
  BY ONLY <1>1, <1>3, <1>5 DEF Owed
<1>7. (Slow' <=> Slow) /\ (Ripe' <=> Ripe) /\ ~Colliding /\ ~Colliding' /\ ~Collided /\ ~Collided'
  BY ONLY <1>1, <1>2, <1>3 DEF Slow, Ripe, Colliding, Collided
<1>8. MayFail' = MayFail
  BY ONLY <1>1, <1>3, <1>5, <1>6, <1>7 DEF MayFail, Bit
<1>9. MayFail \in Nat
  BY MayFailIsNat DEF LineOK
<1> QED BY ONLY <1>1, <1>8, <1>9

\* A token ends a wait: what is owed stays.
LEMMA Replied ==
    ASSUME TimesFit, LineOK, LineOK', UNCHANGED <<queue, delay, wire>>, replySem, ~replySem',
           "wait" \in {rd, wr}, "wait" \notin {rd', wr'}
    PROVE  /\ Timeouts' = Timeouts /\ Owed' = Owed
           /\ Owed = Answers + Timeouts
           /\ SlowBit' = 0
           /\ Timeouts > 0 => Slow
           /\ Slow <=> Answers > 0 /\ Due > MaxPrompt
<1>1. Numbers /\ Numbers'
  BY AreNumbers, NumbersNext DEF LineOK
<1>2. Answers' = Answers /\ Due' = Due
  BY LineStays
<1>3. TimeLeft = Timeout /\ TimeLeft' = Timeout
  BY DEF TimeLeft
<1>4. Timeouts' = Timeouts
  BY ONLY <1>2, <1>3 DEF Timeouts
<1>5. Answers \in Nat /\ Timeouts \in Nat /\ Due \in Nat
  BY ONLY <1>1 DEF Numbers
<1>6. Owed = Answers + 1 + Timeouts - 1 /\ Owed' = Answers + 0 + Timeouts - 0
  <2>1. replySem /\ ~replySem' /\ "wait" \in {rd, wr} /\ "wait" \notin {rd', wr'}
    OBVIOUS
  <2> QED BY ONLY <2>1, <1>2, <1>4 DEF Owed
<1>7. SlowBit' = 0
  BY DEF SlowBit, Bit
<1>8. Slow <=> Answers > 0 /\ Due > MaxPrompt
  BY DEF Slow
<1>9. ASSUME Timeouts > 0 PROVE Slow
  <2>1. Answers > 0
    BY <1>9, <1>5, TimeoutsAre DEF LineOK
  <2>2. TimedOut(Due, Timeout) > 0
    BY <1>3, <1>9, <2>1, TimeoutsAre DEF LineOK
  <2>3. Timeout \in 0 .. Timeout /\ MaxPrompt < Timeout /\ MaxPrompt \in Nat /\ Timeout \in Nat
    BY DEF TimesFit
  <2>4. ~ (Due < Timeout)
    BY <2>2, <2>3, <1>5, LateIs
  <2> QED BY ONLY <2>1, <2>3, <2>4, <1>5, <1>8
<1>10. Owed = Answers + Timeouts /\ Owed' = Answers + Timeouts
  BY ONLY <1>5, <1>6
<1> QED
  BY ONLY <1>4, <1>10, <1>7, <1>8, <1>9

\* A token ends the wait of a write.
LEMMA ShiftWriteReplied ==
    ASSUME TimesFit, LineOK, LineOK', WriteReplied
    PROVE  failed' = failed /\ MayFail' <= MayFail
<1>1. /\ wr = "wait" /\ replySem /\ ~replySem' /\ wr' = "idle" /\ rd' = rd /\ failed' = failed
      /\ UNCHANGED <<queue, delay, wire>>
  BY DEF WriteReplied, TokenAfter, unitVars, shift
<1>2. rd # "wait"
  BY <1>1 DEF LineOK, Placed
<1>3. "wait" \in {rd, wr} /\ "wait" \notin {rd', wr'}
  BY ONLY <1>1, <1>2
<1>4. /\ Timeouts' = Timeouts /\ Owed' = Owed /\ SlowBit' = 0
      /\ Owed = Answers + Timeouts
  BY <1>1, <1>3, Replied
<1>5. Numbers /\ Bounds /\ Bounds'
  BY AreNumbers, MayFailBounds, MayFailBoundsNext DEF LineOK
<1>6. Answers \in Nat /\ Timeouts \in Nat
  BY ONLY <1>5 DEF Numbers
<1>7. CASE Owed = 0
  <2>1. Owed' = 0
    BY ONLY <1>4, <1>7
  <2>2. Dead' <=> Dead
    BY <1>1, LineStays
  <2>3. MayFail' = Bit(Dead)
    BY ONLY <2>1, <2>2, <1>1, <1>2 DEF MayFail, Bit
  <2>4. MayFail = Bit(Dead)
    BY ONLY <1>7, <1>2 DEF MayFail, Bit
  <2> QED BY <1>1, <2>3, <2>4 DEF Bit
<1>8. CASE Owed > 0
  <2>1. Unsure
    BY <1>1 DEF Unsure
  <2>2. SlowBit' <= SlowBit
    BY ONLY <1>4, <1>5 DEF Bounds
  <2>3. Owed' <= Owed /\ Timeouts' <= Timeouts
    BY ONLY <1>4, <1>6
  <2> QED BY <1>1, <1>8, <2>1, <2>2, <2>3, FewerUnsure DEF LineOK
<1> QED
  <2>1. Owed = 0 \/ Owed > 0
    BY ONLY <1>4, <1>6
  <2> QED BY ONLY <2>1, <1>7, <1>8

\* A token ends the wait of a poll.
LEMMA ShiftPollReplied ==
    ASSUME TimesFit, LineOK, LineOK', PollReplied
    PROVE  failed' + MayFail' <= failed + MayFail
<1> DEFINE ok == rx = <<poll>>
<1>1. /\ rd = "wait" /\ replySem /\ ~replySem' /\ wr' = wr
      /\ UNCHANGED <<queue, delay, wire>>
      /\ PollEnds(ok)
  BY DEF PollReplied, TokenAfter, unitVars
<1>2. wr = "idle"
  BY <1>1 DEF LineOK, Placed
<1>3. /\ poll' = IF poll = Polls THEN 1 ELSE poll + 1
      /\ rd' = IF poll = Polls THEN "pause" ELSE "send"
      /\ rdTimer' = IF poll = Polls THEN Pause ELSE 0
  BY ONLY <1>1 DEF PollEnds, AfterLast
<1>4. rd' \in {"pause", "send"} /\ "wait" \in {rd, wr} /\ "wait" \notin {rd', wr'}
  BY ONLY <1>1, <1>2, <1>3
<1>5. /\ Timeouts' = Timeouts /\ Owed' = Owed /\ SlowBit' = 0
      /\ Owed = Answers + Timeouts
      /\ Timeouts > 0 => Slow
      /\ Slow <=> Answers > 0 /\ Due > MaxPrompt
  BY <1>1, <1>4, Replied
<1>6. Numbers /\ Bounds /\ Bounds'
  BY AreNumbers, MayFailBounds, MayFailBoundsNext DEF LineOK
<1>7. /\ Answers \in Nat /\ Timeouts \in Nat /\ Due \in Nat
      /\ MayFail \in Nat /\ MayFail' \in Nat /\ SlowBit \in 0 .. 1
  BY ONLY <1>6 DEF Numbers, Bounds
<1>8. Due' = Due /\ (Dead' <=> Dead) /\ Answers' = Answers
  BY <1>1, LineStays
<1>9. failed \in Nat /\ failed' \in Nat /\ failed' <= failed + Bit(~ok)
  <2>1. LineTypes /\ ok \in BOOLEAN
    BY DEF LineOK
  <2> QED BY <1>1, <2>1, PollEndsFails
<1>10. Bit(~ok) \in 0 .. 1 /\ (ok => Bit(~ok) = 0)
  BY ONLY TRUE DEF Bit
<1>11. poll \in 1 .. Polls /\ Polls \in Nat /\ Polls >= 2 /\ MaxPrompt \in Nat /\ MaxPrompt >= 1
       /\ Pause \in Nat /\ MaxPrompt <= Pause
  BY DEF LineOK, LineTypes, TimesFit
<1> DEFINE m == MayFail
           n == MayFail'
           b == Bit(~ok)
           f == failed'
           o == Owed
           F == FromPause(o)
<1>16. m \in Nat /\ n \in Nat /\ f \in Nat /\ failed \in Nat /\ f <= failed + b /\ b \in {0, 1} /\ o \in Int
  BY ONLY <1>6, <1>7, <1>9, <1>10 DEF Numbers
<1>12. ASSUME n + b <= m PROVE f + n <= failed + m
  <2> HIDE DEF m, n, b, f
  <2> QED BY ONLY <1>12, <1>16
<1>13. CASE o = 0
  <2>1. Answers = 0 /\ Owed' = 0
    BY ONLY <1>5, <1>7, <1>13
  <2>2. Len(wire) # 1
    <3>1. Len(queue) \in Nat
      BY EmptySeq DEF LineOK, LineTypes
    <3> QED BY ONLY <2>1, <3>1 DEF Answers
  <2>3. OwnReply <=> ok
    <3>1. wire # <<poll>>
      BY ONLY <2>2
    <3> QED BY ONLY <1>1, <3>1 DEF OwnReply
  <2>4. n = Bit(Dead)
    BY ONLY <2>1, <1>4, <1>8 DEF MayFail, Bit
  <2>5. m = Bit(Dead) + b
    BY ONLY <1>13, <1>1, <2>3 DEF MayFail, Bit
  <2>6. Bit(Dead) \in Nat
    BY DEF Bit
  <2>7. n + b <= m
    <3> DEFINE x == Bit(Dead)
    <3> HIDE DEF x, b, n, m
    <3> QED BY ONLY <2>4, <2>5, <2>6, <1>10
  <2> QED BY ONLY <2>7, <1>12
<1>14. CASE o > 0 /\ Slow
  <2>1. SlowBit = 1
    BY <1>1, <1>14 DEF SlowBit, Bit
  <2>2. m = Timeouts + 1 + Polls + F
    BY ONLY <1>6, <2>1, <1>14 DEF Bounds, Unsure
  <2>3. n <= Timeouts + 0 + Polls + F
    BY ONLY <1>5, <1>6, <1>14 DEF Bounds
  <2>4. F \in Nat
    <3>1. o \in Int
      BY ONLY <1>6 DEF Numbers
    <3> QED BY <3>1, FromPauses
  <2>5. n + b <= m
    <3> DEFINE t == Timeouts
    <3>1. m = t + 1 + Polls + F /\ n <= t + 0 + Polls + F /\ t \in Nat
      BY ONLY <2>2, <2>3, <1>7
    <3> HIDE DEF t, F, b, n, m
    <3> QED BY ONLY <3>1, <2>4, <1>16, <1>11
  <2> QED BY ONLY <2>5, <1>12
<1>15. CASE o > 0 /\ ~Slow
  <2>1. Timeouts = 0 /\ Answers > 0 /\ Due <= MaxPrompt
    BY ONLY <1>5, <1>7, <1>11, <1>15
  <2>2. ~Slow'
    BY ONLY <2>1, <1>8, <1>7, <1>11 DEF Slow
  <2>3. ~Ripe /\ ~Collided /\ (Colliding <=> poll = 1 /\ Len(wire) = 1)
    BY ONLY <1>1 DEF Ripe, Collided, Colliding
  <2>4. m = IF Colliding THEN F ELSE Polls - poll + 1 + F
    BY ONLY <1>15, <1>16, <2>1, <2>3, <1>2 DEF MayFail
  <2>5. F \in Nat
    <3>1. o \in Int
      BY ONLY <1>6 DEF Numbers
    <3> QED BY <3>1, FromPauses
  <2>6. n = IF Ripe' THEN F ELSE IF Collided' THEN F - 1 ELSE Polls - poll' + 1 + F
    <3>1. ~Colliding'
      BY ONLY <1>4 DEF Colliding
    <3> QED BY ONLY <3>1, <1>1, <1>2, <1>5, <1>15, <2>1, <2>2 DEF MayFail
  <2>7. CASE poll = Polls
    <3>1. Ripe'
      BY ONLY <2>7, <1>3, <1>8, <2>1, <1>7, <1>11, <1>4 DEF Ripe
    <3>2. n = F /\ m = 1 + F
      <4> HIDE DEF F, m, n
      <4> QED BY ONLY <3>1, <2>7, <2>4, <2>6, <2>3, <1>11, <2>5
    <3>3. n + b <= m
      <4> HIDE DEF F, m, n, b
      <4> QED BY ONLY <3>2, <1>16, <2>5
    <3> QED BY ONLY <3>3, <1>12
  <2>8. CASE poll # Polls
    <3>1. ~Ripe' /\ poll' = poll + 1
      BY ONLY <2>8, <1>3, <1>11 DEF Ripe
    <3>2. Collided' <=> Colliding
      BY ONLY <2>8, <1>1, <1>3, <2>3, <3>1, <1>11 DEF Collided
    <3>3. n + 1 <= m
      <4> HIDE DEF F, m, n
      <4> QED BY ONLY <3>1, <3>2, <2>4, <2>6, <2>5, <1>11
    <3>4. n + b <= m
      <4> HIDE DEF F, m, n, b
      <4> QED BY ONLY <3>3, <1>16
    <3> QED BY ONLY <3>4, <1>12
  <2> QED BY ONLY <2>7, <2>8
<1> QED
  <2>1. o = 0 \/ o > 0
    BY ONLY <1>5, <1>7
  <2> QED BY ONLY <2>1, <1>13, <1>14, <1>15

\* The unit decides to answer in time.
LEMMA ShiftPrompt ==
    ASSUME TimesFit, LineOK, LineOK', NEW d \in 0 .. MaxLate, Prompt(d)
    PROVE  failed' = failed /\ MayFail' <= MayFail
<1>1. /\ queue # << >> /\ delay = NotBegun /\ delay' = d /\ d < MaxPrompt
      /\ UNCHANGED <<rd, poll, rdTimer, wr, wrTimer, rx, replySem, wire, queue>>
      /\ failed' = failed
  BY DEF Prompt, masterVars, shift
<1>2. MaxPrompt \in Nat /\ MaxPrompt >= 1 /\ MaxLate \in Nat /\ Polls \in Nat /\ Polls >= 2
  BY DEF TimesFit
<1>3. Due = MaxPrompt - 1 /\ Due' = d
  BY ONLY <1>1, <1>2, d \in 0 .. MaxLate DEF Due, NotBegun
<1>4. Answers' = Answers /\ TimeLeft' = TimeLeft /\ Answers > 0
  <2>1. Len(queue) \in Nat /\ Len(queue) # 0
    BY <1>1, EmptySeq DEF LineOK, LineTypes
  <2>2. Answers' = Answers /\ TimeLeft' = TimeLeft
    BY ONLY <1>1 DEF Answers, TimeLeft
  <2>3. Answers > 0
    BY ONLY <2>1 DEF Answers
  <2> QED BY ONLY <2>2, <2>3
<1>5. Numbers /\ Numbers' /\ Bounds /\ Bounds' /\ LineTypes /\ LineTypes'
  BY AreNumbers, NumbersNext, MayFailBounds, MayFailBoundsNext DEF LineOK
<1> DEFINE t == Timeouts
           u == Timeouts'
           o == Owed
           p == Owed'
           a == Answers
           w == Bit("wait" \in {rd, wr})
           r == Bit(replySem)
<1>6. /\ t \in Nat /\ u \in Nat /\ o \in Int /\ p \in Int /\ a \in Nat /\ a > 0 /\ w \in {0, 1} /\ r \in {0, 1}
  BY ONLY <1>4, <1>5 DEF Numbers, Bit
<1>7. u <= t
  <2>1. TimeLeft \in 0 .. Timeout
    BY ONLY <1>5 DEF Numbers
  <2>2. t = TimedOut(Due, TimeLeft) /\ u = TimedOut(d, TimeLeft)
    BY <1>3, <1>4, <1>5, TimeoutsAre, TimeoutsAreNext
  <2>3. d \in Nat /\ MaxPrompt - 1 \in Nat /\ d <= MaxPrompt - 1
    BY ONLY <1>1, <1>2, d \in 0 .. MaxLate
  <2>4. TimedOut(d, TimeLeft) <= TimedOut(MaxPrompt - 1, TimeLeft)
    BY <2>1, <2>3, LateIs
  <2> QED BY ONLY <2>2, <2>4, <1>3
<1>8. o = a + r + t - w /\ p = a + r + u - w
  <2>1. Owed = Answers + r + Timeouts - w
    BY ONLY TRUE DEF Owed, Bit
  <2>2. Owed' = Answers' + r + Timeouts' - w
    BY ONLY <1>1 DEF Owed, Bit
  <2> QED BY ONLY <2>1, <2>2, <1>4
<1>9. p <= o /\ p >= 0 /\ (o = 0 => t = 0) /\ (t = 0 => p = o /\ u = 0)
  <2> HIDE DEF t, u, o, p, a, w, r
  <2> QED BY ONLY <1>6, <1>7, <1>8
<1>10. ~Slow /\ ~Slow'
  BY ONLY <1>1, <1>2, <1>3, d \in 0 .. MaxLate DEF Slow
<1>11. (Dead' <=> Dead) /\ (OwnReply' <=> OwnReply) /\ (Collided' <=> Collided)
  BY ONLY <1>1 DEF Dead, OwnReply, Collided
<1>12. (Colliding => Colliding') /\ (Ripe => Ripe')
  <2>1. rdTimer \in Int
    BY ONLY <1>5, <1>2, TimesFit DEF LineTypes, TimesFit
  <2>2. d \in Nat /\ (Due = 0 => d = 0) /\ (Due <= rdTimer => d <= rdTimer)
    BY ONLY <1>1, <1>2, <1>3, <2>1, d \in 0 .. MaxLate
  <2>3. Colliding => Colliding'
    BY ONLY <1>1, <1>3, <2>2 DEF Colliding
  <2>4. Ripe => Ripe'
    BY ONLY <1>1, <1>3, <2>2 DEF Ripe
  <2> QED BY ONLY <2>3, <2>4
<1>13. MayFail' <= MayFail
  <2>1. CASE o = 0
    <3>1. p = 0
      BY ONLY <2>1, <1>9
    <3>2. MayFail' = MayFail
      BY ONLY <2>1, <3>1, <1>1, <1>11 DEF MayFail, Bit
    <3>3. MayFail \in Nat
      BY ONLY <1>5 DEF Bounds
    <3> QED BY ONLY <3>2, <3>3
  <2>2. CASE o > 0 /\ Unsure
    <3>1. SlowBit = 0 /\ SlowBit' = 0
      BY ONLY <1>10 DEF SlowBit, Bit
    <3>2. SlowBit' <= SlowBit
      BY ONLY <3>1
    <3> QED BY <2>2, <3>2, <1>5, <1>7, <1>9, FewerUnsure
  <2>3. CASE o > 0 /\ ~Unsure
    <3>1. ~ (t > 0) /\ wr # "wait"
      BY ONLY <2>3 DEF Unsure
    <3>2. t = 0
      BY ONLY <3>1, <1>6
    <3>3. p = o /\ u = 0
      BY ONLY <3>2, <1>9
    <3>4. ~Unsure'
      BY ONLY <3>1, <3>3, <1>1, <1>10 DEF Unsure
    <3>5. p > 0 /\ p <= o
      BY ONLY <2>3, <3>3, <1>9
    <3>6. poll' = poll /\ (Colliding \/ Ripe => Colliding' \/ Ripe') /\ (Collided => Collided')
      BY ONLY <1>1, <1>11, <1>12
    <3> QED BY <2>3, <3>4, <3>5, <3>6, <1>5, FewerSettled
  <2>4. o = 0 \/ o > 0
    <3> HIDE DEF o, p
    <3> QED BY ONLY <1>6, <1>9
  <2> QED BY ONLY <2>1, <2>2, <2>3, <2>4
<1> QED BY ONLY <1>1, <1>13

\* A reply arrives.
LEMMA ShiftArrive ==
    ASSUME TimesFit, LineOK, LineOK', Arrive
    PROVE  failed' = failed /\ MayFail' <= MayFail
<1>1. /\ queue # << >> /\ delay = 0 /\ delay' = NotBegun /\ replySem' = TRUE
      /\ UNCHANGED <<rd, poll, rdTimer, wr, wrTimer, wire>>
      /\ failed' = failed
  BY DEF Arrive, masterVars, shift
<1>2. /\ MaxPrompt \in Nat /\ MaxPrompt >= 1 /\ MaxLate \in Nat /\ Polls \in Nat /\ Polls >= 2
      /\ MaxPrompt < Timeout /\ Timeout \in Nat
  BY DEF TimesFit
<1>3. /\ Due = 0 /\ Due' <= MaxPrompt /\ Due' \in Nat
      /\ TimeLeft' = Timeout
  <2>1. Due = 0
    BY ONLY <1>1, <1>2 DEF Due, NotBegun
  <2>2. Due' = MaxPrompt \/ Due' = MaxPrompt - 1
    BY ONLY <1>1 DEF Due
  <2>3. TimeLeft' = Timeout
    BY ONLY <1>1 DEF TimeLeft
  <2> QED BY ONLY <2>1, <2>2, <2>3, <1>2
<1>4. Len(queue) \in Nat /\ Len(queue) >= 1 /\ Len(queue') = Len(queue) - 1
  <2>1. queue \in Seq(Request) /\ queue # << >> /\ queue' = Tail(queue)
    BY DEF LineOK, LineTypes, Arrive
  <2> QED BY ONLY <2>1
<1>5. Numbers /\ Numbers' /\ Bounds /\ Bounds' /\ LineTypes /\ LineTypes'
  BY AreNumbers, NumbersNext, MayFailBounds, MayFailBoundsNext DEF LineOK
<1> DEFINE t == Timeouts
           u == Timeouts'
           o == Owed
           p == Owed'
           a == Answers
           b == Answers'
           w == Bit("wait" \in {rd, wr})
           r == Bit(replySem)
<1>6. /\ t \in Nat /\ u \in Nat /\ o \in Int /\ p \in Int /\ a \in Nat /\ b \in Nat
      /\ w \in {0, 1} /\ r \in {0, 1}
  BY ONLY <1>5 DEF Numbers, Bit
<1>7. a >= 1 /\ b = a - 1
  <2> DEFINE x == IF Len(wire) = 1 THEN 1 ELSE 0
             k == Len(queue)
             l == Len(queue')
  <2>1. Answers = k + x /\ Answers' = l + x /\ x \in {0, 1}
    BY ONLY <1>1 DEF Answers
  <2>2. k \in Nat /\ k >= 1 /\ l = k - 1
    BY ONLY <1>4
  <2> HIDE DEF x, k, l
  <2> QED BY ONLY <2>1, <2>2
<1>8. u = 0
  <2>1. TimedOut(Due', Timeout) = 0
    <3>1. Timeout \in 0 .. Timeout /\ Due' < Timeout
      BY ONLY <1>2, <1>3
    <3> QED BY <3>1, <1>3, LateIs
  <2>2. b = 0 \/ b > 0
    <3> HIDE DEF b
    <3> QED BY ONLY <1>6
  <2> QED BY <2>1, <2>2, <1>3, <1>5, TimeoutsAreNext
<1>9. o = a + r + t - w /\ p = a - w
  <2>1. Owed = Answers + r + Timeouts - w
    BY ONLY TRUE DEF Owed, Bit
  <2>2. Owed' = Answers' + 1 + Timeouts' - w
    BY ONLY <1>1 DEF Owed, Bit
  <2>3. o = a + r + t - w /\ p = b + 1 + u - w
    BY ONLY <2>1, <2>2
  <2> HIDE DEF o, p, a, b, r, t, u, w
  <2> QED BY ONLY <2>3, <1>6, <1>7, <1>8
<1>10. /\ p <= o /\ p >= 0
       /\ o = 0 => a = 1 /\ w = 1 /\ r = 0 /\ t = 0 /\ p = 0
       /\ p = 0 => a = 1 /\ w = 1
  <2> HIDE DEF t, u, o, p, a, w, r
  <2> QED BY ONLY <1>6, <1>7, <1>9
<1>11. ~Slow /\ ~Slow'
  BY ONLY <1>2, <1>3 DEF Slow
<1>12. (Dead' <=> Dead) /\ (Collided' <=> Collided)
  BY ONLY <1>1 DEF Dead, Collided
<1>13. (Colliding => Colliding') /\ (Ripe => Ripe')
  BY ONLY <1>1 DEF Colliding, Ripe
<1>14. SlowBit' <= SlowBit
  <2>1. SlowBit = 0 /\ SlowBit' = 0
    BY ONLY <1>11 DEF SlowBit, Bit
  <2> QED BY ONLY <2>1
<1>15. MayFail \in Nat /\ MayFail' \in Nat
  BY ONLY <1>5 DEF Bounds
<1>16. MayFail' <= MayFail
  <2>1. CASE o = 0
    <3>1. a = 1 /\ w = 1 /\ r = 0 /\ p = 0
      BY ONLY <2>1, <1>10
    <3>2. ~replySem /\ "wait" \in {rd, wr}
      BY ONLY <3>1 DEF Bit
    <3>3. rx = << >>
      BY <3>2 DEF LineOK, Placed
    <3>4. Len(queue) = 1 /\ Len(wire) # 1
      BY ONLY <3>1, <1>4 DEF Answers
    <3>5. OwnReply => OwnReply'
      <4>1. ASSUME OwnReply PROVE OwnReply'
        <5>1. rd = "wait" /\ queue = <<poll>>
          <6>1. wire # <<poll>>
            BY ONLY <3>4
          <6> QED BY ONLY <4>1, <6>1, <3>2 DEF OwnReply
        <5>2. rx' = Append(<< >>, Head(<<poll>>))
          BY <5>1, <3>3 DEF Arrive
        <5>3. rx' = <<poll>>
          BY ONLY <5>2
        <5> QED BY ONLY <5>1, <5>3, <1>1 DEF OwnReply
      <4> QED BY <4>1
    <3>6. MayFail = Bit(Dead) + Bit(rd = "wait" /\ ~OwnReply)
      BY ONLY <2>1 DEF MayFail
    <3>7. MayFail' = Bit(Dead) + Bit(rd = "wait" /\ ~OwnReply')
      <4>1. Dead' = Dead
        BY ONLY <1>1 DEF Dead
      <4> QED BY ONLY <3>1, <4>1, <1>1 DEF MayFail
    <3> DEFINE x == Bit(rd = "wait" /\ ~OwnReply)
               y == Bit(rd = "wait" /\ ~OwnReply')
               z == Bit(Dead)
    <3>8. x \in {0, 1} /\ y \in {0, 1} /\ z \in {0, 1} /\ y <= x
      BY ONLY <3>5 DEF Bit
    <3>9. MayFail = z + x /\ MayFail' = z + y
      BY ONLY <3>6, <3>7
    <3> HIDE DEF x, y, z
    <3> QED BY ONLY <3>8, <3>9
  <2>2. CASE o > 0 /\ Unsure
    <3>1. u <= t
      BY ONLY <1>6, <1>8
    <3> QED BY <2>2, <3>1, <1>5, <1>10, <1>14, FewerUnsure
  <2>3. CASE o > 0 /\ ~Unsure /\ p > 0
    <3>1. wr # "wait" /\ ~Unsure'
      BY ONLY <2>3, <1>1, <1>8, <1>11 DEF Unsure
    <3>2. poll' = poll /\ (Colliding \/ Ripe => Colliding' \/ Ripe') /\ (Collided => Collided')
      BY ONLY <1>1, <1>12, <1>13
    <3> QED BY <2>3, <3>1, <3>2, <1>5, <1>10, FewerSettled
  <2>4. CASE o > 0 /\ ~Unsure /\ p = 0
    <3>1. "wait" \in {rd, wr} /\ wr # "wait"
      <4>1. w = 1
        BY ONLY <2>4, <1>10
      <4> QED BY ONLY <4>1, <2>4 DEF Bit, Unsure
    <3>2. ~Collided
      BY ONLY <3>1 DEF Collided
    <3>3. MayFail = FromPause(o) \/ MayFail = Polls - poll + 1 + FromPause(o)
      BY ONLY <2>4, <3>2, <1>6 DEF MayFail, Unsure
    <3>4. FromPause(o) \in Nat /\ FromPause(o) >= 2
      <4>1. o \in Int /\ o >= 1
        <5> HIDE DEF o
        <5> QED BY ONLY <1>6, <2>4
      <4> QED BY <4>1, FromPauses
    <3>5. poll \in 1 .. Polls
      BY ONLY <1>5 DEF LineTypes
    <3>6. MayFail' <= 2
      BY ONLY <2>4, <1>5 DEF Bounds
    <3> DEFINE f == FromPause(o)
    <3> HIDE DEF f
    <3> QED BY ONLY <3>3, <3>4, <3>5, <3>6, <1>2, <1>15
  <2>5. (o = 0 \/ o > 0) /\ (p = 0 \/ p > 0)
    <3> HIDE DEF o, p
    <3> QED BY ONLY <1>6, <1>10
  <2> QED BY ONLY <2>1, <2>2, <2>3, <2>4, <2>5
<1> QED BY ONLY <1>1, <1>16

\* What the line and the unit do in a tick.
LEMMA TickLine ==
    ASSUME TimesFit, LineTypes, TimePasses
    PROVE  /\ Len(wire') = 0 /\ wire' = << >>
           /\ Len(queue) \in Nat /\ Len(queue') \in Nat /\ Len(wire) \in Nat
           /\ Answers' = Len(queue')
           /\ queue = << >> /\ Len(wire) = 1 => queue' = wire
           /\ Len(wire) # 1 => queue' = queue
           /\ Answers' <= Answers
           /\ Answers' = 0 <=> Answers = 0
           /\ queue # << >> => Due # 0
           /\ Answers > 0 => Due >= 1 /\ Due' = Due - 1
<1>1. /\ ~UnitReady /\ wire' = << >>
      /\ delay' = IF queue = << >> THEN NotBegun ELSE delay - 1
      /\ \/ Len(wire) = 1 /\ queue' = queue \o wire
         \/ (Len(wire) # 1 \/ queue # << >>) /\ queue' = queue
  BY DEF TimePasses
<1>2. /\ queue \in Seq(Request) /\ wire \in Seq(Request) /\ delay \in 0 .. MaxLate + 1
      /\ MaxLate \in Nat /\ MaxPrompt \in Nat /\ MaxPrompt >= 1
  BY DEF LineTypes, TimesFit
<1>3. Len(wire') = 0
  BY ONLY <1>1
<1>4. /\ Len(queue) \in Nat /\ Len(wire) \in Nat /\ (Len(queue) = 0 <=> queue = << >>)
      /\ Len(wire) = 1 => Len(queue \o wire) = Len(queue) + 1 /\ queue \o wire \in Seq(Request)
      /\ queue = << >> => queue \o wire = wire
  <2>1. queue \in Seq(Request) /\ wire \in Seq(Request)
    BY ONLY <1>2
  <2>2. Len(queue) \in Nat /\ Len(wire) \in Nat /\ (Len(queue) = 0 <=> queue = << >>)
    BY <2>1, EmptySeq
  <2>3. Len(queue \o wire) = Len(queue) + Len(wire) /\ queue \o wire \in Seq(Request)
    BY ONLY <2>1
  <2>4. queue = << >> => queue \o wire = wire
    BY ONLY <2>1
  <2> QED BY ONLY <2>2, <2>3, <2>4
<1>5. /\ Len(queue') \in Nat /\ (Len(queue') = 0 <=> queue' = << >>)
      /\ Len(queue') = Len(queue) \/ (Len(wire) = 1 /\ Len(queue') = Len(queue) + 1)
      /\ Len(queue') = Len(queue) => Len(wire) # 1 \/ queue # << >>
  <2>1. CASE queue' = queue \o wire /\ Len(wire) = 1
    <3>1. Len(queue') = Len(queue) + 1 /\ queue' \in Seq(Request)
      BY ONLY <2>1, <1>4
    <3>2. Len(queue') \in Nat /\ (Len(queue') = 0 <=> queue' = << >>)
      BY <3>1, EmptySeq
    <3> QED BY ONLY <2>1, <3>1, <3>2, <1>4
  <2>2. CASE queue' = queue /\ (Len(wire) # 1 \/ queue # << >>)
    BY ONLY <2>2, <1>4
  <2> QED BY ONLY <2>1, <2>2, <1>1
<1>6. Answers' = Len(queue')
  BY ONLY <1>3, <1>5 DEF Answers
<1>7. (queue = << >> /\ Len(wire) = 1 => queue' = wire) /\ (Len(wire) # 1 => queue' = queue)
  BY ONLY <1>1, <1>4
<1>8. Answers' <= Answers /\ (Answers' = 0 <=> Answers = 0)
  <2> DEFINE k == Len(queue)
             l == Len(queue')
             x == Len(wire)
  <2>1. Answers = k + (IF x = 1 THEN 1 ELSE 0) /\ Answers' = l
    BY ONLY <1>6 DEF Answers
  <2>2. /\ k \in Nat /\ l \in Nat /\ x \in Nat
        /\ l = k \/ (x = 1 /\ l = k + 1)
        /\ l = k => x # 1 \/ k # 0
    BY ONLY <1>4, <1>5
  <2> HIDE DEF k, l, x
  <2> QED BY ONLY <2>1, <2>2
<1>9. CASE queue = << >>
  <2>1. Due = MaxPrompt
    BY ONLY <1>9 DEF Due
  <2>2. Answers > 0 => queue' # << >>
    <3>1. Answers \in Nat
      BY AreNumbers DEF Numbers
    <3> QED BY ONLY <3>1, <1>5, <1>6, <1>8
  <2>3. Answers > 0 => Due' = MaxPrompt - 1
    BY ONLY <2>2, <1>1, <1>9 DEF Due
  <2> QED BY ONLY <1>9, <2>1, <2>3, <1>2, <1>3, <1>1, <1>4, <1>5, <1>6, <1>7, <1>8
<1>10. CASE queue # << >>
  <2>1. delay # 0 /\ delay # NotBegun
    BY ONLY <1>1, <1>10 DEF UnitReady
  <2>2. delay' = delay - 1 /\ queue' # << >>
    <3>1. Len(queue') # 0
      BY ONLY <1>10, <1>4, <1>5
    <3> QED BY ONLY <3>1, <1>1, <1>5, <1>10
  <2>3. delay' # NotBegun
    BY ONLY <1>2, <2>2 DEF NotBegun
  <2>4. Due = delay /\ Due' = delay - 1
    BY ONLY <1>10, <2>1, <2>2, <2>3 DEF Due
  <2>5. delay >= 1
    BY ONLY <1>2, <2>1
  <2>6. Due # 0 /\ Due >= 1 /\ Due' = Due - 1
    BY ONLY <2>4, <2>5, <1>2
  <2> QED BY ONLY <2>6, <1>1, <1>3, <1>4, <1>5, <1>6, <1>7, <1>8
<1> QED BY ONLY <1>9, <1>10

\* A tick goes by.
LEMMA ShiftTick ==
    ASSUME TimesFit, LineOK, LineOK', Tick
    PROVE  failed' = failed /\ MayFail' <= MayFail
<1>1. /\ TimePasses /\ failed' = failed
      /\ UNCHANGED <<rd, poll, wr, rx, replySem>>
      /\ rdTimer' = Minus(rdTimer) /\ wrTimer' = Minus(wrTimer)
      /\ ~TaskReady
  BY DEF Tick, TimePasses, shift
<1>2. /\ Polls \in Nat /\ Polls >= 2 /\ Timeout \in Nat /\ MaxPrompt \in Nat
  BY DEF TimesFit
<1>3. /\ rd = "send" => wr = "wait"
      /\ "wait" \in {rd, wr} => ~replySem
      /\ rd # "send" => rdTimer # 0
      /\ wr = "wait" => wrTimer # 0
  <2>1. wr \in {"idle", "wait"}
    BY DEF LineOK, LineTypes
  <2> QED BY ONLY <1>1, <2>1 DEF TaskReady
<1>4. /\ Len(wire') = 0 /\ wire' = << >>
      /\ Len(queue) \in Nat /\ Len(queue') \in Nat /\ Len(wire) \in Nat
      /\ Answers' = Len(queue')
      /\ queue = << >> /\ Len(wire) = 1 => queue' = wire
      /\ Len(wire) # 1 => queue' = queue
      /\ Answers' <= Answers
      /\ Answers' = 0 <=> Answers = 0
      /\ queue # << >> => Due # 0
      /\ Answers > 0 => Due >= 1 /\ Due' = Due - 1
  <2>1. LineTypes
    BY DEF LineOK
  <2> QED BY <1>1, <2>1, TickLine
<1>5. Numbers /\ Numbers' /\ Bounds /\ Bounds' /\ LineTypes /\ LineTypes'
  BY AreNumbers, NumbersNext, MayFailBounds, MayFailBoundsNext DEF LineOK
<1> DEFINE t == Timeouts
           u == Timeouts'
           o == Owed
           p == Owed'
           a == Answers
           b == Answers'
           w == Bit("wait" \in {rd, wr})
           r == Bit(replySem)
           d == Due
           e == Due'
           l == TimeLeft
           k == TimeLeft'
<1>6. /\ t \in Nat /\ u \in Nat /\ o \in Int /\ p \in Int /\ a \in Nat /\ b \in Nat
      /\ w \in {0, 1} /\ r \in {0, 1} /\ d \in Nat /\ e \in Nat
      /\ l \in 0 .. Timeout /\ k \in 0 .. Timeout
  BY ONLY <1>5 DEF Numbers, Bit
<1>7. rdTimer \in 0 .. Timeout /\ wrTimer \in 0 .. Timeout
  BY ONLY <1>5 DEF LineTypes
<1>8. /\ "wait" \in {rd, wr} => l >= 1 /\ k = l - 1
      /\ "wait" \notin {rd, wr} => l = Timeout /\ k = Timeout
  <2>1. CASE rd = "wait"
    <3>1. l = rdTimer /\ k = rdTimer'
      BY ONLY <2>1, <1>1, <1>3 DEF TimeLeft
    <3> QED BY ONLY <2>1, <3>1, <1>1, <1>2, <1>3, <1>7 DEF Minus
  <2>2. CASE rd # "wait" /\ wr = "wait"
    <3>1. l = wrTimer /\ k = wrTimer'
      BY ONLY <2>2, <1>1, <1>3 DEF TimeLeft
    <3> QED BY ONLY <2>2, <3>1, <1>1, <1>2, <1>3, <1>7 DEF Minus
  <2>3. CASE rd # "wait" /\ wr # "wait"
    BY ONLY <2>3, <1>1 DEF TimeLeft
  <2> QED BY ONLY <2>1, <2>2, <2>3
<1>9. /\ u <= t
      /\ "wait" \in {rd, wr} => u = t
      /\ t = 0 => u = 0
  <2>1. CASE a = 0
    <3>1. t = 0 /\ u = 0
      BY <2>1, <1>4, <1>5, TimeoutsAre, TimeoutsAreNext
    <3> QED BY ONLY <3>1
  <2>2. CASE a > 0
    <3>1. b > 0
      <4> HIDE DEF a, b
      <4>1. b = 0 <=> a = 0
        BY ONLY <1>4 DEF a, b
      <4> QED BY ONLY <4>1, <2>2, <1>6
    <3>2. t = TimedOut(d, l) /\ u = TimedOut(e, k)
      BY <2>2, <3>1, <1>5, TimeoutsAre, TimeoutsAreNext
    <3>3. e = d - 1 /\ d >= 1
      BY ONLY <1>4, <2>2
    <3>4. CASE "wait" \in {rd, wr}
      <4>1. TimedOut(d - 1, l - 1) = TimedOut(d, l)
        BY <3>3, <3>4, <1>6, <1>8, LateIs
      <4>2. u = t
        BY ONLY <4>1, <3>2, <3>3, <3>4, <1>8
      <4> HIDE DEF t, u
      <4> QED BY ONLY <4>2, <1>6
    <3>5. CASE "wait" \notin {rd, wr}
      <4>1. k = l
        BY ONLY <3>5, <1>8
      <4>2. e <= d
        <5> HIDE DEF d, e
        <5> QED BY ONLY <3>3, <1>6
      <4>3. TimedOut(e, l) <= TimedOut(d, l)
        BY <4>2, <1>6, LateIs
      <4>4. u <= t
        BY ONLY <4>1, <4>3, <3>2
      <4> HIDE DEF t, u
      <4> QED BY ONLY <4>4, <3>5, <1>6
    <3> QED BY ONLY <3>4, <3>5
  <2>3. a = 0 \/ a > 0
    <3> HIDE DEF a
    <3> QED BY ONLY <1>6
  <2> QED BY ONLY <2>1, <2>2, <2>3
<1>10. o = a + r + t - w /\ p = b + r + u - w
  BY ONLY <1>1 DEF Owed, Bit
<1>11. /\ p <= o
       /\ o = 0 => p = 0 /\ a + t = w /\ a = b
       /\ o < 0 => p < 0
  <2>1. w = 1 => r = 0 /\ u = t
    BY ONLY <1>3, <1>9 DEF Bit
  <2>2. b <= a /\ (b = 0 <=> a = 0)
    BY ONLY <1>4
  <2>3. a = 0 => t = 0
    BY <1>5, TimeoutsAre
  <2> HIDE DEF t, u, o, p, a, b, w, r
  <2> QED BY ONLY <2>1, <2>2, <2>3, <1>6, <1>9, <1>10
<1>12. /\ Slow' => Slow
       /\ ~Dead' /\ ~Colliding /\ (Collided => wr = "wait")
  <2>1. Slow' => Slow
    <3> HIDE DEF a, b, d, e
    <3>1. a > 0 => d >= 1 /\ e = d - 1
      BY ONLY <1>4 DEF a, d, e
    <3>2. b > 0 => a > 0
      BY ONLY <1>4, <1>6 DEF a, b
    <3>3. b > 0 /\ e > MaxPrompt => a > 0 /\ d > MaxPrompt
      BY ONLY <3>1, <3>2, <1>6, <1>2
    <3> QED BY ONLY <3>3, <1>1 DEF Slow, a, b, d, e
  <2>2. ~Dead'
    BY ONLY <1>4 DEF Dead
  <2>3. ~Colliding
    BY ONLY <1>3, <1>4 DEF Colliding
  <2>4. Collided => wr = "wait"
    BY ONLY <1>3 DEF Collided
  <2> QED BY ONLY <2>1, <2>2, <2>3, <2>4
<1>13. ASSUME wr # "wait", o > 0, t = 0, Ripe PROVE Ripe'
  <2>1. rd # "wait" /\ rd # "send" /\ poll = 1 /\ (replySem \/ d <= rdTimer)
    BY ONLY <1>3, <1>13 DEF Ripe
  <2>2. rdTimer # 0 /\ rdTimer' = rdTimer - 1
    BY ONLY <2>1, <1>1, <1>3, <1>7, <1>2 DEF Minus
  <2>3. replySem \/ e <= rdTimer'
    <3>1. CASE a = 0
      <4>1. w = 0
        BY ONLY <1>13, <2>1 DEF Bit
      <4>2. r # 0
        <5> HIDE DEF o, p, a, b, t, u, w, r
        <5> QED BY ONLY <4>1, <3>1, <1>6, <1>10, <1>13
      <4> QED BY ONLY <4>2 DEF Bit
    <3>2. CASE a > 0
      <4>1. e = d - 1
        BY ONLY <3>2, <1>4
      <4> HIDE DEF d, e
      <4> QED BY ONLY <4>1, <2>1, <2>2, <1>6, <1>7, <1>2
    <3>3. a = 0 \/ a > 0
      <4> HIDE DEF a
      <4> QED BY ONLY <1>6
    <3> QED BY ONLY <3>1, <3>2, <3>3
  <2> QED BY ONLY <2>1, <2>3, <1>1, <1>4 DEF Ripe
<1>14. SlowBit' <= SlowBit
  BY ONLY <1>1, <1>12 DEF SlowBit, Bit
<1>15. MayFail \in Nat /\ MayFail' \in Nat
  BY ONLY <1>5 DEF Bounds
<1>16. MayFail' <= MayFail
  <2>1. CASE o < 0
    <3>1. MayFail' = Bit(rd = "wait") /\ MayFail = Bit(rd = "wait")
      BY ONLY <2>1, <1>11, <1>1 DEF MayFail
    <3> QED BY ONLY <3>1, <1>15
  <2>2. CASE o = 0
    <3>1. p = 0 /\ a + t = w /\ a = b
      BY ONLY <2>2, <1>11
    <3>2. OwnReply => OwnReply'
      <4>1. ASSUME OwnReply PROVE OwnReply'
        <5>1. rd = "wait" /\ ~replySem /\ (wire = <<poll>> \/ queue = <<poll>>)
          BY ONLY <4>1, <1>3 DEF OwnReply
        <5>2. a <= 1
          <6>1. w = 1
            BY ONLY <5>1 DEF Bit
          <6>2. a + t = w /\ a \in Nat /\ t \in Nat
            BY ONLY <3>1, <1>6
          <6> HIDE DEF a, t, w
          <6> QED BY ONLY <6>1, <6>2
        <5>3. CASE wire = <<poll>>
          <6>1. Len(wire) = 1
            BY ONLY <5>3
          <6>2. a = Len(queue) + 1
            BY ONLY <6>1 DEF Answers
          <6>3. Len(queue) = 0
            BY ONLY <6>2, <5>2, <1>4
          <6>4. queue = << >>
            BY <6>3, <1>5, EmptySeq DEF LineTypes
          <6> QED BY ONLY <6>1, <6>4, <5>1, <5>3, <1>1, <1>4 DEF OwnReply
        <5>4. CASE queue = <<poll>>
          <6>1. Len(queue) = 1
            BY ONLY <5>4
          <6>2. Len(wire) # 1
            BY ONLY <6>1, <5>2 DEF Answers
          <6> QED BY ONLY <6>2, <5>1, <5>4, <1>1, <1>4 DEF OwnReply
        <5> QED BY ONLY <5>1, <5>3, <5>4
      <4> QED BY <4>1
    <3>3. MayFail = Bit(Dead) + Bit(rd = "wait" /\ ~OwnReply)
      BY ONLY <2>2 DEF MayFail
    <3>4. MayFail' = 0 + Bit(rd = "wait" /\ ~OwnReply')
      BY ONLY <3>1, <1>1, <1>12 DEF MayFail, Bit
    <3> DEFINE x == Bit(rd = "wait" /\ ~OwnReply)
               y == Bit(rd = "wait" /\ ~OwnReply')
               z == Bit(Dead)
    <3>5. x \in {0, 1} /\ y \in {0, 1} /\ z \in {0, 1} /\ y <= x
      BY ONLY <3>2 DEF Bit
    <3>6. MayFail = z + x /\ MayFail' = 0 + y
      BY ONLY <3>3, <3>4
    <3> HIDE DEF x, y, z
    <3> QED BY ONLY <3>5, <3>6
  <2>3. CASE o > 0 /\ Unsure
    BY <2>3, <1>5, <1>9, <1>11, <1>14, FewerUnsure
  <2>4. CASE o > 0 /\ ~Unsure
    <3>1. t = 0 /\ wr # "wait" /\ ~Slow
      <4>1. ~(t > 0) /\ wr # "wait" /\ ~Slow
        BY ONLY <2>4 DEF Unsure
      <4> HIDE DEF t
      <4> QED BY ONLY <4>1, <1>6
    <3>2. ~Unsure'
      BY ONLY <3>1, <1>1, <1>9, <1>12 DEF Unsure
    <3>3. CASE p > 0
      <4>1. poll' = poll /\ (Colliding \/ Ripe => Colliding' \/ Ripe') /\ (Collided => Collided')
        BY ONLY <3>1, <2>4, <1>1, <1>12, <1>13
      <4> QED BY <4>1, <3>2, <3>3, <2>4, <1>5, <1>11, FewerSettled
    <3>4. CASE p <= 0
      <4>1. MayFail' <= 1
        <5>1. p < 0 \/ p = 0
          <6> HIDE DEF p
          <6> QED BY ONLY <3>4, <1>6
        <5> QED BY ONLY <5>1, <1>12 DEF MayFail, Bit
      <4>2. FromPause(o) \in Nat /\ FromPause(o) >= 2
        <5>1. o \in Int /\ o >= 1
          <6> HIDE DEF o
          <6> QED BY ONLY <1>6, <2>4
        <5> QED BY <5>1, FromPauses
      <4>3. MayFail = FromPause(o) \/ MayFail = Polls - poll + 1 + FromPause(o)
        BY ONLY <2>4, <3>1, <1>12, <1>6 DEF MayFail, Unsure
      <4>4. poll \in 1 .. Polls
        BY ONLY <1>5 DEF LineTypes
      <4> DEFINE f == FromPause(o)
      <4> HIDE DEF f
      <4> QED BY ONLY <4>1, <4>2, <4>3, <4>4, <1>2, <1>15
    <3>5. p > 0 \/ p <= 0
      <4> HIDE DEF p
      <4> QED BY ONLY <1>6
    <3> QED BY ONLY <3>3, <3>4, <3>5
  <2>5. o < 0 \/ o = 0 \/ o > 0
    <3> HIDE DEF o
    <3> QED BY ONLY <1>6
  <2> QED BY ONLY <2>1, <2>2, <2>3, <2>4, <2>5
<1> QED BY ONLY <1>1, <1>16

\* What fails and may still fail is no more than a shift may last.
ShiftInv == LineOK /\ longest \in Nat /\ failed + MayFail <= longest

\* Nothing has failed or may fail at the start.
LEMMA ShiftInit ==
    ASSUME TimesFit, TimedInit PROVE ShiftInv
<1>1. LineOK
  BY LineInit
<1>2. failed = 0 /\ longest = 0
  BY DEF TimedInit
<1>3. Answers = 0
  BY ONLY TimedInit DEF TimedInit, Answers
<1>4. Timeouts = 0
  BY <1>1, <1>3, TimeoutsAre DEF LineOK
<1>5. Owed = 0
  BY ONLY TimedInit, <1>3, <1>4 DEF TimedInit, Owed
<1>6. MayFail = 0
  <2>1. ~Dead /\ rd # "wait"
    BY ONLY TimedInit DEF TimedInit, Dead
  <2> QED BY ONLY <2>1, <1>5 DEF MayFail, Bit
<1> QED BY <1>1, <1>2, <1>6 DEF ShiftInv

\* A disturbance starts the count anew.
LEMMA ShiftDisturbed ==
    ASSUME TimesFit, LineTypes', Disturbed
    PROVE  longest' \in Nat /\ failed' + MayFail' <= longest'
<1>1. failed' = 0 /\ longest' = Longest'
  BY DEF Disturbed
<1>2. Longest' \in Nat /\ MayFail' \in Nat /\ MayFail' <= Longest'
  BY NumbersNext, MayFailIsNatNext, NoMoreThanLongestNext DEF Numbers
<1>3. 0 + MayFail' <= Longest'
  <2> DEFINE n == MayFail'
             l == Longest'
  <2>1. l \in Nat /\ n \in Nat /\ n <= l
    BY ONLY <1>2
  <2>2. 0 + n <= l
    <3> HIDE DEF n, l
    <3> QED BY ONLY <2>1
  <2> QED BY ONLY <2>2
<1> QED BY ONLY <1>1, <1>2, <1>3

\* ShiftInv is inductive.
LEMMA ShiftStep ==
    ASSUME TimesFit, ShiftInv, [TimedNext]_timedVars PROVE ShiftInv'
<1>1. LineOK /\ LineOK' /\ LineTypes'
  <2>1. LineOK
    BY DEF ShiftInv
  <2>2. LineOK'
    BY <2>1, LineStep
  <2> QED BY <2>1, <2>2 DEF LineOK
<1>2. longest \in Nat /\ failed + MayFail <= longest
  BY DEF ShiftInv
<1>3. failed \in Nat /\ failed' \in Nat /\ MayFail \in Nat /\ MayFail' \in Nat
  BY <1>1, MayFailIsNat, MayFailIsNatNext DEF LineOK, LineTypes
<1>4. ASSUME longest' = longest, failed' + MayFail' <= failed + MayFail PROVE ShiftInv'
  <2> DEFINE f == failed'
             m == MayFail
             n == MayFail'
  <2>1. f + n <= longest
    <3>1. f + n <= failed + m /\ failed + m <= longest /\ f \in Nat /\ n \in Nat /\ m \in Nat
      BY ONLY <1>2, <1>3, <1>4
    <3> HIDE DEF f, m, n
    <3> QED BY ONLY <3>1, <1>2, <1>3
  <2> QED BY ONLY <2>1, <1>1, <1>2, <1>4 DEF ShiftInv
<1>5. ASSUME longest' = longest, failed' = failed, MayFail' <= MayFail PROVE ShiftInv'
  <2> DEFINE m == MayFail
             n == MayFail'
  <2>1. failed + n <= failed + m
    <3>1. n <= m /\ n \in Nat /\ m \in Nat
      BY ONLY <1>3, <1>5
    <3> HIDE DEF m, n
    <3> QED BY ONLY <3>1, <1>3
  <2> QED BY <2>1, <1>4, <1>5
<1>6. ASSUME Disturbed PROVE ShiftInv'
  BY <1>1, <1>6, ShiftDisturbed DEF ShiftInv
<1>7. CASE PollingTask
  <2>1. CASE SendPoll
    <3>1. longest' = longest
      BY <2>1 DEF SendPoll, shift
    <3> QED BY <2>1, <3>1, <1>1, <1>5, ShiftSendPoll
  <2>2. CASE PollReplied
    <3>1. longest' = longest
      BY <2>2 DEF PollReplied, PollEnds
    <3> QED BY <2>2, <3>1, <1>1, <1>4, ShiftPollReplied
  <2>3. CASE PollTimesOut
    <3>1. longest' = longest
      BY <2>3 DEF PollTimesOut, PollEnds
    <3> QED BY <2>3, <3>1, <1>1, <1>4, ShiftPollTimesOut
  <2>4. CASE PauseEnds
    <3>1. longest' = longest
      BY <2>4 DEF PauseEnds, shift
    <3> QED BY <2>4, <3>1, <1>1, <1>5, ShiftPauseEnds
  <2> QED BY <1>7, <2>1, <2>2, <2>3, <2>4 DEF PollingTask
<1>8. CASE WritingTask
  <2>1. CASE SendWrite
    BY <2>1, <1>6 DEF SendWrite
  <2>2. CASE WriteReplied
    <3>1. longest' = longest
      BY <2>2 DEF WriteReplied, shift
    <3> QED BY <2>2, <3>1, <1>1, <1>5, ShiftWriteReplied
  <2>3. CASE WriteTimesOut
    <3>1. longest' = longest
      BY <2>3 DEF WriteTimesOut, shift
    <3> QED BY <2>3, <3>1, <1>1, <1>5, ShiftWriteTimesOut
  <2> QED BY <1>8, <2>1, <2>2, <2>3 DEF WritingTask
<1>9. CASE Unit
  <2>1. ASSUME NEW d \in 0 .. MaxLate, Prompt(d) PROVE ShiftInv'
    <3>1. longest' = longest
      BY <2>1 DEF Prompt, shift
    <3> QED BY <2>1, <3>1, <1>1, <1>5, ShiftPrompt
  <2>2. ASSUME NEW d \in 0 .. MaxLate, Late(d) PROVE ShiftInv'
    BY <2>2, <1>6 DEF Late, Disturb
  <2>3. CASE Lost
    BY <2>3, <1>6 DEF Lost, Disturb
  <2>4. CASE Arrive
    <3>1. longest' = longest
      BY <2>4 DEF Arrive, shift
    <3> QED BY <2>4, <3>1, <1>1, <1>5, ShiftArrive
  <2> QED BY <1>9, <2>1, <2>2, <2>3, <2>4 DEF Unit
<1>10. CASE Tick
  <2>1. longest' = longest
    BY <1>10 DEF Tick, shift
  <2> QED BY <1>10, <2>1, <1>1, <1>5, ShiftTick
<1>11. CASE HeldUp
  BY <1>11, <1>6 DEF HeldUp, Disturb
<1>12. CASE UNCHANGED timedVars
  <2>1. /\ UNCHANGED <<rd, poll, rdTimer, wr, wrTimer, rx, replySem, wire, queue, delay>>
        /\ failed' = failed /\ longest' = longest
    BY <1>12 DEF timedVars, masterVars, unitVars, shift
  <2>2. Answers' = Answers /\ Due' = Due /\ TimeLeft' = TimeLeft
    BY ONLY <2>1 DEF Answers, Due, TimeLeft, NotBegun
  <2>3. Timeouts' = Timeouts
    BY ONLY <2>2 DEF Timeouts
  <2>4. Owed' = Owed
    BY ONLY <2>1, <2>2, <2>3 DEF Owed
  <2>5. /\ Dead' = Dead /\ OwnReply' = OwnReply /\ Slow' = Slow
        /\ Colliding' = Colliding /\ Ripe' = Ripe /\ Collided' = Collided
    BY ONLY <2>1, <2>2 DEF Dead, OwnReply, Slow, Colliding, Ripe, Collided
  <2>6. MayFail' = MayFail
    BY ONLY <2>1, <2>3, <2>4, <2>5 DEF MayFail
  <2>7. MayFail' <= MayFail
    BY ONLY <2>6, <1>3
  <2> QED BY <2>1, <2>7, <1>5
<1> QED
  BY <1>7, <1>8, <1>9, <1>10, <1>11, <1>12 DEF TimedNext

\* After a disturbance, or a write of the panel's, no more polls fail than what was
\* owed right after it allows, for any number of polls, any timeout and pause, and
\* any answers of the unit.
THEOREM ShiftsAreShort == TimedSpec => []ShiftIsShort
<1>1. TimesFit
  BY TimesAssumed
<1>2. TimedInit => ShiftInv
  BY <1>1, ShiftInit
<1>3. ShiftInv /\ [TimedNext]_timedVars => ShiftInv'
  BY <1>1, ShiftStep
<1>4. ShiftInv => ShiftIsShort
  <2> SUFFICES ASSUME ShiftInv PROVE ShiftIsShort
    OBVIOUS
  <2>1. failed \in Nat /\ longest \in Nat /\ MayFail \in Nat /\ failed + MayFail <= longest
    BY <1>1, MayFailIsNat DEF ShiftInv, LineOK, LineTypes
  <2> QED BY ONLY <2>1 DEF ShiftIsShort
<1> QED
  BY <1>2, <1>3, <1>4, PTL DEF TimedSpec
=============================================================================
