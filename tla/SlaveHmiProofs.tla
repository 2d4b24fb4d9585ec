--------------------------- MODULE SlaveHmiProofs ---------------------------
(***************************************************************************)
(* Proofs about SlaveHmi for any number of frames.                         *)
(***************************************************************************)
EXTENDS SlaveHmi, SequenceTheorems, TLAPS

-----------------------------------------------------------------------------
(* Types.  TypeOK alone is not inductive: that a handler finds a good frame *)
(* rests on the check before it, and that an answer names a frame on the    *)
(* execution before it.                                                     *)
TypeInv ==
    /\ TypeOK
    /\ pc = "execute" => Len(rx) >= 2
    /\ pc = "answer" => Len(executed) >= 1

-----------------------------------------------------------------------------
(* The inductive invariant behind ExecutedOnce: frames are in the order     *)
(* sent, on the line behind the buffer and in the buffer behind what was    *)
(* executed, as long as the buffer is fresh.                                *)
LineInOrder ==
    /\ \A i, j \in 1 .. Len(line) : i < j => line[i].n < line[j].n
    /\ \A j \in 1 .. Len(line) : line[j].n <= sends

\* Only of the frame that is being received is a piece, the first, in the buffer while
\* the frame is on the line.
BufferInOrder ==
    \A i \in 1 .. Len(rx) :
        /\ rx[i].of.n <= sends
        /\ \A j \in 1 .. Len(line) :
              /\ rx[i].of.n <= line[j].n
              /\ rx[i].of.n = line[j].n => j = 1 /\ halfway /\ rx[i].half = 1

\* A buffer without a trace of what was executed: a frame whose emptying was undone
\* has company, and a buffer of more than two pieces is never executed.
Fresh ==
    \/ pc = "execute"
    \/ pc \in {"idle", "check"} /\ Len(rx) <= 2
    \/ Len(rx) <= 1

ExecutedBefore ==
    \A k \in 1 .. Len(executed) :
        /\ executed[k] <= sends
        /\ \A j \in 1 .. Len(line) : executed[k] < line[j].n
        /\ Fresh => \A i \in 1 .. Len(rx) : executed[k] < rx[i].of.n

\* What a handler executes has been received whole.
ExecutesWhole ==
    pc = "execute" => rx[1].of = rx[2].of /\ rx[2].half = 2

OrderInv ==
    /\ LineInOrder /\ BufferInOrder /\ ExecutedBefore /\ ExecutesWhole
    /\ ExecutedOnce

-----------------------------------------------------------------------------
(* The inductive invariant behind CleanFrameExecuted: where the clean frame *)
(* is.                                                                      *)
OnLine ==
    /\ Len(line) = 1 /\ line[1].n = clean /\ line[1].good
    /\ pc = "idle" /\ ~commandSem
    /\ halfway => quietDue /\ Len(rx) = 1 /\ rx[1].of = line[1] /\ rx[1].half = 1
    /\ ~halfway => ~quietDue /\ Len(rx) = 0

InBuffer ==
    /\ Len(line) = 0 /\ ~halfway
    /\ Whole /\ rx[1].of.n = clean
    /\ \/ pc = "idle" /\ (commandSem <=> ~quietDue)
       \/ pc \in {"check", "execute"} /\ ~quietDue /\ ~commandSem

CleanInv ==
    clean # 0 => OnLine \/ InBuffer \/ \E i \in 1 .. Len(executed) : executed[i] = clean

-----------------------------------------------------------------------------
(* The inductive invariant behind RxBounded. *)

\* The pieces in the buffer and those to come.
Held == Len(rx) + 2 * Len(line) - (IF halfway THEN 1 ELSE 0)

\* What is in the buffer wakes the task up.
Noticed ==
    /\ rx # << >> => quietDue \/ commandSem \/ pc # "idle"
    /\ halfway => line # << >>

\* Nothing but the frame just answered is left.
Done ==
    /\ line = << >> /\ pc \in {"idle", "check", "empty"}
    /\ rx # << >> => pc = "empty" /\ Len(rx) = 2

\* A patient panel only sends when nothing is left, so that there is one frame on the
\* line, besides which the buffer holds at most the frame just answered.
OneAtATime ==
    patient =>
        /\ Len(line) <= 1 /\ Held <= 4
        /\ Len(rx) <= 1 \/ (pc \in {"idle", "check"} /\ Len(rx) <= 2) => Held <= 2
        /\ pc \in {"execute", "answer"} => line = << >> /\ Len(rx) = 2
        /\ ~waiting => Done /\ answers = << >>
        /\ answers # << >> => Done /\ Len(answers) = 1

-----------------------------------------------------------------------------
(* What each step does to the sequences. *)
LEMMA Lengths ==
    ASSUME TypeOK
    PROVE  /\ Len(rx) \in Nat /\ Len(line) \in Nat /\ Len(answers) \in Nat
           /\ Len(executed) \in Nat
           /\ DOMAIN executed = 1 .. Len(executed)
           /\ \A i \in 1 .. Len(rx) : rx[i] \in Piece /\ rx[i].of \in Frame
                                      /\ rx[i].of.n \in Nat
           /\ \A j \in 1 .. Len(line) : line[j] \in Frame /\ line[j].n \in Nat
           /\ \A k \in 1 .. Len(executed) : executed[k] \in Nat
           /\ rx = << >> <=> Len(rx) = 0
           /\ line = << >> <=> Len(line) = 0
           /\ answers = << >> <=> Len(answers) = 0
           /\ sends \in Nat
<1>1. /\ Len(rx) \in Nat /\ Len(line) \in Nat /\ Len(answers) \in Nat
      /\ Len(executed) \in Nat /\ DOMAIN executed = 1 .. Len(executed)
  BY LenProperties DEF TypeOK
<1>2. \A i \in 1 .. Len(rx) : rx[i] \in Piece
  BY ElementOfSeq DEF TypeOK
<1>3. \A j \in 1 .. Len(line) : line[j] \in Frame
  BY ElementOfSeq DEF TypeOK
<1>4. \A k \in 1 .. Len(executed) : executed[k] \in 1 .. MaxSends
  BY ElementOfSeq DEF TypeOK
<1>5. /\ rx = << >> <=> Len(rx) = 0
      /\ line = << >> <=> Len(line) = 0
      /\ answers = << >> <=> Len(answers) = 0
  BY EmptySeq DEF TypeOK
<1>6. \A p \in Piece : p.of \in Frame
  BY DEF Piece
<1>7. \A f \in Frame : f.n \in Nat
  BY DEF Frame
<1> QED
  BY <1>1, <1>2, <1>3, <1>4, <1>5, <1>6, <1>7 DEF TypeOK

\* A piece of the first frame on the line arrives.
LEMMA Arrives ==
    ASSUME TypeOK, Arrival
    PROVE  /\ rx' \in Seq(Piece) /\ Len(rx') = Len(rx) + 1
           /\ \A i \in 1 .. Len(rx) : rx'[i] = rx[i]
           /\ rx'[Len(rx) + 1].of = line[1]
           /\ rx'[Len(rx) + 1].half = (IF halfway THEN 2 ELSE 1)
           /\ Len(line) >= 1 /\ halfway' = ~halfway
           /\ line' \in Seq(Frame)
           /\ ~halfway => line' = line
           /\ halfway => /\ Len(line') = Len(line) - 1
                         /\ \A j \in 1 .. Len(line') : line'[j] = line[j + 1]
           /\ quietDue' /\ halfway' \in BOOLEAN /\ quietDue' \in BOOLEAN
           /\ UNCHANGED <<commandSem, answers, panelVars, executed, clean>>
<1> DEFINE piece == [of |-> Head(line), half |-> IF halfway THEN 2 ELSE 1]
<1>1. line \in Seq(Frame) /\ line # << >> /\ rx \in Seq(Piece)
  BY DEF TypeOK, Arrival
<1>2. /\ Head(line) \in Frame /\ Head(line) = line[1] /\ Tail(line) \in Seq(Frame)
      /\ Len(Tail(line)) = Len(line) - 1
      /\ \A j \in 1 .. Len(Tail(line)) : Tail(line)[j] = line[j + 1]
      /\ Len(line) \in Nat \ {0}
  BY <1>1, HeadTailProperties, EmptySeq
<1>3. /\ piece \in Piece /\ piece.of = line[1]
      /\ piece.half = IF halfway THEN 2 ELSE 1
  BY <1>2 DEF Piece
<1>4. rx' = Append(rx, piece)
  BY DEF Arrival
<1> HIDE DEF piece
<1>5. /\ rx' \in Seq(Piece) /\ Len(rx') = Len(rx) + 1 /\ rx'[Len(rx) + 1] = piece
      /\ \A i \in 1 .. Len(rx) : rx'[i] = rx[i]
  BY <1>1, <1>3, <1>4, AppendProperties
<1>6. halfway' = ~halfway /\ quietDue' /\ quietDue' \in BOOLEAN /\ halfway' \in BOOLEAN
  BY Zenon DEF Arrival
<1>7. /\ halfway => line' = Tail(line)
      /\ ~halfway => line' = line
      /\ UNCHANGED <<commandSem, answers, panelVars, executed, clean>>
  BY DEF Arrival
<1>8. /\ rx'[Len(rx) + 1].of = line[1]
      /\ rx'[Len(rx) + 1].half = (IF halfway THEN 2 ELSE 1)
  BY <1>3, <1>5
<1>9. Len(line) >= 1
  BY <1>2
<1>10. line' \in Seq(Frame)
  BY <1>1, <1>2, <1>7
<1>11. halfway => /\ Len(line') = Len(line) - 1
                  /\ \A j \in 1 .. Len(line') : line'[j] = line[j + 1]
  <2> SUFFICES ASSUME halfway
               PROVE  /\ Len(line') = Len(line) - 1
                      /\ \A j \in 1 .. Len(line') : line'[j] = line[j + 1]
    OBVIOUS
  <2>1. line' = Tail(line)
    BY <1>7
  <2> QED
    BY <1>2, <2>1, Zenon
<1> QED
  BY <1>5, <1>6, <1>7, <1>8, <1>9, <1>10, <1>11

\* The panel sends a frame.
LEMMA Sent ==
    ASSUME TypeOK, NEW good \in BOOLEAN, Send(good)
    PROVE  /\ line' \in Seq(Frame) /\ Len(line') = Len(line) + 1
           /\ \A j \in 1 .. Len(line) : line'[j] = line[j]
           /\ line'[Len(line) + 1].n = sends + 1
           /\ line'[Len(line) + 1].good = good
           /\ sends' = sends + 1 /\ sends' \in 0 .. MaxSends
<1> DEFINE f == [n |-> sends + 1, good |-> good]
<1>1. sends + 1 \in 1 .. MaxSends
  BY BoundAssumption DEF Send, TypeOK
<1>2. f \in Frame /\ f.n = sends + 1 /\ f.good = good
  BY <1>1 DEF Frame
<1>3. line' = Append(line, f)
  BY DEF Send
<1> HIDE DEF f
<1> QED
  BY <1>1, <1>2, <1>3, AppendProperties DEF Send, TypeOK

\* The line loses the first frame.
LEMMA Lost ==
    ASSUME TypeOK, LoseFrame
    PROVE  /\ line' \in Seq(Frame) /\ Len(line') = Len(line) - 1 /\ Len(line) >= 1
           /\ \A j \in 1 .. Len(line') : line'[j] = line[j + 1]
BY HeadTailProperties, EmptySeq DEF LoseFrame, TypeOK

-----------------------------------------------------------------------------
(* Type correctness.                                                        *)
LEMMA TypeInit == Init => TypeInv
<1> SUFFICES ASSUME Init PROVE TypeInv
  OBVIOUS
<1>1. /\ rx \in Seq(Piece) /\ line \in Seq(Frame) /\ answers \in Seq(1 .. MaxSends)
      /\ executed \in Seq(1 .. MaxSends)
  BY EmptySeq DEF Init
<1>2. /\ pc = "idle" /\ commandSem \in BOOLEAN /\ halfway \in BOOLEAN
      /\ quietDue \in BOOLEAN /\ waiting \in BOOLEAN /\ patient \in BOOLEAN
  BY Zenon DEF Init
<1>3. sends \in 0 .. MaxSends /\ clean \in 0 .. MaxSends
  BY BoundAssumption DEF Init
<1> QED
  BY <1>1, <1>2, <1>3 DEF TypeInv, TypeOK

\* Every step keeps the types.
LEMMA TypeStep == TypeInv /\ [Next]_vars => TypeInv'
<1> SUFFICES ASSUME TypeInv, [Next]_vars PROVE TypeInv'
  OBVIOUS
<1> USE DEF TypeInv, TypeOK
<1>1. CASE Take
  BY <1>1 DEF Take, lineVars, panelVars
<1>2. CASE Check
  BY <1>2 DEF Check, Whole, lineVars, panelVars
<1>3. CASE Execute
  <2>1. rx[1].of.n \in 1 .. MaxSends
    <3>1. rx[1] \in Piece
      BY <1>3, Lengths DEF Execute
    <3> QED
      BY <3>1 DEF Piece, Frame
  <2>2. executed' \in Seq(1 .. MaxSends) /\ Len(executed') >= 1
    BY <1>3, <2>1, AppendProperties, LenProperties DEF Execute
  <2> QED
    BY <1>3, <2>2 DEF Execute, lineVars, panelVars
<1>4. CASE Answer
  <2>1. executed[Len(executed)] \in 1 .. MaxSends
    <3>1. Len(executed) \in 1 .. Len(executed) /\ executed \in Seq(1 .. MaxSends)
      BY <1>4, Lengths DEF Answer
    <3> QED
      BY <3>1, ElementOfSeq
  <2>2. answers' \in Seq(1 .. MaxSends)
    BY <1>4, <2>1, AppendProperties DEF Answer
  <2> QED
    BY <1>4, <2>2 DEF Answer, panelVars
<1>5. CASE Empty
  <2>1. rx' \in Seq(Piece)
    BY <1>5, EmptySeq DEF Empty
  <2> QED
    BY <1>5, <2>1 DEF Empty, lineVars, panelVars
<1>6. CASE ReceiveBytes \/ EmptyUndone
  <2>1. Arrival /\ (pc' = pc \/ pc' = "idle")
    BY <1>6 DEF ReceiveBytes, EmptyUndone
  <2>2. pc' = "execute" => rx' # << >> /\ rx'[1].of.good /\ Len(rx') >= 2
    <3> SUFFICES ASSUME pc = "execute"
                 PROVE  rx' # << >> /\ rx'[1].of.good /\ Len(rx') >= 2
      BY <2>1
    <3>1. Len(rx') = Len(rx) + 1 /\ Len(rx) \in Nat /\ Len(rx) >= 2 /\ rx'[1] = rx[1]
      BY <2>1, Arrives, Lengths
    <3>2. rx' # << >>
      BY <2>1, <3>1, Arrives, EmptySeq
    <3> QED
      BY <3>1, <3>2
  <2> QED
    BY <2>1, <2>2, Arrives DEF panelVars
<1>7. CASE ReceiveComplete
  <2>1. /\ quietDue' \in BOOLEAN /\ commandSem' \in BOOLEAN /\ clean' \in 0 .. MaxSends
        /\ UNCHANGED <<pc, rx, line, halfway, answers, panelVars, executed>>
    <3>1. /\ quietDue' \in BOOLEAN /\ commandSem' \in BOOLEAN
          /\ UNCHANGED <<pc, rx, line, halfway, answers, panelVars, executed>>
      BY <1>7, Zenon DEF ReceiveComplete
    <3> QED
      BY <1>7, <3>1, BoundAssumption DEF ReceiveComplete
  <2> QED
    BY <2>1 DEF panelVars
<1>8. ASSUME NEW good \in BOOLEAN, Send(good)
      PROVE  TypeInv'
  <2>1. line' \in Seq(Frame) /\ sends' = sends + 1 /\ sends' \in 0 .. MaxSends
    BY <1>8, Sent
  <2>2. clean' \in 0 .. MaxSends
    BY <1>8, <2>1, BoundAssumption DEF Send
  <2>3. /\ waiting' \in BOOLEAN
        /\ UNCHANGED <<slaveVars, halfway, quietDue, answers, patient, executed>>
    BY <1>8, Zenon DEF Send
  <2> QED
    BY <2>1, <2>2, <2>3 DEF slaveVars
<1>9. CASE TakeAnswer \/ LoseAnswer
  <2>1. answers' \in Seq(1 .. MaxSends)
    BY <1>9, HeadTailProperties DEF TakeAnswer, LoseAnswer
  <2>2. /\ waiting' \in BOOLEAN
        /\ UNCHANGED <<slaveVars, line, halfway, quietDue, sends, patient, executed,
                       clean>>
    BY <1>9 DEF TakeAnswer, LoseAnswer, panelVars
  <2> QED
    BY <2>1, <2>2 DEF slaveVars
<1>10. CASE GiveUp
  BY <1>10 DEF GiveUp, slaveVars, lineVars
<1>11. CASE LoseFrame
  <2>1. line' \in Seq(Frame)
    BY <1>11, Lost
  <2>2. /\ halfway' \in BOOLEAN /\ clean' = 0
        /\ UNCHANGED <<slaveVars, quietDue, answers, panelVars, executed>>
    BY <1>11, Zenon DEF LoseFrame
  <2> QED
    BY <2>1, <2>2, BoundAssumption DEF slaveVars, panelVars
<1>12. CASE UNCHANGED vars
  BY <1>12 DEF vars, slaveVars, lineVars, panelVars
<1> QED
  BY <1>1, <1>2, <1>3, <1>4, <1>5, <1>6, <1>7, <1>8, <1>9, <1>10, <1>11, <1>12
  DEF Next, HmiTask, Interrupt, Panel, Line

(* Type correctness for any number of frames; in particular a handler never *)
(* runs on anything but a good frame at the head of the buffer, whatever    *)
(* the interrupt appends behind it meanwhile.                               *)
THEOREM TypeCorrect == Spec => []TypeOK
<1>1. TypeInv => TypeOK
  BY DEF TypeInv
<1> QED
  BY <1>1, TypeInit, TypeStep, PTL DEF Spec

-----------------------------------------------------------------------------
(* The order of execution. *)

\* The line loses its first frame: the order of the rest, and what was earlier than all.
LEMMA LineShifts ==
    ASSUME TypeOK, LineInOrder, Len(line) >= 1, UNCHANGED sends,
           Len(line') = Len(line) - 1,
           \A j \in 1 .. Len(line') : line'[j] = line[j + 1]
    PROVE  /\ LineInOrder'
           /\ \A j \in 1 .. Len(line') :
                 /\ j + 1 \in 1 .. Len(line) /\ line'[j] = line[j + 1]
                 /\ line[1].n < line'[j].n /\ line'[j].n \in Nat
<1>1. /\ Len(line) \in Nat /\ \A j \in 1 .. Len(line) : line[j].n \in Nat
  BY Lengths
<1>2. ASSUME NEW j \in 1 .. Len(line')
      PROVE  /\ j + 1 \in 1 .. Len(line) /\ line'[j] = line[j + 1]
             /\ line[1].n < line'[j].n /\ line'[j].n \in Nat
             /\ line'[j].n <= sends
  <2>1. j + 1 \in 1 .. Len(line) /\ line'[j] = line[j + 1] /\ 1 < j + 1
        /\ 1 \in 1 .. Len(line)
    BY <1>1
  <2> QED
    BY <1>1, <2>1 DEF LineInOrder
<1>3. ASSUME NEW i \in 1 .. Len(line'), NEW j \in 1 .. Len(line'), i < j
      PROVE  line'[i].n < line'[j].n
  <2>1. i + 1 \in 1 .. Len(line) /\ j + 1 \in 1 .. Len(line) /\ i + 1 < j + 1
    BY <1>1, <1>3
  <2>2. line'[i] = line[i + 1] /\ line'[j] = line[j + 1]
    OBVIOUS
  <2> QED
    BY <2>1, <2>2 DEF LineInOrder
<1> QED
  BY <1>2, <1>3 DEF LineInOrder
OrderVars == <<pc, rx, line, halfway, sends, executed>>

\* The order invariant at the start.
LEMMA OrderInit == Init => OrderInv
<1> SUFFICES ASSUME Init PROVE OrderInv
  OBVIOUS
<1>1. Len(rx) = 0 /\ Len(line) = 0 /\ DOMAIN executed = {} /\ Len(executed) = 0
      /\ pc = "idle"
  BY EmptySeq DEF Init
<1> QED
  BY <1>1 DEF OrderInv, LineInOrder, BufferInOrder, ExecutedBefore, ExecutesWhole,
              ExecutedOnce

\* The task: it executes a frame later than all before, which is no longer on the line.
LEMMA OrderTask ==
    ASSUME TypeInv, OrderInv, HmiTask
    PROVE  OrderInv'
<1> USE DEF OrderInv
<1>1. CASE Take \/ Answer
  <2>1. /\ UNCHANGED <<rx, line, halfway, sends, executed>>
        /\ Fresh' => Fresh
        /\ pc' # "execute"
    BY <1>1 DEF Take, Answer, lineVars, panelVars, Fresh
  <2> QED
    BY <2>1 DEF LineInOrder, BufferInOrder, ExecutedBefore, ExecutesWhole,
                ExecutedOnce
<1>2. CASE Check
  <2>1. /\ UNCHANGED <<rx, line, halfway, sends, executed>>
        /\ pc = "check" /\ pc' \in {"execute", "empty"}
        /\ pc' = "execute" =>
              Len(rx) = 2 /\ rx[1].of = rx[2].of /\ rx[2].half = 2
    BY <1>2 DEF Check, Whole, lineVars, panelVars
  <2>2. Fresh' => Fresh
    <3>1. CASE pc' = "execute"
      <4>1. Len(rx) = 2
        BY <2>1, <3>1
      <4>2. Len(rx) <= 2
        BY <4>1
      <4>3. pc = "check"
        BY <2>1
      <4>4. pc \in {"idle", "check"}
        BY <4>3
      <4> QED
        BY <4>2, <4>4, Zenon DEF Fresh
    <3>2. CASE pc' = "empty"
      BY <2>1, <3>2 DEF Fresh
    <3> QED
      BY <2>1, <3>1, <3>2
  <2> QED
    BY <2>1, <2>2 DEF LineInOrder, BufferInOrder, ExecutedBefore, ExecutesWhole,
                      ExecutedOnce
<1>3. CASE Execute
  <2> DEFINE n == rx[1].of.n
  <2>1. /\ pc = "execute" /\ pc' = "answer" /\ UNCHANGED <<rx, line, halfway, sends>>
        /\ executed' = Append(executed, n)
    BY <1>3 DEF Execute, lineVars, panelVars
  <2>2. /\ Len(rx) \in Nat /\ Len(rx) >= 2 /\ Len(executed) \in Nat /\ n \in Nat
    BY <2>1, Lengths DEF TypeInv
  <2>3. n <= sends /\ \A j \in 1 .. Len(line) : n < line[j].n
    <3>1. rx[2].of.n = n /\ rx[2].half = 2
      BY <2>1 DEF ExecutesWhole
    <3>2. /\ n <= sends
          /\ \A j \in 1 .. Len(line) : n <= line[j].n /\ n # line[j].n
      BY <2>2, <3>1 DEF BufferInOrder
    <3>3. \A j \in 1 .. Len(line) : line[j].n \in Nat
      BY Lengths DEF TypeInv
    <3> QED
      BY <2>2, <3>2, <3>3
  <2>4. \A k \in 1 .. Len(executed) : executed[k] < n
    BY <2>1, <2>2 DEF ExecutedBefore, Fresh
  <2>5. /\ Len(executed') = Len(executed) + 1
        /\ executed'[Len(executed) + 1] = n
        /\ \A k \in 1 .. Len(executed) : executed'[k] = executed[k]
        /\ DOMAIN executed' = 1 .. Len(executed')
        /\ DOMAIN executed = 1 .. Len(executed)
    <3>1. n \in 1 .. MaxSends
      <4>1. rx[1] \in Piece
        BY <2>2, Lengths DEF TypeInv
      <4> QED
        BY <4>1 DEF Piece, Frame
    <3> HIDE DEF n
    <3>2. /\ Append(executed, n) \in Seq(1 .. MaxSends)
          /\ Len(Append(executed, n)) = Len(executed) + 1
          /\ Append(executed, n)[Len(executed) + 1] = n
          /\ \A k \in 1 .. Len(executed) : Append(executed, n)[k] = executed[k]
      BY <3>1, AppendProperties DEF TypeInv, TypeOK
    <3> QED
      BY <2>1, <3>2, LenProperties DEF TypeInv, TypeOK
  <2> HIDE DEF n
  <2>6. ~Fresh'
    BY <2>1, <2>2 DEF Fresh
  <2>7. ExecutedBefore'
    BY <2>1, <2>2, <2>3, <2>5, <2>6 DEF ExecutedBefore
  <2>8. ExecutedOnce'
    BY <2>2, <2>4, <2>5 DEF ExecutedOnce
  <2> QED
    BY <2>1, <2>7, <2>8 DEF LineInOrder, BufferInOrder, ExecutesWhole
<1>4. CASE Empty
  <2>1. /\ UNCHANGED <<line, halfway, sends, executed>>
        /\ Len(rx') = 0 /\ pc' = "idle"
    BY <1>4, EmptySeq DEF Empty, lineVars, panelVars
  <2> QED
    BY <2>1 DEF LineInOrder, BufferInOrder, ExecutedBefore, ExecutesWhole,
                ExecutedOnce
<1> QED
  BY <1>1, <1>2, <1>3, <1>4 DEF HmiTask

\* The interrupt: what arrives is of the first frame on the line, which no frame in the
\* buffer is later than.
LEMMA OrderArrival ==
    ASSUME TypeInv, OrderInv, ReceiveBytes \/ EmptyUndone
    PROVE  OrderInv'
<1> USE DEF OrderInv
<1>1. /\ Len(rx) \in Nat /\ Len(line) \in Nat /\ sends \in Nat
      /\ \A i \in 1 .. Len(rx) : rx[i].of.n \in Nat
      /\ \A j \in 1 .. Len(line) : line[j].n \in Nat
  BY Lengths DEF TypeInv
<1>2. /\ Len(rx') = Len(rx) + 1
      /\ \A i \in 1 .. Len(rx) : rx'[i] = rx[i]
      /\ rx'[Len(rx) + 1].of = line[1]
      /\ rx'[Len(rx) + 1].half = (IF halfway THEN 2 ELSE 1)
      /\ Len(line) >= 1 /\ halfway' = ~halfway
      /\ ~halfway => line' = line
      /\ halfway => /\ Len(line') = Len(line) - 1
                    /\ \A j \in 1 .. Len(line') : line'[j] = line[j + 1]
      /\ UNCHANGED <<sends, executed>>
  BY Arrives DEF TypeInv, ReceiveBytes, EmptyUndone, panelVars
<1>3. /\ pc' = pc \/ (pc = "empty" /\ pc' = "idle")
      /\ Fresh' => Fresh
  <2>1. pc' = pc \/ (pc = "empty" /\ pc' = "idle")
    BY DEF ReceiveBytes, EmptyUndone
  <2>2. Fresh' => Fresh
    BY <1>1, <1>2, <2>1 DEF Fresh
  <2> QED
    BY <2>1, <2>2
<1>4. /\ LineInOrder'
      /\ halfway => \A j \in 1 .. Len(line') :
            /\ j + 1 \in 1 .. Len(line) /\ line'[j] = line[j + 1]
            /\ line[1].n < line'[j].n /\ line'[j].n \in Nat
  BY <1>2, LineShifts DEF TypeInv, LineInOrder
<1>5. BufferInOrder'
  <2> SUFFICES ASSUME NEW i \in 1 .. Len(rx) + 1
               PROVE  /\ rx'[i].of.n <= sends
                      /\ \A j \in 1 .. Len(line') :
                            /\ rx'[i].of.n <= line'[j].n
                            /\ rx'[i].of.n = line'[j].n =>
                                  j = 1 /\ halfway' /\ rx'[i].half = 1
    BY <1>2 DEF BufferInOrder
  <2>1. /\ rx'[i].of.n \in Nat /\ rx'[i].of.n <= sends /\ rx'[i].of.n <= line[1].n
        /\ ~halfway /\ rx'[i].of.n = line[1].n => rx'[i].half = 1
        /\ 1 \in 1 .. Len(line)
    <3>1. CASE i \in 1 .. Len(rx)
      BY <1>1, <1>2, <3>1 DEF BufferInOrder
    <3>2. CASE i = Len(rx) + 1
      <4>1. 1 \in 1 .. Len(line)
        BY <1>1, <1>2
      <4> QED
        BY <1>1, <1>2, <3>2, <4>1 DEF LineInOrder
    <3> QED
      BY <1>1, <3>1, <3>2
  <2>2. ASSUME NEW j \in 1 .. Len(line')
        PROVE  /\ rx'[i].of.n <= line'[j].n
               /\ rx'[i].of.n = line'[j].n => j = 1 /\ halfway' /\ rx'[i].half = 1
    <3>1. CASE halfway
      <4>1. line[1].n < line'[j].n /\ line'[j].n \in Nat /\ line[1].n \in Nat
        BY <1>1, <1>4, <2>1, <3>1
      <4> QED
        BY <2>1, <4>1
    <3>2. CASE ~halfway
      <4>0. line' = line /\ halfway' /\ j \in 1 .. Len(line)
        BY <1>2, <3>2
      <4>1. /\ line' = line /\ halfway' /\ j \in 1 .. Len(line)
            /\ j # 1 => line[1].n < line[j].n
        BY <1>1, <2>1, <4>0 DEF LineInOrder
      <4>2. line[1].n \in Nat /\ line[j].n \in Nat
        BY <1>1, <2>1, <4>1
      <4> QED
        BY <2>1, <3>2, <4>1, <4>2
    <3> QED
      BY <3>1, <3>2
  <2> QED
    BY <2>1, <2>2
<1>6. ExecutedBefore'
  <2> SUFFICES ASSUME NEW k \in 1 .. Len(executed)
               PROVE  /\ executed[k] <= sends
                      /\ \A j \in 1 .. Len(line') : executed[k] < line'[j].n
                      /\ Fresh' => \A i \in 1 .. Len(rx') : executed[k] < rx'[i].of.n
    BY <1>2 DEF ExecutedBefore
  <2>1. \A j \in 1 .. Len(line') : executed[k] < line'[j].n
    <3>1. CASE halfway
      BY <1>4, <3>1 DEF ExecutedBefore
    <3>2. CASE ~halfway
      BY <1>2, <3>2 DEF ExecutedBefore
    <3> QED
      BY <3>1, <3>2
  <2>2. ASSUME Fresh', NEW i \in 1 .. Len(rx')
        PROVE  executed[k] < rx'[i].of.n
    <3>1. CASE i \in 1 .. Len(rx)
      BY <1>2, <1>3, <2>2, <3>1 DEF ExecutedBefore
    <3>2. CASE i = Len(rx) + 1
      BY <1>1, <1>2, <3>2 DEF ExecutedBefore
    <3> QED
      BY <1>1, <1>2, <3>1, <3>2
  <2> QED
    BY <2>1, <2>2 DEF ExecutedBefore
<1>7. ExecutesWhole'
  <2> SUFFICES ASSUME pc = "execute" PROVE rx'[1].of = rx'[2].of /\ rx'[2].half = 2
    BY <1>3 DEF ExecutesWhole
  <2> QED
    BY <1>1, <1>2 DEF ExecutesWhole, TypeInv
<1>8. ExecutedOnce'
  BY <1>2 DEF ExecutedOnce
<1> QED
  BY <1>4, <1>5, <1>6, <1>7, <1>8

\* Every step keeps the frames in order and executes none twice.
LEMMA OrderStep == TypeInv /\ OrderInv /\ [Next]_vars => OrderInv'
<1> SUFFICES ASSUME TypeInv, OrderInv, [Next]_vars PROVE OrderInv'
  OBVIOUS
<1> USE DEF OrderInv
<1>1. CASE HmiTask
  BY <1>1, OrderTask
<1>2. CASE ReceiveBytes \/ EmptyUndone
  BY <1>2, OrderArrival
<1>3. ASSUME NEW good \in BOOLEAN, Send(good)
      PROVE  OrderInv'
  <2>1. /\ Len(line') = Len(line) + 1
        /\ \A j \in 1 .. Len(line) : line'[j] = line[j]
        /\ line'[Len(line) + 1].n = sends + 1
        /\ sends' = sends + 1
        /\ UNCHANGED <<pc, rx, halfway, executed>>
    BY <1>3, Sent DEF TypeInv, Send, slaveVars
  <2>2. /\ Len(line) \in Nat /\ sends \in Nat
        /\ \A i \in 1 .. Len(rx) : rx[i].of.n \in Nat
        /\ \A j \in 1 .. Len(line) : line[j].n \in Nat
        /\ \A k \in 1 .. Len(executed) : executed[k] \in Nat
    BY Lengths DEF TypeInv
  <2>3. ASSUME NEW j \in 1 .. Len(line')
        PROVE  \/ j \in 1 .. Len(line) /\ line'[j] = line[j]
               \/ j = Len(line) + 1 /\ line'[j].n = sends + 1
    BY <2>1, <2>2
  <2>4. LineInOrder'
    <3>1. ASSUME NEW i \in 1 .. Len(line'), NEW j \in 1 .. Len(line'), i < j
          PROVE  line'[i].n < line'[j].n
      <4>1. i \in 1 .. Len(line) /\ line'[i] = line[i]
        BY <2>1, <2>2, <2>3, <3>1
      <4>2. CASE j \in 1 .. Len(line) /\ line'[j] = line[j]
        BY <3>1, <4>1, <4>2 DEF LineInOrder
      <4>3. CASE j = Len(line) + 1 /\ line'[j].n = sends + 1
        BY <2>2, <4>1, <4>3 DEF LineInOrder
      <4> QED
        BY <2>3, <4>2, <4>3
    <3>2. ASSUME NEW j \in 1 .. Len(line')
          PROVE  line'[j].n <= sends'
      BY <2>1, <2>2, <2>3 DEF LineInOrder
    <3> QED
      BY <3>1, <3>2 DEF LineInOrder
  <2>5. BufferInOrder'
    <3> SUFFICES ASSUME NEW i \in 1 .. Len(rx)
                 PROVE  /\ rx[i].of.n <= sends + 1
                        /\ \A j \in 1 .. Len(line') :
                              /\ rx[i].of.n <= line'[j].n
                              /\ rx[i].of.n = line'[j].n =>
                                    j = 1 /\ halfway /\ rx[i].half = 1
      BY <2>1 DEF BufferInOrder
    <3> QED
      BY <2>2, <2>3 DEF BufferInOrder
  <2>6. ExecutedBefore'
    <3> SUFFICES ASSUME NEW k \in 1 .. Len(executed)
                 PROVE  /\ executed[k] <= sends + 1
                        /\ \A j \in 1 .. Len(line') : executed[k] < line'[j].n
                        /\ Fresh => \A i \in 1 .. Len(rx) : executed[k] < rx[i].of.n
      BY <2>1 DEF ExecutedBefore, Fresh
    <3>1. executed[k] \in Nat /\ executed[k] <= sends
      BY <2>2 DEF ExecutedBefore
    <3>2. \A j \in 1 .. Len(line') : executed[k] < line'[j].n
      BY <2>2, <2>3, <3>1 DEF ExecutedBefore
    <3> QED
      BY <2>2, <3>1, <3>2 DEF ExecutedBefore
  <2> QED
    BY <2>1, <2>4, <2>5, <2>6 DEF ExecutesWhole, ExecutedOnce
<1>4. CASE LoseFrame
  <2>1. /\ Len(line') = Len(line) - 1 /\ Len(line) >= 1
        /\ \A j \in 1 .. Len(line') : line'[j] = line[j + 1]
        /\ UNCHANGED <<pc, rx, sends, executed>>
    BY <1>4, Lost DEF TypeInv, LoseFrame, slaveVars, panelVars
  <2>2. /\ LineInOrder'
        /\ \A j \in 1 .. Len(line') : /\ j + 1 \in 1 .. Len(line)
                                      /\ line'[j] = line[j + 1] /\ j + 1 # 1
                                      /\ line'[j].n \in Nat
    BY <2>1, LineShifts DEF TypeInv
  <2>3. BufferInOrder'
    <3> SUFFICES ASSUME NEW i \in 1 .. Len(rx), NEW j \in 1 .. Len(line')
                 PROVE  rx[i].of.n <= line'[j].n /\ rx[i].of.n # line'[j].n
      BY <2>1 DEF BufferInOrder
    <3> QED
      BY <2>2 DEF BufferInOrder
  <2>4. ExecutedBefore'
    BY <2>1, <2>2 DEF ExecutedBefore, Fresh
  <2> QED
    BY <2>1, <2>2, <2>3, <2>4 DEF ExecutesWhole, ExecutedOnce
<1>5. CASE ReceiveComplete \/ TakeAnswer \/ GiveUp \/ LoseAnswer \/ UNCHANGED vars
  <2>1. UNCHANGED OrderVars
    BY <1>5 DEF ReceiveComplete, TakeAnswer, GiveUp, LoseAnswer, vars, slaveVars,
                lineVars, panelVars, OrderVars
  <2> QED
    BY <2>1 DEF OrderVars, LineInOrder, BufferInOrder, ExecutedBefore, Fresh,
                ExecutesWhole, ExecutedOnce
<1> QED
  BY <1>1, <1>2, <1>3, <1>4, <1>5 DEF Next, Interrupt, Panel, Line

(* No frame is executed twice and none out of order, for any number of      *)
(* frames: frames with gaps wake the task several times, and a buffer whose *)
(* emptying the interrupt undid keeps a frame that has been executed, but   *)
(* then with a piece of another behind it, so that it is not executed       *)
(* again.                                                                   *)
THEOREM FramesExecutedOnce == Spec => []ExecutedOnce
<1>1. OrderInv => ExecutedOnce
  BY DEF OrderInv
<1> QED
  BY <1>1, TypeInit, TypeStep, OrderInit, OrderStep, PTL DEF Spec

-----------------------------------------------------------------------------
(* The invariants of the buffer. *)
LEMMA NoticedInit == Init => Noticed
BY DEF Init, Noticed

\* What is in the buffer goes on waking the task up.
LEMMA NoticedStep == TypeInv /\ Noticed /\ [Next]_vars => Noticed'
<1> SUFFICES ASSUME TypeInv, Noticed, [Next]_vars PROVE Noticed'
  OBVIOUS
<1>1. CASE HmiTask
  BY <1>1 DEF HmiTask, Take, Check, Execute, Answer, Empty, Noticed, lineVars
<1>2. CASE ReceiveBytes \/ EmptyUndone
  <2>1. quietDue'
    BY <1>2 DEF ReceiveBytes, EmptyUndone, Arrival
  <2>2. halfway' => ~halfway /\ line' = line /\ line # << >>
    BY <1>2 DEF ReceiveBytes, EmptyUndone, Arrival
  <2> QED
    BY <2>1, <2>2 DEF Noticed
<1>3. CASE ReceiveComplete
  BY <1>3 DEF ReceiveComplete, Noticed
<1>4. ASSUME NEW good \in BOOLEAN, Send(good)
      PROVE  Noticed'
  <2>1. line' # << >>
    BY <1>4, Sent, EmptySeq, Lengths DEF TypeInv
  <2> QED
    BY <1>4, <2>1 DEF Noticed, Send, slaveVars
<1>5. CASE TakeAnswer \/ GiveUp \/ LoseAnswer \/ UNCHANGED vars
  BY <1>5 DEF TakeAnswer, GiveUp, LoseAnswer, vars, slaveVars, lineVars, Noticed
<1>6. CASE LoseFrame
  BY <1>6 DEF LoseFrame, Noticed, slaveVars
<1> QED
  BY <1>1, <1>2, <1>3, <1>4, <1>5, <1>6 DEF Next, Interrupt, Panel, Line

(* The part of Recovers that is safety: bytes in rx_buf never wait unseen.  *)
(* Either the interrupt has yet to see the line fall quiet, or command_sem  *)
(* is given, or the HMI task is at a frame, after which it empties the      *)
(* buffer.                                                                  *)
THEOREM BytesNoticed == Spec => []Noticed
BY TypeInit, TypeStep, NoticedInit, NoticedStep, PTL DEF Spec

-----------------------------------------------------------------------------
(* The clean frame. *)
WasExecuted == \E i \in 1 .. Len(executed) : executed[i] = clean

\* The HMI task takes the clean frame from the buffer to its execution.
LEMMA CleanTask ==
    ASSUME TypeInv, CleanInv, HmiTask
    PROVE  CleanInv'
<1> SUFFICES ASSUME clean # 0 PROVE OnLine' \/ InBuffer' \/ WasExecuted'
  BY DEF CleanInv, WasExecuted, HmiTask, Take, Check, Execute, Answer, Empty
<1>0. OnLine \/ InBuffer \/ WasExecuted
  BY DEF CleanInv, WasExecuted
<1>1. UNCHANGED <<line, halfway, quietDue, clean>>
  BY DEF HmiTask, Take, Check, Execute, Answer, Empty, lineVars
<1>2. CASE WasExecuted
  <2>1. CASE Execute
    <3>1. rx[1].of.n \in 1 .. MaxSends
      <4>1. rx[1] \in Piece
        BY <2>1, Lengths DEF Execute, TypeInv
      <4> QED
        BY <4>1 DEF Piece, Frame
    <3>2. /\ Len(executed') = Len(executed) + 1 /\ Len(executed) \in Nat
          /\ \A k \in 1 .. Len(executed) : executed'[k] = executed[k]
      BY <2>1, <3>1, AppendProperties, Lengths DEF Execute, TypeInv, TypeOK
    <3> QED
      BY <1>1, <1>2, <3>2 DEF WasExecuted
  <2>2. CASE ~Execute
    <3>1. executed' = executed
      BY <2>2 DEF HmiTask, Take, Check, Answer, Empty
    <3> QED
      BY <1>1, <1>2, <3>1 DEF WasExecuted
  <2> QED
    BY <2>1, <2>2
<1>3. CASE OnLine
  BY <1>3 DEF OnLine, HmiTask, Take, Check, Execute, Answer, Empty
<1>4. CASE InBuffer
  <2>1. CASE Take
    BY <1>1, <1>4, <2>1 DEF Take, InBuffer, Whole
  <2>2. CASE Check
    BY <1>1, <1>4, <2>2 DEF Check, InBuffer, Whole
  <2>3. CASE Execute
    <3>1. rx[1].of.n = clean /\ clean \in 1 .. MaxSends
      BY <1>4, BoundAssumption DEF InBuffer, TypeInv, TypeOK
    <3>2. /\ Len(executed') = Len(executed) + 1 /\ Len(executed) \in Nat
          /\ executed'[Len(executed) + 1] = clean
      BY <2>3, <3>1, AppendProperties, Lengths DEF Execute, TypeInv, TypeOK
    <3> QED
      BY <1>1, <3>2 DEF WasExecuted
  <2> QED
    BY <1>4, <2>1, <2>2, <2>3 DEF HmiTask, Answer, Empty, InBuffer
<1> QED
  BY <1>0, <1>2, <1>3, <1>4

\* The interrupt brings it from the line into the buffer, whole.
LEMMA CleanArrival ==
    ASSUME TypeInv, CleanInv, ReceiveBytes \/ EmptyUndone
    PROVE  CleanInv'
<1>1. /\ Len(rx) \in Nat /\ Len(line) \in Nat
      /\ Len(rx') = Len(rx) + 1
      /\ \A i \in 1 .. Len(rx) : rx'[i] = rx[i]
      /\ rx'[Len(rx) + 1].of = line[1]
      /\ rx'[Len(rx) + 1].half = (IF halfway THEN 2 ELSE 1)
      /\ Len(line) >= 1 /\ halfway' = ~halfway
      /\ ~halfway => line' = line
      /\ halfway => Len(line') = Len(line) - 1
      /\ quietDue' /\ UNCHANGED <<commandSem, executed, clean>>
  BY Arrives, Lengths DEF TypeInv, ReceiveBytes, EmptyUndone
<1> SUFFICES ASSUME clean # 0 PROVE OnLine' \/ InBuffer' \/ WasExecuted'
  BY <1>1 DEF CleanInv, WasExecuted
<1>0. OnLine \/ InBuffer \/ WasExecuted
  BY DEF CleanInv, WasExecuted
<1>2. CASE WasExecuted
  BY <1>1, <1>2 DEF WasExecuted
<1>3. CASE InBuffer
  BY <1>1, <1>3 DEF InBuffer
<1>4. CASE OnLine
  <2>1. pc' = "idle" /\ ~commandSem'
    BY <1>1, <1>4 DEF OnLine, ReceiveBytes, EmptyUndone
  <2>2. CASE ~halfway
    <3>1. Len(rx') = 1 /\ rx'[1].of = line[1] /\ rx'[1].half = 1
      BY <1>1, <1>4, <2>2 DEF OnLine
    <3> QED
      BY <1>1, <1>4, <2>1, <2>2, <3>1 DEF OnLine
  <2>3. CASE halfway
    <3>1. /\ Len(rx) = 1 /\ rx[1].of = line[1] /\ rx[1].half = 1
          /\ line[1].n = clean /\ line[1].good /\ Len(line) = 1
      BY <1>4, <2>3 DEF OnLine
    <3>2. /\ Len(rx') = 2 /\ rx'[1] = rx[1] /\ rx'[2].of = line[1]
          /\ rx'[2].half = 2
      <4>1. Len(rx) + 1 = 2 /\ 1 \in 1 .. Len(rx)
        BY <3>1
      <4>2. Len(rx') = 2
        BY <1>1, <4>1
      <4>3. rx'[1] = rx[1]
        BY <1>1, <4>1
      <4>4. rx'[2].of = line[1]
        BY <1>1, <4>1
      <4>5. rx'[2].half = 2
        BY <1>1, <2>3, <4>1
      <4> QED
        BY <4>2, <4>3, <4>4, <4>5
    <3>3. Len(line') = 0 /\ ~halfway'
      <4>1. Len(line') = Len(line) - 1
        BY <1>1, <2>3
      <4>2. Len(line') = 0
        BY <3>1, <4>1
      <4>3. ~halfway'
        BY <1>1, <2>3, Zenon
      <4> QED
        BY <4>2, <4>3
    <3>4. /\ Len(rx') = 2 /\ rx'[1].half = 1 /\ rx'[2].half = 2
          /\ rx'[1].of = rx'[2].of /\ rx'[1].of.good /\ rx'[1].of.n = clean
      BY <3>1, <3>2
    <3> QED
      BY <1>1, <2>1, <3>3, <3>4 DEF InBuffer, Whole
  <2> QED
    BY <2>2, <2>3
<1> QED
  BY <1>0, <1>2, <1>3, <1>4

\* Every step keeps the clean frame on the line, in the buffer or executed.
LEMMA CleanStep == TypeInv /\ Noticed /\ CleanInv /\ [Next]_vars => CleanInv'
<1> SUFFICES ASSUME TypeInv, Noticed, CleanInv, [Next]_vars PROVE CleanInv'
  OBVIOUS
<1>1. CASE HmiTask
  BY <1>1, CleanTask
<1>2. CASE ReceiveBytes \/ EmptyUndone
  BY <1>2, CleanArrival
<1>3. CASE ReceiveComplete
  <2>1. /\ ~quietDue' /\ commandSem' /\ quietDue
        /\ halfway => clean' = 0
        /\ ~halfway => clean' = clean
        /\ UNCHANGED <<pc, rx, line, halfway, executed>>
    BY <1>3 DEF ReceiveComplete
  <2>2. CASE halfway
    BY <2>1, <2>2 DEF CleanInv
  <2>3. CASE ~halfway
    BY <2>1, <2>3 DEF CleanInv, OnLine, InBuffer, Whole
  <2> QED
    BY <2>2, <2>3
<1>4. ASSUME NEW good \in BOOLEAN, Send(good)
      PROVE  CleanInv'
  <2> SUFFICES ASSUME clean' # 0 PROVE OnLine'
    BY DEF CleanInv
  <2>1. /\ AtRest /\ rx = << >> /\ good /\ clean' = sends + 1
        /\ UNCHANGED <<slaveVars, halfway, quietDue>>
    BY <1>4 DEF Send
  <2>2. Len(line) = 0 /\ Len(rx) = 0
    BY <2>1, Lengths DEF AtRest, TypeInv
  <2>3. Len(line) + 1 = 1
    BY <2>2
  <2>4. Len(line') = 1 /\ line'[1].n = clean' /\ line'[1].good
    <3>1. /\ Len(line') = Len(line) + 1 /\ line'[Len(line) + 1].n = sends + 1
          /\ line'[Len(line) + 1].good = good
      BY <1>4, Sent DEF TypeInv
    <3>2. Len(line') = 1 /\ line'[1].n = sends + 1
      BY <2>3, <3>1
    <3>3. line'[1].good
      BY <2>1, <2>3, <3>1
    <3> QED
      BY <2>1, <3>2, <3>3
  <2>5. pc' = "idle" /\ ~commandSem' /\ ~quietDue' /\ Len(rx') = 0
    BY <2>1, <2>2 DEF AtRest, slaveVars
  <2>6. ~halfway'
    BY <2>1 DEF Noticed, AtRest
  <2> QED
    BY <2>4, <2>5, <2>6 DEF OnLine
<1>5. CASE TakeAnswer \/ GiveUp \/ LoseAnswer \/ UNCHANGED vars
  BY <1>5 DEF TakeAnswer, GiveUp, LoseAnswer, vars, slaveVars, lineVars, CleanInv,
              OnLine, InBuffer, Whole
<1>6. CASE LoseFrame
  BY <1>6 DEF LoseFrame, CleanInv
<1> QED
  BY <1>1, <1>2, <1>3, <1>4, <1>5, <1>6 DEF Next, Interrupt, Panel, Line

(* A good frame sent to a gateway at rest, and that nothing disturbs, is    *)
(* executed before the gateway is at rest again, for any number of frames:  *)
(* until then it is on the line or whole in the buffer, with the task or    *)
(* the semaphore about to notice.                                           *)
THEOREM CleanFramesExecuted == Spec => []CleanFrameExecuted
<1>1. Init => CleanInv
  BY DEF Init, CleanInv
<1>2. TypeInv /\ CleanInv => CleanFrameExecuted
  <2> SUFFICES ASSUME TypeInv, CleanInv, AtRest, clean # 0
               PROVE  \E i \in DOMAIN executed : executed[i] = clean
    BY DEF CleanFrameExecuted
  <2>1. ~OnLine
    BY Lengths DEF OnLine, AtRest, TypeInv
  <2>2. ~InBuffer
    BY DEF InBuffer, AtRest
  <2> QED
    BY <2>1, <2>2, Lengths DEF CleanInv, TypeInv
<1> QED
  BY <1>1, <1>2, TypeInit, TypeStep, NoticedInit, NoticedStep, CleanStep, PTL DEF Spec

-----------------------------------------------------------------------------
(* The bound of the buffer. *)
LEMMA RoomStep == TypeInv /\ Noticed /\ OneAtATime /\ [Next]_vars => OneAtATime'
<1> SUFFICES ASSUME TypeInv, Noticed, OneAtATime, [Next]_vars PROVE OneAtATime'
  OBVIOUS
<1> SUFFICES ASSUME patient' PROVE OneAtATime'
  BY DEF OneAtATime
<1>a. patient
  BY DEF vars, panelVars, Next, HmiTask, Take, Check, Execute, Answer, Empty, Interrupt,
         ReceiveBytes, EmptyUndone, Arrival, ReceiveComplete, Panel, Send, TakeAnswer,
         GiveUp, Line, LoseFrame, LoseAnswer
<1>b. /\ Len(rx) \in Nat /\ Len(line) \in Nat /\ Len(answers) \in Nat
      /\ rx = << >> <=> Len(rx) = 0
      /\ line = << >> <=> Len(line) = 0
      /\ answers = << >> <=> Len(answers) = 0
  BY Lengths DEF TypeInv
<1>1. CASE Take
  BY <1>a, <1>b, <1>1 DEF Take, OneAtATime, Held, Done, lineVars, panelVars
<1>2. CASE Check
  <2>1. UNCHANGED <<rx, line, halfway, answers, patient, waiting>> /\ pc = "check"
    BY <1>2 DEF Check, lineVars, panelVars
  <2>2. CASE Whole
    <3>1. pc' = "execute" /\ Len(rx) = 2
      BY <1>2, <2>2 DEF Check, Whole
    <3>2. Held <= 2
      BY <1>a, <1>b, <2>1, <3>1 DEF OneAtATime
    <3>3. Len(line) = 0
      BY <1>b, <3>1, <3>2 DEF Held
    <3>4. ~Done
      BY <1>b, <2>1, <3>1 DEF Done
    <3> QED
      BY <1>a, <1>b, <2>1, <3>1, <3>2, <3>3, <3>4 DEF OneAtATime, Held
  <2>3. CASE ~Whole
    <3>1. pc' = "empty"
      BY <1>2, <2>3 DEF Check
    <3> QED
      BY <1>a, <1>b, <2>1, <3>1 DEF OneAtATime, Held, Done
  <2> QED
    BY <2>2, <2>3
<1>3. CASE Execute
  BY <1>a, <1>b, <1>3 DEF Execute, OneAtATime, Held, Done, lineVars, panelVars
<1>4. CASE Answer
  <2>1. /\ UNCHANGED <<rx, line, halfway, patient, waiting>>
        /\ pc = "answer" /\ pc' = "empty"
    BY <1>4 DEF Answer, panelVars
  <2>2. Len(answers') = Len(answers) + 1
    BY <1>4, AppendProperties DEF Answer, TypeInv, TypeOK
  <2>3. /\ Len(answers) = 0 /\ line = << >> /\ Len(rx) = 2 /\ waiting /\ Held <= 4
    BY <1>a, <1>b, <2>1 DEF OneAtATime, Done
  <2> QED
    BY <1>a, <1>b, <2>1, <2>2, <2>3 DEF OneAtATime, Held, Done
<1>5. CASE Empty
  <2>1. /\ UNCHANGED <<line, halfway, patient, waiting, answers>>
        /\ pc = "empty" /\ pc' = "idle" /\ rx' = << >>
    BY <1>5 DEF Empty, lineVars, panelVars
  <2>2. Len(rx') = 0
    BY <2>1, EmptySeq
  <2>3. Held' <= 2 /\ Held' \in Int
    BY <1>a, <1>b, <2>1, <2>2 DEF OneAtATime, Held
  <2> QED
    BY <1>a, <1>b, <2>1, <2>2, <2>3 DEF OneAtATime, Done
<1>6. CASE ReceiveBytes \/ EmptyUndone
  <2>1. /\ Len(rx') = Len(rx) + 1 /\ Len(line) >= 1
        /\ halfway' = ~halfway
        /\ ~halfway => line' = line
        /\ halfway => Len(line') = Len(line) - 1
        /\ UNCHANGED <<answers, patient, waiting>>
        /\ line' = << >> <=> Len(line') = 0
    BY <1>6, Arrives, EmptySeq DEF TypeInv, ReceiveBytes, EmptyUndone, panelVars
  <2>2. Len(rx') = Len(rx) + 1
    BY <2>1
  <2>3. \/ pc' = pc
        \/ pc = "empty" /\ pc' = "idle"
    BY <1>6 DEF ReceiveBytes, EmptyUndone
  <2>4. Held' = Held
    <3>1. CASE halfway
      <4>1. ~halfway'
        BY <2>1, <3>1, Zenon
      <4> QED
        BY <1>b, <2>1, <3>1, <4>1 DEF Held
    <3>2. CASE ~halfway
      <4>1. halfway'
        BY <2>1, <3>2, Zenon
      <4>2. Len(line') = Len(line)
        BY <2>1, <3>2
      <4> QED
        BY <1>b, <2>2, <3>2, <4>1, <4>2 DEF Held
    <3> QED
      BY <3>1, <3>2
  <2>5. ~Done /\ waiting /\ Len(answers) = 0 /\ pc \notin {"execute", "answer"}
    BY <1>a, <1>b, <2>1 DEF OneAtATime, Done
  <2>6. Len(line) = 1 /\ Len(line') <= 1 /\ Len(line') \in Nat
    <3>1. Len(line) <= 1
      BY <1>a DEF OneAtATime
    <3>2. Len(line) = 1
      <4>1. Len(line) \in Nat /\ Len(line) >= 1
        BY <1>b, <2>1
      <4> QED
        BY <3>1, <4>1
    <3>3. Len(line') <= 1 /\ Len(line') \in Nat
      <4>1. CASE halfway
        <5>1. Len(line') = Len(line) - 1
          BY <2>1, <4>1
        <5> QED
          BY <3>2, <5>1
      <4>2. CASE ~halfway
        <5>1. Len(line') = Len(line)
          BY <2>1, <4>2
        <5> QED
          BY <3>2, <5>1
      <4> QED
        BY <4>1, <4>2
    <3> QED
      BY <3>2, <3>3
  <2>7. pc' \notin {"execute", "answer"}
    BY <2>5, <2>3
  <2>8. ASSUME Len(rx') <= 1 \/ (pc' \in {"idle", "check"} /\ Len(rx') <= 2)
        PROVE  Held <= 2
    BY <1>a, <1>b, <2>2, <2>8, <2>3 DEF OneAtATime
  <2> QED
    BY <1>a, <1>b, <2>1, <2>4, <2>5, <2>6, <2>7, <2>8 DEF OneAtATime
<1>7. CASE ReceiveComplete
  BY <1>a, <1>7 DEF ReceiveComplete, OneAtATime, Held, Done, panelVars
<1>8. ASSUME NEW good \in BOOLEAN, Send(good)
      PROVE  OneAtATime'
  <2>1. /\ ~waiting /\ waiting' /\ UNCHANGED <<pc, rx, halfway, answers, patient>>
    BY <1>8 DEF Send, slaveVars
  <2>2. Len(line') = Len(line) + 1 /\ (line' = << >> <=> Len(line') = 0)
    BY <1>8, Sent, EmptySeq DEF TypeInv
  <2>3. Done /\ answers = << >>
    BY <1>a, <2>1 DEF OneAtATime
  <2>4. Len(line) = 0 /\ ~halfway /\ pc \notin {"execute", "answer"}
        /\ (Len(rx) # 0 => pc = "empty" /\ Len(rx) = 2)
    BY <1>b, <2>3 DEF Done, Noticed
  <2>5. Len(line') = 1 /\ Len(rx') = Len(rx) /\ ~halfway' /\ pc' = pc
    BY <2>1, <2>2, <2>4
  <2>6. Held' = Len(rx) + 2 /\ Held' <= 4
    BY <1>b, <2>4, <2>5 DEF Held
  <2>7. ASSUME Len(rx') <= 1 \/ (pc' \in {"idle", "check"} /\ Len(rx') <= 2)
        PROVE  Held' <= 2
    BY <1>b, <2>4, <2>5, <2>6, <2>7
  <2>8. Len(line') <= 1
    BY <2>5
  <2> QED
    BY <2>1, <2>3, <2>4, <2>5, <2>6, <2>7, <2>8 DEF OneAtATime
<1>9. CASE TakeAnswer \/ LoseAnswer
  <2>1. /\ UNCHANGED <<pc, rx, line, halfway, patient>>
        /\ Len(answers) # 0 /\ answers' = Tail(answers)
    BY <1>b, <1>9 DEF TakeAnswer, LoseAnswer, slaveVars, panelVars
  <2>2. Len(answers') = Len(answers) - 1 /\ (answers' = << >> <=> Len(answers') = 0)
    BY <1>b, <2>1, HeadTailProperties, EmptySeq DEF TypeInv, TypeOK
  <2>3. Len(answers) = 1 /\ Done
    BY <1>a, <1>b, <2>1 DEF OneAtATime
  <2> QED
    BY <1>a, <1>b, <2>1, <2>2, <2>3 DEF OneAtATime, Held, Done
<1>10. CASE GiveUp
  <2>1. AtRest /\ answers = << >> /\ UNCHANGED <<slaveVars, lineVars, patient>>
    BY <1>a, <1>10 DEF GiveUp
  <2>2. rx = << >>
    BY <2>1 DEF AtRest, Noticed
  <2> QED
    BY <1>a, <1>b, <2>1, <2>2 DEF OneAtATime, Held, Done, AtRest, slaveVars, lineVars
<1>11. CASE LoseFrame
  <2>1. /\ Len(line') = Len(line) - 1 /\ Len(line) >= 1
        /\ UNCHANGED <<pc, rx, patient, waiting, answers>> /\ halfway' = FALSE
    BY <1>11, Lost DEF TypeInv, LoseFrame, slaveVars, panelVars
  <2>2. line' = << >> <=> Len(line') = 0
    BY <1>11, Lost, EmptySeq DEF TypeInv
  <2>3. Held' <= Held /\ Held \in Int /\ Held' \in Int
    BY <1>b, <2>1 DEF Held
  <2>4. ~Done /\ waiting /\ Len(answers) = 0 /\ pc \notin {"execute", "answer"}
    BY <1>a, <1>b, <2>1 DEF OneAtATime, Done
  <2> QED
    BY <1>a, <1>b, <2>1, <2>2, <2>3, <2>4 DEF OneAtATime
<1>12. CASE UNCHANGED vars
  BY <1>a, <1>12 DEF OneAtATime, Held, Done, vars, slaveVars, lineVars, panelVars
<1> QED
  BY <1>1, <1>2, <1>3, <1>4, <1>5, <1>6, <1>7, <1>8, <1>9, <1>10, <1>11, <1>12
     DEF Next, HmiTask, Interrupt, Panel, Line

(* With a panel that waits for its answers the receive buffer never holds   *)
(* more than two frames, for any number of frames: a frame is only sent     *)
(* when of the one before nothing is left, or when it has been answered     *)
(* and only awaits the emptying of the buffer.                              *)
THEOREM ReceiveBufferBounded == Spec => []RxBounded
<1>1. Init => OneAtATime
  BY EmptySeq DEF Init, OneAtATime, Held, Done
<1>2. TypeInv /\ Noticed /\ OneAtATime => RxBounded
  BY Lengths DEF TypeInv, Noticed, OneAtATime, Held, RxBounded
<1> QED
  BY <1>1, <1>2, TypeInit, TypeStep, NoticedInit, NoticedStep, RoomStep, PTL DEF Spec
=============================================================================
