------------------------------ MODULE SlaveHmi ------------------------------
(***************************************************************************)
(* The serial line of the touch panel (HMI), with the gateway as Modbus    *)
(* slave: the receive interrupt appends to slave_hmi.rx_buf and gives      *)
(* command_sem when the line falls quiet; modbus_hmi_task takes it,        *)
(* executes and answers what is in the buffer, and empties the buffer.     *)
(* Nothing stops the interrupt from appending meanwhile, and the buffer is *)
(* emptied after the answer: what the panel sends between the two is lost. *)
(*                                                                         *)
(* A frame arrives in two pieces.  What a command does to the registers is *)
(* in ApTask.tla, AcTask.tla and RegisterMap.tla.                          *)
(***************************************************************************)
EXTENDS Naturals, Sequences

CONSTANT MaxSends   \* bound: frames the panel sends

ASSUME BoundAssumption == MaxSends \in Nat

VARIABLES
    pc,          \* the HMI task: "idle", "check", "execute", "answer" or "empty"
    rx,          \* rx_buf up to rx_len, as pieces of frames
    commandSem,  \* command_sem, a binary semaphore
    line,        \* from the panel: frames not received yet
    halfway,     \* the first piece of the first of them has been received
    quietDue,    \* the interrupt has yet to see the line fall quiet
    answers,     \* to the panel: which frames are answered
    sends, waiting,   \* the panel: frames sent, whether it awaits an answer
    patient,     \* whether a panel that gets no answer waits until the gateway
                 \* can have nothing left of its last frame; never changes
    executed,    \* history: the frames executed, in order
    clean        \* history: the last frame sent, if the gateway had nothing and
                 \* nothing has happened to the frame; else 0

slaveVars == <<pc, rx, commandSem>>
lineVars == <<line, halfway, quietDue, answers>>
panelVars == <<sends, waiting, patient>>
vars == <<slaveVars, lineVars, panelVars, executed, clean>>

\* Frames are numbered.  One that is not good has a wrong CRC or is addressed
\* to another slave.
Frame == [n : 1 .. MaxSends, good : BOOLEAN]
Piece == [of : Frame, half : 1 .. 2]

\* Nothing is under way.
AtRest == pc = "idle" /\ ~commandSem /\ ~quietDue /\ line = << >>

Init ==
    /\ pc = "idle" /\ rx = << >> /\ commandSem = FALSE
    /\ line = << >> /\ halfway = FALSE /\ quietDue = FALSE /\ answers = << >>
    /\ sends = 0 /\ waiting = FALSE /\ patient \in BOOLEAN
    /\ executed = << >> /\ clean = 0

-----------------------------------------------------------------------------
(* modbus_hmi_task. *)

\* Faulty, no part of Spec, as those below: the buffer is emptied on waking up.
TakeEmpties ==
    /\ pc = "idle" /\ commandSem
    /\ commandSem' = FALSE /\ rx' = << >> /\ pc' = "check"
    /\ UNCHANGED <<lineVars, panelVars, executed, clean>>

Take ==
    /\ pc = "idle"
    /\ commandSem
    /\ commandSem' = FALSE
    /\ pc' = "check"
    /\ UNCHANGED <<rx, lineVars, panelVars, executed, clean>>

\* The buffer holds one whole good frame for this slave.
Whole ==
    /\ Len(rx) = 2
    /\ rx[1].half = 1 /\ rx[2].half = 2
    /\ rx[1].of = rx[2].of
    /\ rx[1].of.good

\* Faulty: a frame that is rejected stays in the buffer.
CheckReturns ==
    /\ pc = "check" /\ pc' = IF Whole THEN "execute" ELSE "idle"
    /\ UNCHANGED <<rx, commandSem, lineVars, panelVars, executed, clean>>

\* Anything else is passed over without an answer.
Check ==
    /\ pc = "check"
    /\ pc' = IF Whole THEN "execute" ELSE "empty"
    /\ UNCHANGED <<rx, commandSem, lineVars, panelVars, executed, clean>>

\* The handler works on the head of the buffer.
Execute ==
    /\ pc = "execute"
    /\ executed' = Append(executed, rx[1].of.n)
    /\ pc' = "answer"
    /\ UNCHANGED <<rx, commandSem, lineVars, panelVars, clean>>

Answer ==
    /\ pc = "answer"
    /\ answers' = Append(answers, executed[Len(executed)])
    /\ pc' = "empty"
    /\ UNCHANGED <<rx, commandSem, line, halfway, quietDue, panelVars, executed, clean>>

\* Faulty: the buffer is not emptied.
EmptyNot ==
    /\ pc = "empty" /\ pc' = "idle"
    /\ UNCHANGED <<rx, commandSem, lineVars, panelVars, executed, clean>>

Empty ==
    /\ pc = "empty"
    /\ rx' = << >>
    /\ pc' = "idle"
    /\ UNCHANGED <<commandSem, lineVars, panelVars, executed, clean>>

-----------------------------------------------------------------------------
(* The receive interrupt. *)

\* The line's side of the interrupt appending a piece.
Arrival ==
    /\ line # << >>
    /\ rx' = Append(rx, [of |-> Head(line), half |-> IF halfway THEN 2 ELSE 1])
    /\ halfway' = ~halfway
    /\ line' = IF halfway THEN Tail(line) ELSE line
    /\ quietDue' = TRUE
    /\ UNCHANGED <<commandSem, answers, panelVars, executed, clean>>

ReceiveBytes == Arrival /\ UNCHANGED pc

\* The task and the interrupt may run on two cores: rx_len = 0 of the one falls
\* between the read and the write of rx_len++ of the other, and is undone.
EmptyUndone ==
    /\ pc = "empty"
    /\ pc' = "idle"
    /\ Arrival

\* After a frame, after several that came close together, or in a gap in one.
ReceiveComplete ==
    /\ quietDue
    /\ quietDue' = FALSE
    /\ commandSem' = TRUE
    /\ clean' = IF halfway THEN 0 ELSE clean
    /\ UNCHANGED <<pc, rx, line, halfway, answers, panelVars, executed>>

-----------------------------------------------------------------------------
(* The panel and the line. *)

Send(good) ==
    /\ ~waiting
    /\ sends < MaxSends
    /\ sends' = sends + 1
    /\ waiting' = TRUE
    /\ line' = Append(line, [n |-> sends + 1, good |-> good])
    /\ clean' = IF AtRest /\ rx = << >> /\ good THEN sends + 1 ELSE 0
    /\ UNCHANGED <<slaveVars, halfway, quietDue, answers, patient, executed>>

\* An answer to an earlier frame is passed over.
TakeAnswer ==
    /\ answers # << >>
    /\ answers' = Tail(answers)
    /\ waiting' = (waiting /\ Head(answers) # sends)
    /\ UNCHANGED <<slaveVars, line, halfway, quietDue, sends, patient, executed, clean>>

GiveUp ==
    /\ waiting
    /\ patient => AtRest /\ answers = << >>
    /\ waiting' = FALSE
    /\ UNCHANGED <<slaveVars, lineVars, sends, patient, executed, clean>>

LoseFrame ==
    /\ line # << >>
    /\ line' = Tail(line)
    /\ halfway' = FALSE
    /\ clean' = 0
    /\ UNCHANGED <<slaveVars, quietDue, answers, panelVars, executed>>

LoseAnswer ==
    /\ answers # << >>
    /\ answers' = Tail(answers)
    /\ UNCHANGED <<slaveVars, line, halfway, quietDue, panelVars, executed, clean>>

-----------------------------------------------------------------------------
HmiTask == Take \/ Check \/ Execute \/ Answer \/ Empty
Interrupt == ReceiveBytes \/ ReceiveComplete \/ EmptyUndone
Panel == (\E good \in BOOLEAN : Send(good)) \/ TakeAnswer \/ GiveUp
Line == LoseFrame \/ LoseAnswer

Next == HmiTask \/ Interrupt \/ Panel \/ Line

Spec == Init /\ [][Next]_vars

(***************************************************************************)
(* Fairness: the task runs when it can, and what has been sent arrives (or *)
(* is lost) and is followed by a quiet line.  Nothing makes the panel send.*)
(***************************************************************************)
FairSpec == Spec /\ WF_vars(HmiTask) /\ WF_vars(Interrupt)

-----------------------------------------------------------------------------
(* Every variable keeps its type; a handler only runs on a good frame, and  *)
(* it is still at the head of the buffer.                                   *)
TypeOK ==
    /\ pc \in {"idle", "check", "execute", "answer", "empty"}
    /\ rx \in Seq(Piece)
    /\ commandSem \in BOOLEAN /\ halfway \in BOOLEAN /\ quietDue \in BOOLEAN
    /\ line \in Seq(Frame)
    /\ answers \in Seq(1 .. MaxSends) /\ executed \in Seq(1 .. MaxSends)
    /\ sends \in 0 .. MaxSends /\ waiting \in BOOLEAN /\ patient \in BOOLEAN
    /\ clean \in 0 .. MaxSends
    /\ pc = "execute" => rx # << >> /\ rx[1].of.good

(* No frame is executed twice, and frames are executed in the order sent,   *)
(* although a frame with a gap in it wakes the task more than once and      *)
(* tokens outlive the buffer's contents.                                    *)
ExecutedOnce ==
    \A i, j \in DOMAIN executed : i < j => executed[i] < executed[j]

(* A good frame sent to a gateway at rest, and that neither a gap, the      *)
(* line nor a further frame disturbs, is executed.  A frame sent on the     *)
(* answer to the one before may be lost: the buffer is emptied after it.    *)
CleanFrameExecuted == AtRest /\ clean # 0 => \E i \in DOMAIN executed : executed[i] = clean

(* Of a panel that waits for its answers the buffer never holds more than   *)
(* two frames, one executed and one that came before the emptying: half of  *)
(* its 1024 bytes, although the interrupt checks no bound.                  *)
RxBounded == patient => Len(rx) <= 4

(* What has been received does not stay: damaged, cut and foreign frames    *)
(* are emptied out too, and cannot spoil the frames after them for good.    *)
Recovers == rx # << >> ~> rx = << >>
=============================================================================
