----------------------------- MODULE LinkTiming -----------------------------
(***************************************************************************)
(* One serial line with its timing: the cycle of polls of a read task, the *)
(* transactions of the write task between them, MODBUS_TIMEOUT, the pause  *)
(* after the last poll, and a unit that may answer late.  MasterLink.tla   *)
(* shows that what is decoded is right at any timing; this module is about *)
(* whether anything is decoded at all.  reply_sem is never emptied, so a   *)
(* late reply ends the wait of the next request, whose own reply ends the  *)
(* wait after that, and so on: every transaction sees its predecessor's    *)
(* reply and fails.                                                        *)
(*                                                                         *)
(* Time passes in ticks.  What a task can do it does at once, unless it is *)
(* held up, which counts as a disturbance, like a late or lost reply.      *)
(* Requests sent without a tick between them run into each other on the    *)
(* line, and the unit reads neither.                                       *)
(*                                                                         *)
(* That a byte undoes an emptying (BeginUndone of MasterLink.tla) has no   *)
(* step of its own here: the transaction it begins fails, as it does when  *)
(* the same late reply arrives just after the emptying.                    *)
(***************************************************************************)
EXTENDS Integers, Sequences

CONSTANTS
    Polls,            \* the polls of a cycle are 1 .. Polls; with one alone, no two
                      \* could run into each other and no shift would end
    Timeout,          \* MODBUS_TIMEOUT in ticks
    Pause,            \* the pause after the last poll in ticks
    MaxPrompt,        \* a prompt answer comes within so many ticks
    MaxLate,          \* bound: a late one within so many
    MaxDisturbances,  \* bound: late and lost answers, tasks held up
    MaxWrites         \* bound: requests of the write task

ASSUME TimeAssumption ==
    /\ Polls \in Nat \ {0, 1} /\ MaxPrompt \in Nat \ {0}
    /\ Pause \in Nat /\ Timeout \in Nat /\ MaxLate \in Nat
    /\ MaxPrompt <= Pause /\ Pause < Timeout
ASSUME CountAssumption == MaxDisturbances \in Nat /\ MaxWrites \in Nat

WriteRequest == 0
Request == 0 .. Polls

\* The unit has not begun to answer.
NotBegun == MaxLate + 1

VARIABLES
    rd, poll, rdTimer,  \* the read task: "send", "wait" or "pause"; its next or
                        \* current poll; ticks to the end of the wait or pause
    wr, wrTimer,        \* the write task: "idle" or "wait"
    rx,                 \* rx_buf, as the requests whose replies it holds
    replySem,           \* reply_sem
    wire,               \* requests sent since the last tick
    queue, delay,       \* the unit: requests it has read, ticks to its answer
    good,               \* the last poll was answered
    failed,             \* polls failed since the last disturbance or write, counted
                        \* up to longest + 1
    longest,            \* history: Longest right after it
    disturbances, writes

masterVars == <<rd, poll, rdTimer, wr, wrTimer>>
unitVars == <<queue, delay>>
shift == <<failed, longest>>
counters == <<disturbances, writes>>
timedVars == <<masterVars, rx, replySem, wire, unitVars, good, shift, counters>>

-----------------------------------------------------------------------------
(* How long a shift may last.  What shifts the replies is what is owed: each *)
(* answer and each token that there will be and no request waits for.  Two   *)
(* polls that run into each other are waited for and not answered, so that a *)
(* cycle brings what is owed down by two.                                    *)

\* Requests that may still be answered: those the unit has read, and one that
\* is alone on the line.
Answers == Len(queue) + (IF Len(wire) = 1 THEN 1 ELSE 0)

\* Ticks to the first of the answers, at most.
Due == IF queue = << >> THEN MaxPrompt
       ELSE IF delay = NotBegun THEN MaxPrompt - 1 ELSE delay

\* Ticks to the end of the wait under way, or of the next if a token ends this
\* one or there is none.
TimeLeft == IF replySem THEN Timeout
            ELSE IF rd = "wait" THEN rdTimer
            ELSE IF wr = "wait" THEN wrTimer ELSE Timeout

\* Waits that time out before the first of the answers comes; each sends a
\* request more.
Timeouts == IF Answers = 0 THEN 0 ELSE (Due + Timeout - TimeLeft) \div Timeout

Owed == Answers + (IF replySem THEN 1 ELSE 0) + Timeouts
        - (IF "wait" \in {rd, wr} THEN 1 ELSE 0)

\* Polls that may fail: those that time out, a cycle for two that are owed, and
\* those at its ends.
Longest == IF Owed <= 0 THEN 2 ELSE Timeouts + Polls * ((Owed + 1) \div 2) + 4

Disturbed == failed' = 0 /\ longest' = Longest'
OneMore == IF failed > longest THEN failed ELSE failed + 1

TimedInit ==
    /\ rd = "send" /\ poll = 1 /\ rdTimer = 0
    /\ wr = "idle" /\ wrTimer = 0
    /\ rx = << >> /\ replySem = FALSE
    /\ wire = << >>
    /\ queue = << >> /\ delay = NotBegun
    /\ good = FALSE /\ failed = 0 /\ longest = 0
    /\ disturbances = 0 /\ writes = 0

-----------------------------------------------------------------------------
(* Faulty variants of definitions below, no part of TimedSpec: each one     *)
(* breaks the property PROJECT.json names with it.                          *)

\* The read task goes on polling without a pause.
AfterLastAtOnce == "send"

\* The token stays in the semaphore.
TokenAfterStays == TRUE

-----------------------------------------------------------------------------
(* The master. *)

\* send_receive empties the buffer and sends; uart_mutex keeps the other task
\* out until the wait is over.
SendPoll ==
    /\ rd = "send" /\ wr = "idle"
    /\ rx' = << >>
    /\ wire' = Append(wire, poll)
    /\ rd' = "wait" /\ rdTimer' = Timeout
    /\ UNCHANGED <<poll, wr, wrTimer, replySem, unitVars, good, shift, counters>>

SendWrite ==
    /\ wr = "idle" /\ rd # "wait"
    /\ writes < MaxWrites
    /\ rx' = << >>
    /\ wire' = Append(wire, WriteRequest)
    /\ wr' = "wait" /\ wrTimer' = Timeout
    /\ writes' = writes + 1
    /\ UNCHANGED <<rd, poll, rdTimer, replySem, unitVars, good, disturbances>>
    /\ Disturbed

\* After its last poll the read task pauses.
AfterLast == "pause"

\* The poll is over; answered says whether its reply passed the validation.
PollEnds(answered) ==
    /\ good' = answered
    /\ failed' = IF answered THEN failed ELSE OneMore
    /\ longest' = longest
    /\ poll' = IF poll = Polls THEN 1 ELSE poll + 1
    /\ rd' = IF poll = Polls THEN AfterLast ELSE "send"
    /\ rdTimer' = IF poll = Polls THEN Pause ELSE 0

\* What a wait that ended leaves in the semaphore.
TokenAfter == FALSE

\* A token ends the wait; the buffer must then hold the poll's reply and nothing
\* else.  What a write was answered is not looked at.
PollReplied ==
    /\ rd = "wait" /\ replySem
    /\ replySem' = TokenAfter
    /\ PollEnds(rx = <<poll>>)
    /\ UNCHANGED <<wr, wrTimer, rx, wire, unitVars, counters>>

WriteReplied ==
    /\ wr = "wait" /\ replySem
    /\ replySem' = TokenAfter
    /\ wr' = "idle" /\ wrTimer' = 0
    /\ UNCHANGED <<rd, poll, rdTimer, rx, wire, unitVars, good, shift, counters>>

PollTimesOut ==
    /\ rd = "wait" /\ rdTimer = 0 /\ ~replySem
    /\ PollEnds(FALSE)
    /\ UNCHANGED <<wr, wrTimer, rx, replySem, wire, unitVars, counters>>

WriteTimesOut ==
    /\ wr = "wait" /\ wrTimer = 0 /\ ~replySem
    /\ wr' = "idle"
    /\ UNCHANGED <<rd, poll, rdTimer, wrTimer, rx, replySem, wire, unitVars, good,
                   shift, counters>>

PauseEnds ==
    /\ rd = "pause" /\ rdTimer = 0
    /\ rd' = "send"
    /\ UNCHANGED <<poll, rdTimer, wr, wrTimer, rx, replySem, wire, unitVars, good,
                   shift, counters>>

-----------------------------------------------------------------------------
(* The unit answers one request after the other, the line, the interrupt. *)

Disturb ==
    /\ disturbances < MaxDisturbances
    /\ disturbances' = disturbances + 1
    /\ Disturbed

Prompt(d) ==
    /\ queue # << >> /\ delay = NotBegun
    /\ d < MaxPrompt
    /\ delay' = d
    /\ UNCHANGED <<masterVars, rx, replySem, wire, queue, good, shift, counters>>

Late(d) ==
    /\ queue # << >> /\ delay = NotBegun
    /\ d \in MaxPrompt .. MaxLate
    /\ delay' = d
    /\ UNCHANGED <<masterVars, rx, replySem, wire, queue, good, writes>>
    /\ Disturb

Lost ==
    /\ queue # << >> /\ delay = NotBegun
    /\ queue' = Tail(queue)
    /\ UNCHANGED <<masterVars, rx, replySem, wire, delay, good, writes>>
    /\ Disturb

\* The reply arrives: the interrupt appends its bytes and gives the token.
Arrive ==
    /\ queue # << >> /\ delay = 0
    /\ rx' = Append(rx, Head(queue))
    /\ replySem' = TRUE
    /\ queue' = Tail(queue) /\ delay' = NotBegun
    /\ UNCHANGED <<masterVars, wire, good, shift, counters>>

-----------------------------------------------------------------------------
(* Time. *)

Minus(timer) == IF timer = 0 THEN 0 ELSE timer - 1

\* Some task can go on.
TaskReady ==
    \/ rd = "send" /\ wr = "idle"
    \/ "wait" \in {rd, wr} /\ replySem
    \/ rd # "send" /\ rdTimer = 0
    \/ wr = "wait" /\ wrTimer = 0

\* The unit has to choose when it answers, or does.
UnitReady == queue # << >> /\ delay \in {0, NotBegun}

\* A request that had the line for itself is read by the unit; one that finds it
\* busy may be lost.
TimePasses ==
    /\ ~UnitReady
    /\ rdTimer' = Minus(rdTimer) /\ wrTimer' = Minus(wrTimer)
    /\ delay' = IF queue = << >> THEN NotBegun ELSE delay - 1
    /\ wire' = << >>
    /\ \/ Len(wire) = 1 /\ queue' = queue \o wire
       \/ (Len(wire) # 1 \/ queue # << >>) /\ UNCHANGED queue
    /\ UNCHANGED <<rd, poll, wr, rx, replySem, good, writes>>

Tick == ~TaskReady /\ TimePasses /\ UNCHANGED <<shift, disturbances>>

\* A task that could go on is held up.
HeldUp == TaskReady /\ TimePasses /\ Disturb

-----------------------------------------------------------------------------
PollingTask == SendPoll \/ PollReplied \/ PollTimesOut \/ PauseEnds
WritingTask == SendWrite \/ WriteReplied \/ WriteTimesOut
Unit == (\E d \in 0 .. MaxLate : Prompt(d) \/ Late(d)) \/ Lost \/ Arrive

TimedNext == PollingTask \/ WritingTask \/ Unit \/ Tick \/ HeldUp

TimedSpec == TimedInit /\ [][TimedNext]_timedVars

\* Time, tasks and unit go on.  What can be done at one instant is finite, so that
\* nothing more is needed.
TimedFairSpec == TimedSpec /\ WF_timedVars(TimedNext)

-----------------------------------------------------------------------------
(* Every variable keeps its type.                                           *)
TimedTypeOK ==
    /\ rd \in {"send", "wait", "pause"} /\ poll \in 1 .. Polls
    /\ rdTimer \in 0 .. Timeout
    /\ wr \in {"idle", "wait"} /\ wrTimer \in 0 .. Timeout
    /\ rx \in Seq(Request) /\ replySem \in BOOLEAN
    /\ wire \in Seq(Request) /\ queue \in Seq(Request)
    /\ delay \in 0 .. NotBegun
    /\ good \in BOOLEAN /\ failed \in Nat /\ longest \in Nat
    /\ disturbances \in 0 .. MaxDisturbances /\ writes \in 0 .. MaxWrites

(* A shift of the replies ends: when no more replies are late or lost and   *)
(* no task is held up, every poll is answered after a while, for ever.  It  *)
(* is the pause that ends it: the last reply of a cycle arrives during it   *)
(* and leaves a token, the first poll of the next cycle is over at once,    *)
(* the second request runs into the first, none is answered, and the        *)
(* timeout finds line, buffer and semaphore empty.                          *)
ShiftEnds == <>[]good

(* And it ends soon: since the last disturbance, or write of the panel's,   *)
(* no more polls have failed than what was owed right after it allows.  How *)
(* long ago it was and what the line has been through do not matter.        *)
ShiftIsShort == failed <= longest
=============================================================================
