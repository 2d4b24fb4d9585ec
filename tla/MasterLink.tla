----------------------------- MODULE MasterLink -----------------------------
(***************************************************************************)
(* One serial line with the gateway as Modbus master: the transactions of  *)
(* mb_master.c, the send_receive function and the receive interrupt of     *)
(* csro_airsys.c, and the unit at the other end.  The transactions of the  *)
(* read and the write task of a unit exclude each other (ApTask.tla,       *)
(* MutexOwner), so they are one sequence here, in any order.               *)
(*                                                                         *)
(* Nothing ties a reply to its request but the function code and the byte  *)
(* count, reply_sem is not emptied when a transaction starts, and the      *)
(* interrupt appends to rx_buf whatever the tasks are doing, also while    *)
(* one of them empties it.  So a late reply may be taken for the answer to *)
(* a later request, and the buffer may keep what it held; the model is     *)
(* untimed, MODBUS_TIMEOUT may expire whenever no token is there.          *)
(***************************************************************************)
EXTENDS Naturals, Sequences

CONSTANTS
    Poll,        \* the polls of the unit: [func, addr, qty]
    Write,       \* its write requests: [func, addr, qty]
    MaxWire,     \* bound: requests, and replies, on the line at a time
    MaxUndone,   \* bound: emptyings in a row that are undone
    MaxVersion   \* bound: changes of a block at the unit

Request == Poll \cup Write

\* The byte count a reply must have: packed bits, or two bytes per register.
Bytes(p) ==
    CASE p.func \in {1, 2} -> IF p.qty % 8 = 0 THEN p.qty \div 8 ELSE p.qty \div 8 + 1
      [] OTHER -> p.qty * 2

\* The replies of any two polls can be told apart.
DistinctReplies(S) ==
    \A p, q \in S : p.func = q.func /\ Bytes(p) = Bytes(q) => p = q

ASSUME PollAssumption ==
    /\ Poll \subseteq [func : 1 .. 4, addr : Nat, qty : Nat \ {0}]
    /\ Write \subseteq [func : {5, 6}, addr : Nat, qty : {1}]
    /\ DistinctReplies(Poll)
ASSUME BoundAssumption ==
    MaxWire \in Nat \ {0} /\ MaxUndone \in Nat /\ MaxVersion \in Nat

\* The polls of the two units.
AcPolls == {[func |-> 2, addr |-> 1, qty |-> 39], [func |-> 4, addr |-> 1, qty |-> 20],
            [func |-> 1, addr |-> 1, qty |-> 1], [func |-> 3, addr |-> 1, qty |-> 1],
            [func |-> 3, addr |-> 36, qty |-> 4], [func |-> 3, addr |-> 61, qty |-> 2]}
ApPolls == {[func |-> 2, addr |-> 1, qty |-> 31], [func |-> 4, addr |-> 1, qty |-> 19],
            [func |-> 3, addr |-> 1, qty |-> 16]}

VARIABLES
    pc,         \* the transaction: "idle", "waiting", "received" or "decode"
    cur,        \* its request: func_code, read_addr and read_qty of the master
    rx,         \* rx_buf up to rx_len, as pieces of frames
    undone,     \* history: emptyings undone since the last that was not
    replySem,   \* reply_sem, a binary semaphore
    online,     \* status, and coil 41 or 42
    mirror,     \* per poll, the version of the block in airsys_regs
    requests,   \* the line to the unit
    replies,    \* the line from the unit
    halfway,    \* the first piece of the first reply has arrived
    quietDue,   \* the receive interrupt has yet to see the end of a frame
    version     \* per poll, how often the block has changed at the unit

lineVars == <<requests, replies, halfway, quietDue>>
vars == <<pc, cur, rx, undone, replySem, online, mirror, lineVars, version>>

\* A reply: to which request, with which version of its block; or one with a
\* wrong CRC, from another unit, or with an exception code.
Garbage == [to |-> [func |-> 0, addr |-> 0, qty |-> 0], version |-> 0]
Frame == [to : Request, version : Nat] \cup {Garbage}
Piece == [of : Frame, half : 1 .. 2]

Init ==
    /\ pc = "idle"
    /\ cur \in Poll
    /\ rx = << >>
    /\ undone = 0
    /\ replySem = FALSE
    /\ online = FALSE
    /\ mirror = [p \in Poll |-> 0]
    /\ requests = << >> /\ replies = << >>
    /\ halfway = FALSE /\ quietDue = FALSE
    /\ version = [p \in Poll |-> 0]

-----------------------------------------------------------------------------
(* Faulty variants of definitions below, no part of Spec: each one breaks   *)
(* the property PROJECT.json names with it.                                 *)

\* The buffer is not emptied before a request.
EmptiedNot == rx

\* The token is left in the semaphore.
TakeReplyKeepsToken ==
    /\ pc = "waiting"
    /\ replySem
    /\ online' = TRUE
    /\ pc' = "received"
    /\ UNCHANGED <<cur, rx, undone, replySem, mirror, lineVars, version>>

\* The byte count of a reply is not compared.
AnswersFunction(frame, request) == frame.to.func = request.func

\* The frame is looked for at the end of the buffer: what is validated need not
\* be what is decoded.
WholeTail(buffer) ==
    /\ Len(buffer) >= 2
    /\ buffer[Len(buffer)].half = 2
    /\ buffer[Len(buffer)].of # Garbage
    /\ buffer[Len(buffer) - 1] = [of |-> buffer[Len(buffer)].of, half |-> 1]

-----------------------------------------------------------------------------
(* A transaction of the master. *)

Emptied == << >>

\* The request is sent; it may get lost, or be merged with one that is still on
\* the line so that the unit reads neither.
Send(request) ==
    /\ pc = "idle"
    /\ cur' = request
    /\ pc' = "waiting"
    /\ \/ UNCHANGED requests
       \/ Len(requests) < MaxWire /\ requests' = Append(requests, request)
       \/ requests # << >> /\ requests' = SubSeq(requests, 1, Len(requests) - 1)
    /\ UNCHANGED <<replySem, online, mirror, version>>

\* The receive buffer is emptied before.
Begin(request) ==
    /\ Send(request)
    /\ rx' = Emptied /\ undone' = 0
    /\ UNCHANGED <<replies, halfway, quietDue>>

\* A token, of this reply or of an earlier one, ends the wait.
TakeReply ==
    /\ pc = "waiting"
    /\ replySem
    /\ replySem' = FALSE
    /\ online' = TRUE
    /\ pc' = "received"
    /\ UNCHANGED <<cur, rx, undone, mirror, lineVars, version>>

Timeout ==
    /\ pc = "waiting"
    /\ ~replySem
    /\ online' = FALSE
    /\ pc' = "idle"
    /\ UNCHANGED <<cur, rx, undone, replySem, mirror, lineVars, version>>

\* The buffer holds one whole good frame: two merged ones, or a part of one,
\* have no correct CRC.
Whole(buffer) ==
    /\ Len(buffer) = 2
    /\ buffer[1].half = 1 /\ buffer[2].half = 2
    /\ buffer[1].of = buffer[2].of
    /\ buffer[1].of # Garbage

\* A reply to a poll must have its function code and byte count.
Answers(frame, request) ==
    /\ frame.to.func = request.func
    /\ Bytes(frame.to) = Bytes(request)

\* What a write's reply says is not looked at by the write tasks.  One step: a
\* byte that arrives between the readings of rx_len makes the bytes and the
\* CRC compared those of two lengths, which fails as a damaged frame does.
Validate ==
    /\ pc = "received"
    /\ pc' = IF cur \in Poll /\ Whole(rx) /\ Answers(rx[1].of, cur)
               THEN "decode" ELSE "idle"
    /\ UNCHANGED <<cur, rx, undone, replySem, online, mirror, lineVars, version>>

\* The registers are decoded from the head of the buffer and stored.
Decode ==
    /\ pc = "decode"
    /\ mirror' = [mirror EXCEPT ![cur] = rx[1].of.version]
    /\ pc' = "idle"
    /\ UNCHANGED <<cur, rx, undone, replySem, online, lineVars, version>>

-----------------------------------------------------------------------------
(* The receive interrupt. *)

\* A frame arrives in two pieces.
Arrival ==
    /\ replies # << >>
    /\ rx' = Append(rx, [of |-> Head(replies), half |-> IF halfway THEN 2 ELSE 1])
    /\ halfway' = ~halfway
    /\ replies' = IF halfway THEN Tail(replies) ELSE replies
    /\ quietDue' = TRUE

ReceiveBytes ==
    /\ Arrival
    /\ UNCHANGED <<pc, cur, undone, replySem, online, mirror, requests, version>>

\* The task and the interrupt may run on two cores: rx_len = 0 of the one falls
\* between the read and the write of rx_len++ of the other, and is undone.
BeginUndone(request) ==
    /\ undone < MaxUndone
    /\ undone' = undone + 1
    /\ Send(request)
    /\ Arrival

\* The line has been quiet: after a frame, after several that came close
\* together, or in a gap within one.
ReceiveComplete ==
    /\ quietDue
    /\ quietDue' = FALSE
    /\ replySem' = TRUE
    /\ UNCHANGED <<pc, cur, rx, undone, online, mirror, requests, replies, halfway,
                   version>>

-----------------------------------------------------------------------------
(* The unit and the line. *)

\* The unit executes a request and answers, well or badly; a reply beyond the
\* bound on the line is lost, as any may be (LoseReply).
UnitAnswers(good) ==
    /\ requests # << >>
    /\ requests' = Tail(requests)
    /\ LET r == Head(requests)
           v == IF r \in Poll THEN version[r] ELSE 0
           frame == IF good THEN [to |-> r, version |-> v] ELSE Garbage
       IN  replies' = IF Len(replies) < MaxWire THEN Append(replies, frame) ELSE replies
    /\ UNCHANGED <<pc, cur, rx, undone, replySem, online, mirror, halfway, quietDue,
                   version>>

LoseRequest ==
    /\ requests # << >>
    /\ requests' = Tail(requests)
    /\ UNCHANGED <<pc, cur, rx, undone, replySem, online, mirror, replies, halfway,
                   quietDue, version>>

LoseReply ==
    /\ replies # << >>
    /\ replies' = Tail(replies)
    /\ halfway' = FALSE
    /\ UNCHANGED <<pc, cur, rx, undone, replySem, online, mirror, requests, quietDue,
                   version>>

UnitChanges(p) ==
    /\ version[p] < MaxVersion
    /\ version' = [version EXCEPT ![p] = @ + 1]
    /\ UNCHANGED <<pc, cur, rx, undone, replySem, online, mirror, lineVars>>

-----------------------------------------------------------------------------
Master == (\E r \in Request : Begin(r)) \/ TakeReply \/ Timeout \/ Validate \/ Decode
Interrupt == ReceiveBytes \/ ReceiveComplete \/ (\E r \in Request : BeginUndone(r))
Unit == (\E good \in BOOLEAN : UnitAnswers(good)) \/ (\E p \in Poll : UnitChanges(p))
Line == LoseRequest \/ LoseReply

Next == Master \/ Interrupt \/ Unit \/ Line

Spec == Init /\ [][Next]_vars

(***************************************************************************)
(* Fairness: the read task polls forever and each wait ends, by a token or *)
(* by the timeout; what is on the line arrives or is lost.  Nothing makes  *)
(* the unit answer.                                                        *)
(***************************************************************************)
Fairness == WF_vars(Master) /\ WF_vars(Interrupt)

FairSpec == Spec /\ Fairness

-----------------------------------------------------------------------------
(* Every variable keeps its type; only the reply to a poll is decoded.      *)
TypeOK ==
    /\ pc \in {"idle", "waiting", "received", "decode"}
    /\ cur \in Request
    /\ rx \in Seq(Piece) /\ undone \in 0 .. MaxUndone
    /\ replySem \in BOOLEAN /\ online \in BOOLEAN
    /\ mirror \in [Poll -> Nat]
    /\ requests \in Seq(Request) /\ replies \in Seq(Frame)
    /\ halfway \in BOOLEAN /\ quietDue \in BOOLEAN
    /\ halfway => replies # << >>
    /\ pc = "decode" => cur \in Poll
    /\ version \in [Poll -> 0 .. MaxVersion]

(* What has been validated is still what is decoded: the interrupt goes on  *)
(* appending late replies to the buffer between the two, behind the frame.  *)
(* It is a reply to this very poll, not only one of the same function code. *)
ValidatedStays ==
    pc = "decode" => /\ Len(rx) >= 2
                     /\ rx[1].of = rx[2].of
                     /\ rx[1].of # Garbage /\ rx[1].of.to = cur

(* The receive buffer is bounded although the interrupt checks no bound:    *)
(* between two transactions it holds no more frames than can be on the line *)
(* since it was last emptied, and one more for each time that it should     *)
(* have been and was not (csro_airsys.c:58 and 75 against 23 and 27).       *)
RxBounded ==
    Len(rx) + 2 * Len(replies) + 2 * Len(requests) <= 4 * MaxWire + 1 + 2 * undone

(* A unit that stops answering for good is reported offline for good: late  *)
(* replies and left-over tokens cannot keep the status up.                  *)
OfflineDetected ==
    <>[][\A good \in BOOLEAN : ~UnitAnswers(good)]_vars => <>[](~online)

\* The mirror is a polled mirror: no data of another poll, none older than what
\* it already holds.
Polled == INSTANCE PolledMirror WITH version <- version, mirror <- mirror
PolledMirrorSpec == Polled!Spec
=============================================================================
