-------------------------- MODULE MasterLinkProofs --------------------------
(***************************************************************************)
(* Proofs about MasterLink for any polls whose replies can be told apart,  *)
(* any writes and any bounds on the line; and about Crc16, the check at    *)
(* the end of its frames, for any bytes: that a damaged byte shows and     *)
(* that the tables compute the remainder of the division by the            *)
(* polynomial.                                                             *)
(***************************************************************************)
EXTENDS MasterLink, Crc16, Integers, SequenceTheorems, TLAPS

-----------------------------------------------------------------------------
(* Requests and frames. *)

\* A good frame answers a request; a damaged one answers none.
LEMMA GoodFrame ==
    ASSUME NEW f \in Frame, f # Garbage
    PROVE  f.to \in Request /\ f.version \in Nat
BY DEF Frame

\* A frame accepted as the answer to a poll is the answer to this very poll: its
\* function code is not one of a write, and no other poll has its byte count.
LEMMA AnswerIdentifies ==
    ASSUME NEW f \in Frame, f # Garbage, NEW p \in Poll, Answers(f, p)
    PROVE  f.to = p
<1>1. f.to \in Request
  BY GoodFrame
<1>2. f.to \notin Write
  BY PollAssumption DEF Answers
<1>3. f.to \in Poll
  BY <1>1, <1>2 DEF Request
<1> QED
  BY <1>3, PollAssumption DEF Answers, DistinctReplies

\* What the unit puts on the line is a frame.
LEMMA FrameOfUnit ==
    ASSUME NEW r \in Request, NEW v \in Nat
    PROVE  [to |-> r, version |-> v] \in Frame /\ Garbage \in Frame
BY DEF Frame

\* What the interrupt appends is a piece of a frame.
LEMMA PieceOfFrame ==
    ASSUME NEW f \in Frame, NEW h \in {1, 2}
    PROVE  [of |-> f, half |-> h] \in Piece
BY DEF Piece

-----------------------------------------------------------------------------
(* Types and validation.  TypeOK alone is not inductive: that a version is  *)
(* stored by Decode rests on what was validated being still there.          *)
LinkOK == TypeOK /\ ValidatedStays

\* The link invariant at the start.
LEMMA LinkInit == Init => LinkOK
<1> SUFFICES ASSUME Init PROVE LinkOK
  OBVIOUS
<1>1. rx \in Seq(Piece) /\ requests \in Seq(Request) /\ replies \in Seq(Frame)
  BY DEF Init
<1>2. /\ version \in [Poll -> 0 .. MaxVersion] /\ mirror \in [Poll -> Nat]
      /\ undone \in 0 .. MaxUndone
  BY BoundAssumption DEF Init
<1> QED
  BY <1>1, <1>2 DEF Init, LinkOK, TypeOK, ValidatedStays, Request

\* Lengths are natural numbers, and a step changes them as it changes the line.
LEMMA Lengths ==
    ASSUME TypeOK
    PROVE  /\ Len(rx) \in Nat /\ Len(requests) \in Nat /\ Len(replies) \in Nat
           /\ requests # << >> => Len(requests) > 0 /\ Len(Tail(requests)) = Len(requests) - 1
           /\ replies # << >> => Len(replies) > 0 /\ Len(Tail(replies)) = Len(replies) - 1
BY HeadTailProperties, EmptySeq, LenProperties DEF TypeOK

\* A request sent is one more on its line, or as many as before, or one less.
LEMMA SendKept ==
    ASSUME TypeOK, NEW r \in Request, Send(r)
    PROVE  /\ requests' \in Seq(Request) /\ Len(requests') \in Nat
           /\ \/ Len(requests') <= Len(requests)
              \/ Len(requests) < MaxWire /\ Len(requests') = Len(requests) + 1
           /\ pc' = "waiting" /\ cur' = r
           /\ UNCHANGED <<replySem, online, mirror, version>>
<1>1. CASE requests' = Append(requests, r) /\ Len(requests) < MaxWire
  <2>1. Append(requests, r) \in Seq(Request)
        /\ Len(Append(requests, r)) = Len(requests) + 1
    BY AppendProperties DEF TypeOK
  <2> QED BY <1>1, <2>1, Lengths DEF Send
<1>2. CASE requests # << >> /\ requests' = SubSeq(requests, 1, Len(requests) - 1)
  <2>1. \A i \in 1 .. Len(requests) - 1 : requests[i] \in Request
    BY ElementOfSeq, Lengths DEF TypeOK
  <2>2. /\ requests' \in Seq(Request)
        /\ Len(requests') = IF 1 <= Len(requests) - 1 THEN Len(requests) - 1 ELSE 0
    BY <1>2, <2>1, Lengths, SubSeqProperties
  <2>3. Len(requests') \in Nat /\ Len(requests') <= Len(requests)
    BY <1>2, <2>2, Lengths
  <2> QED BY <2>2, <2>3 DEF Send
<1>3. CASE UNCHANGED requests
  BY <1>3, Lengths DEF Send, TypeOK
<1> QED
  BY <1>1, <1>2, <1>3 DEF Send

\* What arrives goes behind what the buffer holds.
LEMMA ArrivalKept ==
    ASSUME TypeOK, Arrival
    PROVE  /\ rx' \in Seq(Piece) /\ Len(rx') = Len(rx) + 1
           /\ \A i \in 1 .. Len(rx) : rx'[i] = rx[i]
           /\ replies' \in Seq(Frame)
           /\ IF halfway THEN ~halfway' /\ Len(replies') = Len(replies) - 1
                         ELSE halfway' /\ replies' = replies /\ replies' # << >>
           /\ halfway' \in BOOLEAN /\ quietDue' \in BOOLEAN
<1> DEFINE piece == [of |-> Head(replies), half |-> IF halfway THEN 2 ELSE 1]
<1>1. Head(replies) \in Frame /\ Tail(replies) \in Seq(Frame)
  BY HeadTailProperties DEF Arrival, TypeOK
<1>2. piece \in Piece
  BY <1>1 DEF Piece
<1>3. rx' = Append(rx, piece)
  BY DEF Arrival
<1> HIDE DEF piece
<1>4. /\ rx' \in Seq(Piece) /\ Len(rx') = Len(rx) + 1
      /\ \A i \in 1 .. Len(rx) : rx'[i] = rx[i]
  BY <1>2, <1>3, AppendProperties DEF TypeOK
<1>5. Len(Tail(replies)) = Len(replies) - 1
  BY Lengths DEF Arrival
<1> QED
  BY <1>1, <1>4, <1>5 DEF Arrival, TypeOK

\* A transaction of the master.
LEMMA LinkMaster ==
    ASSUME LinkOK, Master
    PROVE  LinkOK'
<1> USE DEF LinkOK, TypeOK, ValidatedStays
<1>1. ASSUME NEW r \in Request, Begin(r)
      PROVE  LinkOK'
  <2>1. requests' \in Seq(Request) /\ pc' = "waiting" /\ cur' = r
        /\ UNCHANGED <<replySem, online, mirror, version>>
    BY <1>1, SendKept DEF Begin
  <2>2. rx' \in Seq(Piece) /\ undone' \in 0 .. MaxUndone
    BY <1>1, BoundAssumption DEF Begin, Emptied
  <2> QED
    BY <1>1, <2>1, <2>2 DEF Begin
<1>2. CASE TakeReply
  BY <1>2 DEF TakeReply, lineVars
<1>3. CASE Timeout
  BY <1>3 DEF Timeout, lineVars
<1>4. CASE Validate
  <2>1. CASE pc' = "idle"
    BY <1>4, <2>1 DEF Validate, lineVars
  <2>2. CASE cur \in Poll /\ Whole(rx) /\ Answers(rx[1].of, cur)
    <3>1. rx[1] \in Piece
      <4>1. 1 \in 1 .. Len(rx)
        BY <2>2 DEF Whole
      <4> QED
        BY <4>1, ElementOfSeq
    <3>2. rx[1].of \in Frame
      BY <3>1 DEF Piece
    <3>3. rx[1].of.to = cur
      BY <2>2, <3>2, AnswerIdentifies DEF Whole
    <3> QED
      BY <1>4, <2>2, <3>3 DEF Validate, lineVars, Whole
  <2> QED
    BY <1>4, <2>1, <2>2 DEF Validate
<1>5. CASE Decode
  <2>1. rx[1] \in Piece
    BY <1>5, ElementOfSeq, LenProperties DEF Decode
  <2>2. rx[1].of.version \in Nat
    BY <1>5, <2>1, GoodFrame DEF Decode, Piece
  <2> QED
    BY <1>5, <2>2 DEF Decode, lineVars
<1> QED
  BY <1>1, <1>2, <1>3, <1>4, <1>5 DEF Master

\* The interrupt only appends, behind what was validated.
LEMMA LinkInterrupt ==
    ASSUME LinkOK, Interrupt
    PROVE  LinkOK'
<1> USE DEF LinkOK, TypeOK, ValidatedStays
<1>1. CASE ReceiveBytes
  <2>1. /\ rx' \in Seq(Piece) /\ Len(rx') = Len(rx) + 1
        /\ \A i \in 1 .. Len(rx) : rx'[i] = rx[i]
        /\ replies' \in Seq(Frame) /\ (halfway' => replies' # << >>)
        /\ halfway' \in BOOLEAN /\ quietDue' \in BOOLEAN
    BY <1>1, ArrivalKept DEF ReceiveBytes
  <2>2. UNCHANGED <<pc, cur, undone, replySem, online, mirror, requests, version>>
    BY <1>1 DEF ReceiveBytes
  <2>3. ASSUME pc = "decode"
        PROVE  rx'[1] = rx[1] /\ rx'[2] = rx[2] /\ Len(rx') >= 2
    <3>1. Len(rx) \in Nat /\ Len(rx) >= 2
      BY <2>3, LenProperties
    <3>2. Len(rx') >= 2 /\ 1 \in 1 .. Len(rx) /\ 2 \in 1 .. Len(rx)
      <4> HIDE DEF LinkOK, TypeOK, ValidatedStays
      <4> QED
        BY <2>1, <3>1
    <3> QED
      BY <2>1, <3>2
  <2> QED
    BY <2>1, <2>2, <2>3
<1>2. ASSUME NEW r \in Request, BeginUndone(r)
      PROVE  LinkOK'
  <2>1. /\ rx' \in Seq(Piece) /\ replies' \in Seq(Frame)
        /\ halfway' => replies' # << >>
        /\ halfway' \in BOOLEAN /\ quietDue' \in BOOLEAN
    BY <1>2, ArrivalKept DEF BeginUndone
  <2>2. /\ requests' \in Seq(Request) /\ pc' = "waiting" /\ cur' = r
        /\ UNCHANGED <<replySem, online, mirror, version>>
    BY <1>2, SendKept DEF BeginUndone
  <2>3. undone' \in 0 .. MaxUndone
    BY <1>2, BoundAssumption DEF BeginUndone
  <2> QED
    BY <2>1, <2>2, <2>3
<1>3. CASE ReceiveComplete
  BY <1>3 DEF ReceiveComplete
<1> QED
  BY <1>1, <1>2, <1>3 DEF Interrupt

\* The unit and the line touch neither the buffer nor the transaction.
LEMMA LinkUnit ==
    ASSUME LinkOK, Unit \/ Line
    PROVE  LinkOK'
<1> USE DEF LinkOK, TypeOK, ValidatedStays
<1>1. ASSUME NEW good \in BOOLEAN, UnitAnswers(good)
      PROVE  LinkOK'
  <2> DEFINE r == Head(requests)
             v == IF r \in Poll THEN version[r] ELSE 0
             frame == IF good THEN [to |-> r, version |-> v] ELSE Garbage
  <2>1. r \in Request /\ Tail(requests) \in Seq(Request)
    BY <1>1, HeadTailProperties DEF UnitAnswers
  <2>2. v \in Nat
    BY BoundAssumption
  <2>3. frame \in Frame
    <3> HIDE DEF r, v
    <3> QED BY <2>1, <2>2, FrameOfUnit DEF frame
  <2> HIDE DEF frame
  <2>4. replies' \in Seq(Frame) /\ (halfway => replies' # << >>)
    <3>1. Append(replies, frame) \in Seq(Frame) /\ Append(replies, frame) # << >>
      BY <2>3, AppendProperties
    <3>2. replies' = Append(replies, frame) \/ replies' = replies
      BY <1>1 DEF UnitAnswers, frame
    <3> QED
      BY <3>1, <3>2
  <2> QED
    BY <1>1, <2>1, <2>4 DEF UnitAnswers
<1>2. ASSUME NEW p \in Poll, UnitChanges(p)
      PROVE  LinkOK'
  BY <1>2, BoundAssumption DEF UnitChanges, lineVars
<1>3. CASE LoseRequest
  <2>1. Tail(requests) \in Seq(Request)
    BY <1>3, HeadTailProperties DEF LoseRequest
  <2> QED
    BY <1>3, <2>1 DEF LoseRequest
<1>4. CASE LoseReply
  <2>1. Tail(replies) \in Seq(Frame)
    BY <1>4, HeadTailProperties DEF LoseReply
  <2> QED
    BY <1>4, <2>1 DEF LoseReply
<1> QED
  BY <1>1, <1>2, <1>3, <1>4 DEF Unit, Line

\* The link invariant, always.
LEMMA LinkAlways == Spec => []LinkOK
<1>1. LinkOK /\ [Next]_vars => LinkOK'
  <2>1. LinkOK /\ UNCHANGED vars => LinkOK'
    BY DEF vars, lineVars, LinkOK, TypeOK, ValidatedStays
  <2> QED
    BY <2>1, LinkMaster, LinkInterrupt, LinkUnit DEF Next
<1> QED
  BY <1>1, LinkInit, PTL DEF Spec

(* Every variable keeps its type, for any polls, writes and bounds.         *)
THEOREM TypeCorrect == Spec => []TypeOK
<1>1. LinkOK => TypeOK
  BY DEF LinkOK
<1> QED
  BY <1>1, LinkAlways, PTL

(* What is decoded is what was validated, and the reply to this very poll,  *)
(* whatever the interrupt has appended since (mb_master.c, the tests of     *)
(* each reply; csro_airsys.c:31).                                           *)
THEOREM DecodesWhatWasValidated == Spec => []ValidatedStays
<1>1. LinkOK => ValidatedStays
  BY DEF LinkOK
<1> QED
  BY <1>1, LinkAlways, PTL

-----------------------------------------------------------------------------
(* The bound of the receive buffer: what can still reach it is bounded by   *)
(* what fits on the line, a frame half received counts once, and the        *)
(* request of a transaction that did not empty the buffer comes on top.     *)
Room ==
    /\ Len(requests) <= MaxWire /\ Len(replies) <= MaxWire
    /\ Len(rx) + 2 * Len(replies) + 2 * Len(requests)
         <= 4 * MaxWire + (IF halfway THEN 1 ELSE 0) + 2 * undone

\* No step leaves the buffer without room.
LEMMA RoomStep ==
    ASSUME TypeOK, Room, [Next]_vars
    PROVE  Room'
<1> USE BoundAssumption, Lengths DEF Room
<1>0. undone \in Nat
  BY DEF TypeOK
<1> USE <1>0
<1>1. ASSUME NEW r \in Request, Begin(r)
      PROVE  Room'
  <2>1. Len(rx') = 0 /\ undone' = 0 /\ UNCHANGED <<replies, halfway>>
    BY <1>1 DEF Begin, Emptied
  <2>2. Len(requests') <= MaxWire /\ Len(requests') \in Nat
    BY <1>1, SendKept DEF Begin
  <2> QED
    BY <2>1, <2>2 DEF TypeOK
<1>2. CASE TakeReply \/ Timeout \/ Validate \/ Decode \/ ReceiveComplete
  BY <1>2 DEF TakeReply, Timeout, Validate, Decode, ReceiveComplete, lineVars
<1>3. CASE ReceiveBytes
  <2>1. /\ Len(rx') = Len(rx) + 1
        /\ IF halfway THEN ~halfway' /\ Len(replies') = Len(replies) - 1
                      ELSE halfway' /\ replies' = replies
    BY <1>3, ArrivalKept DEF ReceiveBytes
  <2>2. UNCHANGED <<requests, undone>>
    BY <1>3 DEF ReceiveBytes
  <2> QED
    BY <2>1, <2>2 DEF TypeOK
<1>9. ASSUME NEW r \in Request, BeginUndone(r)
      PROVE  Room'
  <2>1. /\ Len(rx') = Len(rx) + 1
        /\ IF halfway THEN ~halfway' /\ Len(replies') = Len(replies) - 1
                      ELSE halfway' /\ replies' = replies
    BY <1>9, ArrivalKept DEF BeginUndone
  <2>2. /\ Len(requests') \in Nat /\ Len(requests') <= MaxWire
        /\ Len(requests') <= Len(requests) + 1
    BY <1>9, SendKept DEF BeginUndone
  <2>3. undone' = undone + 1 /\ undone \in Nat
    BY <1>9 DEF BeginUndone, TypeOK
  <2> QED
    BY <2>1, <2>2, <2>3
<1>4. ASSUME NEW good \in BOOLEAN, UnitAnswers(good)
      PROVE  Room'
  <2>1. /\ Len(requests') = Len(requests) - 1 /\ Len(requests) > 0
        /\ UNCHANGED <<rx, undone, halfway>>
    BY <1>4 DEF UnitAnswers
  <2>2. \/ replies' = replies
        \/ Len(replies) < MaxWire /\ Len(replies') = Len(replies) + 1
    BY <1>4 DEF UnitAnswers, TypeOK
  <2> QED
    BY <2>1, <2>2
<1>5. CASE LoseRequest
  BY <1>5 DEF LoseRequest
<1>6. CASE LoseReply
  BY <1>6 DEF LoseReply
<1>7. ASSUME NEW p \in Poll, UnitChanges(p)
      PROVE  Room'
  BY <1>7 DEF UnitChanges, lineVars
<1>8. CASE UNCHANGED vars
  BY <1>8 DEF vars, lineVars
<1> QED
  BY <1>1, <1>2, <1>3, <1>4, <1>5, <1>6, <1>7, <1>8, <1>9
  DEF Next, Master, Interrupt, Unit, Line

(* rx_buf is bounded although the interrupt checks no bound                 *)
(* (csro_airsys.c:23 and 27, rx_buf[rx_len++]): whatever the unit, the line *)
(* and the tasks do, it holds no more than the line can, and one more frame *)
(* for each emptying in a row that the interrupt has undone (lines 58, 75). *)
THEOREM BufferBounded == Spec => []RxBounded
<1>1. Init => Room
  BY BoundAssumption DEF Init, Room
<1>2. TypeOK /\ Room => RxBounded
  <2>1. TypeOK => undone \in Nat
    BY DEF TypeOK
  <2> QED BY <2>1, Lengths, BoundAssumption DEF Room, RxBounded
<1> QED
  BY <1>1, <1>2, RoomStep, TypeCorrect, PTL DEF Spec

-----------------------------------------------------------------------------
(* The refinement of PolledMirror.  Replies pass the line and the buffer in *)
(* the order in which the unit gave them, so that what is still to come is  *)
(* at least as recent as what has come, and as the mirror.                  *)

\* The contents a frame carries are not older than the mirror of their block.
Current(f) == f.to \in Poll => mirror[f.to] <= f.version /\ f.version <= version[f.to]

\* The second frame does not bring older contents of the same block.
NotOlder(f, g) == f.to \in Poll /\ g.to = f.to => f.version <= g.version

InOrder ==
    /\ \A p \in Poll : mirror[p] <= version[p]
    /\ \A i \in 1 .. Len(rx) : Current(rx[i].of)
    /\ \A i \in 1 .. Len(replies) : Current(replies[i])
    /\ \A i, j \in 1 .. Len(rx) : i < j => NotOlder(rx[i].of, rx[j].of)
    /\ \A i, j \in 1 .. Len(replies) : i < j => NotOlder(replies[i], replies[j])
    /\ \A i \in 1 .. Len(rx), j \in 1 .. Len(replies) : NotOlder(rx[i].of, replies[j])

\* A frame that is to a poll has a version.
LEMMA FrameOfPoll ==
    ASSUME NEW f \in Frame, f.to \in Poll
    PROVE  f.version \in Nat
<1>1. f # Garbage
  BY PollAssumption DEF Garbage
<1> QED
  BY <1>1, GoodFrame

\* The frames in the buffer and on the line are frames, and versions are numbers.
LEMMA PipelineTypes ==
    ASSUME TypeOK
    PROVE  /\ Len(rx) \in Nat /\ Len(replies) \in Nat
           /\ \A i \in 1 .. Len(rx) : rx[i].of \in Frame
           /\ \A i \in 1 .. Len(replies) : replies[i] \in Frame
           /\ \A p \in Poll : mirror[p] \in Nat /\ version[p] \in Nat
<1>1. \A i \in 1 .. Len(rx) : rx[i].of \in Frame
  <2>1. \A i \in 1 .. Len(rx) : rx[i] \in Piece
    BY ElementOfSeq DEF TypeOK
  <2> QED
    BY <2>1 DEF Piece
<1>2. \A i \in 1 .. Len(replies) : replies[i] \in Frame
  BY ElementOfSeq DEF TypeOK
<1> QED
  BY <1>1, <1>2, LenProperties, BoundAssumption DEF TypeOK

\* Nothing is out of order at the start.
LEMMA InOrderInit == Init => InOrder
BY DEF Init, InOrder

\* Steps that leave the pipeline, the mirror and the unit's registers alone.
LEMMA InOrderStutter ==
    ASSUME InOrder, UNCHANGED <<rx, replies, mirror, version>>
    PROVE  InOrder'
BY DEF InOrder, Current, NotOlder

\* The mirror takes over the head of the pipeline.
LEMMA InOrderDecode ==
    ASSUME LinkOK, InOrder, Decode
    PROVE  /\ InOrder'
           /\ cur \in Poll /\ rx[1].of.version \in mirror[cur] .. version[cur]
<1> DEFINE head == rx[1].of
<1>1. /\ cur \in Poll /\ 1 \in 1 .. Len(rx) /\ head.to = cur
      /\ UNCHANGED <<rx, replies, version>>
  BY PipelineTypes DEF LinkOK, TypeOK, ValidatedStays, Decode, lineVars
<1>2. head.version \in Nat
  BY <1>1, PipelineTypes, FrameOfPoll DEF LinkOK
<1>3. mirror[cur] <= head.version /\ head.version <= version[cur]
  BY <1>1 DEF InOrder, Current
<1>4. mirror'[cur] = head.version /\ \A p \in Poll \ {cur} : mirror'[p] = mirror[p]
  BY <1>1 DEF Decode, LinkOK, TypeOK
<1> HIDE DEF head
<1>5. \A i \in 1 .. Len(rx) : Current(rx[i].of)'
  <2> SUFFICES ASSUME NEW i \in 1 .. Len(rx), rx[i].of.to \in Poll
               PROVE  Current(rx[i].of)'
    BY <1>1 DEF Current
  <2>1. Current(rx[i].of)
    BY DEF InOrder
  <2>2. rx[i].of.to = cur => head.version <= rx[i].of.version
    <3>1. CASE i = 1
      BY <1>2, <3>1 DEF head
    <3>2. CASE i > 1
      BY <1>1, <3>2 DEF InOrder, NotOlder, head
    <3> QED
      BY <3>1, <3>2
  <2> QED
    BY <1>1, <1>4, <2>1, <2>2 DEF Current
<1>6. \A i \in 1 .. Len(replies) : Current(replies[i])'
  BY <1>1, <1>4 DEF InOrder, Current, NotOlder, head
<1>7. \A p \in Poll : mirror'[p] <= version[p]
  BY <1>3, <1>4 DEF InOrder
<1> QED
  <2>1. InOrder'
    BY <1>1, <1>5, <1>6, <1>7 DEF InOrder, NotOlder
  <2> QED
    BY <1>1, <1>2, <1>3, <2>1, PipelineTypes DEF head, LinkOK

\* The head of the line goes to the end of the buffer.
LEMMA InOrderReceive ==
    ASSUME TypeOK, InOrder, Arrival, UNCHANGED <<mirror, version>>
    PROVE  InOrder'
<1> DEFINE piece == [of |-> Head(replies), half |-> IF halfway THEN 2 ELSE 1]
<1>1. 1 \in 1 .. Len(replies) /\ Head(replies) = replies[1]
  BY PipelineTypes, EmptySeq DEF Arrival, TypeOK
<1>2. piece \in Piece /\ piece.of = replies[1]
  BY <1>1, PipelineTypes DEF Piece
<1>3. rx' = Append(rx, piece) /\ UNCHANGED <<mirror, version>>
  BY DEF Arrival
<1> HIDE DEF piece
<1>4. /\ Len(rx') = Len(rx) + 1 /\ rx'[Len(rx) + 1].of = replies[1]
      /\ \A i \in 1 .. Len(rx) : rx'[i] = rx[i]
  BY <1>2, <1>3, AppendProperties DEF TypeOK
<1>5. PICK d \in 0 .. 1 : /\ Len(replies') = Len(replies) - d
                          /\ \A j \in 1 .. Len(replies') : replies'[j] = replies[j + d]
  <2>1. CASE halfway
    <3>1. /\ Len(replies') = Len(replies) - 1
          /\ \A j \in 1 .. Len(replies') : replies'[j] = replies[j + 1]
      BY <2>1, HeadTailProperties DEF Arrival, TypeOK
    <3> QED
      BY <3>1
  <2>2. CASE ~halfway
    <3>1. /\ Len(replies') = Len(replies) - 0
          /\ \A j \in 1 .. Len(replies') : replies'[j] = replies[j + 0]
      BY <2>2, PipelineTypes DEF Arrival
    <3> QED
      BY <3>1
  <2> QED
    BY <2>1, <2>2
<1>6. \A i \in 1 .. Len(rx') : Current(rx[i].of)'
  <2> SUFFICES ASSUME NEW i \in 1 .. Len(rx')
               PROVE  Current(rx[i].of)'
    OBVIOUS
  <2>1. CASE i \in 1 .. Len(rx)
    BY <1>3, <1>4, <2>1 DEF InOrder, Current
  <2>2. CASE i = Len(rx) + 1
    BY <1>1, <1>3, <1>4, <2>2 DEF InOrder, Current
  <2> QED
    BY <1>4, <2>1, <2>2, PipelineTypes
<1>7. \A j \in 1 .. Len(replies') : Current(replies[j])'
  <2> SUFFICES ASSUME NEW j \in 1 .. Len(replies')
               PROVE  Current(replies[j])'
    OBVIOUS
  <2>1. j + d \in 1 .. Len(replies) /\ replies'[j] = replies[j + d]
    BY <1>5, PipelineTypes
  <2> QED
    BY <1>3, <2>1 DEF InOrder, Current
<1>8. \A i, j \in 1 .. Len(rx') : i < j => NotOlder(rx'[i].of, rx'[j].of)
  BY <1>1, <1>4, PipelineTypes DEF InOrder
<1>9. \A i, j \in 1 .. Len(replies') : i < j => NotOlder(replies'[i], replies'[j])
  <2> SUFFICES ASSUME NEW i \in 1 .. Len(replies'), NEW j \in 1 .. Len(replies'), i < j
               PROVE  NotOlder(replies'[i], replies'[j])
    OBVIOUS
  <2>1. /\ i + d \in 1 .. Len(replies) /\ replies'[i] = replies[i + d]
        /\ j + d \in 1 .. Len(replies) /\ replies'[j] = replies[j + d]
        /\ i + d < j + d
    BY <1>5, PipelineTypes
  <2> QED
    BY <2>1 DEF InOrder
<1>10. \A i \in 1 .. Len(rx'), j \in 1 .. Len(replies') : NotOlder(rx'[i].of, replies'[j])
  <2> SUFFICES ASSUME NEW i \in 1 .. Len(rx'), NEW j \in 1 .. Len(replies')
               PROVE  NotOlder(rx'[i].of, replies'[j])
    OBVIOUS
  <2>1. j + d \in 1 .. Len(replies) /\ replies'[j] = replies[j + d]
    BY <1>5, PipelineTypes
  <2>2. CASE i \in 1 .. Len(rx)
    BY <1>4, <2>1, <2>2 DEF InOrder
  <2>3. CASE i = Len(rx) + 1 /\ j + d = 1
    BY <1>1, <1>4, <2>1, <2>3, PipelineTypes, FrameOfPoll DEF NotOlder
  <2>4. CASE i = Len(rx) + 1 /\ j + d > 1
    BY <1>1, <1>4, <2>1, <2>4 DEF InOrder
  <2> QED
    BY <1>4, <2>1, <2>2, <2>3, <2>4, PipelineTypes
<1>11. \A p \in Poll : mirror'[p] <= version'[p]
  BY <1>3 DEF InOrder
<1> QED
  BY <1>6, <1>7, <1>8, <1>9, <1>10, <1>11 DEF InOrder, NotOlder

\* The unit answers with the contents of now, which are at least as recent as all
\* that is under way.
LEMMA InOrderAnswer ==
    ASSUME TypeOK, InOrder, NEW good \in BOOLEAN, UnitAnswers(good)
    PROVE  InOrder'
<1> DEFINE r == Head(requests)
           v == IF r \in Poll THEN version[r] ELSE 0
           frame == IF good THEN [to |-> r, version |-> v] ELSE Garbage
<1>1. CASE replies' = replies
  BY <1>1, InOrderStutter DEF UnitAnswers
<1>2. CASE replies' = Append(replies, frame)
  <2>1. frame \in Frame
    <3>1. r \in Request
      BY HeadTailProperties DEF UnitAnswers, TypeOK
    <3>2. v \in Nat
      BY PipelineTypes
    <3> HIDE DEF r, v
    <3> QED
      BY <3>1, <3>2, FrameOfUnit DEF frame
  <2>2. frame.to \in Poll => frame.version = version[frame.to]
    BY PollAssumption DEF Garbage
  <2> HIDE DEF frame
  <2>3. /\ Len(replies') = Len(replies) + 1 /\ replies'[Len(replies) + 1] = frame
        /\ \A j \in 1 .. Len(replies) : replies'[j] = replies[j]
        /\ UNCHANGED <<rx, mirror, version>>
    BY <1>2, <2>1, AppendProperties DEF UnitAnswers, TypeOK
  <2>4. \A j \in 1 .. Len(replies') : Current(replies[j])'
    <3> SUFFICES ASSUME NEW j \in 1 .. Len(replies')
                 PROVE  Current(replies[j])'
      OBVIOUS
    <3>1. CASE j \in 1 .. Len(replies)
      BY <2>3, <3>1 DEF InOrder, Current
    <3>2. CASE j = Len(replies) + 1
      BY <2>2, <2>3, <3>2, PipelineTypes DEF InOrder, Current
    <3> QED
      BY <2>3, <3>1, <3>2, PipelineTypes
  <2>5. \A i, j \in 1 .. Len(replies') : i < j => NotOlder(replies'[i], replies'[j])
    <3> SUFFICES ASSUME NEW i \in 1 .. Len(replies'), NEW j \in 1 .. Len(replies'), i < j
                 PROVE  NotOlder(replies'[i], replies'[j])
      OBVIOUS
    <3>1. i \in 1 .. Len(replies) /\ replies'[i] = replies[i]
      BY <2>3, PipelineTypes
    <3>2. CASE j \in 1 .. Len(replies)
      BY <2>3, <3>1, <3>2 DEF InOrder
    <3>3. CASE j = Len(replies) + 1
      BY <2>2, <2>3, <3>1, <3>3 DEF InOrder, Current, NotOlder
    <3> QED
      BY <2>3, <3>2, <3>3, PipelineTypes
  <2>6. \A i \in 1 .. Len(rx'), j \in 1 .. Len(replies') : NotOlder(rx'[i].of, replies'[j])
    BY <2>2, <2>3, PipelineTypes DEF InOrder, Current, NotOlder
  <2> QED
    BY <2>3, <2>4, <2>5, <2>6 DEF InOrder, Current, NotOlder
<1> QED
  BY <1>1, <1>2 DEF UnitAnswers

\* No step puts replies out of order.
LEMMA InOrderStep ==
    ASSUME LinkOK, InOrder, [Next]_vars
    PROVE  InOrder'
<1>1. ASSUME NEW r \in Request, Begin(r)
      PROVE  InOrder'
  <2>1. rx' = << >> /\ UNCHANGED <<replies, mirror, version>>
    BY <1>1 DEF Begin, Send, Emptied
  <2> QED
    BY <2>1 DEF InOrder, Current, NotOlder
<1>2. CASE TakeReply \/ Timeout \/ Validate \/ ReceiveComplete \/ LoseRequest
  BY <1>2, InOrderStutter
  DEF TakeReply, Timeout, Validate, ReceiveComplete, LoseRequest, lineVars
<1>3. CASE LoseReply
  <2>1. /\ Len(replies') = Len(replies) - 1
        /\ \A j \in 1 .. Len(replies') : replies'[j] = replies[j + 1]
        /\ UNCHANGED <<rx, mirror, version>>
    BY <1>3, HeadTailProperties DEF LoseReply, LinkOK, TypeOK
  <2>2. \A j \in 1 .. Len(replies') : j + 1 \in 1 .. Len(replies)
    BY <2>1, PipelineTypes DEF LinkOK
  <2>3. \A i, j \in 1 .. Len(replies') : i < j => NotOlder(replies'[i], replies'[j])
    <3> SUFFICES ASSUME NEW i \in 1 .. Len(replies'), NEW j \in 1 .. Len(replies'), i < j
                 PROVE  NotOlder(replies'[i], replies'[j])
      OBVIOUS
    <3>1. i + 1 < j + 1
      BY <2>1, PipelineTypes DEF LinkOK
    <3> QED
      BY <2>1, <2>2, <3>1 DEF InOrder
  <2> QED
    BY <2>1, <2>2, <2>3, ZenonT(60) DEF InOrder, Current, NotOlder
<1>4. ASSUME NEW p \in Poll, UnitChanges(p)
      PROVE  InOrder'
  <2>1. \A q \in Poll : version[q] <= version'[q] /\ version'[q] \in Nat
    BY <1>4, PipelineTypes DEF UnitChanges, LinkOK, TypeOK
  <2>2. UNCHANGED <<rx, replies, mirror>>
    BY <1>4 DEF UnitChanges, lineVars
  <2>3. ASSUME NEW f \in Frame, Current(f)
        PROVE  Current(f)'
    <3> SUFFICES ASSUME f.to \in Poll
                 PROVE  mirror'[f.to] <= f.version /\ f.version <= version'[f.to]
      BY DEF Current
    <3>1. f.version \in Nat /\ version[f.to] \in Nat
      BY PipelineTypes, FrameOfPoll DEF LinkOK
    <3> QED
      BY <2>1, <2>2, <2>3, <3>1 DEF Current
  <2>4. \A q \in Poll : mirror'[q] <= version'[q]
    BY <2>1, <2>2, PipelineTypes DEF InOrder, LinkOK
  <2>5. /\ \A i \in 1 .. Len(rx) : Current(rx[i].of)'
        /\ \A j \in 1 .. Len(replies) : Current(replies[j])'
    BY <2>2, <2>3, PipelineTypes DEF InOrder, LinkOK, Current
  <2> QED
    BY <2>2, <2>4, <2>5 DEF InOrder, Current, NotOlder
<1>5. CASE UNCHANGED vars
  BY <1>5, InOrderStutter DEF vars, lineVars
<1>6. CASE ReceiveBytes \/ \E r \in Request : BeginUndone(r)
  BY <1>6, InOrderReceive DEF ReceiveBytes, BeginUndone, Send, LinkOK
<1> QED
  BY <1>1, <1>2, <1>3, <1>4, <1>5, <1>6, InOrderDecode, InOrderAnswer
  DEF Next, Master, Interrupt, Unit, Line, LinkOK

(* A line implements a polled mirror (PolledMirror.tla): whatever is lost,  *)
(* late, merged or damaged, a poll stores contents the unit had in its own  *)
(* block, at one moment, and none older than those stored before.           *)
THEOREM ImplementsPolledMirror == Spec => PolledMirrorSpec
<1>1. Init => Polled!Init
  BY DEF Init, Polled!Init
<1>2. LinkOK /\ InOrder /\ [Next]_vars => [Polled!Next]_<<version, mirror>>
  <2> SUFFICES ASSUME LinkOK, InOrder, [Next]_vars
               PROVE  [Polled!Next]_<<version, mirror>>
    OBVIOUS
  <2>1. CASE Decode
    <3>1. cur \in Poll /\ rx[1].of.version \in mirror[cur] .. version[cur]
      BY <2>1, InOrderDecode
    <3>2. Polled!Refresh(cur)
      BY <2>1, <3>1 DEF Decode, Polled!Refresh
    <3> QED
      BY <3>1, <3>2 DEF Polled!Next
  <2>2. ASSUME NEW p \in Poll, UnitChanges(p)
        PROVE  Polled!Change(p)
    BY <2>2 DEF UnitChanges, Polled!Change
  <2>3. CASE UNCHANGED <<version, mirror>>
    BY <2>3
  <2>4. Decode \/ (\E p \in Poll : UnitChanges(p)) \/ UNCHANGED <<version, mirror>>
    BY DEF Next, Master, Interrupt, Unit, Line, Begin, BeginUndone, Send, TakeReply,
           Timeout, Validate, ReceiveBytes, ReceiveComplete, UnitAnswers, LoseRequest, LoseReply, vars
  <2> QED
    BY <2>1, <2>2, <2>3, <2>4 DEF Polled!Next
<1>3. Spec => []InOrder
  BY InOrderInit, InOrderStep, LinkAlways, PTL DEF Spec
<1> QED
  BY <1>1, <1>2, <1>3, LinkAlways, PTL DEF Spec, PolledMirrorSpec, Polled!Spec
-----------------------------------------------------------------------------
(* The check at the end of every frame, Crc16.tla, for buffers of any       *)
(* bytes: the one part of a frame MasterLink leaves out, and why a damaged  *)
(* frame is Garbage there.                                                  *)
Bit == {0, 1}
BitOf(x, j) == (x \div 2 ^ j) % 2

\* The powers of two of the digits of a byte.
LEMMA DigitPowers ==
    /\ 2 ^ 0 = 1 /\ 2 ^ 1 = 2 /\ 2 ^ 2 = 4 /\ 2 ^ 3 = 8
    /\ 2 ^ 4 = 16 /\ 2 ^ 5 = 32 /\ 2 ^ 6 = 64 /\ 2 ^ 7 = 128
OBVIOUS

\* None of them is zero.
LEMMA DigitPower ==
    ASSUME NEW k \in 0 .. 7 PROVE 2 ^ k \in Nat \ {0}
<1> DEFINE P(j) == 2 ^ j
<1>1. /\ P(0) = 1 /\ P(1) = 2 /\ P(2) = 4 /\ P(3) = 8
      /\ P(4) = 16 /\ P(5) = 32 /\ P(6) = 64 /\ P(7) = 128
  BY DigitPowers
<1> HIDE DEF P
<1>2. P(k) \in Nat \ {0}
  BY ONLY <1>1, k \in 0 .. 7
<1> QED
  BY <1>2 DEF P

\* What division and remainder are.
LEMMA Division ==
    ASSUME NEW x \in Nat, NEW d \in Nat \ {0}
    PROVE  /\ x \div d \in Nat /\ x % d \in 0 .. d - 1
           /\ x = d * (x \div d) + (x % d)
OBVIOUS

Octet == 0 .. 255

\* The byte of a row of eight digits.
ByteOf(d) ==
    d[0] + 2 * d[1] + 4 * d[2] + 8 * d[3] + 16 * d[4] + 32 * d[5] + 64 * d[6] + 128 * d[7]

\* Half of a number whose last digit is known.
LEMMA Half ==
    ASSUME NEW n \in Nat, NEW q \in Nat, NEW e \in 0 .. 1, n = 2 * q + e
    PROVE  n \div 2 = q /\ n % 2 = e
OBVIOUS

\* Halving again and again is dividing by the powers of two.
LEMMA Halves ==
    ASSUME NEW b \in Nat
    PROVE  /\ b \div 2 ^ 0 = b
           /\ \A k \in 0 .. 6 : b \div 2 ^ (k + 1) = (b \div 2 ^ k) \div 2
<1>1. b \div 1 = b
  OBVIOUS
<1>2. /\ b \div 4 = (b \div 2) \div 2 /\ b \div 8 = (b \div 4) \div 2
      /\ b \div 16 = (b \div 8) \div 2 /\ b \div 32 = (b \div 16) \div 2
      /\ b \div 64 = (b \div 32) \div 2 /\ b \div 128 = (b \div 64) \div 2
  OBVIOUS
<1> DEFINE q(k) == b \div 2 ^ k
<1>3. /\ q(0) = b /\ q(1) = q(0) \div 2 /\ q(2) = q(1) \div 2 /\ q(3) = q(2) \div 2
      /\ q(4) = q(3) \div 2 /\ q(5) = q(4) \div 2 /\ q(6) = q(5) \div 2
      /\ q(7) = q(6) \div 2
  BY ONLY <1>1, <1>2, DigitPowers
<1> HIDE DEF q
<1>4. \A k \in 0 .. 6 : q(k + 1) = q(k) \div 2
  BY ONLY <1>3
<1> QED
  BY <1>3, <1>4 DEF q

\* Its digits are those.
LEMMA ByteDigits ==
    ASSUME NEW d \in [0 .. 7 -> Bit]
    PROVE  ByteOf(d) \in Octet /\ \A k \in 0 .. 7 : BitOf(ByteOf(d), k) = d[k]
<1> DEFINE b == ByteOf(d)
           q(k) == b \div 2 ^ k
<1>1. /\ d[0] \in 0 .. 1 /\ d[1] \in 0 .. 1 /\ d[2] \in 0 .. 1 /\ d[3] \in 0 .. 1
      /\ d[4] \in 0 .. 1 /\ d[5] \in 0 .. 1 /\ d[6] \in 0 .. 1 /\ d[7] \in 0 .. 1
  BY DEF Bit
<1> DEFINE r6 == d[6] + 2 * d[7]
           r5 == d[5] + 2 * r6
           r4 == d[4] + 2 * r5
           r3 == d[3] + 2 * r4
           r2 == d[2] + 2 * r3
           r1 == d[1] + 2 * r2
<1>2. b = d[0] + 2 * r1
  <2>1. b = d[0] + 2 * d[1] + 4 * d[2] + 8 * d[3] + 16 * d[4] + 32 * d[5] + 64 * d[6] + 128 * d[7]
    BY DEF ByteOf
  <2> HIDE DEF b
  <2> QED BY ONLY <1>1, <2>1
<1>3. r6 \in 0 .. 3 /\ r5 \in 0 .. 7 /\ r4 \in 0 .. 15
  BY ONLY <1>1
<1>4. r3 \in 0 .. 31 /\ r2 \in 0 .. 63 /\ r1 \in 0 .. 127
  <2> HIDE DEF r4
  <2> QED BY ONLY <1>1, <1>3
<1>5. /\ r1 = 2 * r2 + d[1] /\ r2 = 2 * r3 + d[2] /\ r3 = 2 * r4 + d[3]
      /\ r4 = 2 * r5 + d[4] /\ r5 = 2 * r6 + d[5] /\ r6 = 2 * d[7] + d[6]
      /\ b = 2 * r1 + d[0]
  <2> HIDE DEF b
  <2> QED BY ONLY <1>1, <1>2
<1> HIDE DEF b, r1, r2, r3, r4, r5, r6
<1>6. b \in Octet /\ b \in Nat
  BY ONLY <1>1, <1>4, <1>2 DEF Octet
<1>7. /\ r1 \in Nat /\ r2 \in Nat /\ r3 \in Nat /\ r4 \in Nat /\ r5 \in Nat /\ r6 \in Nat
      /\ d[7] \in Nat
  BY ONLY <1>1, <1>3, <1>4
<1>8. /\ q(0) = b /\ q(1) = q(0) \div 2 /\ q(2) = q(1) \div 2 /\ q(3) = q(2) \div 2
      /\ q(4) = q(3) \div 2 /\ q(5) = q(4) \div 2 /\ q(6) = q(5) \div 2
      /\ q(7) = q(6) \div 2
  <2>1. q(0) = b /\ \A k \in 0 .. 6 : q(k + 1) = q(k) \div 2
    BY <1>6, Halves
  <2> HIDE DEF q
  <2> QED BY ONLY <2>1
<1>9. \A k \in 0 .. 7 : BitOf(b, k) = q(k) % 2
  BY DEF BitOf
<1> HIDE DEF q
<1>10. q(1) = r1 /\ q(0) % 2 = d[0]
  <2>1. b \div 2 = r1 /\ b % 2 = d[0]
    <3>1. b \in Nat /\ r1 \in Nat /\ d[0] \in 0 .. 1 /\ b = 2 * r1 + d[0]
      BY ONLY <1>1, <1>5, <1>6, <1>7
    <3> QED BY ONLY <3>1, Half, Zenon
  <2> QED BY ONLY <2>1, <1>8
<1>11. q(2) = r2 /\ q(1) % 2 = d[1]
  <2>1. r1 \div 2 = r2 /\ r1 % 2 = d[1]
    <3>1. r1 \in Nat /\ r2 \in Nat /\ d[1] \in 0 .. 1 /\ r1 = 2 * r2 + d[1]
      BY ONLY <1>1, <1>5, <1>6, <1>7
    <3> QED BY ONLY <3>1, Half, Zenon
  <2> QED BY ONLY <2>1, <1>8, <1>10
<1>12. q(3) = r3 /\ q(2) % 2 = d[2]
  <2>1. r2 \div 2 = r3 /\ r2 % 2 = d[2]
    <3>1. r2 \in Nat /\ r3 \in Nat /\ d[2] \in 0 .. 1 /\ r2 = 2 * r3 + d[2]
      BY ONLY <1>1, <1>5, <1>6, <1>7
    <3> QED BY ONLY <3>1, Half, Zenon
  <2> QED BY ONLY <2>1, <1>8, <1>11
<1>13. q(4) = r4 /\ q(3) % 2 = d[3]
  <2>1. r3 \div 2 = r4 /\ r3 % 2 = d[3]
    <3>1. r3 \in Nat /\ r4 \in Nat /\ d[3] \in 0 .. 1 /\ r3 = 2 * r4 + d[3]
      BY ONLY <1>1, <1>5, <1>6, <1>7
    <3> QED BY ONLY <3>1, Half, Zenon
  <2> QED BY ONLY <2>1, <1>8, <1>12
<1>14. q(5) = r5 /\ q(4) % 2 = d[4]
  <2>1. r4 \div 2 = r5 /\ r4 % 2 = d[4]
    <3>1. r4 \in Nat /\ r5 \in Nat /\ d[4] \in 0 .. 1 /\ r4 = 2 * r5 + d[4]
      BY ONLY <1>1, <1>5, <1>6, <1>7
    <3> QED BY ONLY <3>1, Half, Zenon
  <2> QED BY ONLY <2>1, <1>8, <1>13
<1>15. q(6) = r6 /\ q(5) % 2 = d[5]
  <2>1. r5 \div 2 = r6 /\ r5 % 2 = d[5]
    <3>1. r5 \in Nat /\ r6 \in Nat /\ d[5] \in 0 .. 1 /\ r5 = 2 * r6 + d[5]
      BY ONLY <1>1, <1>5, <1>6, <1>7
    <3> QED BY ONLY <3>1, Half, Zenon
  <2> QED BY ONLY <2>1, <1>8, <1>14
<1>16. q(7) = d[7] /\ q(6) % 2 = d[6]
  <2>1. r6 \div 2 = d[7] /\ r6 % 2 = d[6]
    <3>1. r6 \in Nat /\ d[7] \in Nat /\ d[6] \in 0 .. 1 /\ r6 = 2 * d[7] + d[6]
      BY ONLY <1>1, <1>5, <1>6, <1>7
    <3> QED BY ONLY <3>1, Half, Zenon
  <2> QED BY ONLY <2>1, <1>8, <1>15
<1>17. q(7) % 2 = d[7]
  BY <1>1, <1>16
<1>18. \A k \in 0 .. 7 : BitOf(b, k) = d[k]
  BY <1>9, <1>10, <1>11, <1>12, <1>13, <1>14, <1>15, <1>16, <1>17
<1> QED
  BY <1>6, <1>18 DEF b

\* A byte is that of its digits.
LEMMA DigitsByte ==
    ASSUME NEW b \in Octet
    PROVE  b = ByteOf([k \in 0 .. 7 |-> BitOf(b, k)])
<1>1. b \in Nat /\ b < 256
  BY DEF Octet
<1> DEFINE q(k) == b \div 2 ^ k
           d == [k \in 0 .. 7 |-> BitOf(b, k)]
<1>2. /\ q(0) = b /\ q(1) = q(0) \div 2 /\ q(2) = q(1) \div 2 /\ q(3) = q(2) \div 2
      /\ q(4) = q(3) \div 2 /\ q(5) = q(4) \div 2 /\ q(6) = q(5) \div 2
      /\ q(7) = q(6) \div 2
  <2>1. q(0) = b /\ \A k \in 0 .. 6 : q(k + 1) = q(k) \div 2
    BY <1>1, Halves
  <2> HIDE DEF q
  <2> QED BY ONLY <2>1
<1>3. \A k \in 0 .. 7 : d[k] = q(k) % 2
  BY DEF BitOf
<1> HIDE DEF q, d
<1>4. ASSUME NEW n \in Nat
      PROVE  n \div 2 \in Nat /\ n % 2 \in 0 .. 1 /\ n = 2 * (n \div 2) + (n % 2)
  BY ONLY n \in Nat
<1>5. ASSUME NEW k \in 0 .. 6, q(k) \in Nat, q(k + 1) = q(k) \div 2
      PROVE  q(k + 1) \in Nat /\ d[k] \in 0 .. 1 /\ q(k) = 2 * q(k + 1) + d[k]
  BY <1>3, <1>4, <1>5
<1>6. q(1) \in Nat /\ d[0] \in 0 .. 1 /\ b = 2 * q(1) + d[0]
  BY <1>1, <1>2, <1>5
<1>7. q(2) \in Nat /\ d[1] \in 0 .. 1 /\ q(1) = 2 * q(2) + d[1]
  BY <1>2, <1>5, <1>6
<1>8. q(3) \in Nat /\ d[2] \in 0 .. 1 /\ q(2) = 2 * q(3) + d[2]
  BY <1>2, <1>5, <1>7
<1>9. q(4) \in Nat /\ d[3] \in 0 .. 1 /\ q(3) = 2 * q(4) + d[3]
  BY <1>2, <1>5, <1>8
<1>10. q(5) \in Nat /\ d[4] \in 0 .. 1 /\ q(4) = 2 * q(5) + d[4]
  BY <1>2, <1>5, <1>9
<1>11. q(6) \in Nat /\ d[5] \in 0 .. 1 /\ q(5) = 2 * q(6) + d[5]
  BY <1>2, <1>5, <1>10
<1>12. q(7) \in Nat /\ d[6] \in 0 .. 1 /\ q(6) = 2 * q(7) + d[6]
  BY <1>2, <1>5, <1>11
<1>13. b = d[0] + 2 * d[1] + 4 * d[2] + 8 * q(3)
  BY ONLY <1>6, <1>7, <1>8
<1>14. q(3) = d[3] + 2 * d[4] + 4 * d[5] + 8 * q(6)
  BY ONLY <1>8, <1>9, <1>10, <1>11
<1>15. b = d[0] + 2 * d[1] + 4 * d[2] + 8 * d[3] + 16 * d[4] + 32 * d[5] + 64 * q(6)
  <2>1. /\ d[0] \in Int /\ d[1] \in Int /\ d[2] \in Int /\ d[3] \in Int
        /\ d[4] \in Int /\ d[5] \in Int /\ q(3) \in Int /\ q(6) \in Int
    BY ONLY <1>6, <1>7, <1>8, <1>9, <1>10, <1>11
  <2>2. 8 * q(3) = 8 * d[3] + 16 * d[4] + 32 * d[5] + 64 * q(6)
    BY ONLY <2>1, <1>14
  <2> QED BY ONLY <2>1, <2>2, <1>13
<1>16. b = d[0] + 2 * d[1] + 4 * d[2] + 8 * d[3] + 16 * d[4] + 32 * d[5] + 64 * d[6] + 128 * q(7)
  <2>1. 64 * q(6) = 64 * d[6] + 128 * q(7) /\ d[6] \in Int /\ q(6) \in Int /\ q(7) \in Int
    BY ONLY <1>11, <1>12
  <2>2. /\ d[0] \in Int /\ d[1] \in Int /\ d[2] \in Int /\ d[3] \in Int
        /\ d[4] \in Int /\ d[5] \in Int
    BY ONLY <1>6, <1>7, <1>8, <1>9, <1>10, <1>11
  <2> QED BY ONLY <2>1, <2>2, <1>15
<1>17. q(7) = d[7]
  <2>1. q(7) \in 0 .. 1
    BY ONLY <1>1, <1>6, <1>7, <1>8, <1>9, <1>10, <1>11, <1>12, <1>16
  <2> QED BY ONLY <2>1, <1>3
<1> QED
  BY <1>16, <1>17 DEF ByteOf, d

\* The digits of the exclusive or of two bytes.
XorDigits(x, y) == [k \in 0 .. 7 |-> (x \div 2 ^ k + y \div 2 ^ k) % 2]

\* They are the digits of what the model computes.
LEMMA XorIs ==
    ASSUME NEW x \in Octet, NEW y \in Octet
    PROVE  XorDigits(x, y) \in [0 .. 7 -> Bit] /\ Xor[x][y] = ByteOf(XorDigits(x, y))
<1> DEFINE D(k) == 2 ^ k * ((x \div 2 ^ k + y \div 2 ^ k) % 2)
           d == XorDigits(x, y)
<1>1. Xor[x][y] = D(0) + D(1) + D(2) + D(3) + D(4) + D(5) + D(6) + D(7)
  BY Zenon DEF Xor, Octet
<1>2. ASSUME NEW k \in 0 .. 7 PROVE D(k) = 2 ^ k * d[k] /\ d[k] \in Bit
  <2>1. 2 ^ k \in Nat \ {0}
    BY <1>2, DigitPower
  <2>2. x \in Nat /\ y \in Nat
    BY DEF Octet
  <2>3. x \div 2 ^ k \in Nat /\ y \div 2 ^ k \in Nat
    BY <2>1, <2>2, Division
  <2>4. d[k] = (x \div 2 ^ k + y \div 2 ^ k) % 2
    BY DEF XorDigits
  <2> QED BY <2>3, <2>4 DEF Bit
<1>3. d \in [0 .. 7 -> Bit]
  <2>1. d = [k \in 0 .. 7 |-> d[k]]
    BY DEF XorDigits
  <2> HIDE DEF d
  <2> QED BY <1>2, <2>1
<1> HIDE DEF D, d
<1>4. /\ d[0] \in 0 .. 1 /\ d[1] \in 0 .. 1 /\ d[2] \in 0 .. 1 /\ d[3] \in 0 .. 1
      /\ d[4] \in 0 .. 1 /\ d[5] \in 0 .. 1 /\ d[6] \in 0 .. 1 /\ d[7] \in 0 .. 1
  BY <1>2 DEF Bit
<1>5. /\ D(0) = 1 * d[0] /\ D(1) = 2 * d[1] /\ D(2) = 4 * d[2] /\ D(3) = 8 * d[3]
      /\ D(4) = 16 * d[4] /\ D(5) = 32 * d[5] /\ D(6) = 64 * d[6] /\ D(7) = 128 * d[7]
  BY <1>2, DigitPowers
<1>6. Xor[x][y] = ByteOf(d)
  BY ONLY <1>1, <1>4, <1>5 DEF ByteOf
<1> QED
  BY <1>3, <1>6 DEF d

\* The exclusive or of two bytes is one, and with the first it is the second again.
LEMMA XorBack ==
    ASSUME NEW x \in Octet, NEW y \in Octet
    PROVE  /\ Xor[x][y] \in Octet
           /\ Xor[x][Xor[x][y]] = y
           /\ Xor[y][x] = Xor[x][y]
<1> DEFINE z == Xor[x][y]
           d == XorDigits(x, y)
<1>1. d \in [0 .. 7 -> Bit] /\ z = ByteOf(d)
  BY XorIs
<1>2. z \in Octet /\ \A k \in 0 .. 7 : BitOf(z, k) = d[k]
  <2> HIDE DEF z, d
  <2> QED BY <1>1, ByteDigits
<1>3. ASSUME NEW k \in 0 .. 7 PROVE (x \div 2 ^ k + z \div 2 ^ k) % 2 = BitOf(y, k)
  <2>1. 2 ^ k \in Nat \ {0}
    BY DigitPower
  <2>2. x \in Nat /\ y \in Nat /\ z \in Nat
    <3> HIDE DEF z
    <3> QED BY <1>2 DEF Octet
  <2>3. x \div 2 ^ k \in Nat /\ y \div 2 ^ k \in Nat /\ z \div 2 ^ k \in Nat
    <3> HIDE DEF z
    <3> QED BY <2>1, <2>2, Division
  <2>4. (z \div 2 ^ k) % 2 = (x \div 2 ^ k + y \div 2 ^ k) % 2
    <3> HIDE DEF z
    <3> QED BY <1>2 DEF BitOf, XorDigits, d
  <2>5. \A u, v, w \in Nat : w % 2 = (u + v) % 2 => (u + w) % 2 = v % 2
    OBVIOUS
  <2> HIDE DEF z
  <2> QED BY <2>3, <2>4, <2>5 DEF BitOf
<1>4. XorDigits(x, z) = [k \in 0 .. 7 |-> BitOf(y, k)]
  BY <1>3 DEF XorDigits
<1>5. Xor[x][z] = y
  <2> HIDE DEF z
  <2> QED BY <1>2, <1>4, XorIs, DigitsByte
<1>6. XorDigits(y, x) = XorDigits(x, y)
  <2>1. ASSUME NEW k \in 0 .. 7
        PROVE  (y \div 2 ^ k + x \div 2 ^ k) % 2 = (x \div 2 ^ k + y \div 2 ^ k) % 2
    <3>1. x \div 2 ^ k \in Nat /\ y \div 2 ^ k \in Nat
      <4>1. 2 ^ k \in Nat \ {0}
        BY DigitPower
      <4>2. x \in Nat /\ y \in Nat
        BY DEF Octet
      <4> QED BY <4>1, <4>2, Division
    <3> QED BY ONLY <3>1
  <2> QED BY <2>1 DEF XorDigits
<1>7. Xor[y][x] = z
  BY <1>6, XorIs
<1> QED
  BY <1>2, <1>5, <1>7

\* The entries of the tables are bytes.
LEMMA TablesAreBytes ==
    \A i \in Octet : TableLo[i + 1] \in Octet /\ TableHi[i + 1] \in Octet
<1>1. \A i \in Octet : TableLo[i + 1] \in Octet
  BY DEF TableLo, Octet
<1>2. \A i \in Octet : TableHi[i + 1] \in Octet
  BY DEF TableHi, Octet
<1> QED
  BY <1>1, <1>2

\* No byte is in table_crc_lo twice.
LEMMA LoDiffers ==
    ASSUME NEW i \in Octet, NEW j \in Octet, TableLo[i + 1] = TableLo[j + 1]
    PROVE  i = j
BY SMTT(90) DEF TableLo, Octet

\* So the index of an entry of it can be looked up.
LEMMA IndexIs ==
    ASSUME NEW i \in Octet PROVE IndexOfLo[TableLo[i + 1]] = i
<1> DEFINE v == TableLo[i + 1]
<1>1. v \in Octet
  BY TablesAreBytes
<1>2. IndexOfLo[v] = CHOOSE j \in Octet : TableLo[j + 1] = v
  <2> HIDE DEF v
  <2> QED BY <1>1, Zenon DEF IndexOfLo, Octet
<1>3. \E j \in Octet : TableLo[j + 1] = v
  OBVIOUS
<1> DEFINE j == CHOOSE j \in Octet : TableLo[j + 1] = v
<1>4. j \in Octet /\ TableLo[j + 1] = v
  <2> HIDE DEF v
  <2> QED BY <1>3
<1>5. j = i
  <2> HIDE DEF j
  <2> QED BY <1>4, LoDiffers
<1> QED
  BY <1>2, <1>5

\* Both halves of the register are bytes.
CrcBytes == crcHi \in Octet /\ crcLo \in Octet

\* The register after a byte, and the place in the tables that was used.
HiAfter(hi, lo, byte) == After(hi, lo, byte)[1]
LoAfter(hi, lo, byte) == After(hi, lo, byte)[2]
Key(hi, lo, byte) == IndexOfLo[LoAfter(hi, lo, byte)]

\* The register before a byte can be told from the one after it.
LEMMA Told ==
    ASSUME NEW hi \in Octet, NEW lo \in Octet, NEW byte \in Octet
    PROVE  /\ HiAfter(hi, lo, byte) \in Octet /\ LoAfter(hi, lo, byte) \in Octet
           /\ Xor[Key(hi, lo, byte)][hi] = byte
           /\ Xor[Key(hi, lo, byte)][byte] = hi
           /\ Xor[HiAfter(hi, lo, byte)][TableHi[Key(hi, lo, byte) + 1]] = lo
<1> DEFINE after == After(hi, lo, byte)
           k == IndexOfLo[after[2]]
           i == Xor[hi][byte]
           t == TableHi[i + 1]
<1>1. i \in Octet /\ Xor[hi][i] = byte
  BY XorBack
<1>2. after = <<Xor[lo][t], TableLo[i + 1]>>
  BY DEF After
<1>3. after[1] = Xor[lo][t] /\ after[2] = TableLo[i + 1]
  BY ONLY <1>2
<1> HIDE DEF i, after
<1>4. k = i
  BY <1>1, <1>3, IndexIs
<1>5. t \in Octet
  BY <1>1, TablesAreBytes
<1>6. after[2] \in Octet
  BY <1>1, <1>3, TablesAreBytes
<1>7. after[1] \in Octet /\ Xor[after[1]][t] = lo
  <2> HIDE DEF t
  <2>1. Xor[lo][t] \in Octet /\ Xor[lo][t] = Xor[t][lo]
    BY <1>5, XorBack
  <2>2. Xor[t][Xor[t][lo]] = lo
    BY <1>5, XorBack
  <2>3. Xor[after[1]][t] = Xor[t][after[1]]
    BY <1>3, <1>5, <2>1, XorBack
  <2> QED BY <1>3, <2>1, <2>2, <2>3
<1>8. Xor[i][hi] = byte
  BY <1>1, XorBack
<1>9. Xor[i][byte] = hi
  <2>1. Xor[byte][i] = hi
    <3>1. Xor[byte][Xor[byte][hi]] = hi /\ Xor[byte][hi] = i
      BY XorBack DEF i
    <3> QED BY <3>1
  <2> QED BY <2>1, <1>1, XorBack
<1>10. HiAfter(hi, lo, byte) = after[1] /\ LoAfter(hi, lo, byte) = after[2] /\ Key(hi, lo, byte) = k
  BY DEF after, HiAfter, LoAfter, Key
<1> HIDE DEF k
<1> QED
  BY <1>4, <1>6, <1>7, <1>8, <1>9, <1>10

\* The halves of the register are bytes, always.
LEMMA BytesAlways == CrcSpec => []CrcBytes
<1>1. Byte \subseteq Octet
  BY ByteAssumption DEF Octet
<1>2. CrcInit => CrcBytes
  BY DEF CrcInit, CrcBytes, Octet
<1>3. CrcBytes /\ [CrcNext]_<<crcHi, crcLo>> => CrcBytes'
  <2> SUFFICES ASSUME CrcBytes, [CrcNext]_<<crcHi, crcLo>> PROVE CrcBytes'
    OBVIOUS
  <2>1. ASSUME NEW byte \in Byte, TakeByte(byte) PROVE CrcBytes'
    <3> DEFINE after == After(crcHi, crcLo, byte)
               k == IndexOfLo[after[2]]
    <3>1. crcHi' = after[1] /\ crcLo' = after[2]
      BY <2>1 DEF TakeByte
    <3>2. byte \in Octet /\ crcHi \in Octet /\ crcLo \in Octet
      BY <1>1 DEF CrcBytes
    <3>3. after[1] \in Octet /\ after[2] \in Octet
      BY <3>2, Told DEF HiAfter, LoAfter
    <3> QED BY <3>1, <3>3 DEF CrcBytes
  <2> QED BY <2>1 DEF CrcNext, CrcBytes
<1> QED
  BY <1>2, <1>3, PTL DEF CrcSpec

\* From the register after a byte and the byte the register before it can be told,
\* and the byte from both registers, for bytes of any set.
THEOREM DamageAlwaysShows == CrcSpec => []DamageShows
<1>1. Byte \subseteq Octet
  BY ByteAssumption DEF Octet
<1>2. CrcBytes => DamageShows
  <2> SUFFICES ASSUME CrcBytes, NEW byte \in Byte
               PROVE  /\ Xor[Key(crcHi, crcLo, byte)][crcHi] = byte
                      /\ Xor[Key(crcHi, crcLo, byte)][byte] = crcHi
                      /\ Xor[HiAfter(crcHi, crcLo, byte)][TableHi[Key(crcHi, crcLo, byte) + 1]] = crcLo
    BY Zenon DEF DamageShows, HiAfter, LoAfter, Key
  <2>1. byte \in Octet /\ crcHi \in Octet /\ crcLo \in Octet
    BY <1>1 DEF CrcBytes
  <2> QED BY <2>1, Told
<1> QED
  BY <1>2, BytesAlways, PTL

-----------------------------------------------------------------------------
(* The table algorithm against the division bit by bit of CrcRegister.tla. *)

\* Truth values that differ.
LEMMA TruthDiffers == \A a, b \in BOOLEAN : (a # b) <=> (a <=> ~b)
<1>1. ASSUME NEW a \in BOOLEAN, NEW b \in BOOLEAN
      PROVE  (a # b) <=> (a <=> ~b)
  BY ONLY a \in BOOLEAN, b \in BOOLEAN
<1> QED
  BY <1>1

\* The division takes in one bit: the remainder is shifted, and where its lowest bit
\* differs from the one taken in the generator is subtracted.
LEMMA BitTaken ==
    ASSUME NEW s \in SUBSET (0 .. 15), NEW bit \in BOOLEAN
    PROVE  /\ Register!TakeBit(s, bit) \in SUBSET (0 .. 15)
           /\ \A k \in 0 .. 15 :
                 k \in Register!TakeBit(s, bit) <=>
                 (k + 1 \in s <=> ~((0 \in s <=> ~bit) /\ k \in {0, 13, 15}))
<1> DEFINE t == {k - 1 : k \in s \ {0}}
<1>1. t \in SUBSET (0 .. 15) /\ \A k \in 0 .. 15 : k \in t <=> k + 1 \in s
  <2>1. \A x \in s \ {0} : x \in 1 .. 15 /\ (x - 1) + 1 = x /\ x - 1 \in 0 .. 15
    OBVIOUS
  <2>2. \A k \in 0 .. 15 : k + 1 # 0 /\ (k + 1) - 1 = k
    OBVIOUS
  <2>3. ASSUME NEW k \in t PROVE k \in 0 .. 15 /\ k + 1 \in s
    <3>1. PICK x \in s \ {0} : k = x - 1
      OBVIOUS
    <3> QED BY <2>1, <3>1
  <2>4. ASSUME NEW k \in 0 .. 15, k + 1 \in s PROVE k \in t
    <3>1. k + 1 \in s \ {0} /\ k = (k + 1) - 1
      BY <2>2, <2>4
    <3> QED BY <3>1, Zenon
  <2> HIDE DEF t
  <2> QED BY <2>3, <2>4
<1>2. Register!TakeBit(s, bit) = IF (0 \in s) # bit THEN (t \ {0, 13, 15}) \cup ({0, 13, 15} \ t) ELSE t
  BY DEF Register!TakeBit, Register!Sum, Register!Generator
<1> HIDE DEF t
<1>3. ((0 \in s) # bit) <=> (0 \in s <=> ~bit)
  <2>1. (0 \in s) \in BOOLEAN
    OBVIOUS
  <2> QED BY <2>1, TruthDiffers
<1>4. CASE (0 \in s) # bit
  BY <1>1, <1>2, <1>3, <1>4
<1>5. CASE ~((0 \in s) # bit)
  BY <1>1, <1>2, <1>3, <1>5
<1> QED
  BY <1>4, <1>5

\* A byte is eight such steps.  The remainders form a recursive function, which has to
\* be shown to exist.
LEMMA ByteTaken ==
    ASSUME NEW r, NEW byte
    PROVE  \E f : /\ f[0] = r
                  /\ \A k \in 1 .. 8 : f[k] = Register!TakeBit(f[k - 1], (k - 1) \in byte)
                  /\ Register!TakeByte(r, byte) = f[8]
<1> DEFINE T(s, k) == Register!TakeBit(s, (k - 1) \in byte)
           a1 == T(r, 1)
           a2 == T(a1, 2)
           a3 == T(a2, 3)
           a4 == T(a3, 4)
           a5 == T(a4, 5)
           a6 == T(a5, 6)
           a7 == T(a6, 7)
           a8 == T(a7, 8)
           a == [k \in 0 .. 8 |-> IF k = 0 THEN r ELSE IF k = 1 THEN a1 ELSE IF k = 2 THEN a2
                   ELSE IF k = 3 THEN a3 ELSE IF k = 4 THEN a4 ELSE IF k = 5 THEN a5
                   ELSE IF k = 6 THEN a6 ELSE IF k = 7 THEN a7 ELSE a8]
           Turns(f) == [k \in 0 .. 8 |-> IF k = 0 THEN r ELSE T(f[k - 1], k)]
           g == CHOOSE f : f = Turns(f)
<1>1. a = Turns(a)
  <2>1. ASSUME NEW k \in 0 .. 8 PROVE a[k] = IF k = 0 THEN r ELSE T(a[k - 1], k)
    <3> HIDE DEF T
    <3> QED OBVIOUS
  <2> HIDE DEF T
  <2> QED BY <2>1
<1>2. g = Turns(g)
  <2> HIDE DEF a, Turns
  <2> QED BY <1>1
<1>3. Register!TakeByte(r, byte) = g[8]
  BY DEF Register!TakeByte
<1> HIDE DEF g
<1>4. g[0] = r
  BY <1>2
<1>5. ASSUME NEW k \in 1 .. 8 PROVE g[k] = T(g[k - 1], k)
  <2> HIDE DEF T
  <2> QED BY <1>2
<1> QED
  BY <1>3, <1>4, <1>5

\* The bits the division of a byte leaves: those of the old remainder shifted
\* by eight, and the generator at the steps y at which it is subtracted.
Steps(y, r, byte) ==
    /\ y \in SUBSET (0 .. 7)
    /\ 0 \in y <=> (0 \in r <=> 0 \notin byte)
    /\ \A j \in 1 .. 7 : j \in y <=> (j - 1 \in y <=> (j \in r <=> j \in byte))
Left(k, y) == (k = 0 /\ 7 \in y) <=> (k - 6 \in y <=> k - 8 \in y)

\* Those eight steps together.
LEMMA Divided ==
    ASSUME NEW r \in SUBSET (0 .. 15), NEW byte \in SUBSET (0 .. 7)
    PROVE  LET after == Register!TakeByte(r, byte) IN
           \E y : /\ Steps(y, r, byte)
                  /\ after \in SUBSET (0 .. 15)
                  /\ \A k \in 0 .. 15 : k \in after <=> (k + 8 \in r <=> ~Left(k, y))
<1>1. PICK f : /\ f[0] = r
               /\ \A k \in 1 .. 8 : f[k] = Register!TakeBit(f[k - 1], (k - 1) \in byte)
               /\ Register!TakeByte(r, byte) = f[8]
  BY ByteTaken
<1> DEFINE y == {j \in 0 .. 7 : 0 \in f[j] <=> j \notin byte}
           Shifted(j) ==
              /\ f[j] \in SUBSET (0 .. 15)
              /\ \A k \in 0 .. 15 :
                    k \in f[j] <=>
                    (k + j \in r <=> ~((k = 0 /\ j - 1 \in y)
                              <=> ((k < 14 /\ k + j - 14 \in y) <=> (k + j - 16 \in y))))
<1>2. y \in SUBSET (0 .. 7)
  OBVIOUS
<1>3. ASSUME NEW j \in 0 .. 7, f[j] \in SUBSET (0 .. 15)
      PROVE  /\ f[j + 1] \in SUBSET (0 .. 15)
             /\ \A k \in 0 .. 15 : k \in f[j + 1] <=> (k + 1 \in f[j] <=> ~(j \in y /\ k \in {0, 13, 15}))
  <2> DEFINE bit == j \in byte
  <2>1. f[j + 1] = Register!TakeBit(f[j], bit)
    <3>1. j + 1 \in 1 .. 8 /\ (j + 1) - 1 = j
      OBVIOUS
    <3> QED BY <1>1, <3>1
  <2>2. bit \in BOOLEAN /\ (j \in y <=> (0 \in f[j] <=> ~bit))
    OBVIOUS
  <2> HIDE DEF y, bit
  <2> QED BY <1>3, <2>1, <2>2, BitTaken
<1> HIDE DEF y
<1>4. Shifted(0)
  BY <1>1, <1>2
<1>5. ASSUME NEW j \in 0 .. 7, Shifted(j) PROVE Shifted(j + 1)
  <2>1. f[j + 1] \in SUBSET (0 .. 15)
    BY <1>3, <1>5
  <2>2. ASSUME NEW k \in 0 .. 14
        PROVE  k \in f[j + 1] <=>
                 ((k + j + 1 \in r <=> ((k < 13 /\ k + j - 13 \in y) <=> (k + j - 15 \in y)))
                  <=> ~(j \in y /\ k \in {0, 13, 15}))
    BY <1>2, <1>3, <1>5, <2>2
  <2>3. 15 \in f[j + 1] <=> j \in y
    BY <1>2, <1>3, <1>5
  <2>4. ASSUME NEW k \in 0 .. 15
        PROVE  k \in f[j + 1] <=>
                 (k + (j + 1) \in r <=> ~((k = 0 /\ (j + 1) - 1 \in y)
                    <=> ((k < 14 /\ k + (j + 1) - 14 \in y) <=> (k + (j + 1) - 16 \in y))))
    <3>1. /\ k + (j + 1) = k + j + 1 /\ (j + 1) - 1 = j
          /\ k + (j + 1) - 14 = k + j - 13 /\ k + (j + 1) - 16 = k + j - 15
      OBVIOUS
    <3>2. CASE k = 15
      BY <1>2, <2>3, <3>1, <3>2
    <3>3. CASE k = 13
      BY <1>2, <2>2, <3>1, <3>3
    <3>4. CASE k = 0
      BY <1>2, <2>2, <3>1, <3>4
    <3>5. CASE k \notin {0, 13, 15}
      BY <1>2, <2>2, <3>1, <3>5
    <3> QED BY <3>2, <3>3, <3>4, <3>5
  <2> QED BY <2>1, <2>4
<1>6. \A j \in 0 .. 8 : Shifted(j)
  <2> HIDE DEF Shifted
  <2>1. Shifted(0) /\ Shifted(1) /\ Shifted(2) /\ Shifted(3) /\ Shifted(4)
    BY <1>4, <1>5
  <2>2. Shifted(5) /\ Shifted(6) /\ Shifted(7) /\ Shifted(8)
    BY <2>1, <1>5
  <2> QED BY <2>1, <2>2
<1>7. Steps(y, r, byte)
  <2>1. ASSUME NEW j \in 0 .. 7 PROVE j \in y <=> (0 \in f[j] <=> j \notin byte)
    BY DEF y
  <2>2. ASSUME NEW j \in 0 .. 7 PROVE 0 \in f[j] <=> (j \in r <=> j - 1 \notin y)
    <3>1. Shifted(j)
      BY <1>6
    <3> QED BY <1>2, <3>1
  <2>3. 0 - 1 \notin y
    BY <1>2
  <2> HIDE DEF Shifted
  <2>4. 0 \in y <=> (0 \in r <=> 0 \notin byte)
    BY <2>1, <2>2, <2>3
  <2>5. ASSUME NEW j \in 1 .. 7 PROVE j \in y <=> (j - 1 \in y <=> (j \in r <=> j \in byte))
    BY <2>1, <2>2
  <2> QED BY <1>2, <2>4, <2>5 DEF Steps
<1>8. f[8] \in SUBSET (0 .. 15) /\ \A k \in 0 .. 15 : k \in f[8] <=> (k + 8 \in r <=> ~Left(k, y))
  <2>1. Shifted(8)
    BY <1>6
  <2>2. ASSUME NEW k \in 0 .. 15 PROVE k \in f[8] <=> (k + 8 \in r <=> ~Left(k, y))
    <3>1. k \in f[8] <=> (k + 8 \in r <=> ~((k = 0 /\ 7 \in y)
                            <=> ((k < 14 /\ k - 6 \in y) <=> (k - 8 \in y))))
      <4>1. 8 - 1 = 7 /\ k + 8 - 14 = k - 6 /\ k + 8 - 16 = k - 8
        OBVIOUS
      <4> QED BY <2>1, <4>1
    <3>2. k - 6 \in y => k < 14
      BY <1>2
    <3> QED BY <3>1, <3>2 DEF Left
  <2> QED BY <2>1, <2>2
<1> QED
  BY <1>1, <1>7, <1>8

\* The digits of the entry of table_crc_hi and of the one of table_crc_lo at an
\* index with digits d, ...
HiDigits(d) ==
    [k \in 0 .. 7 |-> IF k = 0 THEN (d[0] + d[1] + d[2] + d[3] + d[4] + d[5] + d[6] + d[7]) % 2
                      ELSE IF k = 6 THEN d[0]
                      ELSE IF k = 7 THEN (d[0] + d[1]) % 2
                      ELSE 0]
LoDigits(d) ==
    [k \in 0 .. 7 |-> IF k = 7 THEN (d[0] + d[1] + d[2] + d[3] + d[4] + d[5] + d[6] + d[7]) % 2
                      ELSE IF k = 6 THEN (d[0] + d[1] + d[2] + d[3] + d[4] + d[5] + d[6]) % 2
                      ELSE (d[k + 1] + d[k + 2]) % 2]
\* ... digit by digit.
HiAt(d0, d1, d2, d3, d4, d5, d6, d7) ==
    TableHi[(d0 + 2 * d1 + 4 * d2 + 8 * d3 + 16 * d4 + 32 * d5 + 64 * d6 + 128 * d7) + 1]
      = ((d0 + d1 + d2 + d3 + d4 + d5 + d6 + d7) % 2) + 64 * d0 + 128 * ((d0 + d1) % 2)
LoAt(d0, d1, d2, d3, d4, d5, d6, d7) ==
    TableLo[(d0 + 2 * d1 + 4 * d2 + 8 * d3 + 16 * d4 + 32 * d5 + 64 * d6 + 128 * d7) + 1]
      = ((d1 + d2) % 2) + 2 * ((d2 + d3) % 2) + 4 * ((d3 + d4) % 2) + 8 * ((d4 + d5) % 2)
        + 16 * ((d5 + d6) % 2) + 32 * ((d6 + d7) % 2)
        + 64 * ((d0 + d1 + d2 + d3 + d4 + d5 + d6) % 2)
        + 128 * ((d0 + d1 + d2 + d3 + d4 + d5 + d6 + d7) % 2)

\* All entries of table_crc_hi are as the first says, ...
LEMMA HiEntry ==
    ASSUME NEW d0 \in 0 .. 1, NEW d1 \in 0 .. 1, NEW d2 \in 0 .. 1, NEW d3 \in 0 .. 1,
           NEW d4 \in 0 .. 1, NEW d5 \in 0 .. 1, NEW d6 \in 0 .. 1, NEW d7 \in 0 .. 1
    PROVE  HiAt(d0, d1, d2, d3, d4, d5, d6, d7)
BY SMTT(60) DEF HiAt, TableHi

\* ... those of table_crc_lo as the second.
LEMMA LoEntry ==
    ASSUME NEW d0 \in 0 .. 1, NEW d1 \in 0 .. 1, NEW d2 \in 0 .. 1, NEW d3 \in 0 .. 1,
           NEW d4 \in 0 .. 1, NEW d5 \in 0 .. 1, NEW d6 \in 0 .. 1, NEW d7 \in 0 .. 1
    PROVE  LoAt(d0, d1, d2, d3, d4, d5, d6, d7)
BY SMTT(60) DEF LoAt, TableLo

\* So the digits of an entry are known from those of its index.
LEMMA TableDigits ==
    ASSUME NEW d \in [0 .. 7 -> Bit]
    PROVE  /\ HiDigits(d) \in [0 .. 7 -> Bit] /\ LoDigits(d) \in [0 .. 7 -> Bit]
           /\ TableHi[ByteOf(d) + 1] = ByteOf(HiDigits(d))
           /\ TableLo[ByteOf(d) + 1] = ByteOf(LoDigits(d))
<1>1. /\ d[0] \in 0 .. 1 /\ d[1] \in 0 .. 1 /\ d[2] \in 0 .. 1 /\ d[3] \in 0 .. 1
      /\ d[4] \in 0 .. 1 /\ d[5] \in 0 .. 1 /\ d[6] \in 0 .. 1 /\ d[7] \in 0 .. 1
  BY DEF Bit
<1>2. TableHi[ByteOf(d) + 1]
        = ((d[0] + d[1] + d[2] + d[3] + d[4] + d[5] + d[6] + d[7]) % 2)
          + 64 * d[0] + 128 * ((d[0] + d[1]) % 2)
  <2>1. HiAt(d[0], d[1], d[2], d[3], d[4], d[5], d[6], d[7])
    BY ONLY <1>1, HiEntry
  <2> QED BY <2>1 DEF HiAt, ByteOf
<1>3. TableLo[ByteOf(d) + 1]
        = ((d[1] + d[2]) % 2) + 2 * ((d[2] + d[3]) % 2) + 4 * ((d[3] + d[4]) % 2)
          + 8 * ((d[4] + d[5]) % 2) + 16 * ((d[5] + d[6]) % 2) + 32 * ((d[6] + d[7]) % 2)
          + 64 * ((d[0] + d[1] + d[2] + d[3] + d[4] + d[5] + d[6]) % 2)
          + 128 * ((d[0] + d[1] + d[2] + d[3] + d[4] + d[5] + d[6] + d[7]) % 2)
  <2>1. LoAt(d[0], d[1], d[2], d[3], d[4], d[5], d[6], d[7])
    BY ONLY <1>1, LoEntry
  <2> QED BY <2>1 DEF LoAt, ByteOf
<1> DEFINE h == HiDigits(d)
           l == LoDigits(d)
           p == (d[0] + d[1] + d[2] + d[3] + d[4] + d[5] + d[6] + d[7]) % 2
           o == (d[0] + d[1] + d[2] + d[3] + d[4] + d[5] + d[6]) % 2
<1>4. /\ h[0] = p /\ h[1] = 0 /\ h[2] = 0 /\ h[3] = 0 /\ h[4] = 0 /\ h[5] = 0
      /\ h[6] = d[0] /\ h[7] = (d[0] + d[1]) % 2
  BY DEF HiDigits
<1>5. /\ l[0] = (d[1] + d[2]) % 2 /\ l[1] = (d[2] + d[3]) % 2 /\ l[2] = (d[3] + d[4]) % 2
      /\ l[3] = (d[4] + d[5]) % 2 /\ l[4] = (d[5] + d[6]) % 2 /\ l[5] = (d[6] + d[7]) % 2
      /\ l[6] = o /\ l[7] = p
  BY DEF LoDigits
<1>6. p \in 0 .. 1 /\ o \in 0 .. 1
  BY ONLY <1>1
<1>7. /\ (d[0] + d[1]) % 2 \in 0 .. 1
      /\ (d[1] + d[2]) % 2 \in 0 .. 1 /\ (d[2] + d[3]) % 2 \in 0 .. 1 /\ (d[3] + d[4]) % 2 \in 0 .. 1
      /\ (d[4] + d[5]) % 2 \in 0 .. 1 /\ (d[5] + d[6]) % 2 \in 0 .. 1 /\ (d[6] + d[7]) % 2 \in 0 .. 1
  BY ONLY <1>1
<1>8. h \in [0 .. 7 -> Bit] /\ l \in [0 .. 7 -> Bit]
  <2>1. h = [k \in 0 .. 7 |-> h[k]] /\ l = [k \in 0 .. 7 |-> l[k]]
    BY DEF HiDigits, LoDigits
  <2> HIDE DEF h, l, p, o
  <2>2. ASSUME NEW k \in 0 .. 7 PROVE h[k] \in Bit /\ l[k] \in Bit
    BY <1>1, <1>4, <1>5, <1>6, <1>7 DEF Bit
  <2> QED BY <2>1, <2>2
<1> HIDE DEF h, l
<1>9. TableHi[ByteOf(d) + 1] = ByteOf(h)
  <2>1. TableHi[ByteOf(d) + 1] = p + 64 * d[0] + 128 * ((d[0] + d[1]) % 2)
    BY <1>2
  <2> HIDE DEF p
  <2> QED BY ONLY <2>1, <1>1, <1>4, <1>6, <1>7 DEF ByteOf
<1>10. TableLo[ByteOf(d) + 1] = ByteOf(l)
  <2>1. ByteOf(l) = l[0] + 2 * l[1] + 4 * l[2] + 8 * l[3] + 16 * l[4] + 32 * l[5] + 64 * l[6] + 128 * l[7]
    BY DEF ByteOf
  <2> QED BY <1>3, <1>5, <2>1
<1> QED
  BY <1>8, <1>9, <1>10 DEF h, l

\* Bits as sets of places.
LEMMA BitsAre ==
    ASSUME NEW n \in Octet
    PROVE  BitsOf[n] \in SUBSET (0 .. 7) /\ \A k \in 0 .. 7 : k \in BitsOf[n] <=> BitOf(n, k) = 1
BY DEF BitsOf, BitOf, Octet

\* The digits of a byte are digits.
LEMMA BitIsDigit ==
    ASSUME NEW n \in Octet, NEW k \in 0 .. 7
    PROVE  BitOf(n, k) \in Bit
<1>1. 2 ^ k \in Nat \ {0}
  BY DigitPower
<1>2. n \in Nat
  BY DEF Octet
<1>3. n \div 2 ^ k \in Nat
  BY <1>1, <1>2, Division
<1> QED
  BY <1>3 DEF BitOf, Bit

\* Exclusive or is bit by bit.
LEMMA XorBits ==
    ASSUME NEW x \in Octet, NEW y \in Octet, NEW k \in 0 .. 7
    PROVE  k \in BitsOf[Xor[x][y]] <=> (k \in BitsOf[x] <=> k \notin BitsOf[y])
<1>1. Xor[x][y] \in Octet
  BY XorBack
<1>2. BitOf(Xor[x][y], k) = XorDigits(x, y)[k]
  BY XorIs, ByteDigits
<1>3. XorDigits(x, y)[k] = (x \div 2 ^ k + y \div 2 ^ k) % 2
  BY DEF XorDigits
<1>4. x \div 2 ^ k \in Nat /\ y \div 2 ^ k \in Nat
  <2>1. 2 ^ k \in Nat \ {0}
    BY DigitPower
  <2>2. x \in Nat /\ y \in Nat
    BY DEF Octet
  <2> QED BY <2>1, <2>2, Division
<1>5. \A u, v \in Nat : (u + v) % 2 = 1 <=> (u % 2 = 1 <=> v % 2 # 1)
  OBVIOUS
<1>6. BitOf(Xor[x][y], k) = 1 <=> (BitOf(x, k) = 1 <=> BitOf(y, k) # 1)
  BY <1>2, <1>3, <1>4, <1>5 DEF BitOf
<1> QED
  BY <1>1, <1>6, BitsAre

\* The steps at which the generator is subtracted from an index of the tables
\* are its running parities, ...
LEMMA Parities ==
    ASSUME NEW d \in [0 .. 7 -> Bit], NEW B \in SUBSET (0 .. 7), NEW y, Steps(y, B, {}),
           \A k \in 0 .. 7 : k \in B <=> d[k] = 1
    PROVE  /\ 0 \in y <=> d[0] = 1
           /\ 1 \in y <=> (d[0] + d[1]) % 2 = 1
           /\ 2 \in y <=> (d[0] + d[1] + d[2]) % 2 = 1
           /\ 3 \in y <=> (d[0] + d[1] + d[2] + d[3]) % 2 = 1
           /\ 4 \in y <=> (d[0] + d[1] + d[2] + d[3] + d[4]) % 2 = 1
           /\ 5 \in y <=> (d[0] + d[1] + d[2] + d[3] + d[4] + d[5]) % 2 = 1
           /\ 6 \in y <=> (d[0] + d[1] + d[2] + d[3] + d[4] + d[5] + d[6]) % 2 = 1
           /\ 7 \in y <=> (d[0] + d[1] + d[2] + d[3] + d[4] + d[5] + d[6] + d[7]) % 2 = 1
<1>1. /\ d[0] \in 0 .. 1 /\ d[1] \in 0 .. 1 /\ d[2] \in 0 .. 1 /\ d[3] \in 0 .. 1
      /\ d[4] \in 0 .. 1 /\ d[5] \in 0 .. 1 /\ d[6] \in 0 .. 1 /\ d[7] \in 0 .. 1
  BY DEF Bit
<1>2. 0 \in y <=> d[0] = 1
  BY DEF Steps
<1>3. ASSUME NEW j \in 1 .. 7 PROVE j \in y <=> (j - 1 \in y <=> d[j] # 1)
  BY DEF Steps
<1>4. ASSUME NEW n \in Nat, NEW e \in 0 .. 1
      PROVE  (n + e) % 2 = 1 <=> (n % 2 = 1 <=> e # 1)
  OBVIOUS
<1>5. 1 \in y <=> (d[0] + d[1]) % 2 = 1
  BY <1>1, <1>2, <1>3
<1> DEFINE s1 == d[0] + d[1]
           s2 == s1 + d[2]
           s3 == s2 + d[3]
           s4 == s3 + d[4]
           s5 == s4 + d[5]
           s6 == s5 + d[6]
           s7 == s6 + d[7]
<1>6. /\ s1 \in Nat /\ s2 \in Nat /\ s3 \in Nat /\ s4 \in Nat /\ s5 \in Nat /\ s6 \in Nat
  BY ONLY <1>1
<1>7. /\ s2 % 2 = 1 <=> (s1 % 2 = 1 <=> d[2] # 1)
      /\ s3 % 2 = 1 <=> (s2 % 2 = 1 <=> d[3] # 1)
      /\ s4 % 2 = 1 <=> (s3 % 2 = 1 <=> d[4] # 1)
  <2> HIDE DEF s1
  <2> QED BY ONLY <1>1, <1>4, <1>6
<1>8. /\ s5 % 2 = 1 <=> (s4 % 2 = 1 <=> d[5] # 1)
      /\ s6 % 2 = 1 <=> (s5 % 2 = 1 <=> d[6] # 1)
      /\ s7 % 2 = 1 <=> (s6 % 2 = 1 <=> d[7] # 1)
  <2> HIDE DEF s4
  <2> QED BY ONLY <1>1, <1>4, <1>6
<1>9. 1 \in y <=> s1 % 2 = 1
  BY <1>5
<1> HIDE DEF s1, s2, s3, s4, s5, s6, s7
<1>10. (2 \in y <=> s2 % 2 = 1) /\ (3 \in y <=> s3 % 2 = 1) /\ (4 \in y <=> s4 % 2 = 1)
  BY <1>3, <1>7, <1>9
<1>11. (5 \in y <=> s5 % 2 = 1) /\ (6 \in y <=> s6 % 2 = 1) /\ (7 \in y <=> s7 % 2 = 1)
  BY <1>3, <1>8, <1>10
<1> QED
  BY <1>2, <1>9, <1>10, <1>11 DEF s1, s2, s3, s4, s5, s6, s7

\* ... and the entries of the tables the generator subtracted there.
LEMMA TableBits ==
    ASSUME NEW i \in Octet, NEW y, Steps(y, BitsOf[i], {}), NEW k \in 0 .. 7
    PROVE  /\ k \in BitsOf[TableHi[i + 1]] <=> ((k = 0 /\ 7 \in y) <=> k - 6 \notin y)
           /\ k \in BitsOf[TableLo[i + 1]] <=> (k + 2 \in y <=> k \notin y)
<1> DEFINE d == [j \in 0 .. 7 |-> BitOf(i, j)]
<1>1. d \in [0 .. 7 -> Bit] /\ i = ByteOf(d)
  BY BitIsDigit, DigitsByte
<1>2. BitsOf[i] \in SUBSET (0 .. 7) /\ \A j \in 0 .. 7 : j \in BitsOf[i] <=> d[j] = 1
  BY BitsAre
<1> HIDE DEF d
<1>3. /\ HiDigits(d) \in [0 .. 7 -> Bit] /\ LoDigits(d) \in [0 .. 7 -> Bit]
      /\ TableHi[i + 1] = ByteOf(HiDigits(d)) /\ TableLo[i + 1] = ByteOf(LoDigits(d))
  BY <1>1, TableDigits
<1>4. /\ k \in BitsOf[TableHi[i + 1]] <=> HiDigits(d)[k] = 1
      /\ k \in BitsOf[TableLo[i + 1]] <=> LoDigits(d)[k] = 1
  BY <1>3, ByteDigits, BitsAre
<1>5. /\ 0 \in y <=> d[0] = 1
      /\ 1 \in y <=> (d[0] + d[1]) % 2 = 1
      /\ 6 \in y <=> (d[0] + d[1] + d[2] + d[3] + d[4] + d[5] + d[6]) % 2 = 1
      /\ 7 \in y <=> (d[0] + d[1] + d[2] + d[3] + d[4] + d[5] + d[6] + d[7]) % 2 = 1
  BY <1>1, <1>2, Parities
<1>6. y \in SUBSET (0 .. 7)
  BY DEF Steps
<1>7. HiDigits(d)[k] = 1 <=> ((k = 0 /\ 7 \in y) <=> k - 6 \notin y)
  BY <1>5, <1>6 DEF HiDigits
<1>8. LoDigits(d)[k] = 1 <=> (k + 2 \in y <=> k \notin y)
  <2>1. CASE k \in {6, 7}
    BY <1>5, <1>6, <2>1 DEF LoDigits
  <2>2. CASE k \in 0 .. 5
    <3>1. LoDigits(d)[k] = (d[k + 1] + d[k + 2]) % 2
      BY <2>2 DEF LoDigits
    <3>2. /\ k + 1 \in y <=> (k \in y <=> k + 1 \notin BitsOf[i])
          /\ k + 2 \in y <=> (k + 1 \in y <=> k + 2 \notin BitsOf[i])
      BY <2>2 DEF Steps
    <3>3. d[k + 1] \in 0 .. 1 /\ d[k + 2] \in 0 .. 1
      BY <1>1, <2>2 DEF Bit
    <3>4. (d[k + 1] = 1 <=> k + 1 \in BitsOf[i]) /\ (d[k + 2] = 1 <=> k + 2 \in BitsOf[i])
      BY <1>2, <2>2
    <3>5. \A a, b \in 0 .. 1 : (a + b) % 2 = 1 <=> (a = 1 <=> b # 1)
      OBVIOUS
    <3> QED BY <3>1, <3>2, <3>3, <3>4, <3>5
  <2> QED BY <2>1, <2>2
<1> QED
  BY <1>4, <1>7, <1>8

\* A step of the table algorithm divides one byte.
LEMMA ByteDivided ==
    ASSUME NEW hi \in Octet, NEW lo \in Octet, NEW byte \in Octet
    PROVE  LET after == After(hi, lo, byte) IN
           RegisterOf(after[1], after[2])
             = Register!TakeByte(RegisterOf(hi, lo), BitsOf[byte])
<1> DEFINE i == Xor[hi][byte]
           t == TableHi[i + 1]
           u == TableLo[i + 1]
           r == RegisterOf(hi, lo)
           B == BitsOf[byte]
           a == Register!TakeByte(r, B)
           z == Xor[lo][t]
           after == After(hi, lo, byte)
           n == RegisterOf(after[1], after[2])
<1>1. after[1] = z /\ after[2] = u
  <2>1. after = <<z, u>>
    BY DEF After
  <2> HIDE DEF z, u, after
  <2> QED BY <2>1
<1> HIDE DEF after
<1>2. i \in Octet
  BY XorBack
<1> HIDE DEF i
<1>3. t \in Octet /\ u \in Octet
  BY <1>2, TablesAreBytes
<1> HIDE DEF t, u
<1>4. z \in Octet
  BY <1>3, XorBack
<1> HIDE DEF z
<1>5. /\ r \in SUBSET (0 .. 15)
      /\ \A k \in 0 .. 7 : (k \in r <=> k \in BitsOf[hi]) /\ (k + 8 \in r <=> k \in BitsOf[lo])
  BY BitsAre DEF RegisterOf
<1>6. /\ n \in SUBSET (0 .. 15)
      /\ \A k \in 0 .. 7 : (k \in n <=> k \in BitsOf[z]) /\ (k + 8 \in n <=> k \in BitsOf[u])
  BY <1>1, <1>3, <1>4, BitsAre DEF RegisterOf
<1>7. B \in SUBSET (0 .. 7)
  BY BitsAre
<1> HIDE DEF r, n, B
<1>8. PICK y : /\ Steps(y, r, B)
               /\ a \in SUBSET (0 .. 15)
               /\ \A k \in 0 .. 15 : k \in a <=> (k + 8 \in r <=> ~Left(k, y))
  BY <1>5, <1>7, Divided
<1> HIDE DEF a
<1>9. \A k \in 0 .. 7 : k \in BitsOf[i] <=> (k \in r <=> k \notin B)
  BY <1>5, XorBits DEF i, B
<1>10. Steps(y, BitsOf[i], {})
  BY <1>8, <1>9 DEF Steps
<1>11. ASSUME NEW k \in 0 .. 7
       PROVE  /\ k \in BitsOf[t] <=> ((k = 0 /\ 7 \in y) <=> k - 6 \notin y)
              /\ k \in BitsOf[u] <=> (k + 2 \in y <=> k \notin y)
  BY <1>2, <1>10, TableBits DEF t, u
<1>12. y \in SUBSET (0 .. 7)
  BY <1>8 DEF Steps
<1>13. ASSUME NEW k \in 0 .. 7 PROVE (k \in n <=> k \in a) /\ (k + 8 \in n <=> k + 8 \in a)
  <2>1. k \in n <=> k \in a
    <3>1. k \in n <=> (k \in BitsOf[lo] <=> k \notin BitsOf[t])
      BY <1>3, <1>6, XorBits DEF z
    <3>2. k \in a <=> (k \in BitsOf[lo] <=> ~Left(k, y))
      BY <1>5, <1>8
    <3>3. Left(k, y) <=> k \in BitsOf[t]
      BY <1>11, <1>12 DEF Left
    <3> QED BY <3>1, <3>2, <3>3
  <2>2. k + 8 \in n <=> k + 8 \in a
    <3>1. (k + 8) + 8 \notin r
      BY <1>5
    <3>2. k + 8 \in a <=> Left(k + 8, y)
      BY <1>8, <3>1
    <3>3. Left(k + 8, y) <=> (k + 2 \in y <=> k \notin y)
      <4>1. k + 8 # 0 /\ (k + 8) - 6 = k + 2 /\ (k + 8) - 8 = k
        OBVIOUS
      <4> QED BY <4>1 DEF Left
    <3> QED BY <1>6, <1>11, <3>2, <3>3
  <2> QED BY <2>1, <2>2
<1>14. n = a
  <2>1. ASSUME NEW k \in 0 .. 15 PROVE k \in n <=> k \in a
    <3>1. CASE k \in 0 .. 7
      BY <1>13, <3>1
    <3>2. CASE k \in 8 .. 15
      <4>1. k - 8 \in 0 .. 7 /\ (k - 8) + 8 = k
        BY <3>2
      <4> QED BY <1>13, <4>1
    <3> QED BY <3>1, <3>2
  <2> QED BY <1>6, <1>8, <2>1
<1> QED
  BY <1>14 DEF n, a, r, B, after

\* The table algorithm of mb_crc.c is the division by the polynomial of Modbus:
\* for all bytes, and so for all frames of any length.
THEOREM ImplementsCrcRegister == CrcSpec => RegisterSpec
<1>1. Byte \subseteq Octet
  BY ByteAssumption DEF Octet
<1>2. CrcInit => Register!Init
  <2>1. ASSUME NEW k \in 0 .. 7 PROVE BitOf(255, k) = 1
    <3> DEFINE o == [j \in 0 .. 7 |-> 1]
    <3>1. o \in [0 .. 7 -> Bit]
      BY DEF Bit
    <3>2. ByteOf(o) = 255
      BY DEF ByteOf
    <3> QED BY <3>1, <3>2, ByteDigits
  <2>2. 255 \in Octet
    BY DEF Octet
  <2>3. BitsOf[255] = 0 .. 7
    BY <2>1, <2>2, BitsAre
  <2>4. RegisterOf(255, 255) = 0 .. 15
    <3>1. RegisterOf(255, 255) = (0 .. 7) \cup {k + 8 : k \in 0 .. 7}
      BY <2>3 DEF RegisterOf
    <3>2. ASSUME NEW k \in 8 .. 15 PROVE k - 8 \in 0 .. 7 /\ (k - 8) + 8 = k
      OBVIOUS
    <3> QED BY <3>1, <3>2
  <2> QED BY <2>4 DEF CrcInit, Register!Init
<1>3. CrcBytes /\ [CrcNext]_<<crcHi, crcLo>> => [Register!Next]_(RegisterOf(crcHi, crcLo))
  <2> SUFFICES ASSUME CrcBytes, [CrcNext]_<<crcHi, crcLo>>
               PROVE  [Register!Next]_(RegisterOf(crcHi, crcLo))
    OBVIOUS
  <2>1. CASE UNCHANGED <<crcHi, crcLo>>
    BY <2>1 DEF RegisterOf
  <2>2. ASSUME NEW byte \in Byte, TakeByte(byte)
        PROVE  Register!Next
    <3>1. byte \in Octet /\ crcHi \in Octet /\ crcLo \in Octet
      BY <1>1 DEF CrcBytes
    <3> DEFINE after == After(crcHi, crcLo, byte)
    <3>2. crcHi' = after[1] /\ crcLo' = after[2]
      BY <2>2 DEF TakeByte
    <3>3. RegisterOf(after[1], after[2])
            = Register!TakeByte(RegisterOf(crcHi, crcLo), BitsOf[byte])
      BY <3>1, ByteDivided
    <3> HIDE DEF after
    <3>4. RegisterOf(crcHi, crcLo)' = Register!TakeByte(RegisterOf(crcHi, crcLo), BitsOf[byte])
      BY <3>2, <3>3 DEF RegisterOf
    <3> QED BY <3>4 DEF Register!Next
  <2> QED BY <2>1, <2>2 DEF CrcNext
<1> QED
  BY <1>2, <1>3, BytesAlways, PTL DEF CrcSpec, RegisterSpec, Register!Spec
=============================================================================
