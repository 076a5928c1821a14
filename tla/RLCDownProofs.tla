---------------------------- MODULE RLCDownProofs ----------------------------
(***************************************************************************)
(* For every window, queue, poll interval and limit, and whatever the      *)
(* radio loses or delays: sequence numbers tell what the engines ask of    *)
(* them, the downlink never has more than WS - 1 blocks outstanding, what  *)
(* an acknowledgement says of it is true, and the TBFs keep the promise of *)
(* RLCTransfer.                                                            *)
(***************************************************************************)
EXTENDS RLCDown, SequenceTheorems, WellFoundedInduction, TLAPS

(* deltaSN finds how far a number is from one it is less than half the     *)
(* space away from, in either direction, wherever the numbers wrap: what   *)
(* engineRecvDataBlock and resendNeeded ask (RLCEngine.cpp:97).            *)
THEOREM DeltaSNFinds ==
  ASSUME NEW a \in SN, NEW d \in -WS + 1 .. WS
  PROVE  addSN(a, d) \in SN /\ deltaSN(addSN(a, d), a) = d
BY WindowAssumption DEF SN, SNS, addSN, deltaSN

(* deltaSNS finds how far ahead a number is, up to the whole space but one:*)
(* what advanceVS asks of a window that has not been left (RLCEngine.cpp:  *)
(* 112).  That it finds a number one behind ("we will allow an over-run of *)
(* one") is so only where the numbers do not wrap.                         *)
THEOREM DeltaSNSFinds ==
  ASSUME NEW a \in SN, NEW d \in 0 .. SNS - 2
  PROVE  addSN(a, d) \in SN /\ deltaSNS(addSN(a, d), a) = d
BY WindowAssumption DEF SN, SNS, addSN, deltaSNS

LEMMA Size == SNS \in Nat /\ SNS = 2 * WS /\ SNS >= 4 /\ WS \in Nat /\ WS >= 2
BY WindowAssumption DEF SNS

LEMMA AddIsSN ==
  ASSUME NEW a \in SN, NEW k \in 0 .. SNS - 1
  PROVE  addSN(a, k) \in SN
BY Size DEF SN, addSN

LEMMA StepsRange ==
  ASSUME NEW a \in SN, NEW b \in SN
  PROVE  /\ Steps(a, b) \in 0 .. SNS - 1
         /\ addSN(b, Steps(a, b)) = a
         /\ Steps(a, b) = 0 <=> a = b
BY Size DEF SN, Steps, addSN

(* What lies ahead of a number grows and shrinks by what one adds.         *)
LEMMA StepsAfterOne ==
  ASSUME NEW a \in SN, NEW b \in SN, Steps(a, b) < SNS - 1
  PROVE  Steps(addSN(a, 1), b) = Steps(a, b) + 1
BY Size DEF SN, Steps, addSN

LEMMA StepsAfterAdvance ==
  ASSUME NEW a \in SN, NEW b \in SN, NEW k \in 0 .. SNS - 1, k <= Steps(a, b)
  PROVE  Steps(a, addSN(b, k)) = Steps(a, b) - k
BY Size DEF SN, Steps, addSN

LEMMA StepsIsDelta ==
  ASSUME NEW a \in SN, NEW b \in SN, Steps(a, b) <= WS - 1
  PROVE  deltaSNS(a, b) = Steps(a, b)
BY Size DEF SN, Steps, deltaSNS

(* The window, and why it stays open: when a new block is due, VS is at its*)
(* end, and there is room for one more.                                    *)
WindowTypes == VA \in SN /\ VS \in SN /\ TxQNum \in SN
RoomForNext == VS = TxQNum => Steps(TxQNum, VA) < WS - 1
WindowInv == WindowTypes /\ WindowOpen /\ RoomForNext

-----------------------------------------------------------------------------

LEMMA WindowInit == Init => WindowInv
<1> SUFFICES ASSUME Init PROVE WindowInv
  OBVIOUS
<1>1. VA = 0 /\ VS = 0 /\ TxQNum = 0 /\ 0 \in SN
  BY Size DEF Init, SN
<1>2. Steps(0, 0) = 0
  BY DEF Steps
<1> QED
  BY <1>1, <1>2, Size DEF WindowInv, WindowTypes, WindowOpen, RoomForNext

LEMMA WindowNewEngine == ASSUME NewEngine PROVE WindowInv'
<1>1. VA' = 0 /\ VS' = 0 /\ TxQNum' = 0 /\ 0 \in SN
  BY Size DEF NewEngine, SN
<1>2. Steps(0, 0) = 0
  BY DEF Steps
<1> QED
  BY <1>1, <1>2, Size DEF WindowInv, WindowTypes, WindowOpen, RoomForNext

LEMMA WindowSame ==
  ASSUME WindowInv, UNCHANGED <<VA, VS, TxQNum>>
  PROVE  WindowInv'
BY DEF WindowInv, WindowTypes, WindowOpen, RoomForNext

(* advanceVA stops at TxQNum at the latest.                                *)
LEMMA AdvanceVA ==
  ASSUME WindowInv, advanceVA
  PROVE  VA' \in SN /\ Steps(TxQNum, VA') <= WS - 1
<1>1. PICK k \in 0 .. SNS - 1 :
        /\ \A j \in 0 .. k - 1 : addSN(VA, j) # TxQNum
        /\ VA' = addSN(VA, k)
  BY DEF advanceVA
<1>2. VA \in SN /\ TxQNum \in SN /\ Steps(TxQNum, VA) <= WS - 1
  BY DEF WindowInv, WindowTypes, WindowOpen
<1>3. Steps(TxQNum, VA) \in 0 .. SNS - 1 /\ addSN(VA, Steps(TxQNum, VA)) = TxQNum
  BY <1>2, StepsRange
<1>4. k <= Steps(TxQNum, VA)
  <2> SUFFICES ASSUME k > Steps(TxQNum, VA) PROVE FALSE
    BY <1>3, Size
  <2>1. Steps(TxQNum, VA) \in 0 .. k - 1
    BY <1>3, Size
  <2> QED
    BY <2>1, <1>1, <1>3
<1>5. Steps(TxQNum, VA') = Steps(TxQNum, VA) - k
  BY <1>1, <1>2, <1>4, StepsAfterAdvance
<1> QED
  BY <1>1, <1>2, <1>3, <1>5, AddIsSN, Size

(* Wherever advanceVS begins, it leaves room for a block when it is at the *)
(* end, for else the engine is stalled and VS goes back.                   *)
LEMMA AdvanceVS ==
  ASSUME NEW from \in SN, NEW stalled, VA' \in SN, TxQNum' \in SN,
         Steps(TxQNum', VA') <= WS - 1, advanceVS(from, stalled)
  PROVE  WindowInv'
<1>1. PICK k \in 0 .. SNS - 1 :
        VS' = IF deltaSNS(addSN(from, k), VA') >= WS - 1 THEN VA' ELSE addSN(from, k)
  BY DEF advanceVS
<1>2. VS' \in SN
  BY <1>1, AddIsSN
<1>3. Steps(TxQNum', VA') \in 0 .. SNS - 1 /\ (Steps(TxQNum', VA') = 0 <=> TxQNum' = VA')
  BY StepsRange
<1>4. ASSUME VS' = TxQNum' PROVE Steps(TxQNum', VA') < WS - 1
  <2>1. CASE VS' = VA'
    BY <2>1, <1>3, <1>4, Size
  <2>2. CASE VS' # VA'
    <3>1. deltaSNS(TxQNum', VA') < WS - 1
      <4>1. VS' = addSN(from, k) /\ ~(deltaSNS(addSN(from, k), VA') >= WS - 1)
        BY <1>1, <2>2
      <4>2. deltaSNS(TxQNum', VA') = Steps(TxQNum', VA')
        BY StepsIsDelta
      <4> QED
        BY <4>1, <4>2, <1>4, <1>3, Size
    <3> QED
      BY <3>1, StepsIsDelta
  <2> QED
    BY <2>1, <2>2
<1> QED
  BY <1>2, <1>4 DEF WindowInv, WindowTypes, WindowOpen, RoomForNext

(* A new block takes TxQNum one further, into the room there was for it.   *)
LEMMA NewBlock ==
  ASSUME WindowInv, Fresh, TxQNum' = addSN(TxQNum, 1), VA' = VA
  PROVE  /\ VA' \in SN /\ TxQNum' \in SN /\ VS # TxQNum'
         /\ Steps(TxQNum', VA') <= WS - 1
<1>1. VS = TxQNum /\ VA \in SN /\ TxQNum \in SN /\ Steps(TxQNum, VA) < WS - 1
  BY DEF WindowInv, WindowTypes, RoomForNext, Fresh
<1>2. Steps(TxQNum, VA) \in 0 .. SNS - 1
  BY <1>1, StepsRange
<1>3. Steps(TxQNum', VA) = Steps(TxQNum, VA) + 1
  BY <1>1, <1>2, StepsAfterOne, Size
<1>4. TxQNum' \in SN /\ TxQNum' # TxQNum
  BY <1>1, Size DEF SN, addSN
<1> QED
  BY <1>1, <1>2, <1>3, <1>4, Size

LEMMA WindowService ==
  ASSUME WindowInv,
         NEW primary \in BOOLEAN, NEW room \in BOOLEAN, NEW heard \in BOOLEAN,
         engineService(primary, room, heard)
  PROVE  WindowInv'
<1> DEFINE b == IF VS # TxQNum \/ Fresh THEN VS ELSE addSN(VS, -1)
<1>1. VA' = VA
  BY DEF engineService
<1>2. \/ Fresh /\ TxQNum' = addSN(TxQNum, 1)
      \/ ~Fresh /\ TxQNum' = TxQNum
  BY DEF engineService, getBlock
<1>3. /\ VA' \in SN /\ TxQNum' \in SN /\ Steps(TxQNum', VA') <= WS - 1
      /\ Fresh => VS # TxQNum'
  BY <1>1, <1>2, NewBlock DEF WindowInv, WindowTypes, WindowOpen
<1>4. \/ VS' = VS /\ Fresh
      \/ VS' = VS /\ TxQNum' = TxQNum
      \/ VS' = VS /\ TxQ'[b].fbi
      \/ (VS # TxQNum \/ Fresh) /\ advanceVS(addSN(VS, 1), mDownStalled)
  <2>1. \/ Withheld(b, primary, room)
        \/ SendFinal(b, primary, room, heard)
        \/ SendBlock(b, primary, room, heard)
    BY DEF engineService
  <2>2. CASE Withheld(b, primary, room)
    BY <2>2 DEF Withheld
  <2>3. CASE SendFinal(b, primary, room, heard)
    BY <2>3, <1>2 DEF SendFinal
  <2>4. CASE SendBlock(b, primary, room, heard)
    BY <2>4, <1>2 DEF SendBlock
  <2> QED
    BY <2>1, <2>2, <2>3, <2>4
<1>5. CASE (VS # TxQNum \/ Fresh) /\ advanceVS(addSN(VS, 1), mDownStalled)
  <2>1. addSN(VS, 1) \in SN
    BY AddIsSN, Size DEF WindowInv, WindowTypes
  <2> QED
    BY <1>5, <1>3, <2>1, AdvanceVS
<1>6. CASE VS' = VS
  <2>1. CASE Fresh
    BY <1>6, <2>1, <1>3 DEF WindowInv, WindowTypes, WindowOpen, RoomForNext
  <2>2. CASE ~Fresh
    BY <1>6, <2>2, <1>1, <1>2, WindowSame
  <2> QED
    BY <2>1, <2>2
<1> QED
  BY <1>4, <1>5, <1>6

LEMMA WindowAck ==
  ASSUME WindowInv, engineRecvAckNack
  PROVE  WindowInv'
<1>1. TxQNum' = TxQNum /\ TxQNum \in SN
  BY DEF engineRecvAckNack, WindowInv, WindowTypes
<1>2. CASE Stuck
  <2>1. UNCHANGED <<VA, VS, TxQNum>>
    BY <1>2 DEF engineRecvAckNack
  <2> QED
    BY <2>1, WindowSame
<1>3. CASE ~Stuck
  <2>1. advanceVA
    BY <1>3 DEF engineRecvAckNack
  <2>2. VA' \in SN /\ Steps(TxQNum', VA') <= WS - 1
    BY <2>1, <1>1, AdvanceVA
  <2>3. CASE VA' = TxQNum
    <3>1. VS' = VS
      BY <1>3, <2>3 DEF engineRecvAckNack
    <3>2. Steps(TxQNum', VA') = 0
      BY <2>3, <1>1, <2>2, StepsRange
    <3> QED
      BY <3>1, <3>2, <2>2, <1>1, Size
      DEF WindowInv, WindowTypes, WindowOpen, RoomForNext
  <2>4. CASE VA' # TxQNum
    <3>1. advanceVS(VA', FALSE)
      BY <1>3, <2>4 DEF engineRecvAckNack
    <3> QED
      BY <3>1, <2>2, <1>1, AdvanceVS
  <2> QED
    BY <2>3, <2>4
<1> QED
  BY <1>2, <1>3

LEMMA WindowRetry ==
  ASSUME WindowInv, mtRetry
  PROVE  WindowInv'
BY WindowNewEngine, WindowSame DEF mtRetry, window

LEMMA WindowNext == WindowInv /\ [Next]_vars => WindowInv'
<1> SUFFICES ASSUME WindowInv, [Next]_vars PROVE WindowInv'
  OBVIOUS
<1>1. CASE UNCHANGED vars
  BY <1>1, WindowSame DEF vars, window
<1>2. CASE Write \/ StartTbf \/ AssignmentHeard \/ AssignmentFails \/ NonResponsive
  BY <1>2, WindowSame
  DEF Write, StartTbf, AssignmentHeard, AssignmentFails, NonResponsive, window
<1>3. CASE Detach
  BY <1>3, WindowNewEngine DEF Detach
<1>4. CASE PhoneAnswers \/ PollExpires \/ N3105Exceeded \/ ReleaseAnswered
  BY <1>4, WindowSame
  DEF PhoneAnswers, PollExpires, N3105Exceeded, ReleaseAnswered, window
<1>5. CASE engineRecvAckNack
  BY <1>5, WindowAck
<1>6. ASSUME NEW primary \in BOOLEAN, NEW room \in BOOLEAN, NEW heard \in BOOLEAN,
             engineService(primary, room, heard)
      PROVE  WindowInv'
  BY <1>6, WindowService
<1>7. ASSUME NEW heard \in BOOLEAN, SendRelease(heard)
      PROVE  WindowInv'
  BY <1>7, WindowSame DEF SendRelease, window
<1>8. CASE ReleaseEnds
  BY <1>8, WindowRetry DEF ReleaseEnds
<1> QED
  BY <1>1, <1>2, <1>3, <1>4, <1>5, <1>6, <1>7, <1>8 DEF Next

(* For every window, queue, poll interval and limit: the downlink engine   *)
(* never has a whole window outstanding (advanceVS, "only send 63"), so    *)
(* that a number in an answer stands for one block.                        *)
THEOREM DownWindow == Spec => []WindowOpen
<1>1. Init => WindowInv
  BY WindowInit
<1>2. WindowInv /\ [Next]_vars => WindowInv'
  BY WindowNext
<1>3. WindowInv => WindowOpen
  BY DEF WindowInv
<1> QED
  BY <1>1, <1>2, <1>3, PTL DEF Spec

-----------------------------------------------------------------------------

Phones == [on: BOOLEAN, vq: SN, vr: SN, buf: [SN -> Block \cup {None}], final: BOOLEAN]
States == {"None", "DataWaiting1", "DataTransmit", "TbfRelease", "Finished", "Dead"}
Polls == {"none", "unheard", "heard", "answered", "told", "released"}

Typed ==
  /\ WindowTypes
  /\ VB \in [SN -> BOOLEAN] /\ TxQ \in [SN -> Block \cup {None}]
  /\ sent \in Seq(Pdu) /\ got \in Seq(Pdu) /\ msDownlinkQueue \in Seq(Pdu)
  /\ phone \in Phones /\ written \in 0 .. MaxPdu /\ high \in Nat
  /\ mtN3105 \in Nat /\ mDownFinished \in BOOLEAN
  /\ mtState \in States /\ poll \in Polls

(* How the states of a TBF and its outcome go together, and what there is  *)
(* to send while nothing has been sent.                                    *)
Staged ==
  /\ outcome = CASE mtState = "Finished" -> "success"
                 [] mtState \in {"TbfRelease", "Dead"} -> "failed"
                 [] OTHER -> "open"
  /\ mtState \in {"None", "DataWaiting1"} => sent = <<>>
  /\ mtState = "Finished" => poll = "none"
  /\ sent = <<>> =>
       /\ poll = "none" /\ mtN3105 = 0 /\ mtState # "TbfRelease"
       /\ mtState \in {"DataWaiting1", "DataTransmit"} => msDownlinkQueue # <<>>
  /\ sent # <<>> /\ mtState \in {"DataTransmit", "TbfRelease"} =>
       mDownlinkPdu = sent[Len(sent)]

(* TxQ holds the last SNS - 1 blocks, each under its number; only the last *)
(* one may be final, and then nothing follows it.                          *)
Holds ==
  /\ \A b \in SN : b # TxQNum /\ Place(b) >= 1 =>
       TxQ[b] # None /\ TxQ[b].pdu = sent[Place(b)]
  /\ \A b \in SN : TxQ[b] # None /\ TxQ[b].fbi =>
       b = addSN(TxQNum, -1) /\ mDownFinished
  /\ mDownFinished => sent # <<>> /\ TxQ[addSN(TxQNum, -1)] # None
                                  /\ TxQ[addSN(TxQNum, -1)].fbi

(* VS and VA are not further behind the last block than the window allows, *)
(* nor than the first one.                                                 *)
Close ==
  /\ WindowOpen /\ RoomForNext
  /\ sent = <<>> => TxQNum = 0
  /\ Steps(TxQNum, VA) <= Len(sent)
  /\ Steps(TxQNum, VS) <= WS - 1 /\ Steps(TxQNum, VS) <= Len(sent)

(* What the phone has taken are the first of the blocks.                   *)
InOrder ==
  /\ Len(got) <= Len(sent)
  /\ \A i \in 1 .. Len(got) : got[i] = sent[i]

(* Delivered, or in the phone's buffer.                                    *)
Has(b) == Place(b) <= Len(got) \/ phone.buf[b] # None

(* The phone is where mbts believes it to be, or ahead.                    *)
PhoneInStep ==
  /\ Steps(TxQNum, phone.vq) = Len(sent) - Len(got)
  /\ Steps(TxQNum, phone.vq) <= Steps(TxQNum, VA)
  /\ Steps(TxQNum, phone.vr) <= Steps(TxQNum, phone.vq)
  /\ phone.buf[phone.vq] = None
  /\ \A b \in SN : phone.buf[b] # None =>
       /\ Steps(b, phone.vq) < Steps(phone.vr, phone.vq)
       /\ phone.buf[b].pdu = sent[Place(b)]
       /\ phone.buf[b].fbi => Place(b) = Len(sent) /\ mDownFinished
  /\ phone.final => Len(got) = Len(sent) /\ mDownFinished
  /\ \A b \in Outstanding : VB[b] => Has(b)

(* An answer on its way is true of the blocks its numbers stand for when   *)
(* it comes: none of them has been used for another block.                 *)
AckIsTrue ==
  poll = "answered" =>
    /\ ack.ssn \in SN /\ ack.acked \in SUBSET SN
    /\ Steps(TxQNum, ack.ssn) <= Steps(TxQNum, VA)
    /\ \A b \in ack.acked : Steps(ack.ssn, b) \in 1 .. WS /\ Has(b)
    /\ ack.final => Len(got) = Len(sent) /\ mDownFinished

Begun == mtState = "DataTransmit" \/ sent # <<>>

(* The same when mbts has made a block, and before the phone takes one.    *)
StillHas(b) == Place(b)' <= Len(got) \/ phone.buf[b] # None
StillInStep ==
  /\ Steps(TxQNum', phone.vq) = Len(sent') - Len(got)
  /\ Steps(TxQNum', phone.vq) <= Steps(TxQNum', VA')
  /\ Steps(TxQNum', phone.vr) <= Steps(TxQNum', phone.vq)
  /\ phone.buf[phone.vq] = None
  /\ \A b \in SN : phone.buf[b] # None =>
       /\ Steps(b, phone.vq) < Steps(phone.vr, phone.vq)
       /\ phone.buf[b].pdu = sent'[Place(b)']
       /\ phone.buf[b].fbi => Place(b)' = Len(sent') /\ mDownFinished'
  /\ phone.final => Len(got) = Len(sent') /\ mDownFinished'
  /\ \A b \in Outstanding' : VB'[b] => StillHas(b)
AckStillTrue ==
  poll' = "answered" =>
    /\ ack'.ssn \in SN /\ ack'.acked \in SUBSET SN
    /\ Steps(TxQNum', ack'.ssn) <= Steps(TxQNum', VA')
    /\ \A b \in ack'.acked : Steps(ack'.ssn, b) \in 1 .. WS /\ StillHas(b)
    /\ ack'.final => Len(got) = Len(sent') /\ mDownFinished'

DownInv ==
  /\ Typed /\ Staged /\ Holds /\ Close /\ InOrder
  /\ Begun => PhoneInStep /\ AckIsTrue

(* The PDUs of this TBF and of the queue are in order, and not before the  *)
(* last one delivered.                                                     *)
Increasing(s) == \A i, j \in 1 .. Len(s) : i < j => s[i] < s[j]
PdusInOrder ==
  /\ Increasing(sent) /\ Increasing(msDownlinkQueue)
  /\ \A i \in 1 .. Len(sent), j \in 1 .. Len(msDownlinkQueue) :
       sent[i] < msDownlinkQueue[j]
  /\ \A j \in 1 .. Len(msDownlinkQueue) :
       high <= msDownlinkQueue[j] /\ msDownlinkQueue[j] <= written
  /\ \A i \in 1 .. Len(sent) : sent[i] <= written
  /\ \A i \in 1 .. Len(sent) : i >= Len(got) => high <= sent[i]
  /\ high <= written

-----------------------------------------------------------------------------
(* Numbers                                                                 *)

LEMMA StepsSum ==
  ASSUME NEW a \in SN, NEW b \in SN, NEW c \in SN
  PROVE  Steps(a, c) = IF Steps(a, b) + Steps(b, c) < SNS
                       THEN Steps(a, b) + Steps(b, c)
                       ELSE Steps(a, b) + Steps(b, c) - SNS
BY Size DEF SN, Steps

LEMMA StepsOfAdd ==
  ASSUME NEW a \in SN, NEW k \in 0 .. SNS - 1
  PROVE  addSN(a, k) \in SN /\ Steps(addSN(a, k), a) = k
BY Size DEF SN, Steps, addSN

(* The number before.                                                      *)
LEMMA OneBehind ==
  ASSUME NEW a \in SN
  PROVE  addSN(a, -1) \in SN /\ Steps(a, addSN(a, -1)) = 1 /\ addSN(a, -1) # a
BY Size DEF SN, Steps, addSN

(* What stands k places behind a number.                                   *)
LEMMA Behind ==
  ASSUME NEW a \in SN, NEW k \in 0 .. SNS - 1
  PROVE  \E b \in SN : Steps(a, b) = k
<1>1. addSN(a, -k) \in SN /\ Steps(a, addSN(a, -k)) = k
  BY Size DEF SN, Steps, addSN
<1> QED
  BY <1>1

LEMMA StepsBetween ==
  ASSUME NEW a \in SN, NEW b \in SN, NEW c \in SN, Steps(a, b) <= Steps(a, c)
  PROVE  Steps(b, c) = Steps(a, c) - Steps(a, b)
BY Size DEF SN, Steps

LEMMA StepsInside ==
  ASSUME NEW a \in SN, NEW b \in SN, NEW c \in SN, Steps(b, c) < Steps(a, c)
  PROVE  Steps(a, b) \in 1 .. Steps(a, c)
BY Size DEF SN, Steps

(* Two numbers are as far behind a third only if they are one.             *)
LEMMA StepsInjective ==
  ASSUME NEW a \in SN, NEW b \in SN, NEW c \in SN, Steps(a, b) = Steps(a, c)
  PROVE  b = c
BY Size DEF SN, Steps

LEMMA AheadInjective ==
  ASSUME NEW a \in SN, NEW b \in SN, NEW c \in SN, Steps(b, a) = Steps(c, a)
  PROVE  b = c
BY Size DEF SN, Steps

-----------------------------------------------------------------------------
(* Steps that touch neither the window nor the blocks                      *)

LEMMA StaysInStep ==
  ASSUME DownInv, UNCHANGED <<window, mDownFinished, sent, got>>,
         phone' \in {phone, [phone EXCEPT !.on = FALSE]},
         poll' = "answered" => poll = "answered" /\ UNCHANGED ack,
         mtState' = "DataTransmit" => Begun
  PROVE  /\ Holds' /\ Close' /\ InOrder'
         /\ Begun' => PhoneInStep' /\ AckIsTrue'
<1>1. UNCHANGED <<VS, VA, VB, TxQ, TxQNum, mDownFinished, sent, got>>
  BY DEF window
<1>2. /\ phone'.vq = phone.vq /\ phone'.vr = phone.vr /\ phone'.buf = phone.buf
      /\ phone'.final = phone.final
  BY DEF DownInv, Typed, Phones
<1>3. \A b : Place(b)' = Place(b) /\ Has(b)' = Has(b)
  BY <1>1, <1>2 DEF Place, Has
<1>4. Holds' /\ Close' /\ InOrder'
  BY <1>1, <1>3 DEF DownInv, Holds, Close, InOrder, WindowOpen, RoomForNext
<1>5. Begun' => Begun
  BY <1>1 DEF Begun
<1>6. PhoneInStep => PhoneInStep'
  BY <1>1, <1>2, <1>3 DEF PhoneInStep, Outstanding
<1>7. AckIsTrue => AckIsTrue'
  BY <1>1, <1>3 DEF AckIsTrue
<1> QED
  BY <1>4, <1>5, <1>6, <1>7 DEF DownInv

LEMMA WriteInv ==
  ASSUME DownInv, Write
  PROVE  DownInv'
<1>1. /\ written' = written + 1 /\ written < MaxPdu
      /\ msDownlinkQueue' = Append(msDownlinkQueue, written + 1)
      /\ UNCHANGED <<window, mDownFinished, mtState, mtN3105, poll, ack, mDownlinkPdu,
                     phone, high, got, sent, outcome>>
  BY DEF Write, marks, tbf, air
<1>2. Typed /\ Staged
  BY DEF DownInv
<1>3. written + 1 \in 1 .. MaxPdu
  BY <1>1, <1>2, RLCDownAssumption DEF Typed
<1> DEFINE w == written + 1
<1> HIDE DEF w
<1>4. msDownlinkQueue' \in Seq(Pdu) /\ msDownlinkQueue' # <<>>
  BY <1>1, <1>2, <1>3 DEF Typed, Pdu, w
<1>5. Typed'
  BY <1>1, <1>2, <1>3, <1>4 DEF Typed, WindowTypes, window
<1>6. Staged'
  BY <1>1, <1>2, <1>4 DEF Staged
<1> QED
  BY <1>1, <1>5, <1>6, StaysInStep DEF DownInv, Begun

LEMMA StartTbfInv ==
  ASSUME DownInv, StartTbf
  PROVE  DownInv'
<1>1. /\ mtState = "None" /\ msDownlinkQueue # <<>>
      /\ \/ mtState' = "DataWaiting1" /\ UNCHANGED msDownlinkQueue
         \/ msDownlinkQueue' = Tail(msDownlinkQueue) /\ UNCHANGED mtState
      /\ UNCHANGED <<window, mDownFinished, mtN3105, poll, ack, mDownlinkPdu, written,
                     phone, high, got, sent, outcome>>
  BY DEF StartTbf, marks, air
<1>2. Typed /\ Staged
  BY DEF DownInv
<1>3. msDownlinkQueue' \in Seq(Pdu)
  <2>1. msDownlinkQueue \in Seq(Pdu) /\ msDownlinkQueue # <<>>
    BY <1>1, <1>2 DEF Typed
  <2>2. Tail(msDownlinkQueue) \in Seq(Pdu)
    BY <2>1
  <2> QED
    BY <1>1, <2>1, <2>2
<1>4. Typed'
  BY <1>1, <1>2, <1>3 DEF Typed, WindowTypes, window, States
<1>5. Staged'
  BY <1>1, <1>2 DEF Staged
<1> QED
  BY <1>1, <1>4, <1>5, StaysInStep DEF DownInv, Begun

LEMMA AssignmentHeardInv ==
  ASSUME DownInv, AssignmentHeard
  PROVE  DownInv'
<1>1. /\ mtState = "DataWaiting1" /\ mtState' \in {"DataWaiting1", "DataTransmit"}
      /\ phone' = Phone0(TRUE)
      /\ UNCHANGED <<VS, VA, VB, TxQ, TxQNum, mDownFinished, mtN3105, poll, ack,
                     msDownlinkQueue, mDownlinkPdu, written, high, got, sent, outcome>>
  BY DEF AssignmentHeard, window, marks, queue
<1>2. Typed /\ Staged /\ Holds /\ Close /\ InOrder
  BY DEF DownInv
<1>3. /\ sent = <<>> /\ got = <<>> /\ TxQNum = 0 /\ poll = "none"
      /\ Len(sent) = 0 /\ Len(got) = 0
  <2>1. sent = <<>> /\ poll = "none" /\ TxQNum = 0
    BY <1>1, <1>2 DEF Staged, Close
  <2>2. Len(got) = 0 /\ got \in Seq(Pdu)
    BY <1>2, <2>1 DEF InOrder, Typed
  <2>3. got = <<>>
    BY <2>2
  <2> QED
    BY <2>1, <2>3
<1>4. Steps(0, 0) = 0 /\ 0 \in SN
  BY Size DEF Steps, SN
<1>5. /\ phone' \in Phones
      /\ phone'.vq = 0 /\ phone'.vr = 0 /\ ~phone'.final
      /\ \A b \in SN : phone'.buf[b] = None
  BY <1>1, <1>4 DEF Phone0, Phones
<1>6. Typed' /\ Staged'
  BY <1>1, <1>2, <1>5 DEF Typed, WindowTypes, Staged, States
<1>7. \A b : Place(b)' = Place(b)
  BY <1>1 DEF Place
<1>8. Holds' /\ Close' /\ InOrder'
  BY <1>1, <1>2, <1>7 DEF Holds, Close, InOrder, WindowOpen, RoomForNext
<1>9. Steps(TxQNum, VA) = 0
  BY <1>2, <1>3, StepsRange DEF Close, Typed, WindowTypes
<1>10. \A b \in SN : b \notin Outstanding'
  <2>1. VA \in SN /\ UNCHANGED <<VA, TxQNum>>
    BY <1>1, <1>2 DEF Typed, WindowTypes
  <2>2. \A b \in SN : Steps(b, VA) \in 0 .. SNS - 1
    BY <2>1, StepsRange
  <2>3. \A b \in SN : ~(Steps(b, VA) < 0)
    BY <2>2, Size
  <2> QED
    BY <1>9, <2>1, <2>3 DEF Outstanding
<1>11. PhoneInStep' /\ AckIsTrue'
  <2>1. /\ Steps(TxQNum', phone'.vq) = 0 /\ Steps(TxQNum', phone'.vr) = 0
        /\ Steps(TxQNum', VA') = 0 /\ Len(sent') - Len(got') = 0
        /\ phone'.buf[phone'.vq] = None
    <3>1. TxQNum' = 0 /\ VA' = VA /\ sent' = sent /\ got' = got /\ TxQNum = 0
      BY <1>1, <1>3
    <3>2. phone'.vq = 0 /\ phone'.vr = 0 /\ phone'.buf[0] = None
      BY <1>4, <1>5
    <3>3. Steps(TxQNum', phone'.vq) = 0 /\ Steps(TxQNum', phone'.vr) = 0
      BY <1>4, <3>1, <3>2
    <3>4. Steps(TxQNum', VA') = 0
      BY <1>9, <3>1
    <3>5. Len(sent') - Len(got') = 0
      BY <1>3, <3>1
    <3> QED
      BY <3>2, <3>3, <3>4, <3>5
  <2>2. PhoneInStep'
    <3>1. \A b \in Outstanding' : b \in SN
      BY DEF Outstanding
    <3> QED
      BY <1>5, <1>10, <2>1, <3>1 DEF PhoneInStep
  <2> QED
    BY <1>1, <1>3, <2>2 DEF AckIsTrue
<1> QED
  BY <1>6, <1>8, <1>11 DEF DownInv

(* Nothing of a new engine has been sent; the phone is not told yet.       *)
LEMMA NewEngineInv ==
  ASSUME DownInv, NewEngine, mtState' \in {"None", "DataWaiting1"},
         msDownlinkQueue' \in Seq(Pdu),
         mtState' = "DataWaiting1" => msDownlinkQueue' # <<>>,
         UNCHANGED <<written, phone, high>>
  PROVE  DownInv'
<1>1. /\ VS' = 0 /\ VA' = 0 /\ TxQNum' = 0
      /\ VB' = [b \in SN |-> FALSE] /\ TxQ' = [b \in SN |-> None]
      /\ mDownFinished' = FALSE /\ mtN3105' = 0 /\ poll' = "none"
      /\ sent' = <<>> /\ got' = <<>> /\ outcome' = "open"
  BY DEF NewEngine
<1>2. Typed
  BY DEF DownInv
<1>3. Steps(0, 0) = 0 /\ 0 \in SN
  BY Size DEF Steps, SN
<1>4. Typed'
  <2>1. /\ VB' \in [SN -> BOOLEAN] /\ TxQ' \in [SN -> Block \cup {None}]
        /\ <<>> \in Seq(Pdu)
    BY <1>1
  <2> QED
    BY <1>1, <1>2, <1>3, <2>1 DEF Typed, WindowTypes, States, Polls
<1>5. Staged'
  BY <1>1 DEF Staged
<1>6. Holds'
  <2>1. \A b \in SN : b # TxQNum' => ~(Place(b)' >= 1)
    <3>1. \A b \in SN : Steps(0, b) \in 0 .. SNS - 1 /\ (Steps(0, b) = 0 <=> 0 = b)
      BY <1>3, StepsRange
    <3>2. \A b \in SN : Place(b)' = 1 - Steps(0, b)
      BY <1>1, <1>3, <3>1, Size DEF Place
    <3> QED
      BY <1>1, <3>1, <3>2, Size
  <2>2. \A b \in SN : TxQ'[b] = None
    BY <1>1
  <2> QED
    BY <1>1, <2>1, <2>2 DEF Holds
<1>7. Close' /\ InOrder'
  BY <1>1, <1>3, Size DEF Close, InOrder, WindowOpen, RoomForNext
<1>8. ~Begun'
  BY <1>1 DEF Begun
<1> QED
  BY <1>4, <1>5, <1>6, <1>7, <1>8 DEF DownInv

LEMMA DetachInv ==
  ASSUME DownInv, Detach
  PROVE  DownInv'
BY NewEngineInv DEF Detach, DownInv, Typed

LEMMA EndsInv ==
  ASSUME DownInv, AssignmentFails \/ NonResponsive
  PROVE  DownInv'
<1>1. /\ mtState' = "Dead" /\ outcome' = "failed"
      /\ UNCHANGED <<window, mDownFinished, mtN3105, poll, ack, msDownlinkQueue,
                     mDownlinkPdu, written, phone, high, got, sent>>
  BY DEF AssignmentFails, NonResponsive, marks, air, queue
<1>2. Typed /\ Staged
  BY DEF DownInv
<1>3. Typed' /\ Staged'
  BY <1>1, <1>2 DEF Typed, WindowTypes, window, States, Staged
<1> QED
  BY <1>1, <1>3, StaysInStep DEF DownInv

LEMMA PollInv ==
  ASSUME DownInv, PollExpires \/ ReleaseAnswered
  PROVE  DownInv'
<1>1. /\ poll' \in {"none", "released"} /\ mtN3105' \in {mtN3105, 0}
      /\ poll \notin {"none", "released"}
      /\ UNCHANGED <<window, mDownFinished, mtState, msDownlinkQueue,
                     mDownlinkPdu, written, phone, high, got, sent, outcome>>
  BY DEF PollExpires, ReleaseAnswered, marks, air, queue
<1>2. Typed /\ Staged
  BY DEF DownInv
<1>3. Typed' /\ Staged'
  BY <1>1, <1>2 DEF Typed, WindowTypes, window, Polls, Staged
<1> QED
  BY <1>1, <1>3, StaysInStep DEF DownInv, Begun

LEMMA SendReleaseInv ==
  ASSUME DownInv, NEW heard \in BOOLEAN, SendRelease(heard)
  PROVE  DownInv'
<1>1. /\ mtState = "TbfRelease" /\ poll' \in {"told", "unheard"}
      /\ phone' \in {phone, [phone EXCEPT !.on = FALSE]}
      /\ UNCHANGED <<window, mDownFinished, mtState, mtN3105, msDownlinkQueue,
                     mDownlinkPdu, written, high, got, sent, outcome>>
  BY DEF SendRelease, marks, queue
<1>2. Typed /\ Staged
  BY DEF DownInv
<1>3. phone' \in Phones
  BY <1>1, <1>2 DEF Typed, Phones
<1>4. Typed' /\ Staged'
  BY <1>1, <1>2, <1>3 DEF Typed, WindowTypes, window, Polls, Staged
<1> QED
  BY <1>1, <1>4, StaysInStep DEF DownInv, Begun

LEMMA N3105ExceededInv ==
  ASSUME DownInv, N3105Exceeded
  PROVE  DownInv'
<1>1. /\ mtState = "DataTransmit" /\ mtN3105 > N3105Max
      /\ mtState' = "TbfRelease" /\ outcome' = "failed"
      /\ UNCHANGED <<window, mDownFinished, mtN3105, poll, ack, msDownlinkQueue,
                     mDownlinkPdu, written, phone, high, got, sent>>
  BY DEF N3105Exceeded, CancelForRelease, marks, air, queue
<1>2. Typed /\ Staged
  BY DEF DownInv
<1>3. sent # <<>>
  BY <1>1, <1>2, RLCDownAssumption DEF Staged
<1>4. Typed' /\ Staged'
  BY <1>1, <1>2, <1>3 DEF Typed, WindowTypes, window, States, Staged
<1> QED
  BY <1>1, <1>4, StaysInStep DEF DownInv, Begun

LEMMA ReleaseEndsInv ==
  ASSUME DownInv, ReleaseEnds
  PROVE  DownInv'
<1>1. mtState = "TbfRelease" /\ mtRetry
  BY DEF ReleaseEnds
<1>2. Typed /\ Staged
  BY DEF DownInv
<1>3. sent # <<>> /\ mDownlinkPdu \in Pdu
  <2>1. sent # <<>> /\ mDownlinkPdu = sent[Len(sent)]
    BY <1>1, <1>2 DEF Staged
  <2>2. sent \in Seq(Pdu)
    BY <1>2 DEF Typed
  <2>3. sent[Len(sent)] \in Pdu
    BY <2>1, <2>2
  <2> QED
    BY <2>1, <2>3
<1>4. CASE /\ NewEngine /\ mtState' = "DataWaiting1"
           /\ msDownlinkQueue' = <<mDownlinkPdu>> \o msDownlinkQueue
           /\ UNCHANGED <<written, phone, high>>
  <2>1. msDownlinkQueue' \in Seq(Pdu) /\ msDownlinkQueue' # <<>>
    BY <1>2, <1>3, <1>4 DEF Typed
  <2> QED
    BY <1>4, <2>1, NewEngineInv
<1>5. CASE /\ mtState' = "Dead" /\ poll' = "none"
           /\ UNCHANGED <<window, marks, mtN3105, msDownlinkQueue, sent, got, outcome,
                          written, phone, high>>
  <2>1. Typed' /\ Staged'
    BY <1>1, <1>2, <1>3, <1>5 DEF Typed, WindowTypes, window, marks, States, Polls, Staged
  <2> QED
    BY <1>5, <2>1, StaysInStep DEF DownInv, marks
<1> QED
  BY <1>1, <1>4, <1>5 DEF mtRetry

-----------------------------------------------------------------------------
(* Acknowledgements                                                        *)

LEMMA Sizes ==
  ASSUME Typed
  PROVE  /\ Len(sent) \in Nat /\ Len(got) \in Nat
         /\ (sent = <<>> <=> Len(sent) = 0)
         /\ VA \in SN /\ VS \in SN /\ TxQNum \in SN
         /\ phone.vq \in SN /\ phone.vr \in SN
         /\ \A b \in SN : Steps(TxQNum, b) \in 0 .. SNS - 1
         /\ \A b \in SN : Place(b) = Len(sent) - Steps(TxQNum, b) + 1
         /\ \A b \in SN : Place(b) \in Int
<1>1. sent \in Seq(Pdu) /\ got \in Seq(Pdu) /\ VA \in SN /\ VS \in SN /\ TxQNum \in SN
  BY DEF Typed, WindowTypes
<1>2. phone.vq \in SN /\ phone.vr \in SN
  BY DEF Typed, Phones
<1>3. Len(sent) \in Nat /\ Len(got) \in Nat /\ (sent = <<>> <=> Len(sent) = 0)
  BY <1>1
<1>4. \A b \in SN : Steps(TxQNum, b) \in 0 .. SNS - 1
  BY <1>1, StepsRange
<1>5. \A b \in SN : Place(b) = Len(sent) - Steps(TxQNum, b) + 1
  BY DEF Place
<1> QED
  BY <1>1, <1>2, <1>3, <1>4, <1>5, Size

(* What is outstanding has been sent, and lies before TxQNum.              *)
LEMMA OutstandingPlace ==
  ASSUME Typed, Close, NEW b \in Outstanding
  PROVE  b \in SN /\ Steps(TxQNum, b) \in 1 .. Steps(TxQNum, VA)
<1>1. /\ b \in SN /\ Steps(b, VA) < Steps(TxQNum, VA)
      /\ VA \in SN /\ TxQNum \in SN
  BY Sizes DEF Outstanding
<1> QED
  BY <1>1, Size DEF SN, Steps

LEMMA IsOutstanding ==
  ASSUME Typed, NEW b \in SN, Steps(TxQNum, b) \in 1 .. Steps(TxQNum, VA)
  PROVE  b \in Outstanding
<1>1. VA \in SN /\ TxQNum \in SN
  BY Sizes
<1>2. Steps(b, VA) < Steps(TxQNum, VA)
  BY <1>1, Size DEF SN, Steps
<1> QED
  BY <1>2 DEF Outstanding

LEMMA PhoneAnswersInv ==
  ASSUME DownInv, PhoneAnswers
  PROVE  DownInv'
<1>1. /\ poll = "heard" /\ poll' = "answered"
      /\ ack' = [ssn |-> phone.vr, acked |-> Bitmap, final |-> phone.final]
      /\ UNCHANGED <<VS, VA, VB, TxQ, TxQNum, mDownFinished, mtState, mtN3105,
                     msDownlinkQueue, mDownlinkPdu, written, phone, high, got, sent, outcome>>
  BY DEF PhoneAnswers, window, marks, queue, air
<1>2. Typed /\ Staged /\ Holds /\ Close /\ InOrder
  BY DEF DownInv
<1>3. sent # <<>> /\ mtState # "Finished"
  BY <1>1, <1>2 DEF Staged
<1>4. PhoneInStep
  BY <1>3 DEF DownInv, Begun
<1>5. Typed' /\ Staged'
  BY <1>1, <1>2, <1>3 DEF Typed, WindowTypes, Polls, Staged
<1>6. \A b : Place(b)' = Place(b) /\ Has(b)' = Has(b)
  BY <1>1 DEF Place, Has
<1>7. Holds' /\ Close' /\ InOrder'
  BY <1>1, <1>2, <1>6 DEF Holds, Close, InOrder, WindowOpen, RoomForNext
<1>8. PhoneInStep'
  BY <1>1, <1>4, <1>6 DEF PhoneInStep, Outstanding
<1>9. /\ Steps(TxQNum, phone.vr) <= Steps(TxQNum, phone.vq)
      /\ Steps(TxQNum, phone.vq) <= Steps(TxQNum, VA)
      /\ Steps(TxQNum, VA) <= WS - 1
      /\ Steps(TxQNum, phone.vq) = Len(sent) - Len(got)
  BY <1>2, <1>4 DEF PhoneInStep, Close, WindowOpen
<1>10. /\ phone.vq \in SN /\ phone.vr \in SN /\ TxQNum \in SN /\ VA \in SN
       /\ Len(sent) \in Nat /\ Len(got) \in Nat
       /\ Steps(TxQNum, phone.vr) \in 0 .. SNS - 1
       /\ Steps(TxQNum, phone.vq) \in 0 .. SNS - 1
       /\ Steps(TxQNum, VA) \in 0 .. SNS - 1
       /\ Steps(phone.vr, phone.vq) = Steps(TxQNum, phone.vq) - Steps(TxQNum, phone.vr)
  BY <1>2, <1>9, Sizes, StepsBetween
<1>11. ASSUME NEW b \in Bitmap
       PROVE  b \in SN /\ Steps(phone.vr, b) \in 1 .. WS /\ Has(b)
  <2>1. /\ b \in SN /\ Steps(phone.vr, b) \in 1 .. WS
        /\ \/ phone.buf[b] # None
           \/ Steps(phone.vr, b) - Steps(phone.vr, phone.vq) >= 1
    BY DEF Bitmap
  <2>2. Steps(TxQNum, b) = Steps(TxQNum, phone.vr) + Steps(phone.vr, b)
    <3>1. Steps(TxQNum, phone.vr) + Steps(phone.vr, b) < SNS
      BY <1>9, <1>10, <2>1, Size
    <3> QED
      BY <1>10, <2>1, <3>1, StepsSum
  <2>3. Place(b) = Len(sent) - Steps(TxQNum, b) + 1
    BY DEF Place
  <2>4. Steps(phone.vr, b) - Steps(phone.vr, phone.vq) >= 1 => Place(b) <= Len(got)
    BY <1>9, <1>10, <2>1, <2>2, <2>3
  <2> QED
    BY <2>1, <2>4 DEF Has
<1>12. AckIsTrue'
  <2>1. /\ ack'.ssn = phone.vr /\ ack'.acked = Bitmap /\ ack'.final = phone.final
        /\ TxQNum' = TxQNum /\ VA' = VA /\ sent' = sent /\ got' = got
        /\ mDownFinished' = mDownFinished
    BY <1>1
  <2>2. /\ phone.final => Len(got) = Len(sent) /\ mDownFinished
        /\ Steps(TxQNum, phone.vr) <= Steps(TxQNum, VA)
    BY <1>4, <1>9, <1>10 DEF PhoneInStep
  <2>3. Bitmap \subseteq SN
    BY DEF Bitmap
  <2>4. \A b \in Bitmap : Steps(phone.vr, b) \in 1 .. WS /\ Has(b)'
    BY <1>6, <1>11
  <2> QED
    BY <1>10, <2>1, <2>2, <2>3, <2>4 DEF AckIsTrue
<1> QED
  BY <1>5, <1>7, <1>8, <1>12 DEF DownInv

(* Every bit that an answer sets is true.                                  *)
LEMMA MarksAreTrue ==
  ASSUME Typed, Close, PhoneInStep, AckIsTrue, poll = "answered",
         \/ VB' = [b \in SN |-> VB[b] \/ b \in ack.acked]
         \/ ack.final /\ VB' = [b \in SN |-> TRUE]
  PROVE  /\ VB' \in [SN -> BOOLEAN]
         /\ \A b \in Outstanding : VB'[b] => Has(b)
<1>1. VB' \in [SN -> BOOLEAN]
  <2>1. \A b \in SN : VB[b] \in BOOLEAN
    BY DEF Typed
  <2> QED
    BY <2>1
<1>2. ASSUME NEW b \in Outstanding, VB'[b]
      PROVE  Has(b)
  <2>1. b \in SN /\ Steps(TxQNum, b) \in 1 .. Steps(TxQNum, VA)
    BY OutstandingPlace
  <2>2. CASE VB[b]
    BY <2>2 DEF PhoneInStep
  <2>3. CASE b \in ack.acked
    BY <2>3 DEF AckIsTrue
  <2>4. CASE ack.final
    <3>1. Len(got) = Len(sent)
      BY <2>4 DEF AckIsTrue
    <3>2. Place(b) = Len(sent) - Steps(TxQNum, b) + 1 /\ Len(sent) \in Nat
      BY <2>1, Sizes
    <3>3. Steps(TxQNum, b) \in Nat /\ Steps(TxQNum, b) >= 1
      BY <2>1
    <3>4. Place(b) <= Len(got)
      BY <3>1, <3>2, <3>3
    <3> QED
      BY <3>4 DEF Has
  <2> QED
    BY <1>2, <2>1, <2>2, <2>3, <2>4
<1> QED
  BY <1>1, <1>2

(* VA does not pass what the phone has not delivered.                      *)
LEMMA AdvanceIsTrue ==
  ASSUME Typed, Close, PhoneInStep, advanceVA,
         \A b \in Outstanding : VB'[b] => Has(b)
  PROVE  /\ VA' \in SN
         /\ Steps(TxQNum, VA') <= Steps(TxQNum, VA)
         /\ Steps(TxQNum, phone.vq) <= Steps(TxQNum, VA')
<1>1. PICK k \in 0 .. SNS - 1 :
        /\ \A j \in 0 .. k - 1 : addSN(VA, j) # TxQNum /\ VB'[addSN(VA, j)]
        /\ VA' = addSN(VA, k)
  BY DEF advanceVA
<1> DEFINE end == Steps(TxQNum, VA)
           vq == phone.vq
<1>2. VA \in SN /\ TxQNum \in SN /\ vq \in SN /\ end \in 0 .. SNS - 1
  BY Sizes
<1>3. k <= end
  <2> SUFFICES ASSUME k > end
               PROVE  FALSE
    BY <1>2, Size
  <2>1. end \in 0 .. k - 1
    BY <1>2, Size
  <2>2. addSN(VA, end) = TxQNum
    BY <1>2, StepsRange
  <2> QED
    BY <1>1, <2>1, <2>2
<1>4. VA' \in SN /\ Steps(TxQNum, VA') = end - k
  BY <1>1, <1>2, <1>3, StepsAfterAdvance, AddIsSN
<1>5. Steps(TxQNum, vq) \in 0 .. SNS - 1 /\ Steps(TxQNum, vq) <= end
  BY <1>2, StepsRange DEF PhoneInStep
<1>6. Steps(TxQNum, vq) <= end - k
  <2> SUFFICES ASSUME Steps(TxQNum, vq) > end - k
               PROVE  FALSE
    BY <1>2, <1>3, <1>5, Size
  <2> DEFINE j == end - Steps(TxQNum, vq)
  <2>1. j \in 0 .. k - 1 /\ j \in 0 .. SNS - 1 /\ j <= end
    BY <1>2, <1>3, <1>5, Size
  <2>2. Steps(TxQNum, addSN(VA, j)) = end - j /\ addSN(VA, j) \in SN
    BY <1>2, <2>1, StepsAfterAdvance, AddIsSN
  <2>3. addSN(VA, j) = vq
    <3>1. end - j = Steps(TxQNum, vq)
      BY <1>2, <1>5
    <3> QED
      BY <1>2, <2>2, <3>1, StepsInjective
  <2>4. VB'[vq] /\ vq # TxQNum
    BY <1>1, <2>1, <2>3
  <2>5. Steps(TxQNum, vq) # 0
    BY <1>2, <2>4, StepsRange
  <2>6. vq \in Outstanding
    BY <1>2, <1>5, <2>5, IsOutstanding
  <2>7. Has(vq)
    BY <2>4, <2>6
  <2>8. Place(vq) = Len(got) + 1 /\ Len(got) \in Nat
    <3>1. Steps(TxQNum, vq) = Len(sent) - Len(got)
      BY DEF PhoneInStep
    <3>2. Place(vq) = Len(sent) - Steps(TxQNum, vq) + 1
      BY <1>2, Sizes
    <3> QED
      BY <3>1, <3>2, Sizes
  <2>9. phone.buf[vq] = None
    BY DEF PhoneInStep
  <2> QED
    BY <2>7, <2>8, <2>9 DEF Has
<1> QED
  BY <1>2, <1>3, <1>4, <1>6

(* VS goes on, and not past the end, or begins anew.                       *)
LEMMA AdvanceVSStays ==
  ASSUME NEW from \in SN, NEW stalled, TxQNum' \in SN, advanceVS(from, stalled)
  PROVE  \/ VS' = VA'
         \/ VS' \in SN /\ Steps(TxQNum', VS') <= Steps(TxQNum', from)
<1>1. PICK k \in 0 .. SNS - 1 :
        /\ \A j \in 0 .. k - 1 : addSN(from, j) # TxQNum'
        /\ VS' = VA' \/ VS' = addSN(from, k)
  BY DEF advanceVS
<1> DEFINE end == Steps(TxQNum', from)
<1>2. end \in 0 .. SNS - 1 /\ addSN(from, end) = TxQNum'
  BY StepsRange
<1>3. k <= end
  <2> SUFFICES ASSUME k > end
               PROVE  FALSE
    BY <1>2, Size
  <2>1. end \in 0 .. k - 1
    BY <1>2, Size
  <2> QED
    BY <1>1, <1>2, <2>1
<1>4. addSN(from, k) \in SN /\ Steps(TxQNum', addSN(from, k)) = end - k
  BY <1>3, StepsAfterAdvance, AddIsSN
<1> QED
  BY <1>1, <1>2, <1>3, <1>4

LEMMA RecvInv ==
  ASSUME DownInv, engineRecvAckNack
  PROVE  DownInv' /\ (mtState' = "Finished" => Len(got) = Len(sent))
<1> DEFINE union == VB' = [b \in SN |-> VB[b] \/ b \in ack.acked]
           final == ack.final /\ VB' = [b \in SN |-> TRUE]
<1>1. /\ poll = "answered" /\ poll' = "none" /\ mtN3105' = 0
      /\ UNCHANGED <<TxQ, TxQNum, mDownFinished, msDownlinkQueue, mDownlinkPdu, written,
                     phone, high, got, sent>>
  BY DEF engineRecvAckNack, queue, air
<1>2. Typed /\ Staged /\ Holds /\ Close /\ InOrder
  BY DEF DownInv
<1>3. sent # <<>> /\ mtState \in {"DataTransmit", "TbfRelease", "Dead"}
  BY <1>1, <1>2 DEF Staged, Typed, States
<1>4. PhoneInStep /\ AckIsTrue
  BY <1>3 DEF DownInv, Begun
<1>5. \/ /\ CancelForRelease /\ union /\ UNCHANGED <<VS, VA>>
      \/ /\ union \/ final
         /\ advanceVA
         /\ \/ VA' = TxQNum /\ UNCHANGED VS
            \/ advanceVS(VA', FALSE)
         /\ \/ VA' = TxQNum /\ mtState' = "Finished" /\ outcome' = "success"
            \/ UNCHANGED <<mtState, outcome>>
  <2>1. CASE Stuck
    BY <2>1 DEF engineRecvAckNack
  <2>2. CASE ~Stuck
    <3>1. union \/ final
      BY <2>2 DEF engineRecvAckNack, MarkAcked
    <3>2. /\ advanceVA
          /\ \/ VA' = TxQNum /\ UNCHANGED VS
             \/ advanceVS(VA', FALSE)
          /\ \/ VA' = TxQNum /\ mtState' = "Finished" /\ outcome' = "success"
             \/ UNCHANGED <<mtState, outcome>>
      BY <2>2 DEF engineRecvAckNack
    <3> QED
      BY <3>1, <3>2
  <2> QED
    BY <2>1, <2>2
<1>6. VB' \in [SN -> BOOLEAN] /\ \A b \in Outstanding : VB'[b] => Has(b)
  BY <1>1, <1>2, <1>4, <1>5, MarksAreTrue
<1>7. /\ VA' \in SN /\ Steps(TxQNum, VA') <= Steps(TxQNum, VA)
      /\ Steps(TxQNum, phone.vq) <= Steps(TxQNum, VA')
  <2>1. CASE UNCHANGED VA
    <3>1. VA \in SN /\ Steps(TxQNum, VA) \in 0 .. SNS - 1
      BY <1>2, Sizes
    <3> QED
      BY <1>4, <2>1, <3>1, Size DEF PhoneInStep
  <2>2. CASE advanceVA
    BY <1>2, <1>4, <1>6, <2>2, AdvanceIsTrue
  <2> QED
    BY <1>5, <2>1, <2>2
<1>8. WindowInv'
  BY <1>2, WindowAck DEF WindowInv, Typed, Close
<1>9. /\ TxQNum \in SN /\ VS \in SN /\ VA \in SN /\ phone.vq \in SN
      /\ Len(sent) \in Nat /\ Len(got) \in Nat
      /\ Steps(TxQNum, VA) \in 0 .. SNS - 1 /\ Steps(TxQNum, VA') \in 0 .. SNS - 1
      /\ Steps(TxQNum, phone.vq) \in 0 .. SNS - 1
      /\ Steps(TxQNum, phone.vq) = Len(sent) - Len(got)
  BY <1>2, <1>4, <1>7, Sizes DEF PhoneInStep
<1>10. mtState' = "Finished" => Len(got) = Len(sent)
  <2>1. VA' = TxQNum => Steps(TxQNum, VA') = 0
    BY <1>7, <1>9, StepsRange
  <2>2. mtState' = "Finished" => VA' = TxQNum
    BY <1>3, <1>5 DEF CancelForRelease
  <2> QED
    BY <1>7, <1>9, <2>1, <2>2, Size
<1>11. Typed'
  <2>1. mtState' \in States
    BY <1>2, <1>5 DEF CancelForRelease, States, Typed
  <2> QED
    BY <1>1, <1>2, <1>6, <1>8, <2>1 DEF Typed, WindowInv, Polls
<1>12. Staged'
  BY <1>1, <1>2, <1>3, <1>5 DEF Staged, CancelForRelease
<1>13. \A b : Place(b)' = Place(b) /\ Has(b)' = Has(b)
  BY <1>1 DEF Place, Has
<1>14. Holds' /\ InOrder'
  BY <1>1, <1>2, <1>13 DEF Holds, InOrder
<1>15. Steps(TxQNum', VS') <= WS - 1 /\ Steps(TxQNum', VS') <= Len(sent)
  <2>1. Steps(TxQNum, VS) <= WS - 1 /\ Steps(TxQNum, VS) <= Len(sent)
    BY <1>2 DEF Close
  <2>2. Steps(TxQNum, VA') <= WS - 1 /\ Steps(TxQNum, VA') <= Len(sent)
    <3>1. Steps(TxQNum, VA) <= WS - 1 /\ Steps(TxQNum, VA) <= Len(sent)
      BY <1>2 DEF Close, WindowOpen
    <3> QED
      BY <1>7, <1>9, <3>1, Size
  <2>3. CASE UNCHANGED VS
    BY <1>1, <2>1, <2>3
  <2>4. CASE advanceVS(VA', FALSE)
    <3>1. \/ VS' = VA'
          \/ VS' \in SN /\ Steps(TxQNum, VS') <= Steps(TxQNum, VA')
      BY <1>1, <1>7, <1>9, <2>4, AdvanceVSStays
    <3>2. VS' \in SN => Steps(TxQNum, VS') \in 0 .. SNS - 1
      BY <1>9, StepsRange
    <3> QED
      BY <1>1, <1>9, <2>2, <3>1, <3>2, Size
  <2> QED
    BY <1>5, <2>3, <2>4
<1>16. Close'
  <2>1. Steps(TxQNum, VA') <= Len(sent)
    BY <1>2, <1>7, <1>9, Size DEF Close
  <2> QED
    BY <1>1, <1>3, <1>8, <1>15, <2>1 DEF Close, WindowInv
<1>17. \A b \in Outstanding' : b \in Outstanding
  <2> SUFFICES ASSUME NEW b \in Outstanding'
               PROVE  b \in Outstanding
    OBVIOUS
  <2>1. b \in SN /\ Steps(TxQNum, b) \in 1 .. Steps(TxQNum, VA')
    <3>1. b \in SN /\ Steps(b, VA') < Steps(TxQNum, VA')
      BY <1>1 DEF Outstanding
    <3> QED
      BY <1>7, <1>9, <3>1, StepsInside
  <2>2. Steps(TxQNum, b) \in 1 .. Steps(TxQNum, VA)
    BY <1>7, <1>9, <2>1, Size
  <2> QED
    BY <1>2, <2>1, <2>2, IsOutstanding
<1>18. PhoneInStep'
  BY <1>1, <1>4, <1>6, <1>7, <1>13, <1>17 DEF PhoneInStep
<1>19. AckIsTrue'
  BY <1>1 DEF AckIsTrue
<1> QED
  BY <1>10, <1>11, <1>12, <1>14, <1>16, <1>18, <1>19 DEF DownInv

-----------------------------------------------------------------------------
(* A block is made                                                         *)

(* After the final block there is nothing to make.                         *)
LEMMA FreshIsNotFinished ==
  ASSUME DownInv, Fresh
  PROVE  ~mDownFinished
BY DEF DownInv, Holds, Fresh, PrevIsFinal

(* A TBF that has sent nothing has something to send.                      *)
LEMMA FreshAtFirst ==
  ASSUME DownInv, mtState = "DataTransmit", sent = <<>>
  PROVE  Fresh
<1>1. Typed /\ Staged /\ Holds /\ Close
  BY DEF DownInv
<1>2. msDownlinkQueue # <<>>
  BY <1>1 DEF Staged
<1>3. /\ Steps(TxQNum, VS) <= 0 /\ Steps(TxQNum, VS) \in 0 .. SNS - 1
      /\ VS \in SN /\ TxQNum \in SN
  BY <1>1, Sizes DEF Close
<1>4. VS = TxQNum
  BY <1>3, StepsRange, Size
<1>5. addSN(VS, -1) \in SN
  BY <1>3, OneBehind
<1>6. ~PrevIsFinal
  BY <1>1, <1>5 DEF Holds, PrevIsFinal
<1> QED
  BY <1>2, <1>4, <1>6 DEF Fresh

(* What a new block does to the numbers.                                   *)
LEMMA PlacesWithNew ==
  ASSUME Typed, TxQNum' = addSN(TxQNum, 1), Len(sent') = Len(sent) + 1
  PROVE  /\ TxQNum' \in SN /\ TxQNum' # TxQNum
         /\ Steps(TxQNum', TxQNum) = 1
         /\ \A b \in SN : b # TxQNum' =>
              /\ Steps(TxQNum', b) = Steps(TxQNum, b) + 1
              /\ Place(b)' = Place(b)
         /\ \A b \in SN : Steps(TxQNum, b) < SNS - 1 => b # TxQNum'
<1>1. TxQNum \in SN /\ Len(sent) \in Nat
  BY Sizes
<1>2. TxQNum' \in SN /\ TxQNum' # TxQNum /\ Steps(TxQNum', TxQNum) = 1
  BY <1>1, Size DEF SN, Steps, addSN
<1>3. \A b \in SN : b # TxQNum' => Steps(TxQNum', b) = Steps(TxQNum, b) + 1
  BY <1>1, Size DEF SN, Steps, addSN
<1>4. \A b \in SN : Steps(TxQNum, b) < SNS - 1 => b # TxQNum'
  BY <1>1, Size DEF SN, Steps, addSN
<1>5. ASSUME NEW b \in SN, b # TxQNum'
      PROVE  Place(b)' = Place(b)
  <2>1. Place(b)' = Len(sent') - Steps(TxQNum', b) + 1
    BY DEF Place
  <2>2. Place(b) = Len(sent) - Steps(TxQNum, b) + 1 /\ Steps(TxQNum, b) \in 0 .. SNS - 1
    BY Sizes
  <2>3. Steps(TxQNum', b) = Steps(TxQNum, b) + 1
    BY <1>3, <1>5
  <2> QED
    BY <1>1, <2>1, <2>2, <2>3, Size
<1> QED
  BY <1>2, <1>3, <1>4, <1>5

MakesBlock(block) ==
  /\ Fresh
  /\ block \in Block /\ block.pdu = Head(msDownlinkQueue)
  /\ TxQ' = [TxQ EXCEPT ![TxQNum] = block]
  /\ mDownFinished' = (mDownFinished \/ block.fbi)
  /\ sent' = Append(sent, block.pdu)
  /\ VB' = [VB EXCEPT ![TxQNum] = FALSE]
  /\ TxQNum' = addSN(TxQNum, 1)

LEMMA MadeIsHeld ==
  ASSUME DownInv, NEW block, MakesBlock(block)
  PROVE  /\ sent' \in Seq(Pdu) /\ Len(sent') = Len(sent) + 1
         /\ sent'[Len(sent) + 1] = block.pdu
         /\ \A i \in 1 .. Len(sent) : sent'[i] = sent[i]
         /\ TxQ' \in [SN -> Block \cup {None}] /\ VB' \in [SN -> BOOLEAN]
         /\ mDownFinished' \in BOOLEAN
         /\ Holds'
<1>1. Typed /\ Holds
  BY DEF DownInv
<1>2. /\ block \in Block /\ TxQ' = [TxQ EXCEPT ![TxQNum] = block]
      /\ sent' = Append(sent, block.pdu) /\ TxQNum' = addSN(TxQNum, 1)
      /\ ~mDownFinished /\ mDownFinished' = block.fbi
      /\ VB' = [VB EXCEPT ![TxQNum] = FALSE]
  <2>1. block \in Block /\ block.fbi \in BOOLEAN
    BY DEF MakesBlock, Block
  <2> QED
    BY <2>1, FreshIsNotFinished DEF MakesBlock
<1>3. block.pdu \in Pdu /\ block.fbi \in BOOLEAN
  BY <1>2 DEF Block
<1>4. sent \in Seq(Pdu) /\ TxQNum \in SN /\ Len(sent) \in Nat
  BY <1>1, Sizes DEF Typed
<1>5. /\ sent' \in Seq(Pdu) /\ Len(sent') = Len(sent) + 1
      /\ sent'[Len(sent) + 1] = block.pdu
      /\ \A i \in 1 .. Len(sent) : sent'[i] = sent[i]
  BY <1>2, <1>3, <1>4
<1>6. /\ TxQ' \in [SN -> Block \cup {None}] /\ VB' \in [SN -> BOOLEAN]
      /\ TxQ'[TxQNum] = block /\ block # None
      /\ \A b \in SN : b # TxQNum => TxQ'[b] = TxQ[b]
  <2>1. block # None
    BY <1>2, RLCDownAssumption
  <2>2. TxQ \in [SN -> Block \cup {None}] /\ VB \in [SN -> BOOLEAN]
    BY <1>1 DEF Typed
  <2> QED
    BY <1>2, <1>4, <2>1, <2>2
<1>7. /\ TxQNum' \in SN /\ TxQNum' # TxQNum /\ Steps(TxQNum', TxQNum) = 1
      /\ \A b \in SN : b # TxQNum' => Place(b)' = Place(b)
  BY <1>1, <1>2, <1>5, PlacesWithNew
<1>8. addSN(TxQNum', -1) = TxQNum
  <2>1. addSN(TxQNum', -1) \in SN /\ Steps(TxQNum', addSN(TxQNum', -1)) = 1
    BY <1>7, OneBehind
  <2> QED
    BY <1>4, <1>7, <2>1, StepsInjective
<1>9. Place(TxQNum) = Len(sent) + 1
  <2>1. Steps(TxQNum, TxQNum) = 0
    BY <1>4, StepsRange
  <2> QED
    BY <1>1, <1>4, <2>1, Sizes
<1>10. ASSUME NEW b \in SN, b # TxQNum', Place(b)' >= 1
       PROVE  TxQ'[b] # None /\ TxQ'[b].pdu = sent'[Place(b)']
  <2>1. Place(b)' = Place(b)
    BY <1>7, <1>10
  <2>2. CASE b = TxQNum
    BY <1>5, <1>6, <1>9, <2>1, <2>2
  <2>3. CASE b # TxQNum
    <3>1. TxQ[b] # None /\ TxQ[b].pdu = sent[Place(b)]
      BY <1>1, <1>10, <2>1, <2>3 DEF Holds
    <3>2. Place(b) \in 1 .. Len(sent)
      <4>1. Place(b) = Len(sent) - Steps(TxQNum, b) + 1 /\ Steps(TxQNum, b) \in 0 .. SNS - 1
        BY <1>1, Sizes
      <4>2. Steps(TxQNum, b) # 0
        BY <1>4, <2>3, StepsRange
      <4>3. Place(b) >= 1
        BY <1>10, <2>1
      <4> QED
        BY <1>4, <4>1, <4>2, <4>3, Size
    <3> QED
      BY <1>5, <1>6, <2>1, <2>3, <3>1, <3>2
  <2> QED
    BY <2>2, <2>3
<1>11. ASSUME NEW b \in SN, TxQ'[b] # None, TxQ'[b].fbi
       PROVE  b = addSN(TxQNum', -1) /\ mDownFinished'
  <2>1. CASE b = TxQNum
    BY <1>2, <1>6, <1>8, <1>11, <2>1
  <2>2. CASE b # TxQNum
    BY <1>1, <1>2, <1>6, <1>11, <2>2 DEF Holds
  <2> QED
    BY <2>1, <2>2
<1>12. mDownFinished' => sent' # <<>> /\ TxQ'[addSN(TxQNum', -1)] # None
                                      /\ TxQ'[addSN(TxQNum', -1)].fbi
  <2>1. sent' # <<>>
    BY <1>4, <1>5
  <2>2. mDownFinished' => TxQ'[TxQNum] # None /\ TxQ'[TxQNum].fbi
    BY <1>2, <1>6
  <2> QED
    BY <1>8, <2>1, <2>2
<1>13. Holds'
  BY <1>10, <1>11, <1>12 DEF Holds
<1> QED
  BY <1>2, <1>3, <1>5, <1>6, <1>13

LEMMA MadeInStep ==
  ASSUME DownInv, mtState = "DataTransmit", NEW block, MakesBlock(block),
         VA' = VA, ack' = ack, poll' = "answered" => poll = "answered"
  PROVE  StillInStep /\ AckStillTrue
<1>1. Typed /\ Close /\ InOrder /\ PhoneInStep /\ AckIsTrue
  BY DEF DownInv, Begun
<1>2. /\ Len(sent') = Len(sent) + 1 /\ \A i \in 1 .. Len(sent) : sent'[i] = sent[i]
  BY MadeIsHeld
<1>3. /\ TxQNum' = addSN(TxQNum, 1) /\ ~mDownFinished /\ VS = TxQNum
      /\ VB' = [VB EXCEPT ![TxQNum] = FALSE]
  BY FreshIsNotFinished DEF MakesBlock, Fresh
<1>4. /\ TxQNum \in SN /\ VA \in SN /\ phone.vq \in SN /\ phone.vr \in SN
      /\ Len(sent) \in Nat /\ Len(got) \in Nat
      /\ \A b \in SN : Steps(TxQNum, b) \in 0 .. SNS - 1
  BY <1>1, Sizes
<1>5. Steps(TxQNum, VA) < WS - 1
  BY <1>1, <1>3 DEF Close, RoomForNext
<1>6. /\ Steps(TxQNum, phone.vq) = Len(sent) - Len(got)
      /\ Steps(TxQNum, phone.vq) <= Steps(TxQNum, VA)
      /\ Steps(TxQNum, phone.vr) <= Steps(TxQNum, phone.vq)
      /\ phone.buf[phone.vq] = None /\ ~phone.final
      /\ \A b \in SN : phone.buf[b] # None =>
           /\ Steps(b, phone.vq) < Steps(phone.vr, phone.vq)
           /\ phone.buf[b].pdu = sent[Place(b)] /\ ~phone.buf[b].fbi
  BY <1>1, <1>3 DEF PhoneInStep
<1>7. /\ TxQNum' \in SN
      /\ \A b \in SN : Steps(TxQNum, b) < SNS - 1 =>
           /\ b # TxQNum'
           /\ Steps(TxQNum', b) = Steps(TxQNum, b) + 1
           /\ Place(b)' = Place(b)
  BY <1>1, <1>2, <1>3, PlacesWithNew
<1>8. /\ Steps(TxQNum', VA) = Steps(TxQNum, VA) + 1
      /\ Steps(TxQNum', phone.vq) = Steps(TxQNum, phone.vq) + 1
      /\ Steps(TxQNum', phone.vr) = Steps(TxQNum, phone.vr) + 1
  <2>1. \A b \in {VA, phone.vq, phone.vr} :
          b \in SN /\ Steps(TxQNum, b) < SNS - 1
    BY <1>4, <1>5, <1>6, Size
  <2> QED
    BY <1>7, <2>1
<1>9. \A b : Has(b) /\ Place(b)' = Place(b) => StillHas(b)
  BY DEF Has, StillHas
<1>10. ASSUME NEW b \in SN, phone.buf[b] # None
       PROVE  phone.buf[b].pdu = sent'[Place(b)']
  <2>1. Steps(b, phone.vq) < Steps(phone.vr, phone.vq)
    BY <1>6, <1>10
  <2>2. Steps(phone.vr, phone.vq) = Steps(TxQNum, phone.vq) - Steps(TxQNum, phone.vr)
    BY <1>4, <1>6, StepsBetween
  <2>3. Steps(b, phone.vq) < Steps(TxQNum, phone.vq)
    <3>1. Steps(b, phone.vq) \in 0 .. SNS - 1
      BY <1>4, StepsRange
    <3>2. Steps(TxQNum, phone.vr) \in 0 .. SNS - 1 /\ Steps(TxQNum, phone.vq) \in 0 .. SNS - 1
      BY <1>4
    <3> QED
      BY <2>1, <2>2, <3>1, <3>2, Size
  <2>4. Steps(TxQNum, b) \in 1 .. Steps(TxQNum, phone.vq)
    BY <1>4, <2>3, StepsInside
  <2>5. Steps(TxQNum, b) < SNS - 1
    BY <1>4, <1>5, <1>6, <2>4, Size
  <2>6. Place(b)' = Place(b) /\ Place(b) = Len(sent) - Steps(TxQNum, b) + 1
    BY <1>1, <1>7, <2>5, Sizes
  <2>7. Place(b) \in 1 .. Len(sent)
    BY <1>4, <1>6, <2>4, <2>6
  <2> QED
    BY <1>2, <1>6, <1>10, <2>6, <2>7
<1>11. ASSUME NEW b \in Outstanding', VB'[b]
       PROVE  StillHas(b)
  <2>1. b \in SN /\ Steps(b, VA) < Steps(TxQNum, VA) + 1 /\ Steps(b, VA) \in 0 .. SNS - 1
    BY <1>4, <1>8, StepsRange DEF Outstanding
  <2>2. b # TxQNum /\ VB[b]
    BY <1>1, <1>3, <1>4, <1>11, <2>1 DEF Typed
  <2>3. Steps(b, VA) # Steps(TxQNum, VA)
    BY <1>4, <2>1, <2>2, AheadInjective
  <2>4. b \in Outstanding
    BY <1>4, <2>1, <2>3, Size DEF Outstanding
  <2>5. Steps(TxQNum, b) \in 1 .. Steps(TxQNum, VA)
    BY <1>1, <2>4, OutstandingPlace
  <2>6. Place(b)' = Place(b)
    BY <1>4, <1>5, <1>7, <2>1, <2>5, Size
  <2> QED
    BY <1>1, <1>9, <2>2, <2>4, <2>6 DEF PhoneInStep
<1>12. StillInStep
  <2>1. /\ Steps(TxQNum', phone.vq) = Len(sent') - Len(got)
        /\ Steps(TxQNum', phone.vq) <= Steps(TxQNum', VA')
        /\ Steps(TxQNum', phone.vr) <= Steps(TxQNum', phone.vq)
    BY <1>2, <1>4, <1>6, <1>8
  <2> QED
    BY <1>6, <1>10, <1>11, <2>1 DEF StillInStep
<1>13. ASSUME poll' = "answered"
       PROVE  /\ ack.ssn \in SN /\ ack.acked \in SUBSET SN
              /\ Steps(TxQNum', ack.ssn) <= Steps(TxQNum', VA)
              /\ \A b \in ack.acked : Steps(ack.ssn, b) \in 1 .. WS /\ StillHas(b)
              /\ ~ack.final
  <2>1. /\ ack.ssn \in SN /\ ack.acked \in SUBSET SN
        /\ Steps(TxQNum, ack.ssn) <= Steps(TxQNum, VA)
        /\ \A b \in ack.acked : Steps(ack.ssn, b) \in 1 .. WS /\ Has(b)
        /\ ~ack.final
    BY <1>1, <1>3, <1>13 DEF AckIsTrue
  <2>2. Steps(TxQNum, ack.ssn) < SNS - 1
    BY <1>4, <1>5, <2>1, Size
  <2>3. Steps(TxQNum', ack.ssn) <= Steps(TxQNum', VA)
    BY <1>4, <1>7, <1>8, <2>1, <2>2
  <2>4. ASSUME NEW b \in ack.acked
        PROVE  StillHas(b)
    <3>1. b \in SN /\ Steps(ack.ssn, b) \in 1 .. WS /\ Has(b)
      BY <2>1
    <3>2. Steps(TxQNum, ack.ssn) + Steps(ack.ssn, b) < SNS - 1
      BY <1>4, <1>5, <2>1, <3>1, Size
    <3>3. Steps(TxQNum, b) = Steps(TxQNum, ack.ssn) + Steps(ack.ssn, b)
      <4>1. Steps(TxQNum, ack.ssn) \in 0 .. SNS - 1
        BY <1>4, <2>1
      <4>2. Steps(TxQNum, ack.ssn) + Steps(ack.ssn, b) < SNS
        BY <3>1, <3>2, <4>1, Size
      <4> QED
        BY <1>4, <2>1, <3>1, <4>2, StepsSum
    <3>4. Place(b)' = Place(b)
      BY <1>7, <3>1, <3>2, <3>3
    <3> QED
      BY <1>9, <3>1, <3>4
  <2> QED
    BY <2>1, <2>3, <2>4
<1>14. AckStillTrue
  BY <1>13 DEF AckStillTrue
<1> QED
  BY <1>12, <1>14

-----------------------------------------------------------------------------
(* A block is received                                                     *)

LEMMA Least ==
  ASSUME NEW T \in SUBSET Nat, T # {}
  PROVE  \E m \in T : \A n \in T : m <= n
<1> DEFINE R == OpToRel(<, Nat)
<1>1. \A m, n \in Nat : m < n => <<m, n>> \in R
  BY DEF OpToRel
<1>2. IsWellFoundedOn(R, Nat)
  BY NatLessThanWellFounded
<1> HIDE DEF R
<1>3. PICK m \in T : \A n \in T : ~ (<<n, m>> \in R)
  BY <1>2, WFMin
<1>4. ASSUME NEW n \in T
      PROVE  m <= n
  <2>1. m \in Nat /\ n \in Nat
    OBVIOUS
  <2>2. ~(n < m)
    BY <1>1, <1>3, <2>1, Zenon
  <2> QED
    BY <2>1, <2>2
<1> QED
  BY <1>4

(* From any number on there is a run of blocks, up to the first gap.       *)
LEMMA RunExists ==
  ASSUME NEW from \in SN, NEW buf
  PROVE  \E n \in 0 .. WS :
           /\ \A j \in 0 .. n - 1 : buf[addSN(from, j)] # None
           /\ n < WS => buf[addSN(from, n)] = None
<1> DEFINE T == {k \in Nat : k = WS \/ buf[addSN(from, k)] = None}
<1>1. T \in SUBSET Nat /\ WS \in T
  BY Size
<1> HIDE DEF T
<1>2. PICK n \in T : \A k \in T : n <= k
  BY <1>1, Least
<1>3. n \in Nat /\ n <= WS
  BY <1>1, <1>2
<1>4. n = WS \/ buf[addSN(from, n)] = None
  BY <1>2 DEF T
<1>5. \A j \in 0 .. n - 1 : buf[addSN(from, j)] # None
  <2> SUFFICES ASSUME NEW j \in 0 .. n - 1, buf[addSN(from, j)] = None
               PROVE  FALSE
    OBVIOUS
  <2>1. j \in Nat /\ j < n
    BY <1>3
  <2>2. j \in T
    BY <2>1 DEF T
  <2>3. n <= j
    BY <1>2, <2>2
  <2> QED
    BY <1>3, <2>1, <2>3
<1>6. n \in 0 .. WS /\ (n < WS => buf[addSN(from, n)] = None)
  BY <1>3, <1>4, Size
<1> QED
  BY <1>5, <1>6

(* What the phone does with a block of its window, n being the length of   *)
(* the run that it delivers.                                               *)
Takes(b, block, buf, n) ==
  /\ buf = [phone.buf EXCEPT ![b] = block]
  /\ n \in 0 .. WS
  /\ \A j \in 0 .. n - 1 : buf[addSN(phone.vq, j)] # None
  /\ n < WS => buf[addSN(phone.vq, n)] = None
  /\ Received(b, block) =
       [on |-> phone.on,
        vq |-> addSN(phone.vq, n),
        vr |-> IF Steps(b, phone.vq) >= Steps(phone.vr, phone.vq)
               THEN addSN(b, 1) ELSE phone.vr,
        buf |-> [c \in SN |-> IF c \in {addSN(phone.vq, j) : j \in 0 .. n - 1}
                              THEN None ELSE buf[c]],
        final |-> phone.final
                    \/ \E c \in {addSN(phone.vq, j) : j \in 0 .. n - 1} : buf[c].fbi]

LEMMA ReceivedTakes ==
  ASSUME phone \in Phones, NEW b \in SN, NEW block \in Block,
         Steps(b, phone.vq) < WS
  PROVE  \E buf, n : Takes(b, block, buf, n)
<1> DEFINE buf == [phone.buf EXCEPT ![b] = block]
           run(k) == /\ \A j \in 0 .. k - 1 : buf[addSN(phone.vq, j)] # None
                     /\ k < WS => buf[addSN(phone.vq, k)] = None
           n == CHOOSE k \in 0 .. WS : run(k)
           ready == {addSN(phone.vq, j) : j \in 0 .. n - 1}
<1>1. phone.vq \in SN
  BY DEF Phones
<1>2. \E k \in 0 .. WS : run(k)
  <2> HIDE DEF buf
  <2> QED
    BY <1>1, RunExists
<1>3. n \in 0 .. WS /\ run(n)
  <2> HIDE DEF run
  <2> QED
    BY <1>2
<1>4. Steps(b, phone.vq) \in 0 .. SNS - 1
  BY <1>1, StepsRange
<1>5. ~(Steps(b, phone.vq) >= WS)
  BY <1>4, Size
<1>6. Received(b, block) =
        [phone EXCEPT
           !.vq = addSN(@, n),
           !.vr = IF Steps(b, phone.vq) >= Steps(@, phone.vq) THEN addSN(b, 1) ELSE @,
           !.buf = [c \in SN |-> IF c \in ready THEN None ELSE buf[c]],
           !.final = @ \/ \E c \in ready : buf[c].fbi]
  BY <1>5 DEF Received
<1> HIDE DEF n
<1>7. Received(b, block) =
        [on |-> phone.on,
         vq |-> addSN(phone.vq, n),
         vr |-> IF Steps(b, phone.vq) >= Steps(phone.vr, phone.vq)
                THEN addSN(b, 1) ELSE phone.vr,
         buf |-> [c \in SN |-> IF c \in ready THEN None ELSE buf[c]],
         final |-> phone.final \/ \E c \in ready : buf[c].fbi]
  <2>1. phone = [on |-> phone.on, vq |-> phone.vq, vr |-> phone.vr,
                 buf |-> phone.buf, final |-> phone.final]
    BY DEF Phones
  <2> QED
    BY <1>6, <2>1
<1>8. Takes(b, block, buf, n)
  BY <1>3, <1>7 DEF Takes
<1> QED
  BY <1>8

(* A block that mbts sends is one of the last WS, as it was first sent.    *)
Sendable(b, block) ==
  /\ b \in SN /\ block \in Block
  /\ Steps(TxQNum', b) \in 1 .. WS
  /\ block.pdu = sent'[Place(b)']
  /\ block.fbi => Place(b)' = Len(sent') /\ mDownFinished'

(* What goes for both, the phone not having heard yet.                     *)
Ahead ==
  /\ phone \in Phones /\ got \in Seq(Pdu) /\ sent' \in Seq(Pdu)
  /\ TxQNum' \in SN /\ VA' \in SN
  /\ Steps(TxQNum', VA') <= WS - 1
  /\ StillInStep

LEMMA AheadNumbers ==
  ASSUME Ahead
  PROVE  /\ phone.vq \in SN /\ phone.vr \in SN
         /\ Len(got) \in Nat /\ Len(sent') \in Nat
         /\ Steps(TxQNum', phone.vq) \in 0 .. WS - 1
         /\ Steps(TxQNum', phone.vq) = Len(sent') - Len(got)
         /\ Steps(phone.vr, phone.vq) \in 0 .. SNS - 1
         /\ Steps(TxQNum', phone.vr) = Steps(TxQNum', phone.vq) - Steps(phone.vr, phone.vq)
         /\ \A c \in SN : Steps(c, phone.vq) < Steps(TxQNum', phone.vq) =>
              Place(c)' = Len(got) + Steps(c, phone.vq) + 1
<1>1. /\ phone.vq \in SN /\ phone.vr \in SN /\ TxQNum' \in SN /\ VA' \in SN
      /\ Len(got) \in Nat /\ Len(sent') \in Nat
  BY DEF Ahead, Phones
<1>2. /\ Steps(TxQNum', phone.vq) = Len(sent') - Len(got)
      /\ Steps(TxQNum', phone.vq) <= Steps(TxQNum', VA')
      /\ Steps(TxQNum', VA') <= WS - 1
      /\ Steps(TxQNum', phone.vr) <= Steps(TxQNum', phone.vq)
  BY DEF Ahead, StillInStep
<1>3. /\ Steps(TxQNum', phone.vq) \in 0 .. SNS - 1
      /\ Steps(TxQNum', phone.vr) \in 0 .. SNS - 1
      /\ Steps(TxQNum', VA') \in 0 .. SNS - 1
      /\ Steps(phone.vr, phone.vq) \in 0 .. SNS - 1
  BY <1>1, StepsRange
<1>4. Steps(TxQNum', phone.vq) \in 0 .. WS - 1
  BY <1>2, <1>3, Size
<1>5. Steps(TxQNum', phone.vr) = Steps(TxQNum', phone.vq) - Steps(phone.vr, phone.vq)
  <2>1. Steps(phone.vr, phone.vq) = Steps(TxQNum', phone.vq) - Steps(TxQNum', phone.vr)
    BY <1>1, <1>2, StepsBetween
  <2> QED
    BY <1>3, <2>1, Size
<1>6. ASSUME NEW c \in SN, Steps(c, phone.vq) < Steps(TxQNum', phone.vq)
      PROVE  Place(c)' = Len(got) + Steps(c, phone.vq) + 1
  <2>1. Steps(c, phone.vq) \in 0 .. SNS - 1 /\ Steps(TxQNum', c) \in 0 .. SNS - 1
    BY <1>1, StepsRange
  <2>2. Steps(TxQNum', phone.vq) = Steps(TxQNum', c) + Steps(c, phone.vq)
    <3>1. Steps(TxQNum', c) \in 1 .. Steps(TxQNum', phone.vq)
      BY <1>1, <1>6, StepsInside
    <3>2. Steps(c, phone.vq) = Steps(TxQNum', phone.vq) - Steps(TxQNum', c)
      <4>1. Steps(TxQNum', c) <= Steps(TxQNum', phone.vq)
        BY <1>3, <3>1
      <4> QED
        BY <1>1, <4>1, StepsBetween
    <3> QED
      BY <1>3, <2>1, <3>2, Size
  <2>3. Place(c)' = Len(sent') - Steps(TxQNum', c) + 1
    BY DEF Place
  <2> QED
    BY <1>1, <1>2, <2>1, <2>2, <2>3, Size
<1> QED
  BY <1>1, <1>2, <1>3, <1>4, <1>5, <1>6

(* A block of the phone's window lies before what mbts will send next.     *)
LEMMA TakenIsAhead ==
  ASSUME Ahead, NEW b, NEW block, Sendable(b, block), Steps(b, phone.vq) < WS,
         NEW buf, NEW n, Takes(b, block, buf, n)
  PROVE  /\ Steps(b, phone.vq) \in 0 .. Steps(TxQNum', phone.vq) - 1
         /\ Steps(TxQNum', b) = Steps(TxQNum', phone.vq) - Steps(b, phone.vq)
         /\ \A c \in SN : buf[c] # None =>
              /\ c = b \/ Steps(c, phone.vq) < Steps(phone.vr, phone.vq)
              /\ Steps(c, phone.vq) < Steps(TxQNum', phone.vq)
              /\ buf[c] \in Block
              /\ buf[c].pdu = sent'[Place(c)']
              /\ buf[c].fbi => Place(c)' = Len(sent') /\ mDownFinished'
         /\ n \in 0 .. Steps(TxQNum', phone.vq)
         /\ buf[addSN(phone.vq, n)] = None
<1> DEFINE vq == phone.vq
           R == Steps(TxQNum', vq)
<1>1. /\ b \in SN /\ block \in Block /\ Steps(TxQNum', b) \in 1 .. WS
      /\ block.pdu = sent'[Place(b)']
      /\ block.fbi => Place(b)' = Len(sent') /\ mDownFinished'
  BY DEF Sendable
<1>2. /\ vq \in SN /\ phone.vr \in SN /\ TxQNum' \in SN
      /\ R \in 0 .. WS - 1 /\ Steps(phone.vr, vq) \in 0 .. SNS - 1
      /\ Steps(TxQNum', phone.vr) = R - Steps(phone.vr, vq)
      /\ Steps(TxQNum', phone.vr) \in 0 .. SNS - 1
  BY AheadNumbers, StepsRange DEF Ahead
<1>3. /\ buf = [phone.buf EXCEPT ![b] = block] /\ n \in 0 .. WS
      /\ \A j \in 0 .. n - 1 : buf[addSN(vq, j)] # None
      /\ n < WS => buf[addSN(vq, n)] = None
  BY DEF Takes
<1>4. Steps(b, vq) \in 0 .. R - 1 /\ Steps(TxQNum', b) = R - Steps(b, vq)
  <2>1. Steps(b, vq) \in 0 .. SNS - 1
    BY <1>1, <1>2, StepsRange
  <2>2. Steps(TxQNum', b) + Steps(b, vq) < SNS
    BY <1>1, <2>1, Size
  <2>3. R = Steps(TxQNum', b) + Steps(b, vq)
    BY <1>1, <1>2, <2>2, StepsSum
  <2> QED
    BY <1>1, <1>2, <2>1, <2>3, Size
<1>5. ASSUME NEW c \in SN, buf[c] # None
      PROVE  /\ c = b \/ Steps(c, vq) < Steps(phone.vr, vq)
             /\ Steps(c, vq) < R
             /\ buf[c] \in Block
             /\ buf[c].pdu = sent'[Place(c)']
             /\ buf[c].fbi => Place(c)' = Len(sent') /\ mDownFinished'
  <2>1. phone.buf \in [SN -> Block \cup {None}]
    BY DEF Ahead, Phones
  <2>2. CASE c = b
    <3>1. buf[c] = block
      BY <1>3, <2>1, <2>2
    <3>2. Steps(c, vq) < R
      BY <1>2, <1>4, <2>2, Size
    <3> QED
      BY <1>1, <2>2, <3>1, <3>2
  <2>3. CASE c # b
    <3>1. buf[c] = phone.buf[c] /\ phone.buf[c] \in Block
      BY <1>3, <1>5, <2>1, <2>3
    <3>2. /\ Steps(c, vq) < Steps(phone.vr, vq)
          /\ phone.buf[c].pdu = sent'[Place(c)']
          /\ phone.buf[c].fbi => Place(c)' = Len(sent') /\ mDownFinished'
      BY <1>5, <3>1 DEF Ahead, StillInStep
    <3>3. Steps(c, vq) \in 0 .. SNS - 1
      BY <1>2, StepsRange
    <3>4. Steps(c, vq) < R
      BY <1>2, <3>2, <3>3, Size
    <3> QED
      BY <3>1, <3>2, <3>4
  <2> QED
    BY <2>2, <2>3
<1>6. buf[TxQNum'] = None
  BY <1>2, <1>5
<1>7. n \in 0 .. R
  <2> SUFFICES ASSUME n > R
               PROVE  FALSE
    BY <1>2, <1>3, Size
  <2>1. R \in 0 .. n - 1
    BY <1>2, <1>3, Size
  <2>2. addSN(vq, R) = TxQNum'
    BY <1>2, StepsRange
  <2> QED
    BY <1>3, <1>6, <2>1, <2>2
<1>8. buf[addSN(vq, n)] = None
  BY <1>2, <1>3, <1>7, Size
<1> QED
  BY <1>4, <1>5, <1>7, <1>8

(* What is delivered are the next blocks, in order.                        *)
LEMMA DeliveredInOrder ==
  ASSUME Ahead, NEW b, NEW block, Sendable(b, block), Steps(b, phone.vq) < WS,
         NEW buf, NEW n, Takes(b, block, buf, n),
         \A i \in 1 .. Len(got) : got[i] = sent'[i],
         got' = got \o Delivered(b, block)
  PROVE  /\ got' \in Seq(Pdu)
         /\ Len(got') = Len(got) + n
         /\ \A i \in 1 .. Len(got') : got'[i] = sent'[i]
<1> DEFINE vq == phone.vq
           R == Steps(TxQNum', vq)
<1>1. /\ vq \in SN /\ TxQNum' \in SN /\ R \in 0 .. WS - 1
      /\ got \in Seq(Pdu) /\ sent' \in Seq(Pdu) /\ Len(got) \in Nat /\ Len(sent') \in Nat
      /\ R = Len(sent') - Len(got)
  BY AheadNumbers DEF Ahead
<1>2. n \in 0 .. R
  BY TakenIsAhead
<1>3. n \in Nat /\ n \in 0 .. SNS - 1
  BY <1>1, <1>2, Size
<1>4. buf = [phone.buf EXCEPT ![b] = block] /\ Received(b, block).vq = addSN(vq, n)
      /\ \A j \in 0 .. n - 1 : buf[addSN(vq, j)] # None
  BY DEF Takes
<1>5. Steps(addSN(vq, n), vq) = n
  BY <1>1, <1>3, StepsOfAdd
<1>6. Delivered(b, block) = [j \in 1 .. n |-> buf[addSN(vq, j - 1)].pdu]
  BY <1>4, <1>5 DEF Delivered
<1>7. ASSUME NEW j \in 1 .. n
      PROVE  buf[addSN(vq, j - 1)].pdu = sent'[Len(got) + j] /\ Len(got) + j \in 1 .. Len(sent')
  <2>1. j - 1 \in 0 .. SNS - 1 /\ j - 1 \in 0 .. n - 1
    BY <1>3, Size
  <2>2. PICK c \in SN : c = addSN(vq, j - 1) /\ Steps(c, vq) = j - 1
    BY <1>1, <2>1, StepsOfAdd
  <2>3. buf[c] # None
    BY <1>4, <2>1, <2>2
  <2>4. buf[c].pdu = sent'[Place(c)'] /\ Steps(c, vq) < R
    BY <2>3, TakenIsAhead
  <2>5. Place(c)' = Len(got) + Steps(c, vq) + 1
    BY <2>4, AheadNumbers
  <2>6. Place(c)' = Len(got) + j
    BY <1>1, <2>2, <2>5
  <2>7. Len(got) + j \in 1 .. Len(sent')
    BY <1>1, <1>2
  <2> QED
    BY <2>2, <2>4, <2>6, <2>7
<1>8. Delivered(b, block) \in Seq(Pdu) /\ Len(Delivered(b, block)) = n
  <2>1. \A j \in 1 .. n : buf[addSN(vq, j - 1)].pdu \in Pdu
    BY <1>1, <1>7
  <2>2. Delivered(b, block) \in [1 .. n -> Pdu]
    BY <1>6, <2>1
  <2> QED
    BY <1>1, <1>2, <2>2
<1>9. got' \in Seq(Pdu) /\ Len(got') = Len(got) + n
  <2> DEFINE more == Delivered(b, block)
  <2>1. more \in Seq(Pdu) /\ Len(more) = n /\ got' = got \o more
    BY <1>8
  <2> HIDE DEF more
  <2> QED
    BY <1>1, <2>1
<1>10. ASSUME NEW i \in 1 .. Len(got')
       PROVE  got'[i] = sent'[i]
  <2>1. CASE i <= Len(got)
    <3>1. i \in 1 .. Len(got) /\ got'[i] = got[i]
      BY <1>1, <1>8, <2>1
    <3> QED
      BY <3>1
  <2>2. CASE i > Len(got)
    <3> DEFINE j == i - Len(got)
    <3>1. j \in 1 .. n /\ i = Len(got) + j
      BY <1>1, <1>2, <1>9, <2>2
    <3>2. got'[i] = Delivered(b, block)[j]
      BY <1>1, <1>8, <1>9, <2>2
    <3>3. Delivered(b, block)[j] = buf[addSN(vq, j - 1)].pdu
      BY <1>6, <3>1
    <3> HIDE DEF j
    <3> QED
      BY <1>7, <3>1, <3>2, <3>3
  <2> QED
    BY <1>1, <1>9, <2>1, <2>2
<1> QED
  BY <1>9, <1>10

LEMMA TakenInStep ==
  ASSUME Ahead, NEW b, NEW block, Sendable(b, block), Steps(b, phone.vq) < WS,
         NEW buf, NEW n, Takes(b, block, buf, n), Len(got') = Len(got) + n,
         phone' = Received(b, block)
  PROVE  phone' \in Phones /\ PhoneInStep' /\ \A c \in SN : StillHas(c) => Has(c)'
<1> DEFINE vq == phone.vq
           R == Steps(TxQNum', vq)
           ready == {addSN(vq, j) : j \in 0 .. n - 1}
<1>1. /\ vq \in SN /\ phone.vr \in SN /\ TxQNum' \in SN /\ VA' \in SN
      /\ R \in 0 .. WS - 1 /\ Len(got) \in Nat /\ Len(sent') \in Nat
      /\ R = Len(sent') - Len(got) /\ b \in SN
      /\ Steps(phone.vr, vq) \in 0 .. SNS - 1
      /\ Steps(TxQNum', phone.vr) = R - Steps(phone.vr, vq)
  BY AheadNumbers DEF Ahead, Sendable
<1>2. /\ Steps(b, vq) \in 0 .. R - 1
      /\ Steps(TxQNum', b) = R - Steps(b, vq)
      /\ n \in 0 .. R /\ buf[addSN(vq, n)] = None
  BY TakenIsAhead
<1>3. ASSUME NEW c \in SN, buf[c] # None
      PROVE  /\ c = b \/ Steps(c, vq) < Steps(phone.vr, vq)
             /\ Steps(c, vq) < R /\ Steps(c, vq) \in 0 .. SNS - 1
             /\ Place(c)' = Len(got) + Steps(c, vq) + 1
             /\ buf[c] \in Block
             /\ buf[c].pdu = sent'[Place(c)']
             /\ buf[c].fbi => Place(c)' = Len(sent') /\ mDownFinished'
  <2>1. /\ c = b \/ Steps(c, vq) < Steps(phone.vr, vq)
        /\ Steps(c, vq) < R
        /\ buf[c] \in Block
        /\ buf[c].pdu = sent'[Place(c)']
        /\ buf[c].fbi => Place(c)' = Len(sent') /\ mDownFinished'
    BY <1>3, TakenIsAhead
  <2> QED
    BY <1>1, <2>1, AheadNumbers, StepsRange
<1>4. /\ buf = [phone.buf EXCEPT ![b] = block]
      /\ \A j \in 0 .. n - 1 : buf[addSN(vq, j)] # None
      /\ phone'.on = phone.on /\ phone'.vq = addSN(vq, n)
      /\ phone'.vr = IF Steps(b, vq) >= Steps(phone.vr, vq) THEN addSN(b, 1) ELSE phone.vr
      /\ phone'.buf = [c \in SN |-> IF c \in ready THEN None ELSE buf[c]]
      /\ phone'.final = (phone.final \/ \E c \in ready : buf[c].fbi)
      /\ phone' = [on |-> phone'.on, vq |-> phone'.vq, vr |-> phone'.vr,
                   buf |-> phone'.buf, final |-> phone'.final]
  BY DEF Takes
<1>5. n \in Nat /\ n \in 0 .. SNS - 1 /\ n < SNS /\ R < SNS - 1
  BY <1>1, <1>2, Size
<1>6. \A c \in SN : c \in ready <=> Steps(c, vq) < n
  <2>1. ASSUME NEW j \in 0 .. n - 1
        PROVE  addSN(vq, j) \in SN /\ Steps(addSN(vq, j), vq) < n
    <3>1. j \in 0 .. SNS - 1 /\ j < n
      BY <1>5, Size
    <3> QED
      BY <1>1, <3>1, StepsOfAdd
  <2>2. ASSUME NEW c \in SN, Steps(c, vq) < n
        PROVE  c \in ready
    <3>1. Steps(c, vq) \in 0 .. SNS - 1 /\ addSN(vq, Steps(c, vq)) = c
      BY <1>1, StepsRange
    <3>2. Steps(c, vq) \in 0 .. n - 1
      BY <1>5, <2>2, <3>1, Size
    <3> QED
      BY <3>1, <3>2
  <2> QED
    BY <2>1, <2>2
<1>7. /\ phone'.vq \in SN /\ Steps(phone'.vq, vq) = n
      /\ Steps(TxQNum', phone'.vq) = R - n
  <2>1. addSN(vq, n) \in SN /\ Steps(addSN(vq, n), vq) = n
    BY <1>1, <1>5, StepsOfAdd
  <2>2. Steps(TxQNum', addSN(vq, n)) = R - n
    <3>1. n <= R
      BY <1>1, <1>2
    <3> QED
      BY <1>1, <1>5, <3>1, StepsAfterAdvance
  <2> QED
    BY <1>4, <2>1, <2>2
(* V(R) is beyond every block that the phone has.                          *)
<1>8. /\ phone'.vr \in SN
      /\ \A c \in SN : buf[c] # None => Steps(c, vq) < Steps(phone'.vr, vq)
      /\ Steps(TxQNum', phone'.vr) = R - Steps(phone'.vr, vq)
      /\ Steps(phone'.vr, vq) \in 0 .. SNS - 1
  <2>1. CASE Steps(b, vq) >= Steps(phone.vr, vq)
    <3>1. phone'.vr = addSN(b, 1)
      BY <1>4, <2>1
    <3>2. Steps(b, vq) < SNS - 1 /\ 1 \in 0 .. SNS - 1 /\ 1 <= Steps(TxQNum', b)
      BY <1>1, <1>2, <1>5, Size
    <3>3. phone'.vr \in SN /\ Steps(phone'.vr, vq) = Steps(b, vq) + 1
      BY <1>1, <3>1, <3>2, StepsAfterOne, StepsOfAdd
    <3>4. Steps(TxQNum', phone'.vr) = Steps(TxQNum', b) - 1
      BY <1>1, <3>1, <3>2, StepsAfterAdvance
    <3>5. ASSUME NEW c \in SN, buf[c] # None
          PROVE  Steps(c, vq) < Steps(phone'.vr, vq)
      <4>1. Steps(c, vq) <= Steps(b, vq)
        <5>1. c = b \/ Steps(c, vq) < Steps(phone.vr, vq)
          BY <1>3, <3>5
        <5>2. Steps(c, vq) \in 0 .. SNS - 1 /\ Steps(b, vq) \in 0 .. SNS - 1
          BY <1>1, StepsRange
        <5> QED
          BY <1>1, <2>1, <5>1, <5>2, Size
      <4> QED
        BY <1>1, <1>2, <1>3, <3>3, <3>5, <4>1
    <3>6. Steps(TxQNum', phone'.vr) = R - Steps(phone'.vr, vq)
      BY <1>1, <1>2, <3>3, <3>4
    <3>7. Steps(phone'.vr, vq) \in 0 .. SNS - 1
      BY <1>1, <3>3, StepsRange
    <3> QED
      BY <3>3, <3>5, <3>6, <3>7
  <2>2. CASE ~(Steps(b, vq) >= Steps(phone.vr, vq))
    <3>1. phone'.vr = phone.vr
      BY <1>4, <2>2
    <3>2. Steps(b, vq) < Steps(phone.vr, vq)
      BY <1>1, <1>2, <2>2
    <3> QED
      BY <1>1, <1>3, <3>1, <3>2
  <2> QED
    BY <2>1, <2>2
<1>9. n <= Steps(phone'.vr, vq)
  <2>1. CASE n = 0
    BY <1>8, <2>1
  <2>2. CASE n > 0
    <3> DEFINE c == addSN(vq, n - 1)
    <3>1. n - 1 \in 0 .. SNS - 1 /\ n - 1 \in 0 .. n - 1
      BY <1>5, <2>2, Size
    <3>2. c \in SN /\ Steps(c, vq) = n - 1 /\ buf[c] # None
      BY <1>1, <1>4, <3>1, StepsOfAdd
    <3>3. n - 1 < Steps(phone'.vr, vq)
      BY <1>8, <3>2
    <3> QED
      BY <1>5, <1>8, <3>3
  <2> QED
    BY <1>5, <2>1, <2>2
<1>10. Steps(phone'.vr, phone'.vq) = Steps(phone'.vr, vq) - n
  BY <1>1, <1>4, <1>5, <1>8, <1>9, StepsAfterAdvance
<1>11. Steps(TxQNum', phone'.vr) <= Steps(TxQNum', phone'.vq)
  BY <1>1, <1>5, <1>7, <1>8, <1>9
<1>12. phone'.buf[phone'.vq] = None
  BY <1>2, <1>4, <1>7
<1>13. ASSUME NEW c \in SN, phone'.buf[c] # None
       PROVE  /\ Steps(c, phone'.vq) < Steps(phone'.vr, phone'.vq)
              /\ phone'.buf[c].pdu = sent'[Place(c)']
              /\ phone'.buf[c].fbi => Place(c)' = Len(sent') /\ mDownFinished'
  <2>1. c \notin ready /\ phone'.buf[c] = buf[c] /\ buf[c] # None
    BY <1>4, <1>13
  <2>2. n <= Steps(c, vq) /\ Steps(c, vq) \in 0 .. SNS - 1
    BY <1>3, <1>5, <1>6, <2>1
  <2>3. Steps(c, phone'.vq) = Steps(c, vq) - n
    BY <1>1, <1>4, <1>5, <2>2, StepsAfterAdvance
  <2>4. Steps(c, vq) < Steps(phone'.vr, vq)
    BY <1>8, <2>1
  <2>5. Steps(c, phone'.vq) < Steps(phone'.vr, phone'.vq)
    BY <1>5, <1>8, <1>10, <2>2, <2>3, <2>4
  <2> QED
    BY <1>3, <2>1, <2>5
<1>14. ASSUME phone'.final
       PROVE  Len(got') = Len(sent') /\ mDownFinished'
  <2>1. CASE phone.final
    <3>1. Len(got) = Len(sent') /\ mDownFinished'
      BY <2>1 DEF Ahead, StillInStep
    <3>2. n = 0
      BY <1>1, <1>2, <3>1
    <3> QED
      BY <1>1, <3>1, <3>2
  <2>2. CASE \E c \in ready : buf[c].fbi
    <3>1. PICK j \in 0 .. n - 1 : buf[addSN(vq, j)].fbi
      BY <2>2
    <3>2. j \in 0 .. SNS - 1 /\ j < n
      BY <1>5, Size
    <3>3. PICK c \in SN : c = addSN(vq, j) /\ Steps(c, vq) = j
      BY <1>1, <3>2, StepsOfAdd
    <3>4. buf[c] # None /\ buf[c].fbi
      BY <1>4, <3>1, <3>3
    <3>5. Len(got) + j + 1 = Len(sent') /\ mDownFinished'
      BY <1>3, <3>3, <3>4
    <3>6. Len(got) + n = Len(sent')
      BY <1>1, <1>2, <1>5, <3>2, <3>5
    <3> QED
      BY <3>5, <3>6
  <2> QED
    BY <1>4, <1>14, <2>1, <2>2
<1>15. ASSUME NEW c \in SN, StillHas(c)
       PROVE  Has(c)'
  <2>1. Place(c)' <= Len(got) \/ phone.buf[c] # None
    BY <1>15 DEF StillHas
  <2>2. Place(c)' \in Int
    <3>1. Place(c)' = Len(sent') - Steps(TxQNum', c) + 1
      BY DEF Place
    <3>2. Steps(TxQNum', c) \in 0 .. SNS - 1
      BY <1>1, StepsRange
    <3> QED
      BY <1>1, <3>1, <3>2, Size
  <2>3. CASE Place(c)' <= Len(got)
    <3>1. Place(c)' <= Len(got')
      BY <1>1, <1>5, <2>2, <2>3
    <3> QED
      BY <3>1 DEF Has
  <2>4. CASE phone.buf[c] # None
    <3>1. buf[c] # None
      <4>1. phone.buf \in [SN -> Block \cup {None}] /\ block # None
        BY RLCDownAssumption DEF Ahead, Phones, Sendable
      <4> QED
        BY <1>4, <2>4, <4>1
    <3>2. CASE c \in ready
      <4>1. Steps(c, vq) < n /\ Place(c)' = Len(got) + Steps(c, vq) + 1
            /\ Steps(c, vq) \in 0 .. SNS - 1
        BY <1>3, <1>6, <3>1, <3>2
      <4>2. Place(c)' <= Len(got')
        BY <1>1, <1>5, <4>1
      <4> QED
        BY <4>2 DEF Has
    <3>3. CASE c \notin ready
      <4>1. phone'.buf[c] # None
        BY <1>4, <3>1, <3>3
      <4> QED
        BY <4>1 DEF Has
    <3> QED
      BY <3>2, <3>3
  <2> QED
    BY <2>1, <2>3, <2>4
<1>16. phone' \in Phones
  <2>1. phone.on \in BOOLEAN /\ phone.final \in BOOLEAN
    BY DEF Ahead, Phones
  <2>2. phone'.buf \in [SN -> Block \cup {None}]
    BY <1>3, <1>4
  <2>3. phone'.final \in BOOLEAN
    BY <1>4, <2>1
  <2> QED
    BY <1>4, <1>7, <1>8, <2>1, <2>2, <2>3 DEF Phones
<1>17. /\ Steps(TxQNum', phone'.vq) = Len(sent') - Len(got')
       /\ Steps(TxQNum', phone'.vq) <= Steps(TxQNum', VA')
  <2>1. R <= Steps(TxQNum', VA') /\ Steps(TxQNum', VA') \in 0 .. SNS - 1
    BY <1>1, StepsRange DEF Ahead, StillInStep
  <2> QED
    BY <1>1, <1>2, <1>5, <1>7, <2>1, Size
<1>18. \A c \in Outstanding' : VB'[c] => Has(c)'
  <2>1. \A c \in Outstanding' : c \in SN /\ (VB'[c] => StillHas(c))
    BY DEF Ahead, StillInStep, Outstanding
  <2> QED
    BY <1>15, <2>1
<1> HIDE DEF ready
<1> QED
  BY <1>11, <1>12, <1>13, <1>14, <1>15, <1>16, <1>17, <1>18 DEF PhoneInStep

(* A phone that hears nothing, or a block it has had, stays as it is.      *)
LEMMA StaysAhead ==
  ASSUME Ahead, phone' = phone, got' = got
  PROVE  phone' \in Phones /\ PhoneInStep' /\ \A c \in SN : StillHas(c) => Has(c)'
<1>1. \A c : StillHas(c) <=> Has(c)'
  BY DEF StillHas, Has
<1>2. StillInStep
  BY DEF Ahead
<1> QED
  BY <1>1, <1>2 DEF Ahead, StillInStep, PhoneInStep

LEMMA OnAirInStep ==
  ASSUME Ahead, NEW b, NEW block, Sendable(b, block), NEW heard,
         OnAir(b, block, heard), high \in Nat,
         \A i \in 1 .. Len(got) : got[i] = sent'[i]
  PROVE  /\ phone' \in Phones /\ got' \in Seq(Pdu) /\ high' \in Nat
         /\ InOrder' /\ PhoneInStep' /\ Len(got) <= Len(got')
         /\ \A c \in SN : StillHas(c) => Has(c)'
<1>1. got \in Seq(Pdu) /\ Len(got) \in Nat /\ Len(sent') \in Nat
  BY AheadNumbers DEF Ahead
<1>2. /\ got' \in Seq(Pdu) /\ Len(got) <= Len(got')
      /\ \A i \in 1 .. Len(got') : got'[i] = sent'[i]
      /\ phone' \in Phones /\ PhoneInStep' /\ \A c \in SN : StillHas(c) => Has(c)'
  <2>1. CASE UNCHANGED air
    BY <1>1, <2>1, StaysAhead DEF air
  <2>2. CASE phone' = Received(b, block) /\ got' = got \o Delivered(b, block)
    <3>1. CASE Steps(b, phone.vq) >= WS
      <4>1. Received(b, block) = phone
        BY <3>1 DEF Received
      <4>2. phone.vq \in SN
        BY AheadNumbers
      <4>3. Steps(phone.vq, phone.vq) = 0
        BY <4>2, StepsRange
      <4>4. got' = got
        <5>1. Delivered(b, block) =
                [j \in 1 .. 0 |-> [phone.buf EXCEPT ![b] = block][addSN(phone.vq, j - 1)].pdu]
          BY <4>1, <4>3 DEF Delivered
        <5> DEFINE more == Delivered(b, block)
        <5>2. more \in Seq(Pdu) /\ Len(more) = 0
          BY <5>1
        <5>3. got' = got \o more
          BY <2>2
        <5> HIDE DEF more
        <5>4. more = <<>>
          BY <5>2
        <5> QED
          BY <1>1, <5>3, <5>4
      <4> QED
        BY <1>1, <2>2, <4>1, <4>4, StaysAhead
    <3>2. CASE ~(Steps(b, phone.vq) >= WS)
      <4>1. Steps(b, phone.vq) < WS
        <5>1. Steps(b, phone.vq) \in 0 .. SNS - 1
          BY AheadNumbers, StepsRange DEF Sendable
        <5> QED
          BY <3>2, <5>1, Size
      <4>2. PICK buf, n : Takes(b, block, buf, n)
        BY <4>1, ReceivedTakes DEF Ahead, Sendable
      <4>3. /\ got' \in Seq(Pdu) /\ Len(got') = Len(got) + n
            /\ \A i \in 1 .. Len(got') : got'[i] = sent'[i]
        BY <2>2, <4>1, <4>2, DeliveredInOrder
      <4>4. Len(got) <= Len(got')
        <5>1. n \in Nat
          BY <4>1, <4>2, TakenIsAhead, AheadNumbers
        <5> QED
          BY <1>1, <4>3, <5>1
      <4> QED
        BY <2>2, <4>1, <4>2, <4>3, <4>4, TakenInStep
    <3> QED
      BY <3>1, <3>2
  <2> QED
    BY <2>1, <2>2 DEF OnAir
<1>3. Len(got') <= Len(sent')
  <2>1. Steps(TxQNum', phone'.vq) = Len(sent') - Len(got')
    BY <1>2 DEF PhoneInStep
  <2>2. Steps(TxQNum', phone'.vq) \in 0 .. SNS - 1
    BY <1>2, StepsRange DEF Ahead, Phones
  <2>3. Len(got') \in Nat
    BY <1>2
  <2> QED
    BY <1>1, <2>1, <2>2, <2>3, Size
<1>4. high' \in Nat
  <2>1. high' = high \/ (got' # got /\ high' = got'[Len(got')])
    BY DEF OnAir, air
  <2>2. CASE got' # got /\ high' = got'[Len(got')]
    <3>1. got' # <<>>
      <4> SUFFICES ASSUME got' = <<>>
                   PROVE  FALSE
        OBVIOUS
      <4>1. Len(got) = 0
        BY <1>1, <1>2
      <4>2. got = <<>>
        BY <1>1, <4>1
      <4> QED
        BY <2>2, <4>2
    <3>2. got'[Len(got')] \in Pdu
      <4> DEFINE g == got'
      <4>1. g \in Seq(Pdu) /\ g # <<>>
        BY <1>2, <3>1
      <4> HIDE DEF g
      <4>2. g[Len(g)] \in Pdu
        BY <4>1
      <4> QED
        BY <4>2 DEF g
    <3> QED
      BY <2>2, <3>2, RLCDownAssumption DEF Pdu
  <2> QED
    BY <2>1, <2>2
<1> QED
  BY <1>2, <1>3, <1>4 DEF InOrder

-----------------------------------------------------------------------------
(* engineService                                                           *)

LEMMA GetBlockInv ==
  ASSUME DownInv, mtState = "DataTransmit", NEW primary, getBlock(primary),
         VA' = VA, ack' = ack, poll' = "answered" => poll = "answered"
  PROVE  /\ sent' \in Seq(Pdu) /\ sent' # <<>> /\ mDownlinkPdu' = sent'[Len(sent')]
         /\ \A i \in 1 .. Len(got) : got[i] = sent'[i]
         /\ TxQ' \in [SN -> Block \cup {None}] /\ VB' \in [SN -> BOOLEAN]
         /\ mDownFinished' \in BOOLEAN /\ msDownlinkQueue' \in Seq(Pdu)
         /\ TxQNum' \in SN
         /\ Holds' /\ StillInStep /\ AckStillTrue
         /\ Steps(TxQNum', VA) <= Len(sent')
         /\ Steps(TxQNum', VS) <= WS - 1 /\ Steps(TxQNum', VS) <= Len(sent')
         /\ VS # TxQNum \/ Fresh => VS # TxQNum'
         /\ ~(VS # TxQNum \/ Fresh) => VS = TxQNum'
<1>1. Typed /\ Staged /\ Holds /\ Close /\ InOrder /\ PhoneInStep /\ AckIsTrue
  BY DEF DownInv, Begun
<1>2. /\ sent \in Seq(Pdu) /\ got \in Seq(Pdu) /\ msDownlinkQueue \in Seq(Pdu)
      /\ Len(sent) \in Nat /\ Len(got) \in Nat /\ TxQNum \in SN /\ VS \in SN /\ VA \in SN
      /\ Steps(TxQNum, VS) \in 0 .. SNS - 1 /\ Steps(TxQNum, VA) \in 0 .. SNS - 1
  BY <1>1, Sizes DEF Typed
<1>3. /\ Steps(TxQNum, VA) <= Len(sent) /\ Steps(TxQNum, VS) <= Len(sent)
      /\ Steps(TxQNum, VS) <= WS - 1 /\ Steps(TxQNum, VA) <= WS - 1
  BY <1>1 DEF Close, WindowOpen
<1>4. CASE Fresh
  <2>1. PICK block \in Block :
          /\ MakesBlock(block)
          /\ mDownlinkPdu' = block.pdu /\ msDownlinkQueue' = Tail(msDownlinkQueue)
    <3> DEFINE blk == [pdu |-> Head(msDownlinkQueue),
                       fbi |-> Tail(msDownlinkQueue) = <<>> /\ ~dlPersistentMode]
    <3>1. msDownlinkQueue # <<>>
      BY <1>4 DEF Fresh
    <3>2. blk \in Block
      BY <1>2, <3>1 DEF Block
    <3>3. /\ MakesBlock(blk) /\ mDownlinkPdu' = blk.pdu
          /\ msDownlinkQueue' = Tail(msDownlinkQueue)
      BY <1>4, <3>2 DEF getBlock, MakesBlock
    <3> QED
      BY <3>2, <3>3
  <2>2. StillInStep /\ AckStillTrue
    BY <2>1, MadeInStep
  <2>3. /\ sent' \in Seq(Pdu) /\ Len(sent') = Len(sent) + 1
        /\ sent'[Len(sent) + 1] = block.pdu
        /\ \A i \in 1 .. Len(sent) : sent'[i] = sent[i]
        /\ TxQ' \in [SN -> Block \cup {None}] /\ VB' \in [SN -> BOOLEAN]
        /\ mDownFinished' \in BOOLEAN
        /\ Holds'
    BY <2>1, MadeIsHeld
  <2>4. sent' # <<>> /\ mDownlinkPdu' = sent'[Len(sent')]
    BY <1>2, <2>1, <2>3
  <2>5. msDownlinkQueue' \in Seq(Pdu)
    BY <1>2, <1>4, <2>1 DEF Fresh
  <2>6. \A i \in 1 .. Len(got) : got[i] = sent'[i]
    BY <1>1, <1>2, <2>3 DEF InOrder
  <2>7. TxQNum' = addSN(TxQNum, 1) /\ VS = TxQNum
    BY <1>4, <2>1 DEF MakesBlock, Fresh
  <2>8. /\ TxQNum' \in SN /\ TxQNum' # TxQNum /\ Steps(TxQNum', TxQNum) = 1
        /\ \A b \in SN : Steps(TxQNum, b) < SNS - 1 =>
             b # TxQNum' /\ Steps(TxQNum', b) = Steps(TxQNum, b) + 1
    BY <1>1, <2>3, <2>7, PlacesWithNew
  <2>9. Steps(TxQNum', VA) <= Len(sent')
    <3>1. Steps(TxQNum, VA) < SNS - 1
      BY <1>2, <1>3, Size
    <3>2. Steps(TxQNum', VA) = Steps(TxQNum, VA) + 1
      BY <1>2, <2>8, <3>1
    <3> QED
      BY <1>2, <1>3, <2>3, <3>2, Size
  <2>10. Steps(TxQNum', VS) <= WS - 1 /\ Steps(TxQNum', VS) <= Len(sent')
    BY <1>2, <2>3, <2>7, <2>8, Size
  <2> QED
    BY <1>4, <2>2, <2>3, <2>4, <2>5, <2>6, <2>7, <2>8, <2>9, <2>10
<1>5. CASE ~Fresh
  <2>1. UNCHANGED <<TxQ, TxQNum, VB, mDownFinished, msDownlinkQueue, mDownlinkPdu, sent>>
    BY <1>5 DEF getBlock
  <2>2. sent # <<>>
    BY <1>5, FreshAtFirst
  <2>3. \A b : Place(b)' = Place(b) /\ (StillHas(b) <=> Has(b))
    BY <2>1 DEF Place, StillHas, Has
  <2>4. Holds'
    BY <1>1, <2>1, <2>3 DEF Holds
  <2>5. StillInStep
    BY <1>1, <2>1, <2>3 DEF StillInStep, PhoneInStep, Outstanding
  <2>6. AckStillTrue
    BY <1>1, <2>1, <2>3 DEF AckStillTrue, AckIsTrue
  <2>7. mDownlinkPdu' = sent'[Len(sent')]
    BY <1>1, <2>1, <2>2 DEF Staged
  <2>8. \A i \in 1 .. Len(got) : got[i] = sent'[i]
    BY <1>1, <2>1 DEF InOrder
  <2>9. /\ TxQ' \in [SN -> Block \cup {None}] /\ VB' \in [SN -> BOOLEAN]
        /\ mDownFinished' \in BOOLEAN
    BY <1>1, <2>1 DEF Typed
  <2> QED
    BY <1>2, <1>3, <1>5, <2>1, <2>2, <2>4, <2>5, <2>6, <2>7, <2>8, <2>9
<1> QED
  BY <1>4, <1>5

(* Whatever number it sends, the block there is one the phone may have.    *)
LEMMA SentIsSendable ==
  ASSUME DownInv, mtState = "DataTransmit", NEW primary, getBlock(primary),
         VA' = VA, ack' = ack, poll' = "answered" => poll = "answered",
         NEW b, b = (IF VS # TxQNum \/ Fresh THEN VS ELSE addSN(VS, -1)),
         NEW block, block = TxQ'[b]
  PROVE  Sendable(b, block)
<1>1. /\ sent' \in Seq(Pdu) /\ sent' # <<>> /\ TxQNum' \in SN /\ Holds'
      /\ TxQ' \in [SN -> Block \cup {None}]
      /\ Steps(TxQNum', VS) <= WS - 1 /\ Steps(TxQNum', VS) <= Len(sent')
      /\ VS # TxQNum \/ Fresh => VS # TxQNum'
      /\ ~(VS # TxQNum \/ Fresh) => VS = TxQNum'
  BY GetBlockInv
<1>2. VS \in SN /\ Len(sent') \in Nat /\ Len(sent') >= 1
  <2>1. VS \in SN
    BY Sizes DEF DownInv
  <2>2. Len(sent') \in Nat /\ Len(sent') >= 1
    BY <1>1
  <2> QED
    BY <2>1, <2>2
<1>3. b \in SN /\ Steps(TxQNum', b) \in 1 .. WS /\ Steps(TxQNum', b) <= Len(sent') /\ b # TxQNum'
  <2>1. CASE VS # TxQNum \/ Fresh
    <3>1. b = VS /\ VS # TxQNum'
      BY <1>1, <2>1
    <3>2. Steps(TxQNum', VS) \in 0 .. SNS - 1 /\ Steps(TxQNum', VS) # 0
      BY <1>1, <1>2, <3>1, StepsRange
    <3> QED
      BY <1>1, <1>2, <3>1, <3>2, Size
  <2>2. CASE ~(VS # TxQNum \/ Fresh)
    <3>1. b = addSN(TxQNum', -1)
      BY <1>1, <2>2
    <3> QED
      BY <1>1, <1>2, <3>1, OneBehind, Size
  <2> QED
    BY <2>1, <2>2
<1>4. Place(b)' = Len(sent') - Steps(TxQNum', b) + 1
  BY DEF Place
<1>5. Place(b)' >= 1
  BY <1>2, <1>3, <1>4, Size
<1>6. block # None /\ block.pdu = sent'[Place(b)']
  BY <1>1, <1>3, <1>5 DEF Holds
<1>7. block \in Block
  BY <1>1, <1>3, <1>6
<1>8. ASSUME block.fbi
      PROVE  Place(b)' = Len(sent') /\ mDownFinished'
  <2>1. b = addSN(TxQNum', -1) /\ mDownFinished'
    BY <1>1, <1>3, <1>6, <1>8 DEF Holds
  <2>2. Steps(TxQNum', b) = 1
    BY <1>1, <2>1, OneBehind
  <2> QED
    BY <1>2, <1>4, <2>1, <2>2
<1> QED
  BY <1>3, <1>6, <1>7, <1>8 DEF Sendable

LEMMA ServiceInv ==
  ASSUME DownInv, NEW primary \in BOOLEAN, NEW room \in BOOLEAN, NEW heard \in BOOLEAN,
         engineService(primary, room, heard)
  PROVE  DownInv' /\ Len(got) <= Len(got')
<1> DEFINE b0 == IF VS # TxQNum \/ Fresh THEN VS ELSE addSN(VS, -1)
<1>1. /\ mtState = "DataTransmit" /\ getBlock(primary)
      /\ UNCHANGED <<VA, mtState, ack, written, outcome>>
      /\ \/ Withheld(b0, primary, room)
         \/ TxQ'[b0].fbi /\ SendFinal(b0, primary, room, heard)
         \/ ~TxQ'[b0].fbi /\ SendBlock(b0, primary, room, heard)
  BY DEF engineService
<1>2. Typed /\ Staged /\ Close
  BY DEF DownInv
<1>3. PICK b : b = b0
  OBVIOUS
<1>4. PICK block : block = TxQ'[b]
  OBVIOUS
<1>5. /\ \/ UNCHANGED <<poll, mtN3105>>
         \/ poll' \in {"heard", "unheard"} /\ mtN3105' = mtN3105 + 1
      /\ UNCHANGED air \/ OnAir(b, block, heard)
      /\ \/ UNCHANGED VS
         \/ (VS # TxQNum \/ Fresh) /\ advanceVS(addSN(VS, 1), mDownStalled)
  <2>1. CASE Withheld(b0, primary, room)
    BY <2>1 DEF Withheld
  <2>2. CASE SendFinal(b0, primary, room, heard)
    BY <1>3, <1>4, <2>2 DEF SendFinal, Reserve
  <2>3. CASE SendBlock(b0, primary, room, heard)
    BY <1>3, <1>4, <2>3 DEF SendBlock, Reserve, NoReserve
  <2> QED
    BY <1>1, <2>1, <2>2, <2>3
<1>6. poll' = "answered" => poll = "answered"
  BY <1>5
<1>7. /\ sent' \in Seq(Pdu) /\ sent' # <<>> /\ mDownlinkPdu' = sent'[Len(sent')]
      /\ \A i \in 1 .. Len(got) : got[i] = sent'[i]
      /\ TxQ' \in [SN -> Block \cup {None}] /\ VB' \in [SN -> BOOLEAN]
      /\ mDownFinished' \in BOOLEAN /\ msDownlinkQueue' \in Seq(Pdu)
      /\ TxQNum' \in SN
      /\ Holds' /\ StillInStep /\ AckStillTrue
      /\ Steps(TxQNum', VA) <= Len(sent')
      /\ Steps(TxQNum', VS) <= WS - 1 /\ Steps(TxQNum', VS) <= Len(sent')
      /\ VS # TxQNum \/ Fresh => VS # TxQNum'
  BY <1>1, <1>6, GetBlockInv
<1>8. Sendable(b, block)
  BY <1>1, <1>3, <1>4, <1>6, SentIsSendable
<1>9. WindowInv'
  BY <1>2, WindowService DEF WindowInv, Typed, Close
<1>10. VA' \in SN /\ VS' \in SN /\ Steps(TxQNum', VA') <= WS - 1
       /\ VS \in SN /\ VA \in SN /\ Len(got) \in Nat
  BY <1>2, <1>9, Sizes DEF WindowInv, WindowTypes, WindowOpen
<1>11. Ahead
  BY <1>2, <1>7, <1>10 DEF Ahead, Typed
<1>12. /\ phone' \in Phones /\ got' \in Seq(Pdu) /\ high' \in Nat
       /\ InOrder' /\ PhoneInStep' /\ Len(got) <= Len(got')
       /\ \A c \in SN : StillHas(c) => Has(c)'
  <2>1. CASE UNCHANGED air
    <3>1. phone' \in Phones /\ PhoneInStep' /\ \A c \in SN : StillHas(c) => Has(c)'
      BY <1>11, <2>1, StaysAhead DEF air
    <3>2. Len(got) <= Len(sent')
      <4>1. Steps(TxQNum', phone.vq) = Len(sent') - Len(got)
            /\ Steps(TxQNum', phone.vq) \in 0 .. WS - 1
            /\ Len(sent') \in Nat
        BY <1>11, AheadNumbers
      <4> QED
        BY <1>10, <4>1, Size
    <3> QED
      BY <1>2, <1>7, <1>10, <2>1, <3>1, <3>2 DEF air, InOrder, Typed
  <2>2. CASE OnAir(b, block, heard)
    <3>1. high \in Nat
      BY <1>2 DEF Typed
    <3> QED
      BY <1>7, <1>8, <1>11, <2>2, <3>1, OnAirInStep
  <2> QED
    BY <1>5, <2>1, <2>2
<1>13. AckIsTrue'
  <2> SUFFICES ASSUME poll' = "answered"
               PROVE  /\ ack'.ssn \in SN /\ ack'.acked \in SUBSET SN
                      /\ Steps(TxQNum', ack'.ssn) <= Steps(TxQNum', VA')
                      /\ \A c \in ack'.acked : Steps(ack'.ssn, c) \in 1 .. WS /\ Has(c)'
                      /\ ack'.final => Len(got') = Len(sent') /\ mDownFinished'
    BY DEF AckIsTrue
  <2>1. /\ ack'.ssn \in SN /\ ack'.acked \in SUBSET SN
        /\ Steps(TxQNum', ack'.ssn) <= Steps(TxQNum', VA')
        /\ \A c \in ack'.acked : Steps(ack'.ssn, c) \in 1 .. WS /\ StillHas(c)
        /\ ack'.final => Len(got) = Len(sent') /\ mDownFinished'
    BY <1>7 DEF AckStillTrue
  <2>2. \A c \in ack'.acked : Has(c)'
    BY <1>12, <2>1
  <2>3. Len(got) = Len(sent') => Len(got') = Len(sent')
    <3> DEFINE L == Len(sent')  G == Len(got')
    <3>1. L \in Nat /\ G \in Nat /\ G <= L /\ Len(got) <= G
      BY <1>7, <1>12 DEF InOrder
    <3> HIDE DEF L, G
    <3>2. Len(got) = L => G = L
      BY <1>10, <3>1
    <3> QED
      BY <3>2 DEF L, G
  <2> QED
    BY <2>1, <2>2, <2>3
<1>14. Typed'
  <2>1. mtN3105' \in Nat
    <3>1. mtN3105 \in Nat
      BY <1>2 DEF Typed
    <3> QED
      BY <1>5, <3>1
  <2>2. poll' \in Polls /\ mtState' \in States /\ written' \in 0 .. MaxPdu
    BY <1>1, <1>2, <1>5 DEF Typed, Polls
  <2> QED
    BY <1>7, <1>9, <1>12, <2>1, <2>2 DEF Typed, WindowInv
<1>15. Staged'
  BY <1>1, <1>2, <1>7 DEF Staged
<1>16. Steps(TxQNum', VS') <= WS - 1 /\ Steps(TxQNum', VS') <= Len(sent')
  <2>1. CASE UNCHANGED VS
    BY <1>7, <2>1
  <2>2. CASE (VS # TxQNum \/ Fresh) /\ advanceVS(addSN(VS, 1), mDownStalled)
    <3> DEFINE from == addSN(VS, 1)
               L == Len(sent')
    <3>1. Steps(TxQNum', VS) \in 0 .. SNS - 1 /\ Steps(TxQNum', VS) # 0 /\ L \in Nat
      BY <1>7, <1>10, <2>2, StepsRange
    <3>2. from \in SN /\ Steps(TxQNum', from) = Steps(TxQNum', VS) - 1
      <4>1. 1 \in 0 .. SNS - 1 /\ 1 <= Steps(TxQNum', VS)
        BY <3>1, Size
      <4> QED
        BY <1>7, <1>10, <4>1, StepsAfterAdvance, AddIsSN
    <3>3. \/ VS' = VA'
          \/ Steps(TxQNum', VS') <= Steps(TxQNum', VS) - 1
      <4> HIDE DEF from
      <4>1. advanceVS(from, mDownStalled)
        BY <2>2 DEF from
      <4>2. \/ VS' = VA'
            \/ Steps(TxQNum', VS') <= Steps(TxQNum', from)
        BY <1>7, <3>2, <4>1, AdvanceVSStays
      <4> QED
        BY <3>2, <4>2
    <3>4. Steps(TxQNum', VS') \in 0 .. SNS - 1 /\ Steps(TxQNum', VA') <= L
      BY <1>1, <1>7, <1>10, StepsRange
    <3> HIDE DEF L
    <3>5. Steps(TxQNum', VS) <= WS - 1 /\ Steps(TxQNum', VS) <= L
      BY <1>7 DEF L
    <3>6. Steps(TxQNum', VS') <= WS - 1 /\ Steps(TxQNum', VS') <= L
      BY <1>10, <3>1, <3>3, <3>4, <3>5, Size
    <3> QED
      BY <3>6 DEF L
  <2> QED
    BY <1>5, <2>1, <2>2
<1>17. Close'
  BY <1>1, <1>7, <1>9, <1>16 DEF Close, WindowInv
<1> QED
  BY <1>7, <1>12, <1>13, <1>14, <1>15, <1>17 DEF DownInv

-----------------------------------------------------------------------------
(* The invariant                                                           *)

LEMMA DownInit == Init => DownInv
<1> SUFFICES ASSUME Init
             PROVE  DownInv
  OBVIOUS
<1>1. /\ VS = 0 /\ VA = 0 /\ TxQNum = 0
      /\ VB = [b \in SN |-> FALSE] /\ TxQ = [b \in SN |-> None]
      /\ mDownFinished = FALSE /\ mtN3105 = 0 /\ poll = "none" /\ mtState = "None"
      /\ sent = <<>> /\ got = <<>> /\ outcome = "open"
      /\ msDownlinkQueue = <<>> /\ phone = Phone0(FALSE) /\ written = 0 /\ high = 0
  BY DEF Init
<1>2. Steps(0, 0) = 0 /\ 0 \in SN
  BY Size DEF Steps, SN
<1>3. phone \in Phones
  BY <1>1, <1>2 DEF Phone0, Phones
<1>4. Typed
  <2>1. /\ VB \in [SN -> BOOLEAN] /\ TxQ \in [SN -> Block \cup {None}]
        /\ <<>> \in Seq(Pdu) /\ 0 \in 0 .. MaxPdu
    BY <1>1, RLCDownAssumption
  <2> QED
    BY <1>1, <1>2, <1>3, <2>1 DEF Typed, WindowTypes, States, Polls
<1>5. Staged
  BY <1>1 DEF Staged
<1>6. Holds
  <2>1. \A b \in SN : b # TxQNum => ~(Place(b) >= 1)
    <3>1. \A b \in SN : Steps(0, b) \in 0 .. SNS - 1 /\ (Steps(0, b) = 0 <=> 0 = b)
      BY <1>2, StepsRange
    <3>2. \A b \in SN : Place(b) = 1 - Steps(0, b)
      BY <1>1, <1>2, <3>1, Size DEF Place
    <3> QED
      BY <1>1, <3>1, <3>2, Size
  <2>2. \A b \in SN : TxQ[b] = None
    BY <1>1
  <2> QED
    BY <1>1, <2>1, <2>2 DEF Holds
<1>7. Close /\ InOrder
  BY <1>1, <1>2, Size DEF Close, InOrder, WindowOpen, RoomForNext
<1> QED
  BY <1>1, <1>4, <1>5, <1>6, <1>7 DEF DownInv, Begun

LEMMA DownNext == DownInv /\ [Next]_vars => DownInv'
<1> SUFFICES ASSUME DownInv, [Next]_vars
             PROVE  DownInv'
  OBVIOUS
<1>1. CASE Write
  BY <1>1, WriteInv
<1>2. CASE StartTbf
  BY <1>2, StartTbfInv
<1>3. CASE AssignmentHeard
  BY <1>3, AssignmentHeardInv
<1>4. CASE AssignmentFails \/ NonResponsive
  BY <1>4, EndsInv
<1>5. CASE Detach
  BY <1>5, DetachInv
<1>6. CASE PhoneAnswers
  BY <1>6, PhoneAnswersInv
<1>7. CASE PollExpires \/ ReleaseAnswered
  BY <1>7, PollInv
<1>8. CASE engineRecvAckNack
  BY <1>8, RecvInv
<1>9. CASE \E primary, room, heard \in BOOLEAN : engineService(primary, room, heard)
  BY <1>9, ServiceInv
<1>10. CASE N3105Exceeded
  BY <1>10, N3105ExceededInv
<1>11. CASE \E heard \in BOOLEAN : SendRelease(heard)
  BY <1>11, SendReleaseInv
<1>12. CASE ReleaseEnds
  BY <1>12, ReleaseEndsInv
<1>13. CASE UNCHANGED vars
  <2>1. UNCHANGED <<VS, VA, VB, TxQ, TxQNum, mDownFinished, mtState, mtN3105, poll, ack,
                    msDownlinkQueue, mDownlinkPdu, written, phone, high, got, sent, outcome>>
    BY <1>13 DEF vars, window, marks, tbf, queue, air
  <2>2. Typed' /\ Staged'
    BY <2>1 DEF DownInv, Typed, WindowTypes, Staged
  <2> QED
    BY <2>1, <2>2, StaysInStep DEF DownInv, Begun, window
<1> QED
  BY <1>1, <1>2, <1>3, <1>4, <1>5, <1>6, <1>7, <1>8, <1>9, <1>10, <1>11, <1>12, <1>13
  DEF Next

(* DownInv holds of every run: what mbts and the phone know of one another *)
(* agrees, however the radio treats blocks, polls and answers.             *)
THEOREM DownInvariant == Spec => []DownInv
<1> QED
  BY DownInit, DownNext, PTL DEF Spec

(* An acknowledgement that engineRecvAckNack took is true of the blocks    *)
(* that its numbers stand for now, and VA has passed only what the phone   *)
(* has delivered (RLCEngine.cpp: engineRecvAckNack, advanceVA).            *)
THEOREM AcksAreTrue == Spec => []AckedIsReceived
<1>1. DownInv => AckedIsReceived
  <2> SUFFICES ASSUME DownInv
               PROVE  AckedIsReceived
    OBVIOUS
  <2>1. Typed /\ Close /\ InOrder
    BY DEF DownInv
  <2>2. Len(sent) \in Nat /\ Len(got) \in Nat /\ Steps(TxQNum, VA) \in 0 .. SNS - 1
    BY <2>1, Sizes
  <2>3. CASE Begun
    <3>1. PhoneInStep
      BY <2>3 DEF DownInv
    <3>2. Len(sent) - Steps(TxQNum, VA) <= Len(got)
      <4>1. /\ Steps(TxQNum, phone.vq) = Len(sent) - Len(got)
            /\ Steps(TxQNum, phone.vq) <= Steps(TxQNum, VA)
        BY <3>1 DEF PhoneInStep
      <4> QED
        BY <2>2, <4>1, Size
    <3>3. \A b \in Outstanding : VB[b] =>
            \/ Place(b) <= Len(got)
            \/ phone.buf[b] # None /\ phone.buf[b].pdu = sent[Place(b)]
      BY <3>1 DEF PhoneInStep, Has, Outstanding
    <3> QED
      BY <3>2, <3>3 DEF AckedIsReceived
  <2>4. CASE ~Begun
    <3>1. Len(sent) = 0 /\ Len(got) = 0 /\ Steps(TxQNum, VA) = 0
      BY <2>1, <2>2, <2>4, Sizes, Size DEF Begun, Close, InOrder
    <3>2. Outstanding = {}
      <4> SUFFICES ASSUME NEW b \in Outstanding
                   PROVE  FALSE
        OBVIOUS
      <4>1. Steps(TxQNum, b) \in 1 .. 0
        BY <2>1, <3>1, OutstandingPlace
      <4> QED
        BY <4>1
    <3> QED
      BY <3>1, <3>2, Size DEF AckedIsReceived
  <2> QED
    BY <2>3, <2>4
<1> QED
  BY <1>1, DownInvariant, PTL

(* What the phone lacks is still in TxQ under its number: no later block   *)
(* has taken the slot (engineFillBlock).                                   *)
THEOREM NothingMissingIsLost == Spec => []MissingIsKept
<1>1. DownInv => MissingIsKept
  <2> SUFFICES ASSUME DownInv, NEW i \in Len(got) + 1 .. Len(sent)
               PROVE  \E b \in Outstanding : Place(b) = i /\ TxQ[b] # None /\ TxQ[b].pdu = sent[i]
    BY DEF MissingIsKept
  <2>1. Typed /\ Close /\ Holds /\ InOrder
    BY DEF DownInv
  <2>2. /\ Len(sent) \in Nat /\ Len(got) \in Nat /\ TxQNum \in SN /\ VA \in SN
        /\ Steps(TxQNum, VA) \in 0 .. SNS - 1
    BY <2>1, Sizes
  <2>3. i \in Nat /\ i <= Len(sent) /\ i >= Len(got) + 1
    BY <2>2
  <2>4. PhoneInStep
    <3>1. sent # <<>>
      BY <2>1, <2>2, <2>3, Sizes
    <3> QED
      BY <3>1 DEF DownInv, Begun
  <2>5. /\ Steps(TxQNum, phone.vq) = Len(sent) - Len(got)
        /\ Steps(TxQNum, phone.vq) <= Steps(TxQNum, VA)
    BY <2>4 DEF PhoneInStep
  <2> DEFINE k == Len(sent) - i + 1
  <2>6. k \in 1 .. Steps(TxQNum, VA) /\ k \in 0 .. SNS - 1
    BY <2>2, <2>3, <2>5, Size
  <2>7. PICK b \in SN : Steps(TxQNum, b) = k
    BY <2>2, <2>6, Behind
  <2>8. b \in Outstanding
    BY <2>1, <2>6, <2>7, IsOutstanding
  <2>9. Place(b) = i
    BY <2>2, <2>3, <2>7 DEF Place
  <2>10. b # TxQNum
    <3>1. Steps(TxQNum, b) # 0
      BY <2>2, <2>6, <2>7
    <3> QED
      BY <2>7, <3>1, StepsRange
  <2>11. TxQ[b] # None /\ TxQ[b].pdu = sent[i]
    BY <2>1, <2>2, <2>3, <2>7, <2>9, <2>10 DEF Holds
  <2> QED
    BY <2>8, <2>9, <2>11
<1> QED
  BY <1>1, DownInvariant, PTL

-----------------------------------------------------------------------------
(* The refinement                                                          *)

LEMMA PrefixIs ==
  ASSUME NEW S, NEW s \in Seq(S), NEW t \in Seq(S), Len(s) <= Len(t),
         \A i \in 1 .. Len(s) : s[i] = t[i]
  PROVE  s = SubSeq(t, 1, Len(s))
<1>1. SubSeq(t, 1, Len(s)) \in Seq(S) /\ Len(SubSeq(t, 1, Len(s))) = Len(s)
  OBVIOUS
<1>2. \A i \in 1 .. Len(s) : s[i] = SubSeq(t, 1, Len(s))[i]
  OBVIOUS
<1> QED
  BY <1>1, <1>2, SeqEqual

(* A step of engineService sends a block, lets the phone deliver, or does  *)
(* nothing that the transfer can tell.                                     *)
LEMMA ServiceTransfers ==
  ASSUME DownInv, DownInv', NEW primary \in BOOLEAN, NEW room \in BOOLEAN,
         NEW heard \in BOOLEAN, engineService(primary, room, heard)
  PROVE  Down!Send \/ Down!Deliver \/ UNCHANGED Down!vars
<1> DEFINE g == got'  t == sent'
<1>1. /\ got \in Seq(Pdu) /\ sent \in Seq(Pdu) /\ g \in Seq(Pdu) /\ t \in Seq(Pdu)
      /\ Len(g) <= Len(t) /\ \A i \in 1 .. Len(g) : g[i] = t[i]
      /\ Len(got) <= Len(sent) /\ \A i \in 1 .. Len(got) : got[i] = sent[i]
      /\ msDownlinkQueue \in Seq(Pdu)
  BY DEF DownInv, Typed, InOrder
<1>2. Len(got) <= Len(g)
  BY ServiceInv
<1>3. mtState = "DataTransmit" /\ getBlock(primary) /\ UNCHANGED outcome
  BY DEF engineService
<1>4. outcome = "open"
  BY <1>3 DEF DownInv, Staged
<1>5. \/ Fresh /\ t = Append(sent, Head(msDownlinkQueue))
      \/ t = sent
  BY <1>3 DEF getBlock
<1> HIDE DEF g, t
<1>6. g = SubSeq(t, 1, Len(g))
  BY <1>1, PrefixIs
<1>7. CASE Fresh /\ t = Append(sent, Head(msDownlinkQueue))
  <2>1. Head(msDownlinkQueue) \in Pdu
    BY <1>1, <1>7 DEF Fresh
  <2>2. Len(g) \in Len(got) .. Len(t)
    BY <1>1, <1>2
  <2>3. Down!Send
    BY <1>3, <1>4, <1>6, <1>7, <2>1, <2>2 DEF Down!Send, Down!Prefix, g, t
  <2> QED
    BY <2>3
<1>8. CASE t = sent
  <2>1. CASE Len(g) = Len(got)
    <3>1. \A i \in 1 .. Len(g) : g[i] = got[i]
      BY <1>1, <1>8, <2>1
    <3>2. g = got
      BY <1>1, <2>1, <3>1, SeqEqual
    <3> QED
      BY <1>3, <1>8, <3>2 DEF Down!vars, g, t
  <2>2. CASE Len(g) # Len(got)
    <3>1. Len(g) \in Len(got) + 1 .. Len(sent)
      BY <1>1, <1>2, <1>8, <2>2
    <3>2. Down!Deliver
      BY <1>3, <1>4, <1>6, <1>8, <3>1 DEF Down!Deliver, Down!Prefix, g, t
    <3> QED
      BY <3>2
  <2> QED
    BY <2>1, <2>2
<1> QED
  BY <1>5, <1>7, <1>8

LEMMA RecvTransfers ==
  ASSUME DownInv, DownInv', engineRecvAckNack
  PROVE  Down!Succeed \/ Down!Fail \/ UNCHANGED Down!vars
<1>1. /\ Typed /\ Staged /\ InOrder /\ poll = "answered"
      /\ UNCHANGED <<sent, got>>
  BY DEF DownInv, engineRecvAckNack, air
<1>2. sent # <<>> /\ mtState \in {"DataTransmit", "TbfRelease", "Dead"}
  BY <1>1 DEF Staged, Typed, States
<1>3. outcome = IF mtState = "DataTransmit" THEN "open" ELSE "failed"
  BY <1>1, <1>2 DEF Staged
<1>4. CASE Stuck
  <2>1. outcome' = "failed"
    BY <1>4 DEF engineRecvAckNack, CancelForRelease
  <2> QED
    BY <1>1, <1>3, <2>1 DEF Down!Fail, Down!vars
<1>5. CASE ~Stuck
  <2>1. \/ mtState' = "Finished" /\ outcome' = "success"
        \/ UNCHANGED outcome
    BY <1>5 DEF engineRecvAckNack
  <2>2. ASSUME mtState' = "Finished"
        PROVE  got = sent
    <3>1. got \in Seq(Pdu) /\ sent \in Seq(Pdu) /\ Len(got) = Len(sent)
      BY <1>1, <2>2, RecvInv DEF Typed
    <3>2. \A i \in 1 .. Len(got) : got[i] = sent[i]
      BY <1>1 DEF InOrder
    <3> QED
      BY <3>1, <3>2, SeqEqual
  <2> QED
    BY <1>1, <2>1, <2>2 DEF Down!Succeed, Down!vars
<1> QED
  BY <1>4, <1>5

LEMMA TransferNext ==
  ASSUME DownInv, DownInv', [Next]_vars
  PROVE  [Down!Next]_(Down!vars)
<1>1. CASE Write \/ StartTbf \/ AssignmentHeard \/ PhoneAnswers \/ PollExpires
           \/ ReleaseAnswered \/ UNCHANGED vars
  BY <1>1 DEF Write, StartTbf, AssignmentHeard, PhoneAnswers, PollExpires,
              ReleaseAnswered, air, vars, Down!vars
<1>2. CASE \E heard \in BOOLEAN : SendRelease(heard)
  BY <1>2 DEF SendRelease, Down!vars
<1>3. CASE AssignmentFails \/ NonResponsive
  BY <1>3 DEF AssignmentFails, NonResponsive, air, DownInv, Staged,
              Down!vars, Down!Next, Down!Fail
<1>4. CASE N3105Exceeded
  BY <1>4 DEF N3105Exceeded, CancelForRelease, air, DownInv, Staged,
              Down!Next, Down!Fail
<1>5. CASE Detach
  BY <1>5 DEF Detach, NewEngine, DownInv, Staged, Down!Next, Down!Again
<1>6. CASE ReleaseEnds
  BY <1>6 DEF ReleaseEnds, mtRetry, NewEngine, DownInv, Staged, Down!Next,
              Down!Again, Down!vars
<1>7. CASE engineRecvAckNack
  BY <1>7, RecvTransfers DEF Down!Next
<1>8. CASE \E primary, room, heard \in BOOLEAN : engineService(primary, room, heard)
  BY <1>8, ServiceTransfers DEF Down!Next
<1> QED
  BY <1>1, <1>2, <1>3, <1>4, <1>5, <1>6, <1>7, <1>8 DEF Next

(* The TBF implements RLCTransfer: blocks reach the phone in order and     *)
(* once each, and mtFinishSuccess comes only when it has them all.         *)
THEOREM DownKeepsTransfer == Spec => KeepsTransfer
<1>1. Init => Down!Init
  BY DEF Init, Down!Init
<1>2. DownInv /\ DownInv' /\ [Next]_vars => [Down!Next]_(Down!vars)
  BY TransferNext
<1> QED
  BY <1>1, <1>2, DownInvariant, PTL DEF Spec, KeepsTransfer, Down!Spec

-----------------------------------------------------------------------------
(* The order of the PDUs over all TBFs                                     *)

OrderInv == DownInv /\ PdusInOrder

LEMMA PdusAreNumbers ==
  ASSUME NEW s \in Seq(Pdu)
  PROVE  Len(s) \in Nat /\ \A i \in 1 .. Len(s) : s[i] \in Nat
<1>1. \A i \in 1 .. Len(s) : s[i] \in Pdu
  OBVIOUS
<1>2. Pdu \subseteq Nat
  BY RLCDownAssumption DEF Pdu
<1>3. Len(s) \in Nat
  OBVIOUS
<1> HIDE DEF Pdu
<1> QED
  BY <1>1, <1>2, <1>3

LEMMA OrderKept ==
  ASSUME PdusInOrder, UNCHANGED <<sent, got, msDownlinkQueue, high, written>>
  PROVE  PdusInOrder'
BY DEF PdusInOrder, Increasing

(* A new TBF has sent nothing, and the queue is as good as it was.         *)
LEMMA OrderOfNone ==
  ASSUME PdusInOrder, sent' = <<>>, UNCHANGED <<msDownlinkQueue, high, written>>
  PROVE  PdusInOrder'
<1>1. Len(sent') = 0
  OBVIOUS
<1> QED
  BY <1>1 DEF PdusInOrder, Increasing

LEMMA OrderOfWrite ==
  ASSUME OrderInv, Write
  PROVE  PdusInOrder'
<1> DEFINE q == msDownlinkQueue'  w == written + 1  n == Len(msDownlinkQueue)
<1>1. /\ q = Append(msDownlinkQueue, w) /\ written' = w
      /\ UNCHANGED <<sent, got, high>>
  BY DEF Write, air
<1>2. /\ msDownlinkQueue \in Seq(Pdu) /\ sent \in Seq(Pdu) /\ got \in Seq(Pdu)
      /\ written \in Nat /\ high \in Nat /\ PdusInOrder
  BY RLCDownAssumption DEF OrderInv, DownInv, Typed
<1>3. /\ Len(q) = n + 1 /\ n \in Nat /\ q[n + 1] = w
      /\ \A j \in 1 .. n : q[j] = msDownlinkQueue[j]
  BY <1>1, <1>2
<1>4. \A i \in 1 .. Len(sent) : sent[i] \in Nat
  BY <1>2, PdusAreNumbers
<1>5. \A j \in 1 .. n : msDownlinkQueue[j] \in Nat /\ msDownlinkQueue[j] < w
  <2>1. \A j \in 1 .. n : msDownlinkQueue[j] \in Nat
    BY <1>2, PdusAreNumbers
  <2> QED
    BY <1>2, <2>1 DEF PdusInOrder
<1>6. \A j \in 1 .. Len(q) : j \in 1 .. n \/ j = n + 1
  BY <1>3
<1>7. w \in Nat /\ high <= w /\ \A i \in 1 .. Len(sent) : sent[i] < w
  BY <1>2, <1>4 DEF PdusInOrder
<1> HIDE DEF q, w, n
<1>8. Increasing(q)
  BY <1>2, <1>3, <1>5, <1>6 DEF Increasing, PdusInOrder, n
<1>9. \A i \in 1 .. Len(sent), j \in 1 .. Len(q) : sent[i] < q[j]
  BY <1>2, <1>3, <1>6, <1>7 DEF PdusInOrder, n
<1>10. \A j \in 1 .. Len(q) : high <= q[j] /\ q[j] <= w
  BY <1>2, <1>3, <1>5, <1>6, <1>7 DEF PdusInOrder, n
<1>11. \A i \in 1 .. Len(sent) : sent[i] <= w
  BY <1>4, <1>7
<1> QED
  BY <1>1, <1>2, <1>7, <1>8, <1>9, <1>10, <1>11 DEF PdusInOrder, q

LEMMA OrderOfStart ==
  ASSUME OrderInv, StartTbf
  PROVE  PdusInOrder'
<1> DEFINE q == msDownlinkQueue'
<1>1. /\ q = Tail(msDownlinkQueue) \/ q = msDownlinkQueue
      /\ msDownlinkQueue # <<>>
      /\ UNCHANGED <<sent, got, high, written>>
  BY DEF StartTbf, air
<1>2. msDownlinkQueue \in Seq(Pdu) /\ PdusInOrder
  BY DEF OrderInv, DownInv, Typed
<1>3. CASE q = msDownlinkQueue
  BY <1>1, <1>2, <1>3, OrderKept
<1>4. CASE q = Tail(msDownlinkQueue)
  <2>1. /\ Len(q) = Len(msDownlinkQueue) - 1 /\ Len(msDownlinkQueue) \in Nat
        /\ \A j \in 1 .. Len(q) : q[j] = msDownlinkQueue[j + 1]
    BY <1>1, <1>2, <1>4
  <2> HIDE DEF q
  <2>2. \A j \in 1 .. Len(q) : j + 1 \in 1 .. Len(msDownlinkQueue)
    BY <2>1
  <2>3. Increasing(q)
    BY <1>2, <2>1, <2>2 DEF Increasing, PdusInOrder
  <2> QED
    BY <1>1, <1>2, <2>1, <2>2, <2>3 DEF PdusInOrder, q
<1> QED
  BY <1>1, <1>3, <1>4

(* mtRetry puts the last PDU sent back before the queue.                   *)
LEMMA OrderOfRetry ==
  ASSUME OrderInv, ReleaseEnds
  PROVE  PdusInOrder' /\ UNCHANGED high
<1> DEFINE q == msDownlinkQueue'  p == mDownlinkPdu  n == Len(msDownlinkQueue)
<1>1. /\ mtState = "TbfRelease" /\ UNCHANGED <<written, high>>
      /\ \/ sent' = <<>> /\ q = <<p>> \o msDownlinkQueue
         \/ UNCHANGED <<sent, got, msDownlinkQueue>>
  BY DEF ReleaseEnds, mtRetry, NewEngine
<1>2. /\ msDownlinkQueue \in Seq(Pdu) /\ sent \in Seq(Pdu) /\ got \in Seq(Pdu)
      /\ PdusInOrder /\ Len(got) <= Len(sent)
  BY DEF OrderInv, DownInv, Typed, InOrder
<1>3. CASE UNCHANGED <<sent, got, msDownlinkQueue>>
  BY <1>1, <1>2, <1>3, OrderKept
<1>4. CASE sent' = <<>> /\ q = <<p>> \o msDownlinkQueue
  <2>1. sent # <<>> /\ p = sent[Len(sent)]
    BY <1>1 DEF OrderInv, DownInv, Staged
  <2>2. Len(sent) \in 1 .. Len(sent) /\ Len(sent) >= Len(got)
    BY <1>2, <2>1
  <2>3. /\ p \in Nat /\ high <= p /\ p <= written
        /\ \A j \in 1 .. n : p < msDownlinkQueue[j]
    BY <1>2, <2>1, <2>2, PdusAreNumbers DEF PdusInOrder
  <2>4. p \in Pdu
    BY <1>2, <2>1, <2>2
  <2>5. /\ Len(q) = n + 1 /\ n \in Nat /\ q[1] = p
        /\ \A j \in 2 .. Len(q) : j - 1 \in 1 .. n /\ q[j] = msDownlinkQueue[j - 1]
    <3> HIDE DEF p
    <3> QED
      BY <1>2, <1>4, <2>4
  <2>6. \A j \in 1 .. Len(q) : j = 1 \/ j \in 2 .. Len(q)
    BY <2>5
  <2> HIDE DEF q, p
  <2>7. Increasing(q)
    <3> SUFFICES ASSUME NEW i \in 1 .. Len(q), NEW j \in 1 .. Len(q), i < j
                 PROVE  q[i] < q[j]
      BY DEF Increasing
    <3>1. j \in 2 .. Len(q)
      BY <2>5
    <3>2. j - 1 \in 1 .. n /\ q[j] = msDownlinkQueue[j - 1]
      BY <2>5, <3>1
    <3>3. CASE i = 1
      BY <2>3, <2>5, <3>2, <3>3
    <3>4. CASE i \in 2 .. Len(q)
      <4>1. i - 1 \in 1 .. n /\ q[i] = msDownlinkQueue[i - 1] /\ i - 1 < j - 1
        BY <2>5, <3>4
      <4> QED
        BY <1>2, <3>2, <4>1 DEF Increasing, PdusInOrder, n
    <3> QED
      BY <2>6, <3>3, <3>4
  <2>8. \A j \in 1 .. Len(q) : high <= q[j] /\ q[j] <= written
    BY <1>2, <2>3, <2>5, <2>6 DEF PdusInOrder
  <2>9. Len(sent') = 0 /\ Increasing(sent')
    BY <1>4 DEF Increasing
  <2>10. high <= written
    BY <1>2 DEF PdusInOrder
  <2> QED
    BY <1>1, <2>7, <2>8, <2>9, <2>10 DEF PdusInOrder, q
<1> QED
  BY <1>1, <1>3, <1>4

(* The order, before the phone takes a block.                              *)
StillInOrder ==
  /\ Increasing(sent') /\ Increasing(msDownlinkQueue')
  /\ \A i \in 1 .. Len(sent'), j \in 1 .. Len(msDownlinkQueue') :
       sent'[i] < msDownlinkQueue'[j]
  /\ \A j \in 1 .. Len(msDownlinkQueue') :
       high <= msDownlinkQueue'[j] /\ msDownlinkQueue'[j] <= written
  /\ \A i \in 1 .. Len(sent') : sent'[i] <= written
  /\ \A i \in 1 .. Len(sent') : i >= Len(got) => high <= sent'[i]
  /\ high <= written

(* The head of the queue goes to the end of what has been sent.            *)
LEMMA OrderOfBlock ==
  ASSUME OrderInv, Fresh, sent' = Append(sent, Head(msDownlinkQueue)),
         msDownlinkQueue' = Tail(msDownlinkQueue)
  PROVE  StillInOrder
<1> DEFINE t == sent'  q == msDownlinkQueue'  h == Head(msDownlinkQueue)  L == Len(sent)
<1>1. /\ msDownlinkQueue \in Seq(Pdu) /\ sent \in Seq(Pdu) /\ got \in Seq(Pdu)
      /\ PdusInOrder /\ msDownlinkQueue # <<>>
  BY DEF OrderInv, DownInv, Typed, Fresh
<1>2. /\ Len(q) = Len(msDownlinkQueue) - 1 /\ Len(msDownlinkQueue) \in Nat
      /\ 1 \in 1 .. Len(msDownlinkQueue) /\ h = msDownlinkQueue[1]
      /\ \A j \in 1 .. Len(q) : q[j] = msDownlinkQueue[j + 1]
  BY <1>1
<1>3. h \in Pdu
  BY <1>1, <1>2
<1>4. /\ Len(t) = L + 1 /\ L \in Nat /\ t[L + 1] = h
      /\ \A i \in 1 .. L : t[i] = sent[i]
  <2> HIDE DEF h
  <2> QED
    BY <1>1, <1>3 DEF h
<1>5. /\ \A j \in 1 .. Len(q) : j + 1 \in 1 .. Len(msDownlinkQueue) /\ 1 < j + 1
      /\ \A i \in 1 .. Len(t) : i \in 1 .. L \/ i = L + 1
      /\ Len(got) \in Nat
  BY <1>1, <1>2, <1>4
<1> HIDE DEF t, q, h
<1>6. Increasing(q) /\ \A j \in 1 .. Len(q) : h < q[j]
  <2>1. \A i, j \in 1 .. Len(msDownlinkQueue) : i < j => msDownlinkQueue[i] < msDownlinkQueue[j]
    BY <1>1 DEF Increasing, PdusInOrder
  <2>2. \A j \in 1 .. Len(q) : h < q[j]
    BY <1>2, <1>5, <2>1
  <2>3. ASSUME NEW i \in 1 .. Len(q), NEW j \in 1 .. Len(q), i < j
        PROVE  q[i] < q[j]
    <3>1. i + 1 < j + 1
      BY <1>2, <2>3
    <3> QED
      BY <1>2, <1>5, <2>1, <3>1
  <2> QED
    BY <2>2, <2>3 DEF Increasing
<1>7. h \in Nat /\ high <= h /\ h <= written /\ \A i \in 1 .. L : sent[i] < h
  <2>1. msDownlinkQueue[1] \in Nat
    BY <1>1, <1>2, PdusAreNumbers
  <2> QED
    BY <1>1, <1>2, <2>1 DEF PdusInOrder, L
<1>8. Increasing(t)
  <2> SUFFICES ASSUME NEW i \in 1 .. Len(t), NEW j \in 1 .. Len(t), i < j
               PROVE  t[i] < t[j]
    BY DEF Increasing
  <2>1. i \in 1 .. L /\ t[i] = sent[i]
    BY <1>4
  <2>2. CASE j \in 1 .. L
    <3>1. sent[i] < sent[j] /\ t[j] = sent[j]
      BY <1>1, <1>4, <2>1, <2>2 DEF Increasing, PdusInOrder
    <3> QED
      BY <2>1, <3>1
  <2>3. CASE j = L + 1
    BY <1>4, <1>7, <2>1, <2>3
  <2> QED
    BY <1>5, <2>2, <2>3
<1>9. \A i \in 1 .. Len(t), j \in 1 .. Len(q) : t[i] < q[j]
  <2> SUFFICES ASSUME NEW i \in 1 .. Len(t), NEW j \in 1 .. Len(q)
               PROVE  t[i] < q[j]
    OBVIOUS
  <2>1. CASE i \in 1 .. L
    <3>1. sent[i] < msDownlinkQueue[j + 1]
      BY <1>1, <1>5, <2>1 DEF PdusInOrder, L
    <3> QED
      BY <1>2, <1>4, <2>1, <3>1
  <2>2. CASE i = L + 1
    BY <1>4, <1>6, <2>2
  <2> QED
    BY <1>5, <2>1, <2>2
<1>10. \A j \in 1 .. Len(q) : high <= q[j] /\ q[j] <= written
  BY <1>1, <1>2, <1>5 DEF PdusInOrder
<1>11. \A i \in 1 .. Len(t) : t[i] <= written
  BY <1>1, <1>4, <1>5, <1>7 DEF PdusInOrder
<1>12. \A i \in 1 .. Len(t) : i >= Len(got) => high <= t[i]
  BY <1>1, <1>4, <1>5, <1>7 DEF PdusInOrder
<1>13. high <= written
  BY <1>1 DEF PdusInOrder
<1> QED
  BY <1>6, <1>8, <1>9, <1>10, <1>11, <1>12, <1>13 DEF StillInOrder, t, q

LEMMA OrderOfService ==
  ASSUME OrderInv, DownInv', NEW primary \in BOOLEAN, NEW room \in BOOLEAN,
         NEW heard \in BOOLEAN, engineService(primary, room, heard)
  PROVE  PdusInOrder' /\ high' >= high
<1> DEFINE t == sent'  q == msDownlinkQueue'  g == got'  m == Len(got')
<1>1. /\ \/ Fresh /\ t = Append(sent, Head(msDownlinkQueue)) /\ q = Tail(msDownlinkQueue)
         \/ t = sent /\ q = msDownlinkQueue
      /\ written' = written
  BY DEF engineService, getBlock
<1>2. PdusInOrder /\ DownInv
  BY DEF OrderInv
<1>3. StillInOrder
  <2>1. CASE t = sent /\ q = msDownlinkQueue
    BY <1>2, <2>1 DEF StillInOrder, PdusInOrder
  <2> QED
    BY <1>1, <2>1, OrderOfBlock
<1>4. \/ UNCHANGED <<got, high>>
      \/ g # got /\ high' = g[m]
  BY DEF engineService, Withheld, SendFinal, SendBlock, OnAir, air
<1>5. /\ t \in Seq(Pdu) /\ g \in Seq(Pdu) /\ got \in Seq(Pdu) /\ high \in Nat /\ high' \in Nat
      /\ q \in Seq(Pdu)
      /\ m <= Len(t) /\ \A i \in 1 .. m : g[i] = t[i]
  BY <1>2 DEF DownInv, Typed, InOrder
<1>6. Len(got) <= m
  BY <1>2, ServiceInv
<1> HIDE DEF t, q, g, m
<1>7. CASE UNCHANGED <<got, high>>
  <2>1. got' = got /\ high' = high /\ written' = written
    BY <1>1, <1>7
  <2>2. PdusInOrder'
    BY <1>3, <2>1 DEF PdusInOrder, StillInOrder
  <2> QED
    BY <1>5, <2>1, <2>2
<1>8. CASE g # got /\ high' = g[m]
  <2>1. m \in Nat /\ Len(got) \in Nat /\ Len(t) \in Nat /\ Len(q) \in Nat
    BY <1>5 DEF m, g
  <2>2. m # 0
    <3> SUFFICES ASSUME m = 0
                 PROVE  FALSE
      OBVIOUS
    <3>1. Len(got) = 0 /\ Len(g) = 0
      BY <1>6, <2>1 DEF m, g
    <3>2. got = <<>> /\ g = <<>>
      BY <1>5, <3>1
    <3> QED
      BY <1>8, <3>2
  <2>3. m \in 1 .. Len(t) /\ high' = t[m]
    BY <1>5, <1>8, <2>1, <2>2
  <2>4. high <= high'
    BY <1>3, <1>5, <1>6, <2>3 DEF StillInOrder, t
  <2>5. \A i \in 1 .. Len(t) : i >= m => high' <= t[i]
    <3>1. \A i \in 1 .. Len(t) : i > m => t[m] < t[i]
      BY <1>3, <2>3 DEF StillInOrder, Increasing, t
    <3>2. \A i \in 1 .. Len(t) : t[i] \in Nat
      BY <1>5, PdusAreNumbers
    <3> QED
      BY <2>1, <2>3, <3>1, <3>2
  <2>6. \A j \in 1 .. Len(q) : high' <= q[j] /\ q[j] <= written
    <3>1. \A j \in 1 .. Len(q) : q[j] \in Nat
      BY <1>5, PdusAreNumbers
    <3>2. \A j \in 1 .. Len(q) : t[m] < q[j] /\ q[j] <= written
      BY <1>3, <2>3 DEF StillInOrder, t, q
    <3> QED
      BY <1>5, <2>3, <3>1, <3>2
  <2>7. high' <= written
    BY <1>3, <2>3 DEF StillInOrder, t
  <2>8. high' >= high
    BY <1>5, <2>4
  <2>9. /\ Increasing(t) /\ Increasing(q)
        /\ \A i \in 1 .. Len(t), j \in 1 .. Len(q) : t[i] < q[j]
        /\ \A i \in 1 .. Len(t) : t[i] <= written
    BY <1>3 DEF StillInOrder, t, q
  <2> QED
    BY <1>1, <2>5, <2>6, <2>7, <2>8, <2>9 DEF PdusInOrder, t, q, m
<1> QED
  BY <1>4, <1>7, <1>8

LEMMA OrderNext ==
  ASSUME OrderInv, DownInv', [Next]_vars
  PROVE  PdusInOrder' /\ (high' >= high \/ UNCHANGED high)
<1>1. PdusInOrder
  BY DEF OrderInv
<1>2. CASE AssignmentHeard \/ AssignmentFails \/ NonResponsive \/ PhoneAnswers \/ PollExpires
           \/ engineRecvAckNack \/ N3105Exceeded \/ ReleaseAnswered \/ UNCHANGED vars
  <2>1. UNCHANGED <<sent, got, msDownlinkQueue, high, written>>
    BY <1>2 DEF AssignmentHeard, AssignmentFails, NonResponsive, PhoneAnswers, PollExpires,
                engineRecvAckNack, N3105Exceeded, ReleaseAnswered, vars, queue, air
  <2> QED
    BY <1>1, <2>1, OrderKept
<1>3. CASE \E heard \in BOOLEAN : SendRelease(heard)
  <2>1. UNCHANGED <<sent, got, msDownlinkQueue, high, written>>
    BY <1>3 DEF SendRelease, queue
  <2> QED
    BY <1>1, <2>1, OrderKept
<1>4. CASE Detach
  <2>1. sent' = <<>> /\ UNCHANGED <<msDownlinkQueue, high, written>>
    BY <1>4 DEF Detach, NewEngine
  <2> QED
    BY <1>1, <2>1, OrderOfNone
<1>5. CASE Write
  BY <1>5, OrderOfWrite DEF Write, air
<1>6. CASE StartTbf
  BY <1>6, OrderOfStart DEF StartTbf, air
<1>7. CASE ReleaseEnds
  BY <1>7, OrderOfRetry
<1>8. CASE \E primary, room, heard \in BOOLEAN : engineService(primary, room, heard)
  BY <1>8, OrderOfService
<1> QED
  BY <1>2, <1>3, <1>4, <1>5, <1>6, <1>7, <1>8 DEF Next

(* No PDU reaches the phone after a later one, over all its TBFs: mtRetry  *)
(* puts the PDU it sends again back to the front of the queue.             *)
THEOREM NothingOvertakes == Spec => NoOvertaking
<1>1. Init => PdusInOrder
  <2> SUFFICES ASSUME Init
               PROVE  PdusInOrder
    OBVIOUS
  <2>1. /\ Len(sent) = 0 /\ Len(msDownlinkQueue) = 0 /\ high = 0 /\ written = 0
    BY DEF Init
  <2> QED
    BY <2>1 DEF PdusInOrder, Increasing
<1>2. PdusInOrder /\ DownInv /\ DownInv' /\ [Next]_vars =>
        PdusInOrder' /\ [high' >= high]_vars
  <2> SUFFICES ASSUME PdusInOrder, DownInv, DownInv', [Next]_vars
               PROVE  PdusInOrder' /\ high' >= high
    OBVIOUS
  <2>1. PdusInOrder' /\ (high' >= high \/ UNCHANGED high)
    BY OrderNext DEF OrderInv
  <2>2. high \in Nat
    BY DEF DownInv, Typed
  <2> QED
    BY <2>1, <2>2
<1> QED
  BY <1>1, <1>2, DownInvariant, PTL DEF Spec, NoOvertaking

=============================================================================
