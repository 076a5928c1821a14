------------------------------ MODULE RLCDown -------------------------------
(***************************************************************************)
(* The downlink of GPRS in mbts: the queue of PDUs for one phone, the TBF  *)
(* that carries them (class TBF, direction Down) and its RLC engine in     *)
(* acknowledged mode (class RLCDownEngine), over a radio that loses blocks *)
(* and answers.  A PDU is one block here; the phone is that of 44.060.     *)
(***************************************************************************)
EXTENDS RLCSeq, Sequences

CONSTANTS MaxPdu,       \* bound: PDUs written
          MaxQueue,     \* bound: PDUs in the queue when one is written
          Slip,         \* 6 * msPCHDowns.size()
          PollEvery,    \* mNumDownPerAckNack
          N3105Max,     \* macN3105Max
          NStuck,       \* GPRS.TBF.Downlink.NStuck
          ReleaseMax,   \* GPRS.Counters.TbfRelease
          Persistence,  \* the settings of GPRS.Downlink.Persist: > 0 or not
          None

Pdu == 1 .. MaxPdu
Block == [pdu: Pdu, fbi: BOOLEAN]

ASSUME RLCDownAssumption ==
  /\ {MaxPdu, MaxQueue, Slip, PollEvery, N3105Max, NStuck, ReleaseMax} \subseteq Nat
  /\ Persistence \subseteq BOOLEAN
  /\ None \notin Pdu /\ None \notin Block

VARIABLES
    VS, VA, VB, TxQ, TxQNum,        \* mSt
    mPrevAckSsn, mResendSsn,
    mDownStalled, mDownFinished, mAllAcked,
    sinceAck,       \* mNumDownBlocksSinceAckNack, up to PollEvery
    sinceProgress,  \* mTotalBlocksSent - mPrevAckBlockCount, up to NStuck + 1
    mtState,        \* "None" if the phone has no downlink TBF; "DataWaiting1" is
                    \* DataReadyToConnect and DataWaiting2 too; "DataTransmit",
                    \* "TbfRelease", "Finished", "Dead"
    mtN3105, mtTbfReleaseCounter,
    poll, ack,      \* the reservation, and the phone's answer to it: "none" is
                    \* out; "unheard": sent, and the phone did not hear it; "heard":
                    \* the phone will answer; "answered": it has, and ack is on the
                    \* way; "told": it has heard of the release; "released": it has
                    \* answered that, and the TBF has not been serviced since
    msDownlinkQueue,
    mDownlinkPdu,   \* the last PDU pulled off the queue
    persist,        \* macDownlinkPersist > 0
    phone,          \* the receiver: on, V(Q), V(R), the blocks it holds
    written, high,  \* PDUs written so far, the last one delivered
    sent, got, outcome  \* for RLCTransfer: of the latest TBF

window == <<VS, VA, VB, TxQ, TxQNum>>
marks == <<mPrevAckSsn, mResendSsn, mDownStalled, mDownFinished, mAllAcked>>
counts == <<sinceAck, sinceProgress>>
tbf == <<mtState, mtN3105, mtTbfReleaseCounter, poll, ack>>
queue == <<msDownlinkQueue, mDownlinkPdu, written, persist>>
air == <<phone, high, got>>
vars == <<window, marks, counts, tbf, queue, air, sent, outcome>>

NoAck == [ssn |-> 0, acked |-> {}, final |-> FALSE]

Phone0(on) == [on |-> on, vq |-> 0, vr |-> 0, buf |-> [b \in SN |-> None], final |-> FALSE]

(* Of an engine that does not exist, and of a new one: memset, and the     *)
(* members that start as zero.                                             *)
NewEngine ==
  /\ VS' = 0 /\ VA' = 0 /\ TxQNum' = 0
  /\ VB' = [b \in SN |-> FALSE]
  /\ TxQ' = [b \in SN |-> None]
  /\ mPrevAckSsn' = 0 /\ mResendSsn' = 0
  /\ mDownStalled' = FALSE /\ mDownFinished' = FALSE /\ mAllAcked' = FALSE
  /\ sinceAck' = 0 /\ sinceProgress' = 0
  /\ mtN3105' = 0 /\ mtTbfReleaseCounter' = 0
  /\ poll' = "none" /\ ack' = NoAck /\ mDownlinkPdu' = None
  /\ sent' = <<>> /\ got' = <<>> /\ outcome' = "open"

Init ==
  /\ VS = 0 /\ VA = 0 /\ TxQNum = 0
  /\ VB = [b \in SN |-> FALSE]
  /\ TxQ = [b \in SN |-> None]
  /\ mPrevAckSsn = 0 /\ mResendSsn = 0
  /\ mDownStalled = FALSE /\ mDownFinished = FALSE /\ mAllAcked = FALSE
  /\ sinceAck = 0 /\ sinceProgress = 0
  /\ mtState = "None" /\ mtN3105 = 0 /\ mtTbfReleaseCounter = 0
  /\ poll = "none" /\ ack = NoAck
  /\ msDownlinkQueue = <<>> /\ mDownlinkPdu = None
  /\ persist \in Persistence
  /\ phone = Phone0(FALSE)
  /\ written = 0 /\ high = 0
  /\ sent = <<>> /\ got = <<>> /\ outcome = "open"

-----------------------------------------------------------------------------
(* The phone.  It takes a block of its window, delivers what is in order,  *)
(* and knows that it has everything when that includes the final block.    *)

Received(b, block) ==
  IF Steps(b, phone.vq) >= WS THEN phone
  ELSE LET buf == [phone.buf EXCEPT ![b] = block]
           n == CHOOSE k \in 0 .. WS :
                  /\ \A j \in 0 .. k - 1 : buf[addSN(phone.vq, j)] # None
                  /\ k < WS => buf[addSN(phone.vq, k)] = None
           ready == {addSN(phone.vq, j) : j \in 0 .. n - 1}
       IN [phone EXCEPT
             !.vq = addSN(@, n),
             !.vr = IF Steps(b, phone.vq) >= Steps(@, phone.vq) THEN addSN(b, 1) ELSE @,
             !.buf = [c \in SN |-> IF c \in ready THEN None ELSE buf[c]],
             !.final = @ \/ \E c \in ready : buf[c].fbi]

(* What it hands on when it takes that block.                              *)
Delivered(b, block) ==
  LET buf == [phone.buf EXCEPT ![b] = block]
      n == Steps(Received(b, block).vq, phone.vq)
  IN [j \in 1 .. n |-> buf[addSN(phone.vq, j - 1)].pdu]

OnAir(b, block, heard) ==
  IF heard /\ phone.on
  THEN /\ phone' = Received(b, block)
       /\ got' = got \o Delivered(b, block)
       /\ high' = IF got' = got THEN high ELSE got'[Len(got')]
  ELSE UNCHANGED air

(* V(N): the last WS blocks below V(R) that it has.                        *)
Bitmap ==
  {b \in SN : LET i == Steps(phone.vr, b)
                  past == i - Steps(phone.vr, phone.vq)
              IN /\ i \in 1 .. WS
                 /\ (phone.buf[b] # None \/ past \in 1 .. Len(got))}

(* It answers a poll it has heard, with what it has at that moment.        *)
PhoneAnswers ==
  /\ poll = "heard"
  /\ poll' = "answered"
  /\ ack' = [ssn |-> phone.vr, acked |-> Bitmap, final |-> phone.final]
  /\ UNCHANGED <<window, marks, counts, mtState, mtN3105, mtTbfReleaseCounter,
                 queue, air, sent, outcome>>

(* The reservation passes, BSNLagTime included, without an answer.         *)
PollExpires ==
  /\ poll \notin {"none", "released"}
  /\ poll' = "none" /\ ack' = NoAck
  /\ UNCHANGED <<window, marks, counts, mtState, mtN3105, mtTbfReleaseCounter,
                 queue, air, sent, outcome>>

-----------------------------------------------------------------------------
(* The SGSN and the life of the TBF.                                       *)

Write ==
  /\ written < MaxPdu /\ Len(msDownlinkQueue) < MaxQueue
  /\ written' = written + 1
  /\ msDownlinkQueue' = Append(msDownlinkQueue, written + 1)
  /\ UNCHANGED <<window, marks, counts, tbf, mDownlinkPdu, persist, air, sent, outcome>>

(* msService finds a PDU and no downlink TBF of any kind.  A PDU that is   *)
(* too old is deleted, in createDownlinkTbf.                               *)
StartTbf ==
  /\ mtState = "None" /\ msDownlinkQueue # <<>>
  /\ \/ mtState' = "DataWaiting1" /\ UNCHANGED msDownlinkQueue
     \/ msDownlinkQueue' = Tail(msDownlinkQueue) /\ UNCHANGED mtState
  /\ UNCHANGED <<window, marks, counts, mtN3105, mtTbfReleaseCounter, poll, ack,
                 mDownlinkPdu, written, persist, air, sent, outcome>>

(* The phone hears the assignment and leaves the TBF it was in; its answer *)
(* may be lost, and then the assignment is sent again.                     *)
AssignmentHeard ==
  /\ mtState = "DataWaiting1"
  /\ phone' = Phone0(TRUE)
  /\ mtState' \in {"DataWaiting1", "DataTransmit"}
  /\ UNCHANGED <<window, marks, counts, mtN3105, mtTbfReleaseCounter, poll, ack,
                 queue, high, got, sent, outcome>>

(* mtAssignCounter is beyond its limit.                                    *)
AssignmentFails ==
  /\ mtState = "DataWaiting1"
  /\ mtState' = "Dead"
  /\ outcome' = "failed"
  /\ UNCHANGED <<window, marks, counts, mtN3105, mtTbfReleaseCounter, poll, ack, queue, air, sent>>

(* mtCancel with TbfRetryAfterRelease, from whatever state it is called in.*)
CancelForRelease ==
  /\ mtState' = IF mtState = "DataTransmit" THEN "TbfRelease" ELSE "Dead"
  /\ outcome' = "failed"

(* Fault: the PDU goes to the back of the queue.                           *)
RetryAtTheBack ==
  /\ \/ /\ NewEngine
        /\ mtState' = "DataWaiting1"
        /\ msDownlinkQueue' = Append(msDownlinkQueue, mDownlinkPdu)
     \/ /\ mtState' = "Dead"
        /\ mDownlinkPdu' = None
        /\ poll' = "none"
        /\ UNCHANGED <<window, marks, counts, mtN3105, mtTbfReleaseCounter, ack,
                       msDownlinkQueue, sent, got, outcome>>
  /\ UNCHANGED <<written, persist, phone, high>>

(* mtRetry: the last PDU pulled off the queue, unless it is too old, goes  *)
(* back to its front, and a new TBF is there to send it.                   *)
mtRetry ==
  /\ \/ /\ NewEngine
        /\ mtState' = "DataWaiting1"
        /\ msDownlinkQueue' = <<mDownlinkPdu>> \o msDownlinkQueue
     \/ /\ mtState' = "Dead"
        /\ mDownlinkPdu' = None
        /\ poll' = "none"
        /\ UNCHANGED <<window, marks, counts, mtN3105, mtTbfReleaseCounter, ack,
                       msDownlinkQueue, sent, got, outcome>>
  /\ UNCHANGED <<written, persist, phone, high>>

(* The phone has not been heard for GPRS.Timers.MS.NonResponsive.          *)
NonResponsive ==
  /\ mtState \in {"DataWaiting1", "DataTransmit", "TbfRelease"}
  /\ mtState' = "Dead"
  /\ outcome' = "failed"
  /\ UNCHANGED <<window, marks, counts, mtN3105, mtTbfReleaseCounter, poll, ack, queue, air, sent>>

(* A TBF that is over is deleted, when no answer to it can come any more.  *)
Detach ==
  /\ mtState \in {"Finished", "Dead"} /\ poll = "none"
  /\ mtState' = "None"
  /\ NewEngine
  /\ UNCHANGED <<msDownlinkQueue, written, persist, phone, high>>

-----------------------------------------------------------------------------
(* The window.                                                             *)

resendNeeded(b, stalled) ==
  /\ ~VB'[b]
  /\ stalled \/ deltaSN(b, mResendSsn') < 0

(* Fault: one block too far.                                               *)
advanceVATooFar ==
  \E k \in 0 .. SNS - 1 :
    /\ \A j \in 0 .. k - 1 : addSN(VA, j) # TxQNum /\ VB'[addSN(VA, j)]
    /\ \/ addSN(VA, k) = TxQNum /\ VA' = TxQNum
       \/ addSN(VA, k) # TxQNum /\ ~VB'[addSN(VA, k)] /\ VA' = addSN(VA, k + 1)

(* Over every block that has been acknowledged, and as far as TxQNum.      *)
advanceVA ==
  \E k \in 0 .. SNS - 1 :
    /\ \A j \in 0 .. k - 1 : addSN(VA, j) # TxQNum /\ VB'[addSN(VA, j)]
    /\ VA' = addSN(VA, k)
    /\ VA' = TxQNum \/ ~VB'[VA']

(* Fault: the whole window is used.                                        *)
advanceVSFull(from, stalled) ==
  \E k \in 0 .. SNS - 1 :
    LET to == addSN(from, k)
        full == deltaSNS(to, VA') >= WS
    IN /\ \A j \in 0 .. k - 1 :
            LET b == addSN(from, j) IN b # TxQNum' /\ ~resendNeeded(b, stalled)
       /\ to = TxQNum' \/ resendNeeded(to, stalled)
       /\ VS' = IF full THEN VA' ELSE to
       /\ mDownStalled' = (full \/ stalled)

(* Over every block that need not be sent again; at the edge of the window *)
(* the engine is stalled and begins anew.                                  *)
advanceVS(from, stalled) ==
  \E k \in 0 .. SNS - 1 :
    LET to == addSN(from, k)
        full == deltaSNS(to, VA') >= WS - 1
    IN /\ \A j \in 0 .. k - 1 :
            LET b == addSN(from, j) IN b # TxQNum' /\ ~resendNeeded(b, stalled)
       /\ to = TxQNum' \/ resendNeeded(to, stalled)
       /\ VS' = IF full THEN VA' ELSE to
       /\ mDownStalled' = (full \/ stalled)

-----------------------------------------------------------------------------
(* engineService, called for each of the phone's channels; primary: for    *)
(* msPacch, the only one that carries reservations.  room: there is one to *)
(* be had; heard: the phone hears the block.  What the code does over an   *)
(* idle block, and when a keep-alive is due, has no effect on this state:  *)
(* isKeepAlive() is false of every PDU (SgsnExport.h:70), so that no block *)
(* is idle, and sgsnSendKeepAlive() is empty (Sgsn.cpp:1973).              *)

dlPersistentMode == ~mDownFinished /\ persist

PrevIsFinal ==
  LET prev == TxQ[addSN(VS, -1)] IN prev # None /\ prev.fbi

(* Fault: blocks go on after the final one.                                *)
FreshAfterFinal == VS = TxQNum /\ msDownlinkQueue # <<>>

Fresh == VS = TxQNum /\ ~PrevIsFinal /\ msDownlinkQueue # <<>>

(* Fault: the slot keeps the acknowledgement of its last block.            *)
getBlockAcked(primary) ==
  \/ /\ Fresh
     /\ LET fbi == Tail(msDownlinkQueue) = <<>> /\ ~dlPersistentMode
            block == [pdu |-> Head(msDownlinkQueue), fbi |-> fbi]
        IN /\ TxQ' = [TxQ EXCEPT ![TxQNum] = block]
           /\ mDownFinished' = (mDownFinished \/ fbi)
           /\ sent' = Append(sent, block.pdu)
           /\ mDownlinkPdu' = block.pdu
     /\ msDownlinkQueue' = Tail(msDownlinkQueue)
     /\ mAllAcked' = FALSE
     /\ TxQNum' = addSN(TxQNum, 1)
     /\ UNCHANGED VB
  \/ /\ ~Fresh
     /\ VS # TxQNum \/ PrevIsFinal \/ (primary /\ ~mAllAcked)
     /\ UNCHANGED <<TxQ, TxQNum, VB, mDownFinished, mAllAcked, msDownlinkQueue, mDownlinkPdu, sent>>

(* getBlock makes a block (engineFillBlock) or finds an old one.  When it  *)
(* has nothing the last block is sent again, on the primary channel and    *)
(* unless all have been acknowledged.                                      *)
getBlock(primary) ==
  \/ /\ Fresh
     /\ LET fbi == Tail(msDownlinkQueue) = <<>> /\ ~dlPersistentMode
            block == [pdu |-> Head(msDownlinkQueue), fbi |-> fbi]
        IN /\ TxQ' = [TxQ EXCEPT ![TxQNum] = block]
           /\ mDownFinished' = (mDownFinished \/ fbi)
           /\ sent' = Append(sent, block.pdu)
           /\ mDownlinkPdu' = block.pdu
     /\ msDownlinkQueue' = Tail(msDownlinkQueue)
     /\ VB' = [VB EXCEPT ![TxQNum] = FALSE]
     /\ mAllAcked' = FALSE
     /\ TxQNum' = addSN(TxQNum, 1)
  \/ /\ ~Fresh
     /\ VS # TxQNum \/ PrevIsFinal \/ (primary /\ ~mAllAcked)
     /\ UNCHANGED <<TxQ, TxQNum, VB, mDownFinished, mAllAcked, msDownlinkQueue, mDownlinkPdu, sent>>

UpTo(n, bound) == IF n < bound THEN n + 1 ELSE bound

(* A reservation comes with the block.                                     *)
Reserve(heard) ==
  /\ poll' = IF heard /\ phone.on THEN "heard" ELSE "unheard"
  /\ mtN3105' = mtN3105 + 1

NoReserve == UNCHANGED <<poll, mtN3105>>

(* The final block: never without a reservation, VS stays.                 *)
SendFinal(b, primary, room, heard) ==
  /\ primary /\ poll = "none" /\ room
  /\ Reserve(heard)
  /\ OnAir(b, TxQ'[b], heard)
  /\ sinceProgress' = UpTo(sinceProgress, NStuck + 1)
  /\ UNCHANGED <<VS, mDownStalled, sinceAck>>

(* Stalled: every block asks for an answer, one at a time.  Else: every    *)
(* PollEvery blocks, if no reservation is out.                             *)
SendBlock(b, primary, room, heard) ==
  /\ IF mDownStalled
     THEN /\ primary /\ poll = "none"
          /\ IF room THEN Reserve(heard) ELSE NoReserve
          /\ UNCHANGED sinceAck
     ELSE /\ sinceAck' = IF primary THEN UpTo(sinceAck, PollEvery) ELSE sinceAck
          /\ IF primary /\ sinceAck' = PollEvery /\ poll = "none" /\ room
             THEN Reserve(heard) ELSE NoReserve
  /\ OnAir(b, TxQ'[b], heard)
  /\ sinceProgress' = UpTo(sinceProgress, NStuck + 1)
  /\ IF VS # TxQNum \/ Fresh
     THEN advanceVS(addSN(VS, 1), mDownStalled)
     ELSE UNCHANGED <<VS, mDownStalled>>

(* It has made a block and may not send it now.                            *)
Withheld(b, primary, room) ==
  /\ Fresh
  /\ \/ TxQ'[b].fbi /\ ~(primary /\ poll = "none" /\ room)
     \/ ~TxQ'[b].fbi /\ mDownStalled /\ ~(primary /\ poll = "none")
  /\ UNCHANGED <<VS, mDownStalled, counts, poll, mtN3105, air>>

engineService(primary, room, heard) ==
  /\ mtState = "DataTransmit" /\ mtN3105 <= N3105Max
  /\ getBlock(primary)
  /\ UNCHANGED <<VA, mPrevAckSsn, mResendSsn>>
  /\ LET b == IF VS # TxQNum \/ Fresh THEN VS ELSE addSN(VS, -1) IN
     \/ Withheld(b, primary, room)
     \/ TxQ'[b].fbi /\ SendFinal(b, primary, room, heard)
     \/ ~TxQ'[b].fbi /\ SendBlock(b, primary, room, heard)
  /\ UNCHANGED <<mtState, mtTbfReleaseCounter, ack, written, persist, outcome>>

(* Too many reservations in a row without an answer.                       *)
N3105Exceeded ==
  /\ mtState = "DataTransmit" /\ mtN3105 > N3105Max
  /\ CancelForRelease
  /\ UNCHANGED <<window, marks, counts, mtN3105, mtTbfReleaseCounter, poll, ack, queue, air, sent>>

-----------------------------------------------------------------------------
(* engineRecvAckNack, in whatever state the TBF is when the answer comes.  *)

(* Nothing new for long: the TBF is given up.                              *)
Stuck ==
  /\ ~ack.final
  /\ ack.ssn = mPrevAckSsn /\ \A b \in ack.acked : VB[b]
  /\ sinceProgress > NStuck

(* What is to be sent again: what the phone could have had and has not.    *)
ResendBefore ==
  IF ack.ssn = mPrevAckSsn \/ mDownFinished THEN TxQNum
  ELSE IF deltaSNS(TxQNum, ack.ssn) > Slip THEN addSN(TxQNum, -Slip)
  ELSE ack.ssn

(* Fault: any answer counts as progress.                                   *)
MarkAckedAlive ==
  IF ack.final
  THEN /\ VB' = [b \in SN |-> TRUE]
       /\ UNCHANGED <<mPrevAckSsn, mResendSsn, sinceProgress>>
  ELSE /\ VB' = [b \in SN |-> VB[b] \/ b \in ack.acked]
       /\ mPrevAckSsn' = ack.ssn
       /\ mResendSsn' = ResendBefore
       /\ sinceProgress' = 0

MarkAcked ==
  IF ack.final
  THEN /\ VB' = [b \in SN |-> TRUE]
       /\ UNCHANGED <<mPrevAckSsn, mResendSsn, sinceProgress>>
  ELSE /\ VB' = [b \in SN |-> VB[b] \/ b \in ack.acked]
       /\ mPrevAckSsn' = ack.ssn
       /\ mResendSsn' = ResendBefore
       /\ sinceProgress' = IF ack.ssn = mPrevAckSsn /\ \A b \in ack.acked : VB[b]
                           THEN sinceProgress ELSE 0

engineRecvAckNack ==
  /\ poll = "answered"
  /\ poll' = "none" /\ ack' = NoAck /\ mtN3105' = 0 /\ sinceAck' = 0
  /\ UNCHANGED <<TxQ, TxQNum, mDownFinished, mtTbfReleaseCounter, queue, air, sent>>
  /\ IF Stuck
     THEN /\ CancelForRelease
          /\ VB' = [b \in SN |-> VB[b] \/ b \in ack.acked]
          /\ mDownStalled' = FALSE
          /\ UNCHANGED <<VS, VA, mPrevAckSsn, mResendSsn, mAllAcked, sinceProgress>>
     ELSE /\ MarkAcked
          /\ advanceVA
          /\ mAllAcked' = (mAllAcked \/ ack.final \/ VA' = TxQNum)
          /\ IF VA' = TxQNum
             THEN /\ mDownStalled' = FALSE
                  /\ IF mDownFinished
                     THEN mtState' = "Finished" /\ outcome' = "success"
                     ELSE UNCHANGED <<mtState, outcome>>
                  /\ UNCHANGED VS
             ELSE advanceVS(VA', FALSE) /\ UNCHANGED <<mtState, outcome>>

-----------------------------------------------------------------------------
(* mtSendTbfRelease, on the primary channel.                               *)

SendRelease(heard) ==
  /\ mtState = "TbfRelease" /\ poll = "none"
  /\ mtTbfReleaseCounter <= ReleaseMax
  /\ mtTbfReleaseCounter' = mtTbfReleaseCounter + 1
  /\ poll' = IF heard /\ phone.on THEN "told" ELSE "unheard"
  /\ phone' = IF heard THEN [phone EXCEPT !.on = FALSE] ELSE phone
  /\ UNCHANGED <<window, marks, counts, mtState, mtN3105, ack, queue, high, got, sent, outcome>>

ReleaseAnswered ==
  /\ poll = "told"
  /\ poll' = "released" /\ mtN3105' = 0
  /\ UNCHANGED <<window, marks, counts, mtState, mtTbfReleaseCounter, ack, queue, air, sent, outcome>>

(* Answered, or asked too often (mtCancel with TbfRetryAfterWait).         *)
ReleaseEnds ==
  /\ mtState = "TbfRelease"
  /\ \/ poll = "released"
     \/ poll = "none" /\ mtTbfReleaseCounter > ReleaseMax
  /\ mtRetry

-----------------------------------------------------------------------------
Next ==
  \/ Write \/ StartTbf \/ AssignmentHeard \/ AssignmentFails
  \/ NonResponsive \/ Detach
  \/ PhoneAnswers \/ PollExpires \/ engineRecvAckNack
  \/ \E primary, room, heard \in BOOLEAN : engineService(primary, room, heard)
  \/ N3105Exceeded
  \/ \E heard \in BOOLEAN : SendRelease(heard)
  \/ ReleaseAnswered \/ ReleaseEnds

Spec == Init /\ [][Next]_vars

(* The service loop comes to each TBF, and to its primary channel, again   *)
(* and again; a reservation passes.  Nothing is assumed of the radio.      *)
Fairness ==
  /\ WF_vars(\E heard \in BOOLEAN : engineService(TRUE, TRUE, heard))
  /\ WF_vars(N3105Exceeded)
  /\ WF_vars(PollExpires)
  /\ WF_vars(\E heard \in BOOLEAN : SendRelease(heard))
  /\ WF_vars(ReleaseEnds)

FairSpec == Spec /\ Fairness

-----------------------------------------------------------------------------
(* Properties.                                                             *)

Outstanding == {b \in SN : Steps(b, VA) < Steps(TxQNum, VA)}
Place(b) == Len(sent) - Steps(TxQNum, b) + 1

(* The sender stays one short of the window, so that a sequence number in  *)
(* an answer stands for one block only (advanceVS: "only send 63").        *)
WindowOpen == Steps(TxQNum, VA) <= WS - 1

(* An acknowledgement that was taken is true, however late it came and     *)
(* whatever has been sent since: the phone has the block that number       *)
(* stands for now, and has delivered all those VA has passed.              *)
AckedIsReceived ==
  /\ Len(sent) - Steps(TxQNum, VA) <= Len(got)
  /\ \A b \in Outstanding :
       VB[b] => \/ Place(b) <= Len(got)
                \/ phone.buf[b] # None /\ phone.buf[b].pdu = sent[Place(b)]

(* What the phone has not got can still be sent: its slot in TxQ has not   *)
(* been taken by a later block.                                            *)
MissingIsKept ==
  \A i \in Len(got) + 1 .. Len(sent) :
    \E b \in Outstanding : Place(b) = i /\ TxQ[b] # None /\ TxQ[b].pdu = sent[i]

(* The TBF keeps the promise of RLCTransfer: in order, each block once, and*)
(* no success (mtFinishSuccess) while the phone lacks a block.             *)
Down == INSTANCE RLCTransfer WITH Payload <- Pdu
KeepsTransfer == Down!Spec

(* Over all the TBFs of a phone, with their failures and retries, no PDU   *)
(* reaches it after a later one.                                           *)
NoOvertaking == [][high' >= high]_vars

(* A TBF does not go on for ever, whatever the radio loses: it succeeds or *)
(* is given up (N3105, NStuck, GPRS.Counters.TbfRelease), unless it is kept*)
(* open by GPRS.Downlink.Persist with nothing left to send.                *)
Idle == persist /\ mAllAcked /\ msDownlinkQueue = <<>>
EveryTbfEnds ==
  mtState \in {"DataTransmit", "TbfRelease"} ~>
    (mtState \notin {"DataTransmit", "TbfRelease"} \/ Idle)
=============================================================================
