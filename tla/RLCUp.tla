------------------------------- MODULE RLCUp --------------------------------
(***************************************************************************)
(* One uplink TBF of GPRS in mbts, from its data transfer to its end (class*)
(* TBF, direction Up, and class RLCUpEngine), in acknowledged mode and with*)
(* extended (persistent) uplink or without, over a radio that loses blocks *)
(* and answers.  A PDU is one block here, the TBF has one channel, and the *)
(* phone is that of 44.060.                                                *)
(***************************************************************************)
EXTENDS RLCSeq, SequencesExt

CONSTANTS MaxPdu,       \* bound: blocks the phone has to send
          MaxExtended,  \* bound: the same, in extended uplink
          Lag,          \* bound: uplink blocks on their way
          AckEvery,     \* mNumUpPerAckNack
          N3101Max,     \* macN3101Max
          N3103Max,     \* macN3103Max
          Persistence,  \* whether msCanUseExtendedUplink, for the phones there are
          None

ASSUME RLCUpAssumption ==
  /\ {MaxPdu, MaxExtended, Lag, AckEvery, N3101Max, N3103Max} \subseteq Nat
  /\ WS > 2 /\ MaxExtended <= MaxPdu /\ Persistence \subseteq BOOLEAN

VARIABLES
    VR, VQ, VN, RxQ,    \* mSt
    mtUpState,          \* "Transmit", "Quiescent", "PersistFinal", "Finished"
    mUpStalled,
    sinceAck,           \* mNumUpBlocksSinceAckNack, up to AckEvery
    mUpPersistentMode, mtPerformReassign,
    mtState,            \* "DataTransmit", "DataFinal", "Finished", "Dead"
    msN3101, mtN3103,
    granted,            \* msAckNackUSFGrant # msNumDataUSFGrants
    poll,               \* the final acknowledgement: "none" is out, or one that
                        \* nobody will answer; "heard": the phone will answer;
                        \* "acked": it has, and nothing ever takes that back
    pending,            \* mtMsgPending(MsgTransTransmit): the reservation of
                        \* the last acknowledgement that was not final
    phone,              \* the sender: told (of the end), closed, V(S), V(A),
                        \* V(B), and which of its blocks are final
    flight,             \* blocks that are on their way to mbts, in order
    sent, got, outcome, \* for RLCTransfer
    lastFinal           \* the last block of got was a final one

window == <<VR, VQ, VN, RxQ>>
engine == <<mtUpState, mUpStalled, sinceAck>>
ending == <<mtN3103, poll, pending>>
modes == <<mUpPersistentMode, mtPerformReassign>>
taken == <<got, lastFinal>>
vars == <<window, engine, ending, modes, mtState, msN3101, granted, phone, flight,
          sent, taken, outcome>>

Pdu == 1 .. MaxPdu
NewPhone ==
  [told |-> FALSE, closed |-> FALSE, vs |-> 0, va |-> 0, vb |-> {}, fbi |-> {}]

Init ==
  /\ VR = 0 /\ VQ = 0
  /\ VN = [b \in SN |-> FALSE]
  /\ RxQ = [b \in SN |-> None]
  /\ mtUpState = "Transmit" /\ mUpStalled = FALSE /\ sinceAck = 0
  /\ mUpPersistentMode \in Persistence /\ mtPerformReassign = FALSE
  /\ mtState = "DataTransmit" /\ msN3101 = 0 /\ mtN3103 = 0
  /\ granted = FALSE /\ poll = "none" /\ pending = FALSE
  /\ phone = NewPhone
  /\ flight = <<>> /\ sent = <<>> /\ got = <<>> /\ outcome = "open" /\ lastFinal = FALSE

-----------------------------------------------------------------------------
(* The phone.                                                              *)

Unacked == {b \in SN : Steps(b, phone.va) < Steps(phone.vs, phone.va)} \ phone.vb
Place(b) == Len(sent) - Steps(phone.vs, b) + 1

(* Without extended uplink nothing follows the final block.                *)
MaySendNew ==
  /\ Len(sent) < IF mUpPersistentMode THEN MaxExtended ELSE MaxPdu
  /\ Steps(phone.vs, phone.va) < WS
  /\ mUpPersistentMode \/ ~phone.closed

SendsNew(final) ==
  /\ MaySendNew
  /\ sent' = Append(sent, Len(sent) + 1)
  /\ phone' = [phone EXCEPT !.vs = addSN(@, 1), !.closed = @ \/ final,
                            !.fbi = IF final THEN @ \cup {phone.vs} ELSE @]

(* Its next block, or one that has not been acknowledged.                  *)
SendsOne(b) ==
  \/ b = phone.vs /\ \E final \in BOOLEAN : SendsNew(final)
  \/ b \in Unacked /\ UNCHANGED <<sent, phone>>

(* SI says that the phone's window is full.                                *)
OnAir(b) ==
  [bsn |-> b, block |-> [pdu |-> sent'[Place(b)'], final |-> b \in phone'.fbi],
   si |-> Steps(phone'.vs, phone.va) = WS, after |-> mtUpState = "PersistFinal"]

(* It takes the bitmap of an acknowledgement that is not final.            *)
Hears(ssn, bitmap) ==
  LET vb == phone.vb \cup (bitmap \cap Unacked)
      n == CHOOSE k \in 0 .. WS :
             /\ \A j \in 0 .. k - 1 : addSN(phone.va, j) \in vb
             /\ addSN(phone.va, k) \notin vb
      done == {addSN(phone.va, j) : j \in 0 .. n - 1}
  IN phone' = [phone EXCEPT !.va = addSN(@, n), !.vb = vb \ done, !.fbi = @ \ done]

-----------------------------------------------------------------------------
(* USFs, and the blocks that answer them.                                  *)

UpTo(n, bound) == IF n < bound THEN n + 1 ELSE bound

(* findNeedyUSF and msCountUSFGrant, also while the engine is waiting in   *)
(* RlcUpPersistFinal.                                                      *)
MayGrant == mtState = "DataTransmit" /\ msN3101 <= N3101Max

(* The USF, or what the phone sent for it, is lost.                        *)
GrantUnanswered ==
  /\ MayGrant
  /\ granted' = TRUE
  /\ msN3101' = msN3101 + 1
  /\ \/ UNCHANGED <<sent, phone>>
     \/ \E final \in BOOLEAN : SendsNew(final)
  /\ UNCHANGED <<window, engine, ending, modes, mtState, flight, taken, outcome>>

(* The phone sends a control block.                                        *)
GrantControl ==
  /\ MayGrant /\ flight = <<>>
  /\ granted' = TRUE
  /\ msN3101' = 0
  /\ UNCHANGED <<window, engine, ending, modes, mtState, phone, flight, sent,
                 taken, outcome>>

(* Its block is still on the way when other things happen: of interest when*)
(* the engine is not in RlcUpTransmit.                                     *)
GrantDelayed ==
  /\ MayGrant /\ Len(flight) < Lag /\ mtUpState # "Transmit"
  /\ granted' = TRUE
  /\ msN3101' = msN3101 + 1
  /\ \E b \in Unacked \cup {phone.vs} :
       SendsOne(b) /\ flight' = Append(flight, OnAir(b))
  /\ UNCHANGED <<window, engine, ending, modes, mtState, taken, outcome>>

(* The TBF is over.  It takes no block any more, whether it is waiting to  *)
(* be deleted or has been, and nothing is left of the engine.              *)
Over(state, result) ==
  /\ mtState' = state /\ outcome' = result
  /\ VR' = 0 /\ VQ' = 0
  /\ VN' = [b \in SN |-> FALSE]
  /\ RxQ' = [b \in SN |-> None]
  /\ mtUpState' = "Transmit" /\ mUpStalled' = FALSE /\ sinceAck' = 0
  /\ msN3101' = 0 /\ mtN3103' = 0 /\ granted' = FALSE
  /\ poll' = "none" /\ pending' = FALSE
  /\ phone' = NewPhone /\ flight' = <<>>
  /\ UNCHANGED <<modes, sent, taken>>

(* mtCancel, by msStop from msService.                                     *)
N3101Exceeded ==
  /\ mtState \in {"DataTransmit", "DataFinal"} /\ msN3101 > N3101Max
  /\ Over("Dead", "failed")

(* The phone has not been heard for GPRS.Timers.MS.NonResponsive.          *)
NonResponsive ==
  /\ mtState \in {"DataTransmit", "DataFinal"}
  /\ Over("Dead", "failed")

(* Fault: a new block is not noticed in RlcUpPersistFinal.                 *)
AfterBlockKeepsClosing(state, block) ==
  IF block.final
  THEN IF mUpPersistentMode /\ ~mtPerformReassign THEN "Quiescent" ELSE "Finished"
  ELSE IF state = "Quiescent" THEN "Transmit" ELSE state

(* What one consumed block makes of mtUpState.                             *)
AfterBlock(state, block) ==
  IF block.final
  THEN IF mUpPersistentMode /\ ~mtPerformReassign THEN "Quiescent" ELSE "Finished"
  ELSE IF state \in {"Quiescent", "PersistFinal"} THEN "Transmit" ELSE state

(* Fault: a final block counts as soon as it is received.                  *)
engineUpAdvanceWindowEarly(queue) ==
  LET n == CHOOSE k \in 0 .. SNS :
             /\ \A j \in 0 .. k - 1 : queue[addSN(VQ, j)] # None
             /\ k < SNS => queue[addSN(VQ, k)] = None
      run == [j \in 1 .. n |-> queue[addSN(VQ, j - 1)]]
      finals == {b \in SN : queue[b] # None /\ queue[b].final}
  IN /\ VQ' = addSN(VQ, n)
     /\ RxQ' = [b \in SN |-> IF Steps(b, VQ) < n THEN None ELSE queue[b]]
     /\ got' = got \o [j \in 1 .. n |-> run[j].pdu]
     /\ lastFinal' = IF n = 0 THEN lastFinal ELSE run[n].final
     /\ mtUpState' = IF finals # {} THEN AfterBlock(mtUpState, [pdu |-> 1, final |-> TRUE])
                     ELSE FoldLeft(AfterBlock, mtUpState, run)

(* Takes the blocks that are in order off queue.                           *)
engineUpAdvanceWindow(queue) ==
  LET n == CHOOSE k \in 0 .. SNS :
             /\ \A j \in 0 .. k - 1 : queue[addSN(VQ, j)] # None
             /\ k < SNS => queue[addSN(VQ, k)] = None
      run == [j \in 1 .. n |-> queue[addSN(VQ, j - 1)]]
  IN /\ VQ' = addSN(VQ, n)
     /\ RxQ' = [b \in SN |-> IF Steps(b, VQ) < n THEN None ELSE queue[b]]
     /\ got' = got \o [j \in 1 .. n |-> run[j].pdu]
     /\ lastFinal' = IF n = 0 THEN lastFinal ELSE run[n].final
     /\ mtUpState' = FoldLeft(AfterBlock, mtUpState, run)

(* Fault: what is behind the window is not forgotten.                      *)
ForgottenNever(bsn) == {}

(* The numbers that a block ahead of VR puts behind the window.  Of a jump *)
(* of WS - 2 or more it is one itself.                                     *)
Forgotten(bsn) ==
  LET oldest == addSN(VR, -WS - 2) IN
  IF deltaSN(bsn, addSN(VR, -1)) > 0
  THEN {addSN(oldest, j) : j \in 0 .. Steps(bsn, VR)}
  ELSE {}

(* The block is stored before the numbers are forgotten.  If that frees it,*)
(* mUpStalled is set from what the memory then holds.  (queue is bound by  *)
(* \E so that TLC works it out once.)                                      *)
engineRecvDataBlock(burst) ==
  LET b == burst.bsn
      gone == Forgotten(b)
  IN /\ VR' = IF deltaSN(b, addSN(VR, -1)) > 0 THEN addSN(b, 1) ELSE VR
     /\ VN' = [c \in SN |-> c \notin gone /\ (c = b \/ VN[c])]
     /\ mUpStalled' \in IF b \in gone THEN BOOLEAN ELSE {burst.si}
     /\ sinceAck' = UpTo(sinceAck, AckEvery)
     /\ \E queue \in {[c \in SN |-> IF c \in gone THEN None
                                   ELSE IF c = b THEN burst.block ELSE RxQ[c]]} :
          engineUpAdvanceWindow(queue)
     /\ mtState' = IF mtUpState' = "Finished" THEN "DataFinal" ELSE mtState

(* processUplinkBlock: the phone has been heard.                           *)
GrantAnswered ==
  /\ MayGrant /\ flight = <<>>
  /\ granted' = TRUE
  /\ msN3101' = 0
  /\ \E b \in Unacked \cup {phone.vs} :
       SendsOne(b) /\ engineRecvDataBlock(OnAir(b))
  /\ UNCHANGED <<ending, modes, flight, outcome>>

Arrive ==
  /\ flight # <<>>
  /\ flight' = Tail(flight)
  /\ msN3101' = 0
  /\ engineRecvDataBlock(Head(flight))
  /\ UNCHANGED <<ending, modes, granted, phone, sent, outcome>>

(* newUpTBF for a phone whose uplink TBF is transmitting, and wants another*)
(* priority (GPRS.Reassign.Enable).  Only extended uplink looks at it.     *)
Reassign ==
  /\ mtState = "DataTransmit" /\ ~phone.told /\ mUpPersistentMode
  /\ msN3101' = 0
  /\ mtPerformReassign' = TRUE
  /\ UNCHANGED <<window, engine, ending, mUpPersistentMode, mtState, granted, phone,
                 flight, sent, taken, outcome>>

-----------------------------------------------------------------------------
(* engineService, on the primary channel.                                  *)

Serviced ==
  \/ mtState = "DataTransmit"
  \/ mtState = "DataFinal" /\ mtN3103 <= N3103Max

(* The WS numbers behind VR.                                               *)
Bitmap == {b \in SN : VN[b] /\ Steps(VR, b) \in 1 .. WS}

(* When the phone is stalled, and every AckEvery blocks, an acknowledgement*)
(* is sent, or waits for a USF, before anything else is done; but not while*)
(* the last one is pending.                                                *)
AckDue == (mUpStalled \/ sinceAck = AckEvery) /\ ~pending

(* Sent for that, or to keep a quiescent TBF alive; not twice for one USF, *)
(* and with a reservation if there is one to be had (of which nothing      *)
(* depends without extended uplink).                                       *)
sendNonFinalAckNack(heard) ==
  /\ Serviced /\ mtUpState # "Finished" /\ granted
  /\ AckDue \/ (mUpPersistentMode /\ mtUpState = "Quiescent")
  /\ granted' = FALSE /\ sinceAck' = 0
  /\ pending' \in {pending, mUpPersistentMode}
  /\ IF heard /\ ~phone.told THEN Hears(VR, Bitmap) ELSE UNCHANGED phone
  /\ UNCHANGED <<window, mtUpState, mUpStalled, mtN3103, poll, modes, mtState, msN3101,
                 flight, sent, taken, outcome>>

(* Answered, or not any more to be.                                        *)
NoLongerPending ==
  /\ pending /\ pending' = FALSE
  /\ UNCHANGED <<window, engine, mtN3103, poll, modes, mtState, msN3101, granted, phone,
                 flight, sent, taken, outcome>>

(* The persist timer is over, or the phone wants another priority.         *)
BeginClosing ==
  /\ Serviced /\ ~AckDue /\ mUpPersistentMode /\ mtUpState = "Quiescent"
  /\ mtUpState' = "PersistFinal"
  /\ flight' = [i \in DOMAIN flight |-> [flight[i] EXCEPT !.after = FALSE]]
  /\ UNCHANGED <<window, mUpStalled, sinceAck, ending, modes, mtState, msN3101,
                 granted, phone, sent, taken, outcome>>

(* Four block periods later: the answers to the USFs sent up to then have  *)
(* come.                                                                   *)
EndClosing ==
  /\ Serviced /\ ~AckDue /\ mUpPersistentMode /\ mtUpState = "PersistFinal"
  /\ \A i \in DOMAIN flight : flight[i].after
  /\ mtUpState' = "Finished" /\ mtState' = "DataFinal"
  /\ UNCHANGED <<window, mUpStalled, sinceAck, ending, modes, msN3101, granted, phone,
                 flight, sent, taken, outcome>>

(* Fault: N3103 is not counted.                                            *)
SendFinalAckUncounted(heard) ==
  /\ mtState = "DataFinal" /\ mtN3103 <= N3103Max
  /\ mtUpState = "Finished" /\ poll = "none" /\ ~pending
  /\ IF heard /\ ~phone.told
     THEN poll' = "heard" /\ phone' = [NewPhone EXCEPT !.told = TRUE]
     ELSE UNCHANGED <<poll, phone>>
  /\ UNCHANGED <<window, engine, modes, mtN3103, pending, mtState, msN3101, granted, flight,
                 sent, taken, outcome>>

(* The final acknowledgement, with a reservation for the phone's answer.   *)
(* The phone that hears it leaves the TBF.                                 *)
SendFinalAck(heard) ==
  /\ mtState = "DataFinal" /\ mtN3103 <= N3103Max
  /\ mtUpState = "Finished" /\ poll = "none" /\ ~pending
  /\ mtN3103' = mtN3103 + 1
  /\ IF heard /\ ~phone.told
     THEN poll' = "heard" /\ phone' = [NewPhone EXCEPT !.told = TRUE]
     ELSE UNCHANGED <<poll, phone>>
  /\ UNCHANGED <<window, engine, modes, pending, mtState, msN3101, granted, flight,
                 sent, taken, outcome>>

(* The answer is behind the blocks the phone sent before.                  *)
FinalAnswered ==
  /\ poll = "heard" /\ flight = <<>>
  /\ poll' = "acked"
  /\ UNCHANGED <<window, engine, modes, mtN3103, pending, mtState, msN3101, granted, phone,
                 flight, sent, taken, outcome>>

PollExpires ==
  /\ poll = "heard"
  /\ poll' = "none"
  /\ UNCHANGED <<window, engine, modes, mtN3103, pending, mtState, msN3101, granted, phone,
                 flight, sent, taken, outcome>>

mtFinishSuccess ==
  /\ mtState = "DataFinal" /\ mtN3103 <= N3103Max
  /\ mtUpState = "Finished" /\ poll = "acked"
  /\ Over("Finished", "success")

(* Looked at before the answer is: the last one is not waited for.         *)
N3103Exceeded ==
  /\ mtState = "DataFinal" /\ mtN3103 > N3103Max
  /\ Over("Dead", "failed")

-----------------------------------------------------------------------------
Next ==
  \/ GrantUnanswered \/ GrantControl \/ GrantDelayed \/ GrantAnswered
  \/ Arrive \/ Reassign \/ N3101Exceeded \/ NonResponsive
  \/ \E heard \in BOOLEAN : sendNonFinalAckNack(heard)
  \/ NoLongerPending \/ BeginClosing \/ EndClosing
  \/ \E heard \in BOOLEAN : SendFinalAck(heard)
  \/ FinalAnswered \/ PollExpires \/ mtFinishSuccess \/ N3103Exceeded

Spec == Init /\ [][Next]_vars

UsfOrStop ==
  GrantUnanswered \/ GrantControl \/ GrantDelayed \/ GrantAnswered \/ N3101Exceeded
Closing == BeginClosing \/ EndClosing
Acks == \E heard \in BOOLEAN : sendNonFinalAckNack(heard)
Ending ==
  \/ \E heard \in BOOLEAN : SendFinalAck(heard)
  \/ PollExpires \/ NoLongerPending \/ mtFinishSuccess \/ N3103Exceeded

(* A block that comes after the end was decided on may take the engine out *)
(* of RlcUpFinished; no USF is granted any more, and an acknowledgement    *)
(* that is due waits for one.  The phone is not heard then.                *)
Unheard == mtState = "DataFinal" /\ mtUpState # "Finished" /\ flight = <<>>

(* The service loop comes to the TBF and its phone again and again: USFs   *)
(* are granted, and counted, while it transmits, acknowledgements that are *)
(* due are sent, the persist timer runs out, the final acknowledgement is  *)
(* sent, waited for and counted; what is on the air passes, and            *)
(* NonResponsive ends what is not heard.  Nothing is assumed of the radio  *)
(* or the phone.  Closing is put off only by acknowledgements that are due *)
(* and by bursts that begin, never for ever by the loop itself.            *)
Fairness ==
  /\ WF_vars(UsfOrStop) /\ WF_vars(Acks) /\ SF_vars(Closing) /\ WF_vars(Ending)
  /\ WF_vars(Arrive) /\ WF_vars(Unheard /\ NonResponsive)

FairSpec == Spec /\ Fairness

-----------------------------------------------------------------------------
(* Properties.                                                             *)

(* What the phone may throw away: the blocks it has seen acknowledged.     *)
Released ==
  {i \in DOMAIN sent :
     LET back == Len(sent) - i + 1 IN
     back > Steps(phone.vs, phone.va) \/ addSN(phone.vs, -back) \in phone.vb}

(* A block the phone may throw away has been handed on, or is in RxQ under *)
(* its own number: VN never speaks for a block that came and went before   *)
(* the numbers came round, nor for one that was freed as it arrived.       *)
(* Without extended uplink all have been handed on when the phone is told  *)
(* that the TBF is over.                                                   *)
AckedIsHeld ==
  /\ outcome = "open" /\ ~phone.told =>
       \A i \in Released :
         \/ i <= Len(got)
         \/ \E b \in SN : RxQ[b] # None /\ RxQ[b].pdu = i /\ Place(b) = i
  /\ phone.told /\ ~mUpPersistentMode => got = sent

(* The TBF keeps the promise of RLCTransfer: the SGSN gets the blocks in   *)
(* order and each once, and mtFinishSuccess comes when it has them all.    *)
(* With extended uplink the phone may begin again at any time, and blocks  *)
(* that come after the end of a TBF was decided on are not in the promise. *)
Up == INSTANCE RLCTransfer WITH
        Payload <- Pdu,
        outcome <- IF outcome = "success" /\ mUpPersistentMode /\ got # sent
                   THEN "failed" ELSE outcome
KeepsTransfer == Up!Spec

(* Also with extended uplink the end is decided on only when the last block*)
(* handed on is a final one: a new burst that has begun to arrive throws   *)
(* the engine back into RlcUpTransmit ("If a new TBF starts in the meantime*)
(* it will throw us back", engineService).  Not so when the phone has asked *)
(* for another priority: a final block ends the TBF then, and the next burst*)
(* may have been taken off RxQ with it.                                    *)
EndsBetweenBursts ==
  [][mtUpState # "Finished" /\ mtUpState' = "Finished" /\ ~mtPerformReassign
       => lastFinal']_vars

(* A TBF does not hold its channel for ever: a phone that is not heard     *)
(* again loses it (N3101), and after the final block it is over, whatever  *)
(* is lost (N3103), unless data comes again.                               *)
Transmitting ==
  mtState = "DataTransmit" /\ mtUpState = "Transmit" /\ msN3101 = 0
EveryTbfEnds == ~Transmitting ~> (mtState \in {"Finished", "Dead"} \/ Transmitting)

=============================================================================
