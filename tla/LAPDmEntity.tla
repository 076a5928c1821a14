---------------------------- MODULE LAPDmEntity ----------------------------
(***************************************************************************)
(* One L2LAPDm object (mbts/GSM/GSML2LAPDm.cpp): its mutex-protected state *)
(* as a record, and each of its handlers as an operator from the record to *)
(* the record it leaves behind.  Every handler runs with mLock held, so it *)
(* is one step of the modules that use this one.                           *)
(*                                                                         *)
(* The class is written for both ends of a link (mC = 1 for the network,   *)
(* mC = 0 for a phone), and between two such objects the P/F bit is a      *)
(* function of the frame type: 1 in SABM, DISC and their answers, 0 in I   *)
(* and S frames.  The branches for other values are not modelled.  Idle    *)
(* frames and unit data touch none of this state and are left out, and so  *)
(* is the ESTABLISH L1 announces the first frame of a transaction with: it *)
(* clears counters that open() has just cleared.                           *)
(*                                                                         *)
(* An operator whose comment begins with "Fault" is a slip in the handler  *)
(* below it; it is used only to show which property notices the slip.      *)
(***************************************************************************)
EXTENDS Integers, Sequences

CONSTANTS
    Modulus,        \* sequence numbers are counted modulo 8 in the code
    N200,           \* the retransmission limit, 23 / 5 / 34 by channel type
    Msg,            \* the L3 messages
    Ones            \* Ones[m]: the number of one bits in the payload m

ASSUME ModulusAssumption == Modulus \in Nat /\ Modulus >= 2
ASSUME N200Assumption == N200 \in Nat
ASSUME OnesAssumption == Ones \in [Msg -> Nat]

States == {"LinkReleased", "AwaitingEstablish", "AwaitingRelease",
           "LinkEstablished", "ContentionResolution"}

Multiframe == {"LinkEstablished", "ContentionResolution"}

SeqNo == 0 .. Modulus - 1

(* The part of a message one frame carries; the M bit is seg < of. *)
Segment == [id : Msg, seg : Nat \ {0}, of : Nat \ {0}]

Frame == [t : {"SABM", "DISC", "UA", "DM", "I", "RR", "REJ"},
          ns : SeqNo, nr : SeqNo, info : Seq(Segment)]

(* What L2 last told L3, and the primitives it may be told to release by. *)
Primitive == {"none", "ESTABLISH", "RELEASE", "HARDRELEASE", "ERROR"}

Entity ==
  [mState : States,
   mVS : SeqNo, mVA : SeqNo, mVR : SeqNo,
   mRC : Nat,
   mT200 : BOOLEAN,                     \* is the timer running
   mEstablishmentInProgress : BOOLEAN,
   mDiscardIQueue : BOOLEAN,
   mRecvBuffer : Seq(Segment),
   mSentFrame : Frame,
   mContentionCheck : Nat,
   mSAPI : {0, 3},
   rx : BOOLEAN,                        \* L1's decoder is open
   out : Seq(Frame),                    \* frames the handler gave to L1
   dlv : Seq(Seq(Segment)),             \* the DATA frames put in mL3Out
   up : Primitive]                      \* the last primitive put in mL3Out

Empty == <<>>

Unnumbered(t, info) == [t |-> t, ns |-> 0, nr |-> 0, info |-> info]

InitEntity(sapi) ==
  [mState |-> "LinkReleased", mVS |-> 0, mVA |-> 0, mVR |-> 0, mRC |-> 0,
   mT200 |-> FALSE, mEstablishmentInProgress |-> FALSE,
   mDiscardIQueue |-> TRUE, mRecvBuffer |-> Empty,
   mSentFrame |-> Unnumbered("UA", Empty), mContentionCheck |-> 0,
   mSAPI |-> sapi, rx |-> TRUE, out |-> Empty, dlv |-> Empty, up |-> "none"]

Next1(n) == (n + 1) % Modulus

-----------------------------------------------------------------------------
(* Output to L1 and to L3 *)

WriteL1(x, f) == [x EXCEPT !.out = Append(@, f)]

WriteL1Ack(x, f) ==
  [WriteL1(x, f) EXCEPT !.mSentFrame = f, !.mT200 = TRUE]

SendUA(x, info) == WriteL1(x, Unnumbered("UA", info))
SendDM(x) == WriteL1(x, Unnumbered("DM", Empty))
(* Fault: the frame that awaits an answer is sent as one that does not. *)
SendSABMNoAck(x, info) == WriteL1(x, Unnumbered("SABM", info))

SendSABM(x, info) == WriteL1Ack(x, Unnumbered("SABM", info))
SendDISC(x) == WriteL1Ack(x, Unnumbered("DISC", Empty))
SendRR(x) ==
  WriteL1(x, [t |-> "RR", ns |-> 0, nr |-> x.mVR, info |-> Empty])
SendREJ(x) ==
  WriteL1(x, [t |-> "REJ", ns |-> 0, nr |-> x.mVR, info |-> Empty])

SendIFrame(x, s) ==
  WriteL1Ack([x EXCEPT !.mVS = Next1(@)],
             [t |-> "I", ns |-> x.mVS, nr |-> x.mVR, info |-> <<s>>])

-----------------------------------------------------------------------------
(* Release, acknowledgement and retransmission *)

(* Fault: the buffer is forgotten. *)
ClearCountersOnly(x) ==
  [x EXCEPT !.mT200 = FALSE, !.mVS = 0, !.mVA = 0, !.mVR = 0, !.mRC = 0,
            !.mDiscardIQueue = TRUE]

ClearCounters(x) ==
  [x EXCEPT !.mT200 = FALSE, !.mVS = 0, !.mVA = 0, !.mVR = 0, !.mRC = 0,
            !.mRecvBuffer = Empty, !.mDiscardIQueue = TRUE]

(* On SAP 0 the release primitive also goes to L1, which stops decoding. *)
ReleaseLink(x, p) ==
  [x EXCEPT !.mState = "LinkReleased", !.mEstablishmentInProgress = FALSE,
            !.rx = @ /\ x.mSAPI # 0, !.up = p]

ClearState(x, p) == ReleaseLink(ClearCounters(x), p)

(* ERROR to L3, DM to the peer, then the default release.  The ERROR it     *)
(* also writes to L1 sends L1's idle filling and stops nothing of this      *)
(* link: the encoder transmits frames when it is not active too.            *)
AbnormalRelease(x) ==
  ClearState(SendDM([x EXCEPT !.up = "ERROR"]), "RELEASE")

(* Fault: N(R) is taken for the number of the frame it acknowledges. *)
ProcessAckOfFrame(x, nr) ==
  [x EXCEPT !.mVA = nr - 1,
            !.mRC = IF nr = x.mVS THEN 0 ELSE @,
            !.mT200 = @ /\ nr # x.mVS]

ProcessAck(x, nr) ==
  [x EXCEPT !.mVA = nr,
            !.mRC = IF nr = x.mVS THEN 0 ELSE @,
            !.mT200 = @ /\ nr # x.mVS]

Retransmission(x) ==
  WriteL1([x EXCEPT !.mRC = @ + 1, !.mT200 = TRUE], x.mSentFrame)

(* Fault: the unanswered DISC is given up without releasing the link. *)
T200ExpirationIdle(x) ==
  LET y == [x EXCEPT !.mT200 = FALSE] IN
  IF x.mState \in {"AwaitingRelease", "LinkReleased"} THEN y
  ELSE IF x.mRC > N200 THEN AbnormalRelease(y)
                       ELSE Retransmission(y)

T200Expiration(x) ==
  LET y == [x EXCEPT !.mT200 = FALSE] IN
  CASE x.mState = "AwaitingRelease" -> ReleaseLink(y, "RELEASE")
    [] x.mState = "LinkReleased" -> y
    [] OTHER -> IF x.mRC > N200 THEN AbnormalRelease(y)
                                ELSE Retransmission(y)

-----------------------------------------------------------------------------
(* Unnumbered frames *)

SumOf(info) == IF info = Empty THEN 0 ELSE Ones[info[1].id]

(* A payload in the SABM that opens the link is the first L3 message, and   *)
(* its echo tells the phone that the network heard this phone.              *)
SABMWhenReleased(x, f) ==
  LET y == [ClearCounters(x) EXCEPT !.mEstablishmentInProgress = TRUE,
                                    !.up = "ESTABLISH"]
  IN IF f.info = Empty
     THEN SendUA([y EXCEPT !.mState = "LinkEstablished"], Empty)
     ELSE SendUA([y EXCEPT !.mState = "ContentionResolution",
                           !.mContentionCheck = SumOf(f.info),
                           !.dlv = Append(@, f.info)],
                 f.info)

SABMWhenContended(x, f) ==
  IF SumOf(f.info) # x.mContentionCheck
  THEN x
  ELSE SendUA([x EXCEPT !.mState = "LinkEstablished"], f.info)

SABMWhenEstablished(x, f) ==
  IF x.mEstablishmentInProgress THEN SendUA(x, f.info)
  ELSE IF f.info # Empty THEN AbnormalRelease(x)
  ELSE ClearCounters(SendUA(x, Empty))

ReceiveSABM(x, f) ==
  CASE x.mState = "LinkReleased" -> SABMWhenReleased(x, f)
    [] x.mState = "ContentionResolution" -> SABMWhenContended(x, f)
    [] x.mState = "AwaitingEstablish" -> SendUA(x, Empty)
    [] x.mState = "AwaitingRelease" -> SendDM(x)
    [] x.mState = "LinkEstablished" -> SABMWhenEstablished(x, f)

ReceiveDISC(x) ==
  LET y == [x EXCEPT !.mEstablishmentInProgress = FALSE] IN
  CASE x.mState = "AwaitingEstablish" -> ClearState(y, "RELEASE")
    [] x.mState = "LinkReleased" -> ClearState(SendDM(y), "RELEASE")
    [] x.mState = "AwaitingRelease" -> SendUA(y, Empty)
    [] OTHER -> ClearState(SendUA(y, Empty), "RELEASE")

(* Fault: the answer does not stop T200. *)
ReceiveUATimed(x) ==
  CASE x.mState = "AwaitingEstablish" ->
         [x EXCEPT !.mState = "LinkEstablished", !.up = "ESTABLISH"]
    [] x.mState = "AwaitingRelease" -> ClearState(x, "RELEASE")
    [] x.mState = "LinkEstablished" -> x
    [] OTHER -> AbnormalRelease(x)

ReceiveUA(x) ==
  CASE x.mState = "AwaitingEstablish" ->
         [ClearCounters(x) EXCEPT !.mState = "LinkEstablished",
                                  !.up = "ESTABLISH"]
    [] x.mState = "AwaitingRelease" -> ClearState(x, "RELEASE")
    [] x.mState = "LinkEstablished" -> x
    [] OTHER -> AbnormalRelease(x)

(* Fault: nobody is told. *)
ReceiveDMSilent(x) == [ClearCounters(x) EXCEPT !.mState = "LinkReleased"]

ReceiveDM(x) ==
  IF x.mState = "LinkReleased" THEN x ELSE ClearState(x, "RELEASE")

-----------------------------------------------------------------------------
(* Supervisory and information frames *)

(* Fault: the flag is cleared only when there was contention. *)
ResolveContention(x) ==
  IF x.mState = "ContentionResolution"
  THEN [x EXCEPT !.mEstablishmentInProgress = FALSE,
                 !.mState = "LinkEstablished"]
  ELSE x

(* Either of them ends contention resolution. *)
Resolve(x) ==
  [x EXCEPT !.mEstablishmentInProgress = FALSE,
            !.mState = IF @ = "ContentionResolution" THEN "LinkEstablished"
                                                     ELSE @]

(* RR and REJ differ only in the idle frames that follow a REJ. *)
ReceiveSFrame(x, f) ==
  IF x.mState \in Multiframe THEN ProcessAck(Resolve(x), f.nr)
                             ELSE Resolve(x)

BufferIFrameData(x, f) ==
  IF f.info[1].seg < f.info[1].of
  THEN [x EXCEPT !.mRecvBuffer = @ \o f.info]
  ELSE [x EXCEPT !.dlv = Append(@, x.mRecvBuffer \o f.info),
                 !.mRecvBuffer = Empty]

(* Fault: N(S) is not compared. *)
ReceiveIFrameAny(x, f) ==
  LET y == ProcessAck(Resolve(x), f.nr) IN
  IF x.mState \notin Multiframe THEN Resolve(x)
  ELSE SendRR(BufferIFrameData([y EXCEPT !.mVR = Next1(@)], f))

ReceiveIFrame(x, f) ==
  LET y == ProcessAck(Resolve(x), f.nr) IN
  IF x.mState \notin Multiframe THEN Resolve(x)
  ELSE IF f.ns = x.mVR
       THEN SendRR(BufferIFrameData([y EXCEPT !.mVR = Next1(@)], f))
       ELSE SendREJ(y)

ReceiveFrame(x, f) ==
  CASE f.t = "SABM" -> ReceiveSABM(x, f)
    [] f.t = "DISC" -> ReceiveDISC(x)
    [] f.t = "UA" -> ReceiveUA(x)
    [] f.t = "DM" -> ReceiveDM(x)
    [] f.t = "I" -> ReceiveIFrame(x, f)
    [] f.t \in {"RR", "REJ"} -> ReceiveSFrame(x, f)

-----------------------------------------------------------------------------
(* Requests of L3 *)

Open(x) ==
  [ClearCounters(x) EXCEPT !.mState = "LinkReleased", !.rx = TRUE,
                           !.up = "none"]

(* The condition waitForAck loops for. *)
WaitForAckOver(x) ==
  \/ x.mState = "LinkReleased"
  \/ x.mState \in Multiframe /\ x.mVS = x.mVA

AwaitEstablish(x) ==
  [ClearCounters(x) EXCEPT !.mState = "AwaitingEstablish"]

(* Fault: the counters, and T200, are cleared after the DISC. *)
AwaitReleaseUntimed(x) ==
  ClearCounters(SendDISC([x EXCEPT !.mEstablishmentInProgress = FALSE,
                                   !.mState = "AwaitingRelease"]))

AwaitRelease(x) ==
  SendDISC([ClearCounters(x) EXCEPT !.mEstablishmentInProgress = FALSE,
                                    !.mState = "AwaitingRelease"])

=============================================================================
