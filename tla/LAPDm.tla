------------------------------- MODULE LAPDm -------------------------------
(***************************************************************************)
(* A LAPDm link: the network's L2LAPDm object and a phone's, the radio     *)
(* between them, and the threads that call writeHighSide.  mLock makes     *)
(* each handler a step; a thread that waits for an ack (waitForAck) or     *)
(* that works outside the lock (ESTABLISH) takes several.                  *)
(*                                                                         *)
(* inq[e] is what is on its way to e: the radio and e's mL1In.  A frame    *)
(* sent while e's decoder is closed is never seen; one that is on its way  *)
(* may be lost (the radio, or a decoder that has closed meanwhile) and may *)
(* also be read after the closing, from mL1In.                             *)
(***************************************************************************)
EXTENDS LAPDmEntity, FiniteSets

CONSTANTS
    Sapi,           \* the service access point the link serves
    Writer,         \* threads that call writeHighSide, <<side, name>>
    Ops,            \* Ops[w]: what w may request
    SabmPayload,    \* SabmPayload[e]: the payloads e may put in its SABM
    MaxMsg,         \* bound: DATA requests of a side
    MaxSeg,         \* bound: I-frames of a message
    MaxCtl,         \* bound: requests other than DATA
    MaxOpen,        \* bound: times the channel is opened again
    MaxAir          \* bound: frames to the peer when a timer may send more

VARIABLES
    ent,            \* ent[e]: the L2LAPDm object of side e
    inq,            \* inq[e]: frames on their way to e
    wr,             \* wr[w]: where thread w is in writeHighSide
    acc,            \* acc[e]: the messages of this opening L3 gave e (history)
    ctl, opened     \* requests and openings so far (bounds)

vars == <<ent, inq, wr, acc, ctl, opened>>

Side == {"BTS", "MS"}
Peer(e) == IF e = "BTS" THEN "MS" ELSE "BTS"

(* No caller asks for ERROR, and UNIT_DATA changes no state. *)
Request == {"ESTABLISH", "RELEASE", "HARDRELEASE", "DATA"}

ASSUME LinkAssumption ==
  /\ Sapi \in {0, 3}
  /\ Writer \subseteq Side \X STRING
  /\ Ops \in [Writer -> SUBSET Request]
  /\ SabmPayload \in [Side -> SUBSET Seq(Segment)]
  /\ 0 .. MaxMsg \subseteq Msg
  /\ {MaxMsg, MaxSeg, MaxCtl, MaxOpen, MaxAir} \subseteq Nat

(* GSM 04.06 5.4.1.1 and the assertion of writeHighSide. *)
ASSUME NoEstablishOnSap0 ==
  Sapi = 0 => \A w \in Writer : w[1] = "BTS" => "ESTABLISH" \notin Ops[w]

(* Where a thread is in writeHighSide, and the segments it has yet to send. *)
Pc == {"idle", "est1", "est2", "rel0", "rel1", "rel2", "data"}
Call == [pc : Pc, msg : Seq(Segment)]
Idle == [pc |-> "idle", msg |-> Empty]

TypeOK ==
  /\ ent \in [Side -> Entity]
  /\ \A e \in Side : ent[e].out = Empty /\ ent[e].mSAPI = Sapi
  /\ inq \in [Side -> Seq(Frame)]
  /\ wr \in [Writer -> Call]
  /\ acc \in [Side -> Seq(Seq(Segment))]
  /\ ctl \in Nat
  /\ opened \in Nat

Init ==
  /\ ent = [e \in Side |-> InitEntity(Sapi)]
  /\ inq = [e \in Side |-> Empty]
  /\ wr = [w \in Writer |-> Idle]
  /\ acc = [e \in Side |-> Empty]
  /\ ctl = 0
  /\ opened = 0

-----------------------------------------------------------------------------

(* Side e becomes x, and what x gave to L1 leaves towards the peer; q is    *)
(* what was on its way before.                                              *)
Commit(e, x, q) ==
  /\ ent' = [ent EXCEPT ![e] = [x EXCEPT !.out = Empty]]
  /\ inq' = [q EXCEPT ![Peer(e)] = IF ent[Peer(e)].rx THEN @ \o x.out ELSE @]

(* "If SAP0 is released, other SAPs need to release also": each turn of a   *)
(* service loop ends so.  SAP 0 of e has released when L1 has been closed.  *)
FollowMaster(x) ==
  IF x.mSAPI # 0 /\ ~x.rx THEN [x EXCEPT !.mState = "LinkReleased"] ELSE x

(* The service loop of e: a frame, the expired timer, or neither. *)
Receive(e) ==
  /\ inq[e] # Empty
  /\ Commit(e, FollowMaster(ReceiveFrame(ent[e], Head(inq[e]))),
            [inq EXCEPT ![e] = Tail(@)])
  /\ UNCHANGED <<wr, acc, ctl, opened>>

IdleTurn(e) ==
  /\ FollowMaster(ent[e]) # ent[e]
  /\ Commit(e, FollowMaster(ent[e]), inq)
  /\ UNCHANGED <<wr, acc, ctl, opened>>

(* T200 is "set for typical turnaround time" (GSMCommon.h:135): it does not *)
(* expire over a frame that is on its way to e, but it may expire before    *)
(* the peer has seen, and answered, what e sent.                            *)
T200Expires(e) ==
  /\ ent[e].mT200
  /\ inq[e] = Empty
  /\ Len(inq[Peer(e)]) < MaxAir
  /\ Commit(e, FollowMaster(T200Expiration(ent[e])), inq)
  /\ UNCHANGED <<wr, acc, ctl, opened>>

(* SAP 0 of e releases the channel SAP 3 is on, and with it L1's decoder. *)
MasterReleases(e) ==
  /\ Sapi # 0
  /\ ent[e].rx
  /\ ent' = [ent EXCEPT ![e].rx = FALSE]
  /\ UNCHANGED <<inq, wr, acc, ctl, opened>>

Lose(e) ==
  /\ inq[e] # Empty
  /\ inq' = [inq EXCEPT ![e] = Tail(@)]
  /\ UNCHANGED <<ent, wr, acc, ctl, opened>>

-----------------------------------------------------------------------------
(* writeHighSide, by primitive *)

Step(w, from, to, x) ==
  /\ wr[w].pc = from
  /\ wr' = [wr EXCEPT ![w].pc = to]
  /\ Commit(w[1], x, inq)

Unsent == UNCHANGED <<acc, ctl, opened>>

Ask(w, p) ==
  /\ p \in Ops[w]
  /\ ctl < MaxCtl
  /\ ctl' = ctl + 1
  /\ UNCHANGED <<acc, opened>>

(* ESTABLISH: the state is read before the lock is taken, and the SABM goes *)
(* out after it is given back.  YBTS may ask again before it has an answer; *)
(* a phone asks when it has no link.                                        *)
AskEstablish(w) ==
  /\ Ask(w, "ESTABLISH")
  /\ w[1] = "MS" => ent["MS"].mState = "LinkReleased" /\ ent["MS"].rx
  /\ ent[w[1]].mState # "LinkEstablished"
  /\ Step(w, "idle", "est1", ent[w[1]])

PrepareEstablish(w) ==
  /\ Step(w, "est1", "est2", AwaitEstablish(ent[w[1]]))
  /\ Unsent

SendEstablish(w) ==
  /\ \E p \in SabmPayload[w[1]] :
        /\ Step(w, "est2", "idle", SendSABM(ent[w[1]], p))
        /\ acc' = IF p = Empty THEN acc ELSE [acc EXCEPT ![w[1]] = Append(@, p)]
  /\ UNCHANGED <<ctl, opened>>

(* RELEASE: the state is read before the lock is taken; an established link *)
(* first waits for its last ack.                                            *)
AskRelease(w) ==
  /\ Ask(w, "RELEASE")
  /\ ent[w[1]].mState # "LinkReleased"
  /\ Step(w, "idle", "rel0", ent[w[1]])

StartRelease(w) ==
  LET x == ent[w[1]] IN
  /\ IF x.mState = "LinkEstablished" /\ ~WaitForAckOver(x)
     THEN Step(w, "rel0", "rel1", x)
     ELSE Step(w, "rel0", "rel2", AwaitRelease(x))
  /\ Unsent

ResumeRelease(w) ==
  /\ WaitForAckOver(ent[w[1]])
  /\ Step(w, "rel1", "rel2", AwaitRelease(ent[w[1]]))
  /\ Unsent

FinishRelease(w) ==
  /\ WaitForAckOver(ent[w[1]])
  /\ Step(w, "rel2", "idle", ent[w[1]])
  /\ Unsent

(* HARDRELEASE: asked for when the phone is known to have left the channel, *)
(* after a handover.                                                        *)
HardRelease(w) ==
  /\ Ask(w, "HARDRELEASE")
  /\ Step(w, "idle", "idle", ClearState(ent[w[1]], "HARDRELEASE"))

(* One turn of sendMultiframeData's loop for the segments left to send:     *)
(* wait, give up, or send the first of them.                                *)
SendSegments(w, x, left) ==
  LET give(y, l) ==
        /\ wr' = [wr EXCEPT ![w] = IF l = Empty THEN Idle
                                   ELSE [pc |-> "data", msg |-> l]]
        /\ Commit(w[1], y, inq)
  IN IF ~WaitForAckOver(x) THEN give(x, left)
     ELSE IF x.mDiscardIQueue \/ x.mState \notin Multiframe THEN give(x, Empty)
     ELSE give(SendIFrame(x, left[1]), Tail(left))

(* Message 0 is the payload of the SABM, m > 0 the m-th request of a side. *)
Segments(m, n) == [i \in 1 .. n |-> [id |-> m, seg |-> i, of |-> n]]

(* DATA: L3 hands over messages once it has been told of the establishment  *)
(* and while it waits for none (YBTS starts an SAP and waits for it); the   *)
(* network's L3 may not yet know of a release.                              *)
Data(w, n) ==
  LET e == w[1]
      x == ent[e]
      m == Len(acc[e]) + 1 IN
  /\ "DATA" \in Ops[w]
  /\ wr[w] = Idle
  /\ x.up # "none" /\ x.mState # "AwaitingEstablish"
  /\ e = "MS" => x.up = "ESTABLISH"
  /\ Len(acc[e]) < MaxMsg
  /\ acc' = [acc EXCEPT ![e] = Append(@, Segments(m, n))]
  /\ IF x.mState = "LinkReleased"
     THEN Commit(e, AbnormalRelease(x), inq) /\ UNCHANGED wr
     ELSE SendSegments(w, [x EXCEPT !.mDiscardIQueue = FALSE], Segments(m, n))
  /\ UNCHANGED <<ctl, opened>>

ContinueData(w) ==
  /\ wr[w].pc = "data"
  /\ WaitForAckOver(ent[w[1]])
  /\ SendSegments(w, ent[w[1]], wr[w].msg)
  /\ Unsent

-----------------------------------------------------------------------------

(* The channel is given to the next phone: L2LAPDm::open at the network     *)
(* once L1 is recyclable, long after the last frame.                        *)
OpenChannel ==
  /\ opened < MaxOpen
  /\ ~ent["BTS"].rx
  /\ inq = [e \in Side |-> Empty]
  /\ opened' = opened + 1
  /\ ent' = [ent EXCEPT !["BTS"] = [Open(@) EXCEPT !.dlv = Empty],
                        !["MS"] = InitEntity(Sapi)]
  /\ wr' = [w \in Writer |-> IF w[1] = "MS" THEN Idle ELSE wr[w]]
  /\ acc' = [e \in Side |-> Empty]
  /\ UNCHANGED <<inq, ctl>>

Thread(w) ==
  \/ PrepareEstablish(w) \/ SendEstablish(w)
  \/ StartRelease(w) \/ ResumeRelease(w) \/ FinishRelease(w)
  \/ ContinueData(w)

Next ==
  \/ \E e \in Side :
        Receive(e) \/ T200Expires(e) \/ IdleTurn(e) \/ MasterReleases(e) \/ Lose(e)
  \/ \E w \in Writer :
        \/ AskEstablish(w) \/ AskRelease(w) \/ HardRelease(w)
        \/ \E n \in 1 .. MaxSeg : Data(w, n)
        \/ Thread(w)
  \/ OpenChannel

Spec == Init /\ [][Next]_vars

(* The service loops and the threads inside a request keep running, and a   *)
(* running timer expires; nothing makes the radio lose a frame.             *)
Fairness ==
  /\ \A e \in Side :
        WF_vars(Receive(e)) /\ WF_vars(T200Expires(e)) /\ WF_vars(IdleTurn(e))
  /\ \A w \in Writer : WF_vars(Thread(w))

FairSpec == Spec /\ Fairness

-----------------------------------------------------------------------------
(* Properties *)

(* L2 never changes between an established and a released link without      *)
(* telling L3: the primitive last put in mL3Out agrees with mState.         *)
(* Seven handlers release, and three establish, some from the thread of     *)
(* another request.  FollowMaster tells nobody: on SAP 3, once SAP 0 has    *)
(* released the channel, a link may have gone that L3 believes in.          *)
L3Informed ==
  \A e \in Side :
    /\ ent[e].mState \in Multiframe => ent[e].up = "ESTABLISH"
    /\ ent[e].mState = "LinkReleased" /\ (Sapi = 0 \/ ent[e].rx) =>
          ent[e].up # "ESTABLISH"

(* A state that waits for the peer is always left in time: T200 runs and    *)
(* the frame it would repeat is the one whose answer is awaited, except in  *)
(* the instants in which a thread is about to send the SABM.  Requests of   *)
(* two threads and frames of the peer interleave here.                      *)
WaitingIsTimed ==
  \A e \in Side :
    /\ ent[e].mState = "AwaitingRelease" =>
          ent[e].mT200 /\ ent[e].mSentFrame.t = "DISC"
    /\ ent[e].mState = "AwaitingEstablish" =>
          \/ ent[e].mT200 /\ ent[e].mSentFrame.t = "SABM"
          \/ \E w \in Writer : w[1] = e /\ wr[w].pc = "est2"

(* What T200 repeats on an established link is its last I-frame: neither a  *)
(* frame of the establishment nor one numbered for an earlier V(S).         *)
SentFrameIsUnacked ==
  \A e \in Side :
    ent[e].mState \in Multiframe /\ ent[e].mT200 =>
      /\ ent[e].mSentFrame.t = "I"
      /\ Next1(ent[e].mSentFrame.ns) = ent[e].mVS

(* receiveUFrameSABM answers a repeated SABM without resetting the counters *)
(* while the establishment is in progress: the peer, which resets its own   *)
(* on the answer, must find nothing received and nothing acknowledged.      *)
FreshUntilResolved ==
  \A e \in Side :
    ent[e].mEstablishmentInProgress =>
      ent[e].mVR = 0 /\ ent[e].mVA = 0 /\ ent[e].mRecvBuffer = Empty

(* T200 repeats a frame N200 + 1 times at most. *)
RetriesBounded == \A e \in Side : ent[e].mRC <= N200 + 1

(* On SAP 0 a released link is one whose L1 has stopped decoding.           *)
Link == INSTANCE LAPDmLink WITH
  Message <- {Segments(m, n) : m \in Msg, n \in 1 .. MaxSeg},
  accepted <- acc,
  delivered <- [e \in Side |-> ent[e].dlv],
  broken <- \E e \in Side : ~ent[e].rx

(* The link keeps the promise of LAPDmLink under loss, early timeouts,      *)
(* segmentation, repeated SABMs, releases and the reuse of the channel.     *)
LinkSpec == Link!Spec

(* writeHighSide "is a blocking call and does not return until all of the   *)
(* corresponding radio bursts have been enqueued": a request returns.       *)
RequestsReturn == \A w \in Writer : wr[w].pc # "idle" ~> wr[w].pc = "idle"

(* An establishment is answered or given up. *)
EstablishmentSettles ==
  \A e \in Side :
    ent[e].mState = "AwaitingEstablish" ~> ent[e].mState # "AwaitingEstablish"

=============================================================================
