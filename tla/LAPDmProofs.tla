---------------------------- MODULE LAPDmProofs ----------------------------
(***************************************************************************)
(* Theorems about LAPDm, for every modulus, retransmission limit, set of   *)
(* messages and threads, and every bound.                                  *)
(***************************************************************************)
EXTENDS LAPDm, LAPDmEntityProofs

-----------------------------------------------------------------------------
(* The inductive invariant.  L3Informed is not inductive by itself: it      *)
(* follows from what the handlers keep of one object, for which the types   *)
(* of the object, of the frames on the air and of the segments left to a    *)
(* thread are needed; a thread that sends has a segment left.               *)

EntitiesSound ==
  /\ ent \in [Side -> Entity]
  /\ \A e \in Side :
       Sound(ent[e]) /\ ent[e].out = Empty /\ ent[e].mSAPI = Sapi

SegmentsLeft == \A w \in Writer : wr[w].pc = "data" => wr[w].msg # Empty

IInv == TypeOK /\ EntitiesSound /\ SegmentsLeft

LEMMA PeerType == \A e \in Side : Peer(e) \in Side
BY DEF Side, Peer

LEMMA WriterSide == \A w \in Writer : w[1] \in Side
BY LinkAssumption

(* A step that commits a kept object keeps the two objects and the air.     *)
LEMMA CommitKept ==
  ASSUME EntitiesSound, NEW e \in Side, NEW x, Kept(ent[e], x),
         NEW q \in [Side -> Seq(Frame)], Commit(e, x, q)
  PROVE  EntitiesSound' /\ inq' \in [Side -> Seq(Frame)]
<1> DEFINE y == [x EXCEPT !.out = Empty]
           b == q[Peer(e)] \o x.out
<1>1. x \in Entity /\ x.out \in Seq(Frame) /\ x.mSAPI = Sapi
  BY DEF Kept, Sound, Entity, EntitiesSound
<1>2. Sound(y) /\ y \in Entity /\ y.out = Empty /\ y.mSAPI = Sapi
  BY <1>1, EmptyType DEF Kept, Sound, Entity
<1>3. ent' = [ent EXCEPT ![e] = y]
  BY DEF Commit
<1>4. q[Peer(e)] \in Seq(Frame)
  BY PeerType
<1>5. b \in Seq(Frame)
  BY <1>1, <1>4, ConcatType
<1>6. inq' = [q EXCEPT ![Peer(e)] = IF ent[Peer(e)].rx THEN b ELSE @]
  BY DEF Commit
<1> HIDE DEF y, b
<1>7. EntitiesSound'
  BY <1>2, <1>3 DEF EntitiesSound
<1> QED
  BY <1>5, <1>6, <1>7, PeerType

LEMMA SegmentsType ==
  ASSUME NEW m \in Msg, NEW n \in Nat \ {0}
  PROVE  Segments(m, n) \in Seq(Segment) /\ Segments(m, n) # Empty
<1>1. \A i \in 1 .. n : [id |-> m, seg |-> i, of |-> n] \in Segment
  BY DEF Segment
<1>2. Segments(m, n) \in [1 .. n -> Segment]
  BY <1>1 DEF Segments
<1>3. Segments(m, n) \in Seq(Segment) /\ Len(Segments(m, n)) = n
  BY <1>2
<1> QED
  BY <1>3 DEF Empty

(* The loop of sendMultiframeData *)
LEMMA SendSegmentsKept ==
  ASSUME IInv, NEW w \in Writer, NEW x, Kept(ent[w[1]], x),
         NEW left \in Seq(Segment), left # Empty,
         SendSegments(w, x, left)
  PROVE  /\ EntitiesSound' /\ inq' \in [Side -> Seq(Frame)]
         /\ \/ wr' = [wr EXCEPT ![w] = Idle]
            \/ \E l \in Seq(Segment) :
                 /\ l # Empty
                 /\ wr' = [wr EXCEPT ![w] = [pc |-> "data", msg |-> l]]
<1> DEFINE e == w[1]
           y == SendIFrame(x, left[1])
<1>1. e \in Side /\ inq \in [Side -> Seq(Frame)]
  BY WriterSide DEF IInv, TypeOK
<1>2. left[1] \in Segment /\ Tail(left) \in Seq(Segment)
  BY DEF Empty
<1>3. Kept(ent[e], y)
  BY <1>2, SendIFrameKept DEF Kept
<1> DEFINE to(l) == wr' = [wr EXCEPT ![w] = IF l = Empty THEN Idle
                                            ELSE [pc |-> "data", msg |-> l]]
<1> HIDE DEF y
<1>4. \/ to(left) /\ Commit(e, x, inq)
      \/ to(Empty) /\ Commit(e, x, inq)
      \/ to(Tail(left)) /\ Commit(e, y, inq)
  BY DEF SendSegments, y
<1>5. EntitiesSound' /\ inq' \in [Side -> Seq(Frame)]
  <2> USE DEF IInv
  <2>1. Commit(e, x, inq) => EntitiesSound' /\ inq' \in [Side -> Seq(Frame)]
    BY <1>1, CommitKept
  <2>2. Commit(e, y, inq) => EntitiesSound' /\ inq' \in [Side -> Seq(Frame)]
    BY <1>1, <1>3, CommitKept
  <2> QED
    BY <1>4, <2>1, <2>2
<1>6. \E l \in Seq(Segment) : to(l)
  BY <1>2, <1>4, EmptyType
<1> QED
  BY <1>5, <1>6

-----------------------------------------------------------------------------
(* Initial states and steps *)

LEMMA InitIInv == Init => IInv
<1> SUFFICES ASSUME Init PROVE IInv
  OBVIOUS
<1>1. Sapi \in {0, 3}
  BY LinkAssumption
<1>2. /\ Sound(InitEntity(Sapi))
      /\ InitEntity(Sapi).mSAPI = Sapi /\ InitEntity(Sapi).out = Empty
  BY <1>1, InitEntitySound
<1>3. InitEntity(Sapi) \in Entity
  BY <1>2 DEF Sound
<1>4. ent = [e \in Side |-> InitEntity(Sapi)]
  BY DEF Init
<1>5. EntitiesSound
  BY <1>2, <1>3, <1>4 DEF EntitiesSound
<1>6. /\ inq \in [Side -> Seq(Frame)] /\ acc \in [Side -> Seq(Seq(Segment))]
      /\ wr \in [Writer -> Call]
  BY EmptyType DEF Init, Idle, Call, Pc
<1>7. TypeOK
  BY <1>5, <1>6 DEF TypeOK, EntitiesSound, Init
<1>8. SegmentsLeft
  BY DEF SegmentsLeft, Init, Idle
<1> QED
  BY <1>5, <1>7, <1>8 DEF IInv

(* What is left of the invariant once the objects and the air are kept.     *)
LEMMA RestKept ==
  ASSUME IInv, EntitiesSound', inq' \in [Side -> Seq(Frame)],
         wr' \in [Writer -> Call], SegmentsLeft',
         acc' \in [Side -> Seq(Seq(Segment))], ctl' \in Nat, opened' \in Nat
  PROVE  IInv'
BY DEF IInv, TypeOK, EntitiesSound, Call, Pc

LEMMA WriterKept ==
  ASSUME IInv, NEW w \in Writer, NEW l \in Seq(Segment),
         NEW pc \in Pc, pc = "data" => l # Empty,
         wr' = [wr EXCEPT ![w] = [pc |-> pc, msg |-> l]]
  PROVE  wr' \in [Writer -> Call] /\ SegmentsLeft'
<1>1. wr \in [Writer -> Call] /\ SegmentsLeft
  BY DEF IInv, TypeOK, Call, Pc
<1>2. [pc |-> pc, msg |-> l] \in Call
  BY DEF Call
<1> QED
  BY <1>1, <1>2 DEF SegmentsLeft

LEMMA WriterUnchanged ==
  ASSUME IInv, UNCHANGED wr
  PROVE  wr' \in [Writer -> Call] /\ SegmentsLeft'
BY DEF IInv, TypeOK, Call, Pc, SegmentsLeft

LEMMA StepKept ==
  ASSUME IInv, NEW w \in Writer, NEW from, NEW to \in Pc \ {"data"},
         NEW x, Kept(ent[w[1]], x), Step(w, from, to, x)
  PROVE  /\ EntitiesSound' /\ inq' \in [Side -> Seq(Frame)]
         /\ wr' \in [Writer -> Call] /\ SegmentsLeft'
<1>1. w[1] \in Side /\ inq \in [Side -> Seq(Frame)] /\ EntitiesSound
  BY WriterSide DEF IInv, TypeOK
<1>2. Commit(w[1], x, inq) /\ wr' = [wr EXCEPT ![w].pc = to]
  BY DEF Step
<1>3. EntitiesSound' /\ inq' \in [Side -> Seq(Frame)]
  BY <1>1, <1>2, CommitKept
<1>4. wr \in [Writer -> Call] /\ SegmentsLeft
  BY DEF IInv, TypeOK, Call, Pc
<1>5. wr' \in [Writer -> Call] /\ SegmentsLeft'
  BY <1>2, <1>4 DEF SegmentsLeft, Call
<1> QED
  BY <1>3, <1>5

(* A link that follows its master stays sound; on SAP 0 it has none.        *)
LEMMA FollowMasterKept ==
  ASSUME NEW x, Sound(x)
  PROVE  /\ Kept(x, FollowMaster(x))
         /\ x.mSAPI = 0 => FollowMaster(x) = x
BY DEF FollowMaster, Kept, Sound, Entity, States, Multiframe

LEMMA ReceiveKept ==
  ASSUME IInv, NEW e \in Side, Receive(e)
  PROVE  IInv'
<1> DEFINE r == ReceiveFrame(ent[e], Head(inq[e]))
           x == FollowMaster(r)
           q == [inq EXCEPT ![e] = Tail(@)]
<1>1. inq \in [Side -> Seq(Frame)] /\ EntitiesSound /\ Sound(ent[e])
  BY DEF IInv, TypeOK, EntitiesSound
<1>2. Head(inq[e]) \in Frame /\ Tail(inq[e]) \in Seq(Frame)
  BY <1>1 DEF Receive, Empty
<1>3. Kept(ent[e], x)
  <2>1. Kept(ent[e], r)
    BY <1>1, <1>2, ReceiveFrameKept
  <2> HIDE DEF r
  <2> QED
    BY <2>1, FollowMasterKept DEF Kept
<1>4. q \in [Side -> Seq(Frame)]
  BY <1>1, <1>2
<1>5. Commit(e, x, q) /\ UNCHANGED <<wr, acc, ctl, opened>>
  BY DEF Receive
<1> HIDE DEF x, q
<1>6. EntitiesSound' /\ inq' \in [Side -> Seq(Frame)]
  BY <1>1, <1>3, <1>4, <1>5, CommitKept
<1> QED
  BY <1>5, <1>6, RestKept, WriterUnchanged DEF IInv, TypeOK

LEMMA T200ExpiresKept ==
  ASSUME IInv, NEW e \in Side, T200Expires(e)
  PROVE  IInv'
<1> DEFINE y == T200Expiration(ent[e])
<1>1. inq \in [Side -> Seq(Frame)] /\ EntitiesSound /\ Sound(ent[e])
  BY DEF IInv, TypeOK, EntitiesSound
<1>2. Kept(ent[e], y)
  BY <1>1, T200ExpirationKept
<1>3. /\ Commit(e, FollowMaster(y), inq)
      /\ UNCHANGED <<wr, acc, ctl, opened>>
  BY DEF T200Expires
<1> HIDE DEF y
<1>4. Kept(ent[e], FollowMaster(y))
  BY <1>2, FollowMasterKept DEF Kept
<1>5. EntitiesSound' /\ inq' \in [Side -> Seq(Frame)]
  BY <1>1, <1>3, <1>4, CommitKept
<1> QED
  BY <1>3, <1>5, RestKept, WriterUnchanged DEF IInv, TypeOK

LEMMA IdleTurnKept ==
  ASSUME IInv, NEW e \in Side, IdleTurn(e)
  PROVE  IInv'
<1>1. inq \in [Side -> Seq(Frame)] /\ EntitiesSound /\ Sound(ent[e])
  BY DEF IInv, TypeOK, EntitiesSound
<1>2. /\ Kept(ent[e], FollowMaster(ent[e]))
      /\ Commit(e, FollowMaster(ent[e]), inq) /\ UNCHANGED <<wr, acc, ctl, opened>>
  BY <1>1, FollowMasterKept DEF IdleTurn
<1>3. EntitiesSound' /\ inq' \in [Side -> Seq(Frame)]
  BY <1>1, <1>2, CommitKept
<1> QED
  BY <1>2, <1>3, RestKept, WriterUnchanged DEF IInv, TypeOK

LEMMA MasterReleasesKept ==
  ASSUME IInv, NEW e \in Side, MasterReleases(e)
  PROVE  IInv'
<1> DEFINE y == [ent[e] EXCEPT !.rx = FALSE]
<1>1. inq \in [Side -> Seq(Frame)] /\ EntitiesSound /\ Sapi # 0
  BY DEF IInv, TypeOK, MasterReleases
<1>2. Sound(y) /\ y.out = Empty /\ y.mSAPI = Sapi
  BY <1>1 DEF EntitiesSound, Sound, Entity
<1>3. y \in Entity
  BY <1>2 DEF Sound
<1>4. ent' = [ent EXCEPT ![e] = y] /\ inq' = inq
  BY DEF MasterReleases
<1> HIDE DEF y
<1>5. inq' \in [Side -> Seq(Frame)] /\ EntitiesSound'
  BY <1>1, <1>2, <1>3, <1>4 DEF EntitiesSound
<1> QED
  BY <1>5, RestKept, WriterUnchanged DEF MasterReleases, IInv, TypeOK

LEMMA LoseKept ==
  ASSUME IInv, NEW e \in Side, Lose(e)
  PROVE  IInv'
<1>1. inq \in [Side -> Seq(Frame)] /\ EntitiesSound
  BY DEF IInv, TypeOK
<1>2. Tail(inq[e]) \in Seq(Frame)
  BY <1>1 DEF Lose, Empty
<1>3. inq' \in [Side -> Seq(Frame)] /\ EntitiesSound'
  BY <1>1, <1>2 DEF Lose, EntitiesSound
<1> QED
  BY <1>3, RestKept, WriterUnchanged DEF Lose, IInv, TypeOK

(* The requests that move one thread and change one object.                 *)
LEMMA RequestsKept ==
  ASSUME IInv, NEW w \in Writer,
         \/ AskEstablish(w) \/ AskRelease(w) \/ HardRelease(w)
         \/ PrepareEstablish(w) \/ StartRelease(w) \/ ResumeRelease(w)
         \/ FinishRelease(w)
  PROVE  IInv'
<1> DEFINE e == w[1]
           x == ent[e]
<1>1. Sound(x) /\ Kept(x, x)
  BY WriterSide DEF IInv, EntitiesSound, Kept
<1>2. /\ Kept(x, AwaitEstablish(x)) /\ Kept(x, AwaitRelease(x))
      /\ Kept(x, ClearState(x, "HARDRELEASE"))
  BY <1>1, AwaitEstablishKept, AwaitReleaseKept, ClearStateKept DEF Primitive
<1>3. \E from, y : \E to \in Pc \ {"data"} :
        Kept(x, y) /\ Step(w, from, to, y)
  <2>1. CASE AskEstablish(w)
    BY <1>1, <2>1 DEF AskEstablish, Pc
  <2>2. CASE AskRelease(w)
    BY <1>1, <2>2 DEF AskRelease, Pc
  <2>3. CASE HardRelease(w)
    BY <1>2, <2>3 DEF HardRelease, Pc
  <2>4. CASE PrepareEstablish(w)
    BY <1>2, <2>4 DEF PrepareEstablish, Pc
  <2>5. CASE StartRelease(w)
    BY <1>1, <1>2, <2>5 DEF StartRelease, Pc
  <2>6. CASE ResumeRelease(w)
    BY <1>2, <2>6 DEF ResumeRelease, Pc
  <2>7. CASE FinishRelease(w)
    BY <1>1, <2>7 DEF FinishRelease, Pc
  <2> QED
    BY <2>1, <2>2, <2>3, <2>4, <2>5, <2>6, <2>7
<1>4. /\ EntitiesSound' /\ inq' \in [Side -> Seq(Frame)]
      /\ wr' \in [Writer -> Call] /\ SegmentsLeft'
  BY <1>3, StepKept
<1>5. UNCHANGED <<acc, opened>> /\ (ctl' = ctl \/ ctl' = ctl + 1)
  BY DEF AskEstablish, AskRelease, HardRelease, PrepareEstablish,
         StartRelease, ResumeRelease, FinishRelease, Ask, Unsent
<1>6. ctl' \in Nat /\ opened' \in Nat /\ acc' \in [Side -> Seq(Seq(Segment))]
  BY <1>5 DEF IInv, TypeOK
<1> QED
  BY <1>4, <1>6, RestKept

LEMMA SendEstablishKept ==
  ASSUME IInv, NEW w \in Writer, SendEstablish(w)
  PROVE  IInv'
<1> DEFINE e == w[1]
<1>1. e \in Side /\ Sound(ent[e]) /\ acc \in [Side -> Seq(Seq(Segment))]
  BY WriterSide DEF IInv, EntitiesSound, TypeOK
<1>2. PICK p \in SabmPayload[e] :
        /\ Step(w, "est2", "idle", SendSABM(ent[e], p))
        /\ acc' = IF p = Empty THEN acc
                  ELSE [acc EXCEPT ![e] = Append(@, p)]
  BY DEF SendEstablish
<1>3. p \in Seq(Segment)
  BY <1>1, LinkAssumption
<1>4. Kept(ent[e], SendSABM(ent[e], p))
  BY <1>1, <1>3, SendSABMKept
<1>5. /\ EntitiesSound' /\ inq' \in [Side -> Seq(Frame)]
      /\ wr' \in [Writer -> Call] /\ SegmentsLeft'
  BY <1>2, <1>4, StepKept DEF Pc
<1>6. Append(acc[e], p) \in Seq(Seq(Segment))
  BY <1>1, <1>3, AppendType
<1>7. acc' \in [Side -> Seq(Seq(Segment))]
  BY <1>1, <1>2, <1>6
<1>8. ctl' \in Nat /\ opened' \in Nat
  BY DEF SendEstablish, IInv, TypeOK
<1> QED
  BY <1>5, <1>7, <1>8, RestKept

LEMMA SendingKept ==
  ASSUME IInv, NEW w \in Writer, NEW x, Kept(ent[w[1]], x),
         NEW left \in Seq(Segment), left # Empty, SendSegments(w, x, left)
  PROVE  /\ EntitiesSound' /\ inq' \in [Side -> Seq(Frame)]
         /\ wr' \in [Writer -> Call] /\ SegmentsLeft'
<1>1. /\ EntitiesSound' /\ inq' \in [Side -> Seq(Frame)]
      /\ \/ wr' = [wr EXCEPT ![w] = Idle]
         \/ \E l \in Seq(Segment) :
              /\ l # Empty
              /\ wr' = [wr EXCEPT ![w] = [pc |-> "data", msg |-> l]]
  BY SendSegmentsKept
<1>2. wr' = [wr EXCEPT ![w] = Idle] => wr' \in [Writer -> Call] /\ SegmentsLeft'
  BY WriterKept, EmptyType DEF Idle, Pc
<1>3. ASSUME NEW l \in Seq(Segment), l # Empty,
             wr' = [wr EXCEPT ![w] = [pc |-> "data", msg |-> l]]
      PROVE  wr' \in [Writer -> Call] /\ SegmentsLeft'
  BY <1>3, WriterKept DEF Pc
<1> QED
  BY <1>1, <1>2, <1>3

LEMMA DataKept ==
  ASSUME IInv, NEW w \in Writer, NEW n \in 1 .. MaxSeg, Data(w, n)
  PROVE  IInv'
<1> DEFINE e == w[1]
           m == Len(acc[e]) + 1
           x == [ent[e] EXCEPT !.mDiscardIQueue = FALSE]
<1>1. /\ e \in Side /\ Sound(ent[e]) /\ acc \in [Side -> Seq(Seq(Segment))]
      /\ inq \in [Side -> Seq(Frame)] /\ EntitiesSound
  BY WriterSide DEF IInv, EntitiesSound, TypeOK
<1>2. m \in Msg /\ n \in Nat \ {0}
  <2>1. Len(acc[e]) \in Nat /\ Len(acc[e]) < MaxMsg
    BY <1>1 DEF Data
  <2>2. MaxMsg \in Nat /\ MaxSeg \in Nat /\ 0 .. MaxMsg \subseteq Msg
    BY LinkAssumption
  <2>3. m \in 0 .. MaxMsg
    BY <2>1, <2>2
  <2> QED
    BY <2>2, <2>3
<1>3. Segments(m, n) \in Seq(Segment) /\ Segments(m, n) # Empty
  BY <1>2, SegmentsType
<1>4. Kept(ent[e], x) /\ Kept(ent[e], AbnormalRelease(ent[e]))
  BY <1>1, AbnormalReleaseKept DEF Kept, Sound, Entity
<1>5. /\ acc' = [acc EXCEPT ![e] = Append(@, Segments(m, n))]
      /\ \/ Commit(e, AbnormalRelease(ent[e]), inq) /\ UNCHANGED wr
         \/ SendSegments(w, x, Segments(m, n))
      /\ UNCHANGED <<ctl, opened>>
  BY DEF Data
<1> HIDE DEF x, m
<1>6. Append(acc[e], Segments(m, n)) \in Seq(Seq(Segment))
  BY <1>1, <1>3, AppendType
<1>7. acc' \in [Side -> Seq(Seq(Segment))] /\ ctl' \in Nat /\ opened' \in Nat
  BY <1>1, <1>5, <1>6 DEF IInv, TypeOK
<1>8. /\ EntitiesSound' /\ inq' \in [Side -> Seq(Frame)]
      /\ wr' \in [Writer -> Call] /\ SegmentsLeft'
  <2>1. CASE Commit(e, AbnormalRelease(ent[e]), inq) /\ UNCHANGED wr
    BY <1>1, <1>4, <2>1, CommitKept, WriterUnchanged
  <2>2. CASE SendSegments(w, x, Segments(m, n))
    BY <1>3, <1>4, <2>2, SendingKept
  <2> QED
    BY <1>5, <2>1, <2>2
<1> QED
  BY <1>7, <1>8, RestKept

LEMMA ContinueDataKept ==
  ASSUME IInv, NEW w \in Writer, ContinueData(w)
  PROVE  IInv'
<1>1. Kept(ent[w[1]], ent[w[1]])
  BY WriterSide DEF IInv, EntitiesSound, Kept
<1>2. wr[w].msg \in Seq(Segment) /\ wr[w].msg # Empty
  BY DEF ContinueData, IInv, SegmentsLeft, TypeOK, Call
<1>3. /\ EntitiesSound' /\ inq' \in [Side -> Seq(Frame)]
      /\ wr' \in [Writer -> Call] /\ SegmentsLeft'
  BY <1>1, <1>2, SendingKept DEF ContinueData
<1> QED
  BY <1>3, RestKept DEF ContinueData, Unsent, IInv, TypeOK

LEMMA OpenChannelKept ==
  ASSUME IInv, OpenChannel
  PROVE  IInv'
<1> DEFINE o == Open(ent["BTS"])
           b == [o EXCEPT !.dlv = Empty]
           p == InitEntity(Sapi)
<1>1. /\ Sound(ent["BTS"]) /\ ent["BTS"].mSAPI = Sapi
      /\ ent \in [Side -> Entity] /\ ent["BTS"].out = Empty
  BY DEF IInv, EntitiesSound, Side
<1>2. Kept(ent["BTS"], o)
  BY <1>1, OpenKept
<1>3. o.out = Empty
  BY <1>1 DEF Open, ClearCounters, Sound, Entity
<1> HIDE DEF o
<1>4. Sound(b) /\ b \in Entity /\ b.out = Empty /\ b.mSAPI = Sapi
  BY <1>1, <1>2, <1>3, EmptyType DEF Kept, Sound, Entity
<1>5. Sound(p) /\ p \in Entity /\ p.out = Empty /\ p.mSAPI = Sapi
  BY InitEntitySound, LinkAssumption DEF Sound
<1>6. ent' = [ent EXCEPT !["BTS"] = b, !["MS"] = p]
  BY DEF OpenChannel, o
<1> HIDE DEF b, p
<1>7. EntitiesSound'
  BY <1>1, <1>4, <1>5, <1>6 DEF EntitiesSound, Side
<1>8. wr' \in [Writer -> Call] /\ SegmentsLeft'
  <2>1. /\ wr \in [Writer -> Call] /\ SegmentsLeft
        /\ Idle \in Call /\ Idle.pc # "data"
    BY EmptyType DEF IInv, TypeOK, Idle, Call, Pc
  <2>2. wr' = [w \in Writer |-> IF w[1] = "MS" THEN Idle ELSE wr[w]]
    BY DEF OpenChannel
  <2> QED
    BY <2>1, <2>2 DEF SegmentsLeft
<1>9. acc' \in [Side -> Seq(Seq(Segment))]
  BY EmptyType DEF OpenChannel
<1>10. ctl' \in Nat /\ opened' \in Nat /\ inq' \in [Side -> Seq(Frame)]
  BY DEF OpenChannel, IInv, TypeOK
<1> QED
  BY <1>7, <1>8, <1>9, <1>10, RestKept

LEMMA NextIInv == IInv /\ [Next]_vars => IInv'
<1> SUFFICES ASSUME IInv, [Next]_vars PROVE IInv'
  OBVIOUS
<1>1. ASSUME NEW e \in Side,
             \/ Receive(e) \/ T200Expires(e) \/ IdleTurn(e)
             \/ MasterReleases(e) \/ Lose(e)
      PROVE  IInv'
  BY <1>1, ReceiveKept, T200ExpiresKept, IdleTurnKept, MasterReleasesKept, LoseKept
<1>2. ASSUME NEW w \in Writer,
             AskEstablish(w) \/ AskRelease(w) \/ HardRelease(w)
      PROVE  IInv'
  BY <1>2, RequestsKept
<1>3. ASSUME NEW w \in Writer, NEW n \in 1 .. MaxSeg, Data(w, n)
      PROVE  IInv'
  BY <1>3, DataKept
<1>4. ASSUME NEW w \in Writer, Thread(w)
      PROVE  IInv'
  BY <1>4, RequestsKept, SendEstablishKept, ContinueDataKept DEF Thread
<1>5. CASE OpenChannel
  BY <1>5, OpenChannelKept
<1>6. CASE UNCHANGED vars
  BY <1>6 DEF vars, IInv, TypeOK, EntitiesSound, SegmentsLeft
<1> QED
  BY <1>1, <1>2, <1>3, <1>4, <1>5, <1>6 DEF Next

THEOREM Invariance == Spec => []IInv
BY InitIInv, NextIInv, PTL DEF Spec

(* Every state of every instance is well typed. *)
THEOREM TypeCorrect == Spec => []TypeOK
<1>1. IInv => TypeOK
  BY DEF IInv
<1> QED
  BY <1>1, Invariance, PTL

(* L3 knows whether the link is up or down, whatever the threads, the timer *)
(* and the peer do: on SAP 0 always, on SAP 3 as long as SAP 0 has not      *)
(* released the channel.                                                    *)
THEOREM L3IsInformed == Spec => []L3Informed
<1>1. IInv => L3Informed
  BY DEF IInv, EntitiesSound, Sound, L3Informed
<1> QED
  BY <1>1, Invariance, PTL

(* A repeated SABM is answered without a reset only when there is nothing   *)
(* to reset.                                                                *)
THEOREM FreshnessHolds == Spec => []FreshUntilResolved
<1>1. IInv => FreshUntilResolved
  BY DEF IInv, EntitiesSound, Sound, FreshUntilResolved
<1> QED
  BY <1>1, Invariance, PTL

(* The retransmission counter stays within its limit for every N200.        *)
THEOREM RetriesAreBounded == Spec => []RetriesBounded
<1>1. IInv => RetriesBounded
  BY DEF IInv, EntitiesSound, Sound, RetriesBounded
<1> QED
  BY <1>1, Invariance, PTL

-----------------------------------------------------------------------------
(* Timers.  What a state that waits repeats is what it waits for.          *)

Timed(x) ==
  /\ x.mState = "AwaitingRelease" => x.mT200 /\ x.mSentFrame.t = "DISC"
  /\ x.mState \in Multiframe /\ x.mT200 =>
       /\ x.mSentFrame.t = "I"
       /\ Next1(x.mSentFrame.ns) = x.mVS

(* A handler never begins to wait for an establishment, nor does it touch  *)
(* the timer of one that is waited for; and a decoder is not opened.       *)
Waits(x, y) ==
  /\ Timed(y)
  /\ y.mState = "AwaitingEstablish" =>
       x.mState = "AwaitingEstablish" /\ y.mT200 = x.mT200 /\ y.mSentFrame = x.mSentFrame
  /\ y.rx => x.rx
  /\ y.mState = "LinkReleased" /\ y.rx => x.mState = "LinkReleased"

LEMMA Cleared ==
  ASSUME NEW x \in Entity
  PROVE  LET c == ClearCounters(x) IN
         /\ c \in Entity /\ ~c.mT200
         /\ c.mState = x.mState /\ c.rx = x.rx /\ c.mSAPI = x.mSAPI /\ c.out = x.out
         /\ c.mSentFrame = x.mSentFrame
BY SeqNoType, EmptyType DEF ClearCounters, Entity

LEMMA Released ==
  ASSUME NEW x \in Entity, x.mSAPI = 0, NEW p
  PROVE  LET y == ClearState(x, p) IN
         /\ y.mState = "LinkReleased" /\ ~y.rx /\ ~y.mT200 /\ y.out = x.out
<1> DEFINE c == ClearCounters(x)
<1>1. c \in Entity /\ ~c.mT200 /\ c.mSAPI = 0 /\ c.out = x.out
  BY Cleared
<1> HIDE DEF c
<1>2. LET y == ReleaseLink(c, p) IN
      /\ y.mState = "LinkReleased" /\ ~y.rx /\ ~y.mT200 /\ y.out = c.out
  BY <1>1 DEF ReleaseLink, Entity
<1> QED
  BY <1>1, <1>2 DEF ClearState, c

LEMMA ReleasedAbnormally ==
  ASSUME NEW x \in Entity, x.mSAPI = 0
  PROVE  LET y == AbnormalRelease(x) IN
         /\ y.mState = "LinkReleased" /\ ~y.rx /\ ~y.mT200
         /\ y.out = Append(x.out, Unnumbered("DM", Empty))
<1> DEFINE d == SendDM([x EXCEPT !.up = "ERROR"])
<1>1. Unnumbered("DM", Empty) \in Frame
  BY UnnumberedType, EmptyType
<1>2. Append(x.out, Unnumbered("DM", Empty)) \in Seq(Frame)
  BY <1>1, AppendType DEF Entity
<1>3. d \in Entity /\ d.mSAPI = 0 /\ d.out = Append(x.out, Unnumbered("DM", Empty))
  BY <1>2 DEF SendDM, WriteL1, Entity, Primitive
<1> HIDE DEF d
<1> QED
  BY <1>3, Released DEF AbnormalRelease, d

LEMMA ReceiveFrameWaits ==
  ASSUME NEW x, Sound(x), x.mSAPI = 0, Timed(x), NEW f \in Frame
  PROVE  Waits(x, ReceiveFrame(x, f))
<1>1. x \in Entity /\ x.mState \in States /\ x.mT200 \in BOOLEAN /\ x.rx \in BOOLEAN
  BY DEF Sound, Entity
<1>2. \A p : LET y == ClearState(x, p) IN Waits(x, y)
  BY <1>1, Released DEF Waits, Timed, Multiframe
<1>3. Waits(x, AbnormalRelease(x))
  BY <1>1, ReleasedAbnormally DEF Waits, Timed, Multiframe
<1>4. \A g : Waits(x, WriteL1(x, g))
  BY <1>1 DEF Waits, Timed, Multiframe, WriteL1, Entity
<1>5. CASE f.t = "SABM"
  <2>1. Waits(x, SABMWhenReleased(x, f)) \/ x.mState # "LinkReleased"
    <3> DEFINE c == ClearCounters(x)
               y == [c EXCEPT !.mEstablishmentInProgress = TRUE, !.up = "ESTABLISH"]
               e == [y EXCEPT !.mState = "LinkEstablished"]
               r == [y EXCEPT !.mState = "ContentionResolution",
                              !.mContentionCheck = SumOf(f.info),
                              !.dlv = Append(@, f.info)]
    <3>1. c \in Entity /\ ~c.mT200 /\ c.rx = x.rx
      BY <1>1, Cleared
    <3> HIDE DEF c
    <3>2. e.mState \in Multiframe /\ ~e.mT200 /\ e.rx = x.rx /\ DOMAIN e = DOMAIN c
      BY <3>1 DEF Entity, Multiframe
    <3>3. r.mState \in Multiframe /\ ~r.mT200 /\ r.rx = x.rx /\ DOMAIN r = DOMAIN c
      BY <3>1 DEF Entity, Multiframe
    <3>4. SABMWhenReleased(x, f) = IF f.info = Empty THEN SendUA(e, Empty)
                                   ELSE SendUA(r, f.info)
      BY DEF SABMWhenReleased, c
    <3> HIDE DEF e, r
    <3>5. \A g : Waits(x, WriteL1(e, g)) /\ Waits(x, WriteL1(r, g))
      BY <3>1, <3>2, <3>3 DEF Waits, Timed, Multiframe, WriteL1, Entity
    <3> QED
      BY <3>4, <3>5 DEF SendUA
  <2>2. Waits(x, SABMWhenContended(x, f)) \/ x.mState # "ContentionResolution"
    BY <1>1 DEF Waits, Timed, Multiframe, SABMWhenContended, SendUA, WriteL1, Entity
  <2>3. Waits(x, SABMWhenEstablished(x, f)) \/ x.mState # "LinkEstablished"
    <3> DEFINE u == SendUA(x, Empty)
    <3>1. u.mState = x.mState /\ u.rx = x.rx /\ DOMAIN u = DOMAIN x
      BY <1>1 DEF SendUA, WriteL1, Entity
    <3> HIDE DEF u
    <3>2. x.mState = "LinkEstablished" => Waits(x, ClearCounters(u))
      BY <1>1, <3>1 DEF Waits, Timed, Multiframe, ClearCounters, Entity
    <3> QED
      BY <1>3, <1>4, <3>2 DEF SABMWhenEstablished, SendUA, u
  <2> QED
    BY <1>1, <1>4, <1>5, <2>1, <2>2, <2>3 DEF ReceiveFrame, ReceiveSABM, SendUA, SendDM, States
<1>6. CASE f.t = "DISC"
  <2> DEFINE z == [x EXCEPT !.mEstablishmentInProgress = FALSE]
             u == SendUA(z, Empty)
             d == SendDM(z)
  <2>1. z \in Entity /\ z.mSAPI = 0
    BY <1>1 DEF Entity
  <2>2. \A g \in Frame : WriteL1(z, g) \in Entity /\ WriteL1(z, g).mSAPI = 0
    BY <2>1, AppendType DEF WriteL1, Entity
  <2>3. u \in Entity /\ u.mSAPI = 0 /\ d \in Entity /\ d.mSAPI = 0
    BY <2>2, UnnumberedType, EmptyType DEF SendUA, SendDM
  <2>4. Waits(x, ClearState(z, "RELEASE")) /\ Waits(x, ClearState(u, "RELEASE"))
        /\ Waits(x, ClearState(d, "RELEASE"))
    BY <1>1, <2>1, <2>3, Released DEF Waits, Timed, Multiframe
  <2>5. Waits(x, u)
    BY <1>1 DEF SendUA, WriteL1, Waits, Timed, Multiframe, Entity
  <2> QED
    BY <1>6, <2>4, <2>5 DEF ReceiveFrame, ReceiveDISC
<1>7. CASE f.t = "UA"
  <2>1. Waits(x, x)
    BY <1>1 DEF Waits
  <2>2. Waits(x, [ClearCounters(x) EXCEPT !.mState = "LinkEstablished", !.up = "ESTABLISH"])
    BY <1>1, Cleared DEF Waits, Timed, Multiframe, Entity
  <2> QED
    BY <1>2, <1>3, <1>7, <2>1, <2>2 DEF ReceiveFrame, ReceiveUA
<1>8. CASE f.t = "DM"
  BY <1>1, <1>2, <1>8 DEF ReceiveFrame, ReceiveDM, Waits
<1>9. CASE f.t \in {"I", "RR", "REJ"}
  <2> DEFINE r == Resolve(x)
             a == ProcessAck(r, f.nr)
  <2>1. r \in Entity /\ Waits(x, r) /\ r.rx = x.rx
        /\ (x.mState \in Multiframe => r.mState = "LinkEstablished")
    BY <1>1 DEF Resolve, Waits, Timed, Multiframe, Entity, States
  <2>2. f.nr \in SeqNo
    BY DEF Frame
  <2>3. CASE x.mState \in Multiframe
    <3> HIDE DEF r
    <3>1. a \in Entity /\ a.mState = "LinkEstablished" /\ (a.rx <=> x.rx)
          /\ a.mSentFrame = r.mSentFrame /\ a.mVS = r.mVS /\ (a.mT200 => r.mT200)
      <4>1. r.mState = "LinkEstablished" /\ (r.rx <=> x.rx)
        BY <2>1, <2>3
      <4>2. a \in Entity
        BY <2>1, <2>2 DEF ProcessAck, Entity
      <4>3. /\ a.mState = r.mState /\ a.rx = r.rx /\ a.mSentFrame = r.mSentFrame
            /\ a.mVS = r.mVS /\ (a.mT200 => r.mT200)
        BY <2>1 DEF ProcessAck, Entity
      <4> HIDE DEF a
      <4> QED
        BY <4>1, <4>2, <4>3
    <3>7. Timed(a)
      <4> HIDE DEF a
      <4> QED
        BY <2>1, <2>3, <3>1 DEF Waits, Timed, Multiframe
    <3> HIDE DEF a
    <3>2. Waits(x, a)
      BY <3>1, <3>7 DEF Waits
    <3>3. Waits(x, SendREJ(a))
      BY <3>1, <3>7 DEF Waits, Timed, Multiframe, SendREJ, WriteL1, Entity
    <3> DEFINE v == [a EXCEPT !.mVR = Next1(@)]
               b == BufferIFrameData(v, f)
    <3>4. v \in Entity /\ v.mState = "LinkEstablished" /\ Timed(v) /\ (v.rx <=> x.rx)
      BY <3>1, <3>7, SeqNoType DEF Timed, Multiframe, Entity
    <3> HIDE DEF v
    <3>5. /\ b.mState = "LinkEstablished" /\ Timed(b) /\ (b.rx <=> x.rx)
          /\ DOMAIN b = DOMAIN v
      BY <3>4 DEF BufferIFrameData, Timed, Multiframe, Entity
    <3> HIDE DEF b
    <3>6. Waits(x, SendRR(b))
      BY <3>4, <3>5 DEF Waits, Timed, Multiframe, SendRR, WriteL1, Entity
    <3> QED
      BY <1>9, <2>3, <3>2, <3>3, <3>6 DEF ReceiveFrame, ReceiveIFrame, ReceiveSFrame, r, a, v, b
  <2>4. CASE x.mState \notin Multiframe
    BY <1>9, <2>1, <2>4 DEF ReceiveFrame, ReceiveIFrame, ReceiveSFrame
  <2> QED
    BY <2>3, <2>4
<1> QED
  BY <1>5, <1>6, <1>7, <1>8, <1>9 DEF Frame

LEMMA T200ExpirationWaits ==
  ASSUME NEW x, Sound(x), x.mSAPI = 0, Timed(x), x.mT200
  PROVE  Waits(x, T200Expiration(x))
<1> DEFINE y == [x EXCEPT !.mT200 = FALSE]
<1>1. x \in Entity /\ x.mState \in States /\ x.rx \in BOOLEAN
  BY DEF Sound, Entity
<1>2. y \in Entity /\ y.mSAPI = 0
  BY <1>1 DEF Entity
<1>3. Waits(x, AbnormalRelease(y))
  <2> HIDE DEF y
  <2> QED
    BY <1>2, ReleasedAbnormally DEF Waits, Timed, Multiframe
<1>4. x.mState # "AwaitingRelease" => Waits(x, Retransmission(y))
  BY <1>1 DEF Waits, Timed, Multiframe, Retransmission, WriteL1, Entity
<1>5. x.mState = "AwaitingRelease" => Waits(x, ReleaseLink(y, "RELEASE"))
  BY <1>1 DEF Waits, Timed, Multiframe, ReleaseLink, Entity
<1>6. x.mState = "LinkReleased" => Waits(x, y)
  BY <1>1 DEF Waits, Timed, Multiframe, Entity
<1> QED
  BY <1>1, <1>3, <1>4, <1>5, <1>6 DEF T200Expiration, States

(* Between two sides of which one is released and the other at most asks   *)
(* for something only DISC and DM are sent.                                *)
LEMMA BeforeTheSabm ==
  ASSUME NEW x, Sound(x), x.mSAPI = 0, x.out = Empty, NEW f \in Frame
  PROVE  LET y == ReceiveFrame(x, f) IN
         /\ /\ x.mState \in {"LinkReleased", "AwaitingEstablish"}
            /\ f.t \in {"DM", "DISC"}
            => /\ y.mState \in {"LinkReleased", x.mState} /\ (y.mT200 => x.mT200)
               /\ y.out \in {Empty, <<Unnumbered("DM", Empty)>>}
         /\ x.mState \in {"LinkReleased", "AwaitingRelease"} /\ f.t = "DM"
            => y.mState \in {"LinkReleased", x.mState} /\ y.out = Empty
<1> DEFINE z == [x EXCEPT !.mEstablishmentInProgress = FALSE]
           g == Unnumbered("DM", Empty)
           d == WriteL1(z, g)
           y == ReceiveFrame(x, f)
<1>1. x \in Entity
  BY DEF Sound
<1>2. g \in Frame
  BY UnnumberedType, EmptyType
<1> HIDE DEF g
<1>3. z \in Entity /\ z.mSAPI = 0 /\ z.out = Empty
  BY <1>1 DEF Entity
<1> HIDE DEF z
<1>9. Append(z.out, g) = <<g>>
  BY <1>3 DEF Empty
<1>4. d \in Entity /\ d.mSAPI = 0 /\ d.out = <<g>>
  <2>1. Append(z.out, g) \in Seq(Frame)
    BY <1>2, <1>3, AppendType, EmptyType
  <2> QED
    BY <1>3, <1>9, <2>1 DEF WriteL1, Entity
<1> HIDE DEF d
<1>5. \A v \in {x, z, d} : LET c == ClearState(v, "RELEASE") IN
        c.mState = "LinkReleased" /\ ~c.mT200 /\ c.out = v.out
  BY <1>1, <1>3, <1>4, Released
<1>6. f.t = "DM" => y = IF x.mState = "LinkReleased" THEN x ELSE ClearState(x, "RELEASE")
  BY DEF ReceiveFrame, ReceiveDM
<1>7. f.t = "DISC" /\ x.mState = "AwaitingEstablish" => y = ClearState(z, "RELEASE")
  BY DEF ReceiveFrame, ReceiveDISC, z
<1>8. f.t = "DISC" /\ x.mState = "LinkReleased" => y = ClearState(d, "RELEASE")
  BY DEF ReceiveFrame, ReceiveDISC, z, d, SendDM, g
<1> HIDE DEF y
<1> QED
  BY <1>3, <1>4, <1>5, <1>6, <1>7, <1>8 DEF y, g

-----------------------------------------------------------------------------
(* SAP 0, and a phone whose layer 3 is one thread.  On SAP 0 a link that is *)
(* released closes the decoder: until the channel is opened again the phone *)
(* establishes it once.                                                    *)

OnePhoneThread == \A v, w \in Writer : v[1] = "MS" /\ w[1] = "MS" => v = w

Begins(e, pcs) == \E w \in Writer : w[1] = e /\ wr[w].pc \in pcs

Carries(s, types) == \A i \in 1 .. Len(s) : s[i].t \in types

(* The phone has sent no SABM since the channel was opened.                *)
Unheard ==
  \/ ent["MS"].mState = "LinkReleased" /\ ent["MS"].rx
  \/ Begins("MS", {"est1", "est2"})

(* Then nobody has a link, and nothing on the air makes one: a thread of   *)
(* the network may at most be late with what it was asked for on the       *)
(* transaction before.                                                     *)
Hush ==
  /\ Unheard =>
       /\ ent["BTS"].mState \in {"LinkReleased", "AwaitingRelease"}
       /\ Carries(inq["MS"], {"DM", "DISC"}) /\ Carries(inq["BTS"], {"DM"})
  /\ ent["MS"].mState = "LinkReleased" /\ ent["MS"].rx =>
       ~Begins("MS", Pc \ {"idle", "est1"})
  /\ Begins("MS", {"est1"}) => ent["MS"].mState = "LinkReleased"
  /\ Begins("MS", {"est2"}) =>
       ent["MS"].mState \in {"LinkReleased", "AwaitingEstablish"} /\ ~ent["MS"].mT200
  /\ ~Begins("BTS", {"est1", "est2"})

Awaited ==
  \A e \in Side : ent[e].mState = "AwaitingEstablish" =>
    \/ ent[e].mT200 /\ ent[e].mSentFrame.t = "SABM"
    \/ Begins(e, {"est2"})

TimedInv == (\A e \in Side : Timed(ent[e])) /\ Hush /\ Awaited

LEMMA CarriesTail ==
  ASSUME NEW s \in Seq(Frame), s # Empty, NEW types, Carries(s, types)
  PROVE  Carries(Tail(s), types) /\ Head(s).t \in types
<1>1. Len(s) \in Nat /\ Len(s) # 0 /\ Len(Tail(s)) = Len(s) - 1
  BY DEF Empty
<1>2. \A i \in 1 .. Len(Tail(s)) : Tail(s)[i] = s[i + 1] /\ i + 1 \in 1 .. Len(s)
  BY <1>1
<1>3. Head(s) = s[1] /\ 1 \in 1 .. Len(s)
  BY <1>1
<1> QED
  BY <1>2, <1>3 DEF Carries

LEMMA CarriesConcat ==
  ASSUME NEW s \in Seq(Frame), NEW r \in Seq(Frame), NEW types,
         Carries(s, types), Carries(r, types)
  PROVE  Carries(s \o r, types)
<1> SUFFICES ASSUME NEW i \in 1 .. Len(s \o r)
             PROVE  (s \o r)[i].t \in types
  BY DEF Carries
<1>1. Len(s) \in Nat /\ Len(r) \in Nat /\ Len(s \o r) = Len(s) + Len(r)
  OBVIOUS
<1>2. CASE i <= Len(s)
  BY <1>1, <1>2 DEF Carries
<1>3. CASE i > Len(s)
  <2>1. i - Len(s) \in 1 .. Len(r) /\ (s \o r)[i] = r[i - Len(s)]
    BY <1>1, <1>3
  <2> QED
    BY <2>1 DEF Carries
<1> QED
  BY <1>1, <1>2, <1>3

LEMMA CarriesFew == \A types : Carries(Empty, types)
                    /\ \A f \in Frame : f.t \in types => Carries(<<f>>, types)
BY DEF Carries, Empty

(* What a committed object leaves: its own fields, the other object, and   *)
(* the air.                                                                *)
LEMMA CommitEffect ==
  ASSUME EntitiesSound, NEW e \in Side, NEW x, Kept(ent[e], x),
         NEW q \in [Side -> Seq(Frame)], Commit(e, x, q)
  PROVE  /\ ent'[e].mState = x.mState /\ ent'[e].mT200 = x.mT200
         /\ ent'[e].mSentFrame = x.mSentFrame /\ ent'[e].rx = x.rx
         /\ Timed(x) => Timed(ent'[e])
         /\ ent'[Peer(e)] = ent[Peer(e)]
         /\ inq'[e] = q[e]
         /\ inq'[Peer(e)] \in {q[Peer(e)], q[Peer(e)] \o x.out}
<1>1. x \in Entity
  BY DEF Kept, Sound
<1> DEFINE y == [x EXCEPT !.out = Empty]
<1>2. /\ y.mState = x.mState /\ y.mT200 = x.mT200
      /\ y.mSentFrame = x.mSentFrame /\ y.rx = x.rx /\ y.mVS = x.mVS
  BY <1>1 DEF Entity
<1>3. ent' = [ent EXCEPT ![e] = y]
  BY DEF Commit
<1> HIDE DEF y
<1>4. ent'[e] = y /\ ent'[Peer(e)] = ent[Peer(e)]
  BY <1>3 DEF EntitiesSound, Peer, Side
<1>5. inq'[e] = q[e] /\ inq'[Peer(e)] \in {q[Peer(e)], q[Peer(e)] \o x.out}
  <2>1. Peer(e) \in Side /\ Peer(e) # e
    BY DEF Peer, Side
  <2>2. inq' = [q EXCEPT ![Peer(e)] = IF ent[Peer(e)].rx THEN @ \o x.out ELSE @]
    BY DEF Commit
  <2> QED
    BY <2>1, <2>2
<1> QED
  BY <1>2, <1>4, <1>5 DEF Timed

LEMMA CommitSame ==
  ASSUME EntitiesSound, NEW e \in Side, inq \in [Side -> Seq(Frame)],
         Commit(e, ent[e], inq)
  PROVE  ent' = ent /\ inq' = inq
<1>1. ent[e] \in Entity /\ ent[e].out = Empty /\ ent \in [Side -> Entity]
  BY DEF EntitiesSound
<1>2. [ent[e] EXCEPT !.out = Empty] = ent[e]
  BY <1>1 DEF Entity
<1>3. ent' = ent
  BY <1>1, <1>2 DEF Commit
<1>4. inq[Peer(e)] \o ent[e].out = inq[Peer(e)]
  BY <1>1, PeerType DEF Empty
<1> QED
  BY <1>3, <1>4, PeerType DEF Commit

(* The phone's thread is the only one whose place matters to it.           *)
LEMMA BeginsAfter ==
  ASSUME wr \in [Writer -> Call], OnePhoneThread, NEW w \in Writer, NEW c,
         wr' = [wr EXCEPT ![w] = c], NEW pcs
  PROVE  /\ w[1] = "MS" => /\ Begins("MS", pcs) <=> wr[w].pc \in pcs
                           /\ Begins("MS", pcs)' <=> c.pc \in pcs
                           /\ Begins("BTS", pcs)' => Begins("BTS", pcs)
         /\ w[1] = "BTS" => /\ Begins("MS", pcs)' <=> Begins("MS", pcs)
                            /\ Begins("BTS", pcs)' => Begins("BTS", pcs) \/ c.pc \in pcs
<1>1. \A v \in Writer : wr'[v] = IF v = w THEN c ELSE wr[v]
  OBVIOUS
<1>2. CASE w[1] = "MS"
  <2>1. \A v \in Writer : v[1] = "MS" => v = w
    BY <1>2 DEF OnePhoneThread
  <2> QED
    BY <1>1, <1>2, <2>1 DEF Begins
<1>3. CASE w[1] = "BTS"
  BY <1>1, <1>3 DEF Begins
<1> QED
  BY <1>2, <1>3

(* A step of the phone's thread that does not begin an establishment.      *)
LEMMA PhoneStep ==
  ASSUME IInv, TimedInv, OnePhoneThread, NEW w \in Writer, w[1] = "MS",
         NEW c, c.pc \notin {"est1", "est2"}, wr' = [wr EXCEPT ![w] = c],
         NEW y, Kept(ent["MS"], y), Timed(y), Commit("MS", y, inq),
         ~(y.mState = "LinkReleased" /\ y.rx),
         y.mState = "AwaitingEstablish" => y.mT200 /\ y.mSentFrame.t = "SABM"
  PROVE  TimedInv'
<1>1. /\ EntitiesSound /\ inq \in [Side -> Seq(Frame)] /\ wr \in [Writer -> Call]
      /\ "MS" \in Side /\ "BTS" \in Side /\ Side = {"BTS", "MS"} /\ Peer("MS") = "BTS"
  BY DEF IInv, TypeOK, Side, Peer
<1>2. /\ ent'["MS"].mState = y.mState /\ ent'["MS"].mT200 = y.mT200
      /\ ent'["MS"].mSentFrame = y.mSentFrame /\ ent'["MS"].rx = y.rx
      /\ Timed(ent'["MS"]) /\ ent'["BTS"] = ent["BTS"]
  BY <1>1, CommitEffect
<1>3. \A pcs : /\ Begins("MS", pcs)' <=> c.pc \in pcs
               /\ Begins("BTS", pcs)' => Begins("BTS", pcs)
  BY <1>1, BeginsAfter
<1>4. /\ ~Begins("MS", {"est1", "est2"})' /\ ~Begins("MS", {"est1"})'
      /\ ~Begins("MS", {"est2"})' /\ ~Begins("BTS", {"est1", "est2"})'
  BY <1>3 DEF TimedInv, Hush
<1>5. ~Unheard'
  BY <1>2, <1>4 DEF Unheard
<1>6. Hush'
  BY <1>2, <1>4, <1>5 DEF Hush
<1>7. Awaited'
  <2>1. ent'["BTS"].mState = "AwaitingEstablish" =>
          ent'["BTS"].mT200 /\ ent'["BTS"].mSentFrame.t = "SABM"
    <3>1. ~Begins("BTS", {"est2"})
      BY DEF TimedInv, Hush, Begins
    <3> QED
      BY <1>1, <1>2, <3>1 DEF TimedInv, Awaited
  <2> QED
    BY <1>1, <1>2, <2>1 DEF Awaited
<1>8. \A e \in Side : Timed(ent'[e])
  BY <1>1, <1>2 DEF TimedInv
<1> QED
  BY <1>6, <1>7, <1>8 DEF TimedInv, Timed

(* A step of one of the network's threads. *)
LEMMA NetworkStep ==
  ASSUME IInv, TimedInv, OnePhoneThread, NEW w \in Writer, w[1] = "BTS",
         NEW c, c.pc \notin {"est1", "est2"}, wr' = [wr EXCEPT ![w] = c],
         NEW y, Kept(ent["BTS"], y), Timed(y), Commit("BTS", y, inq),
         ent["BTS"].mState \in {"LinkReleased", "AwaitingRelease"} =>
           /\ y.mState \in {"LinkReleased", "AwaitingRelease"}
           /\ Carries(y.out, {"DM", "DISC"}),
         y.mState = "AwaitingEstablish" => y.mT200 /\ y.mSentFrame.t = "SABM"
  PROVE  TimedInv'
<1>1. /\ EntitiesSound /\ inq \in [Side -> Seq(Frame)] /\ wr \in [Writer -> Call]
      /\ "MS" \in Side /\ "BTS" \in Side /\ Side = {"BTS", "MS"} /\ Peer("BTS") = "MS"
  BY DEF IInv, TypeOK, Side, Peer
<1>2. /\ ent'["BTS"].mState = y.mState /\ ent'["BTS"].mT200 = y.mT200
      /\ ent'["BTS"].mSentFrame = y.mSentFrame
      /\ Timed(ent'["BTS"]) /\ ent'["MS"] = ent["MS"]
      /\ inq'["BTS"] = inq["BTS"] /\ inq'["MS"] \in {inq["MS"], inq["MS"] \o y.out}
  BY <1>1, CommitEffect
<1>3. \A pcs : /\ Begins("MS", pcs)' <=> Begins("MS", pcs)
               /\ Begins("BTS", pcs)' => Begins("BTS", pcs) \/ c.pc \in pcs
  BY <1>1, BeginsAfter
<1>4. ~Begins("BTS", {"est1", "est2"})'
  BY <1>3 DEF TimedInv, Hush
<1>5. Unheard' => Unheard
  BY <1>2, <1>3 DEF Unheard
<1>6. ASSUME Unheard
      PROVE  /\ ent'["BTS"].mState \in {"LinkReleased", "AwaitingRelease"}
             /\ Carries(inq'["MS"], {"DM", "DISC"}) /\ Carries(inq'["BTS"], {"DM"})
  <2>1. /\ ent["BTS"].mState \in {"LinkReleased", "AwaitingRelease"}
        /\ Carries(inq["MS"], {"DM", "DISC"}) /\ Carries(inq["BTS"], {"DM"})
    BY <1>6 DEF TimedInv, Hush
  <2>2. y.out \in Seq(Frame)
    BY DEF Kept, Sound, Entity
  <2>3. Carries(inq["MS"] \o y.out, {"DM", "DISC"})
    BY <1>1, <2>1, <2>2, CarriesConcat
  <2> QED
    BY <1>2, <2>1, <2>3
<1>7. Hush'
  <2>1. /\ Begins("MS", {"est1"})' <=> Begins("MS", {"est1"})
        /\ Begins("MS", {"est2"})' <=> Begins("MS", {"est2"})
        /\ Begins("MS", Pc \ {"idle", "est1"})' <=> Begins("MS", Pc \ {"idle", "est1"})
    BY <1>3
  <2>2. /\ ent'["MS"].mState = "LinkReleased" /\ ent'["MS"].rx =>
             ~Begins("MS", Pc \ {"idle", "est1"})'
        /\ Begins("MS", {"est1"})' => ent'["MS"].mState = "LinkReleased"
        /\ Begins("MS", {"est2"})' =>
             ent'["MS"].mState \in {"LinkReleased", "AwaitingEstablish"} /\ ~ent'["MS"].mT200
    BY <1>2, <2>1 DEF TimedInv, Hush
  <2> QED
    BY <1>4, <1>5, <1>6, <2>2 DEF Hush, Carries
<1>8. Awaited'
  <2>1. Begins("MS", {"est2"})' <=> Begins("MS", {"est2"})
    BY <1>3
  <2>2. ent["MS"].mState = "AwaitingEstablish" =>
          (ent["MS"].mT200 /\ ent["MS"].mSentFrame.t = "SABM") \/ Begins("MS", {"est2"})
    BY <1>1 DEF TimedInv, Awaited
  <2> QED
    BY <1>1, <1>2, <2>1, <2>2 DEF Awaited
<1>9. \A e \in Side : Timed(ent'[e])
  BY <1>1, <1>2 DEF TimedInv
<1> QED
  BY <1>7, <1>8, <1>9 DEF TimedInv, Timed

-----------------------------------------------------------------------------
(* One step at a time *)

(* The steps of the service loop and of the air move no thread. *)
LEMMA BeginsUnchanged ==
  ASSUME UNCHANGED wr, NEW e, NEW pcs
  PROVE  Begins(e, pcs)' <=> Begins(e, pcs)
BY DEF Begins

LEMMA ReceiveTimed ==
  ASSUME Sapi = 0, IInv, TimedInv, NEW e \in Side, Receive(e)
  PROVE  TimedInv'
<1> DEFINE x == ent[e]
           f == Head(inq[e])
           y == ReceiveFrame(x, f)
           q == [inq EXCEPT ![e] = Tail(@)]
           m == ent["MS"]
           b == ent["BTS"]
<1>1. /\ EntitiesSound /\ inq \in [Side -> Seq(Frame)]
      /\ Side = {"BTS", "MS"} /\ Peer("BTS") = "MS" /\ Peer("MS") = "BTS"
      /\ Sound(x) /\ x.mSAPI = 0 /\ x.out = Empty /\ Timed(x)
  BY DEF IInv, TypeOK, Side, Peer, EntitiesSound, TimedInv
<1>2. f \in Frame /\ Tail(inq[e]) \in Seq(Frame) /\ inq[e] # Empty
  BY <1>1 DEF Receive, Empty
<1>3. Waits(x, y)
  BY <1>1, <1>2, ReceiveFrameWaits
<1>4. Kept(x, y)
  BY <1>1, <1>2, ReceiveFrameKept
<1>5. /\ /\ x.mState \in {"LinkReleased", "AwaitingEstablish"}
         /\ f.t \in {"DM", "DISC"}
         => /\ y.mState \in {"LinkReleased", x.mState} /\ (y.mT200 => x.mT200)
            /\ y.out \in {Empty, <<Unnumbered("DM", Empty)>>}
      /\ x.mState \in {"LinkReleased", "AwaitingRelease"} /\ f.t = "DM"
         => y.mState \in {"LinkReleased", x.mState} /\ y.out = Empty
  BY <1>1, <1>2, BeforeTheSabm
<1>6. q \in [Side -> Seq(Frame)] /\ q[e] = Tail(inq[e]) /\ q[Peer(e)] = inq[Peer(e)]
  BY <1>1, <1>2
<1>7. Commit(e, y, q) /\ UNCHANGED wr
  <2>1. Commit(e, FollowMaster(y), q) /\ UNCHANGED wr
    BY DEF Receive
  <2> HIDE DEF x, y, q
  <2> QED
    BY <1>1, <1>4, <2>1, FollowMasterKept DEF Kept
<1> HIDE DEF x, f, y, q
<1>8. /\ ent'[e].mState = y.mState /\ ent'[e].mT200 = y.mT200
      /\ ent'[e].mSentFrame = y.mSentFrame /\ ent'[e].rx = y.rx
      /\ Timed(ent'[e]) /\ ent'[Peer(e)] = ent[Peer(e)]
      /\ inq'[e] = Tail(inq[e])
      /\ inq'[Peer(e)] \in {inq[Peer(e)], inq[Peer(e)] \o y.out}
  <2>1. Kept(ent[e], y)
    BY <1>4 DEF x
  <2>2. Timed(y)
    BY <1>3 DEF Waits
  <2>3. EntitiesSound
    BY <1>1
  <2>4. /\ ent'[e].mState = y.mState /\ ent'[e].mT200 = y.mT200
        /\ ent'[e].mSentFrame = y.mSentFrame /\ ent'[e].rx = y.rx
        /\ Timed(ent'[e]) /\ ent'[Peer(e)] = ent[Peer(e)]
        /\ inq'[e] = q[e]
        /\ inq'[Peer(e)] \in {q[Peer(e)], q[Peer(e)] \o y.out}
    BY <1>6, <1>7, <2>1, <2>2, <2>3, CommitEffect
  <2> QED
    BY <1>6, <2>4
<1>9. \A d, pcs : Begins(d, pcs)' <=> Begins(d, pcs)
  BY <1>7, BeginsUnchanged
<1>10. Unheard' => Unheard
  BY <1>1, <1>3, <1>8, <1>9 DEF Unheard, Waits, x
<1>11. y.mState = "LinkReleased" /\ y.rx => x.mState = "LinkReleased" /\ x.rx
  BY <1>3 DEF Waits
<1>12. ASSUME Unheard
       PROVE  /\ ent'["BTS"].mState \in {"LinkReleased", "AwaitingRelease"}
              /\ Carries(inq'["MS"], {"DM", "DISC"}) /\ Carries(inq'["BTS"], {"DM"})
              /\ e = "MS" => y.mState \in {"LinkReleased", x.mState} /\ (y.mT200 => x.mT200)
  <2>1. /\ b.mState \in {"LinkReleased", "AwaitingRelease"}
        /\ Carries(inq["MS"], {"DM", "DISC"}) /\ Carries(inq["BTS"], {"DM"})
    BY <1>12 DEF TimedInv, Hush
  <2>2. CASE e = "MS"
    <3>1. m.mState \in {"LinkReleased", "AwaitingEstablish"}
      BY <1>12 DEF Unheard, TimedInv, Hush, Begins
    <3>2. f.t \in {"DM", "DISC"} /\ Carries(Tail(inq["MS"]), {"DM", "DISC"})
      BY <1>1, <1>2, <2>1, <2>2, CarriesTail DEF f
    <3>3. /\ y.mState \in {"LinkReleased", x.mState} /\ (y.mT200 => x.mT200)
          /\ y.out \in {Empty, <<Unnumbered("DM", Empty)>>}
      BY <1>5, <2>2, <3>1, <3>2 DEF x
    <3>4. Carries(y.out, {"DM"}) /\ y.out \in Seq(Frame)
      <4>1. Unnumbered("DM", Empty) \in Frame /\ Unnumbered("DM", Empty).t = "DM"
        BY UnnumberedType, EmptyType DEF Unnumbered
      <4>2. y.out \in Seq(Frame)
        BY <1>4 DEF Kept, Sound, Entity
      <4> QED
        BY <3>3, <4>1, <4>2, CarriesFew
    <3>5. Carries(inq["BTS"] \o y.out, {"DM"})
      BY <1>1, <2>1, <3>4, CarriesConcat
    <3> QED
      BY <1>1, <1>8, <2>1, <2>2, <3>2, <3>3, <3>5
  <2>3. CASE e = "BTS"
    <3>1. f.t = "DM" /\ Carries(Tail(inq["BTS"]), {"DM"})
      BY <1>1, <1>2, <2>1, <2>3, CarriesTail DEF f
    <3>2. y.mState \in {"LinkReleased", "AwaitingRelease"} /\ y.out = Empty
      BY <1>5, <2>1, <2>3, <3>1 DEF x
    <3>3. inq'["MS"] = inq["MS"]
      BY <1>1, <1>8, <2>3, <3>2 DEF Empty
    <3> QED
      BY <1>8, <2>1, <2>3, <3>1, <3>2, <3>3
  <2> QED
    BY <1>1, <2>2, <2>3
<1>13. ~Begins("BTS", {"est1", "est2"})'
  BY <1>9 DEF TimedInv, Hush
<1>14. ent'["MS"].mState = "LinkReleased" /\ ent'["MS"].rx =>
         ~Begins("MS", Pc \ {"idle", "est1"})'
  BY <1>1, <1>8, <1>9, <1>11 DEF TimedInv, Hush, x
<1>15. ASSUME Begins("MS", {"est1"}) \/ Begins("MS", {"est2"})
       PROVE  /\ ent'["MS"].mState \in {"LinkReleased", m.mState}
              /\ ent'["MS"].mT200 => m.mT200
  <2>1. Unheard
    BY <1>15 DEF Unheard, Begins
  <2> QED
    BY <1>1, <1>8, <1>12, <2>1 DEF x
<1>16. /\ Begins("MS", {"est1"})' => ent'["MS"].mState = "LinkReleased"
       /\ Begins("MS", {"est2"})' =>
            ent'["MS"].mState \in {"LinkReleased", "AwaitingEstablish"} /\ ~ent'["MS"].mT200
  BY <1>9, <1>15 DEF TimedInv, Hush
<1>17. Hush'
  BY <1>10, <1>12, <1>13, <1>14, <1>16 DEF Hush, Carries
<1>18. Awaited'
  <2>1. ASSUME NEW d \in Side, ent'[d].mState = "AwaitingEstablish"
        PROVE  ent[d].mState = "AwaitingEstablish" /\ ent'[d].mT200 = ent[d].mT200
               /\ ent'[d].mSentFrame = ent[d].mSentFrame
    BY <1>1, <1>3, <1>8, <2>1 DEF Waits, x
  <2> QED
    BY <1>9, <2>1 DEF TimedInv, Awaited
<1>19. \A d \in Side : Timed(ent'[d])
  BY <1>1, <1>8 DEF TimedInv
<1> QED
  BY <1>17, <1>18, <1>19 DEF TimedInv, Timed

LEMMA ExpiredUnheard ==
  ASSUME NEW x \in Entity, x.mState \in {"LinkReleased", "AwaitingRelease"}
  PROVE  LET y == T200Expiration(x) IN
         y.mState = "LinkReleased" /\ ~y.mT200 /\ y.out = x.out
BY DEF T200Expiration, ReleaseLink, Entity

LEMMA T200ExpiresTimed ==
  ASSUME Sapi = 0, IInv, TimedInv, NEW e \in Side, T200Expires(e)
  PROVE  TimedInv'
<1> DEFINE x == ent[e]
           y == T200Expiration(x)
           m == ent["MS"]
           b == ent["BTS"]
<1>1. /\ EntitiesSound /\ inq \in [Side -> Seq(Frame)]
      /\ Side = {"BTS", "MS"} /\ Peer("BTS") = "MS" /\ Peer("MS") = "BTS"
      /\ Sound(x) /\ x \in Entity /\ x.mSAPI = 0 /\ x.out = Empty /\ Timed(x)
      /\ x.mT200
  BY DEF IInv, TypeOK, Side, Peer, EntitiesSound, TimedInv, T200Expires
<1>2. Waits(x, y)
  BY <1>1, T200ExpirationWaits
<1>3. Kept(x, y)
  BY <1>1, T200ExpirationKept
<1>4. Commit(e, y, inq) /\ UNCHANGED wr
  <2>1. Commit(e, FollowMaster(y), inq) /\ UNCHANGED wr
    BY DEF T200Expires
  <2> HIDE DEF x, y
  <2> QED
    BY <1>1, <1>3, <2>1, FollowMasterKept DEF Kept
<1>5. x.mState \in {"LinkReleased", "AwaitingRelease"} =>
        y.mState = "LinkReleased" /\ ~y.mT200 /\ y.out = Empty
  BY <1>1, ExpiredUnheard
<1> HIDE DEF x, y
<1>6. /\ ent'[e].mState = y.mState /\ ent'[e].mT200 = y.mT200
      /\ ent'[e].mSentFrame = y.mSentFrame /\ ent'[e].rx = y.rx
      /\ Timed(ent'[e]) /\ ent'[Peer(e)] = ent[Peer(e)]
      /\ inq'[e] = inq[e]
      /\ inq'[Peer(e)] \in {inq[Peer(e)], inq[Peer(e)] \o y.out}
  <2>1. Kept(ent[e], y)
    BY <1>3 DEF x
  <2>2. Timed(y)
    BY <1>2 DEF Waits
  <2>3. EntitiesSound /\ inq \in [Side -> Seq(Frame)]
    BY <1>1
  <2> QED
    BY <1>4, <2>1, <2>2, <2>3, CommitEffect
<1>7. \A d, pcs : Begins(d, pcs)' <=> Begins(d, pcs)
  BY <1>4, BeginsUnchanged
<1>8. Unheard' => Unheard
  BY <1>1, <1>2, <1>6, <1>7 DEF Unheard, Waits, x
<1>9. Unheard => x.mState \in {"LinkReleased", "AwaitingRelease"}
  <2>1. Unheard /\ e = "BTS" => x.mState \in {"LinkReleased", "AwaitingRelease"}
    BY DEF TimedInv, Hush, x
  <2>2. Begins("MS", {"est1", "est2"}) => Begins("MS", {"est1"}) \/ Begins("MS", {"est2"})
    BY DEF Begins
  <2>3. Unheard /\ e = "MS" => x.mState = "LinkReleased"
    BY <1>1, <2>2 DEF TimedInv, Hush, Unheard, x
  <2> QED
    BY <1>1, <2>1, <2>3
<1>10. ASSUME Unheard
       PROVE  /\ ent'["BTS"].mState \in {"LinkReleased", "AwaitingRelease"}
              /\ inq'["MS"] = inq["MS"] /\ inq'["BTS"] = inq["BTS"]
              /\ e = "MS" => y.mState = "LinkReleased" /\ ~y.mT200
  <2>1. y.mState = "LinkReleased" /\ ~y.mT200 /\ y.out = Empty
    BY <1>5, <1>9, <1>10
  <2>2. b.mState \in {"LinkReleased", "AwaitingRelease"}
    BY <1>10 DEF TimedInv, Hush
  <2>3. inq'[Peer(e)] = inq[Peer(e)]
    BY <1>1, <1>6, <2>1, PeerType DEF Empty
  <2> QED
    BY <1>1, <1>6, <2>1, <2>2, <2>3
<1>11. Unheard' => /\ ent'["BTS"].mState \in {"LinkReleased", "AwaitingRelease"}
                   /\ Carries(inq'["MS"], {"DM", "DISC"}) /\ Carries(inq'["BTS"], {"DM"})
  BY <1>8, <1>10 DEF TimedInv, Hush
<1>12. ~Begins("BTS", {"est1", "est2"})'
  BY <1>7 DEF TimedInv, Hush
<1>13. ent'["MS"].mState = "LinkReleased" /\ ent'["MS"].rx =>
         ~Begins("MS", Pc \ {"idle", "est1"})'
  BY <1>1, <1>2, <1>6, <1>7 DEF TimedInv, Hush, x, Waits
<1>14. /\ Begins("MS", {"est1"})' => ent'["MS"].mState = "LinkReleased"
       /\ Begins("MS", {"est2"})' =>
            ent'["MS"].mState \in {"LinkReleased", "AwaitingEstablish"} /\ ~ent'["MS"].mT200
  <2>1. Begins("MS", {"est1"}) \/ Begins("MS", {"est2"}) => Unheard
    BY DEF Unheard, Begins
  <2> QED
    BY <1>1, <1>6, <1>7, <1>10, <2>1 DEF TimedInv, Hush
<1>15. Hush'
  BY <1>11, <1>12, <1>13, <1>14 DEF Hush, Carries
<1>16. Awaited'
  <2>1. ASSUME NEW d \in Side, ent'[d].mState = "AwaitingEstablish"
        PROVE  ent[d].mState = "AwaitingEstablish" /\ ent'[d].mT200 = ent[d].mT200
               /\ ent'[d].mSentFrame = ent[d].mSentFrame
    BY <1>1, <1>2, <1>6, <2>1 DEF Waits, x
  <2> QED
    BY <1>7, <2>1 DEF TimedInv, Awaited
<1>17. \A d \in Side : Timed(ent'[d])
  BY <1>1, <1>6 DEF TimedInv
<1> QED
  BY <1>15, <1>16, <1>17 DEF TimedInv, Timed

LEMMA LoseTimed ==
  ASSUME IInv, TimedInv, NEW e \in Side, Lose(e)
  PROVE  TimedInv'
<1>1. inq \in [Side -> Seq(Frame)] /\ Side = {"BTS", "MS"} /\ inq[e] # Empty
  BY DEF IInv, TypeOK, Side, Lose
<1>2. UNCHANGED <<ent, wr>> /\ inq' = [inq EXCEPT ![e] = Tail(@)]
  BY DEF Lose
<1>3. \A d, pcs : Begins(d, pcs)' <=> Begins(d, pcs)
  BY <1>2, BeginsUnchanged
<1>4. \A d \in Side : \A types : Carries(inq[d], types) => Carries(inq'[d], types)
  <2>1. \A types : Carries(inq[e], types) => Carries(Tail(inq[e]), types)
    BY <1>1, CarriesTail
  <2> QED
    BY <1>1, <1>2, <2>1
<1>5. Unheard' <=> Unheard
  BY <1>2, <1>3 DEF Unheard
<1>6. Unheard' => Carries(inq'["MS"], {"DM", "DISC"}) /\ Carries(inq'["BTS"], {"DM"})
  BY <1>1, <1>4, <1>5 DEF TimedInv, Hush
<1>7. Hush'
  BY <1>2, <1>3, <1>5, <1>6 DEF TimedInv, Hush, Carries
<1>8. Awaited'
  BY <1>2, <1>3 DEF TimedInv, Awaited
<1> QED
  BY <1>2, <1>7, <1>8 DEF TimedInv, Timed

(* Requests that leave the object and the air as they are: where the       *)
(* thread is does not matter unless it begins to establish the link.       *)
LEMMA AskEstablishTimed ==
  ASSUME Sapi = 0, OnePhoneThread, IInv, TimedInv,
         NEW w \in Writer, AskEstablish(w)
  PROVE  TimedInv'
<1> DEFINE c == [wr[w] EXCEPT !.pc = "est1"]
<1>1. /\ EntitiesSound /\ inq \in [Side -> Seq(Frame)] /\ wr \in [Writer -> Call]
      /\ w[1] \in Side
  BY WriterSide DEF IInv, TypeOK
<1>2. w[1] = "MS"
  BY <1>1, NoEstablishOnSap0 DEF AskEstablish, Ask, Side
<1>3. /\ ent["MS"].mState = "LinkReleased" /\ ent["MS"].rx
      /\ wr[w].pc = "idle" /\ wr' = [wr EXCEPT ![w] = c]
      /\ Commit("MS", ent["MS"], inq)
  BY <1>2 DEF AskEstablish, Step
<1>4. ent' = ent /\ inq' = inq
  BY <1>1, <1>2, <1>3, CommitSame
<1>5. c.pc = "est1"
  BY <1>1 DEF Call
<1> HIDE DEF c
<1>6. \A pcs : /\ Begins("MS", pcs)' <=> c.pc \in pcs
               /\ Begins("BTS", pcs)' => Begins("BTS", pcs)
  BY <1>1, <1>2, <1>3, BeginsAfter
<1>7. /\ ~Begins("MS", Pc \ {"idle", "est1"})' /\ ~Begins("MS", {"est2"})'
      /\ ~Begins("BTS", {"est1", "est2"})'
  BY <1>5, <1>6 DEF TimedInv, Hush
<1>8. Unheard
  BY <1>3 DEF Unheard
<1>9. /\ ent'["BTS"].mState \in {"LinkReleased", "AwaitingRelease"}
      /\ Carries(inq'["MS"], {"DM", "DISC"}) /\ Carries(inq'["BTS"], {"DM"})
  BY <1>4, <1>8 DEF TimedInv, Hush
<1>10. Hush'
  BY <1>3, <1>4, <1>7, <1>9 DEF Hush, Carries
<1>11. Awaited'
  <2>1. ~Begins("BTS", {"est2"})
    BY DEF TimedInv, Hush, Begins
  <2> QED
    BY <1>3, <1>4, <2>1 DEF TimedInv, Awaited, Side
<1> QED
  BY <1>4, <1>10, <1>11 DEF TimedInv, Timed

LEMMA PrepareEstablishTimed ==
  ASSUME Sapi = 0, OnePhoneThread, IInv, TimedInv,
         NEW w \in Writer, PrepareEstablish(w)
  PROVE  TimedInv'
<1> DEFINE c == [wr[w] EXCEPT !.pc = "est2"]
           x == ent["MS"]
           y == AwaitEstablish(x)
<1>1. /\ EntitiesSound /\ inq \in [Side -> Seq(Frame)] /\ wr \in [Writer -> Call]
      /\ w[1] \in Side /\ Side = {"BTS", "MS"} /\ Peer("MS") = "BTS"
      /\ Sound(x) /\ x \in Entity /\ x.out = Empty
  BY WriterSide DEF IInv, TypeOK, Side, Peer, EntitiesSound, Sound
<1>2. wr[w].pc = "est1" /\ wr' = [wr EXCEPT ![w] = c]
      /\ Commit(w[1], AwaitEstablish(ent[w[1]]), inq)
  BY DEF PrepareEstablish, Step
<1>3. w[1] = "MS"
  BY <1>1, <1>2 DEF TimedInv, Hush, Begins
<1>4. Kept(x, y)
  BY <1>1, AwaitEstablishKept
<1>5. y.mState = "AwaitingEstablish" /\ ~y.mT200 /\ y.out = Empty
  <2>1. ClearCounters(x) \in Entity /\ ~ClearCounters(x).mT200 /\ ClearCounters(x).out = Empty
    BY <1>1, Cleared
  <2> QED
    BY <2>1 DEF AwaitEstablish, Entity
<1>6. c.pc = "est2"
  BY <1>1 DEF Call
<1> HIDE DEF c, y
<1>7. Commit("MS", y, inq)
  BY <1>2, <1>3 DEF y
<1>8. Timed(y)
  BY <1>5 DEF Timed, Multiframe
<1>9. /\ ent'["MS"].mState = "AwaitingEstablish" /\ ~ent'["MS"].mT200
      /\ Timed(ent'["MS"]) /\ ent'["BTS"] = ent["BTS"]
      /\ inq'["MS"] = inq["MS"] /\ inq'["BTS"] \in {inq["BTS"], inq["BTS"] \o y.out}
  BY <1>1, <1>4, <1>5, <1>7, <1>8, CommitEffect
<1>10. inq'["BTS"] = inq["BTS"]
  BY <1>1, <1>5, <1>9 DEF Empty
<1>11. \A pcs : /\ Begins("MS", pcs)' <=> c.pc \in pcs
                /\ Begins("BTS", pcs)' => Begins("BTS", pcs)
  BY <1>1, <1>2, <1>3, BeginsAfter
<1>12. /\ ~Begins("MS", {"est1"})' /\ Begins("MS", {"est2"})'
       /\ ~Begins("BTS", {"est1", "est2"})'
  BY <1>6, <1>11 DEF TimedInv, Hush
<1>13. Unheard
  BY <1>2, <1>3 DEF Unheard, Begins
<1>14. /\ ent'["BTS"].mState \in {"LinkReleased", "AwaitingRelease"}
       /\ Carries(inq'["MS"], {"DM", "DISC"}) /\ Carries(inq'["BTS"], {"DM"})
  BY <1>9, <1>10, <1>13 DEF TimedInv, Hush
<1>15. Hush'
  BY <1>9, <1>12, <1>14 DEF Hush, Carries
<1>16. Awaited'
  <2>1. ~Begins("BTS", {"est2"})
    BY DEF TimedInv, Hush, Begins
  <2> QED
    BY <1>1, <1>9, <1>12, <2>1 DEF TimedInv, Awaited
<1>17. \A e \in Side : Timed(ent'[e])
  BY <1>1, <1>9 DEF TimedInv
<1> QED
  BY <1>15, <1>16, <1>17 DEF TimedInv, Timed

LEMMA SendEstablishTimed ==
  ASSUME Sapi = 0, OnePhoneThread, IInv, TimedInv,
         NEW w \in Writer, SendEstablish(w)
  PROVE  TimedInv'
<1> DEFINE c == [wr[w] EXCEPT !.pc = "idle"]
           x == ent["MS"]
<1>1. /\ wr \in [Writer -> Call] /\ w[1] \in Side /\ Side = {"BTS", "MS"}
      /\ Sound(x) /\ x \in Entity /\ wr[w].pc = "est2"
  BY WriterSide DEF IInv, TypeOK, Side, EntitiesSound, Sound, SendEstablish, Step
<1>2. w[1] = "MS"
  BY <1>1 DEF TimedInv, Hush, Begins
<1>3. PICK p \in SabmPayload["MS"] :
        wr' = [wr EXCEPT ![w] = c] /\ Commit("MS", SendSABM(x, p), inq)
  BY <1>2 DEF SendEstablish, Step
<1>4. p \in Seq(Segment)
  BY <1>1, LinkAssumption
<1> DEFINE y == SendSABM(x, p)
<1>5. Kept(x, y)
  BY <1>1, <1>4, SendSABMKept
<1>6. x.mState \in {"LinkReleased", "AwaitingEstablish"}
      /\ ~(x.mState = "LinkReleased" /\ x.rx)
  <2>1. Begins("MS", {"est2"}) /\ Begins("MS", Pc \ {"idle", "est1"})
    BY <1>1, <1>2 DEF Begins, Pc
  <2> QED
    BY <2>1 DEF TimedInv, Hush
<1>7. /\ y.mState = x.mState /\ y.mT200 /\ y.mSentFrame.t = "SABM" /\ y.rx = x.rx
  BY <1>1 DEF SendSABM, WriteL1Ack, WriteL1, Unnumbered, Entity
<1>8. c.pc = "idle"
  BY <1>1 DEF Call
<1> HIDE DEF c, y
<1>9. Timed(y)
  BY <1>6, <1>7 DEF Timed, Multiframe
<1>10. Commit("MS", y, inq)
  BY <1>3 DEF y
<1> QED
  BY <1>2, <1>3, <1>5, <1>6, <1>7, <1>8, <1>9, <1>10, PhoneStep

(* What the requests to release do to the object. *)
LEMMA AwaitReleaseWaits ==
  ASSUME NEW x \in Entity, x.out = Empty
  PROVE  LET y == AwaitRelease(x) IN
         /\ y.mState = "AwaitingRelease" /\ Timed(y)
         /\ Carries(y.out, {"DM", "DISC"})
<1> DEFINE z == ClearCounters(x)
           r == [z EXCEPT !.mEstablishmentInProgress = FALSE,
                          !.mState = "AwaitingRelease"]
           f == Unnumbered("DISC", Empty)
           y == AwaitRelease(x)
<1>1. z \in Entity /\ z.out = Empty
  BY Cleared
<1> HIDE DEF z
<1>2. r \in Entity /\ r.out = Empty /\ r.mState = "AwaitingRelease"
  BY <1>1 DEF Entity, States
<1>3. f \in Frame /\ f.t = "DISC"
  BY UnnumberedType, EmptyType DEF Unnumbered
<1>4. y = WriteL1Ack(r, f)
  BY DEF AwaitRelease, SendDISC, z
<1> HIDE DEF r, f, y
<1>5. Append(r.out, f) = <<f>>
  BY <1>2 DEF Empty
<1>6. y.mState = "AwaitingRelease" /\ y.mT200 /\ y.mSentFrame = f /\ y.out = <<f>>
  BY <1>2, <1>4, <1>5 DEF WriteL1Ack, WriteL1, Entity
<1>7. Timed(y)
  BY <1>3, <1>6 DEF Timed, Multiframe
<1>8. Carries(y.out, {"DM", "DISC"})
  BY <1>3, <1>6, CarriesFew
<1> QED
  BY <1>6, <1>7, <1>8 DEF y

LEMMA ReleasesTimed ==
  ASSUME Sapi = 0, OnePhoneThread, IInv, TimedInv, NEW w \in Writer,
         \/ AskRelease(w) \/ StartRelease(w) \/ ResumeRelease(w)
         \/ FinishRelease(w) \/ HardRelease(w)
  PROVE  TimedInv'
<1> DEFINE x == ent[w[1]]
<1>1. /\ wr \in [Writer -> Call] /\ w[1] \in Side /\ Side = {"BTS", "MS"}
      /\ Sound(x) /\ x \in Entity /\ x.out = Empty /\ x.mSAPI = 0 /\ Timed(x)
  BY WriterSide DEF IInv, TypeOK, Side, EntitiesSound, Sound, TimedInv
<1>2. PICK from \in {"idle", "rel0", "rel1", "rel2"},
           to \in {"idle", "rel0", "rel1", "rel2"},
           y \in {x, AwaitRelease(x), ClearState(x, "HARDRELEASE")} :
        /\ Step(w, from, to, y)
        /\ x.mState = "LinkReleased" /\ from = "idle" =>
             y = ClearState(x, "HARDRELEASE")
  <2>1. CASE AskRelease(w)
    BY <2>1 DEF AskRelease
  <2>2. CASE StartRelease(w)
    BY <2>2 DEF StartRelease
  <2>3. CASE ResumeRelease(w)
    BY <2>3 DEF ResumeRelease
  <2>4. CASE FinishRelease(w)
    BY <2>4 DEF FinishRelease
  <2>5. CASE HardRelease(w)
    BY <2>5 DEF HardRelease
  <2> QED
    BY <2>1, <2>2, <2>3, <2>4, <2>5
<1> DEFINE c == [wr[w] EXCEPT !.pc = to]
<1>3. c.pc = to
  BY <1>1 DEF Call
<1>4. wr' = [wr EXCEPT ![w] = c] /\ Commit(w[1], y, inq) /\ wr[w].pc = from
  BY <1>2 DEF Step
<1> HIDE DEF c
<1>5. /\ AwaitRelease(x).mState = "AwaitingRelease" /\ Timed(AwaitRelease(x))
      /\ Carries(AwaitRelease(x).out, {"DM", "DISC"})
  BY <1>1, AwaitReleaseWaits
<1>6. /\ ClearState(x, "HARDRELEASE").mState = "LinkReleased"
      /\ ~ClearState(x, "HARDRELEASE").rx
      /\ ClearState(x, "HARDRELEASE").out = Empty
  BY <1>1, Released
<1>7. Kept(x, y) /\ Timed(y)
  BY <1>1, <1>2, <1>5, <1>6, AwaitReleaseKept, ClearStateKept
     DEF Kept, Primitive, Timed, Multiframe
<1>8. Carries(Empty, {"DM", "DISC"})
  BY CarriesFew
<1>9. y.mState = "AwaitingEstablish" => y.mT200 /\ y.mSentFrame.t = "SABM"
  <2>1. x.mState = "AwaitingEstablish" =>
          (x.mT200 /\ x.mSentFrame.t = "SABM") \/ Begins(w[1], {"est2"})
    BY <1>1 DEF TimedInv, Awaited
  <2>2. ~Begins(w[1], {"est2"})
    <3>1. w[1] = "BTS" => ~Begins(w[1], {"est2"})
      BY DEF TimedInv, Hush, Begins
    <3>2. w[1] = "MS" => ~Begins(w[1], {"est2"})
      BY <1>2, <1>4 DEF OnePhoneThread, Begins
    <3> QED
      BY <1>1, <3>1, <3>2
  <2> QED
    BY <1>2, <1>5, <1>6, <2>1, <2>2
<1>10. CASE w[1] = "MS"
  <2>1. ~(y.mState = "LinkReleased" /\ y.rx)
    <3>1. wr[w].pc \in {"rel0", "rel1", "rel2"} => Begins("MS", Pc \ {"idle", "est1"})
      BY <1>10 DEF Begins, Pc
    <3>2. wr[w].pc \in {"rel0", "rel1", "rel2"} => ~(x.mState = "LinkReleased" /\ x.rx)
      BY <1>10, <3>1 DEF TimedInv, Hush
    <3> QED
      BY <1>2, <1>4, <1>5, <1>6, <3>2
  <2> QED
    BY <1>2, <1>3, <1>4, <1>7, <1>9, <1>10, <2>1, PhoneStep
<1>11. CASE w[1] = "BTS"
  <2>1. ent["BTS"].mState \in {"LinkReleased", "AwaitingRelease"} =>
           /\ y.mState \in {"LinkReleased", "AwaitingRelease"}
           /\ Carries(y.out, {"DM", "DISC"})
    BY <1>1, <1>2, <1>5, <1>6, <1>8, <1>11
  <2> QED
    BY <1>2, <1>3, <1>4, <1>7, <1>9, <1>11, <2>1, NetworkStep
<1> QED
  BY <1>1, <1>10, <1>11

(* One turn of sendMultiframeData's loop. *)
LEMMA SendIFrameWaits ==
  ASSUME NEW x, Sound(x), x.mState \in Multiframe, NEW s \in Segment
  PROVE  /\ SendIFrame(x, s).mState = x.mState
         /\ Timed(SendIFrame(x, s))
BY DEF SendIFrame, WriteL1Ack, WriteL1, Timed, Multiframe, Sound, Entity

LEMMA SendSegmentsWaits ==
  ASSUME NEW w \in Writer, NEW x, Sound(x), Timed(x), x.out = Empty,
         NEW left \in Seq(Segment), left # Empty, SendSegments(w, x, left)
  PROVE  \E y, c : /\ Kept(x, y) /\ Timed(y) /\ y.mState = x.mState
                   /\ y.mState \in Multiframe \/ y = x
                   /\ Commit(w[1], y, inq)
                   /\ wr' = [wr EXCEPT ![w] = c] /\ c.pc \in {"idle", "data"}
<1> DEFINE y == SendIFrame(x, left[1])
           c(l) == IF l = Empty THEN Idle ELSE [pc |-> "data", msg |-> l]
<1>1. left[1] \in Segment
  BY DEF Empty
<1>2. Kept(x, x)
  BY DEF Kept
<1>3. Kept(x, y)
  BY <1>1, SendIFrameKept
<1>4. x.mState \in Multiframe => Timed(y) /\ y.mState = x.mState
  BY <1>1, SendIFrameWaits
<1>5. \A l : c(l).pc \in {"idle", "data"}
  BY DEF Idle
<1>6. \/ \E l : Commit(w[1], x, inq) /\ wr' = [wr EXCEPT ![w] = c(l)]
      \/ /\ x.mState \in Multiframe
         /\ \E l : Commit(w[1], y, inq) /\ wr' = [wr EXCEPT ![w] = c(l)]
  BY DEF SendSegments
<1> HIDE DEF y, c
<1>7. CASE \E l : Commit(w[1], x, inq) /\ wr' = [wr EXCEPT ![w] = c(l)]
  BY <1>2, <1>5, <1>7
<1>8. CASE /\ x.mState \in Multiframe
           /\ \E l : Commit(w[1], y, inq) /\ wr' = [wr EXCEPT ![w] = c(l)]
  BY <1>3, <1>4, <1>5, <1>8
<1> QED
  BY <1>6, <1>7, <1>8

(* The threads that send.  z is the object the loop begins with. *)
LEMMA SendingTimed ==
  ASSUME Sapi = 0, OnePhoneThread, IInv, TimedInv, NEW w \in Writer,
         wr[w].pc \in {"idle", "data"},
         NEW z, Kept(ent[w[1]], z), Timed(z), z.out = Empty,
         z.mState = ent[w[1]].mState, z.rx = ent[w[1]].rx,
         z.mT200 = ent[w[1]].mT200, z.mSentFrame = ent[w[1]].mSentFrame,
         wr[w].pc = "idle" => z.mState # "LinkReleased",
         NEW left \in Seq(Segment), left # Empty, SendSegments(w, z, left)
  PROVE  TimedInv'
<1> DEFINE x == ent[w[1]]
<1>1. /\ w[1] \in Side /\ Side = {"BTS", "MS"} /\ Sound(z)
      /\ EntitiesSound /\ "MS" \in Side /\ "BTS" \in Side
  BY WriterSide DEF Side, Kept, IInv
<1>2. PICK y, c : /\ Kept(z, y) /\ Timed(y) /\ y.mState = z.mState
                  /\ y.mState \in Multiframe \/ y = z
                  /\ Commit(w[1], y, inq)
                  /\ wr' = [wr EXCEPT ![w] = c] /\ c.pc \in {"idle", "data"}
  BY <1>1, SendSegmentsWaits
<1>3. Kept(x, y)
  BY <1>2 DEF Kept
<1>4. y.mState = "AwaitingEstablish" => y.mT200 /\ y.mSentFrame.t = "SABM"
  <2>1. ~Begins(w[1], {"est2"})
    <3>1. w[1] = "BTS" => ~Begins(w[1], {"est2"})
      BY DEF TimedInv, Hush, Begins
    <3>2. w[1] = "MS" => ~Begins(w[1], {"est2"})
      BY DEF OnePhoneThread, Begins
    <3> QED
      BY <1>1, <3>1, <3>2
  <2>2. y.mState = "AwaitingEstablish" => y = z /\ x.mState = "AwaitingEstablish"
    BY <1>2 DEF Multiframe
  <2> QED
    BY <1>1, <2>1, <2>2 DEF TimedInv, Awaited
<1>5. CASE w[1] = "MS"
  <2>1. ~(y.mState = "LinkReleased" /\ y.rx)
    <3>1. y.mState = "LinkReleased" => y = z
      BY <1>2 DEF Multiframe
    <3>2. CASE wr[w].pc = "idle"
      BY <1>2, <3>2
    <3>3. CASE wr[w].pc = "data"
      <4>1. Begins("MS", Pc \ {"idle", "est1"})
        BY <1>5, <3>3 DEF Begins, Pc
      <4>2. ~(x.mState = "LinkReleased" /\ x.rx)
        BY <1>5, <4>1 DEF TimedInv, Hush
      <4> QED
        BY <3>1, <4>2
    <3> QED
      BY <3>2, <3>3
  <2>2. Kept(ent["MS"], y) /\ Commit("MS", y, inq)
    BY <1>2, <1>3, <1>5
  <2> QED
    BY <1>2, <1>4, <1>5, <2>1, <2>2, PhoneStep
<1>6. CASE w[1] = "BTS"
  <2>1. ent["BTS"].mState \in {"LinkReleased", "AwaitingRelease"} =>
           /\ y.mState \in {"LinkReleased", "AwaitingRelease"}
           /\ Carries(y.out, {"DM", "DISC"})
    <3>1. ent["BTS"].mState \in {"LinkReleased", "AwaitingRelease"} =>
            y.mState \in {"LinkReleased", "AwaitingRelease"} /\ y.out = Empty
      BY <1>2, <1>6 DEF Multiframe
    <3> QED
      BY <3>1, CarriesFew
  <2>2. Kept(ent["BTS"], y) /\ Commit("BTS", y, inq)
    BY <1>2, <1>3, <1>6
  <2> QED
    BY <1>2, <1>4, <1>6, <2>1, <2>2, NetworkStep
<1> QED
  BY <1>1, <1>5, <1>6

LEMMA ContinueDataTimed ==
  ASSUME Sapi = 0, OnePhoneThread, IInv, TimedInv,
         NEW w \in Writer, ContinueData(w)
  PROVE  TimedInv'
<1> DEFINE x == ent[w[1]]
<1>1. /\ w[1] \in Side /\ Sound(x) /\ x.out = Empty /\ Timed(x) /\ Kept(x, x)
      /\ wr[w].msg \in Seq(Segment) /\ wr[w].msg # Empty /\ wr[w].pc = "data"
  BY WriterSide DEF ContinueData, IInv, SegmentsLeft, TypeOK, Call,
                    EntitiesSound, TimedInv, Kept
<1>2. SendSegments(w, x, wr[w].msg)
  BY DEF ContinueData
<1> HIDE DEF x
<1> QED
  BY <1>1, <1>2, SendingTimed DEF x

LEMMA DataTimed ==
  ASSUME Sapi = 0, OnePhoneThread, IInv, TimedInv,
         NEW w \in Writer, NEW n \in 1 .. MaxSeg, Data(w, n)
  PROVE  TimedInv'
<1> DEFINE e == w[1]
           x == ent[e]
           m == Len(acc[e]) + 1
           z == [x EXCEPT !.mDiscardIQueue = FALSE]
<1>1. /\ e \in Side /\ Sound(x) /\ x \in Entity /\ x.out = Empty
      /\ x.mSAPI = 0 /\ Timed(x) /\ acc \in [Side -> Seq(Seq(Segment))]
      /\ Side = {"BTS", "MS"} /\ wr \in [Writer -> Call]
  BY WriterSide DEF IInv, TypeOK, EntitiesSound, TimedInv, Sound, Side
<1>2. Segments(m, n) \in Seq(Segment) /\ Segments(m, n) # Empty
  <2>1. Len(acc[e]) \in Nat /\ Len(acc[e]) < MaxMsg
    BY <1>1 DEF Data
  <2>2. MaxMsg \in Nat /\ MaxSeg \in Nat /\ 0 .. MaxMsg \subseteq Msg
    BY LinkAssumption
  <2>3. m \in Msg /\ n \in Nat \ {0}
    BY <2>1, <2>2
  <2> HIDE DEF m
  <2> QED
    BY <2>3, SegmentsType
<1>3. /\ wr[w] = Idle /\ x.mState # "AwaitingEstablish"
      /\ e = "MS" => x.up = "ESTABLISH"
      /\ IF x.mState = "LinkReleased"
         THEN Commit(e, AbnormalRelease(x), inq) /\ UNCHANGED wr
         ELSE SendSegments(w, z, Segments(m, n))
  BY DEF Data
<1>4. wr[w].pc = "idle"
  BY <1>3 DEF Idle
<1>5. CASE x.mState = "LinkReleased"
  <2> DEFINE y == AbnormalRelease(x)
             c == Idle
  <2>1. e = "BTS"
    BY <1>1, <1>3, <1>5 DEF Sound
  <2>2. Kept(x, y)
    BY <1>1, AbnormalReleaseKept
  <2>3. /\ y.mState = "LinkReleased" /\ ~y.rx /\ ~y.mT200
        /\ y.out = Append(x.out, Unnumbered("DM", Empty))
    BY <1>1, ReleasedAbnormally
  <2>4. Carries(y.out, {"DM", "DISC"})
    <3>1. Unnumbered("DM", Empty) \in Frame /\ Unnumbered("DM", Empty).t = "DM"
      BY UnnumberedType, EmptyType DEF Unnumbered
    <3> DEFINE g == Unnumbered("DM", Empty)
    <3> HIDE DEF g
    <3>2. Append(x.out, g) = <<g>>
      BY <1>1 DEF Empty
    <3> QED
      BY <2>3, <3>1, <3>2, CarriesFew DEF g
  <2> HIDE DEF y
  <2>5. Timed(y) /\ y.mState # "AwaitingEstablish"
    BY <2>3 DEF Timed, Multiframe
  <2>6. Commit("BTS", y, inq) /\ Kept(ent["BTS"], y)
    BY <1>3, <1>5, <2>1, <2>2 DEF y
  <2>7. wr' = [wr EXCEPT ![w] = Idle]
    BY <1>1, <1>3, <1>5
  <2>8. Idle.pc \notin {"est1", "est2"}
    BY DEF Idle
  <2> QED
    BY <2>1, <2>3, <2>4, <2>5, <2>6, <2>7, <2>8, NetworkStep
<1>6. CASE x.mState # "LinkReleased"
  <2>1. /\ Kept(x, z) /\ Timed(z) /\ z.out = Empty /\ z.mState = x.mState
        /\ z.rx = x.rx /\ z.mT200 = x.mT200 /\ z.mSentFrame = x.mSentFrame
    BY <1>1 DEF Kept, Sound, Entity, Timed
  <2>2. SendSegments(w, z, Segments(m, n))
    BY <1>3, <1>6
  <2> HIDE DEF z, m
  <2>3. wr[w].pc \in {"idle", "data"} /\ (wr[w].pc = "idle" => z.mState # "LinkReleased")
    BY <1>4, <1>6, <2>1
  <2> QED
    BY <1>2, <2>1, <2>2, <2>3, SendingTimed
<1> QED
  BY <1>5, <1>6

LEMMA OpenChannelTimed ==
  ASSUME Sapi = 0, IInv, TimedInv, OpenChannel
  PROVE  TimedInv'
<1> DEFINE o == Open(ent["BTS"])
           b == [o EXCEPT !.dlv = Empty]
           p == InitEntity(Sapi)
<1>1. /\ ent["BTS"] \in Entity /\ ent \in [Side -> Entity]
      /\ Side = {"BTS", "MS"} /\ wr \in [Writer -> Call]
  BY DEF IInv, EntitiesSound, Side, TypeOK
<1>2. b.mState = "LinkReleased"
  <2>1. ClearCounters(ent["BTS"]) \in Entity
    BY <1>1, Cleared
  <2> QED
    BY <2>1 DEF Open, Entity
<1>3. p.mState = "LinkReleased" /\ p.rx /\ ~p.mT200
  BY DEF InitEntity
<1>4. ent' = [ent EXCEPT !["BTS"] = b, !["MS"] = p]
  BY DEF OpenChannel
<1> HIDE DEF b, p
<1>5. ent'["BTS"] = b /\ ent'["MS"] = p
  BY <1>1, <1>4
<1>6. inq' = [e \in Side |-> Empty]
      /\ wr' = [w \in Writer |-> IF w[1] = "MS" THEN Idle ELSE wr[w]]
  BY DEF OpenChannel
<1>7. /\ ~Begins("MS", Pc \ {"idle", "est1"})' /\ ~Begins("MS", {"est1"})'
      /\ ~Begins("MS", {"est2"})' /\ ~Begins("BTS", {"est1", "est2"})'
  BY <1>6 DEF Begins, Idle, TimedInv, Hush
<1>8. Carries(inq'["MS"], {"DM", "DISC"}) /\ Carries(inq'["BTS"], {"DM"})
  BY <1>1, <1>6, CarriesFew
<1>9. Hush'
  BY <1>2, <1>3, <1>5, <1>7, <1>8 DEF Hush, Carries
<1>10. Awaited'
  BY <1>1, <1>2, <1>3, <1>5 DEF Awaited
<1>11. \A e \in Side : Timed(ent'[e])
  BY <1>1, <1>2, <1>3, <1>5 DEF Timed, Multiframe
<1> QED
  BY <1>9, <1>10, <1>11 DEF TimedInv, Timed

LEMMA InitTimed == Init => TimedInv
<1> SUFFICES ASSUME Init PROVE TimedInv
  OBVIOUS
<1>1. \A e \in Side : ent[e].mState = "LinkReleased"
  BY DEF Init, InitEntity
<1>2. \A e, pcs : "idle" \notin pcs => ~Begins(e, pcs)
  BY DEF Init, Idle, Begins
<1>3. Hush
  BY <1>1, <1>2, CarriesFew DEF Hush, Init, Side
<1> QED
  BY <1>1, <1>3 DEF TimedInv, Timed, Multiframe, Awaited

LEMMA NextTimed ==
  ASSUME Sapi = 0, OnePhoneThread, IInv, TimedInv, [Next]_vars
  PROVE  TimedInv'
<1>1. ASSUME NEW e \in Side,
             \/ Receive(e) \/ T200Expires(e) \/ IdleTurn(e)
             \/ MasterReleases(e) \/ Lose(e)
      PROVE  TimedInv'
  <2>1. ~IdleTurn(e) /\ ~MasterReleases(e)
    BY FollowMasterKept DEF IdleTurn, MasterReleases, IInv, EntitiesSound
  <2> QED
    BY <1>1, <2>1, ReceiveTimed, T200ExpiresTimed, LoseTimed
<1>2. ASSUME NEW w \in Writer,
             AskEstablish(w) \/ AskRelease(w) \/ HardRelease(w)
      PROVE  TimedInv'
  BY <1>2, AskEstablishTimed, ReleasesTimed
<1>3. ASSUME NEW w \in Writer, NEW n \in 1 .. MaxSeg, Data(w, n)
      PROVE  TimedInv'
  BY <1>3, DataTimed
<1>4. ASSUME NEW w \in Writer, Thread(w)
      PROVE  TimedInv'
  BY <1>4, PrepareEstablishTimed, SendEstablishTimed, ReleasesTimed,
     ContinueDataTimed DEF Thread
<1>5. CASE OpenChannel
  BY <1>5, OpenChannelTimed
<1>6. CASE UNCHANGED vars
  BY <1>6 DEF vars, TimedInv, Timed, Hush, Awaited, Unheard, Begins, Carries
<1> QED
  BY <1>1, <1>2, <1>3, <1>4, <1>5, <1>6 DEF Next

(* On SAP 0 every state that waits for the peer is left in time, however    *)
(* the threads of the network, the timers, the peer's frames and the reuse  *)
(* of the channel interleave.                                              *)
THEOREM WaitingEndsInTime ==
  ASSUME Sapi = 0, OnePhoneThread
  PROVE  Spec => []WaitingIsTimed
<1>1. Init => IInv /\ TimedInv
  BY InitIInv, InitTimed
<1>2. IInv /\ TimedInv /\ [Next]_vars => IInv' /\ TimedInv'
  BY NextIInv, NextTimed
<1>3. TimedInv => WaitingIsTimed
  BY DEF TimedInv, Timed, Awaited, Begins, WaitingIsTimed
<1> QED
  BY <1>1, <1>2, <1>3, PTL DEF Spec

(* On SAP 0 T200 repeats, on an established link, the last I-frame and no   *)
(* frame of the establishment or of a release.                             *)
THEOREM RepeatsTheLastFrame ==
  ASSUME Sapi = 0, OnePhoneThread
  PROVE  Spec => []SentFrameIsUnacked
<1>1. Init => IInv /\ TimedInv
  BY InitIInv, InitTimed
<1>2. IInv /\ TimedInv /\ [Next]_vars => IInv' /\ TimedInv'
  BY NextIInv, NextTimed
<1>3. TimedInv => SentFrameIsUnacked
  BY DEF TimedInv, Timed, SentFrameIsUnacked
<1> QED
  BY <1>1, <1>2, <1>3, PTL DEF Spec

=============================================================================
