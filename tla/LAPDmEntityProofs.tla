-------------------------- MODULE LAPDmEntityProofs --------------------------
(***************************************************************************)
(* What the handlers of one L2LAPDm object preserve, for every modulus,    *)
(* retransmission limit and set of messages: one lemma for each operator   *)
(* of LAPDmEntity, cited by the proofs about the modules that use it.      *)
(***************************************************************************)
EXTENDS LAPDmEntity, TLAPS

(* What holds of one L2LAPDm object whenever its mutex is free. *)
Sound(x) ==
  /\ x \in Entity
  /\ x.mState \in Multiframe => x.up = "ESTABLISH"
  /\ x.mState = "LinkReleased" /\ (x.mSAPI = 0 \/ x.rx) => x.up # "ESTABLISH"
  /\ x.mEstablishmentInProgress =>
       x.mVR = 0 /\ x.mVA = 0 /\ x.mRecvBuffer = Empty
  /\ x.mRC <= N200 + 1

(* A handler leaves a sound object sound, on its own SAP. *)
Kept(x, y) == Sound(y) /\ y.mSAPI = x.mSAPI

-----------------------------------------------------------------------------
(* Sequences and numbers *)

LEMMA EmptyType == \A S : Empty \in Seq(S)
BY DEF Empty

LEMMA AppendType ==
  ASSUME NEW S, NEW s \in Seq(S), NEW m \in S
  PROVE  Append(s, m) \in Seq(S)
OBVIOUS

LEMMA ConcatType ==
  ASSUME NEW S, NEW s \in Seq(S), NEW r \in Seq(S)
  PROVE  s \o r \in Seq(S)
OBVIOUS

LEMMA SeqNoType == 0 \in SeqNo /\ \A n \in SeqNo : Next1(n) \in SeqNo
BY ModulusAssumption DEF SeqNo, Next1

LEMMA UnnumberedType ==
  ASSUME NEW t \in {"SABM", "DISC", "UA", "DM"}, NEW info \in Seq(Segment)
  PROVE  Unnumbered(t, info) \in Frame
BY SeqNoType DEF Unnumbered, Frame

-----------------------------------------------------------------------------
(* Output *)

LEMMA WriteL1Kept ==
  ASSUME NEW x, Sound(x), NEW f \in Frame
  PROVE  Kept(x, WriteL1(x, f))
<1>1. x \in Entity /\ x.out \in Seq(Frame)
  BY DEF Sound, Entity
<1>2. Append(x.out, f) \in Seq(Frame)
  BY <1>1, AppendType
<1>3. WriteL1(x, f) \in Entity
  BY <1>1, <1>2 DEF WriteL1, Entity
<1> QED
  BY <1>1, <1>3 DEF Kept, Sound, WriteL1, Entity

LEMMA WriteL1AckKept ==
  ASSUME NEW x, Sound(x), NEW f \in Frame
  PROVE  Kept(x, WriteL1Ack(x, f))
<1> DEFINE y == WriteL1(x, f)
<1>1. Kept(x, y)
  BY WriteL1Kept
<1> HIDE DEF y
<1>2. Kept(y, [y EXCEPT !.mSentFrame = f, !.mT200 = TRUE])
  BY <1>1 DEF Kept, Sound, Entity
<1> QED
  BY <1>1, <1>2 DEF WriteL1Ack, Kept, y

LEMMA SendUAKept ==
  ASSUME NEW x, Sound(x), NEW info \in Seq(Segment)
  PROVE  Kept(x, SendUA(x, info))
BY WriteL1Kept, UnnumberedType DEF SendUA

LEMMA SendDMKept ==
  ASSUME NEW x, Sound(x)
  PROVE  Kept(x, SendDM(x))
BY WriteL1Kept, UnnumberedType, EmptyType DEF SendDM

LEMMA SendSABMKept ==
  ASSUME NEW x, Sound(x), NEW info \in Seq(Segment)
  PROVE  Kept(x, SendSABM(x, info))
BY WriteL1AckKept, UnnumberedType DEF SendSABM

LEMMA SendDISCKept ==
  ASSUME NEW x, Sound(x)
  PROVE  Kept(x, SendDISC(x))
BY WriteL1AckKept, UnnumberedType, EmptyType DEF SendDISC

LEMMA SupervisoryKept ==
  ASSUME NEW x, Sound(x)
  PROVE  Kept(x, SendRR(x)) /\ Kept(x, SendREJ(x))
<1>1. x.mVR \in SeqNo
  BY DEF Sound, Entity
<1>2. \A t \in {"RR", "REJ"} :
        [t |-> t, ns |-> 0, nr |-> x.mVR, info |-> Empty] \in Frame
  BY <1>1, SeqNoType, EmptyType DEF Frame
<1> QED
  BY <1>2, WriteL1Kept DEF SendRR, SendREJ

LEMMA SendIFrameKept ==
  ASSUME NEW x, Sound(x), NEW s \in Segment
  PROVE  Kept(x, SendIFrame(x, s))
<1> DEFINE y == [x EXCEPT !.mVS = Next1(@)]
           f == [t |-> "I", ns |-> x.mVS, nr |-> x.mVR, info |-> <<s>>]
<1>1. x.mVS \in SeqNo /\ x.mVR \in SeqNo /\ Next1(x.mVS) \in SeqNo
  BY SeqNoType DEF Sound, Entity
<1>2. Kept(x, y)
  BY <1>1 DEF Kept, Sound, Entity
<1>3. <<s>> \in Seq(Segment)
  OBVIOUS
<1>4. f \in Frame
  <2> DEFINE i == <<s>>
  <2>1. i \in Seq(Segment)
    BY <1>3
  <2> HIDE DEF i
  <2>2. [t |-> "I", ns |-> x.mVS, nr |-> x.mVR, info |-> i] \in Frame
    BY <1>1, <2>1 DEF Frame
  <2> QED
    BY <2>2 DEF i
<1> HIDE DEF y, f
<1>5. Kept(y, WriteL1Ack(y, f))
  BY <1>2, <1>4, WriteL1AckKept DEF Kept
<1> QED
  BY <1>2, <1>5 DEF SendIFrame, Kept, y, f

-----------------------------------------------------------------------------
(* Release, acknowledgement and retransmission *)

LEMMA ClearCountersKept ==
  ASSUME NEW x, Sound(x)
  PROVE  Kept(x, ClearCounters(x))
<1> DEFINE y == ClearCounters(x)
<1>1. x \in Entity
  BY DEF Sound
<1>2. y \in Entity
  BY <1>1, SeqNoType, EmptyType DEF ClearCounters, Entity
<1>3. /\ y.mState = x.mState /\ y.up = x.up /\ y.mSAPI = x.mSAPI /\ y.rx = x.rx
      /\ y.mVR = 0 /\ y.mVA = 0 /\ y.mRecvBuffer = Empty /\ y.mRC = 0
  BY <1>1 DEF ClearCounters, Entity
<1>4. 0 <= N200 + 1
  BY N200Assumption
<1> HIDE DEF y
<1>5. Kept(x, y)
  BY <1>2, <1>3, <1>4 DEF Kept, Sound
<1> QED
  BY <1>5 DEF y

LEMMA ReleaseLinkKept ==
  ASSUME NEW x, Sound(x), NEW p \in Primitive, p # "ESTABLISH"
  PROVE  Kept(x, ReleaseLink(x, p))
BY DEF Kept, Sound, ReleaseLink, Entity, Multiframe, States

(* Clearing the state makes any object sound. *)
LEMMA ClearStateFromAny ==
  ASSUME NEW x \in Entity, NEW p \in Primitive, p # "ESTABLISH"
  PROVE  Kept(x, ClearState(x, p))
<1> DEFINE c == ClearCounters(x)
           y == ReleaseLink(c, p)
<1>1. c \in Entity /\ c.mSAPI = x.mSAPI /\ c.mRC = 0
  BY SeqNoType, EmptyType DEF ClearCounters, Entity
<1> HIDE DEF c
<1>2. /\ y \in Entity
      /\ y.mState = "LinkReleased" /\ y.up = p /\ y.mSAPI = c.mSAPI
      /\ ~y.mEstablishmentInProgress /\ y.mRC = c.mRC
  BY <1>1 DEF ReleaseLink, Entity, States
<1>3. 0 <= N200 + 1
  BY N200Assumption
<1> HIDE DEF y
<1>4. Kept(x, y)
  BY <1>1, <1>2, <1>3 DEF Kept, Sound, Multiframe
<1> QED
  BY <1>4 DEF ClearState, y, c

LEMMA ClearStateKept ==
  ASSUME NEW x, Sound(x), NEW p \in Primitive, p # "ESTABLISH"
  PROVE  Kept(x, ClearState(x, p))
BY ClearStateFromAny DEF Sound

(* The ERROR that precedes the release is told to an L3 that believes the   *)
(* link is up: the object is not sound until the link is released.          *)
LEMMA AbnormalReleaseKept ==
  ASSUME NEW x, Sound(x)
  PROVE  Kept(x, AbnormalRelease(x))
<1> DEFINE y == [x EXCEPT !.up = "ERROR"]
           f == Unnumbered("DM", Empty)
<1>1. f \in Frame
  BY UnnumberedType, EmptyType
<1> HIDE DEF f
<1>2. y \in Entity /\ y.out \in Seq(Frame) /\ y.mSAPI = x.mSAPI
  BY DEF Sound, Entity, Primitive
<1> HIDE DEF y
<1>3. Append(y.out, f) \in Seq(Frame)
  BY <1>1, <1>2, AppendType
<1> DEFINE z == WriteL1(y, f)
<1>4. z \in Entity /\ z.mSAPI = x.mSAPI
  BY <1>2, <1>3 DEF WriteL1, Entity
<1> HIDE DEF z
<1>5. Kept(z, ClearState(z, "RELEASE"))
  BY <1>4, ClearStateFromAny DEF Primitive
<1> QED
  BY <1>4, <1>5 DEF AbnormalRelease, SendDM, Kept, z, y, f

LEMMA ProcessAckKept ==
  ASSUME NEW x, Sound(x), ~x.mEstablishmentInProgress, NEW nr \in SeqNo
  PROVE  /\ Kept(x, ProcessAck(x, nr))
         /\ ~ProcessAck(x, nr).mEstablishmentInProgress
         /\ ProcessAck(x, nr).mState = x.mState
         /\ ProcessAck(x, nr).mVR = x.mVR
<1> DEFINE y == ProcessAck(x, nr)
<1>1. x \in Entity
  BY DEF Sound
<1>2. y \in Entity
  BY <1>1 DEF ProcessAck, Entity
<1>3. /\ y.mState = x.mState /\ y.up = x.up /\ y.mSAPI = x.mSAPI /\ y.rx = x.rx
      /\ y.mEstablishmentInProgress = x.mEstablishmentInProgress
      /\ y.mVR = x.mVR
      /\ y.mRC = 0 \/ y.mRC = x.mRC
  BY <1>1 DEF ProcessAck, Entity
<1>4. 0 <= N200 + 1
  BY N200Assumption
<1> HIDE DEF y
<1>5. Kept(x, y)
  BY <1>2, <1>3, <1>4 DEF Kept, Sound
<1> QED
  BY <1>3, <1>5 DEF y

LEMMA RetransmissionKept ==
  ASSUME NEW x, Sound(x), x.mRC <= N200
  PROVE  Kept(x, Retransmission(x))
<1> DEFINE y == [x EXCEPT !.mRC = @ + 1, !.mT200 = TRUE]
<1>1. Kept(x, y)
  <2>1. x \in Entity /\ x.mRC \in Nat
    BY DEF Sound, Entity
  <2>2. x.mRC + 1 \in Nat /\ x.mRC + 1 <= N200 + 1
    BY <2>1, N200Assumption
  <2> DEFINE n == x.mRC + 1
             z == [x EXCEPT !.mRC = n, !.mT200 = TRUE]
  <2> HIDE DEF n
  <2>3. Kept(x, z)
    BY <2>1, <2>2 DEF Kept, Sound, Entity, n
  <2> QED
    BY <2>3 DEF n
<1>2. x.mSentFrame \in Frame
  BY DEF Sound, Entity
<1> HIDE DEF y
<1>3. Kept(y, WriteL1(y, x.mSentFrame))
  BY <1>1, <1>2, WriteL1Kept DEF Kept
<1> QED
  BY <1>1, <1>3 DEF Retransmission, Kept, y

LEMMA T200ExpirationKept ==
  ASSUME NEW x, Sound(x)
  PROVE  Kept(x, T200Expiration(x))
<1> DEFINE y == [x EXCEPT !.mT200 = FALSE]
<1>1. Kept(x, y) /\ y.mRC = x.mRC
  BY DEF Kept, Sound, Entity
<1>2. x.mState \in States /\ x.mRC \in Nat
  BY DEF Sound, Entity
<1> HIDE DEF y
<1>3. Kept(y, ReleaseLink(y, "RELEASE"))
  BY <1>1, ReleaseLinkKept DEF Kept, Primitive
<1>4. Kept(y, AbnormalRelease(y))
  BY <1>1, AbnormalReleaseKept DEF Kept
<1>5. x.mRC <= N200 => Kept(y, Retransmission(y))
  BY <1>1, RetransmissionKept DEF Kept
<1>6. ~(x.mRC > N200) => x.mRC <= N200
  BY <1>2, N200Assumption
<1>7. T200Expiration(x) =
        CASE x.mState = "AwaitingRelease" -> ReleaseLink(y, "RELEASE")
          [] x.mState = "LinkReleased" -> y
          [] OTHER -> IF x.mRC > N200 THEN AbnormalRelease(y)
                                      ELSE Retransmission(y)
  BY DEF T200Expiration, y
<1> QED
  BY <1>1, <1>3, <1>4, <1>5, <1>6, <1>7 DEF Kept

-----------------------------------------------------------------------------
(* Frames *)

LEMMA SumOfType ==
  ASSUME NEW info \in Seq(Segment)
  PROVE  SumOf(info) \in Nat
<1>1. CASE info = Empty
  BY <1>1 DEF SumOf
<1>2. CASE info # Empty
  <2>1. info[1] \in Segment
    BY <1>2 DEF Empty
  <2>2. info[1].id \in Msg
    BY <2>1 DEF Segment
  <2> QED
    BY <1>2, <2>2, OnesAssumption DEF SumOf
<1> QED
  BY <1>1, <1>2

LEMMA SABMWhenReleasedKept ==
  ASSUME NEW x, Sound(x), NEW f \in Frame
  PROVE  Kept(x, SABMWhenReleased(x, f))
<1> DEFINE c == ClearCounters(x)
           y == [c EXCEPT !.mEstablishmentInProgress = TRUE,
                          !.up = "ESTABLISH"]
           u == [y EXCEPT !.mState = "LinkEstablished"]
           v == [y EXCEPT !.mState = "ContentionResolution",
                          !.mContentionCheck = SumOf(f.info),
                          !.dlv = Append(@, f.info)]
<1>1. f.info \in Seq(Segment) /\ SumOf(f.info) \in Nat
  BY SumOfType DEF Frame
<1>2. /\ Kept(x, c)
      /\ c.mVR = 0 /\ c.mVA = 0 /\ c.mRecvBuffer = Empty
  BY ClearCountersKept DEF ClearCounters, Sound, Entity
<1> HIDE DEF c
<1>3. /\ y \in Entity /\ y.mSAPI = x.mSAPI /\ y.up = "ESTABLISH"
      /\ y.mVR = 0 /\ y.mVA = 0 /\ y.mRecvBuffer = Empty
      /\ y.mRC <= N200 + 1 /\ y.dlv \in Seq(Seq(Segment))
  BY <1>2 DEF Kept, Sound, Entity, Primitive
<1> HIDE DEF y
<1>4. Append(y.dlv, f.info) \in Seq(Seq(Segment))
  BY <1>1, <1>3, AppendType
<1>5. Kept(x, u)
  BY <1>3 DEF Kept, Sound, Entity, States
<1>6. Kept(x, v)
  <2> DEFINE d == Append(y.dlv, f.info)
             n == SumOf(f.info)
             w == [y EXCEPT !.mState = "ContentionResolution",
                            !.mContentionCheck = n, !.dlv = d]
  <2>1. d \in Seq(Seq(Segment)) /\ n \in Nat
    BY <1>1, <1>4
  <2> HIDE DEF d, n
  <2>2. w \in Entity
    BY <1>3, <2>1 DEF Entity, States
  <2>3. Kept(x, w)
    BY <1>3, <2>2 DEF Kept, Sound, Entity
  <2> QED
    BY <2>3 DEF d, n
<1> HIDE DEF u, v
<1>7. Kept(u, SendUA(u, Empty)) /\ Kept(v, SendUA(v, f.info))
  BY <1>1, <1>5, <1>6, SendUAKept, EmptyType DEF Kept
<1>8. SABMWhenReleased(x, f) = IF f.info = Empty THEN SendUA(u, Empty)
                                                 ELSE SendUA(v, f.info)
  BY DEF SABMWhenReleased, u, v, y, c
<1> QED
  BY <1>5, <1>6, <1>7, <1>8 DEF Kept

LEMMA SABMWhenContendedKept ==
  ASSUME NEW x, Sound(x), x.mState = "ContentionResolution", NEW f \in Frame
  PROVE  Kept(x, SABMWhenContended(x, f))
<1> DEFINE y == [x EXCEPT !.mState = "LinkEstablished"]
<1>1. Kept(x, y)
  BY DEF Kept, Sound, Entity, States, Multiframe
<1>2. f.info \in Seq(Segment)
  BY DEF Frame
<1> HIDE DEF y
<1>3. Kept(y, SendUA(y, f.info))
  BY <1>1, <1>2, SendUAKept DEF Kept
<1> QED
  BY <1>1, <1>3 DEF SABMWhenContended, Kept, y

LEMMA SABMWhenEstablishedKept ==
  ASSUME NEW x, Sound(x), NEW f \in Frame
  PROVE  Kept(x, SABMWhenEstablished(x, f))
<1>1. f.info \in Seq(Segment)
  BY DEF Frame
<1>2. Kept(x, SendUA(x, f.info)) /\ Kept(x, SendUA(x, Empty))
  BY <1>1, SendUAKept, EmptyType
<1>3. Kept(x, ClearCounters(SendUA(x, Empty)))
  BY <1>2, ClearCountersKept DEF Kept
<1> QED
  BY <1>2, <1>3, AbnormalReleaseKept DEF SABMWhenEstablished

LEMMA ReceiveSABMKept ==
  ASSUME NEW x, Sound(x), NEW f \in Frame
  PROVE  Kept(x, ReceiveSABM(x, f))
<1>1. x.mState \in States
  BY DEF Sound, Entity
<1>2. Kept(x, SendUA(x, Empty)) /\ Kept(x, SendDM(x))
  BY SendUAKept, SendDMKept, EmptyType
<1>3. Kept(x, SABMWhenReleased(x, f)) /\ Kept(x, SABMWhenEstablished(x, f))
  BY SABMWhenReleasedKept, SABMWhenEstablishedKept
<1>4. x.mState = "ContentionResolution" => Kept(x, SABMWhenContended(x, f))
  BY SABMWhenContendedKept
<1> QED
  BY <1>1, <1>2, <1>3, <1>4 DEF ReceiveSABM, States

LEMMA ReceiveDISCKept ==
  ASSUME NEW x, Sound(x)
  PROVE  Kept(x, ReceiveDISC(x))
<1> DEFINE y == [x EXCEPT !.mEstablishmentInProgress = FALSE]
<1>1. Kept(x, y)
  BY DEF Kept, Sound, Entity
<1> HIDE DEF y
<1>2. Kept(y, SendUA(y, Empty)) /\ Kept(y, SendDM(y))
  BY <1>1, SendUAKept, SendDMKept, EmptyType DEF Kept
<1>3. /\ Kept(y, ClearState(y, "RELEASE"))
      /\ Kept(y, ClearState(SendDM(y), "RELEASE"))
      /\ Kept(y, ClearState(SendUA(y, Empty), "RELEASE"))
  BY <1>1, <1>2, ClearStateKept DEF Kept, Primitive
<1>4. \/ ReceiveDISC(x) = ClearState(y, "RELEASE")
      \/ ReceiveDISC(x) = ClearState(SendDM(y), "RELEASE")
      \/ ReceiveDISC(x) = SendUA(y, Empty)
      \/ ReceiveDISC(x) = ClearState(SendUA(y, Empty), "RELEASE")
  BY DEF ReceiveDISC, y
<1> QED
  BY <1>1, <1>2, <1>3, <1>4 DEF Kept

LEMMA ReceiveUAKept ==
  ASSUME NEW x, Sound(x)
  PROVE  Kept(x, ReceiveUA(x))
<1> DEFINE c == ClearCounters(x)
           y == [c EXCEPT !.mState = "LinkEstablished", !.up = "ESTABLISH"]
<1>1. /\ Kept(x, c)
      /\ c.mVR = 0 /\ c.mVA = 0 /\ c.mRecvBuffer = Empty
  BY ClearCountersKept DEF ClearCounters, Sound, Entity
<1> HIDE DEF c
<1>2. Kept(x, y)
  BY <1>1 DEF Kept, Sound, Entity, States, Primitive, Multiframe
<1>3. Kept(x, ClearState(x, "RELEASE")) /\ Kept(x, AbnormalRelease(x))
  BY ClearStateKept, AbnormalReleaseKept DEF Primitive
<1>4. Kept(x, x)
  BY DEF Kept
<1>5. ReceiveUA(x) = CASE x.mState = "AwaitingEstablish" -> y
                       [] x.mState = "AwaitingRelease" ->
                            ClearState(x, "RELEASE")
                       [] x.mState = "LinkEstablished" -> x
                       [] OTHER -> AbnormalRelease(x)
  BY DEF ReceiveUA, c
<1> QED
  BY <1>2, <1>3, <1>4, <1>5

LEMMA ReceiveDMKept ==
  ASSUME NEW x, Sound(x)
  PROVE  Kept(x, ReceiveDM(x))
BY ClearStateKept DEF ReceiveDM, Kept, Primitive

LEMMA ResolveKept ==
  ASSUME NEW x, Sound(x)
  PROVE  /\ Kept(x, Resolve(x))
         /\ ~Resolve(x).mEstablishmentInProgress
         /\ Resolve(x).mVR = x.mVR
BY DEF Kept, Sound, Resolve, Entity, States, Multiframe

LEMMA ReceiveSFrameKept ==
  ASSUME NEW x, Sound(x), NEW f \in Frame
  PROVE  Kept(x, ReceiveSFrame(x, f))
<1>1. f.nr \in SeqNo
  BY DEF Frame
<1> QED
  BY <1>1, ResolveKept, ProcessAckKept DEF ReceiveSFrame, Kept

LEMMA BufferIFrameDataKept ==
  ASSUME NEW x, Sound(x), ~x.mEstablishmentInProgress, NEW f \in Frame
  PROVE  Kept(x, BufferIFrameData(x, f))
<1>1. /\ f.info \in Seq(Segment)
      /\ x.mRecvBuffer \in Seq(Segment) /\ x.dlv \in Seq(Seq(Segment))
  BY DEF Frame, Sound, Entity
<1> DEFINE r == x.mRecvBuffer \o f.info
           d == Append(x.dlv, r)
<1>2. r \in Seq(Segment)
  BY <1>1, ConcatType
<1>3. d \in Seq(Seq(Segment))
  BY <1>1, <1>2, AppendType
<1> HIDE DEF r, d
<1>4. Kept(x, [x EXCEPT !.mRecvBuffer = r])
  BY <1>2 DEF Kept, Sound, Entity
<1>5. Kept(x, [x EXCEPT !.dlv = d, !.mRecvBuffer = Empty])
  BY <1>3, EmptyType DEF Kept, Sound, Entity
<1>6. BufferIFrameData(x, f) =
        IF f.info[1].seg < f.info[1].of
        THEN [x EXCEPT !.mRecvBuffer = r]
        ELSE [x EXCEPT !.dlv = d, !.mRecvBuffer = Empty]
  BY DEF BufferIFrameData, r, d
<1> QED
  BY <1>4, <1>5, <1>6

LEMMA ReceiveIFrameKept ==
  ASSUME NEW x, Sound(x), NEW f \in Frame
  PROVE  Kept(x, ReceiveIFrame(x, f))
<1> DEFINE y == ProcessAck(Resolve(x), f.nr)
           z == [y EXCEPT !.mVR = Next1(@)]
           b == BufferIFrameData(z, f)
<1>1. f.nr \in SeqNo
  BY DEF Frame
<1>2. Kept(x, y) /\ ~y.mEstablishmentInProgress
  BY <1>1, ResolveKept, ProcessAckKept DEF Kept
<1> HIDE DEF y
<1>3. Next1(y.mVR) \in SeqNo
  BY <1>2, SeqNoType DEF Kept, Sound, Entity
<1>4. Kept(y, z) /\ ~z.mEstablishmentInProgress
  BY <1>2, <1>3 DEF Kept, Sound, Entity
<1> HIDE DEF z
<1>5. Kept(z, b)
  BY <1>4, BufferIFrameDataKept DEF Kept
<1> HIDE DEF b
<1>6. Kept(b, SendRR(b)) /\ Kept(y, SendREJ(y))
  BY <1>2, <1>5, SupervisoryKept DEF Kept
<1>7. ReceiveIFrame(x, f) = IF x.mState \notin Multiframe THEN Resolve(x)
                            ELSE IF f.ns = x.mVR THEN SendRR(b)
                                 ELSE SendREJ(y)
  BY DEF ReceiveIFrame, b, z, y
<1> QED
  BY <1>2, <1>4, <1>5, <1>6, <1>7, ResolveKept DEF Kept

LEMMA ReceiveFrameKept ==
  ASSUME NEW x, Sound(x), NEW f \in Frame
  PROVE  Kept(x, ReceiveFrame(x, f))
<1>1. f.t \in {"SABM", "DISC", "UA", "DM", "I", "RR", "REJ"}
  BY DEF Frame
<1>2. /\ Kept(x, ReceiveSABM(x, f)) /\ Kept(x, ReceiveDISC(x))
      /\ Kept(x, ReceiveUA(x)) /\ Kept(x, ReceiveDM(x))
      /\ Kept(x, ReceiveIFrame(x, f)) /\ Kept(x, ReceiveSFrame(x, f))
  BY ReceiveSABMKept, ReceiveDISCKept, ReceiveUAKept, ReceiveDMKept,
     ReceiveIFrameKept, ReceiveSFrameKept
<1> QED
  BY <1>1, <1>2 DEF ReceiveFrame

-----------------------------------------------------------------------------
(* Requests *)

LEMMA InitEntitySound ==
  ASSUME NEW sapi \in {0, 3}
  PROVE  /\ Sound(InitEntity(sapi))
         /\ InitEntity(sapi).mSAPI = sapi /\ InitEntity(sapi).out = Empty
<1> DEFINE f == Unnumbered("UA", Empty)
<1>1. f \in Frame
  BY UnnumberedType, EmptyType
<1>2. 0 <= N200 + 1
  BY N200Assumption
<1>3. /\ Empty \in Seq(Segment) /\ Empty \in Seq(Frame)
      /\ Empty \in Seq(Seq(Segment)) /\ 0 \in SeqNo
  BY EmptyType, SeqNoType
<1> HIDE DEF f
<1> DEFINE x == [mState |-> "LinkReleased", mVS |-> 0, mVA |-> 0, mVR |-> 0,
                 mRC |-> 0, mT200 |-> FALSE,
                 mEstablishmentInProgress |-> FALSE,
                 mDiscardIQueue |-> TRUE, mRecvBuffer |-> Empty,
                 mSentFrame |-> f, mContentionCheck |-> 0,
                 mSAPI |-> sapi, rx |-> TRUE, out |-> Empty, dlv |-> Empty,
                 up |-> "none"]
<1>4. x \in Entity
  BY <1>1, <1>3 DEF Entity, States, Primitive
<1>5. x = InitEntity(sapi)
  BY DEF InitEntity, f
<1>6. /\ x.mState = "LinkReleased" /\ x.up = "none" /\ x.mRC = 0
      /\ ~x.mEstablishmentInProgress /\ x.mSAPI = sapi /\ x.out = Empty
  OBVIOUS
<1> HIDE DEF x
<1> QED
  BY <1>2, <1>4, <1>5, <1>6 DEF Sound, Multiframe

LEMMA OpenKept ==
  ASSUME NEW x, Sound(x)
  PROVE  Kept(x, Open(x))
<1> DEFINE c == ClearCounters(x)
           y == [c EXCEPT !.mState = "LinkReleased", !.rx = TRUE,
                          !.up = "none"]
<1>1. /\ Kept(x, c)
      /\ c.mVR = 0 /\ c.mVA = 0 /\ c.mRecvBuffer = Empty
  BY ClearCountersKept DEF ClearCounters, Sound, Entity
<1> HIDE DEF c
<1>2. Kept(x, y)
  BY <1>1 DEF Kept, Sound, Entity, States, Primitive, Multiframe
<1> QED
  BY <1>2 DEF Open, c

LEMMA AwaitEstablishKept ==
  ASSUME NEW x, Sound(x)
  PROVE  Kept(x, AwaitEstablish(x))
<1> DEFINE c == ClearCounters(x)
<1>1. /\ Kept(x, c)
      /\ c.mVR = 0 /\ c.mVA = 0 /\ c.mRecvBuffer = Empty
  BY ClearCountersKept DEF ClearCounters, Sound, Entity
<1> HIDE DEF c
<1>2. Kept(x, [c EXCEPT !.mState = "AwaitingEstablish"])
  BY <1>1 DEF Kept, Sound, Entity, States, Multiframe
<1> QED
  BY <1>2 DEF AwaitEstablish, c

LEMMA AwaitReleaseKept ==
  ASSUME NEW x, Sound(x)
  PROVE  Kept(x, AwaitRelease(x))
<1> DEFINE c == ClearCounters(x)
           y == [c EXCEPT !.mEstablishmentInProgress = FALSE,
                          !.mState = "AwaitingRelease"]
<1>1. Kept(x, c)
  BY ClearCountersKept
<1> HIDE DEF c
<1>2. Kept(x, y)
  BY <1>1 DEF Kept, Sound, Entity, States, Multiframe
<1> HIDE DEF y
<1>3. Kept(y, SendDISC(y))
  BY <1>2, SendDISCKept DEF Kept
<1> QED
  BY <1>2, <1>3 DEF AwaitRelease, Kept, y, c

=============================================================================
