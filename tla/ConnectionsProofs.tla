-------------------------- MODULE ConnectionsProofs --------------------------
(***************************************************************************)
(* The connections between mbts and Yate, for any pools of channels, any   *)
(* number of phones, any size of the table and any bounds.                 *)
(***************************************************************************)
EXTENDS Connections, FiniteSetTheorems, WellFoundedInduction, TLAPS

(* A dispatcher that serves a connection knows its id.                     *)
Serving == {"recv", "end", "lost", "release", "unmap"}
Places == {"wait", "first", "handover"} \cup Serving

Placed == \A c \in Chan : ch[c].pc \in Serving => ch[c].id \in Id

(* There is a channel to speak to.                                         *)
Spoken == sig # NoSig => sig.chan \in Chan

ConnectionsInv == TypeOK /\ Placed /\ Spoken

-----------------------------------------------------------------------------
(* The table                                                               *)

LEMMA Ids == Size \in Nat /\ Size > 0 /\ Id \subseteq Nat /\ -1 \notin Id
BY SizeAssumption DEF Id

LEMMA Refs == Ref \subseteq Nat /\ NoRef \notin Ref /\ NoRef # 0 /\ 0 \in Ref
BY DEF Ref, NoRef

LEMMA LeastOf ==
  ASSUME NEW S \in SUBSET Nat, S # {}
  PROVE  \E m \in S : \A n \in S : m <= n
<1> DEFINE R == OpToRel(<, Nat)
<1>1. \A m, n \in Nat : m < n => <<m, n>> \in R
  BY DEF OpToRel
<1>2. IsWellFoundedOn(R, Nat)
  BY NatLessThanWellFounded
<1> HIDE DEF R
<1>3. PICK m \in S : \A n \in S : ~ (<<n, m>> \in R)
  BY <1>2, WFMin
<1>4. ASSUME NEW n \in S
      PROVE  m <= n
  <2>1. m \in Nat /\ n \in Nat
    OBVIOUS
  <2>2. ~(n < m)
    BY <1>1, <1>3, <2>1, Zenon
  <2> QED
    BY <2>1, <2>2
<1> QED
  BY <1>4

LEMMA FirstIs ==
  ASSUME NEW S \in SUBSET Id
  PROVE  IF S = {} THEN First(S) = -1 ELSE First(S) \in S
<1>1. CASE S = {}
  BY <1>1 DEF First
<1>2. CASE S # {}
  <2>1. \E i \in S : \A j \in S : i <= j
    BY <1>2, Ids, LeastOf
  <2> QED
    BY <1>2, <2>1, Zenon DEF First
<1> QED
  BY <1>1, <1>2

LEMMA FindIs ==
  ASSUME NEW t, NEW c
  PROVE  \/ Find(t, c) = -1 /\ \A i \in Id : t.mMap[i].mChan # c
         \/ Find(t, c) \in Id /\ t.mMap[Find(t, c)].mChan = c
<1> DEFINE S == {i \in Id : t.mMap[i].mChan = c}
<1>1. S \in SUBSET Id /\ Find(t, c) = First(S)
  BY DEF Find
<1>2. IF S = {} THEN First(S) = -1 ELSE First(S) \in S
  BY <1>1, FirstIs
<1> QED
  BY <1>1, <1>2

LEMMA FindRefIs ==
  ASSUME NEW t, NEW ref
  PROVE  \/ FindRef(t, ref) = -1 /\ \A i \in Id : t.mMap[i].mHoRef # ref
         \/ FindRef(t, ref) \in Id /\ t.mMap[FindRef(t, ref)].mHoRef = ref
<1> DEFINE S == {i \in Id : t.mMap[i].mHoRef = ref}
<1>1. S \in SUBSET Id /\ FindRef(t, ref) = First(S)
  BY DEF FindRef
<1>2. IF S = {} THEN First(S) = -1 ELSE First(S) \in S
  BY <1>1, FirstIs
<1> QED
  BY <1>1, <1>2

LEMMA RemapIdIs ==
  ASSUME NEW t, NEW c
  PROVE  \/ RemapId(t, c) = -1
         \/ RemapId(t, c) \in Id /\ t.mMap[RemapId(t, c)].mChan # c
<1> DEFINE S == {j \in Id : t.mMap[j].mMedia = c}
<1>1. S \in SUBSET Id /\ RemapId(t, c) = LET i == First(S) IN
        IF i # -1 /\ t.mMap[i].mChan # c THEN i ELSE -1
  BY DEF RemapId
<1>2. IF S = {} THEN First(S) = -1 ELSE First(S) \in S
  BY <1>1, FirstIs
<1> QED
  BY <1>1, <1>2

LEMMA NextFreeIs ==
  ASSUME NEW t \in Table
  PROVE  \/ NextFree(t) = -1
         \/ NextFree(t) \in Id /\ t.mMap[NextFree(t)].mChan = None
<1> DEFINE D == {Ahead(t, i) : i \in Free(t)}
<1>1. CASE Free(t) = {}
  BY <1>1 DEF NextFree
<1>2. CASE Free(t) # {}
  <2>1. \A i \in Free(t) : i \in Id /\ t.mMap[i].mChan = None
    BY DEF Free
  <2>2. \A i \in Id : Ahead(t, i) \in Nat
    <3> SUFFICES ASSUME NEW i \in Id
                 PROVE  Ahead(t, i) \in Nat
      OBVIOUS
    <3>1. t.mIndex \in Id
      BY DEF Table
    <3>2. i - t.mIndex + Size \in Int /\ Size \in Nat /\ Size > 0
      BY <3>1, SizeAssumption DEF Id
    <3> QED
      BY <3>2 DEF Ahead
  <2>3. D \in SUBSET Nat /\ D # {}
    BY <1>2, <2>1, <2>2
  <2>4. PICK m \in D : \A n \in D : m <= n
    BY <2>3, LeastOf
  <2>5. PICK i \in Free(t) : m = Ahead(t, i)
    BY <2>4
  <2>6. \A j \in Free(t) : Ahead(t, i) <= Ahead(t, j)
    BY <2>4, <2>5
  <2>7. NextFree(t) \in Free(t)
    BY <1>2, <2>5, <2>6, Zenon DEF NextFree
  <2> QED
    BY <2>1, <2>7
<1> QED
  BY <1>1, <1>2

LEMMA SlotTyped ==
  ASSUME NEW t \in Table, NEW i \in Id
  PROVE  /\ t.mMap[i] \in Slot /\ t.mMap[i].mChan \in Chan \cup {None}
         /\ t.mMap[i].mMedia \in Chan \cup {None}
         /\ t.mMap[i].mHoRef \in Ref \cup {NoRef}
BY DEF Table, Slot

LEMMA OfId ==
  ASSUME NEW t \in Table, NEW id
  PROVE  /\ ChanOf(t, id) \in Chan \cup {None}
         /\ MediaOf(t, id) \in Chan \cup {None}
         /\ ChanOf(t, id) # None => id \in Id
BY SlotTyped DEF ChanOf, MediaOf

(* One slot is given another value.                                        *)
LEMMA SlotPut ==
  ASSUME NEW t \in Table, NEW i \in Id, NEW v \in Slot
  PROVE  LET u == [t EXCEPT !.mMap[i] = v] IN
         /\ u \in Table /\ u.mMap[i] = v
         /\ \A j \in Id \ {i} : u.mMap[j] = t.mMap[j]
BY DEF Table

LEMMA MapIs ==
  ASSUME NEW t \in Table, NEW c \in Chan, NEW ref \in Ref \cup {NoRef}
  PROVE  LET u == Map(t, c, ref) IN
         /\ u \in Table
         /\ MapId(t, c) \in Id \cup {-1}
         /\ \/ u = t /\ (MapId(t, c) = -1 \/ t.mMap[MapId(t, c)].mChan = c)
            \/ /\ MapId(t, c) \in Id /\ t.mMap[MapId(t, c)].mChan = None
               /\ \A i \in Id : t.mMap[i].mChan # c
               /\ u.mMap = [t.mMap EXCEPT ![MapId(t, c)] =
                              [mChan |-> c, mMedia |-> None, mHoRef |-> ref]]
<1>1. CASE Find(t, c) # -1
  BY <1>1, FindIs DEF Map, MapId
<1>2. CASE Find(t, c) = -1 /\ NextFree(t) = -1
  BY <1>2 DEF Map, MapId
<1>3. CASE Find(t, c) = -1 /\ NextFree(t) # -1
  <2> DEFINE i == NextFree(t)
             new == [mChan |-> c, mMedia |-> None, mHoRef |-> ref]
  <2>1. i \in Id /\ t.mMap[i].mChan = None
    BY <1>3, NextFreeIs
  <2>2. \A j \in Id : t.mMap[j].mChan # c
    BY <1>3, FindIs, Ids
  <2>3. MapId(t, c) = i
    BY <1>3 DEF MapId
  <2>4. Map(t, c, ref) = [mIndex |-> i, mMap |-> [t.mMap EXCEPT ![i] = new]]
    BY <1>3 DEF Map
  <2>5. new \in Slot
    BY DEF Slot
  <2> HIDE DEF i, new
  <2>6. [t.mMap EXCEPT ![i] = new] \in [Id -> Slot]
    BY <2>1, <2>5 DEF Table
  <2>7. Map(t, c, ref) \in Table
    BY <2>1, <2>4, <2>6 DEF Table
  <2>8. Map(t, c, ref).mMap = [t.mMap EXCEPT ![i] = new]
    BY <2>4
  <2> QED
    BY <2>1, <2>2, <2>3, <2>7, <2>8 DEF new
<1> QED
  BY <1>1, <1>2, <1>3

LEMMA MapMediaIs ==
  ASSUME NEW t \in Table, NEW id, NEW c \in Chan
  PROVE  LET u == MapMedia(t, id, c) IN
         /\ u \in Table
         /\ \A i \in Id : u.mMap[i].mChan = t.mMap[i].mChan
                       /\ u.mMap[i].mHoRef = t.mMap[i].mHoRef
<1>1. CASE ChanOf(t, id) = None
  BY <1>1 DEF MapMedia
<1>2. CASE ChanOf(t, id) # None
  BY <1>2, OfId DEF MapMedia, Table, Slot
<1> QED
  BY <1>1, <1>2

LEMMA UnmapIdIs ==
  ASSUME NEW t \in Table, NEW id
  PROVE  LET u == UnmapId(t, id) IN
         /\ u \in Table
         /\ \A i \in Id : u.mMap[i].mChan \in {t.mMap[i].mChan, None}
                       /\ u.mMap[i].mHoRef = t.mMap[i].mHoRef
<1>1. CASE ChanOf(t, id) = None
  BY <1>1 DEF UnmapId
<1>2. CASE ChanOf(t, id) # None
  <2> DEFINE x == [t EXCEPT !.mMap[id].mChan = None]
             y == [x EXCEPT !.mMap[id].mMedia = None]
  <2>1. id \in Id
    BY <1>2, OfId
  <2>2. /\ x \in Table
        /\ \A i \in Id : x.mMap[i].mChan \in {t.mMap[i].mChan, None}
                      /\ x.mMap[i].mHoRef = t.mMap[i].mHoRef
    BY <2>1 DEF Table, Slot
  <2> HIDE DEF x
  <2>3. /\ y \in Table
        /\ \A i \in Id : y.mMap[i].mChan = x.mMap[i].mChan
                      /\ y.mMap[i].mHoRef = x.mMap[i].mHoRef
    BY <2>1, <2>2 DEF Table, Slot
  <2>4. UnmapId(t, id) = y
    BY <1>2 DEF UnmapId, x
  <2> QED
    BY <2>2, <2>3, <2>4
<1> QED
  BY <1>1, <1>2

(* What is taken from the table with c is the first slot of c.             *)
LEMMA UnmapChanIs ==
  ASSUME NEW t \in Table, NEW c \in Chan
  PROVE  LET u == UnmapChan(t, c)
             i == Find(t, c) IN
         /\ u \in Table
         /\ i = -1 => u = t
         /\ i # -1 => /\ i \in Id
                      /\ u.mMap = [t.mMap EXCEPT ![i] =
                           [mChan |-> None, mMedia |-> None, mHoRef |-> NoRef]]
<1> DEFINE i == Find(t, c)
           new == [mChan |-> None, mMedia |-> None, mHoRef |-> NoRef]
<1>1. CASE i = -1
  BY <1>1 DEF UnmapChan
<1>2. CASE i # -1
  <2>1. i \in Id
    BY <1>2, FindIs
  <2>2. UnmapChan(t, c) = [t EXCEPT !.mMap[i] = new]
    BY <1>2 DEF UnmapChan
  <2>3. new \in Slot
    BY DEF Slot
  <2> HIDE DEF i, new
  <2>4. [t EXCEPT !.mMap[i] = new] \in Table
        /\ [t EXCEPT !.mMap[i] = new].mMap = [t.mMap EXCEPT ![i] = new]
    BY <2>1, <2>3 DEF Table
  <2> QED
    BY <1>2, <2>1, <2>2, <2>4 DEF i, new
<1> QED
  BY <1>1, <1>2

LEMMA RemapIs ==
  ASSUME NEW t \in Table, NEW c \in Chan
  PROVE  LET u == Remap(t, c)
             i == RemapId(t, c) IN
         /\ u \in Table
         /\ i = -1 => u = t
         /\ i # -1 =>
              /\ i \in Id
              /\ u.mMap[i].mChan = c /\ u.mMap[i].mHoRef = NoRef
              /\ \A j \in Id \ {i} : u.mMap[j] = t.mMap[j]
<1>1. CASE RemapId(t, c) = -1
  BY <1>1 DEF Remap
<1>2. CASE RemapId(t, c) # -1
  <2>1. PICK i \in Id : i = RemapId(t, c)
    BY <1>2, RemapIdIs
  <2> DEFINE v == [t.mMap[i] EXCEPT !.mChan = c, !.mHoRef = NoRef]
             u == [t EXCEPT !.mMap[i] = v]
  <2>2. Remap(t, c) = u
    BY <1>2, <2>1 DEF Remap
  <2>3. v \in Slot /\ v.mChan = c /\ v.mHoRef = NoRef
    BY SlotTyped DEF Slot
  <2> HIDE DEF v
  <2>4. /\ u \in Table /\ u.mMap[i] = v
        /\ \A j \in Id \ {i} : u.mMap[j] = t.mMap[j]
    BY <2>3, SlotPut
  <2> HIDE DEF u
  <2> QED
    BY <1>2, <2>1, <2>2, <2>3, <2>4
<1> QED
  BY <1>1, <1>2

LEMMA TakeTAIs ==
  ASSUME NEW t \in Table, NEW id \in Id
  PROVE  LET u == TakeTA(t, id) IN
         /\ u \in Table
         /\ \A i \in Id : u.mMap[i].mChan = t.mMap[i].mChan
                       /\ u.mMap[i].mHoRef \in {NoRef, t.mMap[i].mHoRef}
<1> DEFINE v == [t.mMap[id] EXCEPT !.mHoRef = NoRef]
           u == [t EXCEPT !.mMap[id] = v]
<1>1. TakeTA(t, id) = u
  BY DEF TakeTA
<1>2. v \in Slot /\ v.mChan = t.mMap[id].mChan /\ v.mHoRef = NoRef
  BY SlotTyped DEF Slot
<1> HIDE DEF v
<1>3. /\ u \in Table /\ u.mMap[id] = v
      /\ \A j \in Id \ {id} : u.mMap[j] = t.mMap[j]
  BY <1>2, SlotPut
<1> HIDE DEF u
<1> QED
  BY <1>1, <1>2, <1>3

-----------------------------------------------------------------------------
(* A channel, and its place in ch                                          *)

LEMMA Frames ==
  /\ \A prim \in Primitives : Bare(prim) \in L3Frame
  /\ \A m \in Uplink, p \in Phone : Data(m, p) \in L3Frame
BY DEF Bare, Data, L3Frame, Primitives

(* The same dispatcher at the same place.                                  *)
Kin(x, y) == y \in Channel /\ y.pc = x.pc /\ y.id = x.id

LEMMA UpKin ==
  ASSUME NEW x \in Channel, NEW f \in L3Frame
  PROVE  Kin(x, Up(x, f))
BY DEF Kin, Up, Channel

LEMMA OpenKin ==
  ASSUME NEW x \in Channel
  PROVE  Kin(x, Open(x))
<1>1. <<>> \in Seq(L3Frame)
  OBVIOUS
<1> DEFINE y == [x EXCEPT !.l1 = "T3101", !.link = FALSE, !.handoverPending = FALSE]
<1>2. Kin(x, y)
  BY DEF Kin, Channel
<1>3. Open(x) = [y EXCEPT !.l3 = <<>>]
  BY DEF Open, Channel
<1> HIDE DEF y
<1>4. Kin(y, [y EXCEPT !.l3 = <<>>])
  BY <1>1, <1>2 DEF Kin, Channel
<1> QED
  BY <1>2, <1>3, <1>4 DEF Kin

LEMMA ClosedKin ==
  ASSUME NEW x \in Channel, NEW prim \in {"RELEASE", "HARDRELEASE"}
  PROVE  Kin(x, Closed(x, prim))
<1> DEFINE y == [x EXCEPT !.link = FALSE,
                          !.l1 = IF prim = "HARDRELEASE" THEN "free" ELSE "T3111"]
<1>1. Kin(x, y)
  BY DEF Kin, Channel
<1>2. Bare(prim) \in L3Frame
  BY Frames DEF Primitives
<1>3. Kin(y, Up(y, Bare(prim)))
  BY <1>1, <1>2, UpKin DEF Kin
<1> QED
  BY <1>1, <1>3 DEF Closed, Kin

LEMMA AbnormalKin ==
  ASSUME NEW x \in Channel
  PROVE  Kin(x, Abnormal(x))
<1> DEFINE y == Up(x, Bare("ERROR"))
<1>1. Bare("ERROR") \in L3Frame
  BY Frames DEF Primitives
<1>2. Kin(x, y)
  BY <1>1, UpKin
<1> HIDE DEF y
<1>3. Kin(y, Closed(y, "RELEASE"))
  BY <1>2, ClosedKin DEF Kin
<1> QED
  BY <1>2, <1>3 DEF Abnormal, Kin, y

LEMMA SendL3Kin ==
  ASSUME NEW x \in Channel
  PROVE  Kin(x, SendL3(x))
BY AbnormalKin DEF SendL3, Kin

LEMMA SendReleaseKin ==
  ASSUME NEW x \in Channel
  PROVE  Kin(x, SendRelease(x))
BY ClosedKin DEF SendRelease, Kin

ChannelsTyped == ch \in [Chan -> Channel] /\ Placed

LEMMA PoppedKin ==
  ASSUME ChannelsTyped, NEW c \in Chan, ch[c].l3 # <<>>
  PROVE  Kin(ch[c], Popped(c)) /\ Head(ch[c].l3) \in L3Frame
<1>1. ch[c] \in Channel /\ ch[c].l3 \in Seq(L3Frame)
  BY DEF ChannelsTyped, Channel
<1>2. Tail(ch[c].l3) \in Seq(L3Frame) /\ Head(ch[c].l3) \in L3Frame
  BY <1>1
<1> QED
  BY <1>1, <1>2 DEF Kin, Popped, Channel

LEMMA FrameParts ==
  ASSUME NEW f \in L3Frame
  PROVE  /\ f.prim \in Primitives /\ f.msg \in Uplink \cup {None}
         /\ f.from \in Phone \cup {None}
BY DEF L3Frame

(* A channel becomes another that may be in its place.                     *)
LEMMA Replaces ==
  ASSUME ChannelsTyped, NEW c \in Chan, NEW y \in Channel,
         y.pc \in Serving => y.id \in Id,
         ch' = [ch EXCEPT ![c] = y]
  PROVE  ChannelsTyped'
BY DEF ChannelsTyped, Placed

LEMMA ReplacesKin ==
  ASSUME ChannelsTyped, NEW c \in Chan, NEW y, Kin(ch[c], y),
         ch' = [ch EXCEPT ![c] = y]
  PROVE  ChannelsTyped' /\ \A d \in Chan : ch'[d].pc = ch[d].pc
<1>1. y \in Channel /\ (y.pc \in Serving => y.id \in Id)
  BY DEF Kin, ChannelsTyped, Placed
<1> QED
  BY <1>1, Replaces DEF Kin, ChannelsTyped

(* A dispatcher goes to another place, and keeps, or is given, an id.      *)
LEMMA Goes ==
  ASSUME NEW x \in Channel, NEW pc \in Places, NEW id \in Id \cup {-1}
  PROVE  /\ [x EXCEPT !.pc = pc] \in Channel
         /\ [x EXCEPT !.pc = pc].pc = pc /\ [x EXCEPT !.pc = pc].id = x.id
         /\ [x EXCEPT !.pc = pc, !.id = id] \in Channel
         /\ [x EXCEPT !.pc = pc, !.id = id].pc = pc
         /\ [x EXCEPT !.pc = pc, !.id = id].id = id
BY DEF Channel, Places, Serving

LEMMA LeavesIs ==
  ASSUME NEW x \in Channel
  PROVE  Leaves(x) \in Channel /\ Leaves(x).pc = "wait" /\ Leaves(x).id = -1
BY DEF Leaves, Channel

-----------------------------------------------------------------------------
(* Phones                                                                  *)

PhonesTyped == ph \in [Phone -> PhoneState]

LEMMA AwayIs == Away \in PhoneState
BY DEF Away, PhoneState, Uplink

LEMMA ToldIs ==
  ASSUME PhonesTyped, NEW c, NEW order \in {"none", "release", "modify"} \cup Chan
  PROVE  /\ Told(c, order) \in [Phone -> PhoneState]
         /\ \A p \in Phone : Told(c, order)[p].ref = ph[p].ref
                          /\ Told(c, order)[p].brings = ph[p].brings
BY DEF PhonesTyped, Told, PhoneState

LEMMA DismissedIs ==
  ASSUME PhonesTyped, NEW c
  PROVE  /\ Dismissed(c) \in [Phone -> PhoneState]
         /\ \A p \in Phone : \/ Dismissed(c)[p] = Away
                             \/ Dismissed(c)[p].ref = ph[p].ref
                                /\ Dismissed(c)[p].brings = ph[p].brings
<1>1. ASSUME NEW p \in Phone
      PROVE  /\ Dismissed(c)[p] \in PhoneState
             /\ \/ Dismissed(c)[p] = Away
                \/ Dismissed(c)[p].ref = ph[p].ref
                   /\ Dismissed(c)[p].brings = ph[p].brings
  <2>1. ph[p] \in PhoneState
    BY DEF PhonesTyped
  <2>2. CASE p \in OnLink(c)
    BY <2>2, AwayIs DEF Dismissed
  <2>3. CASE p \notin OnLink(c)
    BY <2>1, <2>3 DEF Dismissed, PhoneState
  <2> QED
    BY <2>2, <2>3
<1> QED
  BY <1>1 DEF Dismissed

-----------------------------------------------------------------------------
(* Messages, and Yate's connections                                        *)

LEMMA ToYateMsgs ==
  ASSUME NEW id \in Id
  PROVE  /\ \A t \in {"Started", "Error", "Lost"} : ToYateMsg(t, id) \in ToYate
         /\ \A f \in L3Frame : L3ToYate(id, f) \in ToYate
         /\ \A f \in L3Frame : Forwarded(id, f) \in ToYate
         /\ \A f \in L3Frame : Forwarded(id, f).t # "HandoverAck"
BY FrameParts DEF ToYateMsg, L3ToYate, Forwarded, ToYate

LEMMA ToYateParts ==
  ASSUME toYate \in Seq(ToYate), toYate # <<>>
  PROVE  /\ Head(toYate) \in ToYate /\ Tail(toYate) \in Seq(ToYate)
         /\ Head(toYate).t # "HandoverReject" => Head(toYate).id \in Id
         /\ Head(toYate).from \in Phone \cup {None}
         /\ Head(toYate).chan \in Chan \cup {None}
         /\ Head(toYate).ref \in Ref \cup {NoRef}
<1>1. Head(toYate) \in ToYate /\ Tail(toYate) \in Seq(ToYate)
  OBVIOUS
<1> QED
  BY <1>1 DEF ToYate

LEMMA ToBtsMsgs ==
  ASSUME NEW t \in {"Release", "HardRelease", "Alloc", "Start", "L3"},
         NEW id \in Id
  PROVE  ToBtsMsg(t, id) \in ToBts
BY DEF ToBtsMsg, ToBts

LEMMA ToBtsParts ==
  ASSUME toBts \in Seq(ToBts), toBts # <<>>
  PROVE  /\ Head(toBts) \in ToBts /\ Tail(toBts) \in Seq(ToBts)
         /\ Head(toBts).ref \in Ref \cup {NoRef}
<1>1. Head(toBts) \in ToBts /\ Tail(toBts) \in Seq(ToBts)
  OBVIOUS
<1> QED
  BY <1>1 DEF ToBts

LEMMA ReleasesTyped ==
  ASSUME NEW S \in SUBSET Id
  PROVE  /\ Releases(S) \in Seq(ToBts)
         /\ \A i \in 1 .. Len(Releases(S)) :
              Releases(S)[i].t \in {"Release", "HardRelease"}
         /\ \A i \in 1 .. Len(Releases(S)) :
              \E id \in Id : Releases(S)[i] = ReleaseMsg(id)
<1>1. IsFiniteSet(Id)
  BY SizeAssumption, FS_Interval DEF Id
<1>2. IsFiniteSet(S) /\ Cardinality(S) \in Nat
  BY <1>1, FS_Subset, FS_CardinalityType
<1>3. PICK f \in Bijection(1 .. Cardinality(S), S) : TRUE
  BY <1>2, FS_CardinalityType DEF ExistsBijection
<1>4. f \in [1 .. Cardinality(S) -> S] /\ IsInjective(f)
  BY <1>3 DEF Bijection, Injection, IsInjective
<1>5. SetToSeq(S) \in [1 .. Cardinality(S) -> S]
  BY <1>4 DEF SetToSeq
<1>6. \A id \in Id : /\ ReleaseMsg(id) \in ToBts
                     /\ ReleaseMsg(id).t \in {"Release", "HardRelease"}
  BY DEF ReleaseMsg, ToBtsMsg, ToBts
<1> DEFINE ids == SetToSeq(S)
           n == Cardinality(S)
<1>7. \A k \in 1 .. n : ids[k] \in Id
  BY <1>5
<1>8. Releases(S) = [k \in 1 .. n |-> ReleaseMsg(ids[k])]
  BY DEF Releases
<1> HIDE DEF ids, n
<1>9. n \in Nat
  BY <1>2 DEF n
<1>10. Len(Releases(S)) = n /\ \A k \in 1 .. n : Releases(S)[k] = ReleaseMsg(ids[k])
  BY <1>8, <1>9
<1>11. \A k \in 1 .. n : /\ ReleaseMsg(ids[k]) \in ToBts
                         /\ ReleaseMsg(ids[k]).t \in {"Release", "HardRelease"}
  BY <1>6, <1>7
<1> QED
  BY <1>7, <1>8, <1>9, <1>10, <1>11

ConnsTyped == conn \in [Id -> Conn]

LEMMA DropTyped ==
  ASSUME NEW cs \in [Id -> Conn], NEW S
  PROVE  Drop(cs, S) \in [Id -> Conn]
<1>1. Removed \in Conn
  BY DEF Removed, NoConn, Conn
<1> QED
  BY <1>1 DEF Drop

LEMMA OwnedTyped ==
  ASSUME NEW x \in Conn, NEW p \in Phone \cup {None}
  PROVE  Owned(x, p) \in Conn /\ ~Owned(x, p).hard
BY DEF Owned, Conn

-----------------------------------------------------------------------------
(* What almost every step leaves as it is                                  *)

Comes(p) == ph[p].brings = "HandoverComplete"
Asks(m) == m.t = "HandoverRequest"
Waiting(c) == ch[c].pc \in {"wait", "first", "handover"}
Counts == [access : Nat, talk : Nat, fail : Nat, late : Nat]

(* Nothing new about handovers.                                            *)
RefStep ==
  /\ \A i \in Id : table'.mMap[i].mHoRef \in {NoRef, table.mMap[i].mHoRef}
  /\ \/ toBts' = toBts
     \/ toBts # <<>> /\ toBts' = Tail(toBts)
     \/ \E ms \in Seq(ToBts) : /\ \A n \in 1 .. Len(ms) : ~Asks(ms[n])
                               /\ toBts' = toBts \o ms
  /\ \/ toYate' = toYate
     \/ toYate # <<>> /\ toYate' = Tail(toYate)
     \/ \E m \in ToYate : m.t # "HandoverAck" /\ toYate' = Append(toYate, m)
  /\ \A p \in Phone : Comes(p)' => Comes(p) /\ ph'[p].ref = ph[p].ref
  /\ handovers' = handovers

(* Slots only lose their channel, and no dispatcher comes back.            *)
UseStep ==
  /\ \A i \in Id : table'.mMap[i].mChan \in {table.mMap[i].mChan, None}
  /\ \A c \in Chan : Waiting(c)' => Waiting(c)

KeepsPcs == ChannelsTyped' /\ \A c \in Chan : ch'[c].pc = ch[c].pc
KeepsPhones ==
  /\ ph' \in [Phone -> PhoneState]
  /\ \A p \in Phone : Comes(p)' => Comes(p) /\ ph'[p].ref = ph[p].ref

Plain == ConnectionsInv' /\ RefStep /\ UseStep

LEMMA InvParts ==
  ASSUME ConnectionsInv
  PROVE  /\ ChannelsTyped /\ PhonesTyped /\ ConnsTyped
         /\ table \in Table /\ used \in Counts
         /\ toYate \in Seq(ToYate) /\ toBts \in Seq(ToBts)
         /\ handovers \in 0 .. Len(HoRefs)
         /\ sig \in [chan : Chan \cup {None}, hard : BOOLEAN]
         /\ \A c \in Chan : ch[c] \in Channel
         /\ \A p \in Phone : ph[p] \in PhoneState
BY DEF ConnectionsInv, TypeOK, ChannelsTyped, PhonesTyped, ConnsTyped, Counts

LEMMA PhonesKept ==
  ASSUME PhonesTyped
  PROVE  /\ UNCHANGED ph => KeepsPhones
         /\ \A c : ph' = Dismissed(c) => KeepsPhones
         /\ \A c : \A order \in {"none", "release", "modify"} \cup Chan :
              ph' = Told(c, order) => KeepsPhones
<1>1. UNCHANGED ph => KeepsPhones
  BY DEF PhonesTyped, KeepsPhones, Comes
<1>2. Away.brings # "HandoverComplete"
  BY DEF Away
<1>3. ASSUME NEW c, ph' = Dismissed(c)
      PROVE  KeepsPhones
  BY <1>2, <1>3, DismissedIs DEF KeepsPhones, Comes
<1>4. ASSUME NEW c, NEW order \in {"none", "release", "modify"} \cup Chan,
             ph' = Told(c, order)
      PROVE  KeepsPhones
  BY <1>4, ToldIs DEF KeepsPhones, Comes
<1> QED
  BY <1>1, <1>3, <1>4

LEMMA PhoneKept ==
  ASSUME PhonesTyped, NEW p \in Phone, NEW x \in PhoneState,
         ph' = [ph EXCEPT ![p] = x],
         x.brings = "HandoverComplete" => Comes(p) /\ x.ref = ph[p].ref
  PROVE  KeepsPhones
BY DEF PhonesTyped, KeepsPhones, Comes

LEMMA SameBearing ==
  ASSUME NEW x \in PhoneState
  PROVE  /\ \A stage \in {"asking", "linked", "talking"} :
              LET y == [x EXCEPT !.stage = stage] IN
              y \in PhoneState /\ y.brings = x.brings /\ y.ref = x.ref
         /\ LET y == [x EXCEPT !.order = "none"] IN
              y \in PhoneState /\ y.brings = x.brings /\ y.ref = x.ref
BY DEF PhoneState

LEMMA BearingKept ==
  ASSUME PhonesTyped, NEW p \in Phone
  PROVE  /\ \A stage \in {"asking", "linked", "talking"} :
              ph' = [ph EXCEPT ![p].stage = stage] => KeepsPhones
         /\ ph' = [ph EXCEPT ![p].order = "none"] => KeepsPhones
<1>1. ph[p] \in PhoneState
  BY DEF PhonesTyped
<1>2. ASSUME NEW stage \in {"asking", "linked", "talking"},
             ph' = [ph EXCEPT ![p].stage = stage]
      PROVE  KeepsPhones
  <2> DEFINE y == [ph[p] EXCEPT !.stage = stage]
  <2>1. ph' = [ph EXCEPT ![p] = y]
    BY <1>2
  <2>2. y \in PhoneState /\ y.brings = ph[p].brings /\ y.ref = ph[p].ref
    BY <1>1, SameBearing
  <2> HIDE DEF y
  <2> QED
    BY <2>1, <2>2, PhoneKept DEF Comes
<1>3. ASSUME ph' = [ph EXCEPT ![p].order = "none"]
      PROVE  KeepsPhones
  <2> DEFINE y == [ph[p] EXCEPT !.order = "none"]
  <2>1. ph' = [ph EXCEPT ![p] = y]
    BY <1>3
  <2>2. y \in PhoneState /\ y.brings = ph[p].brings /\ y.ref = ph[p].ref
    BY <1>1, SameBearing
  <2> HIDE DEF y
  <2> QED
    BY <2>1, <2>2, PhoneKept DEF Comes
<1> QED
  BY <1>2, <1>3

LEMMA RadioPlain ==
  ASSUME ConnectionsInv, KeepsPcs, KeepsPhones, used' \in Counts,
         UNCHANGED <<table, sig, toYate, toBts, conn, handovers>>
  PROVE  Plain
<1>1. ConnectionsInv'
  BY InvParts DEF ConnectionsInv, TypeOK, Spoken, KeepsPcs, ChannelsTyped,
                  KeepsPhones, Counts
<1>2. RefStep
  BY DEF KeepsPhones, RefStep
<1>3. UseStep
  BY DEF KeepsPcs, UseStep, Waiting
<1> QED
  BY <1>1, <1>2, <1>3 DEF Plain

(* Only what the radio does to one channel is to be looked at.             *)
LEMMA ChannelKept ==
  ASSUME ConnectionsInv
  PROVE  /\ UNCHANGED ch => KeepsPcs
         /\ \A c \in Chan : \A y : Kin(ch[c], y) /\ ch' = [ch EXCEPT ![c] = y]
              => KeepsPcs
<1>1. ChannelsTyped
  BY InvParts
<1>2. UNCHANGED ch => KeepsPcs
  BY <1>1 DEF ChannelsTyped, Placed, KeepsPcs
<1>3. ASSUME NEW c \in Chan, NEW y, Kin(ch[c], y), ch' = [ch EXCEPT ![c] = y]
      PROVE  KeepsPcs
  BY <1>1, <1>3, ReplacesKin DEF KeepsPcs
<1> QED
  BY <1>2, <1>3

LEMMA Counted ==
  ASSUME used \in Counts
  PROVE  /\ [used EXCEPT !.access = @ + 1] \in Counts
         /\ [used EXCEPT !.talk = @ + 1] \in Counts
         /\ [used EXCEPT !.fail = @ + 1] \in Counts
         /\ [used EXCEPT !.late = @ + 1] \in Counts
BY DEF Counts

LEMMA TimerExpiresPlain ==
  ASSUME ConnectionsInv, NEW c \in Chan, TimerExpires(c)
  PROVE  Plain
<1> DEFINE y == [ch[c] EXCEPT !.l1 = "free"]
<1>1. Kin(ch[c], y) /\ ch' = [ch EXCEPT ![c] = y]
  BY InvParts DEF TimerExpires, Kin, Channel
<1>2. KeepsPcs
  BY <1>1, ChannelKept
<1>3. used' \in Counts
  BY InvParts, Counted DEF TimerExpires
<1>4. UNCHANGED <<table, sig, toYate, toBts, conn, ph, handovers>>
  BY DEF TimerExpires
<1> QED
  BY <1>2, <1>3, <1>4, PhonesKept, InvParts, RadioPlain

LEMMA LinkFailsPlain ==
  ASSUME ConnectionsInv, NEW c \in Chan, LinkFails(c)
  PROVE  Plain
<1>1. Kin(ch[c], Abnormal(ch[c])) /\ ch' = [ch EXCEPT ![c] = Abnormal(ch[c])]
  BY InvParts, AbnormalKin DEF LinkFails
<1>2. KeepsPcs
  BY <1>1, ChannelKept
<1>3. used' \in Counts
  <2>1. used \in Counts
    BY InvParts
  <2>2. PICK l \in {used.late, used.late + 1}, f \in {used.fail, used.fail + 1} :
          used' = [used EXCEPT !.late = l, !.fail = f]
    BY DEF LinkFails
  <2>3. l \in Nat /\ f \in Nat
    BY <2>1 DEF Counts
  <2> QED
    BY <2>1, <2>2, <2>3 DEF Counts
<1>4. ph' = [p \in Phone |-> IF p \in OnLink(c)
                             THEN [ph[p] EXCEPT !.order = "none"] ELSE ph[p]]
      /\ UNCHANGED <<table, sig, toYate, toBts, conn, handovers>>
  BY DEF LinkFails
<1>5. KeepsPhones
  <2>1. \A p \in Phone : ph[p] \in PhoneState
    BY InvParts
  <2>2. ASSUME NEW p \in Phone
        PROVE  /\ ph'[p] \in PhoneState
               /\ ph'[p].brings = ph[p].brings /\ ph'[p].ref = ph[p].ref
    BY <1>4, <2>1, SameBearing
  <2>3. ph' \in [Phone -> PhoneState]
    BY <1>4, <2>2
  <2> QED
    BY <2>2, <2>3 DEF KeepsPhones, Comes
<1> QED
  BY <1>2, <1>3, <1>4, <1>5, RadioPlain

LEMMA GrantPlain ==
  ASSUME ConnectionsInv, NEW p \in Phone, NEW pool \in Access, Grant(p, pool)
  PROVE  Plain
<1>1. PICK c \in pool : /\ ch' = [ch EXCEPT ![c] = Open(@)]
                        /\ ph' = [Dismissed(c) EXCEPT ![p] = [Away EXCEPT !.at = c]]
  BY DEF Grant
<1>2. c \in Chan
  BY ChannelsAssumption
<1>3. KeepsPcs
  BY <1>1, <1>2, InvParts, OpenKin, ChannelKept
<1>4. used' \in Counts
  BY InvParts, Counted DEF Grant
<1>5. [Away EXCEPT !.at = c] \in PhoneState
      /\ [Away EXCEPT !.at = c].brings # "HandoverComplete"
  BY <1>2 DEF Away, PhoneState, Uplink
<1>6. KeepsPhones
  <2> DEFINE x == [Away EXCEPT !.at = c]
             rest == Dismissed(c)
  <2>1. x \in PhoneState /\ x.brings # "HandoverComplete"
        /\ ph' = [rest EXCEPT ![p] = x]
    BY <1>1, <1>5
  <2>2. /\ rest \in [Phone -> PhoneState]
        /\ \A q \in Phone : \/ rest[q].brings # "HandoverComplete"
                            \/ rest[q].ref = ph[q].ref /\ rest[q].brings = ph[q].brings
    <3>1. Away.brings # "HandoverComplete"
      BY DEF Away
    <3> QED
      BY <3>1, InvParts, DismissedIs
  <2> HIDE DEF x, rest
  <2> QED
    BY <2>1, <2>2 DEF KeepsPhones, Comes
<1> QED
  BY <1>3, <1>4, <1>6, RadioPlain DEF Grant

(* What a phone says on its channel.                                       *)
LEMMA SayKept ==
  ASSUME ConnectionsInv, NEW c \in Chan, NEW f \in L3Frame, Say(c, f)
  PROVE  KeepsPcs
BY InvParts, UpKin, ChannelKept DEF Say

LEMMA SeizePlain ==
  ASSUME ConnectionsInv, NEW p \in Phone, Seize(p)
  PROVE  Plain
<1> DEFINE c == ph[p].at
           first == ph[p].brings = "MM"
           x == Up([ch[c] EXCEPT !.l1 = "T3109", !.link = TRUE], Bare("ESTABLISH"))
           y == IF first THEN Up(x, Data("MM", p)) ELSE x
           stage == IF first THEN "talking" ELSE "linked"
<1>1. ch' = [ch EXCEPT ![c] = y] /\ ph' = [ph EXCEPT ![p].stage = stage]
      /\ UNCHANGED <<table, sig, toYate, toBts, conn, handovers, used>>
      /\ c # None
  BY DEF Seize
<1>2. c \in Chan
  BY <1>1, InvParts DEF PhoneState
<1>3. Kin(ch[c], y)
  <2> DEFINE z == [ch[c] EXCEPT !.l1 = "T3109", !.link = TRUE]
  <2>1. Kin(ch[c], z)
    <3>1. ch[c] \in Channel
      BY <1>2, InvParts
    <3> HIDE DEF c, first, x, y, stage
    <3> QED
      BY <3>1 DEF Kin, Channel
  <2> HIDE DEF z
  <2>2. Bare("ESTABLISH") \in L3Frame /\ Data("MM", p) \in L3Frame
    BY Frames DEF Primitives, Uplink
  <2>3. Kin(z, Up(z, Bare("ESTABLISH")))
    BY <2>1, <2>2, UpKin DEF Kin
  <2>4. x = Up(z, Bare("ESTABLISH"))
    BY DEF z
  <2> HIDE DEF x
  <2>5. Kin(x, Up(x, Data("MM", p)))
    BY <2>2, <2>3, <2>4, UpKin DEF Kin
  <2> QED
    BY <2>1, <2>3, <2>4, <2>5 DEF Kin
<1>4. KeepsPcs
  BY <1>1, <1>2, <1>3, ChannelKept
<1>5. KeepsPhones
  <2>1. stage \in {"asking", "linked", "talking"}
    OBVIOUS
  <2> HIDE DEF stage
  <2> QED
    BY <1>1, <2>1, InvParts, BearingKept
<1>6. used' \in Counts
  BY <1>1, InvParts
<1> QED
  BY <1>1, <1>4, <1>5, <1>6, RadioPlain

LEMMA AnnouncePlain ==
  ASSUME ConnectionsInv, NEW p \in Phone, Announce(p)
  PROVE  Plain
<1>1. ph[p].at \in Chan /\ ph[p].brings \in Uplink
  BY InvParts DEF Announce, PhoneState
<1>2. KeepsPcs
  BY <1>1, Frames, SayKept DEF Announce
<1>3. KeepsPhones
  BY InvParts, BearingKept DEF Announce
<1> QED
  BY <1>2, <1>3, InvParts, RadioPlain DEF Announce

LEMMA TalkPlain ==
  ASSUME ConnectionsInv, NEW p \in Phone, Talk(p)
  PROVE  Plain
<1>1. ph[p].at \in Chan /\ "CC" \in Uplink
  BY InvParts DEF Talk, PhoneState, Uplink
<1>2. KeepsPcs
  BY <1>1, Frames, SayKept DEF Talk
<1>3. KeepsPhones /\ used' \in Counts
  BY InvParts, PhonesKept, Counted DEF Talk
<1> QED
  BY <1>2, <1>3, RadioPlain DEF Talk

LEMMA AwayKept ==
  ASSUME ConnectionsInv, NEW p \in Phone, ph' = [ph EXCEPT ![p] = Away]
  PROVE  KeepsPhones
<1>1. Away.brings # "HandoverComplete"
  BY DEF Away
<1> QED
  BY <1>1, AwayIs, InvParts, PhoneKept

LEMMA ObeyReleasePlain ==
  ASSUME ConnectionsInv, NEW p \in Phone, ObeyRelease(p)
  PROVE  Plain
<1> DEFINE c == ph[p].at
           y == IF ch[c].link THEN Closed(ch[c], "RELEASE") ELSE ch[c]
<1>1. c \in Chan
  BY InvParts DEF ObeyRelease, PhoneState
<1>2. Kin(ch[c], y) /\ ch' = [ch EXCEPT ![c] = y]
  BY <1>1, InvParts, ClosedKin DEF ObeyRelease, Kin
<1>3. KeepsPcs
  BY <1>1, <1>2, ChannelKept
<1> QED
  BY <1>3, AwayKept, InvParts, RadioPlain DEF ObeyRelease

LEMMA ObeyModifyPlain ==
  ASSUME ConnectionsInv, NEW p \in Phone, ObeyModify(p)
  PROVE  Plain
<1>1. ph[p].at \in Chan /\ "ModeModifyAck" \in Uplink
  BY InvParts DEF ObeyModify, PhoneState, Uplink
<1>2. KeepsPcs
  BY <1>1, Frames, SayKept DEF ObeyModify
<1>3. KeepsPhones
  BY InvParts, BearingKept DEF ObeyModify
<1> QED
  BY <1>2, <1>3, InvParts, RadioPlain DEF ObeyModify

LEMMA ObeyAssignmentPlain ==
  ASSUME ConnectionsInv, NEW p \in Phone, ObeyAssignment(p)
  PROVE  Plain
<1> DEFINE x == [Away EXCEPT !.at = ph[p].order, !.back = ph[p].at,
                             !.brings = "AssignmentComplete"]
<1>1. x \in PhoneState /\ x.brings # "HandoverComplete"
  BY InvParts DEF ObeyAssignment, Away, PhoneState, Uplink
<1>2. ph' = [ph EXCEPT ![p] = x]
  BY DEF ObeyAssignment
<1> HIDE DEF x
<1>3. KeepsPhones
  BY <1>1, <1>2, InvParts, PhoneKept
<1> QED
  BY <1>3, InvParts, ChannelKept, RadioPlain DEF ObeyAssignment

LEMMA AssignmentFailsPlain ==
  ASSUME ConnectionsInv, NEW p \in Phone, AssignmentFails(p)
  PROVE  Plain
<1> DEFINE c == ph[p].back
           x == [Away EXCEPT !.at = c, !.stage = "talking"]
<1>1. c \in Chan /\ "AssignmentFailure" \in Uplink
  BY InvParts DEF AssignmentFails, PhoneState, Uplink
<1>2. KeepsPcs /\ KeepsPhones
  <2>1. CASE ch[c].link
    <3>1. x \in PhoneState /\ x.brings # "HandoverComplete"
      BY <1>1 DEF Away, PhoneState, Uplink
    <3>2. ph' = [ph EXCEPT ![p] = x] /\ Say(c, Data("AssignmentFailure", p))
      BY <2>1 DEF AssignmentFails
    <3> HIDE DEF x
    <3>3. KeepsPhones
      BY <3>1, <3>2, InvParts, PhoneKept
    <3> QED
      BY <1>1, <3>2, <3>3, Frames, SayKept
  <2>2. CASE ~ch[c].link
    BY <2>2, AwayKept, ChannelKept DEF AssignmentFails
  <2> QED
    BY <2>1, <2>2
<1>3. used' \in Counts
  BY InvParts, Counted DEF AssignmentFails
<1> QED
  BY <1>2, <1>3, RadioPlain DEF AssignmentFails

LEMMA HandoverBurstPlain ==
  ASSUME ConnectionsInv, NEW p \in Phone, HandoverBurst(p)
  PROVE  Plain
<1>1. ph[p].at \in Chan /\ "HANDOVER_ACCESS" \in Primitives
  BY InvParts DEF HandoverBurst, PhoneState, Primitives
<1>2. KeepsPcs
  BY <1>1, Frames, SayKept DEF HandoverBurst
<1> QED
  BY <1>2, InvParts, PhonesKept, RadioPlain DEF HandoverBurst

LEMMA LeavePlain ==
  ASSUME ConnectionsInv, NEW p \in Phone, Leave(p)
  PROVE  Plain
BY AwayKept, InvParts, ChannelKept, RadioPlain DEF Leave

LEMMA RadioIsPlain ==
  ASSUME ConnectionsInv, Radio
  PROVE  Plain
BY TimerExpiresPlain, LinkFailsPlain, GrantPlain, SeizePlain, AnnouncePlain,
   TalkPlain, HandoverBurstPlain, LeavePlain, ObeyReleasePlain,
   ObeyModifyPlain, ObeyAssignmentPlain, AssignmentFailsPlain
DEF Radio

-----------------------------------------------------------------------------
(* The dispatchers                                                         *)

TableKept ==
  /\ table' \in Table
  /\ \A i \in Id : table'.mMap[i].mHoRef \in {NoRef, table.mMap[i].mHoRef}

SlotsKept == \A i \in Id : table'.mMap[i].mChan \in {table.mMap[i].mChan, None}

Tells ==
  \/ toYate' = toYate
  \/ \E m \in ToYate : m.t # "HandoverAck" /\ toYate' = Append(toYate, m)

(* What the dispatcher at x may make of its channel.                       *)
Follows(y) == y \in Channel /\ (y.pc \in Serving => y.id \in Id)
Stays(c, y) == Follows(y) /\ (y.pc \in {"wait", "first", "handover"} => Waiting(c))

LEMMA GoesOn ==
  ASSUME NEW c, NEW x \in Channel
  PROVE  /\ \A pc \in Serving : x.id \in Id => Stays(c, [x EXCEPT !.pc = pc])
         /\ \A id \in Id : Follows([x EXCEPT !.pc = "recv", !.id = id])
         /\ \A pc \in {"wait", "first", "handover"} :
              Waiting(c) => Stays(c, [x EXCEPT !.pc = pc])
<1>1. ASSUME NEW pc \in Serving, x.id \in Id
      PROVE  Stays(c, [x EXCEPT !.pc = pc])
  <2>1. pc \in Places /\ pc \notin {"wait", "first", "handover"}
    BY DEF Places, Serving
  <2> DEFINE y == [x EXCEPT !.pc = pc]
  <2>2. y \in Channel /\ y.pc = pc /\ y.id = x.id
    BY <2>1, Goes
  <2> HIDE DEF y
  <2> QED
    BY <1>1, <2>1, <2>2 DEF Stays, Follows, y
<1>2. ASSUME NEW id \in Id
      PROVE  Follows([x EXCEPT !.pc = "recv", !.id = id])
  <2>1. "recv" \in Places /\ id \in Id \cup {-1}
    BY DEF Places, Serving
  <2> DEFINE y == [x EXCEPT !.pc = "recv", !.id = id]
  <2>2. y \in Channel /\ y.id = id
    BY <2>1 DEF Channel
  <2> HIDE DEF y
  <2> QED
    BY <2>2 DEF Follows, y
<1>3. ASSUME NEW pc \in {"wait", "first", "handover"}, Waiting(c)
      PROVE  Stays(c, [x EXCEPT !.pc = pc])
  <2>1. pc \in Places /\ pc \notin Serving
    BY DEF Places, Serving
  <2> DEFINE y == [x EXCEPT !.pc = pc]
  <2>2. y \in Channel /\ y.pc = pc
    BY <2>1, Goes
  <2> HIDE DEF y
  <2> QED
    BY <1>3, <2>1, <2>2 DEF Stays, Follows, y
<1> QED
  BY <1>1, <1>2, <1>3

LEMMA TellsTyped ==
  ASSUME ConnectionsInv, Tells
  PROVE  toYate' \in Seq(ToYate)
<1>1. toYate \in Seq(ToYate)
  BY InvParts
<1> QED
  BY <1>1 DEF Tells

LEMMA DispatcherMoves ==
  ASSUME ConnectionsInv, NEW c \in Chan, NEW y, Follows(y), Becomes(c, y),
         TableKept, Tells, KeepsPhones, used' \in Counts, DispatcherOnly
  PROVE  /\ ConnectionsInv' /\ RefStep
         /\ SlotsKept /\ Stays(c, y) => Plain
<1>1. ChannelsTyped'
  BY InvParts, Replaces DEF Follows, Becomes
<1>2. toYate' \in Seq(ToYate)
  BY TellsTyped
<1>3. ConnectionsInv'
  BY <1>1, <1>2, InvParts DEF ConnectionsInv, TypeOK, Spoken, ChannelsTyped,
       TableKept, KeepsPhones, Counts, DispatcherOnly
<1>4. RefStep
  BY DEF RefStep, TableKept, Tells, KeepsPhones, DispatcherOnly
<1>5. ASSUME SlotsKept, Stays(c, y)
      PROVE  UseStep
  <2>1. \A d \in Chan : ch'[d] = IF d = c THEN y ELSE ch[d]
    BY InvParts DEF ChannelsTyped, Becomes
  <2> QED
    BY <1>5, <2>1 DEF UseStep, SlotsKept, Stays, Waiting
<1> QED
  BY <1>3, <1>4, <1>5 DEF Plain

LEMMA SameTable ==
  ASSUME ConnectionsInv, UNCHANGED table
  PROVE  TableKept /\ SlotsKept
BY InvParts DEF TableKept, SlotsKept

LEMMA SameOthers ==
  ASSUME ConnectionsInv
  PROVE  /\ UNCHANGED toYate => Tells
         /\ UNCHANGED used => used' \in Counts
         /\ \A c : ReadTimesOut(c) => used' \in Counts
BY InvParts, Counted DEF Tells, ReadTimesOut

LEMMA UnmapKeeps ==
  ASSUME ConnectionsInv, NEW c \in Chan, table' = UnmapChan(table, c)
  PROVE  TableKept /\ SlotsKept
<1>1. CASE Find(table, c) = -1
  BY <1>1, InvParts, UnmapChanIs DEF TableKept, SlotsKept
<1>2. CASE Find(table, c) # -1
  <2> DEFINE i == Find(table, c)
             new == [mChan |-> None, mMedia |-> None, mHoRef |-> NoRef]
  <2>1. i \in Id /\ table' \in Table /\ table'.mMap = [table.mMap EXCEPT ![i] = new]
    BY <1>2, InvParts, UnmapChanIs
  <2>2. \A j \in Id : table'.mMap[j] = IF j = i THEN new ELSE table.mMap[j]
    BY <2>1, InvParts DEF Table
  <2> QED
    BY <2>1, <2>2 DEF TableKept, SlotsKept
<1> QED
  BY <1>1, <1>2

LEMMA PoppedIs ==
  ASSUME ConnectionsInv, NEW c \in Chan, ch[c].l3 # <<>>
  PROVE  /\ Popped(c) \in Channel /\ Head(ch[c].l3) \in L3Frame
         /\ Popped(c).pc = ch[c].pc /\ Popped(c).id = ch[c].id
         /\ ch[c].pc \in Serving => ch[c].id \in Id
BY InvParts, PoppedKin DEF Kin, ChannelsTyped, Placed

LEMMA AwaitPlain ==
  ASSUME ConnectionsInv, NEW c \in Chan, Await(c)
  PROVE  Plain
<1> DEFINE prim == Head(ch[c].l3).prim
           id == Find(table, c)
<1>1. /\ ch[c].pc = "wait" /\ ch[c].l3 # <<>> /\ Waiting(c)
      /\ DispatcherOnly /\ UNCHANGED <<toYate, ph, used>>
  BY DEF Await, At, Waiting
<1>2. /\ Popped(c) \in Channel /\ Popped(c).pc = "wait"
      /\ Popped(c).id = ch[c].id
  BY <1>1, PoppedIs
<1>3. Tells /\ KeepsPhones /\ used' \in Counts
  BY <1>1, SameOthers, InvParts, PhonesKept
<1>4. CASE prim = "ESTABLISH" /\ Becomes(c, [Popped(c) EXCEPT !.pc = "first"])
           /\ UNCHANGED table
  <2>1. Stays(c, [Popped(c) EXCEPT !.pc = "first"])
    BY <1>1, <1>2, GoesOn
  <2> QED
    BY <1>1, <1>3, <1>4, <2>1, SameTable, DispatcherMoves DEF Stays
<1>5. CASE /\ id = -1 /\ UNCHANGED table
           /\ Becomes(c, Closed(Popped(c), "HARDRELEASE"))
  <2>1. Stays(c, Closed(Popped(c), "HARDRELEASE"))
    BY <1>1, <1>2, ClosedKin DEF Stays, Follows, Kin, Serving
  <2> QED
    BY <1>1, <1>3, <1>5, <2>1, SameTable, DispatcherMoves DEF Stays
<1>6. CASE /\ id # -1 /\ table' = TakeTA(table, id)
           /\ Becomes(c, [Popped(c) EXCEPT !.pc = "handover",
                                           !.handoverPending = FALSE])
  <2>1. Stays(c, [Popped(c) EXCEPT !.pc = "handover", !.handoverPending = FALSE])
    BY <1>1, <1>2 DEF Stays, Follows, Serving, Channel
  <2>2. id \in Id
    BY <1>6, FindIs
  <2>3. TableKept /\ SlotsKept
    BY <1>6, <2>2, InvParts, TakeTAIs DEF TableKept, SlotsKept
  <2> QED
    BY <1>1, <1>3, <1>6, <2>1, <2>3, DispatcherMoves DEF Stays
<1>7. CASE /\ prim \notin {"ESTABLISH", "HANDOVER_ACCESS"}
           /\ Becomes(c, Popped(c)) /\ UNCHANGED table
  <2>1. Stays(c, Popped(c))
    BY <1>1, <1>2 DEF Stays, Follows, Serving
  <2> QED
    BY <1>1, <1>3, <1>7, <2>1, SameTable, DispatcherMoves DEF Stays
<1> QED
  BY <1>4, <1>5, <1>6, <1>7 DEF Await

LEMMA AwaitHandoverPlain ==
  ASSUME ConnectionsInv, NEW c \in Chan, AwaitHandover(c)
  PROVE  Plain
<1>1. /\ ch[c].pc = "handover" /\ Waiting(c) /\ ch[c] \in Channel
      /\ DispatcherOnly /\ UNCHANGED <<table, toYate, ph>>
  BY InvParts DEF AwaitHandover, At, Waiting
<1>2. Tells /\ KeepsPhones /\ TableKept /\ SlotsKept
  BY <1>1, SameOthers, InvParts, PhonesKept, SameTable
<1>3. CASE ReadTimesOut(c) /\ Becomes(c, Leaves(ch[c]))
  <2>1. Stays(c, Leaves(ch[c]))
    BY <1>1, LeavesIs DEF Stays, Follows, Serving
  <2> QED
    BY <1>1, <1>2, <1>3, <2>1, SameOthers, DispatcherMoves DEF Stays
<1>4. CASE ch[c].l3 # <<>>
  <2> DEFINE prim == Head(ch[c].l3).prim
             y == CASE prim = "HANDOVER_ACCESS" -> Popped(c)
                    [] prim = "ESTABLISH" -> [Popped(c) EXCEPT !.pc = "first"]
                    [] OTHER -> Leaves(Popped(c))
  <2>1. Becomes(c, y) /\ UNCHANGED used
    BY <1>4 DEF AwaitHandover, ReadTimesOut
  <2>2. Popped(c) \in Channel /\ Popped(c).pc = "handover"
    BY <1>1, <1>4, PoppedIs
  <2>3. /\ Stays(c, Popped(c)) /\ Stays(c, Leaves(Popped(c)))
        /\ Stays(c, [Popped(c) EXCEPT !.pc = "first"])
    <3>1. Stays(c, [Popped(c) EXCEPT !.pc = "first"])
      BY <1>1, <2>2, GoesOn
    <3> QED
      BY <1>1, <2>2, <3>1, LeavesIs DEF Stays, Follows, Serving
  <2>4. Stays(c, y)
    BY <2>3
  <2> HIDE DEF y
  <2> QED
    BY <1>1, <1>2, <2>1, <2>4, SameOthers, DispatcherMoves DEF Stays
<1> QED
  BY <1>3, <1>4 DEF AwaitHandover

LEMMA FirstIsNonePlain ==
  ASSUME ConnectionsInv, NEW c \in Chan, FirstIsNone(c)
  PROVE  Plain
<1>1. /\ ch[c].pc = "first" /\ Waiting(c) /\ ch[c] \in Channel
      /\ DispatcherOnly /\ UNCHANGED toYate
  BY InvParts DEF FirstIsNone, At, Waiting
<1>2. Tells
  BY <1>1, SameOthers
<1>3. CASE ReadTimesOut(c) /\ Becomes(c, Leaves(ch[c]))
           /\ table' = UnmapChan(table, c) /\ UNCHANGED ph
  <2>1. Stays(c, Leaves(ch[c]))
    BY <1>1, LeavesIs DEF Stays, Follows, Serving
  <2>2. used' \in Counts /\ KeepsPhones
    BY <1>3, SameOthers, InvParts, PhonesKept
  <2> QED
    BY <1>1, <1>2, <1>3, <2>1, <2>2, UnmapKeeps, DispatcherMoves DEF Stays
<1>4. CASE /\ ch[c].l3 # <<>>
           /\ Becomes(c, SendL3(Leaves(Popped(c))))
           /\ ph' = Told(c, "release")
           /\ UNCHANGED <<table, used>>
  <2>1. Popped(c) \in Channel
    BY <1>4, PoppedIs
  <2>2. Kin(Leaves(Popped(c)), SendL3(Leaves(Popped(c))))
    BY <2>1, LeavesIs, SendL3Kin
  <2>3. Stays(c, SendL3(Leaves(Popped(c))))
    BY <1>1, <2>1, <2>2, LeavesIs DEF Kin, Stays, Follows, Serving
  <2>4. used' \in Counts /\ KeepsPhones
    BY <1>4, SameOthers, InvParts, PhonesKept
  <2> QED
    BY <1>1, <1>2, <1>4, <2>3, <2>4, SameTable, DispatcherMoves DEF Stays
<1> QED
  BY <1>3, <1>4 DEF FirstIsNone

LEMMA SaysToYate ==
  ASSUME NEW m \in ToYate, m.t # "HandoverAck", ToYateAlso(m)
  PROVE  Tells
BY DEF ToYateAlso, Tells

LEMMA ForwardPlain ==
  ASSUME ConnectionsInv, NEW c \in Chan, Forward(c)
  PROVE  Plain
<1>1. /\ ch[c].pc = "recv" /\ ch[c].l3 # <<>>
      /\ Becomes(c, Loop(c, Popped(c)))
      /\ ToYateAlso(Forwarded(ch[c].id, Head(ch[c].l3)))
      /\ DispatcherOnly /\ UNCHANGED <<table, ph, used>>
  BY DEF Forward, At
<1>2. Popped(c) \in Channel /\ Popped(c).pc = "recv" /\ Popped(c).id \in Id
      /\ ch[c].id \in Id /\ Head(ch[c].l3) \in L3Frame
  BY <1>1, PoppedIs DEF Serving
<1>3. Stays(c, Loop(c, Popped(c)))
  <2> DEFINE x == Popped(c)
  <2>1. x \in Channel /\ x.id \in Id
    BY <1>2
  <2> HIDE DEF x
  <2>2. PICK pc \in Serving : Loop(c, x) = [x EXCEPT !.pc = pc]
    BY DEF Loop, Serving
  <2>3. Stays(c, [x EXCEPT !.pc = pc])
    BY <2>1, GoesOn
  <2> QED
    BY <2>2, <2>3 DEF x
<1>4. Tells
  BY <1>1, <1>2, ToYateMsgs, SaysToYate
<1>5. used' \in Counts /\ KeepsPhones
  BY <1>1, SameOthers, InvParts, PhonesKept
<1> QED
  BY <1>1, <1>3, <1>4, <1>5, SameTable, DispatcherMoves DEF Stays

LEMMA BreakPlain ==
  ASSUME ConnectionsInv, NEW c \in Chan, Break(c)
  PROVE  Plain
<1> DEFINE x == SendRelease(Popped(c))
<1>1. /\ ch[c].pc = "recv" /\ ch[c].l3 # <<>>
      /\ \/ Becomes(c, [x EXCEPT !.pc = "end"]) /\ ph' = Dismissed(c)
         \/ Becomes(c, [Popped(c) EXCEPT !.pc = "end"]) /\ UNCHANGED ph
      /\ DispatcherOnly /\ UNCHANGED <<table, toYate, used>>
  BY DEF Break, At
<1>2. Popped(c) \in Channel /\ Popped(c).id \in Id
  BY <1>1, PoppedIs DEF Serving
<1>3. x \in Channel /\ x.id \in Id
  BY <1>2, SendReleaseKin DEF Kin
<1> HIDE DEF x
<1>4. Stays(c, [x EXCEPT !.pc = "end"]) /\ Stays(c, [Popped(c) EXCEPT !.pc = "end"])
  BY <1>2, <1>3, GoesOn DEF Serving
<1>5. Tells /\ used' \in Counts /\ KeepsPhones
  BY <1>1, SameOthers, InvParts, PhonesKept
<1> QED
  BY <1>1, <1>4, <1>5, SameTable, DispatcherMoves DEF Stays

LEMMA EndsPlain ==
  ASSUME ConnectionsInv, NEW c \in Chan, ch[c].pc \in Serving,
         NEW pc \in Serving, Becomes(c, [ch[c] EXCEPT !.pc = pc]), Tells,
         DispatcherOnly, UNCHANGED <<table, ph, used>>
  PROVE  Plain
<1>1. ch[c] \in Channel /\ ch[c].id \in Id
  BY InvParts DEF ChannelsTyped, Placed
<1>2. Stays(c, [ch[c] EXCEPT !.pc = pc])
  BY <1>1, GoesOn
<1>3. used' \in Counts /\ KeepsPhones
  BY SameOthers, InvParts, PhonesKept
<1> QED
  BY <1>2, <1>3, SameTable, DispatcherMoves DEF Stays

LEMMA IdlePlain ==
  ASSUME ConnectionsInv, NEW c \in Chan, Idle(c)
  PROVE  Plain
BY SameOthers, EndsPlain DEF Idle, At, Serving

LEMMA EndPlain ==
  ASSUME ConnectionsInv, NEW c \in Chan, End(c)
  PROVE  Plain
<1>1. PICK pc \in {"lost", "release", "unmap"} : EndsAs(c, pc)
  BY DEF End
<1> QED
  BY <1>1, SameOthers, EndsPlain DEF EndsAs, At, Serving

LEMMA ReportLostPlain ==
  ASSUME ConnectionsInv, NEW c \in Chan, ReportLost(c)
  PROVE  Plain
<1>1. ch[c].pc = "lost" /\ ch[c].id \in Id
  BY InvParts DEF ReportLost, At, ChannelsTyped, Placed, Serving
<1>2. ToYateMsg("Lost", ch[c].id) \in ToYate
      /\ ToYateMsg("Lost", ch[c].id).t # "HandoverAck"
  BY <1>1, ToYateMsgs DEF ToYateMsg
<1>3. Tells
  BY <1>2, SaysToYate DEF ReportLost
<1> QED
  BY <1>1, <1>3, EndsPlain DEF ReportLost, Serving

LEMMA ReleaseClosedPlain ==
  ASSUME ConnectionsInv, NEW c \in Chan, ReleaseClosed(c)
  PROVE  Plain
<1> DEFINE x == SendRelease(ch[c])
<1>1. /\ ch[c].pc = "release"
      /\ Becomes(c, [x EXCEPT !.pc = "unmap"])
      /\ ph' = IF ch[c].link THEN Dismissed(c) ELSE ph
      /\ DispatcherOnly /\ UNCHANGED <<table, toYate, used>>
  BY DEF ReleaseClosed, At
<1>2. ch[c] \in Channel /\ ch[c].id \in Id
  BY <1>1, InvParts DEF ChannelsTyped, Placed, Serving
<1>3. x \in Channel /\ x.id \in Id
  BY <1>2, SendReleaseKin DEF Kin
<1> HIDE DEF x
<1>4. Stays(c, [x EXCEPT !.pc = "unmap"])
  BY <1>3, GoesOn DEF Serving
<1>5. Tells /\ used' \in Counts /\ KeepsPhones
  BY <1>1, SameOthers, InvParts, PhonesKept
<1> QED
  BY <1>1, <1>4, <1>5, SameTable, DispatcherMoves DEF Stays

(* The steps that give a channel to a connection, or take it away.         *)

LEMMA UnmapHolds ==
  ASSUME ConnectionsInv, NEW c \in Chan, Unmap(c)
  PROVE  ConnectionsInv' /\ RefStep /\ SlotsKept
<1>1. Follows(Leaves(ch[c])) /\ Becomes(c, Leaves(ch[c]))
  BY InvParts, LeavesIs DEF Unmap, Follows, Serving
<1>2. TableKept /\ SlotsKept
  BY UnmapKeeps DEF Unmap
<1>3. Tells /\ used' \in Counts /\ KeepsPhones /\ DispatcherOnly
  BY SameOthers, InvParts, PhonesKept DEF Unmap
<1> QED
  BY <1>1, <1>2, <1>3, DispatcherMoves

LEMMA FirstOfChannelHolds ==
  ASSUME ConnectionsInv, NEW c \in Chan, FirstOfChannel(c)
  PROVE  ConnectionsInv' /\ RefStep
<1> DEFINE f == Head(ch[c].l3)
           id == MapId(table, c)
           y == [Popped(c) EXCEPT !.pc = "recv", !.id = id]
<1>1. /\ ch[c].pc = "first" /\ ch[c].l3 # <<>>
      /\ DispatcherOnly /\ UNCHANGED <<ph, used>>
  BY DEF FirstOfChannel, At
<1>2. Popped(c) \in Channel /\ f \in L3Frame
  BY <1>1, PoppedIs
<1>3. used' \in Counts /\ KeepsPhones
  BY <1>1, SameOthers, InvParts, PhonesKept
<1>4. CASE id = -1
  <2>1. Becomes(c, Leaves(Popped(c))) /\ UNCHANGED <<table, toYate>>
    BY <1>4 DEF FirstOfChannel
  <2>2. Follows(Leaves(Popped(c)))
    BY <1>2, LeavesIs DEF Follows, Serving
  <2> QED
    BY <1>1, <1>3, <2>1, <2>2, SameTable, SameOthers, DispatcherMoves
<1>5. CASE id # -1
  <2>1. Becomes(c, y) /\ table' = Map(table, c, NoRef)
        /\ ToYateAlso(L3ToYate(id, f))
    BY <1>5 DEF FirstOfChannel
  <2>2. id \in Id
    BY <1>5, InvParts, MapIs
  <2> HIDE DEF id
  <2>3. Follows(y)
    BY <1>2, <2>2, GoesOn
  <2>4. L3ToYate(id, f) \in ToYate /\ L3ToYate(id, f).t # "HandoverAck"
    BY <1>2, <2>2, ToYateMsgs DEF L3ToYate, ToYateMsg
  <2>5. TableKept
    <3> USE DEF id
    <3> DEFINE new == [mChan |-> c, mMedia |-> None, mHoRef |-> NoRef]
    <3>1. table \in Table /\ table' \in Table
      BY <2>1, InvParts, MapIs
    <3>2. \/ table' = table
          \/ table'.mMap = [table.mMap EXCEPT ![id] = new]
      BY <2>1, InvParts, MapIs
    <3>3. \A i \in Id : table'.mMap[i] \in {table.mMap[i], new}
      BY <3>1, <3>2 DEF Table
    <3> QED
      BY <3>1, <3>3 DEF TableKept
  <2>6. Tells
    BY <2>1, <2>4, SaysToYate
  <2> QED
    BY <1>1, <1>3, <2>1, <2>3, <2>5, <2>6, DispatcherMoves
<1> QED
  BY <1>4, <1>5

LEMMA FirstOfReassignedHolds ==
  ASSUME ConnectionsInv, NEW c \in Chan, FirstOfReassigned(c)
  PROVE  ConnectionsInv' /\ RefStep
<1> DEFINE f == Head(ch[c].l3)
           id == IF c \in Tch /\ f.msg = "AssignmentComplete"
                 THEN RemapId(table, c) ELSE -1
           y == [Popped(c) EXCEPT !.pc = "recv", !.id = id]
<1>1. /\ ch[c].pc = "first" /\ ch[c].l3 # <<>>
      /\ DispatcherOnly /\ UNCHANGED <<ph, used>>
  BY DEF FirstOfReassigned, At
<1>2. Popped(c) \in Channel /\ f \in L3Frame
  BY <1>1, PoppedIs
<1>3. used' \in Counts /\ KeepsPhones
  BY <1>1, SameOthers, InvParts, PhonesKept
<1>4. CASE id = -1
  <2>1. /\ Becomes(c, Leaves(Popped(c))) /\ UNCHANGED toYate
        /\ table' = UnmapChan(table, c)
    BY <1>4 DEF FirstOfReassigned
  <2>2. Follows(Leaves(Popped(c)))
    BY <1>2, LeavesIs DEF Follows, Serving
  <2> QED
    BY <1>1, <1>3, <2>1, <2>2, UnmapKeeps, SameOthers, DispatcherMoves
<1>5. CASE id # -1
  <2>1. Becomes(c, y) /\ table' = Remap(table, c)
        /\ ToYateAlso(ToYateMsg("Started", id)) /\ id = RemapId(table, c)
    BY <1>5 DEF FirstOfReassigned
  <2>2. /\ id \in Id /\ table' \in Table
        /\ table'.mMap[id].mHoRef = NoRef
        /\ \A j \in Id \ {id} : table'.mMap[j] = table.mMap[j]
    BY <1>5, <2>1, InvParts, RemapIs
  <2> HIDE DEF id
  <2>3. Follows(y)
    BY <1>2, <2>2, GoesOn
  <2>4. ToYateMsg("Started", id) \in ToYate
        /\ ToYateMsg("Started", id).t # "HandoverAck"
    BY <2>2, ToYateMsgs DEF ToYateMsg
  <2>5. Tells
    BY <2>1, <2>4, SaysToYate
  <2>6. TableKept
    BY <2>2 DEF TableKept
  <2> QED
    BY <1>1, <1>3, <2>1, <2>3, <2>5, <2>6, DispatcherMoves
<1> QED
  BY <1>4, <1>5

LEMMA DispatchHolds ==
  ASSUME ConnectionsInv, NEW c \in Chan, Dispatch(c)
  PROVE  /\ ConnectionsInv' /\ RefStep
         /\ \/ UseStep
            \/ Unmap(c) \/ FirstOfChannel(c) \/ FirstOfReassigned(c)
<1>1. CASE Await(c) \/ AwaitHandover(c) \/ FirstIsNone(c) \/ Forward(c) \/ Break(c)
  BY <1>1, AwaitPlain, AwaitHandoverPlain, FirstIsNonePlain, ForwardPlain,
     BreakPlain DEF Plain
<1>2. CASE Idle(c) \/ End(c) \/ ReportLost(c) \/ ReleaseClosed(c)
  BY <1>2, IdlePlain, EndPlain, ReportLostPlain, ReleaseClosedPlain DEF Plain
<1>3. CASE Unmap(c) \/ FirstOfChannel(c) \/ FirstOfReassigned(c)
  BY <1>3, UnmapHolds, FirstOfChannelHolds, FirstOfReassignedHolds
<1> QED
  BY <1>1, <1>2, <1>3 DEF Dispatch

-----------------------------------------------------------------------------
(* The thread that serves Yate's requests                                  *)

LEMMA ServeMoves ==
  ASSUME ConnectionsInv, KeepsPcs, TableKept, SlotsKept, Tells, KeepsPhones,
         \/ toBts' = toBts
         \/ toBts # <<>> /\ toBts' = Tail(toBts),
         sig' \in [chan : Chan \cup {None}, hard : BOOLEAN], Spoken', SigOnly
  PROVE  Plain
<1>1. toBts' \in Seq(ToBts) /\ toYate' \in Seq(ToYate)
  <2>1. toBts \in Seq(ToBts)
    BY InvParts
  <2>2. toBts' \in Seq(ToBts)
    BY <2>1, ToBtsParts
  <2>3. toYate' \in Seq(ToYate)
    BY TellsTyped
  <2> QED
    BY <2>2, <2>3
<1>2. ConnectionsInv'
  BY <1>1, InvParts DEF ConnectionsInv, TypeOK, ChannelsTyped, KeepsPcs,
       TableKept, KeepsPhones, Counts, SigOnly
<1>3. RefStep
  BY DEF RefStep, TableKept, Tells, KeepsPhones, SigOnly
<1>4. UseStep
  BY DEF UseStep, SlotsKept, KeepsPcs, Waiting
<1> QED
  BY <1>2, <1>3, <1>4 DEF Plain

LEMMA RequestMoves ==
  ASSUME ConnectionsInv, NEW t, Request(t), UNCHANGED sig, KeepsPcs, TableKept,
         SlotsKept, Tells, KeepsPhones, SigOnly
  PROVE  Plain
<1>1. sig' \in [chan : Chan \cup {None}, hard : BOOLEAN] /\ Spoken'
  BY InvParts DEF ConnectionsInv, Spoken
<1>2. toBts # <<>> /\ toBts' = Tail(toBts)
  BY DEF Request
<1> QED
  BY <1>1, <1>2, ServeMoves

LEMMA MediaKept ==
  ASSUME ConnectionsInv, NEW id, NEW c \in Chan, table' = MapMedia(table, id, c)
  PROVE  TableKept /\ SlotsKept
BY InvParts, MapMediaIs DEF TableKept, SlotsKept

LEMMA SendL3Kept ==
  ASSUME ConnectionsInv, NEW c \in Chan, Becomes(c, SendL3(ch[c]))
  PROVE  KeepsPcs
BY InvParts, SendL3Kin, ChannelKept DEF Becomes

LEMMA ServeReleasePlain ==
  ASSUME ConnectionsInv, ServeRelease
  PROVE  Plain
<1> DEFINE id == Head(toBts).id
           c == ChanOf(table, id)
<1>1. PICK t \in {"Release", "HardRelease"} :
        /\ Request(t)
        /\ sig' = [chan |-> c, hard |-> t = "HardRelease" /\ c # None]
        /\ table' = UnmapId(table, id)
        /\ UNCHANGED <<ch, toYate, ph>> /\ SigOnly
  BY DEF ServeRelease
<1>2. c \in Chan \cup {None}
  BY InvParts, OfId
<1>3. TableKept /\ SlotsKept
  BY <1>1, InvParts, UnmapIdIs DEF TableKept, SlotsKept
<1> HIDE DEF c
<1>4. sig' \in [chan : Chan \cup {None}, hard : BOOLEAN]
  BY <1>1, <1>2
<1>5. Spoken'
  BY <1>1, <1>2 DEF Spoken, NoSig
<1>6. KeepsPcs /\ Tells /\ KeepsPhones
  BY <1>1, ChannelKept, SameOthers, PhonesKept, InvParts
<1>7. toBts # <<>> /\ toBts' = Tail(toBts)
  BY <1>1 DEF Request
<1> QED
  BY <1>1, <1>3, <1>4, <1>5, <1>6, <1>7, ServeMoves

LEMMA TellReleasePlain ==
  ASSUME ConnectionsInv, TellRelease
  PROVE  Plain
<1> DEFINE c == sig.chan
<1>1. c \in Chan
  BY DEF TellRelease, ConnectionsInv, Spoken
<1>2. KeepsPcs /\ KeepsPhones
  <2>1. CASE Becomes(c, Closed(ch[c], "HARDRELEASE")) /\ UNCHANGED ph
    <3>1. Kin(ch[c], Closed(ch[c], "HARDRELEASE"))
      BY <1>1, InvParts, ClosedKin
    <3> QED
      BY <1>1, <2>1, <3>1, ChannelKept, InvParts, PhonesKept DEF Becomes
  <2>2. CASE Becomes(c, SendL3(ch[c])) /\ ph' = Told(c, "release")
    BY <1>1, <2>2, SendL3Kept, InvParts, PhonesKept
  <2> QED
    BY <2>1, <2>2 DEF TellRelease
<1>3. sig' \in [chan : Chan \cup {None}, hard : BOOLEAN] /\ Spoken'
  BY DEF TellRelease, NoSig, Spoken
<1>4. UNCHANGED <<table, toYate, toBts>> /\ SigOnly
  BY DEF TellRelease
<1> QED
  BY <1>2, <1>3, <1>4, SameTable, SameOthers, ServeMoves

LEMMA ErrorTells ==
  ASSUME ConnectionsInv, NEW id \in Id, ToYateAlso(ToYateMsg("Error", id))
  PROVE  Tells
<1>1. ToYateMsg("Error", id) \in ToYate /\ ToYateMsg("Error", id).t # "HandoverAck"
  BY ToYateMsgs DEF ToYateMsg
<1> QED
  BY <1>1, SaysToYate

(* The traffic channel is opened and the phone is sent there.              *)
LEMMA SentThere ==
  ASSUME ConnectionsInv, NEW c \in Chan, NEW t \in Chan,
         ch' = [ch EXCEPT ![t] = Open(@), ![c] = SendL3(@)],
         ph' = [p \in Phone |-> IF p \in OnLink(t) THEN Away ELSE Told(c, t)[p]]
  PROVE  KeepsPcs /\ KeepsPhones
<1> DEFINE mid == [ch EXCEPT ![t] = Open(ch[t])]
<1>1. ch \in [Chan -> Channel] /\ Placed
  BY InvParts DEF ChannelsTyped
<1>2. Kin(ch[t], Open(ch[t]))
  BY <1>1, OpenKin
<1>3. mid \in [Chan -> Channel] /\ \A d \in Chan : Kin(ch[d], mid[d])
  BY <1>1, <1>2 DEF Kin
<1>4. PICK x \in {ch[c], mid[c]} : ch' = [mid EXCEPT ![c] = SendL3(x)]
  BY <1>1
<1> HIDE DEF mid
<1>5. Kin(ch[c], SendL3(x))
  BY <1>1, <1>3, SendL3Kin DEF Kin
<1>6. ch' \in [Chan -> Channel] /\ \A d \in Chan : Kin(ch[d], ch'[d])
  BY <1>3, <1>4, <1>5 DEF Kin
<1>7. KeepsPcs
  BY <1>1, <1>6 DEF KeepsPcs, ChannelsTyped, Placed, Kin
<1>8. Away.brings # "HandoverComplete"
  BY DEF Away
<1>9. Told(c, t) \in [Phone -> PhoneState]
      /\ \A p \in Phone : Told(c, t)[p].ref = ph[p].ref
                       /\ Told(c, t)[p].brings = ph[p].brings
  <2>1. PhonesTyped /\ t \in {"none", "release", "modify"} \cup Chan
    BY InvParts
  <2> QED
    BY <2>1, ToldIs
<1>10. KeepsPhones
  BY <1>8, <1>9, AwayIs DEF KeepsPhones, Comes
<1> QED
  BY <1>7, <1>10

LEMMA ServeStartPlain ==
  ASSUME ConnectionsInv, ServeStart
  PROVE  Plain
<1> DEFINE id == Head(toBts).id
           c == ChanOf(table, id)
           t == MediaOf(table, id)
<1>1. Request("Start") /\ UNCHANGED sig /\ SigOnly
  BY DEF ServeStart
<1>2. /\ t \in Chan \cup {None} /\ (c # None => id \in Id)
      /\ Sdcch \subseteq Chan /\ Tch \subseteq Chan
  BY InvParts, OfId, ChannelsAssumption
<1>3. CASE UNCHANGED <<ch, table, toYate, ph>>
  BY <1>1, <1>3, ChannelKept, SameTable, SameOthers, InvParts, PhonesKept,
     RequestMoves
<1>4. CASE /\ c \in Tch /\ table' = MapMedia(table, id, c)
           /\ Becomes(c, SendL3(ch[c])) /\ ph' = Told(c, "modify")
           /\ UNCHANGED toYate
  <2>1. c \in Chan
    BY <1>2, <1>4
  <2> HIDE DEF c
  <2>2. KeepsPcs /\ TableKept /\ SlotsKept
    BY <1>4, <2>1, SendL3Kept, MediaKept
  <2>3. KeepsPhones /\ Tells
    BY <1>4, SameOthers, InvParts, PhonesKept
  <2> QED
    BY <1>1, <2>2, <2>3, RequestMoves
<1>5. CASE /\ c \in Sdcch /\ ToYateAlso(ToYateMsg("Error", id))
           /\ UNCHANGED <<ch, table, ph>>
  <2>1. id \in Id
    BY <1>2, <1>5, NoneAssumption
  <2> HIDE DEF id
  <2>2. Tells
    BY <1>5, <2>1, ErrorTells
  <2> QED
    BY <1>1, <1>5, <2>2, ChannelKept, SameTable, InvParts, PhonesKept,
       RequestMoves
<1>6. CASE /\ c \in Sdcch /\ t # None
           /\ ch' = [ch EXCEPT ![t] = Open(@), ![c] = SendL3(@)]
           /\ ph' = [p \in Phone |-> IF p \in OnLink(t) THEN Away
                                                       ELSE Told(c, t)[p]]
           /\ UNCHANGED <<table, toYate>>
  <2>1. c \in Chan /\ t \in Chan
    BY <1>2, <1>6
  <2> HIDE DEF c, t
  <2>2. KeepsPcs /\ KeepsPhones
    BY <1>6, <2>1, SentThere
  <2> QED
    BY <1>1, <1>6, <2>2, SameTable, SameOthers, RequestMoves
<1> QED
  BY <1>3, <1>4, <1>5, <1>6 DEF ServeStart

LEMMA ServeAllocPlain ==
  ASSUME ConnectionsInv, ServeAlloc
  PROVE  Plain
<1> DEFINE id == Head(toBts).id
<1>1. Request("Alloc") /\ UNCHANGED sig /\ SigOnly
  BY DEF ServeAlloc
<1>2. CASE UNCHANGED <<ch, table, toYate, ph>>
  BY <1>1, <1>2, ChannelKept, SameTable, SameOthers, InvParts, PhonesKept,
     RequestMoves
<1>3. ASSUME NEW c \in FreeTch, Becomes(c, Open(ch[c])), ph' = Dismissed(c),
             table' = MapMedia(table, id, c), UNCHANGED toYate
      PROVE  Plain
  <2>1. c \in Chan
    BY ChannelsAssumption DEF FreeTch
  <2>2. Kin(ch[c], Open(ch[c]))
    BY <2>1, InvParts, OpenKin
  <2>3. KeepsPcs /\ TableKept /\ SlotsKept
    BY <1>3, <2>1, <2>2, ChannelKept, MediaKept DEF Becomes
  <2>4. KeepsPhones /\ Tells
    BY <1>3, SameOthers, InvParts, PhonesKept
  <2> QED
    BY <1>1, <2>3, <2>4, RequestMoves
<1>4. CASE /\ ChanOf(table, id) \in Sdcch /\ ToYateAlso(ToYateMsg("Error", id))
           /\ UNCHANGED <<ch, table, ph>>
  <2>1. id \in Id
    BY <1>4, InvParts, OfId, ChannelsAssumption, NoneAssumption
  <2> HIDE DEF id
  <2>2. Tells
    BY <1>4, <2>1, ErrorTells
  <2> QED
    BY <1>1, <1>4, <2>2, ChannelKept, SameTable, InvParts, PhonesKept,
       RequestMoves
<1> QED
  BY <1>2, <1>3, <1>4 DEF ServeAlloc

LEMMA ServeL3Plain ==
  ASSUME ConnectionsInv, ServeL3
  PROVE  Plain
<1> DEFINE c == ChanOf(table, Head(toBts).id)
<1>1. Request("L3") /\ UNCHANGED <<table, sig, toYate, ph>> /\ SigOnly
  BY DEF ServeL3
<1>2. KeepsPcs
  <2>1. c \in Chan \cup {None}
    BY InvParts, OfId
  <2>2. CASE c = None
    BY <2>2, ChannelKept DEF ServeL3
  <2>3. CASE c # None
    BY <2>1, <2>3, SendL3Kept DEF ServeL3
  <2> QED
    BY <2>2, <2>3
<1> QED
  BY <1>1, <1>2, SameTable, SameOthers, InvParts, PhonesKept, RequestMoves

(* A handover is granted a channel and a slot, or neither.                 *)
HandoverGranted(c, id, ref) ==
  /\ c \in Tch /\ id \in Id
  /\ Becomes(c, [Open(ch[c]) EXCEPT !.handoverPending = TRUE])
  /\ \A i \in Id \ {id} : table'.mMap[i] = table.mMap[i]
  /\ \/ /\ table.mMap[id].mChan = None
        /\ table'.mMap[id] = [mChan |-> c, mMedia |-> c, mHoRef |-> ref]
     \/ /\ table.mMap[id].mChan = c
        /\ table'.mMap[id].mHoRef = table.mMap[id].mHoRef
  /\ ToYateAlso([ToYateMsg("HandoverAck", id) EXCEPT !.ref = ref, !.chan = c])

HandoverRefused(ref) ==
  /\ UNCHANGED table
  /\ ToYateAlso([ToYateMsg("HandoverReject", -1) EXCEPT !.ref = ref])

LEMMA MappedForHandover ==
  ASSUME NEW t \in Table, NEW c \in Chan, NEW ref \in Ref \cup {NoRef},
         MapId(t, c) # -1
  PROVE  LET id == MapId(t, c)
             v == MapMedia(Map(t, c, ref), id, c) IN
         /\ id \in Id /\ v \in Table
         /\ \A i \in Id \ {id} : v.mMap[i] = t.mMap[i]
         /\ \/ /\ t.mMap[id].mChan = None
               /\ v.mMap[id] = [mChan |-> c, mMedia |-> c, mHoRef |-> ref]
            \/ /\ t.mMap[id].mChan = c
               /\ v.mMap[id].mHoRef = t.mMap[id].mHoRef
<1> DEFINE id == MapId(t, c)
           u == Map(t, c, ref)
           v == MapMedia(u, id, c)
           new == [mChan |-> c, mMedia |-> None, mHoRef |-> ref]
<1>1. /\ u \in Table /\ id \in Id
      /\ \/ u = t /\ t.mMap[id].mChan = c
         \/ t.mMap[id].mChan = None /\ u.mMap = [t.mMap EXCEPT ![id] = new]
  BY MapIs
<1>2. \/ u = t /\ t.mMap[id].mChan = c
      \/ t.mMap[id].mChan = None /\ u.mMap[id] = new
  BY <1>1 DEF Table
<1>3. \A i \in Id \ {id} : u.mMap[i] = t.mMap[i]
  BY <1>1 DEF Table
<1> HIDE DEF id, u
<1>4. ChanOf(u, id) # None
  BY <1>1, <1>2, NoneAssumption DEF ChanOf
<1>5. v = [u EXCEPT !.mMap[id].mMedia = c]
  BY <1>4 DEF MapMedia
<1>6. /\ v \in Table /\ v.mMap[id] = [u.mMap[id] EXCEPT !.mMedia = c]
      /\ \A i \in Id \ {id} : v.mMap[i] = u.mMap[i]
  <2> HIDE DEF v
  <2>1. v \in Table
    BY <1>1, MapMediaIs DEF v
  <2> QED
    BY <1>1, <1>5, <2>1 DEF Table
<1> HIDE DEF v
<1>7. CASE t.mMap[id].mChan = None /\ u.mMap[id] = new
  <2>1. v.mMap[id] = [mChan |-> c, mMedia |-> c, mHoRef |-> ref]
    BY <1>6, <1>7
  <2> QED
    BY <1>1, <1>3, <1>6, <1>7, <2>1 DEF id, u, v
<1>8. CASE u = t /\ t.mMap[id].mChan = c
  <2>1. v.mMap[id].mHoRef = t.mMap[id].mHoRef
    BY <1>1, <1>6, <1>8, SlotTyped DEF Slot
  <2> QED
    BY <1>1, <1>3, <1>6, <1>8, <2>1 DEF id, u, v
<1> QED
  BY <1>2, <1>7, <1>8

LEMMA ServeHandoverHolds ==
  ASSUME ConnectionsInv, ServeHandover
  PROVE  LET ref == Head(toBts).ref IN
         /\ ConnectionsInv'
         /\ Request("HandoverRequest") /\ KeepsPhones /\ handovers' = handovers
         /\ \/ HandoverRefused(ref)
            \/ \E c, id : HandoverGranted(c, id, ref)
<1> DEFINE ref == Head(toBts).ref
           reject == [ToYateMsg("HandoverReject", -1) EXCEPT !.ref = ref]
<1>1. Request("HandoverRequest") /\ UNCHANGED sig /\ SigOnly
  BY DEF ServeHandover
<1>2. ref \in Ref \cup {NoRef} /\ toBts' \in Seq(ToBts)
  BY <1>1, InvParts, ToBtsParts DEF Request
<1> HIDE DEF ref
<1>3. reject \in ToYate
  BY <1>2 DEF ToYateMsg, ToYate
<1>4. ASSUME KeepsPcs, table' \in Table, KeepsPhones, toYate' \in Seq(ToYate)
      PROVE  ConnectionsInv'
  BY <1>1, <1>2, <1>4, InvParts DEF ConnectionsInv, TypeOK, Spoken,
       ChannelsTyped, KeepsPcs, KeepsPhones, Counts, SigOnly
<1>5. CASE ToYateAlso(reject) /\ UNCHANGED <<ch, table, ph>>
  <2>1. KeepsPcs /\ table' \in Table /\ KeepsPhones
    BY <1>5, ChannelKept, InvParts, PhonesKept
  <2>2. toYate' \in Seq(ToYate)
    BY <1>3, <1>5, InvParts DEF ToYateAlso
  <2> QED
    BY <1>1, <1>4, <1>5, <2>1, <2>2 DEF HandoverRefused, SigOnly, ref
<1>6. ASSUME NEW c \in FreeTch, ph' = Dismissed(c), MapId(table, c) = -1,
             Becomes(c, Closed(Open(ch[c]), "HARDRELEASE")),
             ToYateAlso(reject), UNCHANGED table
      PROVE  /\ ConnectionsInv' /\ KeepsPhones /\ HandoverRefused(ref)
  <2>1. c \in Chan
    BY ChannelsAssumption DEF FreeTch
  <2>2. Kin(ch[c], Closed(Open(ch[c]), "HARDRELEASE"))
    BY <2>1, InvParts, OpenKin, ClosedKin DEF Kin
  <2>3. KeepsPcs /\ table' \in Table /\ KeepsPhones
    BY <1>6, <2>1, <2>2, ChannelKept, InvParts, PhonesKept DEF Becomes
  <2>4. toYate' \in Seq(ToYate)
    BY <1>3, <1>6, InvParts DEF ToYateAlso
  <2> QED
    BY <1>4, <1>6, <2>3, <2>4 DEF HandoverRefused
<1>7. ASSUME NEW c \in FreeTch, ph' = Dismissed(c), MapId(table, c) # -1,
             Becomes(c, [Open(ch[c]) EXCEPT !.handoverPending = TRUE]),
             table' = MapMedia(Map(table, c, ref), MapId(table, c), c),
             ToYateAlso([ToYateMsg("HandoverAck", MapId(table, c))
                           EXCEPT !.ref = ref, !.chan = c])
      PROVE  /\ ConnectionsInv' /\ KeepsPhones
             /\ HandoverGranted(c, MapId(table, c), ref)
  <2> DEFINE id == MapId(table, c)
             m == [ToYateMsg("HandoverAck", id) EXCEPT !.ref = ref, !.chan = c]
  <2>1. c \in Chan /\ c \in Tch
    BY ChannelsAssumption DEF FreeTch
  <2>2. /\ id \in Id /\ table' \in Table
        /\ \A i \in Id \ {id} : table'.mMap[i] = table.mMap[i]
        /\ \/ /\ table.mMap[id].mChan = None
              /\ table'.mMap[id] = [mChan |-> c, mMedia |-> c, mHoRef |-> ref]
           \/ /\ table.mMap[id].mChan = c
              /\ table'.mMap[id].mHoRef = table.mMap[id].mHoRef
    BY <1>2, <1>7, <2>1, InvParts, MappedForHandover
  <2>3. ToYateAlso(m) /\ Becomes(c, [Open(ch[c]) EXCEPT !.handoverPending = TRUE])
    BY <1>7
  <2> HIDE DEF id
  <2>4. m \in ToYate
    BY <1>2, <2>1, <2>2 DEF ToYateMsg, ToYate
  <2>5. Kin(ch[c], [Open(ch[c]) EXCEPT !.handoverPending = TRUE])
    <3> DEFINE x == Open(ch[c])
    <3>1. Kin(ch[c], x)
      BY <2>1, InvParts, OpenKin
    <3> HIDE DEF x
    <3>2. Kin(x, [x EXCEPT !.handoverPending = TRUE])
      BY <3>1 DEF Kin, Channel
    <3> QED
      BY <3>1, <3>2 DEF Kin, x
  <2>6. KeepsPcs /\ KeepsPhones
    BY <1>7, <2>1, <2>3, <2>5, ChannelKept, InvParts, PhonesKept DEF Becomes
  <2>7. toYate' \in Seq(ToYate)
    BY <2>3, <2>4, InvParts DEF ToYateAlso
  <2>8. ConnectionsInv'
    BY <1>4, <2>2, <2>6, <2>7
  <2>9. HandoverGranted(c, id, ref)
    BY <2>1, <2>2, <2>3 DEF HandoverGranted
  <2> QED
    BY <2>6, <2>8, <2>9 DEF id
<1>8. \/ ToYateAlso(reject) /\ UNCHANGED <<ch, table, ph>>
      \/ \E c \in FreeTch :
           /\ ph' = Dismissed(c)
           /\ \/ /\ MapId(table, c) = -1
                 /\ Becomes(c, Closed(Open(ch[c]), "HARDRELEASE"))
                 /\ ToYateAlso(reject) /\ UNCHANGED table
              \/ /\ MapId(table, c) # -1
                 /\ Becomes(c, [Open(ch[c]) EXCEPT !.handoverPending = TRUE])
                 /\ table' = MapMedia(Map(table, c, ref), MapId(table, c), c)
                 /\ ToYateAlso([ToYateMsg("HandoverAck", MapId(table, c))
                                  EXCEPT !.ref = ref, !.chan = c])
  BY DEF ServeHandover, ref
<1>9. CASE ~(ToYateAlso(reject) /\ UNCHANGED <<ch, table, ph>>)
  <2>1. PICK c \in FreeTch :
          /\ ph' = Dismissed(c)
          /\ \/ /\ MapId(table, c) = -1
                /\ Becomes(c, Closed(Open(ch[c]), "HARDRELEASE"))
                /\ ToYateAlso(reject) /\ UNCHANGED table
             \/ /\ MapId(table, c) # -1
                /\ Becomes(c, [Open(ch[c]) EXCEPT !.handoverPending = TRUE])
                /\ table' = MapMedia(Map(table, c, ref), MapId(table, c), c)
                /\ ToYateAlso([ToYateMsg("HandoverAck", MapId(table, c))
                                 EXCEPT !.ref = ref, !.chan = c])
    BY <1>8, <1>9
  <2>2. CASE MapId(table, c) = -1
    BY <1>1, <1>6, <2>1, <2>2 DEF SigOnly, ref
  <2>3. CASE MapId(table, c) # -1
    <3>1. ConnectionsInv' /\ KeepsPhones
          /\ HandoverGranted(c, MapId(table, c), ref)
      BY <1>7, <2>1, <2>3
    <3> QED
      BY <1>1, <3>1 DEF SigOnly, ref
  <2> QED
    BY <2>2, <2>3
<1> QED
  BY <1>5, <1>9

LEMMA ServeHolds ==
  ASSUME ConnectionsInv, Serve
  PROVE  /\ ConnectionsInv'
         /\ ServeHandover \/ (RefStep /\ UseStep)
<1>1. CASE ServeHandover
  BY <1>1, ServeHandoverHolds
<1>2. CASE ServeRelease \/ TellRelease \/ ServeStart \/ ServeAlloc \/ ServeL3
  BY <1>2, ServeReleasePlain, TellReleasePlain, ServeStartPlain,
     ServeAllocPlain, ServeL3Plain DEF Plain
<1> QED
  BY <1>1, <1>2 DEF Serve

-----------------------------------------------------------------------------
(* Yate                                                                    *)

(* What Yate asks of mbts, short of a handover.                            *)
Orders ==
  \/ toBts' = toBts
  \/ \E ms \in Seq(ToBts) : /\ \A n \in 1 .. Len(ms) : ~Asks(ms[n])
                            /\ toBts' = toBts \o ms

Takes == toYate' = toYate \/ (toYate # <<>> /\ toYate' = Tail(toYate))

(* The rest of the state is not Yate's.                                    *)
NotYates == UNCHANGED <<ch, table, sig>>

LEMMA YateMoves ==
  ASSUME ConnectionsInv, NotYates, conn' \in [Id -> Conn],
         ph' \in [Phone -> PhoneState], Takes, toBts' \in Seq(ToBts),
         used' \in Counts, handovers' \in 0 .. Len(HoRefs)
  PROVE  ConnectionsInv' /\ UseStep
<1>1. toYate' \in Seq(ToYate)
  BY InvParts, ToYateParts DEF Takes
<1>2. ConnectionsInv'
  BY <1>1, InvParts DEF ConnectionsInv, TypeOK, Placed, Spoken, Counts, NotYates
<1>3. UseStep
  BY DEF UseStep, NotYates, Waiting
<1> QED
  BY <1>2, <1>3

LEMMA Joined ==
  ASSUME NEW S, NEW a \in Seq(S), NEW b \in Seq(S)
  PROVE  a \o b \in Seq(S)
OBVIOUS

LEMMA YatePlain ==
  ASSUME ConnectionsInv, NotYates, conn' \in [Id -> Conn], Takes, Orders,
         UNCHANGED <<ph, handovers>>, used' \in Counts
  PROVE  Plain
<1>1. table \in Table /\ KeepsPhones
  BY InvParts, PhonesKept
<1>2. toBts' \in Seq(ToBts)
  <2>1. toBts \in Seq(ToBts)
    BY InvParts
  <2> QED
    BY <2>1, Joined DEF Orders
<1>3. ConnectionsInv' /\ UseStep
  BY <1>1, <1>2, InvParts, YateMoves DEF KeepsPhones
<1>4. RefStep
  BY <1>1 DEF RefStep, NotYates, Takes, Orders, KeepsPhones
<1> QED
  BY <1>3, <1>4 DEF Plain

LEMMA SentIs ==
  ASSUME NEW ms \in Seq(ToBts), \A n \in 1 .. Len(ms) : ~Asks(ms[n]), Send(ms)
  PROVE  Orders
BY DEF Send, Orders

LEMMA ReleasesSent ==
  ASSUME NEW S \in SUBSET Id, Send(Releases(S))
  PROVE  Orders
<1>1. /\ Releases(S) \in Seq(ToBts)
      /\ \A i \in 1 .. Len(Releases(S)) :
           Releases(S)[i].t \in {"Release", "HardRelease"}
  BY ReleasesTyped
<1> QED
  BY <1>1, SentIs DEF Asks

LEMMA OneSent ==
  ASSUME NEW t \in {"Release", "HardRelease", "Alloc", "Start", "L3"},
         NEW id \in Id, Send(<<ToBtsMsg(t, id)>>)
  PROVE  Orders
<1> DEFINE m == ToBtsMsg(t, id)
<1>1. m \in ToBts /\ ~Asks(m)
  BY ToBtsMsgs DEF ToBtsMsg, Asks
<1> HIDE DEF m
<1>2. <<m>> \in Seq(ToBts) /\ \A n \in 1 .. Len(<<m>>) : ~Asks(<<m>>[n])
  BY <1>1
<1> QED
  BY <1>2, SentIs DEF m

LEMMA TwoSent ==
  ASSUME NEW id \in Id,
         Send(<<ToBtsMsg("Alloc", id)>> \o <<ToBtsMsg("Start", id)>>)
  PROVE  Orders
<1> DEFINE m == ToBtsMsg("Alloc", id)
           n == ToBtsMsg("Start", id)
<1>1. m \in ToBts /\ n \in ToBts /\ ~Asks(m) /\ ~Asks(n)
  BY ToBtsMsgs DEF ToBtsMsg, Asks
<1> HIDE DEF m, n
<1>2. /\ <<m>> \o <<n>> \in Seq(ToBts)
      /\ \A k \in 1 .. Len(<<m>> \o <<n>>) : ~Asks((<<m>> \o <<n>>)[k])
  BY <1>1
<1> QED
  BY <1>2, SentIs DEF m, n

LEMMA SameRequests == UNCHANGED toBts => Orders
BY DEF Orders

LEMMA Received ==
  ASSUME ConnectionsInv, NEW t, Receive(t)
  PROVE  /\ Takes /\ Head(toYate) \in ToYate /\ Head(toYate).t = t
         /\ t # "HandoverReject" => Head(toYate).id \in Id
         /\ Head(toYate).from \in Phone \cup {None}
         /\ Head(toYate).chan \in Chan \cup {None}
         /\ Head(toYate).ref \in Ref \cup {NoRef}
BY InvParts, ToYateParts DEF Receive, Takes

LEMMA YateOnlyIs ==
  ASSUME ConnectionsInv, YateOnly
  PROVE  NotYates /\ used' \in Counts
BY InvParts DEF YateOnly, NotYates

LEMMA ConnIs ==
  ASSUME ConnectionsInv, NEW id \in Id
  PROVE  /\ conn \in [Id -> Conn] /\ conn[id] \in Conn
         /\ \A S : Drop(conn, S) \in [Id -> Conn]
         /\ \A x \in Conn : [conn EXCEPT ![id] = x] \in [Id -> Conn]
BY InvParts, DropTyped DEF ConnsTyped

(* A connection is made, or takes a phone over, and others lose the phone. *)
LEMMA OwnedPlain ==
  ASSUME ConnectionsInv, NEW id \in Id, NEW p, NEW x \in Conn, Takes,
         conn' = Drop([conn EXCEPT ![id] = x], Replaced(id, p)),
         Send(Releases(Replaced(id, p))), YateOnly, UNCHANGED <<ph, handovers>>
  PROVE  Plain
<1>1. Replaced(id, p) \in SUBSET Id
  BY DEF Replaced
<1>2. conn' \in [Id -> Conn]
  BY ConnIs, DropTyped
<1>3. Orders
  BY <1>1, ReleasesSent
<1> QED
  BY <1>2, <1>3, YateOnlyIs, YatePlain

LEMMA HandleMMPlain ==
  ASSUME ConnectionsInv, HandleMM
  PROVE  Plain
<1> DEFINE id == Head(toYate).id
           p == Head(toYate).from
<1>1. Receive("L3") /\ YateOnly /\ UNCHANGED <<ph, handovers>>
  BY DEF HandleMM
<1>2. Takes /\ id \in Id /\ p \in Phone \cup {None}
  BY <1>1, Received
<1>3. CASE UNCHANGED <<conn, toBts>>
  BY <1>1, <1>2, <1>3, ConnIs, SameRequests, YateOnlyIs, YatePlain
<1>4. CASE /\ conn' = Drop([conn EXCEPT ![id] = Owned(conn[id], p)], Replaced(id, p))
           /\ Send(Releases(Replaced(id, p)))
  <2>1. Owned(conn[id], p) \in Conn
    BY <1>2, ConnIs, OwnedTyped
  <2> QED
    BY <1>1, <1>2, <1>4, <2>1, OwnedPlain
<1> QED
  BY <1>3, <1>4 DEF HandleMM

LEMMA HandleHandoverCompletePlain ==
  ASSUME ConnectionsInv, HandleHandoverComplete
  PROVE  Plain
<1> DEFINE id == Head(toYate).id
           p == Head(toYate).from
           x == [Owned(conn[id], p) EXCEPT !.call = TRUE, !.traffic = TRUE]
<1>1. /\ Receive("L3") /\ YateOnly /\ UNCHANGED <<ph, handovers>>
      /\ conn' = Drop([conn EXCEPT ![id] = x], Replaced(id, p))
      /\ Send(Releases(Replaced(id, p)))
  BY DEF HandleHandoverComplete
<1>2. Takes /\ id \in Id /\ p \in Phone \cup {None}
  BY <1>1, Received
<1>3. x \in Conn
  <2> DEFINE y == Owned(conn[id], p)
  <2>1. y \in Conn
    BY <1>2, ConnIs, OwnedTyped
  <2> HIDE DEF y
  <2>2. [y EXCEPT !.call = TRUE, !.traffic = TRUE] \in Conn
    BY <2>1 DEF Conn
  <2> QED
    BY <2>2 DEF y
<1> HIDE DEF x
<1> QED
  BY <1>1, <1>2, <1>3, OwnedPlain

LEMMA HandleUnknownPlain ==
  ASSUME ConnectionsInv, HandleUnknown
  PROVE  Plain
<1>1. /\ Receive("L3") /\ UNCHANGED <<conn, toBts>> /\ YateOnly
      /\ UNCHANGED <<ph, handovers>>
  BY DEF HandleUnknown
<1> QED
  BY <1>1, Received, ConnIs, SameRequests, YateOnlyIs, YatePlain

LEMMA HandleHandoverRejectPlain ==
  ASSUME ConnectionsInv, HandleHandoverReject
  PROVE  Plain
<1>1. /\ Receive("HandoverReject") /\ UNCHANGED <<conn, toBts>> /\ YateOnly
      /\ UNCHANGED <<ph, handovers>>
  BY DEF HandleHandoverReject
<1>2. conn' \in [Id -> Conn]
  BY <1>1, InvParts DEF ConnsTyped
<1> QED
  BY <1>1, <1>2, Received, SameRequests, YateOnlyIs, YatePlain

LEMMA HandleCCPlain ==
  ASSUME ConnectionsInv, HandleCC
  PROVE  Plain
<1> DEFINE id == Head(toYate).id
           start == ~conn[id].traffic /\ ~conn[id].wait
           ms == <<ToBtsMsg("Alloc", id)>> \o
                 IF start THEN <<ToBtsMsg("Start", id)>> ELSE <<>>
<1>1. Receive("L3") /\ YateOnly /\ UNCHANGED <<ph, handovers>>
  BY DEF HandleCC
<1>2. Takes /\ id \in Id
  BY <1>1, Received
<1>3. /\ conn' \in [Id -> Conn]
      /\ UNCHANGED toBts \/ Send(ms)
  <2>1. conn[id] \in Conn /\ conn \in [Id -> Conn]
    BY <1>2, ConnIs
  <2>2. start \in BOOLEAN /\ conn[id].wait \in BOOLEAN
    BY <2>1 DEF Conn
  <2>3. CASE conn' = [conn EXCEPT ![id].hard = FALSE, ![id].call = FALSE]
             /\ UNCHANGED toBts
    <3>1. conn' \in [Id -> Conn]
      BY <2>1, <2>3 DEF Conn
    <3> QED
      BY <2>3, <3>1
  <2>4. CASE conn' = [conn EXCEPT ![id].hard = FALSE, ![id].call = TRUE,
                                  ![id].wait = @ \/ start]
             /\ Send(ms)
    <3> DEFINE w == conn[id].wait \/ start
    <3>1. w \in BOOLEAN
      BY <2>2
    <3>2. conn' = [conn EXCEPT ![id].hard = FALSE, ![id].call = TRUE,
                               ![id].wait = w]
      BY <2>4
    <3> HIDE DEF w, start
    <3>3. conn' \in [Id -> Conn]
      BY <2>1, <3>1, <3>2 DEF Conn
    <3> QED
      BY <2>4, <3>3 DEF start
  <2> QED
    BY <2>3, <2>4 DEF HandleCC
<1>4. ASSUME Send(ms)
      PROVE  Orders
  <2>1. CASE start
    BY <1>2, <1>4, <2>1, TwoSent
  <2>2. CASE ~start
    <3> DEFINE m == ToBtsMsg("Alloc", id)
    <3>1. ms = <<m>>
      <4>1. ms = <<m>> \o <<>>
        BY <2>2
      <4> HIDE DEF m
      <4>2. <<m>> \o <<>> = <<m>>
        OBVIOUS
      <4> QED
        BY <4>1, <4>2 DEF m
    <3> QED
      BY <1>2, <1>4, <3>1, OneSent
  <2> QED
    BY <2>1, <2>2
<1> QED
  BY <1>1, <1>2, <1>3, <1>4, SameRequests, YateOnlyIs, YatePlain

LEMMA DroppedPlain ==
  ASSUME ConnectionsInv, NEW id \in Id, conn' = Drop(conn, {id}),
         Send(Releases({id})), Takes, YateOnly, UNCHANGED <<ph, handovers>>
  PROVE  Plain
<1>1. {id} \in SUBSET Id
  OBVIOUS
<1> QED
  BY <1>1, ConnIs, ReleasesSent, YateOnlyIs, YatePlain

LEMMA ToldPlain ==
  ASSUME ConnectionsInv, NEW id \in Id, conn' \in [Id -> Conn],
         Send(<<ToBtsMsg("L3", id)>>), Takes, YateOnly,
         UNCHANGED <<ph, handovers>>
  PROVE  Plain
BY OneSent, YateOnlyIs, YatePlain

LEMMA HandleStartedPlain ==
  ASSUME ConnectionsInv, HandleStarted
  PROVE  Plain
<1> DEFINE id == Head(toYate).id
<1>1. /\ Receive("Started") /\ UNCHANGED toBts /\ YateOnly
      /\ UNCHANGED <<ph, handovers>>
  BY DEF HandleStarted
<1>2. Takes /\ id \in Id
  BY <1>1, Received
<1>3. conn[id] \in Conn /\ conn \in [Id -> Conn]
  BY <1>2, ConnIs
<1>4. \/ conn' = conn
      \/ conn' = [conn EXCEPT ![id].traffic = conn[id].wait, ![id].wait = FALSE]
  BY DEF HandleStarted
<1> HIDE DEF id
<1>5. conn' \in [Id -> Conn]
  BY <1>3, <1>4 DEF Conn
<1> QED
  BY <1>1, <1>2, <1>5, SameRequests, YateOnlyIs, YatePlain

LEMMA HandleErrorPlain ==
  ASSUME ConnectionsInv, HandleError
  PROVE  Plain
<1> DEFINE id == Head(toYate).id
<1>1. Receive("Error") /\ YateOnly /\ UNCHANGED <<ph, handovers>>
  BY DEF HandleError
<1>2. Takes /\ id \in Id
  BY <1>1, Received
<1>3. conn \in [Id -> Conn]
  BY <1>2, ConnIs
<1>4. \/ conn' = Drop(conn, {id}) /\ Send(Releases({id}))
      \/ conn' = [conn EXCEPT ![id].call = FALSE, ![id].wait = FALSE]
         /\ Send(<<ToBtsMsg("L3", id)>>)
      \/ conn' = [conn EXCEPT ![id].wait = FALSE] /\ UNCHANGED toBts
      \/ UNCHANGED <<conn, toBts>>
  BY DEF HandleError
<1> HIDE DEF id
<1>5. /\ [conn EXCEPT ![id].call = FALSE, ![id].wait = FALSE] \in [Id -> Conn]
      /\ [conn EXCEPT ![id].wait = FALSE] \in [Id -> Conn]
  BY <1>3 DEF Conn
<1> QED
  BY <1>1, <1>2, <1>3, <1>4, <1>5, DroppedPlain, ToldPlain, SameRequests,
     YateOnlyIs, YatePlain

LEMMA HandleLostPlain ==
  ASSUME ConnectionsInv, HandleLost
  PROVE  Plain
<1> DEFINE id == Head(toYate).id
<1>1. /\ Receive("Lost") /\ UNCHANGED toBts /\ YateOnly
      /\ UNCHANGED <<ph, handovers>> /\ conn' = [conn EXCEPT ![id] = NoConn]
  BY DEF HandleLost
<1>2. Takes /\ id \in Id
  BY <1>1, Received
<1>3. NoConn \in Conn
  BY DEF NoConn, Conn
<1> QED
  BY <1>1, <1>2, <1>3, ConnIs, SameRequests, YateOnlyIs, YatePlain

LEMMA TimeoutsPlain ==
  ASSUME ConnectionsInv, NEW id \in Id,
         HangUp(id) \/ IdleTimeout(id) \/ RemovedTimeout(id)
  PROVE  Plain
<1>1. conn \in [Id -> Conn]
  BY ConnIs
<1>2. CASE HangUp(id)
  <2>1. YateOnly /\ Takes /\ UNCHANGED <<ph, handovers>>
    BY <1>2 DEF HangUp, Takes
  <2>2. CASE conn' = Drop(conn, {id}) /\ Send(Releases({id}))
    BY <2>1, <2>2, DroppedPlain
  <2>3. CASE conn' = [conn EXCEPT ![id].call = FALSE]
             /\ Send(<<ToBtsMsg("L3", id)>>)
    <3>1. conn' \in [Id -> Conn]
      BY <1>1, <2>3 DEF Conn
    <3> QED
      BY <2>1, <2>3, <3>1, ToldPlain
  <2> QED
    BY <1>2, <2>2, <2>3 DEF HangUp, HangUpOf
<1>3. CASE IdleTimeout(id)
  <2>1. Takes
    BY <1>3 DEF IdleTimeout, Takes
  <2> QED
    BY <1>3, <2>1, DroppedPlain DEF IdleTimeout
<1>4. CASE RemovedTimeout(id)
  <2>1. /\ NotYates /\ Takes /\ UNCHANGED <<toBts, ph, handovers>>
        /\ conn' = [conn EXCEPT ![id] = NoConn]
    BY <1>4 DEF RemovedTimeout, NotYates, Takes
  <2>2. used' \in Counts
    BY <1>4, InvParts, Counted DEF RemovedTimeout
  <2>3. NoConn \in Conn
    BY DEF NoConn, Conn
  <2> QED
    BY <2>1, <2>2, <2>3, ConnIs, SameRequests, YatePlain
<1> QED
  BY <1>2, <1>3, <1>4

(* The phone is told where to go, with the reference of its handover.      *)
Sent(p, m) ==
  ph' = [ph EXCEPT ![p] = [Away EXCEPT !.at = m.chan, !.ref = m.ref,
                                       !.brings = "HandoverComplete"]]

LEMMA HandleHandoverAckHolds ==
  ASSUME ConnectionsInv, HandleHandoverAck
  PROVE  /\ ConnectionsInv' /\ UseStep
         /\ toYate # <<>> /\ Head(toYate).t = "HandoverAck"
         /\ toYate' = Tail(toYate)
         /\ UNCHANGED <<table, toBts, handovers>>
         /\ UNCHANGED ph \/ \E p \in Phone : Sent(p, Head(toYate))
<1> DEFINE m == Head(toYate)
           id == m.id
<1>1. Receive("HandoverAck") /\ UNCHANGED <<toBts, handovers>> /\ YateOnly
  BY DEF HandleHandoverAck
<1>2. /\ Takes /\ m \in ToYate /\ id \in Id /\ m.chan \in Chan \cup {None}
      /\ m.ref \in Ref \cup {NoRef}
  BY <1>1, Received
<1>3. conn' \in [Id -> Conn]
  <2>1. conn \in [Id -> Conn]
    BY <1>2, ConnIs
  <2>2. \/ conn' = conn
        \/ conn' = [conn EXCEPT ![id].st = "live", ![id].hard = TRUE]
    BY DEF HandleHandoverAck
  <2> HIDE DEF id
  <2> QED
    BY <2>1, <2>2 DEF Conn
<1>4. UNCHANGED ph \/ \E p \in Phone : Sent(p, m)
  BY DEF HandleHandoverAck, Sent
<1> HIDE DEF m
<1>5. ph' \in [Phone -> PhoneState]
  <2>1. ph \in [Phone -> PhoneState]
    BY InvParts DEF PhonesTyped
  <2>2. [Away EXCEPT !.at = m.chan, !.ref = m.ref,
                     !.brings = "HandoverComplete"] \in PhoneState
    BY <1>2 DEF Away, PhoneState, Uplink
  <2> QED
    BY <1>4, <2>1, <2>2 DEF Sent
<1>6. toBts' \in Seq(ToBts) /\ handovers' \in 0 .. Len(HoRefs)
  BY <1>1, InvParts
<1>7. ConnectionsInv' /\ UseStep
  BY <1>1, <1>2, <1>3, <1>5, <1>6, YateOnlyIs, YateMoves
<1> QED
  BY <1>1, <1>4, <1>7 DEF Receive, YateOnly, m

LEMMA AskHandoverHolds ==
  ASSUME ConnectionsInv, AskHandover
  PROVE  /\ ConnectionsInv' /\ UseStep
         /\ handovers < Len(HoRefs) /\ handovers' = handovers + 1
         /\ toBts' = Append(toBts, [ToBtsMsg("HandoverRequest", -1)
                                      EXCEPT !.ref = HoRefs[handovers + 1]])
         /\ UNCHANGED <<table, toYate, ph>>
<1> DEFINE m == [ToBtsMsg("HandoverRequest", -1)
                   EXCEPT !.ref = HoRefs[handovers + 1]]
<1>1. /\ handovers < Len(HoRefs) /\ handovers' = handovers + 1
      /\ toBts' = toBts \o <<m>>
      /\ YateOnly /\ UNCHANGED <<toYate, conn, ph>>
  BY DEF AskHandover, Send
<1>2. /\ Len(HoRefs) \in Nat /\ handovers \in Nat
      /\ handovers + 1 \in 1 .. Len(HoRefs)
      /\ HoRefs[handovers + 1] \in Ref
  BY <1>1, InvParts, HoRefsAssumption
<1>3. m \in ToBts /\ toBts \in Seq(ToBts)
  BY <1>2, InvParts DEF ToBtsMsg, ToBts
<1> HIDE DEF m
<1>4. toBts' = Append(toBts, m) /\ toBts' \in Seq(ToBts)
  BY <1>1, <1>3
<1>5. conn' \in [Id -> Conn] /\ ph' \in [Phone -> PhoneState]
      /\ handovers' \in 0 .. Len(HoRefs) /\ Takes
  BY <1>1, <1>2, InvParts DEF ConnsTyped, PhonesTyped, Takes
<1>6. ConnectionsInv' /\ UseStep
  BY <1>1, <1>4, <1>5, YateOnlyIs, YateMoves
<1> QED
  BY <1>1, <1>4, <1>6 DEF YateOnly, m

LEMMA YateHolds ==
  ASSUME ConnectionsInv, Yate
  PROVE  /\ ConnectionsInv' /\ UseStep
         /\ RefStep \/ HandleHandoverAck \/ AskHandover
<1>1. CASE HandleMM \/ HandleUnknown \/ HandleCC \/ HandleHandoverComplete
  BY <1>1, HandleMMPlain, HandleUnknownPlain, HandleCCPlain,
     HandleHandoverCompletePlain DEF Plain
<1>2. CASE HandleStarted \/ HandleError \/ HandleLost \/ HandleHandoverReject
  BY <1>2, HandleStartedPlain, HandleErrorPlain, HandleLostPlain,
     HandleHandoverRejectPlain DEF Plain
<1>3. CASE \E id \in Id : HangUp(id) \/ IdleTimeout(id) \/ RemovedTimeout(id)
  BY <1>3, TimeoutsPlain DEF Plain
<1>4. CASE HandleHandoverAck
  BY <1>4, HandleHandoverAckHolds
<1>5. CASE AskHandover
  BY <1>5, AskHandoverHolds
<1> QED
  BY <1>1, <1>2, <1>3, <1>4, <1>5 DEF Yate

-----------------------------------------------------------------------------
(* Every reachable state                                                   *)

LEMMA Start ==
  ASSUME Init
  PROVE  ConnectionsInv
<1> DEFINE x == [l1 |-> "free", link |-> FALSE, handoverPending |-> FALSE,
                 l3 |-> <<>>, pc |-> "wait", id |-> -1]
           y == [mChan |-> None, mMedia |-> None, mHoRef |-> 0]
<1>1. x \in Channel
  BY DEF Channel
<1>2. y \in Slot /\ 0 \in Id
  BY Refs, SizeAssumption DEF Slot, Id
<1>3. table \in Table
  BY <1>2 DEF Init, InitTable, Table
<1>4. ch \in [Chan -> Channel] /\ Placed
  <2>1. ch = [c \in Chan |-> x]
    BY DEF Init
  <2>2. x.pc \notin Serving
    BY DEF Serving
  <2> HIDE DEF x
  <2> QED
    BY <1>1, <2>1, <2>2 DEF Placed
<1>5. sig \in [chan : Chan \cup {None}, hard : BOOLEAN] /\ Spoken
  BY DEF Init, NoSig, Spoken
<1>6. NoConn \in Conn
  BY DEF NoConn, Conn
<1>7. handovers \in 0 .. Len(HoRefs)
  <2>1. Len(HoRefs) \in Nat
    BY HoRefsAssumption
  <2> QED
    BY <2>1 DEF Init
<1>8. conn \in [Id -> Conn] /\ ph \in [Phone -> PhoneState]
  BY <1>6, AwayIs DEF Init
<1>9. toYate \in Seq(ToYate) /\ toBts \in Seq(ToBts)
  BY DEF Init
<1>10. used \in [access : Nat, talk : Nat, fail : Nat, late : Nat]
  BY DEF Init
<1> QED
  BY <1>3, <1>4, <1>5, <1>7, <1>8, <1>9, <1>10 DEF ConnectionsInv, TypeOK

LEMMA NothingHappens ==
  ASSUME ConnectionsInv, UNCHANGED vars
  PROVE  Plain
<1>1. UNCHANGED <<ch, table, sig, toYate, toBts, conn, ph, handovers, used>>
  BY DEF vars
<1>2. KeepsPcs /\ KeepsPhones /\ used' \in Counts
  BY <1>1, ChannelKept, InvParts, PhonesKept
<1> QED
  BY <1>1, <1>2, RadioPlain

LEMMA StepHolds ==
  ASSUME ConnectionsInv, [Next]_vars
  PROVE  /\ ConnectionsInv'
         /\ \/ RefStep
            \/ ServeHandover \/ HandleHandoverAck \/ AskHandover
         /\ \/ UseStep
            \/ ServeHandover
            \/ \E c \in Chan :
                 Unmap(c) \/ FirstOfChannel(c) \/ FirstOfReassigned(c)
<1>1. CASE Radio
  BY <1>1, RadioIsPlain DEF Plain
<1>2. CASE \E c \in Chan : Dispatch(c)
  BY <1>2, DispatchHolds
<1>3. CASE Serve
  BY <1>3, ServeHolds
<1>4. CASE Yate
  BY <1>4, YateHolds
<1>5. CASE UNCHANGED vars
  BY <1>5, NothingHappens DEF Plain
<1> QED
  BY <1>1, <1>2, <1>3, <1>4, <1>5 DEF Next

LEMMA InvHolds == Spec => []ConnectionsInv
<1>1. Init => ConnectionsInv
  BY Start
<1>2. ConnectionsInv /\ [Next]_vars => ConnectionsInv'
  BY StepHolds
<1> QED
  BY <1>1, <1>2, PTL DEF Spec

(* The dispatchers and SigConnection index the table, and speak on the     *)
(* channel they find there, without looking again: whatever phones, timers *)
(* and Yate do, and when the table is full too, a dispatcher that serves   *)
(* has an id of the table, a release that is being told has a channel, and *)
(* every message names a slot that is there.                               *)
THEOREM ConnectionsTyped == Spec => [](TypeOK /\ Placed /\ Spoken)
<1>1. ConnectionsInv => TypeOK /\ Placed /\ Spoken
  BY DEF ConnectionsInv
<1> QED
  BY <1>1, InvHolds, PTL

-----------------------------------------------------------------------------
(* The references of handovers                                             *)

(* References that differ, and that the cleared table does not hold, as    *)
(* those of handover.js:576, which counts from 1, do until the count is at *)
(* 256 and comes round.                                                    *)
ToldApart ==
  \A i, j \in 1 .. Len(HoRefs) :
    HoRefs[i] # 0 /\ (i # j => HoRefs[i] # HoRefs[j])

Given == {HoRefs[k] : k \in 1 .. handovers}
RefOf(i) == table.mMap[i].mHoRef
Blank == {NoRef, 0}

(* A slot holds a reference that has been given, and no other slot holds   *)
(* it.                                                                     *)
SlotRefs ==
  /\ \A i \in Id : RefOf(i) \in Blank \cup Given
  /\ \A i, j \in Id : i # j /\ RefOf(i) = RefOf(j) => RefOf(i) \in Blank

(* A request that is still on its way brings a reference no slot and no    *)
(* other request has.                                                      *)
RequestRefs ==
  \A n \in 1 .. Len(toBts) : Asks(toBts[n]) =>
    /\ toBts[n].ref \in Given
    /\ \A i \in Id : RefOf(i) # toBts[n].ref
    /\ \A k \in 1 .. Len(toBts) :
         k # n /\ Asks(toBts[k]) => toBts[k].ref # toBts[n].ref

AnswerRefs ==
  \A n \in 1 .. Len(toYate) :
    toYate[n].t = "HandoverAck" => toYate[n].ref \notin Blank

PhoneRefs == \A p \in Phone : Comes(p) => ph[p].ref \notin Blank

HandoverRefs == SlotRefs /\ RequestRefs /\ AnswerRefs /\ PhoneRefs

LEMMA GivenIs ==
  ASSUME ToldApart, ConnectionsInv
  PROVE  \A r \in Given : r \notin Blank
<1>1. Len(HoRefs) \in Nat /\ handovers \in 0 .. Len(HoRefs)
  BY HoRefsAssumption, InvParts
<1>2. ASSUME NEW k \in 1 .. handovers
      PROVE  HoRefs[k] \notin Blank
  <2>1. k \in 1 .. Len(HoRefs)
    BY <1>1
  <2>2. HoRefs[k] \in Ref /\ HoRefs[k] # 0
    BY <2>1, HoRefsAssumption DEF ToldApart
  <2> QED
    BY <2>2, Refs DEF Blank
<1> QED
  BY <1>2 DEF Given

LEMMA TailIs ==
  ASSUME NEW S, NEW s \in Seq(S), s # <<>>
  PROVE  /\ Len(Tail(s)) = Len(s) - 1 /\ Len(s) \in Nat
         /\ \A n \in 1 .. Len(Tail(s)) : /\ n + 1 \in 1 .. Len(s) /\ n + 1 # 1
                                          /\ Tail(s)[n] = s[n + 1]
         /\ \A k, n \in 1 .. Len(Tail(s)) : k # n => k + 1 # n + 1
OBVIOUS

LEMMA RefStepKeeps ==
  ASSUME ToldApart, ConnectionsInv, HandoverRefs, RefStep
  PROVE  HandoverRefs'
<1>1. toBts \in Seq(ToBts) /\ toYate \in Seq(ToYate) /\ Given' = Given
  BY InvParts DEF RefStep, Given
<1>2. \A i \in Id : RefOf(i)' = NoRef \/ RefOf(i)' = RefOf(i)
  BY DEF RefStep, RefOf
<1>3. SlotRefs'
  BY <1>1, <1>2 DEF HandoverRefs, SlotRefs, Blank
<1>4. \A n \in 1 .. Len(toBts) : Asks(toBts[n]) => toBts[n].ref # NoRef
  BY GivenIs DEF HandoverRefs, RequestRefs, Blank
<1>5. RequestRefs'
  <2>1. CASE toBts' = toBts
    BY <1>1, <1>2, <1>4, <2>1 DEF HandoverRefs, RequestRefs, Asks
  <2>2. CASE toBts # <<>> /\ toBts' = Tail(toBts)
    <3>1. /\ Len(toBts') = Len(toBts) - 1 /\ Len(toBts) \in Nat
          /\ \A n \in 1 .. Len(toBts') :
               n + 1 \in 1 .. Len(toBts) /\ toBts'[n] = toBts[n + 1]
      BY <1>1, <2>2, TailIs
    <3>2. \A k, n \in 1 .. Len(toBts') : k # n => k + 1 # n + 1
      BY <1>1, <2>2, TailIs
    <3>3. ASSUME NEW n \in 1 .. Len(toBts'), Asks(toBts'[n])
          PROVE  /\ toBts'[n].ref \in Given
                 /\ \A i \in Id : RefOf(i)' # toBts'[n].ref
                 /\ \A k \in 1 .. Len(toBts') :
                      k # n /\ Asks(toBts'[k]) => toBts'[k].ref # toBts'[n].ref
      <4>1. n + 1 \in 1 .. Len(toBts) /\ toBts'[n] = toBts[n + 1]
        BY <3>1
      <4>2. /\ toBts[n + 1].ref \in Given /\ toBts[n + 1].ref # NoRef
            /\ \A i \in Id : RefOf(i) # toBts[n + 1].ref
            /\ \A k \in 1 .. Len(toBts) :
                 k # n + 1 /\ Asks(toBts[k]) => toBts[k].ref # toBts[n + 1].ref
        BY <1>4, <3>3, <4>1 DEF HandoverRefs, RequestRefs
      <4>3. \A i \in Id : RefOf(i)' # toBts'[n].ref
        BY <1>2, <4>1, <4>2
      <4>4. ASSUME NEW k \in 1 .. Len(toBts'), k # n, Asks(toBts'[k])
            PROVE  toBts'[k].ref # toBts'[n].ref
        <5>1. k + 1 \in 1 .. Len(toBts) /\ toBts'[k] = toBts[k + 1]
              /\ k + 1 # n + 1
          BY <3>1, <3>2, <4>4
        <5> QED
          BY <4>1, <4>2, <4>4, <5>1
      <4> QED
        BY <4>1, <4>2, <4>3, <4>4
    <3> QED
      BY <1>1, <3>3 DEF RequestRefs, Asks
  <2>3. ASSUME NEW ms \in Seq(ToBts), \A n \in 1 .. Len(ms) : ~Asks(ms[n]),
               toBts' = toBts \o ms
        PROVE  RequestRefs'
    <3>1. /\ Len(toBts) \in Nat /\ Len(ms) \in Nat
          /\ Len(toBts') = Len(toBts) + Len(ms)
          /\ \A n \in 1 .. Len(toBts') :
               toBts'[n] = IF n <= Len(toBts) THEN toBts[n]
                                              ELSE ms[n - Len(toBts)]
      BY <1>1, <2>3
    <3>2. \A n \in 1 .. Len(toBts') : Asks(toBts'[n]) =>
            n \in 1 .. Len(toBts) /\ toBts'[n] = toBts[n]
      BY <2>3, <3>1
    <3> QED
      BY <1>1, <1>2, <1>4, <3>2 DEF HandoverRefs, RequestRefs, Asks
  <2> QED
    BY <2>1, <2>2, <2>3 DEF RefStep
<1>6. AnswerRefs'
  <2>1. CASE toYate' = toYate
    BY <2>1 DEF HandoverRefs, AnswerRefs
  <2>2. CASE toYate # <<>> /\ toYate' = Tail(toYate)
    BY <1>1, <2>2 DEF HandoverRefs, AnswerRefs
  <2>3. ASSUME NEW m \in ToYate, m.t # "HandoverAck", toYate' = Append(toYate, m)
        PROVE  AnswerRefs'
    BY <1>1, <2>3 DEF HandoverRefs, AnswerRefs
  <2> QED
    BY <2>1, <2>2, <2>3 DEF RefStep
<1>7. PhoneRefs'
  BY DEF RefStep, HandoverRefs, PhoneRefs, Comes
<1> QED
  BY <1>3, <1>5, <1>6, <1>7 DEF HandoverRefs

LEMMA ServeHandoverKeeps ==
  ASSUME ToldApart, ConnectionsInv, HandoverRefs, ServeHandover
  PROVE  HandoverRefs'
<1> DEFINE ref == Head(toBts).ref
<1>1. /\ toBts \in Seq(ToBts) /\ toYate \in Seq(ToYate)
      /\ toBts # <<>> /\ toBts' = Tail(toBts) /\ Asks(Head(toBts))
      /\ KeepsPhones /\ handovers' = handovers
      /\ HandoverRefused(ref) \/ \E c, id : HandoverGranted(c, id, ref)
  BY InvParts, ServeHandoverHolds DEF Request, Asks
<1>2. Head(toBts) = toBts[1] /\ 1 \in 1 .. Len(toBts)
  BY <1>1
<1>3. /\ ref \in Given /\ \A i \in Id : RefOf(i) # ref
      /\ \A k \in 1 .. Len(toBts) : k # 1 /\ Asks(toBts[k]) => toBts[k].ref # ref
  BY <1>1, <1>2 DEF HandoverRefs, RequestRefs
<1>4. ref \notin Blank
  BY <1>3, GivenIs
<1>5. /\ Len(toBts') = Len(toBts) - 1 /\ Len(toBts) \in Nat
      /\ \A n \in 1 .. Len(toBts') : /\ n + 1 \in 1 .. Len(toBts) /\ n + 1 # 1
                                     /\ toBts'[n] = toBts[n + 1]
  BY <1>1, TailIs
<1>6. \A k, n \in 1 .. Len(toBts') : k # n => k + 1 # n + 1
  BY <1>1, TailIs
<1>7. Given' = Given
  BY <1>1 DEF Given
<1> HIDE DEF ref
<1>8. PhoneRefs'
  BY <1>1 DEF KeepsPhones, HandoverRefs, PhoneRefs, Comes
<1>9. ASSUME \A i \in Id : RefOf(i)' = RefOf(i) \/ RefOf(i)' = ref
      PROVE  RequestRefs'
  BY <1>3, <1>5, <1>6, <1>7, <1>9 DEF HandoverRefs, RequestRefs, Asks
<1>10. CASE HandoverRefused(ref)
  <2> DEFINE m == [ToYateMsg("HandoverReject", -1) EXCEPT !.ref = ref]
  <2>1. UNCHANGED table /\ toYate' = Append(toYate, m) /\ m.t = "HandoverReject"
    BY <1>10 DEF HandoverRefused, ToYateAlso, ToYateMsg
  <2> HIDE DEF m
  <2>2. SlotRefs'
    BY <1>7, <2>1 DEF HandoverRefs, SlotRefs, RefOf
  <2>3. RequestRefs'
    BY <1>9, <2>1 DEF RefOf
  <2>4. AnswerRefs'
    BY <1>1, <2>1 DEF HandoverRefs, AnswerRefs
  <2> QED
    BY <1>8, <2>2, <2>3, <2>4 DEF HandoverRefs
<1>11. ASSUME NEW c, NEW id, HandoverGranted(c, id, ref)
       PROVE  HandoverRefs'
  <2> DEFINE m == [ToYateMsg("HandoverAck", id) EXCEPT !.ref = ref, !.chan = c]
  <2>1. /\ id \in Id /\ toYate' = Append(toYate, m) /\ m.ref = ref
        /\ \A i \in Id \ {id} : RefOf(i)' = RefOf(i)
        /\ RefOf(id)' = RefOf(id) \/ RefOf(id)' = ref
    BY <1>11 DEF HandoverGranted, ToYateAlso, ToYateMsg, RefOf
  <2> HIDE DEF m
  <2>2. SlotRefs'
    <3>1. \A i \in Id : RefOf(i)' \in Blank \cup Given
      BY <1>3, <2>1 DEF HandoverRefs, SlotRefs
    <3>2. ASSUME NEW i \in Id, NEW j \in Id, i # j, RefOf(i)' = RefOf(j)'
          PROVE  RefOf(i)' \in Blank
      BY <1>3, <2>1, <3>2 DEF HandoverRefs, SlotRefs
    <3> QED
      BY <1>7, <3>1, <3>2 DEF SlotRefs, Blank
  <2>3. RequestRefs'
    BY <1>9, <2>1
  <2>4. AnswerRefs'
    BY <1>1, <1>4, <2>1 DEF HandoverRefs, AnswerRefs
  <2> QED
    BY <1>8, <2>2, <2>3, <2>4 DEF HandoverRefs
<1> QED
  BY <1>1, <1>10, <1>11 DEF ref

LEMMA HandleHandoverAckKeeps ==
  ASSUME ConnectionsInv, HandoverRefs, HandleHandoverAck
  PROVE  HandoverRefs'
<1> DEFINE m == Head(toYate)
<1>1. /\ toYate \in Seq(ToYate) /\ toYate # <<>> /\ m.t = "HandoverAck"
      /\ toYate' = Tail(toYate)
      /\ UNCHANGED <<table, toBts, handovers>>
      /\ UNCHANGED ph \/ \E p \in Phone : Sent(p, m)
  BY InvParts, HandleHandoverAckHolds
<1>2. m = toYate[1] /\ 1 \in 1 .. Len(toYate)
  BY <1>1
<1>3. m.ref \notin Blank
  BY <1>1, <1>2 DEF HandoverRefs, AnswerRefs
<1>4. AnswerRefs'
  BY <1>1 DEF HandoverRefs, AnswerRefs
<1> HIDE DEF m
<1>5. PhoneRefs'
  <2>1. CASE UNCHANGED ph
    BY <2>1 DEF HandoverRefs, PhoneRefs, Comes
  <2>2. ASSUME NEW p \in Phone, Sent(p, m)
        PROVE  PhoneRefs'
    <3> DEFINE x == [Away EXCEPT !.at = m.chan, !.ref = m.ref,
                                 !.brings = "HandoverComplete"]
    <3>1. x.ref = m.ref
      BY DEF Away
    <3>2. ph' = [ph EXCEPT ![p] = x] /\ ph \in [Phone -> PhoneState]
      BY <2>2, InvParts DEF Sent, PhonesTyped
    <3> HIDE DEF x
    <3> QED
      BY <1>3, <3>1, <3>2 DEF HandoverRefs, PhoneRefs, Comes
  <2> QED
    BY <1>1, <2>1, <2>2
<1>6. SlotRefs' /\ RequestRefs'
  BY <1>1 DEF HandoverRefs, SlotRefs, RequestRefs, RefOf, Given, Asks
<1> QED
  BY <1>4, <1>5, <1>6 DEF HandoverRefs

LEMMA AskHandoverKeeps ==
  ASSUME ToldApart, ConnectionsInv, HandoverRefs, AskHandover
  PROVE  HandoverRefs'
<1> DEFINE ref == HoRefs[handovers + 1]
           m == [ToBtsMsg("HandoverRequest", -1) EXCEPT !.ref = ref]
<1>1. /\ handovers < Len(HoRefs) /\ handovers' = handovers + 1
      /\ toBts \in Seq(ToBts) /\ toBts' = Append(toBts, m)
      /\ UNCHANGED <<table, toYate, ph>>
  BY InvParts, AskHandoverHolds
<1>2. /\ handovers \in Nat /\ Len(HoRefs) \in Nat
      /\ handovers + 1 \in 1 .. Len(HoRefs)
      /\ \A k \in 1 .. handovers : k \in 1 .. Len(HoRefs) /\ k # handovers + 1
  BY <1>1, InvParts, HoRefsAssumption
<1>3. ref \in Ref /\ ref # 0 /\ ref # NoRef
  BY <1>2, HoRefsAssumption, Refs DEF ToldApart
<1>4. ref \notin Given
  BY <1>2 DEF ToldApart, Given
<1>5. m.ref = ref
  BY DEF ToBtsMsg
<1>6. Given' = Given \cup {ref}
  <2>1. 1 .. (handovers + 1) = (1 .. handovers) \cup {handovers + 1}
    BY <1>2
  <2> QED
    BY <1>1, <2>1 DEF Given
<1> HIDE DEF ref, m
<1>7. \A i \in Id : RefOf(i)' = RefOf(i) /\ RefOf(i) # ref
  BY <1>1, <1>3, <1>4 DEF RefOf, HandoverRefs, SlotRefs, Blank
<1>8. SlotRefs'
  BY <1>6, <1>7 DEF HandoverRefs, SlotRefs, Blank
<1>9. RequestRefs'
  <2>1. /\ Len(toBts') = Len(toBts) + 1 /\ Len(toBts) \in Nat
        /\ \A n \in 1 .. Len(toBts') :
             \/ n \in 1 .. Len(toBts) /\ toBts'[n] = toBts[n]
             \/ n = Len(toBts) + 1 /\ toBts'[n] = m
    BY <1>1
  <2>2. \A n \in 1 .. Len(toBts) :
          Asks(toBts[n]) => toBts[n].ref \in Given /\ toBts[n].ref # ref
    BY <1>4 DEF HandoverRefs, RequestRefs
  <2>3. ASSUME NEW n \in 1 .. Len(toBts'), Asks(toBts'[n])
        PROVE  /\ toBts'[n].ref \in Given'
               /\ \A i \in Id : RefOf(i)' # toBts'[n].ref
               /\ \A k \in 1 .. Len(toBts') :
                    k # n /\ Asks(toBts'[k]) => toBts'[k].ref # toBts'[n].ref
    <3>1. CASE n \in 1 .. Len(toBts) /\ toBts'[n] = toBts[n]
      BY <1>5, <1>6, <1>7, <2>1, <2>2, <2>3, <3>1 DEF HandoverRefs, RequestRefs
    <3>2. CASE n = Len(toBts) + 1 /\ toBts'[n] = m
      BY <1>5, <1>6, <1>7, <2>1, <2>2, <3>2
    <3> QED
      BY <2>1, <3>1, <3>2
  <2> QED
    BY <2>3 DEF RequestRefs, Asks
<1>10. AnswerRefs' /\ PhoneRefs'
  BY <1>1 DEF HandoverRefs, AnswerRefs, PhoneRefs, Comes
<1> QED
  BY <1>8, <1>9, <1>10 DEF HandoverRefs

LEMMA HandoverRefsHold ==
  ASSUME ToldApart
  PROVE  Spec => [](ConnectionsInv /\ HandoverRefs)
<1>1. Init => ConnectionsInv /\ HandoverRefs
  <2> SUFFICES ASSUME Init
               PROVE  HandoverRefs
    BY Start
  <2>1. \A i \in Id : RefOf(i) = 0
    BY DEF Init, InitTable, RefOf
  <2>2. toBts = <<>> /\ toYate = <<>> /\ \A p \in Phone : ph[p] = Away
    BY DEF Init
  <2>3. Away.brings # "HandoverComplete"
    BY DEF Away
  <2> QED
    BY <2>1, <2>2, <2>3 DEF HandoverRefs, SlotRefs, RequestRefs, AnswerRefs,
                            PhoneRefs, Blank, Comes
<1>2. ConnectionsInv /\ HandoverRefs /\ [Next]_vars
        => (ConnectionsInv /\ HandoverRefs)'
  BY StepHolds, RefStepKeeps, ServeHandoverKeeps, HandleHandoverAckKeeps,
     AskHandoverKeeps
<1> QED
  BY <1>1, <1>2, PTL DEF Spec

(* A phone that comes to the channel that waits for it is found by its     *)
(* reference, whatever the slots of earlier handovers still hold: unmap by *)
(* id leaves a reference where it is, and findRef takes the first it meets *)
(* (ConnectionMap.cpp, SaveHandoverAccess).                                *)
THEOREM HandoverIsRecognised ==
  ASSUME ToldApart
  PROVE  Spec => []PromisedHandoverIsFound
<1>1. ConnectionsInv /\ HandoverRefs => PromisedHandoverIsFound
  <2> SUFFICES ASSUME ConnectionsInv, HandoverRefs, NEW p \in Phone,
                      ph[p].brings = "HandoverComplete",
                      Find(table, ph[p].at) # -1,
                      table.mMap[Find(table, ph[p].at)].mHoRef = ph[p].ref
               PROVE  FindRef(table, ph[p].ref) = Find(table, ph[p].at)
    BY DEF PromisedHandoverIsFound
  <2> DEFINE id == Find(table, ph[p].at)
             ref == ph[p].ref
             found == FindRef(table, ref)
  <2>1. id \in Id /\ RefOf(id) = ref
    BY FindIs DEF RefOf
  <2>2. ref \notin Blank
    BY DEF HandoverRefs, PhoneRefs, Comes
  <2>3. found \in Id /\ RefOf(found) = ref
    BY <2>1, FindRefIs DEF RefOf
  <2> HIDE DEF id, ref, found
  <2>4. found = id
    BY <2>1, <2>2, <2>3 DEF HandoverRefs, SlotRefs
  <2> QED
    BY <2>4 DEF id, ref, found
<1> QED
  BY <1>1, HandoverRefsHold, PTL

-----------------------------------------------------------------------------
(* One user of a channel                                                   *)

User(i) == table.mMap[i].mChan

(* No two connections speak on one channel.                                *)
OneUser == \A i, j \in Id : i # j /\ User(i) = User(j) => User(i) = None

(* A channel whose dispatcher waits has no connection yet.                 *)
Users == OneUser /\ \A c \in Chan : Waiting(c) => \A i \in Id : User(i) # c

LEMMA UseStepKeeps ==
  ASSUME ConnectionsInv, Users, UseStep
  PROVE  Users'
<1>1. \A i \in Id : User(i)' = User(i) \/ User(i)' = None
  BY DEF UseStep, User
<1>2. None \notin Chan
  BY NoneAssumption
<1> QED
  BY <1>1, <1>2 DEF Users, OneUser, UseStep

(* The dispatcher of c moves; the rest of the channels stay as they are.   *)
LEMMA OneMoves ==
  ASSUME ConnectionsInv, NEW c \in Chan, NEW y, Becomes(c, y)
  PROVE  /\ \A d \in Chan \ {c} : Waiting(d)' = Waiting(d)
         /\ Waiting(c)' = (y.pc \in {"wait", "first", "handover"})
BY InvParts DEF ChannelsTyped, Becomes, Waiting

LEMMA UnmapUses ==
  ASSUME ConnectionsInv, Users, NEW c \in Chan, Unmap(c)
  PROVE  Users'
<1>1. table' = UnmapChan(table, c) /\ Becomes(c, Leaves(ch[c]))
  BY DEF Unmap
<1>2. \A d \in Chan \ {c} : Waiting(d)' = Waiting(d)
  BY <1>1, OneMoves
<1>3. \A i \in Id : User(i)' = User(i) \/ User(i)' = None
  BY <1>1, UnmapKeeps DEF SlotsKept, User
<1>4. \A i \in Id : User(i)' # c
  <2>1. None # c
    BY NoneAssumption
  <2>2. CASE Find(table, c) = -1
    <3>1. \A i \in Id : User(i) # c
      BY <2>2, FindIs, Ids DEF User
    <3> QED
      BY <1>3, <2>1, <3>1
  <2>3. CASE Find(table, c) # -1
    <3>1. PICK k \in Id : k = Find(table, c) /\ User(k) = c
      BY <2>3, FindIs DEF User
    <3> DEFINE new == [mChan |-> None, mMedia |-> None, mHoRef |-> NoRef]
    <3>2. User(k)' = None
      <4>1. table \in Table
        BY InvParts
      <4>2. table'.mMap = [table.mMap EXCEPT ![k] = new]
        BY <1>1, <2>3, <3>1, <4>1, UnmapChanIs
      <4> QED
        BY <3>1, <4>1, <4>2 DEF User, Table
    <3>3. \A i \in Id \ {k} : User(i) # c
      BY <2>1, <3>1 DEF Users, OneUser
    <3> QED
      BY <1>3, <2>1, <3>2, <3>3
  <2> QED
    BY <2>2, <2>3
<1>5. None \notin Chan
  BY NoneAssumption
<1> QED
  BY <1>2, <1>3, <1>4, <1>5 DEF Users, OneUser

(* A channel that had no connection gets one.                              *)
LEMMA TakenByOne ==
  ASSUME ConnectionsInv, Users, NEW c \in Chan, NEW k \in Id, Waiting(c),
         \A d \in Chan \ {c} : Waiting(d)' = Waiting(d), ~Waiting(c)',
         User(k)' = c, \A i \in Id \ {k} : User(i)' = User(i)
  PROVE  Users'
<1>1. \A i \in Id : User(i) # c
  BY DEF Users
<1>2. OneUser'
  BY <1>1 DEF Users, OneUser
<1>3. ASSUME NEW d \in Chan, Waiting(d)', NEW i \in Id
      PROVE  User(i)' # d
  BY <1>3 DEF Users
<1> QED
  BY <1>2, <1>3 DEF Users

LEMMA FirstOfChannelUses ==
  ASSUME ConnectionsInv, Users, NEW c \in Chan, FirstOfChannel(c)
  PROVE  Users'
<1> DEFINE id == MapId(table, c)
           y == [Popped(c) EXCEPT !.pc = "recv", !.id = id]
<1>1. ch[c].pc = "first" /\ ch[c].l3 # <<>> /\ Waiting(c)
  BY DEF FirstOfChannel, At, Waiting
<1>2. Popped(c) \in Channel
  BY <1>1, PoppedIs
<1>3. CASE id = -1
  <2>1. Becomes(c, Leaves(Popped(c))) /\ UNCHANGED table
    BY <1>3 DEF FirstOfChannel
  <2>2. UseStep
    BY <1>1, <2>1, OneMoves, SameTable DEF UseStep, SlotsKept
  <2> QED
    BY <2>2, UseStepKeeps
<1>4. CASE id # -1
  <2>1. Becomes(c, y) /\ table' = Map(table, c, NoRef)
    BY <1>4 DEF FirstOfChannel
  <2>2. y.pc = "recv"
    BY <1>2 DEF Channel
  <2>3. ~Waiting(c)' /\ \A d \in Chan \ {c} : Waiting(d)' = Waiting(d)
    BY <2>1, <2>2, OneMoves
  <2> DEFINE new == [mChan |-> c, mMedia |-> None, mHoRef |-> NoRef]
  <2>4. table \in Table /\ \A i \in Id : User(i) # c
    BY <1>1, InvParts DEF Users
  <2>5. PICK k \in Id : k = id
    BY <1>4, <2>4, MapIs
  <2>6. table'.mMap = [table.mMap EXCEPT ![k] = new]
    BY <1>4, <2>1, <2>4, <2>5, MapIs DEF User
  <2>7. User(k)' = c /\ \A i \in Id \ {k} : User(i)' = User(i)
    BY <2>4, <2>6 DEF User, Table
  <2> QED
    BY <1>1, <2>3, <2>7, TakenByOne
<1> QED
  BY <1>3, <1>4

LEMMA FirstOfReassignedUses ==
  ASSUME ConnectionsInv, Users, NEW c \in Chan, FirstOfReassigned(c)
  PROVE  Users'
<1> DEFINE f == Head(ch[c].l3)
           id == IF c \in Tch /\ f.msg = "AssignmentComplete"
                 THEN RemapId(table, c) ELSE -1
           y == [Popped(c) EXCEPT !.pc = "recv", !.id = id]
<1>1. ch[c].pc = "first" /\ ch[c].l3 # <<>> /\ Waiting(c)
  BY DEF FirstOfReassigned, At, Waiting
<1>2. Popped(c) \in Channel
  BY <1>1, PoppedIs
<1>3. CASE id = -1
  <2>1. Becomes(c, Leaves(Popped(c))) /\ table' = UnmapChan(table, c)
    BY <1>3 DEF FirstOfReassigned
  <2>2. UseStep
    BY <1>1, <2>1, OneMoves, UnmapKeeps DEF UseStep, SlotsKept
  <2> QED
    BY <2>2, UseStepKeeps
<1>4. CASE id # -1
  <2>1. Becomes(c, y) /\ table' = Remap(table, c) /\ id = RemapId(table, c)
    BY <1>4 DEF FirstOfReassigned
  <2>2. y.pc = "recv"
    BY <1>2 DEF Channel
  <2>3. ~Waiting(c)' /\ \A d \in Chan \ {c} : Waiting(d)' = Waiting(d)
    BY <2>1, <2>2, OneMoves
  <2>4. PICK k \in Id : k = RemapId(table, c)
    BY <1>4, <2>1, RemapIdIs
  <2>5. User(k)' = c /\ \A i \in Id \ {k} : User(i)' = User(i)
    BY <1>4, <2>1, <2>4, InvParts, RemapIs DEF User
  <2> QED
    BY <1>1, <2>3, <2>5, TakenByOne
<1> QED
  BY <1>3, <1>4

(* Where nobody is handed over, no two connections speak on one channel:   *)
(* map, remap and unmap, called by all the dispatchers, and the unmap by id*)
(* of Yate's releases give a channel to a second one only after the first  *)
(* has lost it, however late the timers, the messages and the threads are. *)
THEOREM OneUserOfAChannel ==
  ASSUME HoRefs = <<>>
  PROVE  Spec => []OneUser
<1>1. ToldApart
  BY DEF ToldApart
<1>2. Spec => [](ConnectionsInv /\ HandoverRefs)
  BY <1>1, HandoverRefsHold
<1>3. Init => Users
  BY NoneAssumption DEF Init, InitTable, Users, OneUser, User
<1>4. ASSUME ConnectionsInv, HandoverRefs, Users, [Next]_vars
      PROVE  Users'
  <2>1. ~ServeHandover
    <3> SUFFICES ASSUME ServeHandover
                 PROVE  FALSE
      OBVIOUS
    <3>1. toBts \in Seq(ToBts) /\ toBts # <<>> /\ Asks(Head(toBts))
      BY <1>4, InvParts, ServeHandoverHolds DEF Request, Asks
    <3>2. Head(toBts) = toBts[1] /\ 1 \in 1 .. Len(toBts)
      BY <3>1
    <3>3. Head(toBts).ref \in Given
      BY <1>4, <3>1, <3>2 DEF HandoverRefs, RequestRefs
    <3>4. Given = {}
      BY <1>4, InvParts DEF Given
    <3> QED
      BY <3>3, <3>4
  <2> QED
    BY <1>4, <2>1, StepHolds, UseStepKeeps, UnmapUses, FirstOfChannelUses,
       FirstOfReassignedUses
<1>5. Users => OneUser
  BY DEF Users
<1> QED
  BY <1>2, <1>3, <1>4, <1>5, PTL DEF Spec

-----------------------------------------------------------------------------
(* The phone on a link                                                     *)

(* The phones that have the link of c, or may come back to it.             *)
Near(c) ==
  OnLink(c) \cup (IF MaxFail = 0 THEN {}
                  ELSE {p \in Phone : ph[p].back = c /\ ph[p].stage = "asking"})

Held ==
  /\ \A c \in Chan : ch[c].link /\ Near(c) # {} => ch[c].l1 = "T3109"
  /\ \A p \in Phone : ph[p].stage = "asking" => ph[p].order = "none"

(* The link ends, or goes on with its timer.                               *)
Fine(x, y) == ~y.link \/ (y.link = x.link /\ y.l1 = x.l1)

(* The phone comes near to no other channel.                               *)
StaysBy(p) ==
  LET x == ph[p]
      y == ph'[p] IN
  \/ /\ y.stage = "asking" /\ y.order = "none"
     /\ y.back \in {None, IF x.stage = "asking" THEN x.back ELSE x.at}
  \/ /\ y.stage # "asking"
     /\ \/ x.stage # "asking" /\ y.at = x.at
        \/ x.stage = "asking" /\ y.at = x.back /\ MaxFail # 0

LEMMA FineIs ==
  ASSUME NEW x \in Channel
  PROVE  /\ ~Open(x).link /\ ~Abnormal(x).link
         /\ \A prim : ~Closed(x, prim).link
         /\ Fine(x, SendL3(x)) /\ Fine(x, SendRelease(x))
         /\ \A f : Fine(x, Up(x, f)) /\ Up(x, f).link = x.link
                                     /\ Up(x, f).l1 = x.l1
         /\ Fine(x, x)
<1>1. \A y : [y EXCEPT !.l3 = Append(@, Bare("ERROR"))] = Up(y, Bare("ERROR"))
  BY DEF Up
<1>2. \A f : Fine(x, Up(x, f)) /\ Up(x, f).link = x.link /\ Up(x, f).l1 = x.l1
  BY DEF Up, Channel, Fine
<1>3. ASSUME NEW prim
      PROVE  ~Closed(x, prim).link
  BY DEF Closed, Up, Channel
<1>4. ~Open(x).link
  BY DEF Open, Channel
<1>5. ~Abnormal(x).link
  <2>1. Up(x, Bare("ERROR")) \in Channel
    BY UpKin, Frames DEF Kin, Primitives
  <2>2. \A y \in Channel : ~Closed(y, "RELEASE").link
    BY DEF Closed, Up, Channel
  <2> QED
    BY <2>1, <2>2 DEF Abnormal
<1> QED
  BY <1>2, <1>3, <1>4, <1>5 DEF SendL3, SendRelease, Fine

(* A dispatcher that goes to another place, with or without a frame.       *)
LEMMA FineGoes ==
  ASSUME NEW x \in Channel, NEW y \in Channel, Fine(x, y), NEW pc, NEW id,
         NEW pending
  PROVE  /\ Fine(x, Leaves(y)) /\ Fine(x, [y EXCEPT !.pc = pc])
         /\ Fine(x, [y EXCEPT !.pc = pc, !.id = id])
         /\ Fine(x, [y EXCEPT !.pc = pc, !.handoverPending = pending])
BY DEF Channel, Fine, Leaves

LEMMA FinePopped ==
  ASSUME ConnectionsInv, NEW c \in Chan, ch[c].l3 # <<>>
  PROVE  Popped(c) \in Channel /\ Fine(ch[c], Popped(c))
<1>1. ch[c] \in Channel /\ Popped(c) \in Channel
  BY InvParts, PoppedIs
<1> QED
  BY <1>1 DEF Popped, Channel, Fine

LEMMA FineTwice ==
  ASSUME NEW x, NEW y, NEW z, Fine(x, y), Fine(y, z)
  PROVE  Fine(x, z)
BY DEF Fine

(* The channels, of which c becomes y.                                     *)
LEMMA OneBecomes ==
  ASSUME ConnectionsInv, NEW c \in Chan, NEW y, Becomes(c, y)
  PROVE  \A d \in Chan : ch'[d] = IF d = c THEN y ELSE ch[d]
BY InvParts DEF ChannelsTyped, Becomes

LEMMA NearStays ==
  ASSUME NEW p \in Phone, StaysBy(p), NEW c \in Chan, p \in Near(c)'
  PROVE  p \in Near(c)
BY NoneAssumption DEF StaysBy, Near, OnLink

LEMMA HeldKept ==
  ASSUME Held, \A p \in Phone : StaysBy(p), \A c \in Chan : Fine(ch[c], ch'[c])
  PROVE  Held'
<1>1. \A c \in Chan : Near(c)' \subseteq Near(c)
  BY NearStays DEF Near, OnLink
<1>2. \A c \in Chan : (ch[c].link)' /\ Near(c)' # {} => (ch[c].l1)' = "T3109"
  BY <1>1 DEF Held, Fine
<1>3. \A p \in Phone : (ph[p].stage = "asking" => ph[p].order = "none")'
  BY DEF StaysBy
<1> QED
  BY <1>2, <1>3 DEF Held

LEMMA OneHeld ==
  ASSUME ConnectionsInv, Held, NEW c \in Chan, NEW y, Becomes(c, y),
         Fine(ch[c], y), \A p \in Phone : StaysBy(p)
  PROVE  Held'
<1>1. \A d \in Chan : Fine(ch[d], ch'[d])
  BY OneBecomes DEF Fine
<1> QED
  BY <1>1, HeldKept

LEMMA NoneHeld ==
  ASSUME Held, UNCHANGED ch, \A p \in Phone : StaysBy(p)
  PROVE  Held'
<1>1. \A d \in Chan : Fine(ch[d], ch'[d])
  BY DEF Fine
<1> QED
  BY <1>1, HeldKept

LEMMA SameStays ==
  ASSUME Held, NEW p \in Phone, ph'[p] = ph[p]
  PROVE  StaysBy(p)
BY DEF Held, StaysBy

LEMMA AwayStays ==
  ASSUME NEW p \in Phone, NEW at, NEW ref,
         \/ ph'[p] = Away
         \/ ph'[p] = [Away EXCEPT !.at = at]
         \/ ph'[p] = [Away EXCEPT !.at = at, !.ref = ref,
                                  !.brings = "HandoverComplete"]
  PROVE  StaysBy(p)
<1>1. /\ Away.stage = "asking" /\ Away.order = "none" /\ Away.back = None
      /\ LET y == [Away EXCEPT !.at = at] IN
           y.stage = "asking" /\ y.order = "none" /\ y.back = None
      /\ LET y == [Away EXCEPT !.at = at, !.ref = ref,
                               !.brings = "HandoverComplete"] IN
           y.stage = "asking" /\ y.order = "none" /\ y.back = None
  BY DEF Away
<1>2. ph'[p].stage = "asking" /\ ph'[p].order = "none" /\ ph'[p].back = None
  BY <1>1
<1> QED
  BY <1>2 DEF StaysBy

LEMMA ToldStays ==
  ASSUME ConnectionsInv, Held, NEW p \in Phone, NEW c, NEW order,
         ph'[p] = Told(c, order)[p]
  PROVE  StaysBy(p)
<1>1. ph[p] \in PhoneState
  BY InvParts
<1>2. CASE ch[c].link /\ p \in OnLink(c)
  BY <1>1, <1>2 DEF Told, OnLink, StaysBy, PhoneState
<1>3. CASE ~(ch[c].link /\ p \in OnLink(c))
  BY <1>3, SameStays DEF Told
<1> QED
  BY <1>2, <1>3

LEMMA DismissedStays ==
  ASSUME ConnectionsInv, Held, NEW p \in Phone, NEW c, ph'[p] = Dismissed(c)[p]
  PROVE  StaysBy(p)
<1>1. ph[p] \in PhoneState
  BY InvParts
<1>2. CASE p \in OnLink(c)
  BY <1>2, AwayStays DEF Dismissed
<1>3. CASE p \notin OnLink(c)
  <2>1. /\ ph'[p].at = ph[p].at /\ ph'[p].stage = ph[p].stage
        /\ ph'[p].order = ph[p].order /\ ph'[p].back \in {None, ph[p].back}
    BY <1>1, <1>3 DEF Dismissed, PhoneState
  <2> QED
    BY <2>1 DEF Held, StaysBy
<1> QED
  BY <1>2, <1>3

LEMMA AllStay ==
  ASSUME ConnectionsInv, Held
  PROVE  /\ UNCHANGED ph => \A p \in Phone : StaysBy(p)
         /\ \A c, order : ph' = Told(c, order) => \A p \in Phone : StaysBy(p)
         /\ \A c : ph' = Dismissed(c) => \A p \in Phone : StaysBy(p)
BY SameStays, ToldStays, DismissedStays

(* Only p changes.                                                         *)
LEMMA OneStays ==
  ASSUME ConnectionsInv, Held, NEW p \in Phone, NEW x, ph' = [ph EXCEPT ![p] = x],
         ph'[p] = x => StaysBy(p)
  PROVE  \A q \in Phone : StaysBy(q)
<1>1. \A q \in Phone : ph'[q] = IF q = p THEN x ELSE ph[q]
  BY InvParts DEF PhonesTyped
<1> QED
  BY <1>1, SameStays

-----------------------------------------------------------------------------
(* What the radio does to the links                                        *)

(* The dead link is not left to a phone that may come back: either nobody  *)
(* comes back, or no timer is late.                                        *)
LEMMA TimerExpiresHolds ==
  ASSUME ConnectionsInv, Held, MaxLate = 0 \/ MaxFail = 0, NEW c \in Chan,
         TimerExpires(c)
  PROVE  Held'
<1>1. /\ Becomes(c, [ch[c] EXCEPT !.l1 = "free"]) /\ UNCHANGED ph
      /\ ch[c].l1 = "T3109" => OnLink(c) = {}
  BY DEF TimerExpires, Becomes
<1>2. ch[c].link => Near(c) = {}
  <2>1. CASE ch[c].l1 # "T3109"
    BY <2>1 DEF Held
  <2>2. CASE ch[c].l1 = "T3109" /\ MaxFail # 0
    <3>1. used \in Counts /\ MaxLate = 0
      BY <2>2, InvParts
    <3>2. ~Needed(c)
      BY <3>1 DEF TimerExpires, Counts
    <3> QED
      BY <1>1, <2>2, <3>2 DEF Needed, Near
  <2>3. CASE ch[c].l1 = "T3109" /\ MaxFail = 0
    BY <1>1, <2>3 DEF Near
  <2> QED
    BY <2>1, <2>2, <2>3
<1>3. \A d \in Chan : ch'[d] = IF d = c THEN [ch[c] EXCEPT !.l1 = "free"] ELSE ch[d]
  BY <1>1, OneBecomes
<1>4. ch'[c].link = ch[c].link
  BY <1>3, InvParts DEF Channel
<1>5. \A d \in Chan : Near(d)' = Near(d)
  BY <1>1 DEF Near, OnLink
<1> QED
  BY <1>1, <1>2, <1>3, <1>4, <1>5 DEF Held

LEMMA LinkFailsHolds ==
  ASSUME ConnectionsInv, Held, NEW c \in Chan, LinkFails(c)
  PROVE  Held'
<1>1. Becomes(c, Abnormal(ch[c])) /\ Fine(ch[c], Abnormal(ch[c]))
  BY InvParts, FineIs DEF LinkFails, Becomes, Fine
<1>2. ASSUME NEW p \in Phone
      PROVE  StaysBy(p)
  <2>1. ph[p] \in PhoneState
    BY InvParts
  <2>2. ph'[p] = IF p \in OnLink(c) THEN [ph[p] EXCEPT !.order = "none"] ELSE ph[p]
    BY DEF LinkFails
  <2> QED
    BY <2>1, <2>2, SameStays DEF PhoneState, OnLink, StaysBy
<1> QED
  BY <1>1, <1>2, OneHeld

LEMMA GrantHolds ==
  ASSUME ConnectionsInv, Held, NEW p \in Phone, NEW pool \in Access, Grant(p, pool)
  PROVE  Held'
<1>1. PICK c \in pool :
        /\ Becomes(c, Open(ch[c]))
        /\ ph' = [Dismissed(c) EXCEPT ![p] = [Away EXCEPT !.at = c]]
  BY DEF Grant, Becomes
<1>2. c \in Chan
  BY ChannelsAssumption
<1>3. Fine(ch[c], Open(ch[c]))
  BY <1>2, InvParts, FineIs DEF Fine
<1>4. \A q \in Phone : ph'[q] = IF q = p THEN [Away EXCEPT !.at = c]
                                         ELSE Dismissed(c)[q]
  BY <1>1 DEF Dismissed
<1>5. \A q \in Phone : StaysBy(q)
  BY <1>4, AwayStays, DismissedStays
<1> QED
  BY <1>1, <1>2, <1>3, <1>5, OneHeld

(* Only here a link begins.                                                *)
LEMMA SeizeHolds ==
  ASSUME ConnectionsInv, Held, NEW p \in Phone, Seize(p)
  PROVE  Held'
<1>0. ph[p] \in PhoneState
  BY InvParts
<1>1. PICK c \in Chan : c = ph[p].at
  BY <1>0 DEF Seize, PhoneState
<1> DEFINE first == ph[p].brings = "MM"
           z == [ch[c] EXCEPT !.l1 = "T3109", !.link = TRUE]
           x == Up(z, Bare("ESTABLISH"))
           y == IF first THEN Up(x, Data("MM", p)) ELSE x
           stage == IF first THEN "talking" ELSE "linked"
<1>2. Becomes(c, y) /\ ph' = [ph EXCEPT ![p].stage = stage]
  BY <1>1 DEF Seize, Becomes
<1>3. z \in Channel /\ z.l1 = "T3109"
  BY InvParts DEF Channel
<1> HIDE DEF z
<1>4. x \in Channel /\ x.l1 = "T3109"
  BY <1>3, FineIs, UpKin, Frames DEF Kin, Primitives
<1> HIDE DEF x
<1>5. y.l1 = "T3109"
  BY <1>4, FineIs
<1> HIDE DEF y
<1>6. \A d \in Chan : ch'[d] = IF d = c THEN y ELSE ch[d]
  BY <1>2, OneBecomes
<1>7. /\ \A q \in Phone \ {p} : ph'[q] = ph[q]
      /\ ph'[p].at = c /\ ph'[p].stage # "asking"
  <2>1. stage # "asking"
    OBVIOUS
  <2> HIDE DEF stage
  <2> QED
    BY <1>0, <1>1, <1>2, <2>1, InvParts DEF PhonesTyped, PhoneState
<1> HIDE DEF stage
<1>8. \A d \in Chan \ {c} : Near(d)' \subseteq Near(d)
  BY <1>7 DEF Near, OnLink
<1>9. \A d \in Chan : (ch[d].link)' /\ Near(d)' # {} => (ch[d].l1)' = "T3109"
  BY <1>5, <1>6, <1>8 DEF Held
<1>10. \A q \in Phone : (ph[q].stage = "asking" => ph[q].order = "none")'
  BY <1>7 DEF Held
<1> QED
  BY <1>9, <1>10 DEF Held

(* A phone says something.                                                 *)
LEMMA SayHolds ==
  ASSUME ConnectionsInv, Held, NEW c \in Chan, NEW f, Say(c, f),
         \A p \in Phone : StaysBy(p)
  PROVE  Held'
<1>1. Becomes(c, Up(ch[c], f)) /\ Fine(ch[c], Up(ch[c], f))
  BY InvParts, FineIs DEF Say, Becomes
<1> QED
  BY <1>1, OneHeld

LEMMA SpeaksHolds ==
  ASSUME ConnectionsInv, Held, NEW p \in Phone,
         Announce(p) \/ Talk(p) \/ ObeyModify(p) \/ HandoverBurst(p)
  PROVE  Held'
<1>1. ph[p] \in PhoneState
  BY InvParts
<1>2. PICK c \in Chan : c = ph[p].at
  BY <1>1 DEF Announce, Talk, ObeyModify, HandoverBurst, PhoneState
<1>3. \E f : Say(c, f)
  BY <1>2 DEF Announce, Talk, ObeyModify, HandoverBurst
<1>4. \A q \in Phone : StaysBy(q)
  <2>1. CASE Announce(p)
    <3> DEFINE x == [ph[p] EXCEPT !.stage = "talking"]
    <3>1. ph' = [ph EXCEPT ![p] = x] /\ ph[p].stage = "linked"
      BY <2>1 DEF Announce
    <3>2. x.stage = "talking" /\ x.at = ph[p].at
      BY <1>1 DEF PhoneState
    <3> HIDE DEF x
    <3> QED
      BY <3>1, <3>2, OneStays DEF StaysBy
  <2>2. CASE ObeyModify(p)
    <3> DEFINE x == [ph[p] EXCEPT !.order = "none"]
    <3>1. ph' = [ph EXCEPT ![p] = x] /\ ph[p].order = "modify"
      BY <2>2 DEF ObeyModify
    <3>2. x.stage = ph[p].stage /\ x.at = ph[p].at
      BY <1>1 DEF PhoneState
    <3>3. ph[p].stage # "asking"
      BY <3>1 DEF Held
    <3> HIDE DEF x
    <3> QED
      BY <3>1, <3>2, <3>3, OneStays DEF StaysBy
  <2>3. CASE Talk(p) \/ HandoverBurst(p)
    BY <2>3, AllStay DEF Talk, HandoverBurst
  <2> QED
    BY <2>1, <2>2, <2>3
<1> QED
  BY <1>3, <1>4, SayHolds

LEMMA ObeyHolds ==
  ASSUME ConnectionsInv, Held, NEW p \in Phone,
         ObeyRelease(p) \/ ObeyAssignment(p) \/ Leave(p)
  PROVE  Held'
<1>1. ph[p] \in PhoneState
  BY InvParts
<1>2. CASE ObeyRelease(p)
  <2>1. PICK c \in Chan : c = ph[p].at
    BY <1>1, <1>2 DEF ObeyRelease, PhoneState
  <2> DEFINE y == IF ch[c].link THEN Closed(ch[c], "RELEASE") ELSE ch[c]
  <2>2. Becomes(c, y) /\ ph' = [ph EXCEPT ![p] = Away]
    BY <1>2, <2>1 DEF ObeyRelease, Becomes
  <2>3. Fine(ch[c], y)
    BY InvParts, FineIs DEF Fine
  <2> HIDE DEF y
  <2> QED
    BY <2>2, <2>3, AwayStays, OneStays, OneHeld
<1>3. CASE ObeyAssignment(p)
  <2> DEFINE x == [Away EXCEPT !.at = ph[p].order, !.back = ph[p].at,
                               !.brings = "AssignmentComplete"]
  <2>1. ph' = [ph EXCEPT ![p] = x] /\ UNCHANGED ch /\ ph[p].order \in Chan
    BY <1>3 DEF ObeyAssignment
  <2>2. x.stage = "asking" /\ x.order = "none" /\ x.back = ph[p].at
    BY DEF Away
  <2>3. ph[p].stage # "asking"
    BY <2>1, OrdersAssumption DEF Held
  <2> HIDE DEF x
  <2> QED
    BY <2>1, <2>2, <2>3, OneStays, NoneHeld DEF StaysBy
<1>4. CASE Leave(p)
  BY <1>4, AwayStays, OneStays, NoneHeld DEF Leave
<1> QED
  BY <1>2, <1>3, <1>4

LEMMA AssignmentFailsHolds ==
  ASSUME ConnectionsInv, Held, NEW p \in Phone, AssignmentFails(p)
  PROVE  Held'
<1>1. ph[p] \in PhoneState /\ used \in Counts
  BY InvParts
<1>2. PICK c \in Chan : c = ph[p].back
  BY <1>1 DEF AssignmentFails, PhoneState
<1>3. MaxFail # 0 /\ ph[p].stage = "asking"
  BY <1>1 DEF AssignmentFails, Counts
<1>4. CASE ch[c].link
  <2> DEFINE x == [Away EXCEPT !.at = c, !.stage = "talking"]
  <2>1. Say(c, Data("AssignmentFailure", p)) /\ ph' = [ph EXCEPT ![p] = x]
    BY <1>2, <1>4 DEF AssignmentFails
  <2>2. x.stage = "talking" /\ x.at = c
    BY DEF Away
  <2> HIDE DEF x
  <2> QED
    BY <1>2, <1>3, <2>1, <2>2, OneStays, SayHolds DEF StaysBy
<1>5. CASE ~ch[c].link
  <2>1. ph' = [ph EXCEPT ![p] = Away] /\ UNCHANGED ch
    BY <1>2, <1>5 DEF AssignmentFails
  <2> QED
    BY <2>1, AwayStays, OneStays, NoneHeld
<1> QED
  BY <1>4, <1>5

LEMMA RadioHolds ==
  ASSUME ConnectionsInv, Held, MaxLate = 0 \/ MaxFail = 0, Radio
  PROVE  Held'
BY TimerExpiresHolds, LinkFailsHolds, GrantHolds, SeizeHolds, SpeaksHolds,
   ObeyHolds, AssignmentFailsHolds DEF Radio

-----------------------------------------------------------------------------
(* What the threads do to the links                                        *)

LEMMA DispatchHeld ==
  ASSUME ConnectionsInv, Held, NEW c \in Chan, Dispatch(c)
  PROVE  Held'
<1>1. ch[c] \in Channel
  BY InvParts
<1>2. \A p \in Phone : StaysBy(p)
  <2>1. \/ UNCHANGED ph \/ ph' = Told(c, "release") \/ ph' = Dismissed(c)
    BY DEF Dispatch, Await, AwaitHandover, FirstIsNone, FirstOfChannel,
           FirstOfReassigned, Forward, Break, Idle, End, EndsAs, ReportLost,
           ReleaseClosed, Unmap
  <2> QED
    BY <2>1, AllStay
<1>3. ASSUME NEW x \in Channel, Fine(ch[c], x), NEW pc, NEW id,
             \/ Becomes(c, x) \/ Becomes(c, Leaves(x))
             \/ Becomes(c, [x EXCEPT !.pc = pc])
             \/ Becomes(c, [x EXCEPT !.pc = pc, !.id = id])
             \/ Becomes(c, [x EXCEPT !.pc = pc, !.handoverPending = FALSE])
             \/ Becomes(c, Closed(x, "HARDRELEASE"))
             \/ Becomes(c, SendL3(Leaves(x)))
             \/ Becomes(c, [SendRelease(x) EXCEPT !.pc = pc])
      PROVE  Held'
  <2>1. Leaves(x) \in Channel /\ Fine(ch[c], Leaves(x))
    BY <1>1, <1>3, FineGoes, LeavesIs
  <2>2. SendRelease(x) \in Channel /\ Fine(ch[c], SendRelease(x))
    BY <1>3, FineIs, FineTwice, SendReleaseKin DEF Kin
  <2>3. Fine(ch[c], SendL3(Leaves(x)))
    BY <2>1, FineIs, FineTwice
  <2>4. Fine(ch[c], Closed(x, "HARDRELEASE"))
    BY FineIs DEF Fine
  <2>5. /\ Fine(ch[c], [x EXCEPT !.pc = pc])
        /\ Fine(ch[c], [x EXCEPT !.pc = pc, !.id = id])
        /\ Fine(ch[c], [x EXCEPT !.pc = pc, !.handoverPending = FALSE])
        /\ Fine(ch[c], [SendRelease(x) EXCEPT !.pc = pc])
    BY <1>1, <1>3, <2>2, FineGoes
  <2> QED
    BY <1>2, <1>3, <2>1, <2>3, <2>4, <2>5, OneHeld
<1>4. CASE \/ Idle(c) \/ End(c) \/ ReportLost(c) \/ ReleaseClosed(c) \/ Unmap(c)
           \/ Becomes(c, Leaves(ch[c]))
  <2>1. \/ Becomes(c, Leaves(ch[c]))
        \/ \E pc : \/ Becomes(c, [ch[c] EXCEPT !.pc = pc])
                   \/ Becomes(c, [SendRelease(ch[c]) EXCEPT !.pc = pc])
    BY <1>4 DEF Idle, End, EndsAs, ReportLost, ReleaseClosed, Unmap
  <2> QED
    BY <1>1, <1>3, <2>1, FineIs
<1>5. CASE ch[c].l3 # <<>> /\ ~Becomes(c, Leaves(ch[c]))
  <2>1. PICK x : x = Popped(c)
    OBVIOUS
  <2>2. x \in Channel /\ Fine(ch[c], x)
    BY <1>5, <2>1, FinePopped
  <2>3. \E pc, id :
          \/ Becomes(c, x) \/ Becomes(c, Leaves(x))
          \/ Becomes(c, [x EXCEPT !.pc = pc])
          \/ Becomes(c, [x EXCEPT !.pc = pc, !.id = id])
          \/ Becomes(c, [x EXCEPT !.pc = pc, !.handoverPending = FALSE])
          \/ Becomes(c, Closed(x, "HARDRELEASE"))
          \/ Becomes(c, SendL3(Leaves(x)))
          \/ Becomes(c, [SendRelease(x) EXCEPT !.pc = pc])
          \/ Idle(c) \/ End(c) \/ ReportLost(c) \/ ReleaseClosed(c) \/ Unmap(c)
    <3>1. CASE Await(c) \/ AwaitHandover(c)
      BY <1>5, <2>1, <3>1 DEF Await, AwaitHandover
    <3>2. CASE FirstIsNone(c) \/ FirstOfChannel(c) \/ FirstOfReassigned(c)
      BY <1>5, <2>1, <3>2 DEF FirstIsNone, FirstOfChannel, FirstOfReassigned
    <3>3. CASE Forward(c) \/ Break(c)
      BY <2>1, <3>3 DEF Forward, Loop, Break
    <3> QED
      BY <3>1, <3>2, <3>3 DEF Dispatch
  <2> QED
    BY <1>3, <1>4, <2>2, <2>3
<1>6. \/ Idle(c) \/ End(c) \/ ReportLost(c) \/ ReleaseClosed(c) \/ Unmap(c)
      \/ Becomes(c, Leaves(ch[c])) \/ ch[c].l3 # <<>>
  BY DEF Dispatch, Await, AwaitHandover, FirstIsNone, FirstOfChannel,
         FirstOfReassigned, Forward, Break
<1> QED
  BY <1>4, <1>5, <1>6

(* The traffic channel of an assignment is opened, and the phone sent to it*)
LEMMA AssignedHeld ==
  ASSUME ConnectionsInv, Held, NEW c \in Chan, NEW t \in Chan,
         ch' = [ch EXCEPT ![t] = Open(@), ![c] = SendL3(@)],
         ph' = [p \in Phone |-> IF p \in OnLink(t) THEN Away ELSE Told(c, t)[p]]
  PROVE  Held'
<1>1. ch \in [Chan -> Channel]
  BY InvParts DEF ChannelsTyped
<1>2. Open(ch[t]) \in Channel /\ ~Open(ch[t]).link
  BY <1>1, OpenKin, FineIs DEF Kin
<1>3. PICK o : o = Open(ch[t])
  OBVIOUS
<1> DEFINE mid == [ch EXCEPT ![t] = Open(ch[t])]
<1>8. PICK x \in {ch[c], mid[c]} : ch' = [mid EXCEPT ![c] = SendL3(x)]
  BY <1>1
<1>9. x \in {ch[c], o} /\ (c # t => x = ch[c])
  BY <1>1, <1>3
<1>4. \A d \in Chan : ch'[d] = IF d = c THEN SendL3(x)
                               ELSE IF d = t THEN o ELSE ch[d]
  BY <1>1, <1>3, <1>8
<1> HIDE DEF mid
<1>5. Fine(ch[c], ch'[c])
  <2>1. x \in Channel /\ Fine(x, SendL3(x)) /\ Fine(ch[c], x)
    BY <1>1, <1>2, <1>3, <1>9, FineIs DEF Fine
  <2> QED
    BY <1>4, <2>1, FineTwice
<1>6. \A d \in Chan : Fine(ch[d], ch'[d])
  BY <1>2, <1>3, <1>4, <1>5 DEF Fine
<1>7. ASSUME NEW p \in Phone
      PROVE  StaysBy(p)
  BY AwayStays, ToldStays
<1> QED
  BY <1>6, <1>7, HeldKept

LEMMA ServeHeld ==
  ASSUME ConnectionsInv, Held, Serve
  PROVE  Held'
<1>1. \A c \in Chan : ch[c] \in Channel
  BY InvParts
<1>2. CASE UNCHANGED <<ch, ph>>
  BY <1>2, AllStay, NoneHeld
<1>3. ASSUME NEW c \in Chan,
             \/ Becomes(c, SendL3(ch[c])) \/ Becomes(c, Open(ch[c]))
             \/ Becomes(c, Closed(ch[c], "HARDRELEASE"))
             \/ Becomes(c, Closed(Open(ch[c]), "HARDRELEASE"))
             \/ Becomes(c, [Open(ch[c]) EXCEPT !.handoverPending = TRUE]),
             \/ UNCHANGED ph \/ ph' = Dismissed(c)
             \/ \E order : ph' = Told(c, order)
      PROVE  Held'
  <2>1. \A p \in Phone : StaysBy(p)
    BY <1>3, AllStay
  <2>2. PICK o \in Channel : o = Open(ch[c]) /\ ~o.link
    BY <1>1, OpenKin, FineIs DEF Kin
  <2>3. /\ Fine(ch[c], o) /\ Fine(ch[c], Closed(o, "HARDRELEASE"))
        /\ Fine(ch[c], Closed(ch[c], "HARDRELEASE")) /\ Fine(ch[c], SendL3(ch[c]))
    BY <1>1, <2>2, FineIs DEF Fine
  <2>4. ~[o EXCEPT !.handoverPending = TRUE].link
    BY <2>2 DEF Channel
  <2>5. Fine(ch[c], [o EXCEPT !.handoverPending = TRUE])
    BY <2>4 DEF Fine
  <2> QED
    BY <1>3, <2>1, <2>2, <2>3, <2>5, OneHeld
<1>4. CASE ServeRelease
  BY <1>2, <1>4 DEF ServeRelease
<1>5. CASE TellRelease
  <2>1. PICK c \in Chan : c = sig.chan
    BY <1>5 DEF TellRelease, ConnectionsInv, Spoken
  <2> QED
    BY <1>3, <1>5, <2>1 DEF TellRelease
<1>6. CASE ServeL3
  <2>1. PICK c : c = ChanOf(table, Head(toBts).id)
    OBVIOUS
  <2>2. c \in Chan \cup {None}
    BY <2>1, InvParts, OfId
  <2>3. /\ UNCHANGED ph
        /\ UNCHANGED ch \/ (c # None /\ Becomes(c, SendL3(ch[c])))
    BY <1>6, <2>1 DEF ServeL3
  <2> QED
    BY <1>2, <1>3, <2>2, <2>3
<1>7. CASE ServeAlloc
  <2>1. FreeTch \subseteq Chan
    BY ChannelsAssumption DEF FreeTch
  <2> QED
    BY <1>2, <1>3, <1>7, <2>1 DEF ServeAlloc
<1>8. CASE ServeHandover
  <2>1. FreeTch \subseteq Chan
    BY ChannelsAssumption DEF FreeTch
  <2>2. \/ UNCHANGED <<ch, ph>>
        \/ \E c \in FreeTch :
             /\ ph' = Dismissed(c)
             /\ \/ Becomes(c, Closed(Open(ch[c]), "HARDRELEASE"))
                \/ Becomes(c, [Open(ch[c]) EXCEPT !.handoverPending = TRUE])
    BY <1>8 DEF ServeHandover
  <2> QED
    BY <1>2, <1>3, <2>1, <2>2
<1>9. CASE ServeStart
  <2> DEFINE id == Head(toBts).id
  <2>1. PICK c : c = ChanOf(table, id)
    OBVIOUS
  <2>2. PICK t : t = MediaOf(table, id)
    OBVIOUS
  <2>3. t \in Chan \cup {None}
    BY <2>2, InvParts, OfId
  <2> HIDE DEF id
  <2>4. \/ UNCHANGED <<ch, ph>>
        \/ c \in Tch /\ Becomes(c, SendL3(ch[c])) /\ ph' = Told(c, "modify")
        \/ /\ c \in Sdcch /\ t # None
           /\ ch' = [ch EXCEPT ![t] = Open(@), ![c] = SendL3(@)]
           /\ ph' = [p \in Phone |-> IF p \in OnLink(t) THEN Away
                                                       ELSE Told(c, t)[p]]
    BY <1>9, <2>1, <2>2 DEF ServeStart, id
  <2>5. CASE c \in Tch /\ Becomes(c, SendL3(ch[c])) /\ ph' = Told(c, "modify")
    BY <1>3, <2>5, ChannelsAssumption
  <2>6. CASE /\ c \in Sdcch /\ t # None
             /\ ch' = [ch EXCEPT ![t] = Open(@), ![c] = SendL3(@)]
             /\ ph' = [p \in Phone |-> IF p \in OnLink(t) THEN Away
                                                         ELSE Told(c, t)[p]]
    BY <2>3, <2>6, ChannelsAssumption, AssignedHeld
  <2> QED
    BY <1>2, <2>4, <2>5, <2>6
<1> QED
  BY <1>4, <1>5, <1>6, <1>7, <1>8, <1>9 DEF Serve

LEMMA YateHeld ==
  ASSUME ConnectionsInv, Held, Yate
  PROVE  Held'
<1>1. UNCHANGED ch
  BY DEF Yate, HandleMM, HandleUnknown, HandleCC, HandleHandoverComplete,
         HandleStarted, HandleError, HandleLost, HandleHandoverReject,
         HandleHandoverAck, AskHandover, HangUp, IdleTimeout, RemovedTimeout,
         YateOnly
<1>2. CASE UNCHANGED ph
  BY <1>1, <1>2, AllStay, NoneHeld
<1>3. CASE HandleHandoverAck /\ ~UNCHANGED ph
  <2> DEFINE x == [Away EXCEPT !.at = Head(toYate).chan, !.ref = Head(toYate).ref,
                               !.brings = "HandoverComplete"]
  <2>1. PICK p \in Phone : ph' = [ph EXCEPT ![p] = x]
    BY <1>3 DEF HandleHandoverAck
  <2>2. ph'[p] = x => StaysBy(p)
    BY AwayStays
  <2> HIDE DEF x
  <2>3. \A q \in Phone : StaysBy(q)
    BY <2>1, <2>2, OneStays
  <2> QED
    BY <1>1, <2>3, NoneHeld
<1>4. UNCHANGED ph \/ HandleHandoverAck
  BY DEF Yate, HandleMM, HandleUnknown, HandleCC, HandleHandoverComplete,
         HandleStarted, HandleError, HandleLost, HandleHandoverReject,
         AskHandover, HangUp, IdleTimeout, RemovedTimeout, YateOnly
<1> QED
  BY <1>2, <1>3, <1>4

(* A channel that a phone talks on is not recycled (L1Decoder::recyclable):*)
(* as long as L2 of the channel and the phone have the link, T3109 is the  *)
(* timer that runs, whatever the dispatchers, the thread of the socket and *)
(* Yate open, assign, hand over, release or release hard, and whichever    *)
(* links fail.  The phone that comes back from an assignment finds it so   *)
(* too, unless T3109 has run out in between: either no timer is late, or   *)
(* no assignment fails.                                                    *)
THEOREM LinkIsGuarded ==
  ASSUME MaxLate = 0 \/ MaxFail = 0
  PROVE  Spec => []LinkIsHeld
<1>1. Init => Held
  <2> SUFFICES ASSUME Init
               PROVE  Held
    OBVIOUS
  <2>1. /\ \A c \in Chan : ~ch[c].link
        /\ \A p \in Phone : ph[p].order = "none"
    BY DEF Init, Away
  <2> QED
    BY <2>1 DEF Held
<1>2. ConnectionsInv /\ Held /\ [Next]_vars => Held'
  <2> SUFFICES ASSUME ConnectionsInv, Held, [Next]_vars
               PROVE  Held'
    OBVIOUS
  <2>1. CASE UNCHANGED vars
    BY <2>1, AllStay, NoneHeld DEF vars
  <2> QED
    BY <2>1, RadioHolds, DispatchHeld, ServeHeld, YateHeld DEF Next
<1>3. Held => LinkIsHeld
  BY DEF Held, Near, LinkIsHeld
<1> QED
  BY <1>1, <1>2, <1>3, InvHolds, PTL DEF Spec

=============================================================================
