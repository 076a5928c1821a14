--------------------------- MODULE ConnectionMap ---------------------------
(***************************************************************************)
(* The table that numbers the connections between mbts and Yate            *)
(* (mbts/Connection/ConnectionMap.cpp): slot id holds the channel of the   *)
(* connection, the traffic channel reserved for it, and the reference by   *)
(* which a phone handed over to this cell is known.  Each operation is an  *)
(* operator from the table to the table it leaves behind.                  *)
(*                                                                         *)
(* mSACCH is a function of the channel, and mTA is data no decision is     *)
(* taken from: both are left out.                                          *)
(***************************************************************************)
EXTENDS Integers

CONSTANTS
    Chan,           \* the dedicated channels
    None,           \* a null pointer
    Size            \* BTS_CONN_MAP_SIZE, 1024 unless defined otherwise

ASSUME SizeAssumption == Size \in Nat \ {0}
ASSUME NoneAssumption == None \notin Chan

Id == 0 .. Size - 1
Ref == 0 .. 255
NoRef == -1

Slot == [mChan : Chan \cup {None}, mMedia : Chan \cup {None},
         mHoRef : Ref \cup {NoRef}]

Table == [mIndex : Id, mMap : [Id -> Slot]]

(* The constructor clears the memory of the table. *)
InitTable ==
  [mIndex |-> 0,
   mMap |-> [i \in Id |-> [mChan |-> None, mMedia |-> None, mHoRef |-> 0]]]

(* The first of the slots, as the searches find it. *)
First(S) == IF S = {} THEN -1 ELSE CHOOSE i \in S : \A j \in S : i <= j

Find(t, c) == First({i \in Id : t.mMap[i].mChan = c})

(* Fault: the first reference there is. *)
FindRefFirst(t, ref) == First({i \in Id : t.mMap[i].mHoRef # NoRef})

FindRef(t, ref) == First({i \in Id : t.mMap[i].mHoRef = ref})

(* Where an id comes from Yate: any 16 bit number. *)
ChanOf(t, id) == IF id \in Id THEN t.mMap[id].mChan ELSE None
MediaOf(t, id) == IF id \in Id THEN t.mMap[id].mMedia ELSE None

(* The distance of slot i from the slot that was given out last. *)
Ahead(t, i) == (i - t.mIndex + Size) % Size

(* Fault: the search begins with the slot that was given out last. *)
FreeAgain(t) == {i \in Id : t.mMap[i].mChan = None}

(* The search goes round from mIndex and ends before it is back there.      *)
Free(t) == {i \in Id \ {t.mIndex} : t.mMap[i].mChan = None}

NextFree(t) ==
  IF Free(t) = {} THEN -1
  ELSE CHOOSE i \in Free(t) : \A j \in Free(t) : Ahead(t, i) <= Ahead(t, j)

(* The id map() returns, and the table it leaves. *)
MapId(t, c) == IF Find(t, c) # -1 THEN Find(t, c) ELSE NextFree(t)

Map(t, c, ref) ==
  LET i == NextFree(t) IN
  IF Find(t, c) # -1 \/ i = -1 THEN t
  ELSE [mIndex |-> i,
        mMap |-> [t.mMap EXCEPT ![i] = [mChan |-> c, mMedia |-> None,
                                        mHoRef |-> ref]]]

MapMedia(t, id, c) ==
  IF ChanOf(t, id) = None THEN t ELSE [t EXCEPT !.mMap[id].mMedia = c]

(* Fault: only the reservation is undone. *)
UnmapIdKeeps(t, id) ==
  IF ChanOf(t, id) = None THEN t ELSE [t EXCEPT !.mMap[id].mMedia = None]

(* The reference is left as it is. *)
UnmapId(t, id) ==
  IF ChanOf(t, id) = None THEN t
  ELSE [t EXCEPT !.mMap[id].mChan = None, !.mMap[id].mMedia = None]

UnmapChan(t, c) ==
  LET i == Find(t, c) IN
  IF i = -1 THEN t
  ELSE [t EXCEPT !.mMap[i] = [mChan |-> None, mMedia |-> None,
                              mHoRef |-> NoRef]]

(* Fault: the first connection of another channel moves to c. *)
RemapIdAny(t, c) == First({j \in Id : t.mMap[j].mChan \notin {None, c}})

(* The connection that has reserved c moves to it. *)
RemapId(t, c) ==
  LET i == First({j \in Id : t.mMap[j].mMedia = c}) IN
  IF i # -1 /\ t.mMap[i].mChan # c THEN i ELSE -1

(* Fault: the connection gets a new slot. *)
RemapAnew(t, c) == IF RemapId(t, c) = -1 THEN t ELSE Map(t, c, NoRef)

Remap(t, c) ==
  LET i == RemapId(t, c) IN
  IF i = -1 THEN t
  ELSE [t EXCEPT !.mMap[i].mChan = c, !.mMap[i].mHoRef = NoRef]

TakeTA(t, id) == [t EXCEPT !.mMap[id].mHoRef = NoRef]

=============================================================================
