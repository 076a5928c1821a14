----------------------------- MODULE MtSmsProofs -----------------------------
(***************************************************************************)
(* Paging, the usage of connections and the wake-ups of messages, for any  *)
(* number of messages to the phone, of connections, of location updates    *)
(* and of references.                                                      *)
(***************************************************************************)
EXTENDS MtSms, FiniteSetTheorems, WellFoundedInduction, TLAPS

Pcs == {"idle", "found", "appended", "wait", "check", "ended", "stopping", "done"}
Ref == 0 .. Tids - 1

Messages == [active: BOOLEAN, sent: BOOLEAN, callRef: Ref \cup {None}]
Lists == [queue: Seq(Sms), conn: Conn \cup {None}, tid: Ref, check: BOOLEAN,
          paging: BOOLEAN, lapsed: BOOLEAN]
Connections == [state: {"none", "up", "removed"}, ue: BOOLEAN, locUpd: BOOLEAN,
                sapi: BOOLEAN, usage: Int, due: BOOLEAN]

(* What the signalling thread may have to do, and the threads beside it.   *)
Work ==
  [op: {"drop", "released", "absent", "setUE"}, list: {None}, conn: Conn]
    \cup [op: {"stopPaging", "service"}, list: {None}, conn: {None}]
    \cup [op: {"look", "remove", "reset"}, list: List, conn: {None}]
    \cup [op: {"answer"}, list: {None}, conn: Conn, ref: Ref, sms: Sms]
    \cup [op: {"take"}, list: List, conn: Conn, ref: Ref, sms: Sms]

WorkAside ==
  [op: {"none", "drop", "released", "absent", "stopPaging"}, list: {None}, conn: Conn]
    \cup [op: {"reset"}, list: List, conn: Conn]

Events ==
  [type: {"page", "update", "sapi", "lost"}, conn: Conn]
    \cup [type: {"answer"}, conn: Conn, ref: Ref, sms: Sms]
Debts == [conn: Conn, ref: Ref, sms: Sms]

YateTyped ==
  /\ pc \in [Sms -> Pcs] /\ mine \in [Sms -> List \cup {None}]
  /\ sms \in [Sms -> Messages] /\ taken \in [Sms -> Sms \cup {None}]
  /\ table \in List \cup {None} /\ list \in [List -> Lists]
  /\ ue \in [cnt: Nat, paging: BOOLEAN]
  /\ conn \in [Conn -> Connections]
  /\ sig \in Seq(Work) /\ aside \in [Conn -> WorkAside]

RadioTyped ==
  /\ toYate \in Seq(Events) /\ pager \in BOOLEAN
  /\ link \in [Conn -> {"none", "up", "asked", "down"}]
  /\ at \in Conn \cup {None} /\ owed \in SUBSET Debts

(* A thread that has begun has a list.                                     *)
Placed == \A s \in Sms : pc[s] # "idle" => mine[s] \in List

TypeOK == YateTyped /\ RadioTyped /\ Placed

(* A connection opens once: Yate has not seen it yet.                      *)
Opens(m) == m.type \in {"page", "update"}
OpensOnce ==
  /\ \A i \in 1 .. Len(toYate) : Opens(toYate[i]) =>
       /\ conn[toYate[i].conn].state = "none"
       /\ link[toYate[i].conn] # "none"
       /\ \A j \in 1 .. Len(toYate) :
            Opens(toYate[j]) /\ toYate[j].conn = toYate[i].conn => j = i
  /\ \A c \in Conn : link[c] = "none" => conn[c].state = "none"

Users(c) == {l \in List : list[l].conn = c}
Pagers == {l \in List : list[l].paging}

(* The usage of a connection before, and while, it is up.                  *)
UsageKept ==
  \A c \in Conn :
    /\ conn[c].state = "none" => conn[c].usage = 0 /\ Users(c) = {}
    /\ conn[c].state = "up" => /\ conn[c].usage >= Cardinality(Users(c))
                               /\ conn[c].due => conn[c].usage = 0

(* Somebody is about to stop the paging.                                   *)
Stops ==
  \/ Does("stopPaging") \/ \E s \in Sms : pc[s] = "stopping"
  \/ \E c \in Conn : DoesAside(c, "stopPaging")

PagingKept ==
  /\ ue.cnt = Cardinality(Pagers)
  /\ pager => ue.paging
  /\ ue.paging /\ Pagers = {} => Stops

Inv == TypeOK /\ OpensOnce /\ UsageKept /\ PagingKept

-----------------------------------------------------------------------------
(* A set of naturals has a least element.                                  *)
LEMMA Least ==
  ASSUME NEW T \in SUBSET Nat, T # {}
  PROVE  \E m \in T : \A n \in T : m <= n
<1> DEFINE R == OpToRel(<, Nat)
<1>1. \A m, n \in Nat : m < n => <<m, n>> \in R
  BY DEF OpToRel
<1>2. IsWellFoundedOn(R, Nat)
  BY NatLessThanWellFounded
<1> HIDE DEF R
<1>3. PICK m \in T : \A n \in T : ~ (<<n, m>> \in R)
  BY <1>2, WFMin
<1>4. ASSUME NEW n \in T
      PROVE  m <= n
  <2>1. m \in Nat /\ n \in Nat
    OBVIOUS
  <2>2. ~(n < m)
    BY <1>1, <1>3, <2>1, Zenon
  <2> QED
    BY <2>1, <2>2
<1> QED
  BY <1>4

(* Pending is the queue without those that have ended at its head.         *)
LEMMA PendingCut ==
  ASSUME NEW l \in List, list[l].queue \in Seq(Sms)
  PROVE  \E n \in 0 .. Len(list[l].queue) :
           /\ \A j \in 1 .. n : ~sms[list[l].queue[j]].active
           /\ n < Len(list[l].queue) => sms[list[l].queue[n + 1]].active
           /\ Pending(l) = SubSeq(list[l].queue, n + 1, Len(list[l].queue))
<1> DEFINE q == list[l].queue
           Cut(k) == /\ \A j \in 1 .. k : ~sms[q[j]].active
                     /\ k < Len(q) => sms[q[k + 1]].active
           T == {k \in 0 .. Len(q) : k < Len(q) => sms[q[k + 1]].active}
<1>1. Len(q) \in T /\ T \in SUBSET Nat
  OBVIOUS
<1> HIDE DEF T
<1>2. PICK m \in T : \A n \in T : m <= n
  BY <1>1, Least
<1>3. m \in 0 .. Len(q) /\ (m < Len(q) => sms[q[m + 1]].active)
  BY <1>2 DEF T
<1>4. ASSUME NEW j \in 1 .. m
      PROVE  ~sms[q[j]].active
  <2>1. j - 1 \in 0 .. Len(q) /\ ~(m <= j - 1) /\ (j - 1) + 1 = j
    BY <1>3
  <2>2. j - 1 \notin T
    BY <1>2, <2>1
  <2> QED
    BY <2>1, <2>2 DEF T
<1>5. \E k \in 0 .. Len(q) : Cut(k)
  BY <1>3, <1>4
<1> DEFINE n == CHOOSE k \in 0 .. Len(q) : Cut(k)
<1>6. n \in 0 .. Len(q) /\ Cut(n)
  BY <1>5
<1>7. Pending(l) = SubSeq(q, n + 1, Len(q))
  BY DEF Pending
<1> HIDE DEF n
<1> QED
  BY <1>6, <1>7

LEMMA PendingIsQueue ==
  ASSUME NEW l \in List, list[l].queue \in Seq(Sms)
  PROVE  Pending(l) \in Seq(Sms)
<1> DEFINE q == list[l].queue
<1>1. PICK n \in 0 .. Len(q) : Pending(l) = SubSeq(q, n + 1, Len(q))
  BY PendingCut
<1>2. SubSeq(q, n + 1, Len(q)) \in Seq(Sms)
  BY <1>1
<1> QED
  BY <1>1, <1>2

(* What follows one sequence in another.                                   *)
LEMMA Joined ==
  ASSUME NEW S, NEW a \in Seq(S), NEW b \in Seq(S)
  PROVE  /\ Len(a) \in Nat /\ Len(b) \in Nat /\ Len(a \o b) = Len(a) + Len(b)
         /\ \A i \in 1 .. Len(a) : (a \o b)[i] = a[i]
         /\ \A i \in 1 .. Len(b) : (a \o b)[Len(a) + i] = b[i]
OBVIOUS

(* What is left of a queue without a message.                              *)
LEMMA RemovedIs ==
  ASSUME NEW S, NEW q \in Seq(S), NEW e
  PROVE  \/ RemoveFirst(q, e) = q /\ ~\E i \in 1 .. Len(q) : q[i] = e
         \/ \E k \in 1 .. Len(q) :
              /\ q[k] = e
              /\ RemoveFirst(q, e) \in Seq(S) /\ Len(RemoveFirst(q, e)) = Len(q) - 1
              /\ \A i \in 1 .. k - 1 : RemoveFirst(q, e)[i] = q[i]
              /\ \A i \in k .. Len(q) - 1 : RemoveFirst(q, e)[i] = q[i + 1]
<1>1. CASE \E i \in 1 .. Len(q) : q[i] = e
  <2> DEFINE I == {i \in 1 .. Len(q) : q[i] = e}
             k == CHOOSE x \in I : \A y \in I : x <= y
             p == SubSeq(q, 1, k - 1)
             r == SubSeq(q, k + 1, Len(q))
  <2>1. RemoveFirst(q, e) = p \o r
    BY <1>1 DEF RemoveFirst, RemoveAt, SelectInSeq, Min
  <2>2. I # {} /\ I \in SUBSET Nat
    BY <1>1
  <2>3. \E x \in I : \A y \in I : x <= y
    <3> HIDE DEF I
    <3> QED
      BY <2>2, Least
  <2>4. k \in 1 .. Len(q) /\ q[k] = e
    BY <2>3
  <2> HIDE DEF k
  <2>5. /\ p \in Seq(S) /\ Len(p) = k - 1
        /\ \A i \in 1 .. k - 1 : p[i] = q[i]
    BY <2>4
  <2>6. /\ r \in Seq(S) /\ Len(r) = Len(q) - k
        /\ \A i \in 1 .. Len(q) - k : r[i] = q[k + i]
    BY <2>4
  <2> HIDE DEF p, r
  <2>7. /\ p \o r \in Seq(S) /\ Len(p \o r) = Len(p) + Len(r)
        /\ \A i \in 1 .. Len(p) : (p \o r)[i] = p[i]
        /\ \A i \in 1 .. Len(r) : (p \o r)[Len(p) + i] = r[i]
    <3>1. p \in Seq(S) /\ r \in Seq(S)
      BY <2>5, <2>6
    <3>2. p \o r \in Seq(S)
      BY <3>1
    <3> QED
      BY <3>1, <3>2, Joined
  <2>8. (k - 1) + (Len(q) - k) = Len(q) - 1
    BY <2>4
  <2>9. ASSUME NEW i \in k .. Len(q) - 1
        PROVE  (p \o r)[i] = q[i + 1]
    <3>1. /\ i - (k - 1) \in 1 .. Len(q) - k /\ (k - 1) + (i - (k - 1)) = i
          /\ k + (i - (k - 1)) = i + 1
      BY <2>4
    <3> QED
      BY <2>5, <2>6, <2>7, <3>1
  <2> QED
    BY <2>1, <2>4, <2>5, <2>6, <2>7, <2>8, <2>9
<1>2. CASE ~\E i \in 1 .. Len(q) : q[i] = e
  BY <1>2 DEF RemoveFirst
<1> QED
  BY <1>1, <1>2

LEMMA RemovedKeeps ==
  ASSUME NEW S, NEW q \in Seq(S), NEW e
  PROVE  /\ RemoveFirst(q, e) \in Seq(S)
         /\ \A i \in 1 .. Len(RemoveFirst(q, e)) :
              \E j \in 1 .. Len(q) : RemoveFirst(q, e)[i] = q[j]
         /\ RemoveFirst(q, e) = q <=> ~\E i \in 1 .. Len(q) : q[i] = e
<1> DEFINE r == RemoveFirst(q, e)
<1> HIDE DEF r
<1>1. CASE r = q /\ ~\E i \in 1 .. Len(q) : q[i] = e
  BY <1>1 DEF r
<1>2. CASE \E k \in 1 .. Len(q) :
             /\ q[k] = e /\ r \in Seq(S) /\ Len(r) = Len(q) - 1
             /\ \A i \in 1 .. k - 1 : r[i] = q[i]
             /\ \A i \in k .. Len(q) - 1 : r[i] = q[i + 1]
  <2>1. PICK k \in 1 .. Len(q) :
          /\ q[k] = e /\ r \in Seq(S) /\ Len(r) = Len(q) - 1
          /\ \A i \in 1 .. k - 1 : r[i] = q[i]
          /\ \A i \in k .. Len(q) - 1 : r[i] = q[i + 1]
    BY <1>2
  <2>2. r # q
    BY <2>1
  <2>3. ASSUME NEW i \in 1 .. Len(r)
        PROVE  \E j \in 1 .. Len(q) : r[i] = q[j]
    <3>1. CASE i < k
      <4>1. i \in 1 .. k - 1 /\ i \in 1 .. Len(q)
        BY <2>1, <3>1
      <4> QED
        BY <2>1, <4>1
    <3>2. CASE ~(i < k)
      <4>1. i \in k .. Len(q) - 1 /\ i + 1 \in 1 .. Len(q)
        BY <2>1, <3>2
      <4> QED
        BY <2>1, <4>1
    <3> QED
      BY <3>1, <3>2
  <2> QED
    BY <2>1, <2>2, <2>3 DEF r
<1> QED
  BY <1>1, <1>2, RemovedIs DEF r

-----------------------------------------------------------------------------
(* Counting lists                                                          *)

LEMMA Recounted ==
  ASSUME NEW S \in SUBSET List, NEW T \in SUBSET List, NEW l \in List,
         S \ {l} = T \ {l}
  PROVE  /\ Cardinality(S) \in Nat /\ Cardinality(T) \in Nat
         /\ l \in S => Cardinality(S) > 0
         /\ Cardinality(T) = Cardinality(S) + (IF l \in T THEN 1 ELSE 0)
                                            - (IF l \in S THEN 1 ELSE 0)
<1>1. IsFiniteSet(S) /\ IsFiniteSet(T) /\ IsFiniteSet(S \ {l})
  BY MtSmsAssumption, FS_Subset DEF List
<1>2. Cardinality(S) \in Nat /\ Cardinality(T) \in Nat /\ Cardinality(S \ {l}) \in Nat
  BY <1>1, FS_CardinalityType
<1>3. Cardinality(S \ {l}) = IF l \in S THEN Cardinality(S) - 1 ELSE Cardinality(S)
  BY <1>1, FS_RemoveElement
<1>4. Cardinality(S \ {l}) = IF l \in T THEN Cardinality(T) - 1 ELSE Cardinality(T)
  BY <1>1, FS_RemoveElement
<1> QED
  BY <1>2, <1>3, <1>4

(* One list changes its connection and its paging, at most.                *)
LEMMA OneList ==
  ASSUME list \in [List -> Lists], list' \in [List -> Lists], NEW l \in List,
         \A k \in List : k # l =>
           list'[k].conn = list[k].conn /\ list'[k].paging = list[k].paging
  PROVE  /\ \A c \in Conn :
              /\ Cardinality(Users(c)) \in Nat
              /\ Cardinality(Users(c)') =
                   Cardinality(Users(c)) + (IF list'[l].conn = c THEN 1 ELSE 0)
                                         - (IF list[l].conn = c THEN 1 ELSE 0)
         /\ Cardinality(Pagers) \in Nat
         /\ list[l].paging => Cardinality(Pagers) > 0
         /\ Cardinality(Pagers') =
              Cardinality(Pagers) + (IF list'[l].paging THEN 1 ELSE 0)
                                  - (IF list[l].paging THEN 1 ELSE 0)
<1>1. ASSUME NEW c \in Conn
      PROVE  /\ Users(c) \in SUBSET List /\ Users(c)' \in SUBSET List
             /\ Users(c) \ {l} = Users(c)' \ {l}
             /\ l \in Users(c) <=> list[l].conn = c
             /\ l \in Users(c)' <=> list'[l].conn = c
  BY DEF Users
<1>2. /\ Pagers \in SUBSET List /\ Pagers' \in SUBSET List
      /\ Pagers \ {l} = Pagers' \ {l}
      /\ l \in Pagers <=> list[l].paging
      /\ l \in Pagers' <=> list'[l].paging
  BY DEF Pagers, Lists
<1>3. ASSUME NEW c \in Conn
      PROVE  /\ Cardinality(Users(c)) \in Nat
             /\ Cardinality(Users(c)') =
                   Cardinality(Users(c)) + (IF list'[l].conn = c THEN 1 ELSE 0)
                                         - (IF list[l].conn = c THEN 1 ELSE 0)
  <2> DEFINE S == Users(c)
             T == Users(c)'
  <2>1. S \in SUBSET List /\ T \in SUBSET List /\ S \ {l} = T \ {l}
    BY <1>1
  <2>2. (l \in S <=> list[l].conn = c) /\ (l \in T <=> list'[l].conn = c)
    BY <1>1
  <2> HIDE DEF S, T
  <2>3. /\ Cardinality(S) \in Nat
        /\ Cardinality(T) = Cardinality(S) + (IF l \in T THEN 1 ELSE 0)
                                            - (IF l \in S THEN 1 ELSE 0)
    BY <2>1, Recounted
  <2> QED
    BY <2>2, <2>3 DEF S, T
<1>4. /\ Cardinality(Pagers) \in Nat
      /\ list[l].paging => Cardinality(Pagers) > 0
      /\ Cardinality(Pagers') =
              Cardinality(Pagers) + (IF list'[l].paging THEN 1 ELSE 0)
                                  - (IF list[l].paging THEN 1 ELSE 0)
  BY <1>2, Recounted
<1> QED
  BY <1>3, <1>4

(* What a list that changes its connection owes that connection's usage.   *)
LEMMA UsageMoves ==
  ASSUME UsageKept, list \in [List -> Lists], list' \in [List -> Lists],
         conn \in [Conn -> Connections], conn' \in [Conn -> Connections],
         NEW l \in List,
         \A k \in List : k # l => /\ list'[k].conn = list[k].conn
                                  /\ list'[k].paging = list[k].paging,
         \A c \in Conn :
           /\ conn'[c].state = conn[c].state
           /\ conn[c].state = "none" =>
                conn'[c].usage = conn[c].usage /\ list'[l].conn # c
           /\ conn[c].state = "up" =>
                /\ conn'[c].usage >= conn[c].usage + (IF list'[l].conn = c THEN 1 ELSE 0)
                                                   - (IF list[l].conn = c THEN 1 ELSE 0)
                /\ conn'[c] = conn[c] \/ (conn'[c].due => conn'[c].usage = 0)
  PROVE  UsageKept'
<1> SUFFICES ASSUME NEW c \in Conn
             PROVE  /\ conn'[c].state = "none" =>
                         conn'[c].usage = 0 /\ Users(c)' = {}
                    /\ conn'[c].state = "up" =>
                         /\ conn'[c].usage >= Cardinality(Users(c)')
                         /\ conn'[c].due => conn'[c].usage = 0
  BY DEF UsageKept
<1>1. CASE conn[c].state = "none"
  <2>1. conn[c].usage = 0 /\ Users(c) = {} /\ list'[l].conn # c
    BY <1>1 DEF UsageKept
  <2>2. \A k \in List : list'[k].conn # c
    BY <2>1 DEF Users
  <2> QED
    BY <1>1, <2>1, <2>2 DEF Users
<1>2. CASE conn[c].state = "up"
  <2>1. conn[c].usage >= Cardinality(Users(c)) /\ (conn[c].due => conn[c].usage = 0)
    BY <1>2 DEF UsageKept
  <2>2. /\ Cardinality(Users(c)) \in Nat
        /\ Cardinality(Users(c)') =
             Cardinality(Users(c)) + (IF list'[l].conn = c THEN 1 ELSE 0)
                                   - (IF list[l].conn = c THEN 1 ELSE 0)
    BY OneList
  <2>3. conn[c].usage \in Int /\ conn'[c].usage \in Int
    BY DEF Connections
  <2>4. conn'[c].due => conn'[c].usage = 0
    BY <1>2, <2>1
  <2> QED
    BY <1>2, <2>1, <2>2, <2>3, <2>4
<1> QED
  BY <1>1, <1>2

(* The lists keep their connections; connections open, or are removed.     *)
LEMMA UsageStays ==
  ASSUME UsageKept, list \in [List -> Lists], list' \in [List -> Lists],
         conn \in [Conn -> Connections], conn' \in [Conn -> Connections],
         \A k \in List : list'[k].conn = list[k].conn,
         \A c \in Conn :
           \/ conn'[c].state = "removed"
           \/ /\ conn'[c].usage = conn[c].usage /\ conn'[c].due = conn[c].due
              /\ conn'[c].state = conn[c].state
                   \/ (conn'[c].state = "up" /\ conn[c].state = "none")
  PROVE  UsageKept'
<1> SUFFICES ASSUME NEW c \in Conn
             PROVE  /\ conn'[c].state = "none" =>
                         conn'[c].usage = 0 /\ Users(c)' = {}
                    /\ conn'[c].state = "up" =>
                         /\ conn'[c].usage >= Cardinality(Users(c)')
                         /\ conn'[c].due => conn'[c].usage = 0
  BY DEF UsageKept
<1>1. Users(c)' = Users(c)
  BY DEF Users
<1>2. Cardinality({}) = 0
  BY FS_EmptySet
<1>3. CASE conn[c].state = "none"
  <2>1. conn[c].usage = 0 /\ Users(c) = {}
    BY <1>3 DEF UsageKept
  <2>2. conn'[c].state = "removed" \/ conn'[c].usage = 0
    BY <2>1
  <2> QED
    BY <1>1, <1>2, <2>1, <2>2
<1>4. CASE conn[c].state # "none"
  <2>1. conn[c].state = "up" =>
          conn[c].usage >= Cardinality(Users(c)) /\ (conn[c].due => conn[c].usage = 0)
    BY DEF UsageKept
  <2> QED
    BY <1>1, <1>4, <2>1
<1> QED
  BY <1>3, <1>4

LEMMA PagingStays ==
  ASSUME PagingKept, list \in [List -> Lists], list' \in [List -> Lists],
         \A k \in List : list'[k].paging = list[k].paging,
         UNCHANGED ue, pager' => pager, Stops => Stops'
  PROVE  PagingKept'
<1>1. Pagers' = Pagers
  BY DEF Pagers
<1> QED
  BY <1>1 DEF PagingKept

(* Who is about to stop the paging does so in a step of its own.           *)
LEMMA StopsStays ==
  ASSUME \A s \in Sms : pc[s] = "stopping" => pc'[s] = "stopping",
         Does("stopPaging") => UNCHANGED sig, UNCHANGED aside
  PROVE  Stops => Stops'
BY DEF Stops, Does, DoesAside

-----------------------------------------------------------------------------
(* What the signalling thread has to do                                    *)

LEMMA GoesOn ==
  ASSUME YateTyped, sig # <<>>, NEW w \in Seq(Work), Goes(w)
  PROVE  sig' \in Seq(Work)
<1>1. sig \in Seq(Work) /\ sig' = w \o Tail(sig)
  BY DEF YateTyped, Goes
<1> QED
  BY <1>1

(* The head of the work, by what it is.                                    *)
LEMMA HeadOfWork ==
  ASSUME YateTyped, sig # <<>>
  PROVE  /\ Head(sig) \in Work
         /\ Head(sig).op \in {"drop", "released", "absent", "setUE"} =>
              Head(sig).conn \in Conn
         /\ Head(sig).op \in {"look", "remove", "take", "reset"} => Head(sig).list \in List
         /\ Head(sig).op \in {"answer", "take"} =>
              Head(sig) \in [op: {"answer", "take"}, list: List \cup {None},
                             conn: Conn, ref: Ref, sms: Sms]
<1>1. Head(sig) \in Work
  BY DEF YateTyped
<1> DEFINE j == Head(sig)
<1> HIDE DEF j
<1>2. j \in Work =>
         /\ j.op \in {"drop", "released", "absent", "setUE"} => j.conn \in Conn
         /\ j.op \in {"look", "remove", "take", "reset"} => j.list \in List
         /\ j.op \in {"answer", "take"} =>
              j \in [op: {"answer", "take"}, list: List \cup {None},
                     conn: Conn, ref: Ref, sms: Sms]
  BY DEF Work
<1> QED
  BY <1>1, <1>2 DEF j

(* The jobs there are.                                                     *)
LEMMA JobsTyped ==
  /\ <<>> \in Seq(Work)
  /\ <<Job("stopPaging", None, None)>> \in Seq(Work)
  /\ <<Job("service", None, None)>> \in Seq(Work)
  /\ \A l \in List : /\ <<Job("look", l, None)>> \in Seq(Work)
                     /\ <<Job("remove", l, None)>> \in Seq(Work)
                     /\ <<Job("reset", l, None)>> \in Seq(Work)
  /\ \A c \in Conn : /\ <<Job("drop", None, c)>> \in Seq(Work)
                     /\ <<Job("released", None, c)>> \in Seq(Work)
                     /\ <<Job("absent", None, c)>> \in Seq(Work)
                     /\ <<Job("setUE", None, c)>> \in Seq(Work)
                     /\ <<Job("setUE", None, c), Job("service", None, None)>> \in Seq(Work)
<1>1. /\ Job("stopPaging", None, None) \in Work
      /\ Job("service", None, None) \in Work
      /\ \A l \in List : /\ Job("look", l, None) \in Work
                         /\ Job("remove", l, None) \in Work
                         /\ Job("reset", l, None) \in Work
      /\ \A c \in Conn : /\ Job("drop", None, c) \in Work
                         /\ Job("released", None, c) \in Work
                         /\ Job("absent", None, c) \in Work
                         /\ Job("setUE", None, c) \in Work
  BY DEF Job, Work
<1>2. <<>> \in Seq(Work) /\ \A x, y \in Work : <<x>> \in Seq(Work) /\ <<x, y>> \in Seq(Work)
  OBVIOUS
<1> QED
  BY <1>1, <1>2

(* One of the threads beside goes on.                                      *)
LEMMA AsideTyped ==
  ASSUME YateTyped, NEW c \in Conn, NEW j \in WorkAside, GoesAside(c, j)
  PROVE  /\ aside' \in [Conn -> WorkAside] /\ aside'[c] = j
         /\ \A d \in Conn : d # c => aside'[d] = aside[d]
BY DEF YateTyped, GoesAside

LEMMA AsideJobs ==
  ASSUME NEW c \in Conn
  PROVE  /\ Job("none", None, c) \in WorkAside /\ Job("drop", None, c) \in WorkAside
         /\ Job("released", None, c) \in WorkAside /\ Job("absent", None, c) \in WorkAside
         /\ Job("stopPaging", None, c) \in WorkAside
         /\ \A l \in List : Job("reset", l, c) \in WorkAside
BY DEF Job, WorkAside

(* Its job, by what it is.                                                 *)
LEMMA JobAside ==
  ASSUME YateTyped, NEW c \in Conn
  PROVE  /\ aside[c] \in WorkAside /\ aside[c].conn \in Conn
         /\ aside[c].op = "reset" => aside[c].list \in List
<1> DEFINE j == aside[c]
<1>1. j \in WorkAside
  BY DEF YateTyped
<1> HIDE DEF j
<1>2. j.conn \in Conn /\ (j.op = "reset" => j.list \in List)
  BY <1>1 DEF WorkAside
<1> QED
  BY <1>1, <1>2 DEF j

-----------------------------------------------------------------------------
(* checkMtSms and the end of a list                                        *)

LEMMA NextTid ==
  ASSUME NEW tid \in Ref
  PROVE  (tid + 1) % Tids \in Ref
BY MtSmsAssumption DEF Ref

LEMMA SentOn ==
  ASSUME YateTyped, RadioTyped, NEW l \in List, NEW lst \in Lists, lst.queue # <<>>,
         NEW c \in Conn, SendOn(l, lst, c)
  PROVE  /\ list' \in [List -> Lists]
         /\ \A k \in List : k # l => list'[k] = list[k]
         /\ list'[l].conn = lst.conn /\ list'[l].paging = lst.paging
         /\ sms' \in [Sms -> Messages] /\ owed' \in SUBSET Debts
         /\ link' \in [Conn -> {"none", "up", "asked", "down"}]
         /\ \A d \in Conn : link'[d] = "none" <=> link[d] = "none"
<1>1. CASE ~conn[c].sapi
  BY <1>1 DEF SendOn, YateTyped, RadioTyped
<1>2. CASE conn[c].sapi
  <2> DEFINE s == Head(lst.queue)
  <2>1. s \in Sms /\ lst.tid \in Ref
    BY DEF Lists
  <2>2. /\ list' = [list EXCEPT ![l] = [lst EXCEPT !.tid = (@ + 1) % Tids]]
        /\ sms' = [sms EXCEPT ![s].sent = TRUE, ![s].callRef = lst.tid]
        /\ owed' = IF Listening(c)
                   THEN owed \cup {[conn |-> c, ref |-> lst.tid, sms |-> s]} ELSE owed
        /\ link' = link
    BY <1>2 DEF SendOn
  <2> HIDE DEF s
  <2>3. (lst.tid + 1) % Tids \in Ref
    BY <2>1, NextTid
  <2> DEFINE x == [lst EXCEPT !.tid = (lst.tid + 1) % Tids]
  <2>4. x \in Lists /\ x.conn = lst.conn /\ x.paging = lst.paging
    BY <2>3 DEF Lists
  <2>5. list' = [list EXCEPT ![l] = x]
    BY <2>2
  <2> HIDE DEF x
  <2>6. sms' \in [Sms -> Messages]
    BY <2>1, <2>2 DEF YateTyped, Messages
  <2>7. owed' \in SUBSET Debts
    BY <2>1, <2>2 DEF RadioTyped, Debts
  <2>8. /\ list' \in [List -> Lists] /\ list'[l] = x
        /\ \A k \in List : k # l => list'[k] = list[k]
    BY <2>4, <2>5 DEF YateTyped
  <2>9. link' \in [Conn -> {"none", "up", "asked", "down"}] /\ link' = link
    BY <2>2 DEF RadioTyped
  <2> QED
    BY <2>4, <2>6, <2>7, <2>8, <2>9
<1> QED
  BY <1>1, <1>2

(* The count of who pages, when list l no longer does.                     *)
LEMMA CountedDown ==
  ASSUME YateTyped, PagingKept, NEW l \in List, list[l].paging
  PROVE  /\ Counted(ue) \in [cnt: Nat, paging: BOOLEAN]
         /\ Counted(ue).cnt = ue.cnt - 1 /\ Counted(ue).paging = ue.paging
         /\ StopsNow(ue) <=> Counted(ue).cnt = 0
<1>1. Pagers \in SUBSET List /\ l \in Pagers /\ Pagers \ {l} = Pagers \ {l}
  BY DEF Pagers
<1>2. Cardinality(Pagers) \in Nat /\ Cardinality(Pagers) > 0
  BY <1>1, Recounted
<1> QED
  BY <1>2 DEF YateTyped, PagingKept, Counted, StopsNow

(* No list pages when the count is down to nothing.                        *)
LEMMA NobodyPages ==
  ASSUME list \in [List -> Lists]
  PROVE  Pagers = {} <=> Cardinality(Pagers) = 0
<1>1. IsFiniteSet(Pagers)
  BY MtSmsAssumption, FS_Subset DEF Pagers, List
<1> QED
  BY <1>1, FS_EmptySet

LEMMA UsageOnTyped ==
  ASSUME conn \in [Conn -> Connections], NEW c \in Conn
  PROVE  /\ UsageOn(c) \in [Conn -> Connections]
         /\ \A d \in Conn : UsageOn(c)[d].state = conn[d].state
         /\ UsageOn(c)[c].usage = conn[c].usage + 1 /\ ~UsageOn(c)[c].due
         /\ \A d \in Conn : d # c => UsageOn(c)[d] = conn[d]
<1> DEFINE n == conn[c].usage + 1
           x == [conn[c] EXCEPT !.usage = n, !.due = FALSE]
<1>1. x \in Connections /\ x.state = conn[c].state /\ x.usage = n /\ ~x.due
  <2>1. conn[c] \in Connections /\ n \in Int
    BY DEF Connections
  <2> HIDE DEF n
  <2> QED
    BY <2>1 DEF Connections
<1>2. UsageOn(c) = [conn EXCEPT ![c] = x]
  BY DEF UsageOn
<1> QED
  BY <1>1, <1>2

LEMMA UsageOffTyped ==
  ASSUME conn \in [Conn -> Connections], NEW c \in Conn
  PROVE  /\ UsageOff(c) \in [Conn -> Connections]
         /\ \A d \in Conn : UsageOff(c)[d].state = conn[d].state
         /\ conn[c].state = "up" =>
              /\ UsageOff(c)[c].usage = conn[c].usage - 1
              /\ UsageOff(c)[c].due => UsageOff(c)[c].usage = 0
         /\ conn[c].state # "up" => UsageOff(c)[c] = conn[c]
         /\ \A d \in Conn : d # c => UsageOff(c)[d] = conn[d]
<1> DEFINE n == conn[c].usage - 1
           idle == conn[c].usage = 1
           x == [conn[c] EXCEPT !.usage = n, !.due = idle]
<1>1. /\ x \in Connections /\ x.state = conn[c].state /\ x.usage = n
      /\ x.due => n = 0
  <2>1. conn[c] \in Connections /\ n \in Int /\ idle \in BOOLEAN
    BY DEF Connections
  <2>2. idle => n = 0
    BY <2>1
  <2> HIDE DEF idle, n
  <2> QED
    BY <2>1, <2>2 DEF Connections
<1>2. UsageOff(c) = IF conn[c].state = "up" THEN [conn EXCEPT ![c] = x] ELSE conn
  BY DEF UsageOff
<1> HIDE DEF x
<1> QED
  BY <1>1, <1>2

(* What the end of a list leaves.                                          *)
LEMMA ListEnds ==
  ASSUME TypeOK, UsageKept, PagingKept, NEW l \in List, Destroyed(l)
  PROVE  /\ list' \in [List -> Lists]
         /\ conn' \in [Conn -> Connections]
         /\ \A c \in Conn : conn'[c].state = conn[c].state
         /\ ue' \in [cnt: Nat, paging: BOOLEAN] /\ ue'.paging = ue.paging
         /\ UsageKept'
         /\ ue'.cnt = Cardinality(Pagers')
         /\ ue'.paging /\ Pagers' = {} =>
              (ue.paging /\ Pagers = {}) \/ (list[l].paging /\ StopsNow(ue))
<1>1. /\ list \in [List -> Lists] /\ conn \in [Conn -> Connections]
      /\ ue \in [cnt: Nat, paging: BOOLEAN]
  BY DEF TypeOK, YateTyped
<1>2. /\ list' = [list EXCEPT ![l].paging = FALSE, ![l].conn = None, ![l].queue = <<>>]
      /\ ue' = IF list[l].paging THEN Counted(ue) ELSE ue
      /\ conn' = IF list[l].conn = None THEN conn ELSE UsageOff(list[l].conn)
  BY DEF Destroyed
<1>3. <<>> \in Seq(Sms)
  OBVIOUS
<1>4. /\ list' \in [List -> Lists]
      /\ \A k \in List : k # l => list'[k] = list[k]
      /\ ~list'[l].paging /\ list'[l].conn = None
  BY <1>1, <1>2, <1>3 DEF Lists
<1>5. None \notin Conn
  BY MtSmsAssumption DEF Conn
<1>6. /\ conn' \in [Conn -> Connections]
      /\ \A c \in Conn :
           /\ conn'[c].state = conn[c].state
           /\ conn[c].state # "up" => conn'[c].usage = conn[c].usage
           /\ conn[c].state = "up" =>
                conn'[c].usage = conn[c].usage - (IF list[l].conn = c THEN 1 ELSE 0)
           /\ conn'[c] = conn[c] \/ (conn'[c].due => conn'[c].usage = 0)
  <2>1. CASE list[l].conn = None
    BY <1>1, <1>2, <1>5, <2>1 DEF Connections
  <2>2. CASE list[l].conn # None
    <3>1. list[l].conn \in Conn
      BY <1>1, <2>2 DEF Lists
    <3> QED
      BY <1>1, <1>2, <2>2, <3>1, UsageOffTyped DEF Connections
  <2> QED
    BY <2>1, <2>2
<1>7. UsageKept'
  BY <1>1, <1>4, <1>5, <1>6, UsageMoves DEF Connections
<1>8. /\ ue' \in [cnt: Nat, paging: BOOLEAN] /\ ue'.paging = ue.paging
      /\ ue'.cnt = ue.cnt - (IF list[l].paging THEN 1 ELSE 0)
      /\ list[l].paging => (StopsNow(ue) <=> ue'.cnt = 0)
  BY <1>1, <1>2, CountedDown DEF TypeOK
<1>9. ue'.cnt = Cardinality(Pagers')
  BY <1>1, <1>4, <1>8, OneList DEF PagingKept
<1>10. Pagers' = {} => ue'.cnt = 0
  BY <1>9, FS_EmptySet
<1>11. ~list[l].paging => Pagers' = Pagers
  BY <1>4 DEF Pagers
<1> QED
  BY <1>4, <1>6, <1>7, <1>8, <1>9, <1>10, <1>11

(* What checkMtSms leaves.                                                 *)
LEMMA Checked ==
  ASSUME TypeOK, UsageKept, PagingKept, NEW l \in List, checkMtSms(l)
  PROVE  /\ list' \in [List -> Lists] /\ sms' \in [Sms -> Messages]
         /\ ue' \in [cnt: Nat, paging: BOOLEAN]
         /\ conn' \in [Conn -> Connections]
         /\ \A c \in Conn : conn'[c].state = conn[c].state
         /\ pager' \in BOOLEAN /\ owed' \in SUBSET Debts
         /\ link' \in [Conn -> {"none", "up", "asked", "down"}]
         /\ \A c \in Conn : link'[c] = "none" <=> link[c] = "none"
         /\ UsageKept'
         /\ ue'.cnt = Cardinality(Pagers')
         /\ pager' => ue'.paging
         /\ ue'.paging /\ Pagers' = {} => Stops
<1> DEFINE queue == Pending(l)
           lst == [list[l] EXCEPT !.queue = queue, !.lapsed = FALSE]
           stale == list[l].paging
           u == IF stale THEN Counted(ue) ELSE ue
<1>1. /\ list \in [List -> Lists] /\ conn \in [Conn -> Connections]
      /\ ue \in [cnt: Nat, paging: BOOLEAN] /\ sms \in [Sms -> Messages]
      /\ pager \in BOOLEAN /\ owed \in SUBSET Debts
      /\ link \in [Conn -> {"none", "up", "asked", "down"}]
  BY DEF TypeOK, YateTyped, RadioTyped
<1>2. queue \in Seq(Sms)
  BY <1>1, PendingIsQueue DEF Lists
<1>3. /\ lst \in Lists /\ lst.queue = queue /\ lst.conn = list[l].conn
      /\ lst.paging = list[l].paging
  <2>1. list[l] \in Lists
    BY <1>1
  <2> HIDE DEF queue
  <2> QED
    BY <1>2, <2>1 DEF Lists
<1>4. /\ u \in [cnt: Nat, paging: BOOLEAN] /\ u.paging = ue.paging
      /\ u.cnt = ue.cnt - (IF stale THEN 1 ELSE 0)
  BY <1>1, CountedDown DEF TypeOK
<1>5. None \notin Conn
  BY MtSmsAssumption DEF Conn
<1>6. ue.cnt = Cardinality(Pagers) /\ (pager => ue.paging)
      /\ (ue.paging /\ Pagers = {} => Stops)
  BY DEF PagingKept
(* Every branch changes list l alone; the count, the usage and the paging  *)
(* follow from what the list has before and after.                         *)
<1> DEFINE Effect ==
      /\ list' \in [List -> Lists] /\ \A k \in List : k # l => list'[k] = list[k]
      /\ sms' \in [Sms -> Messages] /\ owed' \in SUBSET Debts
      /\ link' \in [Conn -> {"none", "up", "asked", "down"}]
      /\ \A c \in Conn : link'[c] = "none" <=> link[c] = "none"
      /\ ue' \in [cnt: Nat, paging: BOOLEAN] /\ pager' \in BOOLEAN
      /\ ue'.cnt = ue.cnt + (IF list'[l].paging THEN 1 ELSE 0)
                          - (IF list[l].paging THEN 1 ELSE 0)
      /\ \/ pager' = pager /\ ue'.paging = ue.paging
         \/ ue'.paging /\ list'[l].paging
      /\ list[l].paging /\ ~list'[l].paging => ~ue'.paging
      /\ conn' \in [Conn -> Connections]
      /\ \A c \in Conn :
           /\ conn'[c].state = conn[c].state
           /\ list'[l].conn = c /\ list[l].conn # c => conn[c].state = "up"
           /\ conn'[c].usage = conn[c].usage + (IF list'[l].conn = c THEN 1 ELSE 0)
                                             - (IF list[l].conn = c THEN 1 ELSE 0)
           /\ conn'[c] = conn[c] \/ ~conn'[c].due
<1> HIDE DEF queue, u
<1>7. Effect => /\ UsageKept' /\ ue'.cnt = Cardinality(Pagers')
                /\ pager' => ue'.paging
                /\ ue'.paging /\ Pagers' = {} => Stops
  <2> SUFFICES ASSUME Effect
               PROVE  /\ UsageKept' /\ ue'.cnt = Cardinality(Pagers')
                      /\ pager' => ue'.paging
                      /\ ue'.paging /\ Pagers' = {} => Stops
    OBVIOUS
  <2>1. \A c \in Conn : conn[c].state = "none" => list[l].conn # c
    BY DEF UsageKept, Users
  <2>2. UsageKept'
    <3>1. /\ list' \in [List -> Lists] /\ conn' \in [Conn -> Connections]
          /\ \A k \in List : k # l => /\ list'[k].conn = list[k].conn
                                         /\ list'[k].paging = list[k].paging
      OBVIOUS
    <3>2. ASSUME NEW c \in Conn
          PROVE  /\ conn'[c].state = conn[c].state
                 /\ conn'[c].usage = conn[c].usage + (IF list'[l].conn = c THEN 1 ELSE 0)
                                                   - (IF list[l].conn = c THEN 1 ELSE 0)
                 /\ conn'[c].usage >= conn[c].usage + (IF list'[l].conn = c THEN 1 ELSE 0)
                                                    - (IF list[l].conn = c THEN 1 ELSE 0)
                 /\ conn'[c] = conn[c] \/ (conn'[c].due => conn'[c].usage = 0)
                 /\ conn[c].state = "none" =>
                      conn'[c].usage = conn[c].usage /\ list'[l].conn # c
      <4>1. conn[c].state = "none" => list[l].conn # c /\ list'[l].conn # c
        BY <2>1
      <4>2. conn[c].usage \in Int
        BY <1>1 DEF Connections
      <4> QED
        BY <4>1, <4>2
    <3> HIDE DEF Effect
    <3> QED
      BY <1>1, <3>1, <3>2, UsageMoves
  <2>3. ue'.cnt = Cardinality(Pagers')
    BY <1>1, <1>6, OneList
  <2>4. Pagers' = {} => ~list'[l].paging
    BY DEF Pagers
  <2>5. ~list[l].paging /\ ~list'[l].paging => Pagers' = Pagers
    BY DEF Pagers
  <2> QED
    BY <1>6, <2>2, <2>3, <2>4, <2>5
<1>8. Effect
  <2>1. CASE queue = <<>> \/ sms[Head(queue)].sent \/ (list[l].paging /\ ue.paging)
    <3>1. list' = [list EXCEPT ![l] = lst]
          /\ UNCHANGED <<sms, ue, conn, pager, link, owed>>
      BY <2>1 DEF checkMtSms, queue
    <3> HIDE DEF lst
    <3>2. /\ list' \in [List -> Lists] /\ list'[l] = lst
          /\ \A k \in List : k # l => list'[k] = list[k]
      BY <1>1, <1>3, <3>1
    <3> QED
      BY <1>1, <1>3, <3>1, <3>2 DEF Connections
  <2>2. CASE ~(queue = <<>> \/ sms[Head(queue)].sent \/ (list[l].paging /\ ue.paging))
    <3>1. CASE /\ list[l].conn = None /\ Candidates = {}
               /\ list' = [list EXCEPT ![l] = [lst EXCEPT !.paging = TRUE]]
               /\ ue' = startPaging(u)
               /\ pager' = (pager \/ ~ue.paging)
               /\ UNCHANGED <<sms, conn, link, owed>>
      <4> DEFINE x == [lst EXCEPT !.paging = TRUE]
      <4> HIDE DEF lst
      <4>1. /\ x \in Lists /\ x.paging /\ x.conn = list[l].conn
        BY <1>3 DEF Lists
      <4> HIDE DEF x
      <4>2. list' = [list EXCEPT ![l] = x]
        BY <3>1 DEF x
      <4>3. /\ list' \in [List -> Lists] /\ list'[l] = x
            /\ \A k \in List : k # l => list'[k] = list[k]
        BY <1>1, <4>1, <4>2
      <4>4. /\ ue' \in [cnt: Nat, paging: BOOLEAN] /\ ue'.paging
            /\ ue'.cnt = ue.cnt + 1 - (IF list[l].paging THEN 1 ELSE 0)
        <5>1. u.cnt + 1 \in Nat
          BY <1>4
        <5> QED
          BY <1>1, <1>4, <3>1, <5>1 DEF startPaging
      <4>5. pager' \in BOOLEAN
        BY <3>1
      <4>6. UNCHANGED <<sms, conn, link, owed>>
        BY <3>1
      <4>7. \A c \in Conn : conn[c].usage \in Int
        BY <1>1 DEF Connections
      <4>8. /\ list'[l].paging /\ list'[l].conn = list[l].conn
        BY <4>1, <4>3
      <4>9. /\ sms' \in [Sms -> Messages] /\ owed' \in SUBSET Debts
            /\ link' \in [Conn -> {"none", "up", "asked", "down"}]
            /\ conn' \in [Conn -> Connections] /\ link' = link /\ conn' = conn
        BY <1>1, <4>6
      <4> QED
        BY <4>3, <4>4, <4>5, <4>7, <4>8, <4>9
    <3>2. CASE \E c \in Found :
                 /\ list[l].conn = None /\ conn[c].locUpd
                 /\ list' = [list EXCEPT ![l] = [lst EXCEPT !.paging = FALSE]]
                 /\ ue' = u
                 /\ UNCHANGED <<sms, conn, pager, link, owed>>
      <4> DEFINE x == [lst EXCEPT !.paging = FALSE]
      <4> HIDE DEF lst
      <4>1. /\ x \in Lists /\ ~x.paging /\ x.conn = list[l].conn
        BY <1>3 DEF Lists
      <4> HIDE DEF x
      <4>2. list' = [list EXCEPT ![l] = x]
        BY <3>2 DEF x
      <4>3. /\ list' \in [List -> Lists] /\ list'[l] = x
            /\ \A k \in List : k # l => list'[k] = list[k]
        BY <1>1, <4>1, <4>2
      <4>4. ue' = u /\ UNCHANGED <<sms, conn, pager, link, owed>>
        BY <3>2
      <4> QED
        BY <1>1, <1>4, <2>2, <4>1, <4>3, <4>4 DEF Connections
    <3>3. CASE \E c \in Found :
                 /\ list[l].conn = None /\ ~conn[c].locUpd
                 /\ SendOn(l, [lst EXCEPT !.paging = FALSE, !.conn = c], c)
                 /\ ue' = u /\ conn' = UsageOn(c)
                 /\ UNCHANGED pager
      <4>1. PICK c \in Found :
                 /\ list[l].conn = None
                 /\ SendOn(l, [lst EXCEPT !.paging = FALSE, !.conn = c], c)
                 /\ ue' = u /\ conn' = UsageOn(c)
                 /\ UNCHANGED pager
        BY <3>3
      <4>2. c \in Conn /\ conn[c].state = "up"
        BY DEF Found, Candidates
      <4> DEFINE x == [lst EXCEPT !.paging = FALSE, !.conn = c]
      <4> HIDE DEF lst
      <4>3. /\ x \in Lists /\ ~x.paging /\ x.conn = c /\ x.queue = queue
        BY <1>3, <4>2 DEF Lists
      <4> HIDE DEF x
      <4>4. SendOn(l, x, c)
        BY <4>1 DEF x
      <4>5. /\ list' \in [List -> Lists]
            /\ \A k \in List : k # l => list'[k] = list[k]
            /\ list'[l].conn = c /\ ~list'[l].paging
            /\ sms' \in [Sms -> Messages] /\ owed' \in SUBSET Debts
            /\ link' \in [Conn -> {"none", "up", "asked", "down"}]
            /\ \A d \in Conn : link'[d] = "none" <=> link[d] = "none"
        BY <2>2, <4>2, <4>3, <4>4, SentOn DEF TypeOK
      <4>6. /\ conn' \in [Conn -> Connections]
            /\ \A d \in Conn :
                 /\ conn'[d].state = conn[d].state
                 /\ conn'[d].usage = conn[d].usage + (IF d = c THEN 1 ELSE 0)
                 /\ conn'[d] = conn[d] \/ ~conn'[d].due
        BY <1>1, <4>1, <4>2, UsageOnTyped DEF Connections
      <4> QED
        BY <1>1, <1>4, <1>5, <2>2, <4>1, <4>2, <4>5, <4>6
    <3>4. CASE /\ list[l].conn # None
               /\ SendOn(l, [lst EXCEPT !.paging = FALSE], list[l].conn)
               /\ ue' = u
               /\ UNCHANGED <<conn, pager>>
      <4>1. list[l].conn \in Conn
        BY <1>1, <3>4 DEF Lists
      <4> DEFINE x == [lst EXCEPT !.paging = FALSE]
                 c == list[l].conn
      <4> HIDE DEF lst
      <4>2. /\ x \in Lists /\ ~x.paging /\ x.conn = c /\ x.queue = queue
        BY <1>3 DEF Lists
      <4> HIDE DEF x, c
      <4>3. SendOn(l, x, c) /\ c \in Conn
        BY <3>4, <4>1 DEF x, c
      <4>4. /\ list' \in [List -> Lists]
            /\ \A k \in List : k # l => list'[k] = list[k]
            /\ list'[l].conn = c /\ ~list'[l].paging
            /\ sms' \in [Sms -> Messages] /\ owed' \in SUBSET Debts
            /\ link' \in [Conn -> {"none", "up", "asked", "down"}]
            /\ \A d \in Conn : link'[d] = "none" <=> link[d] = "none"
        BY <2>2, <4>2, <4>3, SentOn DEF TypeOK
      <4> QED
        BY <1>1, <1>4, <2>2, <3>4, <4>4 DEF c, Connections
    <3> QED
      BY <2>2, <3>1, <3>2, <3>3, <3>4 DEF checkMtSms, queue, u
  <2> QED
    BY <2>1, <2>2
<1>9. /\ list' \in [List -> Lists] /\ sms' \in [Sms -> Messages]
      /\ ue' \in [cnt: Nat, paging: BOOLEAN]
      /\ conn' \in [Conn -> Connections]
      /\ pager' \in BOOLEAN /\ owed' \in SUBSET Debts
      /\ link' \in [Conn -> {"none", "up", "asked", "down"}]
      /\ \A c \in Conn : link'[c] = "none" <=> link[c] = "none"
  BY <1>8
<1>10. \A c \in Conn : conn'[c].state = conn[c].state
  BY <1>8
<1> HIDE DEF Effect
<1> QED
  BY <1>7, <1>8, <1>9, <1>10

-----------------------------------------------------------------------------
(* Steps that leave the connections of the lists, and their paging, alone  *)

LEMMA OpensStays ==
  ASSUME RadioTyped, OpensOnce, UNCHANGED toYate,
         \A c \in Conn : /\ link'[c] = "none" <=> link[c] = "none"
                         /\ conn'[c].state = "none" <=> conn[c].state = "none"
  PROVE  OpensOnce'
<1>1. \A i \in 1 .. Len(toYate) : toYate[i] \in Events
  BY DEF RadioTyped
<1>2. \A i \in 1 .. Len(toYate) : toYate[i].conn \in Conn
  BY <1>1 DEF Events
<1> QED
  BY <1>2 DEF OpensOnce

LEMMA ListsKept ==
  ASSUME Inv, TypeOK', OpensOnce',
         \A k \in List : /\ list'[k].conn = list[k].conn
                         /\ list'[k].paging = list[k].paging,
         \A c \in Conn :
           \/ conn'[c].state = "removed"
           \/ /\ conn'[c].usage = conn[c].usage /\ conn'[c].due = conn[c].due
              /\ conn'[c].state = conn[c].state
                   \/ (conn'[c].state = "up" /\ conn[c].state = "none"),
         UNCHANGED ue, pager' => pager, Stops => Stops'
  PROVE  Inv'
<1>1. /\ list \in [List -> Lists] /\ list' \in [List -> Lists]
      /\ conn \in [Conn -> Connections] /\ conn' \in [Conn -> Connections]
  BY DEF Inv, TypeOK, YateTyped
<1>2. UsageKept'
  BY <1>1, UsageStays DEF Inv
<1>3. PagingKept'
  BY <1>1, PagingStays DEF Inv
<1> QED
  BY <1>2, <1>3 DEF Inv

LEMMA ListsSame ==
  ASSUME Inv, TypeOK',
         \A k \in List : /\ list'[k].conn = list[k].conn
                         /\ list'[k].paging = list[k].paging,
         UNCHANGED <<ue, conn, toYate>>, pager' => pager,
         \A c \in Conn : link'[c] = "none" <=> link[c] = "none",
         Stops => Stops'
  PROVE  Inv'
<1>1. OpensOnce'
  BY OpensStays DEF Inv, TypeOK
<1> QED
  BY <1>1, ListsKept

-----------------------------------------------------------------------------
(* The thread of a message                                                 *)

LEMMA FindListInv ==
  ASSUME Inv, NEW s \in Sms, FindList(s)
  PROVE  Inv'
<1>1. /\ pc' = [pc EXCEPT ![s] = "found"]
      /\ table' = IF table # None THEN table ELSE s
      /\ mine' = [mine EXCEPT ![s] = table']
      /\ UNCHANGED <<sms, list, ue, conn, sig, aside, taken, toYate, pager, link, at, owed>>
      /\ pc[s] = "idle"
  BY DEF FindList, radio
<1>2. YateTyped /\ RadioTyped /\ Placed
  BY DEF Inv, TypeOK
<1>3. sig' \in Seq(Work)
  BY <1>1, <1>2 DEF YateTyped
<1>4. table' \in List
  BY <1>1, <1>2 DEF YateTyped, List
<1>5. YateTyped'
  BY <1>1, <1>2, <1>3, <1>4 DEF YateTyped, Pcs
<1>6. RadioTyped' /\ Placed'
  BY <1>1, <1>2, <1>4 DEF RadioTyped, Placed, YateTyped
<1>7. Stops => Stops'
  BY <1>1, <1>2, StopsStays DEF YateTyped
<1> QED
  BY <1>1, <1>5, <1>6, <1>7, ListsSame DEF TypeOK

LEMMA AppendSmsInv ==
  ASSUME Inv, NEW s \in Sms, AppendSms(s)
  PROVE  Inv'
<1>1. /\ pc' = [pc EXCEPT ![s] = "appended"] /\ pc[s] = "found"
      /\ list' = [list EXCEPT ![mine[s]].queue = Append(@, s)]
      /\ UNCHANGED <<mine, sms, table, ue, conn, sig, aside, taken, toYate, pager, link, at, owed>>
  BY DEF AppendSms, radio
<1>2. YateTyped /\ RadioTyped /\ Placed
  BY DEF Inv, TypeOK
<1>3. sig' \in Seq(Work)
  BY <1>1, <1>2 DEF YateTyped
<1>4. mine[s] \in List
  BY <1>1, <1>2 DEF Placed
<1> DEFINE l == mine[s]
           q == Append(list[l].queue, s)
<1>5. list[l] \in Lists /\ q \in Seq(Sms)
  BY <1>2, <1>4 DEF YateTyped, Lists
<1> HIDE DEF q
<1>6. list' = [list EXCEPT ![l].queue = q]
  BY <1>1 DEF q
<1> HIDE DEF l
<1>7. /\ list' \in [List -> Lists]
      /\ \A k \in List : /\ list'[k].conn = list[k].conn
                         /\ list'[k].paging = list[k].paging
  BY <1>2, <1>5, <1>6 DEF YateTyped, Lists
<1>8. YateTyped'
  BY <1>1, <1>2, <1>3, <1>7 DEF YateTyped, Pcs
<1>9. RadioTyped' /\ Placed'
  BY <1>1, <1>2 DEF RadioTyped, Placed, YateTyped
<1>10. Stops => Stops'
  BY <1>1, <1>2, StopsStays DEF YateTyped
<1> QED
  BY <1>1, <1>7, <1>8, <1>9, <1>10, ListsSame DEF TypeOK

LEMMA TakeCheckInv ==
  ASSUME Inv, NEW s \in Sms, TakeCheck(s)
  PROVE  Inv'
<1>1. /\ pc' = [pc EXCEPT ![s] = "check"] /\ pc[s] = "wait"
      /\ list' = [list EXCEPT ![mine[s]].check = FALSE]
      /\ UNCHANGED <<mine, sms, table, ue, conn, sig, aside, taken, toYate, pager, link, at, owed>>
  BY DEF TakeCheck, radio
<1>2. YateTyped /\ RadioTyped /\ Placed
  BY DEF Inv, TypeOK
<1>3. sig' \in Seq(Work)
  BY <1>1, <1>2 DEF YateTyped
<1>4. /\ list' \in [List -> Lists]
      /\ \A k \in List : /\ list'[k].conn = list[k].conn
                         /\ list'[k].paging = list[k].paging
  <2>1. mine[s] \in List
    BY <1>1, <1>2 DEF Placed
  <2> DEFINE l == mine[s]
  <2>2. list[l] \in Lists
    BY <1>2, <2>1 DEF YateTyped
  <2> HIDE DEF l
  <2>3. list' = [list EXCEPT ![l].check = FALSE]
    BY <1>1 DEF l
  <2> QED
    BY <1>2, <2>2, <2>3 DEF YateTyped, Lists
<1>5. YateTyped'
  BY <1>1, <1>2, <1>3, <1>4 DEF YateTyped, Pcs
<1>6. RadioTyped' /\ Placed'
  BY <1>1, <1>2 DEF RadioTyped, Placed, YateTyped
<1>7. Stops => Stops'
  BY <1>1, <1>2, StopsStays DEF YateTyped
<1> QED
  BY <1>1, <1>4, <1>5, <1>6, <1>7, ListsSame DEF TypeOK

LEMMA LeaveLoopInv ==
  ASSUME Inv, NEW s \in Sms, LeaveLoop(s)
  PROVE  Inv'
<1>1. /\ pc' = [pc EXCEPT ![s] = "ended"] /\ pc[s] = "wait"
      /\ sms' = [sms EXCEPT ![s].active = FALSE]
      /\ UNCHANGED <<mine, table, list, ue, conn, sig, aside, taken, toYate, pager, link, at, owed>>
  BY DEF LeaveLoop, radio
<1>2. YateTyped /\ RadioTyped /\ Placed
  BY DEF Inv, TypeOK
<1>3. sig' \in Seq(Work)
  BY <1>1, <1>2 DEF YateTyped
<1>4. sms' \in [Sms -> Messages]
  BY <1>1, <1>2 DEF YateTyped, Messages
<1>5. YateTyped'
  BY <1>1, <1>2, <1>3, <1>4 DEF YateTyped, Pcs
<1>6. RadioTyped' /\ Placed'
  BY <1>1, <1>2 DEF RadioTyped, Placed, YateTyped
<1>7. Stops => Stops'
  BY <1>1, <1>2, StopsStays DEF YateTyped
<1> QED
  BY <1>1, <1>5, <1>6, <1>7, ListsSame DEF TypeOK

LEMMA CheckByThreadInv ==
  ASSUME Inv, NEW s \in Sms, CheckByThread(s)
  PROVE  Inv'
<1>1. /\ pc' = [pc EXCEPT ![s] = "wait"] /\ pc[s] \in {"appended", "check"}
      /\ checkMtSms(mine[s])
      /\ UNCHANGED <<mine, table, sig, aside, taken, toYate, at>>
  BY DEF CheckByThread
<1>2. YateTyped /\ RadioTyped /\ Placed /\ TypeOK /\ UsageKept /\ PagingKept /\ OpensOnce
  BY DEF Inv, TypeOK
<1>3. mine[s] \in List
  BY <1>1, <1>2 DEF Placed
<1>4. /\ list' \in [List -> Lists] /\ sms' \in [Sms -> Messages]
      /\ ue' \in [cnt: Nat, paging: BOOLEAN]
      /\ conn' \in [Conn -> Connections]
      /\ \A c \in Conn : conn'[c].state = conn[c].state
      /\ pager' \in BOOLEAN /\ owed' \in SUBSET Debts
      /\ link' \in [Conn -> {"none", "up", "asked", "down"}]
      /\ \A c \in Conn : link'[c] = "none" <=> link[c] = "none"
      /\ UsageKept'
      /\ ue'.cnt = Cardinality(Pagers')
      /\ pager' => ue'.paging
      /\ ue'.paging /\ Pagers' = {} => Stops
  BY <1>1, <1>2, <1>3, Checked
<1>5. sig' \in Seq(Work)
  BY <1>1, <1>2, <1>4 DEF YateTyped
<1>6. YateTyped'
  BY <1>1, <1>2, <1>4, <1>5 DEF YateTyped, Pcs
<1>7. RadioTyped' /\ Placed'
  BY <1>1, <1>2, <1>4 DEF RadioTyped, Placed, YateTyped
<1>8. Stops => Stops'
  BY <1>1, <1>2, StopsStays DEF YateTyped
<1>9. OpensOnce'
  BY <1>1, <1>2, <1>4, OpensStays
<1> QED
  BY <1>4, <1>6, <1>7, <1>8, <1>9 DEF Inv, TypeOK, PagingKept

LEMMA RemoveSmsInv ==
  ASSUME Inv, NEW s \in Sms, RemoveSms(s)
  PROVE  Inv'
<1> DEFINE l == mine[s]
           queue == RemoveFirst(list[l].queue, s)
           last == queue = <<>> /\ Holders(l) = {s} /\ ~SigHolds(l, sig) /\ ~HeldAside(l)
           stop == last /\ list[l].paging /\ StopsNow(ue)
<1>1. /\ pc[s] = "ended"
      /\ table' = IF queue = <<>> /\ table = l THEN None ELSE table
      /\ pc' = [pc EXCEPT ![s] = IF stop THEN "stopping" ELSE "done"]
      /\ UNCHANGED <<mine, sms, sig, aside, taken, toYate, pager, link, at, owed>>
  BY DEF RemoveSms, radio
<1>2. YateTyped /\ RadioTyped /\ Placed /\ TypeOK /\ UsageKept /\ PagingKept /\ OpensOnce
  BY DEF Inv, TypeOK
<1>3. l \in List
  BY <1>1, <1>2 DEF Placed
<1>4. queue \in Seq(Sms)
  BY <1>2, <1>3, RemovedKeeps DEF YateTyped, Lists
<1>5. /\ table' \in List \cup {None}
      /\ \A t \in Sms : pc[t] = "stopping" => pc'[t] = "stopping"
      /\ pc' \in [Sms -> Pcs]
      /\ \A t \in Sms : pc'[t] # "idle" => pc[t] # "idle"
  BY <1>1, <1>2 DEF YateTyped, Pcs
<1>6. stop => \E t \in Sms : pc'[t] = "stopping"
  BY <1>1, <1>2 DEF YateTyped
<1>7. Stops => Stops'
  BY <1>1, <1>5, StopsStays
<1>8. RadioTyped' /\ Placed'
  BY <1>1, <1>2, <1>5 DEF RadioTyped, Placed
<1> HIDE DEF queue
<1>9. CASE last
  <2>1. Destroyed(l)
    BY <1>9 DEF RemoveSms, queue
  <2> HIDE DEF l
  <2>2. /\ list' \in [List -> Lists]
        /\ conn' \in [Conn -> Connections]
        /\ \A c \in Conn : conn'[c].state = conn[c].state
        /\ ue' \in [cnt: Nat, paging: BOOLEAN] /\ ue'.paging = ue.paging
        /\ UsageKept'
        /\ ue'.cnt = Cardinality(Pagers')
        /\ ue'.paging /\ Pagers' = {} =>
             (ue.paging /\ Pagers = {}) \/ (list[l].paging /\ StopsNow(ue))
    BY <1>2, <1>3, <2>1, ListEnds
  <2>3. sig' \in Seq(Work)
    BY <1>1, <1>2, <2>2 DEF YateTyped
  <2>4. YateTyped'
    BY <1>1, <1>2, <1>5, <2>2, <2>3 DEF YateTyped
  <2>5. OpensOnce'
    BY <1>1, <1>2, <2>2, OpensStays
  <2>6. PagingKept'
    BY <1>1, <1>2, <1>6, <1>7, <1>9, <2>2 DEF PagingKept, Stops
  <2> QED
    BY <1>8, <2>2, <2>4, <2>5, <2>6 DEF Inv, TypeOK
<1>10. CASE ~last
  <2>1. /\ list' = [list EXCEPT ![l].queue = queue,
                                ![l].lapsed = @ \/ queue # list[l].queue]
        /\ UNCHANGED <<ue, conn>>
    BY <1>10 DEF RemoveSms, queue
  <2> DEFINE b == list[l].lapsed \/ queue # list[l].queue
             x == [list[l] EXCEPT !.queue = queue, !.lapsed = b]
  <2>2. b \in BOOLEAN
    OBVIOUS
  <2> HIDE DEF b
  <2>3. /\ x \in Lists /\ x.conn = list[l].conn /\ x.paging = list[l].paging
    BY <1>2, <1>3, <1>4, <2>2 DEF YateTyped, Lists
  <2>4. list' = [list EXCEPT ![l] = x]
    BY <1>2, <1>3, <2>1 DEF YateTyped, b
  <2> HIDE DEF x, l
  <2>5. /\ list' \in [List -> Lists]
        /\ \A k \in List : /\ list'[k].conn = list[k].conn
                           /\ list'[k].paging = list[k].paging
    BY <1>2, <2>3, <2>4 DEF YateTyped
  <2>6. sig' \in Seq(Work)
    BY <1>1, <1>2, <2>1 DEF YateTyped
  <2>7. YateTyped'
    BY <1>1, <1>2, <1>5, <2>1, <2>5, <2>6 DEF YateTyped
  <2> QED
    BY <1>1, <1>7, <1>8, <2>1, <2>5, <2>7, ListsSame DEF TypeOK
<1> QED
  BY <1>9, <1>10

LEMMA StoppedNow ==
  ASSUME YateTyped, PagingKept, pager \in BOOLEAN, stopPagingNow
  PROVE  /\ ue' \in [cnt: Nat, paging: BOOLEAN] /\ ue'.cnt = ue.cnt
         /\ ~ue'.paging /\ pager' = FALSE
BY DEF stopPagingNow, YateTyped, PagingKept

(* The lists that ask for paging are not told, but marked.                 *)
LEMMA Marked ==
  ASSUME YateTyped,
         list' = [l \in List |-> [list[l] EXCEPT !.lapsed = @ \/ list[l].paging]]
  PROVE  /\ list' \in [List -> Lists]
         /\ \A k \in List : /\ list'[k].conn = list[k].conn
                            /\ list'[k].paging = list[k].paging
<1>1. ASSUME NEW k \in List
      PROVE  /\ list'[k] \in Lists /\ list'[k].conn = list[k].conn
             /\ list'[k].paging = list[k].paging
  <2> DEFINE b == list[k].lapsed \/ list[k].paging
  <2>1. b \in BOOLEAN /\ list[k] \in Lists
    BY DEF YateTyped
  <2>2. list'[k] = [list[k] EXCEPT !.lapsed = b]
    OBVIOUS
  <2> HIDE DEF b
  <2> QED
    BY <2>1, <2>2 DEF Lists
<1> QED
  BY <1>1

LEMMA StopPagingByThreadInv ==
  ASSUME Inv, NEW s \in Sms, StopPagingByThread(s)
  PROVE  Inv'
<1>1. /\ pc' = [pc EXCEPT ![s] = "done"] /\ pc[s] = "stopping"
      /\ stopPagingNow
      /\ list' = [l \in List |-> [list[l] EXCEPT !.lapsed = @ \/ list[l].paging]]
      /\ UNCHANGED <<mine, sms, table, conn, sig, aside, taken, toYate, link, at, owed>>
  BY DEF StopPagingByThread
<1>2. YateTyped /\ RadioTyped /\ Placed /\ UsageKept /\ PagingKept /\ OpensOnce
  BY DEF Inv, TypeOK
<1>3. sig' \in Seq(Work)
  BY <1>1, <1>2 DEF YateTyped
<1>4. /\ list' \in [List -> Lists]
      /\ \A k \in List : /\ list'[k].conn = list[k].conn
                         /\ list'[k].paging = list[k].paging
  BY <1>1, <1>2, Marked
<1>5. /\ ue' \in [cnt: Nat, paging: BOOLEAN] /\ ue'.cnt = ue.cnt
      /\ ~ue'.paging /\ pager' = FALSE
  BY <1>1, <1>2, StoppedNow DEF RadioTyped
<1>6. YateTyped'
  BY <1>1, <1>2, <1>3, <1>4, <1>5 DEF YateTyped, Pcs
<1>7. RadioTyped' /\ Placed'
  BY <1>1, <1>2, <1>5 DEF RadioTyped, Placed, YateTyped
<1>8. OpensOnce'
  BY <1>1, <1>2, OpensStays
<1>9. UsageKept'
  BY <1>1, <1>2, <1>4, UsageStays DEF YateTyped
<1>10. Pagers' = Pagers
  BY <1>4 DEF Pagers
<1> QED
  BY <1>2, <1>5, <1>6, <1>7, <1>8, <1>9, <1>10 DEF Inv, TypeOK, PagingKept

-----------------------------------------------------------------------------
(* The signalling thread                                                   *)

(* A job that is not to stop the paging leaves who is to stop it alone.    *)
LEMMA OtherJob ==
  ASSUME NEW op, op # "stopPaging", Does(op), UNCHANGED <<pc, aside>>
  PROVE  /\ sig # <<>> /\ Head(sig).op = op
         /\ Stops => Stops'
BY DEF Does, Stops, DoesAside

(* A connection removed.                                                   *)
LEMMA ConnRemoved ==
  ASSUME conn \in [Conn -> Connections], NEW c \in Conn,
         conn' = [conn EXCEPT ![c].state = "removed", ![c].usage = 0]
  PROVE  /\ conn' \in [Conn -> Connections]
         /\ conn'[c].state = "removed"
         /\ \A d \in Conn : d # c => conn'[d] = conn[d]
<1> DEFINE n == 0
           x == [conn[c] EXCEPT !.state = "removed", !.usage = n]
<1>1. n \in Int /\ conn[c] \in Connections
  OBVIOUS
<1>2. conn' = [conn EXCEPT ![c] = x]
  OBVIOUS
<1> HIDE DEF n
<1>3. x \in Connections /\ x.state = "removed"
  BY <1>1 DEF Connections
<1> HIDE DEF x
<1> QED
  BY <1>2, <1>3

(* What dropConn leaves.                                                   *)
LEMMA Dropped ==
  ASSUME Inv, NEW c \in Conn, dropConn(c), UNCHANGED <<list, toYate, pager>>
  PROVE  /\ conn' \in [Conn -> Connections]
         /\ \A d \in Conn : conn'[d].state = "removed" \/ conn'[d] = conn[d]
         /\ link' \in [Conn -> {"none", "up", "asked", "down"}]
         /\ RadioTyped' /\ OpensOnce'
<1>1. YateTyped /\ RadioTyped /\ OpensOnce
  BY DEF Inv, TypeOK
<1>2. CASE conn[c].state # "up"
  <2>1. UNCHANGED <<conn, link, at, owed>>
    BY <1>2 DEF dropConn
  <2> QED
    BY <1>1, <2>1 DEF YateTyped, RadioTyped, OpensOnce
<1>3. CASE conn[c].state = "up"
  <2>1. /\ conn' = [conn EXCEPT ![c].state = "removed", ![c].usage = 0]
        /\ link' = [link EXCEPT ![c] = "down"]
        /\ at' = IF at = c THEN None ELSE at
        /\ owed' = {o \in owed : o.conn # c}
    BY <1>3 DEF dropConn
  <2>2. link[c] # "none"
    BY <1>1, <1>3 DEF OpensOnce
  <2>3. /\ conn' \in [Conn -> Connections]
        /\ conn'[c].state = "removed"
        /\ \A d \in Conn : d # c => conn'[d] = conn[d]
    BY <1>1, <2>1, ConnRemoved DEF YateTyped
  <2>4. /\ link' \in [Conn -> {"none", "up", "asked", "down"}]
        /\ \A d \in Conn : link'[d] = "none" <=> link[d] = "none"
    BY <1>1, <2>1, <2>2 DEF RadioTyped
  <2>5. RadioTyped'
    BY <1>1, <2>1, <2>4 DEF RadioTyped
  <2>6. OpensOnce'
    BY <1>1, <1>3, <2>3, <2>4, OpensStays
  <2> QED
    BY <2>3, <2>4, <2>5, <2>6
<1> QED
  BY <1>2, <1>3

LEMMA DropConnInv ==
  ASSUME Inv, DropConn
  PROVE  Inv'
<1> DEFINE c == Head(sig).conn
<1>1. YateTyped /\ RadioTyped /\ Placed
  BY DEF Inv, TypeOK
<1>2. /\ UNCHANGED <<pc, mine, sms, table, list, ue, aside, taken, toYate, pager>>
      /\ Does("drop") /\ dropConn(c) /\ Goes(<<Then(c)>>)
  BY DEF DropConn
<1>3. sig # <<>> /\ Head(sig).op = "drop" /\ (Stops => Stops')
  BY <1>2, OtherJob
<1>4. c \in Conn
  BY <1>1, <1>3, HeadOfWork
<1> HIDE DEF c
<1>5. <<Then(c)>> \in Seq(Work)
  BY <1>4, JobsTyped DEF Then
<1>6. sig' \in Seq(Work)
  BY <1>1, <1>2, <1>3, <1>5, GoesOn
<1>7. /\ conn' \in [Conn -> Connections]
      /\ \A d \in Conn : conn'[d].state = "removed" \/ conn'[d] = conn[d]
      /\ RadioTyped' /\ OpensOnce'
  BY <1>2, <1>4, Dropped
<1>8. TypeOK'
  BY <1>1, <1>2, <1>6, <1>7 DEF TypeOK, YateTyped, Placed
<1> QED
  BY <1>2, <1>3, <1>7, <1>8, ListsKept

LEMMA ConnReleasedInv ==
  ASSUME Inv, ConnReleased
  PROVE  Inv'
<1> DEFINE jobs == IF Finds(Head(sig).op, Head(sig).conn) THEN <<Job("reset", table, None)>> ELSE <<>>
<1>1. YateTyped /\ RadioTyped /\ Placed
  BY DEF Inv, TypeOK
<1>2. /\ UNCHANGED <<pc, mine, sms, table, list, ue, conn, aside, taken, toYate, pager, link,
                     at, owed>>
      /\ Does("released") \/ Does("absent")
      /\ Goes(jobs)
  BY DEF ConnReleased, radio
<1>3. sig # <<>> /\ (Stops => Stops')
  BY <1>2, OtherJob
<1>4. jobs \in Seq(Work)
  BY <1>1, JobsTyped DEF YateTyped, Finds
<1> HIDE DEF jobs
<1>5. sig' \in Seq(Work)
  BY <1>1, <1>2, <1>3, <1>4, GoesOn
<1>6. TypeOK'
  BY <1>1, <1>2, <1>5 DEF TypeOK, YateTyped, RadioTyped, Placed
<1> QED
  BY <1>2, <1>3, <1>6, ListsSame

(* What the reset of a list leaves: it loses its connection, and its       *)
(* paging ends.                                                            *)
LEMMA ListReset ==
  ASSUME TypeOK, UsageKept, PagingKept, NEW l \in List, Reset(l), UNCHANGED conn
  PROVE  /\ list' \in [List -> Lists] /\ sms' \in [Sms -> Messages]
         /\ ue' \in [cnt: Nat, paging: BOOLEAN] /\ ue'.paging = ue.paging
         /\ UsageKept'
         /\ ue'.cnt = Cardinality(Pagers')
         /\ ue'.paging /\ Pagers' = {} =>
              (ue.paging /\ Pagers = {}) \/ (list[l].paging /\ StopsNow(ue))
<1> DEFINE p == list[l].paging
<1>1. /\ list \in [List -> Lists] /\ conn \in [Conn -> Connections]
      /\ ue \in [cnt: Nat, paging: BOOLEAN] /\ sms \in [Sms -> Messages]
  BY DEF TypeOK, YateTyped
<1>2. /\ list' = [list EXCEPT ![l].conn = None, ![l].paging = FALSE, ![l].check = TRUE]
      /\ sms' = [s \in Sms |-> IF sms[s].active /\ s \in ToSet(list[l].queue)
                               THEN [sms[s] EXCEPT !.sent = FALSE] ELSE sms[s]]
      /\ ue' = IF p THEN Counted(ue) ELSE ue
  BY DEF Reset
<1>3. sms' \in [Sms -> Messages]
  BY <1>1, <1>2 DEF Messages
<1>4. /\ list' \in [List -> Lists]
      /\ \A k \in List : k # l => list'[k] = list[k]
      /\ ~list'[l].paging /\ list'[l].conn = None
  <2> DEFINE x == [list[l] EXCEPT !.conn = None, !.paging = FALSE, !.check = TRUE]
  <2>1. x \in Lists /\ ~x.paging /\ x.conn = None
    BY <1>1 DEF Lists
  <2>2. list' = [list EXCEPT ![l] = x]
    BY <1>1, <1>2
  <2> HIDE DEF x
  <2> QED
    BY <1>1, <2>1, <2>2
<1>5. None \notin Conn
  BY MtSmsAssumption DEF Conn
<1>6. UsageKept'
  <2>1. ASSUME NEW d \in Conn
        PROVE  /\ conn'[d] = conn[d] /\ list'[l].conn # d
               /\ conn'[d].usage >= conn[d].usage + (IF list'[l].conn = d THEN 1 ELSE 0)
                                                  - (IF list[l].conn = d THEN 1 ELSE 0)
    BY <1>1, <1>4, <1>5 DEF Connections
  <2> HIDE DEF p
  <2> QED
    BY <1>1, <1>4, <2>1, UsageMoves
<1>7. /\ ue' \in [cnt: Nat, paging: BOOLEAN] /\ ue'.paging = ue.paging
      /\ ue'.cnt = ue.cnt - (IF p THEN 1 ELSE 0)
      /\ p => (StopsNow(ue) <=> ue'.cnt = 0)
  BY <1>1, <1>2, CountedDown DEF TypeOK
<1>8. ue'.cnt = Cardinality(Pagers')
  BY <1>1, <1>4, <1>7, OneList DEF PagingKept
<1>9. Pagers' = {} => ue'.cnt = 0
  BY <1>8, FS_EmptySet
<1>10. ~p => Pagers' = Pagers
  BY <1>4 DEF Pagers
<1> QED
  BY <1>3, <1>4, <1>6, <1>7, <1>8, <1>9, <1>10

(* A job put before the others is the next.                                *)
LEMMA NextStops ==
  ASSUME YateTyped, sig # <<>>, Goes(<<Job("stopPaging", None, None)>>)
  PROVE  Stops'
<1> DEFINE j == Job("stopPaging", None, None)
           t == Tail(sig)
<1>1. sig \in Seq(Work) /\ <<j>> \in Seq(Work) /\ j.op = "stopPaging"
  BY JobsTyped DEF YateTyped, Job
<1>2. sig' = <<j>> \o t
  BY DEF Goes
<1> HIDE DEF j
<1>3. t \in Seq(Work)
  BY <1>1
<1> HIDE DEF t
<1>4. <<j>> \o t # <<>> /\ Head(<<j>> \o t) = j
  BY <1>1, <1>3
<1> QED
  BY <1>1, <1>2, <1>4 DEF Stops, Does

LEMMA ResetListInv ==
  ASSUME Inv, ResetList
  PROVE  Inv'
<1> DEFINE l == Head(sig).list
           stop == list[l].paging /\ StopsNow(ue)
           jobs == IF stop THEN <<Job("stopPaging", None, None)>> ELSE <<>>
<1>1. YateTyped /\ RadioTyped /\ Placed /\ TypeOK /\ UsageKept /\ PagingKept /\ OpensOnce
  BY DEF Inv, TypeOK
<1>2. /\ UNCHANGED <<pc, mine, table, conn, aside, taken, toYate, pager, link, at, owed>>
      /\ Does("reset") /\ Reset(l) /\ Goes(jobs)
  BY DEF ResetList, radio
<1>3. sig # <<>> /\ Head(sig).op = "reset" /\ (Stops => Stops')
  BY <1>2, OtherJob
<1>4. l \in List
  BY <1>1, <1>3, HeadOfWork
<1>5. jobs \in Seq(Work)
  BY JobsTyped
<1>6. stop => Stops'
  BY <1>1, <1>2, <1>3, NextStops
<1> HIDE DEF jobs, l
<1>7. sig' \in Seq(Work)
  BY <1>1, <1>2, <1>3, <1>5, GoesOn
<1>8. /\ list' \in [List -> Lists] /\ sms' \in [Sms -> Messages]
      /\ ue' \in [cnt: Nat, paging: BOOLEAN] /\ ue'.paging = ue.paging
      /\ UsageKept'
      /\ ue'.cnt = Cardinality(Pagers')
      /\ ue'.paging /\ Pagers' = {} => (ue.paging /\ Pagers = {}) \/ stop
  BY <1>1, <1>2, <1>4, ListReset
<1>9. TypeOK'
  BY <1>1, <1>2, <1>7, <1>8 DEF TypeOK, YateTyped, RadioTyped, Placed
<1>10. OpensOnce'
  BY <1>1, <1>2, OpensStays
<1>11. PagingKept'
  BY <1>1, <1>2, <1>3, <1>6, <1>8 DEF PagingKept
<1> QED
  BY <1>8, <1>9, <1>10, <1>11 DEF Inv

LEMMA StopPagingBySigInv ==
  ASSUME Inv, StopPagingBySig
  PROVE  Inv'
<1>1. /\ Does("stopPaging") /\ Goes(<<>>) /\ stopPagingNow
      /\ list' = [l \in List |-> [list[l] EXCEPT !.lapsed = @ \/ list[l].paging]]
      /\ UNCHANGED <<pc, mine, sms, table, conn, aside, taken, toYate, link, at, owed>>
  BY DEF StopPagingBySig
<1>2. YateTyped /\ RadioTyped /\ Placed /\ UsageKept /\ PagingKept /\ OpensOnce
  BY DEF Inv, TypeOK
<1>3. sig # <<>>
  BY <1>1 DEF Does
<1>4. sig' \in Seq(Work)
  BY <1>1, <1>2, <1>3, GoesOn, JobsTyped
<1>5. /\ list' \in [List -> Lists]
      /\ \A k \in List : /\ list'[k].conn = list[k].conn
                         /\ list'[k].paging = list[k].paging
  BY <1>1, <1>2, Marked
<1>6. /\ ue' \in [cnt: Nat, paging: BOOLEAN] /\ ue'.cnt = ue.cnt
      /\ ~ue'.paging /\ pager' = FALSE
  BY <1>1, <1>2, StoppedNow DEF RadioTyped
<1>7. YateTyped'
  BY <1>1, <1>2, <1>4, <1>5, <1>6 DEF YateTyped
<1>8. RadioTyped' /\ Placed'
  BY <1>1, <1>2, <1>6 DEF RadioTyped, Placed
<1>9. OpensOnce'
  BY <1>1, <1>2, OpensStays
<1>10. UsageKept'
  BY <1>1, <1>2, <1>5, UsageStays DEF YateTyped
<1>11. Pagers' = Pagers
  BY <1>5 DEF Pagers
<1> QED
  BY <1>2, <1>6, <1>7, <1>8, <1>9, <1>10, <1>11 DEF Inv, TypeOK, PagingKept

(* The jobs that drop the phone's other connections.                       *)
LEMMA DropsTyped ==
  ASSUME NEW S \in SUBSET Conn
  PROVE  [i \in DOMAIN SetToSeq(S) |-> Job("drop", None, SetToSeq(S)[i])] \in Seq(Work)
<1> DEFINE n == Cardinality(S)
           q == SetToSeq(S)
<1>1. IsFiniteSet(S)
  <2>1. 1 \in Int /\ MaxConn \in Int
    BY MtSmsAssumption
  <2>2. IsFiniteSet(Conn)
    BY <2>1, FS_Interval DEF Conn
  <2> QED
    BY <2>2, FS_Subset
<1>2. n \in Nat /\ \E f \in [1 .. n -> S] : IsInjective(f)
  BY <1>1, FS_CardinalityType DEF ExistsBijection, Bijection, Injection
<1>3. q \in [1 .. n -> S]
  BY <1>2 DEF SetToSeq
<1> HIDE DEF n, q
<1>4. \A i \in DOMAIN q : Job("drop", None, q[i]) \in Work
  BY <1>3 DEF Job, Work
<1> DEFINE W == Work
<1>5. \A i \in 1 .. n : Job("drop", None, q[i]) \in W
  BY <1>3, <1>4
<1> HIDE DEF W
<1>6. [i \in 1 .. n |-> Job("drop", None, q[i])] \in Seq(W)
  BY <1>2, <1>5
<1>7. DOMAIN q = 1 .. n
  BY <1>3
<1> QED
  BY <1>6, <1>7 DEF W, q

LEMMA SetUEInv ==
  ASSUME Inv, SetUE
  PROVE  Inv'
<1> DEFINE c == Head(sig).conn
           S == Candidates \ {c}
           jobs == [i \in DOMAIN SetToSeq(S) |-> Job("drop", None, SetToSeq(S)[i])]
<1>1. YateTyped /\ RadioTyped /\ Placed /\ UsageKept /\ PagingKept /\ OpensOnce
  BY DEF Inv, TypeOK
<1>2. /\ UNCHANGED <<pc, mine, sms, table, list, ue, aside, taken, toYate, pager, link, at, owed>>
      /\ Does("setUE") /\ Goes(jobs)
      /\ conn' = [conn EXCEPT ![c].ue = TRUE]
  BY DEF SetUE, radio
<1>3. sig # <<>> /\ Head(sig).op = "setUE" /\ (Stops => Stops')
  BY <1>2, OtherJob
<1>4. c \in Conn
  BY <1>1, <1>3, HeadOfWork
<1>5. jobs \in Seq(Work)
  <2>1. S \in SUBSET Conn
    BY DEF Candidates
  <2> HIDE DEF S
  <2> QED
    BY <2>1, DropsTyped
<1> HIDE DEF jobs, c
<1>6. /\ conn' \in [Conn -> Connections]
      /\ \A d \in Conn : /\ conn'[d].state = conn[d].state /\ conn'[d].usage = conn[d].usage
                         /\ conn'[d].due = conn[d].due
  BY <1>1, <1>2, <1>4 DEF YateTyped, Connections
<1>8. sig' \in Seq(Work)
  BY <1>1, <1>2, <1>3, <1>5, GoesOn
<1>9. TypeOK'
  BY <1>1, <1>2, <1>6, <1>8 DEF TypeOK, YateTyped, RadioTyped, Placed
<1>10. OpensOnce'
  BY <1>1, <1>2, <1>6, OpensStays
<1> QED
  BY <1>2, <1>3, <1>6, <1>9, <1>10, ListsKept

LEMMA CheckServiceInv ==
  ASSUME Inv, CheckService
  PROVE  Inv'
<1> DEFINE jobs == IF table = None THEN <<>> ELSE <<Job("look", table, None)>>
<1>1. YateTyped /\ RadioTyped /\ Placed
  BY DEF Inv, TypeOK
<1>2. /\ UNCHANGED <<pc, mine, sms, table, list, ue, conn, aside, taken, toYate, pager, link, at,
                     owed>>
      /\ Does("service") /\ Goes(jobs)
  BY DEF CheckService, radio
<1>3. sig # <<>> /\ (Stops => Stops')
  BY <1>2, OtherJob
<1>4. jobs \in Seq(Work)
  BY <1>1, JobsTyped DEF YateTyped
<1> HIDE DEF jobs
<1>6. sig' \in Seq(Work)
  BY <1>1, <1>2, <1>3, <1>4, GoesOn
<1>7. TypeOK'
  BY <1>1, <1>2, <1>6 DEF TypeOK, YateTyped, RadioTyped, Placed
<1> QED
  BY <1>2, <1>3, <1>7, ListsSame

LEMMA LookInv ==
  ASSUME Inv, Look
  PROVE  Inv'
<1> DEFINE l == Head(sig).list
           jobs == IF Pending(l) = <<>> THEN <<Job("remove", l, None)>> ELSE <<>>
<1>1. /\ Does("look") /\ checkMtSms(l) /\ Goes(jobs)
      /\ UNCHANGED <<pc, mine, table, aside, taken, toYate, at>>
  BY DEF Look
<1>2. YateTyped /\ RadioTyped /\ Placed /\ TypeOK /\ UsageKept /\ PagingKept /\ OpensOnce
  BY DEF Inv, TypeOK
<1>3. sig # <<>> /\ Head(sig).op = "look" /\ (Stops => Stops')
  BY <1>1, OtherJob
<1>4. l \in List
  BY <1>2, <1>3, HeadOfWork
<1>5. jobs \in Seq(Work)
  BY <1>4, JobsTyped
<1> HIDE DEF jobs, l
<1>6. /\ list' \in [List -> Lists] /\ sms' \in [Sms -> Messages]
      /\ ue' \in [cnt: Nat, paging: BOOLEAN]
      /\ conn' \in [Conn -> Connections]
      /\ \A c \in Conn : conn'[c].state = conn[c].state
      /\ pager' \in BOOLEAN /\ owed' \in SUBSET Debts
      /\ link' \in [Conn -> {"none", "up", "asked", "down"}]
      /\ \A c \in Conn : link'[c] = "none" <=> link[c] = "none"
      /\ UsageKept'
      /\ ue'.cnt = Cardinality(Pagers')
      /\ pager' => ue'.paging
      /\ ue'.paging /\ Pagers' = {} => Stops
  BY <1>1, <1>2, <1>4, Checked
<1>8. sig' \in Seq(Work)
  BY <1>1, <1>2, <1>3, <1>5, GoesOn
<1>9. YateTyped'
  BY <1>1, <1>2, <1>6, <1>8 DEF YateTyped
<1>10. RadioTyped' /\ Placed'
  BY <1>1, <1>2, <1>6 DEF RadioTyped, Placed
<1>11. OpensOnce'
  BY <1>1, <1>2, <1>6, OpensStays
<1> QED
  BY <1>3, <1>6, <1>9, <1>10, <1>11 DEF Inv, TypeOK, PagingKept

LEMMA RemoveListInv ==
  ASSUME Inv, RemoveList
  PROVE  Inv'
<1> DEFINE l == Head(sig).list
           empty == list[l].queue = <<>>
           last == empty /\ Holders(l) = {} /\ ~SigHolds(l, Tail(sig)) /\ ~HeldAside(l)
           stop == last /\ list[l].paging /\ StopsNow(ue)
           jobs == IF stop THEN <<Job("stopPaging", None, None)>> ELSE <<>>
<1>1. /\ Does("remove") /\ Goes(jobs)
      /\ table' = IF empty /\ table = l THEN None ELSE table
      /\ IF last THEN Destroyed(l) ELSE UNCHANGED <<list, ue, conn>>
      /\ UNCHANGED <<pc, mine, sms, aside, taken, toYate, pager, link, at, owed>>
  BY DEF RemoveList, radio
<1>2. YateTyped /\ RadioTyped /\ Placed /\ TypeOK /\ UsageKept /\ PagingKept /\ OpensOnce
  BY DEF Inv, TypeOK
<1>3. sig # <<>> /\ Head(sig).op = "remove" /\ (Stops => Stops')
  BY <1>1, OtherJob
<1>4. l \in List
  BY <1>2, <1>3, HeadOfWork
<1>5. jobs \in Seq(Work)
  BY <1>4, JobsTyped
<1>6. stop => Goes(<<Job("stopPaging", None, None)>>)
  BY <1>1
<1> HIDE DEF jobs
<1>7. table' \in List \cup {None}
  BY <1>1, <1>2 DEF YateTyped
<1>8. RadioTyped' /\ Placed'
  BY <1>1, <1>2 DEF RadioTyped, Placed
<1>9. CASE last
  <2>1. Destroyed(l)
    BY <1>1, <1>9
  <2> HIDE DEF l
  <2>2. /\ list' \in [List -> Lists]
        /\ conn' \in [Conn -> Connections]
        /\ \A c \in Conn : conn'[c].state = conn[c].state
        /\ ue' \in [cnt: Nat, paging: BOOLEAN] /\ ue'.paging = ue.paging
        /\ UsageKept'
        /\ ue'.cnt = Cardinality(Pagers')
        /\ ue'.paging /\ Pagers' = {} =>
             (ue.paging /\ Pagers = {}) \/ (list[l].paging /\ StopsNow(ue))
    BY <1>2, <1>4, <2>1, ListEnds
  <2>4. sig' \in Seq(Work)
    BY <1>1, <1>2, <1>3, <1>5, GoesOn
  <2>5. YateTyped'
    BY <1>1, <1>2, <1>7, <2>2, <2>4 DEF YateTyped
  <2>6. OpensOnce'
    BY <1>1, <1>2, <2>2, OpensStays
  <2>7. stop => Stops'
    BY <1>2, <1>3, <1>6, NextStops
  <2>8. PagingKept'
    BY <1>1, <1>2, <1>3, <1>9, <2>2, <2>7 DEF PagingKept
  <2> QED
    BY <1>8, <2>2, <2>5, <2>6, <2>8 DEF Inv, TypeOK
<1>10. CASE ~last
  <2>1. UNCHANGED <<list, ue, conn>>
    BY <1>1, <1>10
  <2>3. sig' \in Seq(Work)
    BY <1>1, <1>2, <1>3, <1>5, GoesOn
  <2>4. YateTyped'
    BY <1>1, <1>2, <1>7, <2>1, <2>3 DEF YateTyped
  <2> QED
    BY <1>1, <1>3, <1>8, <2>1, <2>4, ListsSame DEF TypeOK
<1> QED
  BY <1>9, <1>10

LEMMA FindAnsweredInv ==
  ASSUME Inv, FindAnswered
  PROVE  Inv'
<1> DEFINE j == Head(sig)
           x == [j EXCEPT !.op = "take", !.list = table]
           jobs == IF table = None THEN <<>> ELSE <<x>>
           W == Work
<1>1. YateTyped /\ RadioTyped /\ Placed
  BY DEF Inv, TypeOK
<1>2. /\ UNCHANGED <<pc, mine, sms, table, list, ue, conn, aside, taken, toYate, pager, link, at,
                     owed>>
      /\ Does("answer") /\ Goes(jobs)
  BY DEF FindAnswered, radio
<1>3. sig # <<>> /\ Head(sig).op = "answer" /\ (Stops => Stops')
  BY <1>2, OtherJob
<1>4. j \in [op: {"answer", "take"}, list: List \cup {None}, conn: Conn, ref: Ref, sms: Sms]
  BY <1>1, <1>3, HeadOfWork
<1>5. table # None => x \in W
  <2> HIDE DEF j
  <2> QED
    BY <1>1, <1>4 DEF YateTyped, Work
<1> HIDE DEF W, x
<1>6. jobs \in Seq(W)
  BY <1>5
<1> HIDE DEF jobs
<1>8. sig' \in Seq(Work)
  BY <1>1, <1>2, <1>3, <1>6, GoesOn DEF W
<1>9. TypeOK'
  BY <1>1, <1>2, <1>8 DEF TypeOK, YateTyped, RadioTyped, Placed
<1> QED
  BY <1>2, <1>3, <1>9, ListsSame

LEMMA TakeInv ==
  ASSUME Inv, Take
  PROVE  Inv'
<1> DEFINE j == Head(sig)
           l == j.list
           q == list[l].queue
           W == Work
<1>1. YateTyped /\ RadioTyped /\ Placed
  BY DEF Inv, TypeOK
<1>2. /\ UNCHANGED <<pc, mine, table, ue, conn, aside, toYate, pager, link, at, owed>>
      /\ Does("take") /\ TakeAnswer(j)
  BY DEF Take, radio
<1>3. sig # <<>> /\ Head(sig).op = "take" /\ (Stops => Stops')
  BY <1>2, OtherJob
<1>4. /\ l \in List
      /\ j \in [op: {"answer", "take"}, list: List \cup {None}, conn: Conn, ref: Ref,
                sms: Sms]
  BY <1>1, <1>3, HeadOfWork
<1>6. list[l] \in Lists /\ q \in Seq(Sms)
  BY <1>1, <1>4 DEF YateTyped, Lists
<1> HIDE DEF j
<1> DEFINE Effect ==
      /\ list' \in [List -> Lists]
      /\ \A k \in List : /\ list'[k].conn = list[k].conn
                         /\ list'[k].paging = list[k].paging
      /\ sms' \in [Sms -> Messages] /\ taken' \in [Sms -> Sms \cup {None}]
      /\ sig' \in Seq(W)
<1>7. Effect
  <2>1. CASE UNCHANGED <<sms, list, taken>> /\ Goes(<<>>)
    BY <1>1, <1>3, <2>1, GoesOn, JobsTyped DEF YateTyped
  <2>2. CASE UNCHANGED <<sms, list, taken>> /\ Goes(<<Job("remove", l, None)>>)
    BY <1>1, <1>3, <1>4, <2>2, GoesOn, JobsTyped DEF YateTyped
  <2>3. CASE /\ q # <<>>
             /\ list' = [list EXCEPT ![l].queue = Tail(@), ![l].lapsed = TRUE]
             /\ Goes(<<[j EXCEPT !.op = "answer", !.list = None]>>)
             /\ UNCHANGED <<sms, taken>>
    <3> DEFINE r == Tail(q)
               x == [list[l] EXCEPT !.queue = r, !.lapsed = TRUE]
               y == [j EXCEPT !.op = "answer", !.list = None]
    <3>1. r \in Seq(Sms)
      BY <1>6, <2>3
    <3>2. list' = [list EXCEPT ![l] = x]
      BY <1>1, <1>4, <2>3 DEF YateTyped
    <3> HIDE DEF r
    <3>3. /\ x \in Lists /\ x.conn = list[l].conn /\ x.paging = list[l].paging
      BY <1>6, <3>1 DEF Lists
    <3>4. y \in W
      BY <1>4 DEF Work
    <3> HIDE DEF W, x, y, l
    <3>5. <<y>> \in Seq(W)
      BY <3>4
    <3>6. sig' \in Seq(W)
      BY <1>1, <1>3, <2>3, <3>5, GoesOn DEF W, y
    <3> QED
      BY <1>1, <1>4, <2>3, <3>2, <3>3, <3>6 DEF YateTyped
  <2>4. CASE /\ q # <<>>
             /\ list' = [list EXCEPT ![l].queue = Tail(@)]
             /\ sms' = [sms EXCEPT ![Head(q)].active = FALSE]
             /\ taken' = [taken EXCEPT ![Head(q)] = j.sms]
             /\ Goes(<<Job("look", l, None)>>)
    <3> DEFINE r == Tail(q)
               x == [list[l] EXCEPT !.queue = r]
               h == Head(q)
    <3>1. r \in Seq(Sms) /\ h \in Sms
      BY <1>6, <2>4
    <3>2. list' = [list EXCEPT ![l] = x]
      BY <1>1, <1>4, <2>4 DEF YateTyped
    <3> HIDE DEF r
    <3>3. /\ x \in Lists /\ x.conn = list[l].conn /\ x.paging = list[l].paging
      BY <1>6, <3>1 DEF Lists
    <3>4. sig' \in Seq(W)
      BY <1>1, <1>3, <1>4, <2>4, GoesOn, JobsTyped
    <3> HIDE DEF W, x, h, l
    <3>5. sms' = [sms EXCEPT ![h].active = FALSE] /\ taken' = [taken EXCEPT ![h] = j.sms]
      BY <2>4 DEF h, l
    <3>6. sms' \in [Sms -> Messages]
      BY <1>1, <3>1, <3>5 DEF YateTyped, Messages
    <3>7. taken' \in [Sms -> Sms \cup {None}]
      BY <1>1, <1>4, <3>1, <3>5 DEF YateTyped
    <3> QED
      BY <1>1, <1>4, <3>2, <3>3, <3>4, <3>6, <3>7 DEF YateTyped
  <2> HIDE DEF Effect, W
  <2> QED
    BY <1>2, <2>1, <2>2, <2>3, <2>4 DEF TakeAnswer
<1>8. TypeOK'
  BY <1>1, <1>2, <1>7 DEF TypeOK, YateTyped, RadioTyped, Placed
<1> QED
  BY <1>2, <1>3, <1>7, <1>8, ListsSame

-----------------------------------------------------------------------------
(* What the signalling thread reads from the socket                        *)

LEMMA EventRead ==
  ASSUME TypeOK, OpensOnce, NEW type, Reads(type)
  PROVE  /\ sig = <<>> /\ ~Does("stopPaging")
         /\ toYate # <<>> /\ Head(toYate) = toYate[1] /\ 1 \in 1 .. Len(toYate)
         /\ toYate' \in Seq(Events) /\ toYate' = Tail(toYate)
         /\ Head(toYate) \in Events /\ Head(toYate).type = type
         /\ Head(toYate).conn \in Conn
         /\ type \in {"page", "update"} => conn[Head(toYate).conn].state = "none"
         /\ type = "answer" => Head(toYate).ref \in Ref /\ Head(toYate).sms \in Sms
<1> DEFINE m == Head(toYate)
<1>1. /\ sig = <<>> /\ toYate # <<>> /\ m.type = type /\ toYate' = Tail(toYate)
      /\ toYate \in Seq(Events)
  BY DEF Reads, TypeOK, RadioTyped
<1>2. m \in Events /\ m = toYate[1] /\ 1 \in 1 .. Len(toYate) /\ toYate' \in Seq(Events)
  BY <1>1
<1>3. type \in {"page", "update"} => conn[m.conn].state = "none"
  BY <1>1, <1>2 DEF OpensOnce, Opens
<1> HIDE DEF m
<1>4. m.conn \in Conn /\ (m.type = "answer" => m.ref \in Ref /\ m.sms \in Sms)
  BY <1>2 DEF Events
<1> QED
  BY <1>1, <1>2, <1>3, <1>4 DEF m, Does

(* Only the connection that has just opened is no longer unseen.           *)
LEMMA OpensOn ==
  ASSUME TypeOK, OpensOnce, NEW type, Reads(type), UNCHANGED link,
         \A d \in Conn :
           conn'[d].state = "none" <=>
             /\ conn[d].state = "none"
             /\ ~(type \in {"page", "update"} /\ d = Head(toYate).conn)
  PROVE  OpensOnce'
<1>1. /\ toYate \in Seq(Events) /\ toYate # <<>> /\ toYate' = Tail(toYate)
      /\ Head(toYate) = toYate[1] /\ Head(toYate).type = type
      /\ 1 \in 1 .. Len(toYate) /\ Head(toYate).conn \in Conn
  BY EventRead DEF TypeOK, RadioTyped
<1>2. \A i \in 1 .. Len(toYate') :
        i + 1 \in 1 .. Len(toYate) /\ toYate'[i] = toYate[i + 1] /\ i + 1 # 1
  BY <1>1
<1>3. ASSUME NEW i \in 1 .. Len(toYate'), Opens(toYate'[i])
      PROVE  /\ conn'[toYate'[i].conn].state = "none"
             /\ link'[toYate'[i].conn] # "none"
             /\ \A j \in 1 .. Len(toYate') :
                  Opens(toYate'[j]) /\ toYate'[j].conn = toYate'[i].conn => j = i
  <2> DEFINE m == toYate[i + 1]
  <2>1. /\ i + 1 \in 1 .. Len(toYate) /\ toYate'[i] = m /\ Opens(m) /\ i + 1 # 1
    BY <1>2, <1>3
  <2>2. /\ conn[m.conn].state = "none" /\ link[m.conn] # "none"
        /\ \A j \in 1 .. Len(toYate) :
             Opens(toYate[j]) /\ toYate[j].conn = m.conn => j = i + 1
    BY <2>1 DEF OpensOnce
  <2>3. ~(type \in {"page", "update"} /\ m.conn = Head(toYate).conn)
    BY <1>1, <2>1, <2>2 DEF Opens
  <2>4. m.conn \in Conn
    BY <1>1, <2>1 DEF Events
  <2>5. conn'[m.conn].state = "none" /\ link'[m.conn] # "none"
    BY <2>2, <2>3, <2>4
  <2>6. ASSUME NEW j \in 1 .. Len(toYate'), Opens(toYate'[j]), toYate'[j].conn = m.conn
        PROVE  j = i
    <3>1. j + 1 \in 1 .. Len(toYate) /\ toYate'[j] = toYate[j + 1]
      BY <1>2
    <3>2. j + 1 = i + 1
      BY <2>2, <2>6, <3>1
    <3> QED
      BY <3>2
  <2> QED
    BY <2>1, <2>5, <2>6
<1>4. \A d \in Conn : link'[d] = "none" => conn'[d].state = "none"
  <2>1. link[toYate[1].conn] # "none" \/ ~Opens(toYate[1])
    BY <1>1 DEF OpensOnce
  <2> QED
    BY <1>1, <2>1 DEF OpensOnce, Opens
<1> QED
  BY <1>3, <1>4 DEF OpensOnce

(* A connection opens: it is new, and nobody's.                            *)
LEMMA ConnOpens ==
  ASSUME conn \in [Conn -> Connections], NEW c \in Conn, conn[c].state = "none",
         \/ conn' = [conn EXCEPT ![c].state = "up"]
         \/ conn' = [conn EXCEPT ![c].state = "up", ![c].locUpd = TRUE]
  PROVE  /\ conn' \in [Conn -> Connections]
         /\ \A d \in Conn : /\ conn'[d].usage = conn[d].usage /\ conn'[d].due = conn[d].due
                            /\ d # c => conn'[d].state = conn[d].state
         /\ conn'[c].state = "up"
<1>1. conn' \in [Conn -> Connections]
  BY DEF Connections
<1>2. \A d \in Conn : /\ conn'[d].usage = conn[d].usage /\ conn'[d].due = conn[d].due
                      /\ d # c => conn'[d].state = conn[d].state
  BY DEF Connections
<1>3. conn'[c].state = "up"
  BY DEF Connections
<1> QED
  BY <1>1, <1>2, <1>3

LEMMA PagingResponseInv ==
  ASSUME Inv, PagingResponse
  PROVE  Inv'
<1> DEFINE c == Head(toYate).conn
<1>1. YateTyped /\ RadioTyped /\ Placed /\ TypeOK /\ UsageKept /\ PagingKept /\ OpensOnce
  BY DEF Inv, TypeOK
<1>2. /\ Reads("page")
      /\ conn' = [conn EXCEPT ![c].state = "up"]
      /\ sig' = IF ue.paging
                THEN <<Job("setUE", None, c), Job("service", None, None)>> ELSE <<>>
      /\ IF ue.paging THEN stopPagingNow ELSE UNCHANGED <<ue, pager>>
      /\ UNCHANGED <<pc, mine, sms, table, list, aside, taken, link, at, owed>>
  BY DEF PagingResponse
<1>3. /\ c \in Conn /\ conn[c].state = "none"
      /\ toYate' \in Seq(Events) /\ ~Does("stopPaging")
  BY <1>1, <1>2, EventRead
<1>4. OpensOnce'
  <2>1. /\ conn'[c].state = "up"
        /\ \A d \in Conn : d # c => conn'[d].state = conn[d].state
    BY <1>1, <1>2, <1>3, ConnOpens DEF YateTyped
  <2> QED
    BY <1>1, <1>2, <1>3, <2>1, OpensOn
<1>5. sig' \in Seq(Work)
  BY <1>2, <1>3, JobsTyped
<1> HIDE DEF c
<1>6. /\ conn' \in [Conn -> Connections]
      /\ \A d \in Conn : /\ conn'[d].usage = conn[d].usage /\ conn'[d].due = conn[d].due
                         /\ d # c => conn'[d].state = conn[d].state
      /\ conn'[c].state = "up"
  BY <1>1, <1>2, <1>3, ConnOpens DEF YateTyped
<1>7. /\ ue' \in [cnt: Nat, paging: BOOLEAN] /\ pager' \in BOOLEAN
      /\ ue'.cnt = ue.cnt
      /\ \/ ue' = ue /\ pager' = pager
         \/ ~ue'.paging /\ pager' = FALSE
  BY <1>1, <1>2, StoppedNow DEF YateTyped, RadioTyped
<1>8. TypeOK'
  BY <1>1, <1>2, <1>3, <1>5, <1>6, <1>7 DEF TypeOK, YateTyped, RadioTyped, Placed
<1>9. UsageKept'
  BY <1>1, <1>2, <1>3, <1>6, UsageStays DEF YateTyped
<1>10. Stops => Stops'
  BY <1>2, <1>3 DEF Stops, DoesAside
<1>11. Pagers' = Pagers
  BY <1>2 DEF Pagers
<1> QED
  BY <1>1, <1>4, <1>7, <1>8, <1>9, <1>10, <1>11 DEF Inv, PagingKept

LEMMA LocationUpdateInv ==
  ASSUME Inv, LocationUpdate
  PROVE  Inv'
<1> DEFINE c == Head(toYate).conn
<1>1. YateTyped /\ RadioTyped /\ Placed /\ TypeOK /\ OpensOnce
  BY DEF Inv, TypeOK
<1>2. /\ Reads("update")
      /\ conn' = [conn EXCEPT ![c].state = "up", ![c].locUpd = TRUE]
      /\ sig' = <<Job("setUE", None, c)>>
      /\ UNCHANGED <<pc, mine, sms, table, list, ue, aside, taken, pager, link, at, owed>>
  BY DEF LocationUpdate, radio
<1>3. /\ c \in Conn /\ conn[c].state = "none"
      /\ toYate' \in Seq(Events) /\ ~Does("stopPaging")
  BY <1>1, <1>2, EventRead
<1>4. OpensOnce'
  <2>1. /\ conn'[c].state = "up"
        /\ \A d \in Conn : d # c => conn'[d].state = conn[d].state
    BY <1>1, <1>2, <1>3, ConnOpens DEF YateTyped
  <2> QED
    BY <1>1, <1>2, <1>3, <2>1, OpensOn
<1>5. sig' \in Seq(Work)
  BY <1>2, <1>3, JobsTyped
<1> HIDE DEF c
<1>6. /\ conn' \in [Conn -> Connections]
      /\ \A d \in Conn : /\ conn'[d].usage = conn[d].usage /\ conn'[d].due = conn[d].due
                         /\ d # c => conn'[d].state = conn[d].state
      /\ conn'[c].state = "up"
  BY <1>1, <1>2, <1>3, ConnOpens DEF YateTyped
<1>7. TypeOK'
  BY <1>1, <1>2, <1>3, <1>5, <1>6 DEF TypeOK, YateTyped, RadioTyped, Placed
<1>8. Stops => Stops'
  BY <1>2, <1>3 DEF Stops, DoesAside
<1> QED
  BY <1>2, <1>3, <1>4, <1>6, <1>7, <1>8, ListsKept

LEMMA SapiEstablishedInv ==
  ASSUME Inv, SapiEstablished
  PROVE  Inv'
<1> DEFINE c == Head(toYate).conn
<1>1. YateTyped /\ RadioTyped /\ Placed /\ TypeOK /\ OpensOnce
  BY DEF Inv, TypeOK
<1>2. /\ Reads("sapi")
      /\ IF conn[c].state = "up"
         THEN /\ conn' = [conn EXCEPT ![c].sapi = TRUE]
              /\ sig' = IF conn[c].ue THEN <<Job("service", None, None)>> ELSE <<>>
         ELSE UNCHANGED <<conn, sig>>
      /\ UNCHANGED <<pc, mine, sms, table, list, ue, aside, taken, pager, link, at, owed>>
  BY DEF SapiEstablished, radio
<1>3. /\ c \in Conn /\ toYate' \in Seq(Events) /\ ~Does("stopPaging") /\ sig = <<>>
  BY <1>1, <1>2, EventRead
<1>4. sig' \in Seq(Work)
  BY <1>2, <1>3, JobsTyped
<1> HIDE DEF c
<1>5. /\ conn' \in [Conn -> Connections]
      /\ \A d \in Conn : /\ conn'[d].usage = conn[d].usage /\ conn'[d].due = conn[d].due
                         /\ conn'[d].state = conn[d].state
  <2>1. conn' = conn \/ conn' = [conn EXCEPT ![c].sapi = TRUE]
    BY <1>2
  <2> DEFINE x == [conn[c] EXCEPT !.sapi = TRUE]
  <2>2. conn \in [Conn -> Connections] /\ conn[c] \in Connections
    BY <1>1, <1>3 DEF YateTyped
  <2>3. conn' = conn \/ conn' = [conn EXCEPT ![c] = x]
    BY <2>1, <2>2
  <2>4. x \in Connections /\ x.usage = conn[c].usage /\ x.due = conn[c].due
        /\ x.state = conn[c].state
    BY <2>2 DEF Connections
  <2> HIDE DEF x
  <2> QED
    BY <1>3, <2>2, <2>3, <2>4
<1>6. OpensOnce'
  BY <1>1, <1>2, <1>5, OpensOn
<1>7. TypeOK'
  BY <1>1, <1>2, <1>3, <1>4, <1>5 DEF TypeOK, YateTyped, RadioTyped, Placed
<1>8. Stops => Stops'
  BY <1>2, <1>3 DEF Stops, DoesAside
<1> QED
  BY <1>2, <1>5, <1>6, <1>7, <1>8, ListsKept

LEMMA ConnLostInv ==
  ASSUME Inv, ConnLost
  PROVE  Inv'
<1> DEFINE c == Head(toYate).conn
<1>1. YateTyped /\ RadioTyped /\ Placed /\ TypeOK /\ OpensOnce
  BY DEF Inv, TypeOK
<1>2. /\ Reads("lost") /\ sig' = <<Then(c)>>
      /\ conn' = IF conn[c].state = "up"
                 THEN [conn EXCEPT ![c].state = "removed", ![c].usage = 0] ELSE conn
      /\ UNCHANGED <<pc, mine, sms, table, list, ue, aside, taken, pager, link, at, owed>>
  BY DEF ConnLost, radio
<1>3. /\ c \in Conn /\ toYate' \in Seq(Events) /\ ~Does("stopPaging")
  BY <1>1, <1>2, EventRead
<1>4. Stops => Stops'
  BY <1>2, <1>3 DEF Stops, DoesAside
<1>5. sig' \in Seq(Work)
  BY <1>2, <1>3, JobsTyped DEF Then
<1>6. /\ conn' \in [Conn -> Connections]
      /\ \A d \in Conn : conn'[d].state = "removed" \/ conn'[d] = conn[d]
      /\ \A d \in Conn : conn'[d].state = "none" <=> conn[d].state = "none"
  <2> HIDE DEF c
  <2>1. CASE conn[c].state = "up"
    BY <1>1, <1>2, <1>3, <2>1, ConnRemoved DEF YateTyped
  <2>2. CASE conn[c].state # "up"
    BY <1>1, <1>2, <2>2 DEF YateTyped
  <2> QED
    BY <2>1, <2>2
<1>7. OpensOnce'
  BY <1>1, <1>2, <1>6, OpensOn
<1>8. TypeOK'
  BY <1>1, <1>2, <1>3, <1>5, <1>6 DEF TypeOK, YateTyped, RadioTyped, Placed
<1> QED
  BY <1>2, <1>4, <1>6, <1>7, <1>8, ListsKept

LEMMA AnsweredInv ==
  ASSUME Inv, Answered
  PROVE  Inv'
<1> DEFINE m == Head(toYate)
           x == [op |-> "answer", list |-> None, conn |-> m.conn, ref |-> m.ref,
                 sms |-> m.sms]
           W == Work
<1>1. YateTyped /\ RadioTyped /\ Placed /\ TypeOK /\ OpensOnce
  BY DEF Inv, TypeOK
<1>2. /\ Reads("answer")
      /\ sig' = <<x>> \/ sig' = <<>>
      /\ UNCHANGED <<pc, mine, sms, table, list, ue, conn, aside, taken, pager, link, at, owed>>
  BY DEF Answered, radio
<1>3. /\ m.conn \in Conn /\ m.ref \in Ref /\ m.sms \in Sms
      /\ toYate' \in Seq(Events) /\ ~Does("stopPaging") /\ sig = <<>>
  BY <1>1, <1>2, EventRead
<1>4. x \in W
  BY <1>3 DEF Work
<1> HIDE DEF W, x
<1>5. sig' \in Seq(W)
  <2>1. <<x>> \in Seq(W) /\ <<>> \in Seq(W)
    BY <1>4
  <2>2. sig' = <<x>> \/ sig' = <<>>
    BY <1>2
  <2> QED
    BY <2>1, <2>2, Zenon
<1>6. OpensOnce'
  BY <1>1, <1>2, OpensOn
<1>7. TypeOK'
  BY <1>1, <1>2, <1>3, <1>5 DEF TypeOK, YateTyped, RadioTyped, Placed, W
<1>8. Stops => Stops'
  BY <1>2, <1>3 DEF Stops, DoesAside
<1> QED
  BY <1>2, <1>6, <1>7, <1>8, ListsKept

LEMMA UpdateCompleteInv ==
  ASSUME Inv, NEW c \in Conn, UpdateComplete(c)
  PROVE  Inv'
<1>1. YateTyped /\ RadioTyped /\ Placed
  BY DEF Inv, TypeOK
<1>2. /\ sig = <<>> /\ sig' = <<Job("drop", None, c)>>
      /\ UNCHANGED <<pc, mine, sms, table, list, ue, conn, aside, taken, toYate, pager, link,
                     at, owed>>
  BY DEF UpdateComplete, radio
<1>3. sig' \in Seq(Work)
  BY <1>2, JobsTyped
<1>4. TypeOK'
  BY <1>1, <1>2, <1>3 DEF TypeOK, YateTyped, RadioTyped, Placed
<1>5. Stops => Stops'
  BY <1>2 DEF Stops, Does, DoesAside
<1> QED
  BY <1>2, <1>4, <1>5, ListsSame

-----------------------------------------------------------------------------
(* The threads beside the signalling thread                                *)

(* One that is not about to stop the paging.                               *)
LEMMA OtherAside ==
  ASSUME YateTyped, NEW c \in Conn, ~DoesAside(c, "stopPaging"), NEW j \in WorkAside,
         GoesAside(c, j), UNCHANGED <<pc, sig>>
  PROVE  /\ aside' \in [Conn -> WorkAside]
         /\ Stops => Stops'
         /\ j.op = "stopPaging" => Stops'
<1>1. /\ aside' \in [Conn -> WorkAside] /\ aside'[c] = j
      /\ \A d \in Conn : d # c => aside'[d] = aside[d]
  BY AsideTyped
<1>2. ASSUME Stops
      PROVE  Stops'
  BY <1>1, <1>2 DEF Stops, Does, DoesAside
<1>3. j.op = "stopPaging" => Stops'
  BY <1>1 DEF Stops, DoesAside
<1> QED
  BY <1>1, <1>2, <1>3

LEMMA LeftAside ==
  ASSUME Inv, NEW c \in Conn, NEW j \in WorkAside, ~DoesAside(c, "stopPaging"),
         GoesAside(c, j),
         UNCHANGED <<pc, mine, sms, table, list, ue, conn, sig, taken, toYate, radio>>
  PROVE  Inv'
<1>1. YateTyped /\ RadioTyped /\ Placed
  BY DEF Inv, TypeOK
<1>2. UNCHANGED <<pager, link, at, owed>>
  BY DEF radio
<1>3. aside' \in [Conn -> WorkAside] /\ (Stops => Stops')
  BY <1>1, OtherAside
<1>4. TypeOK'
  BY <1>1, <1>2, <1>3 DEF TypeOK, YateTyped, RadioTyped, Placed
<1> QED
  BY <1>2, <1>3, <1>4, ListsSame

LEMMA BeginsAsideInv ==
  ASSUME Inv, NEW c \in Conn, IdleTimeout(c) \/ UpdateFails(c)
  PROVE  Inv'
<1>1. ~DoesAside(c, "stopPaging") /\ GoesAside(c, Job("drop", None, c))
  BY DEF IdleTimeout, UpdateFails, DoesAside
<1>2. Job("drop", None, c) \in WorkAside
  BY AsideJobs
<1>3. UNCHANGED <<pc, mine, sms, table, list, ue, conn, sig, taken, toYate, radio>>
  BY DEF IdleTimeout, UpdateFails
<1> QED
  BY <1>1, <1>2, <1>3, LeftAside

LEMMA DropAsideInv ==
  ASSUME Inv, NEW c \in Conn, DropAside(c)
  PROVE  Inv'
<1>1. YateTyped /\ RadioTyped /\ Placed
  BY DEF Inv, TypeOK
<1>2. /\ UNCHANGED <<pc, mine, sms, table, list, ue, sig, taken, toYate, pager>>
      /\ ~DoesAside(c, "stopPaging") /\ dropConn(c) /\ GoesAside(c, Then(c))
  BY DEF DropAside, DoesAside
<1>3. Then(c) \in WorkAside
  BY AsideJobs DEF Then
<1>4. aside' \in [Conn -> WorkAside] /\ (Stops => Stops')
  BY <1>1, <1>2, <1>3, OtherAside
<1>5. /\ conn' \in [Conn -> Connections]
      /\ \A d \in Conn : conn'[d].state = "removed" \/ conn'[d] = conn[d]
      /\ RadioTyped' /\ OpensOnce'
  BY <1>2, Dropped
<1>6. TypeOK'
  BY <1>1, <1>2, <1>4, <1>5 DEF TypeOK, YateTyped, Placed
<1> QED
  BY <1>2, <1>4, <1>5, <1>6, ListsKept

LEMMA ReleasedAsideInv ==
  ASSUME Inv, NEW c \in Conn, ReleasedAside(c)
  PROVE  Inv'
<1> DEFINE j == IF Finds(aside[c].op, c) THEN Job("reset", table, c) ELSE Job("none", None, c)
<1>1. ~DoesAside(c, "stopPaging") /\ GoesAside(c, j)
  BY DEF ReleasedAside, DoesAside
<1>2. j \in WorkAside
  BY AsideJobs DEF Inv, TypeOK, YateTyped, Finds
<1> HIDE DEF j
<1>3. UNCHANGED <<pc, mine, sms, table, list, ue, conn, sig, taken, toYate, radio>>
  BY DEF ReleasedAside
<1> QED
  BY <1>1, <1>2, <1>3, LeftAside

LEMMA ResetAsideInv ==
  ASSUME Inv, NEW c \in Conn, ResetAside(c)
  PROVE  Inv'
<1> DEFINE l == aside[c].list
           stop == list[l].paging /\ StopsNow(ue)
           j == Job(IF stop THEN "stopPaging" ELSE "none", None, c)
<1>1. YateTyped /\ RadioTyped /\ Placed /\ TypeOK /\ UsageKept /\ PagingKept /\ OpensOnce
  BY DEF Inv, TypeOK
<1>2. /\ UNCHANGED <<pc, mine, table, conn, sig, taken, toYate, pager, link, at, owed>>
      /\ DoesAside(c, "reset") /\ Reset(l) /\ GoesAside(c, j)
  BY DEF ResetAside, radio
<1>3. l \in List
  BY <1>1, <1>2, JobAside DEF DoesAside
<1>4. j \in WorkAside /\ (stop => j.op = "stopPaging")
  BY AsideJobs DEF Job
<1> HIDE DEF j, l
<1>5. aside' \in [Conn -> WorkAside] /\ (Stops => Stops') /\ (stop => Stops')
  BY <1>1, <1>2, <1>4, OtherAside DEF DoesAside
<1>6. /\ list' \in [List -> Lists] /\ sms' \in [Sms -> Messages]
      /\ ue' \in [cnt: Nat, paging: BOOLEAN] /\ ue'.paging = ue.paging
      /\ UsageKept'
      /\ ue'.cnt = Cardinality(Pagers')
      /\ ue'.paging /\ Pagers' = {} => (ue.paging /\ Pagers = {}) \/ stop
  BY <1>1, <1>2, <1>3, ListReset
<1>7. TypeOK'
  BY <1>1, <1>2, <1>5, <1>6 DEF TypeOK, YateTyped, RadioTyped, Placed
<1>8. OpensOnce'
  BY <1>1, <1>2, OpensStays
<1>9. PagingKept'
  BY <1>1, <1>2, <1>5, <1>6 DEF PagingKept
<1> QED
  BY <1>6, <1>7, <1>8, <1>9 DEF Inv

LEMMA StopPagingAsideInv ==
  ASSUME Inv, NEW c \in Conn, StopPagingAside(c)
  PROVE  Inv'
<1>1. /\ GoesAside(c, Job("none", None, c)) /\ stopPagingNow
      /\ list' = [l \in List |-> [list[l] EXCEPT !.lapsed = @ \/ list[l].paging]]
      /\ UNCHANGED <<pc, mine, sms, table, conn, sig, taken, toYate, link, at, owed>>
  BY DEF StopPagingAside
<1>2. YateTyped /\ RadioTyped /\ Placed /\ UsageKept /\ PagingKept /\ OpensOnce
  BY DEF Inv, TypeOK
<1>3. aside' \in [Conn -> WorkAside]
  BY <1>1, <1>2, AsideTyped, AsideJobs
<1>4. /\ list' \in [List -> Lists]
      /\ \A k \in List : /\ list'[k].conn = list[k].conn
                         /\ list'[k].paging = list[k].paging
  BY <1>1, <1>2, Marked
<1>5. /\ ue' \in [cnt: Nat, paging: BOOLEAN] /\ ue'.cnt = ue.cnt
      /\ ~ue'.paging /\ pager' = FALSE
  BY <1>1, <1>2, StoppedNow DEF RadioTyped
<1>6. TypeOK'
  BY <1>1, <1>2, <1>3, <1>4, <1>5 DEF TypeOK, YateTyped, RadioTyped, Placed
<1>7. OpensOnce'
  BY <1>1, <1>2, OpensStays
<1>8. UsageKept'
  BY <1>1, <1>2, <1>4, UsageStays DEF YateTyped
<1>9. Pagers' = Pagers
  BY <1>4 DEF Pagers
<1> QED
  BY <1>2, <1>5, <1>6, <1>7, <1>8, <1>9 DEF Inv, PagingKept

-----------------------------------------------------------------------------
(* mbts and the phone                                                      *)

(* Yate stays as it is.                                                    *)
LEMMA RadioStep ==
  ASSUME Inv, UNCHANGED yate, RadioTyped', OpensOnce', pager' => pager
  PROVE  Inv'
<1>1. UNCHANGED <<pc, mine, sms, table, list, ue, conn, sig, aside, taken>>
  BY DEF yate
<1>2. YateTyped' /\ Placed' /\ (Stops => Stops')
  BY <1>1 DEF Inv, TypeOK, YateTyped, Placed, Stops, Does, DoesAside
<1> QED
  BY <1>1, <1>2, ListsKept DEF TypeOK

(* What mbts sends. Only the message that opens a connection takes it.     *)
LEMMA EventSent ==
  ASSUME TypeOK, OpensOnce, NEW m \in Events, toYate' = Append(toYate, m),
         UNCHANGED conn,
         Opens(m) => link[m.conn] = "none",
         \A d \in Conn : link'[d] = "none" <=>
                           link[d] = "none" /\ ~(Opens(m) /\ d = m.conn)
  PROVE  toYate' \in Seq(Events) /\ OpensOnce'
<1> DEFINE n == Len(toYate)
<1>1. /\ toYate \in Seq(Events) /\ n \in Nat
      /\ toYate' \in Seq(Events) /\ Len(toYate') = n + 1
      /\ toYate'[n + 1] = m
      /\ \A i \in 1 .. n : toYate'[i] = toYate[i] /\ toYate[i] \in Events
      /\ \A i \in 1 .. n + 1 : i # n + 1 => i \in 1 .. n
  BY DEF TypeOK, RadioTyped
<1> HIDE DEF n
<1>2. \A i \in 1 .. n : Opens(toYate[i]) =>
        /\ conn[toYate[i].conn].state = "none" /\ link[toYate[i].conn] # "none"
        /\ \A j \in 1 .. n :
             Opens(toYate[j]) /\ toYate[j].conn = toYate[i].conn => j = i
  BY DEF OpensOnce, n
<1>3. m.conn \in Conn /\ \A i \in 1 .. n : toYate[i].conn \in Conn
  BY <1>1 DEF Events
<1>4. \A d \in Conn : link'[d] = "none" => conn'[d].state = "none"
  BY DEF OpensOnce
<1>5. Opens(m) => conn[m.conn].state = "none"
  BY <1>3 DEF OpensOnce
<1>6. ASSUME NEW i \in 1 .. n + 1, Opens(toYate'[i])
      PROVE  /\ conn'[toYate'[i].conn].state = "none"
             /\ link'[toYate'[i].conn] # "none"
             /\ \A j \in 1 .. n + 1 :
                  Opens(toYate'[j]) /\ toYate'[j].conn = toYate'[i].conn => j = i
  <2>1. CASE i = n + 1
    <3>1. /\ toYate'[i] = m /\ link[m.conn] = "none" /\ conn'[m.conn].state = "none"
          /\ link'[m.conn] # "none"
      BY <1>1, <1>3, <1>5, <1>6, <2>1
    <3>2. \A j \in 1 .. n + 1 :
            Opens(toYate'[j]) /\ toYate'[j].conn = m.conn => j = n + 1
      BY <1>1, <1>2, <3>1
    <3> QED
      BY <2>1, <3>1, <3>2
  <2>2. CASE i # n + 1
    <3>1. i \in 1 .. n /\ toYate'[i] = toYate[i]
      BY <1>1, <2>2
    <3>2. /\ conn[toYate[i].conn].state = "none" /\ link[toYate[i].conn] # "none"
          /\ link'[toYate[i].conn] # "none"
      BY <1>2, <1>3, <1>6, <3>1
    <3>3. ASSUME NEW j \in 1 .. n + 1, Opens(toYate'[j]),
                 toYate'[j].conn = toYate[i].conn
          PROVE  j = i
      <4>1. j # n + 1
        BY <1>1, <3>2, <3>3
      <4>2. j \in 1 .. n /\ toYate'[j] = toYate[j]
        BY <1>1, <4>1
      <4> QED
        BY <1>2, <1>6, <3>1, <3>3, <4>2
    <3> QED
      BY <3>1, <3>2, <3>3
  <2> QED
    BY <2>1, <2>2
<1> QED
  BY <1>1, <1>4, <1>6 DEF OpensOnce

LEMMA ComesInv ==
  ASSUME Inv, NEW type \in {"page", "update"}, NEW c \in Fresh, Comes(type, c),
         UNCHANGED <<yate, pager, owed>>
  PROVE  Inv'
<1> DEFINE m == [type |-> type, conn |-> c]
<1>1. /\ c \in Conn /\ link[c] = "none" /\ UNCHANGED conn
      /\ link' = [link EXCEPT ![c] = "up"] /\ at' = c
      /\ toYate' = Append(toYate, m)
  BY DEF Comes, Fresh, yate
<1>2. TypeOK /\ OpensOnce /\ RadioTyped
  BY DEF Inv, TypeOK
<1>3. m \in Events /\ Opens(m) /\ m.conn = c
  BY <1>1 DEF Events, Opens
<1> HIDE DEF m
<1>4. /\ link' \in [Conn -> {"none", "up", "asked", "down"}]
      /\ \A d \in Conn : link'[d] = "none" <=> link[d] = "none" /\ d # c
  BY <1>1, <1>2 DEF RadioTyped
<1>5. toYate' \in Seq(Events) /\ OpensOnce'
  BY <1>1, <1>2, <1>3, <1>4, EventSent
<1>6. RadioTyped'
  BY <1>1, <1>2, <1>4, <1>5 DEF RadioTyped
<1> QED
  BY <1>5, <1>6, RadioStep

LEMMA PhoneLeavesInv ==
  ASSUME Inv, PhoneLeaves
  PROVE  Inv'
<1>1. UNCHANGED <<yate, toYate, pager, link>> /\ at' = None /\ owed' \subseteq owed
  BY DEF PhoneLeaves
<1>2. RadioTyped' /\ OpensOnce'
  BY <1>1 DEF Inv, TypeOK, RadioTyped, OpensOnce, yate
<1> QED
  BY <1>1, <1>2, RadioStep

LEMMA SapiComesUpInv ==
  ASSUME Inv, NEW c \in Conn, SapiComesUp(c)
  PROVE  Inv'
<1> DEFINE m == [type |-> "sapi", conn |-> c]
<1>1. /\ link[c] = "asked" /\ UNCHANGED conn
      /\ link' = [link EXCEPT ![c] = "up"]
      /\ toYate' = Append(toYate, m)
      /\ UNCHANGED <<yate, pager, at, owed>>
  BY DEF SapiComesUp, yate
<1>2. TypeOK /\ OpensOnce /\ RadioTyped
  BY DEF Inv, TypeOK
<1>3. m \in Events /\ ~Opens(m)
  BY DEF Events, Opens
<1> HIDE DEF m
<1>4. /\ link' \in [Conn -> {"none", "up", "asked", "down"}]
      /\ \A d \in Conn : link'[d] = "none" <=> link[d] = "none"
  BY <1>1, <1>2 DEF RadioTyped
<1>5. toYate' \in Seq(Events) /\ OpensOnce'
  BY <1>1, <1>2, <1>3, <1>4, EventSent
<1>6. RadioTyped'
  BY <1>1, <1>2, <1>4, <1>5 DEF RadioTyped
<1> QED
  BY <1>1, <1>5, <1>6, RadioStep

LEMMA LinkLostInv ==
  ASSUME Inv, NEW c \in Conn, LinkLost(c)
  PROVE  Inv'
<1> DEFINE m == [type |-> "lost", conn |-> c]
<1>1. /\ link[c] \in {"up", "asked"} /\ UNCHANGED conn
      /\ link' = [link EXCEPT ![c] = "down"]
      /\ at' = IF at = c THEN None ELSE at
      /\ owed' = {o \in owed : o.conn # c}
      /\ toYate' = Append(toYate, m)
      /\ UNCHANGED <<yate, pager>>
  BY DEF LinkLost, yate
<1>2. TypeOK /\ OpensOnce /\ RadioTyped
  BY DEF Inv, TypeOK
<1>3. m \in Events /\ ~Opens(m)
  BY DEF Events, Opens
<1> HIDE DEF m
<1>4. /\ link' \in [Conn -> {"none", "up", "asked", "down"}]
      /\ \A d \in Conn : link'[d] = "none" <=> link[d] = "none"
  BY <1>1, <1>2 DEF RadioTyped
<1>5. toYate' \in Seq(Events) /\ OpensOnce'
  BY <1>1, <1>2, <1>3, <1>4, EventSent
<1>6. RadioTyped'
  BY <1>1, <1>2, <1>4, <1>5 DEF RadioTyped
<1> QED
  BY <1>1, <1>5, <1>6, RadioStep

LEMMA PhoneAnswersInv ==
  ASSUME Inv, NEW o \in owed, PhoneAnswers(o)
  PROVE  Inv'
<1> DEFINE m == [type |-> "answer", conn |-> o.conn, ref |-> o.ref, sms |-> o.sms]
<1>1. /\ owed' = owed \ {o} /\ UNCHANGED conn
      /\ toYate' = Append(toYate, m)
      /\ UNCHANGED <<yate, pager, link, at>>
  BY DEF PhoneAnswers, yate
<1>2. TypeOK /\ OpensOnce /\ RadioTyped
  BY DEF Inv, TypeOK
<1>3. o \in Debts
  BY <1>2 DEF RadioTyped
<1>4. m \in Events /\ ~Opens(m)
  BY <1>3 DEF Events, Opens, Debts
<1> HIDE DEF m
<1>5. toYate' \in Seq(Events) /\ OpensOnce'
  BY <1>1, <1>2, <1>4, EventSent
<1>6. RadioTyped'
  BY <1>1, <1>2, <1>5 DEF RadioTyped
<1> QED
  BY <1>1, <1>5, <1>6, RadioStep

LEMMA PagerExpiresInv ==
  ASSUME Inv, PagerExpires
  PROVE  Inv'
<1>1. UNCHANGED <<yate, toYate, link, at, owed>> /\ pager' = FALSE
  BY DEF PagerExpires
<1>2. RadioTyped' /\ OpensOnce'
  BY <1>1 DEF Inv, TypeOK, RadioTyped, OpensOnce, yate
<1> QED
  BY <1>1, <1>2, RadioStep

-----------------------------------------------------------------------------
(* The specification                                                       *)

LEMMA InvInit == Init => Inv
<1> SUFFICES ASSUME Init
             PROVE  Inv
  OBVIOUS
<1>1. 0 \in Ref /\ 0 \in Nat
  BY MtSmsAssumption DEF Ref
<1>2. list \in [List -> Lists] /\ \A l \in List : ~list[l].paging /\ list[l].conn = None
  BY <1>1 DEF Init, Lists, List
<1>3. sms \in [Sms -> Messages]
  BY DEF Init, Messages
<1>4. /\ conn \in [Conn -> Connections]
      /\ \A c \in Conn : conn[c].state = "none" /\ conn[c].usage = 0
  <2> DEFINE n == 0
             x == [state |-> "none", ue |-> FALSE, locUpd |-> FALSE,
                   sapi |-> FALSE, usage |-> n, due |-> FALSE]
  <2>1. n \in Int
    OBVIOUS
  <2>2. conn = [c \in Conn |-> x]
    BY DEF Init
  <2> HIDE DEF n
  <2>3. x \in Connections /\ x.state = "none" /\ x.usage = n
    BY <2>1 DEF Connections
  <2> HIDE DEF x
  <2> QED
    BY <2>2, <2>3 DEF n
<1>5. ue \in [cnt: Nat, paging: BOOLEAN] /\ ue.cnt = 0 /\ ~ue.paging
  BY DEF Init
<1>6. sig \in Seq(Work) /\ toYate \in Seq(Events)
  BY DEF Init
<1>7. YateTyped
  BY <1>2, <1>3, <1>4, <1>5, <1>6, AsideJobs DEF Init, YateTyped, Pcs
<1>8. RadioTyped /\ Placed
  BY <1>6 DEF Init, RadioTyped, Placed
<1>9. OpensOnce
  BY <1>4 DEF Init, OpensOnce
<1>10. UsageKept
  <2>1. \A c \in Conn : Users(c) = {}
    BY <1>2, MtSmsAssumption DEF Users, Conn
  <2> QED
    BY <1>4, <2>1 DEF UsageKept
<1>11. PagingKept
  <2>1. Pagers = {}
    BY <1>2 DEF Pagers
  <2> QED
    BY <1>5, <2>1, FS_EmptySet DEF PagingKept, Init
<1> QED
  BY <1>7, <1>8, <1>9, <1>10, <1>11 DEF Inv, TypeOK

LEMMA InvNext == Inv /\ [Next]_vars => Inv'
<1> SUFFICES ASSUME Inv, [Next]_vars
             PROVE  Inv'
  OBVIOUS
<1>1. ASSUME NEW s \in Sms, Thread(s)
      PROVE  Inv'
  BY <1>1, FindListInv, AppendSmsInv, CheckByThreadInv, TakeCheckInv, LeaveLoopInv,
     RemoveSmsInv, StopPagingByThreadInv DEF Thread
<1>2. CASE Signalling
  BY <1>2, DropConnInv, ConnReleasedInv, ResetListInv, StopPagingBySigInv, SetUEInv,
     CheckServiceInv, LookInv, RemoveListInv, FindAnsweredInv, TakeInv,
     PagingResponseInv, LocationUpdateInv, SapiEstablishedInv, ConnLostInv, AnsweredInv,
     UpdateCompleteInv DEF Signalling
<1>5. ASSUME NEW c \in Conn, Beside(c)
      PROVE  Inv'
  BY <1>5, BeginsAsideInv, DropAsideInv, ReleasedAsideInv, ResetAsideInv,
     StopPagingAsideInv DEF Beside
<1>3. CASE Mbts
  <2>1. CASE PhoneAnswersPage \/ PhoneUpdates
    BY <2>1, ComesInv DEF PhoneAnswersPage, PhoneUpdates
  <2>2. CASE ~(PhoneAnswersPage \/ PhoneUpdates)
    BY <1>3, <2>2, PhoneLeavesInv, PagerExpiresInv, SapiComesUpInv, LinkLostInv,
       PhoneAnswersInv DEF Mbts
  <2> QED
    BY <2>1, <2>2
<1>4. CASE UNCHANGED vars
  <2>1. UNCHANGED yate /\ UNCHANGED <<toYate, pager, link, at, owed>>
    BY <1>4 DEF vars, radio
  <2>2. RadioTyped' /\ OpensOnce'
    BY <2>1 DEF Inv, TypeOK, RadioTyped, OpensOnce, yate
  <2> QED
    BY <2>1, <2>2, RadioStep
<1> QED
  BY <1>1, <1>2, <1>3, <1>4, <1>5 DEF Next

(* The invariant of short messages holds for any number of them.           *)
THEOREM MtSmsInvariant == Spec => []Inv
<1>1. Init => Inv
  BY InvInit
<1>2. Inv /\ [Next]_vars => Inv'
  BY InvNext
<1> QED
  BY <1>1, <1>2, PTL DEF Spec

(* The usage of a connection that is up covers the lists that use it, and  *)
(* its idle timer does not run while it counts any: whichever thread finds *)
(* it, however the list gives it back, and whoever drops it meanwhile.     *)
THEOREM UsageCoversTheHolders == Spec => []UsageCoversHolders
<1>1. Inv => UsageCoversHolders
  BY DEF Inv, UsageKept, Users, UsageCoversHolders
<1> QED
  BY <1>1, MtSmsInvariant, PTL

(* When nobody is in the middle of something, mbts pages the phone only if *)
(* a list asks for it: the count has neither lost a list nor kept one.     *)
THEOREM PagedForAList == Spec => []PagedOnlyIfWanted
<1>1. Inv => PagedOnlyIfWanted
  <2> SUFFICES ASSUME Inv, Quiet, pager
               PROVE  \E l \in List : list[l].paging
    BY DEF PagedOnlyIfWanted
  <2>1. ~Stops
    BY DEF Quiet, Stops, Does, DoesAside
  <2>2. Pagers # {}
    BY <2>1 DEF Inv, PagingKept
  <2> QED
    BY <2>2 DEF Pagers
<1> QED
  BY <1>1, MtSmsInvariant, PTL

-----------------------------------------------------------------------------
(* No message is forgotten. Who looks after the message whose turn it is,  *)
(* between two moments when nobody is in the middle of something:          *)

Queued(l) == {list[l].queue[i] : i \in 1 .. Len(list[l].queue)}

(* The first message of a list that has not ended is the k-th.             *)
First(l, k) ==
  /\ k \in 1 .. Len(list[l].queue) /\ sms[list[l].queue[k]].active
  /\ \A j \in 1 .. k - 1 : ~sms[list[l].queue[j]].active
Unsent(l) == \E k \in 1 .. Len(list[l].queue) : First(l, k) /\ ~sms[list[l].queue[k]].sent

(* connReleased will be run for c; it has found list l, and will reset it. *)
Releasing(c) ==
  \/ aside[c].op = "released"
  \/ \E i \in 1 .. Len(sig) : sig[i].op = "released" /\ sig[i].conn = c
Resetting(l) ==
  \/ \E c \in Conn : aside[c].op = "reset" /\ aside[c].list = l
  \/ \E i \in 1 .. Len(sig) : sig[i].op = "reset" /\ sig[i].list = l
Told(type, c) == \E i \in 1 .. Len(toYate) : toYate[i].type = type /\ toYate[i].conn = c

(* SAP 3 will come up, or its loss be noticed.                             *)
Establishing(c) ==
  conn[c].state # "up" \/ link[c] \in {"asked", "down"} \/ Told("sapi", c)

(* A location update will end, and its end be told.                        *)
Updating(c) == conn[c].ue /\ conn[c].locUpd /\ (conn[c].state = "up" \/ Releasing(c))

ThreadLooks(l) == \E s \in Sms : mine[s] = l /\ pc[s] \in {"appended", "check"}
ThreadLeaves(l) == \E s \in Queued(l) : mine[s] = l /\ pc[s] = "ended"
SigLooks(l) ==
  \E i \in 1 .. Len(sig) : sig[i].op = "service" \/ (sig[i].op = "look" /\ sig[i].list = l)
Paged(l) == list[l].paging /\ ue.paging
Connects(l) == list[l].conn # None /\ Establishing(list[l].conn)
AwaitsUpdate(l) == list[l].conn = None /\ \E c \in Conn : Updating(c)

Seen(l) ==
  \/ list[l].check \/ list[l].lapsed
  \/ ThreadLooks(l) \/ ThreadLeaves(l) \/ SigLooks(l) \/ Resetting(l)
  \/ Paged(l) \/ Connects(l) \/ AwaitsUpdate(l)

Watched == table # None /\ Unsent(table) => Seen(table)

(* The connection of the phone's list is one with the phone; if it is gone *)
(* the list is about to be found, or reset.                                *)
HasConn ==
  \A l \in List : \A c \in Conn : table = l /\ list[l].conn = c =>
    /\ conn[c].ue /\ conn[c].state # "none"
    /\ conn[c].state = "removed" => Releasing(c) \/ Resetting(l)

(* A list is that of a message that has come.                              *)
Begun ==
  /\ table # None => pc[table] # "idle"
  /\ \A s \in Sms : mine[s] # None => pc[mine[s]] # "idle"
  /\ \A i \in 1 .. Len(sig) : sig[i].list # None => pc[sig[i].list] # "idle"
  /\ \A l \in List : pc[l] = "idle" => list[l].conn = None
Owned == \A l \in List : \A s \in Queued(l) : mine[s] = l /\ pc[s] \notin {"idle", "found"}

(* A connection of mbts that Yate has not seen is told of; the loss of one *)
(* is told after it.                                                       *)
LossTold ==
  \A c \in Conn :
    /\ link[c] # "none" /\ conn[c].state = "none" =>
         \E i \in 1 .. Len(toYate) : Opens(toYate[i]) /\ toYate[i].conn = c
    /\ link[c] = "down" /\ conn[c].state # "removed" =>
         \E i \in 1 .. Len(toYate) :
           /\ toYate[i].type = "lost" /\ toYate[i].conn = c
           /\ \A j \in i .. Len(toYate) : ~(Opens(toYate[j]) /\ toYate[j].conn = c)

WatchInv == Watched /\ HasConn /\ Begun /\ Owned /\ LossTold

-----------------------------------------------------------------------------
(* What Pending leaves begins with the first message that has not ended.   *)
LEMMA PendingIsFirst ==
  ASSUME NEW l \in List, list[l].queue \in Seq(Sms), Pending(l) # <<>>
  PROVE  /\ sms[Pending(l)[1]].active /\ Head(Pending(l)) = Pending(l)[1]
         /\ \E k \in 1 .. Len(list[l].queue) :
              First(l, k) /\ list[l].queue[k] = Pending(l)[1]
         /\ \A i \in 1 .. Len(Pending(l)) :
              \E j \in 1 .. Len(list[l].queue) : list[l].queue[j] = Pending(l)[i]
<1> DEFINE q == list[l].queue
<1>1. PICK n \in 0 .. Len(q) :
        /\ \A j \in 1 .. n : ~sms[q[j]].active
        /\ n < Len(q) => sms[q[n + 1]].active
        /\ Pending(l) = SubSeq(q, n + 1, Len(q))
  BY PendingCut
<1>2. Pending(l) = SubSeq(q, n + 1, Len(q))
  BY <1>1
<1>3. /\ n < Len(q) /\ Len(Pending(l)) = Len(q) - n
      /\ \A i \in 1 .. Len(Pending(l)) : Pending(l)[i] = q[n + i] /\ n + i \in 1 .. Len(q)
  <2>1. n < Len(q)
    <3> SUFFICES ASSUME n = Len(q)
                 PROVE  FALSE
      BY <1>1
    <3>1. SubSeq(q, n + 1, Len(q)) = <<>>
      BY <1>1
    <3> QED
      BY <1>2, <3>1
  <2> HIDE DEF q
  <2>2. q \in Seq(Sms)
    BY DEF q
  <2>3. \A i \in 1 .. Len(q) - n : SubSeq(q, n + 1, Len(q))[i] = q[n + i] /\ n + i \in 1 .. Len(q)
    BY <1>1, <2>1, <2>2
  <2>4. Len(SubSeq(q, n + 1, Len(q))) = Len(q) - n
    BY <1>1, <2>1, <2>2
  <2> QED
    BY <1>2, <2>1, <2>3, <2>4
<1>4. 1 \in 1 .. Len(Pending(l)) /\ Pending(l)[1] = q[n + 1] /\ n + 1 \in 1 .. Len(q)
  BY <1>1, <1>3
<1>5. Pending(l) \in Seq(Sms)
  BY PendingIsQueue
<1>6. Head(Pending(l)) = Pending(l)[1]
  BY <1>4, <1>5
<1>7. First(l, n + 1)
  BY <1>1, <1>3, <1>4 DEF First
<1> QED
  BY <1>1, <1>3, <1>4, <1>6, <1>7

-----------------------------------------------------------------------------
(* Lists of work and of messages from mbts: what is left of them.          *)

LEMMA WorkLeft ==
  ASSUME NEW S, NEW T, sig \in Seq(S), sig # <<>>, NEW w \in Seq(T), Goes(w)
  PROVE  /\ \A i \in 1 .. Len(w) : i \in 1 .. Len(sig') /\ sig'[i] = w[i]
         /\ \A i \in 1 .. Len(sig) :
              sig[i] = Head(sig) \/ \E j \in 1 .. Len(sig') : sig'[j] = sig[i]
         /\ \A j \in 1 .. Len(sig') :
              \/ \E i \in 1 .. Len(sig) : sig'[j] = sig[i]
              \/ \E i \in 1 .. Len(w) : sig'[j] = w[i]
<1> DEFINE t == Tail(sig)
           n == Len(sig)
           m == Len(w)
           U == S \cup T
<1>0. sig \in Seq(U) /\ w \in Seq(U)
  OBVIOUS
<1> HIDE DEF U
<1>1. /\ n \in Nat /\ n > 0 /\ t \in Seq(U) /\ Len(t) = n - 1 /\ Head(sig) = sig[1]
      /\ \A i \in 1 .. n - 1 : t[i] = sig[i + 1]
  BY <1>0
<1>2. sig' = w \o t
  BY DEF Goes
<1> HIDE DEF t, n
<1>3. /\ Len(sig') = m + (n - 1) /\ m \in Nat
      /\ \A i \in 1 .. m : sig'[i] = w[i]
      /\ \A i \in 1 .. n - 1 : sig'[m + i] = t[i]
  BY <1>0, <1>1, <1>2, Joined
<1> HIDE DEF m
<1>4. \A i \in 1 .. m : i \in 1 .. Len(sig') /\ sig'[i] = w[i]
  BY <1>1, <1>3
<1>5. \A i \in 1 .. n - 1 : m + i \in 1 .. Len(sig') /\ sig'[m + i] = t[i]
  BY <1>1, <1>3
<1>6. ASSUME NEW i \in 1 .. n, sig[i] # Head(sig)
      PROVE  \E j \in 1 .. Len(sig') : sig'[j] = sig[i]
  <2>1. i # 1
    BY <1>1, <1>6
  <2>2. i - 1 \in 1 .. n - 1 /\ (i - 1) + 1 = i
    BY <1>1, <2>1
  <2>3. t[i - 1] = sig[i]
    BY <1>1, <2>2
  <2> QED
    BY <1>5, <2>2, <2>3
<1>7. ASSUME NEW j \in 1 .. Len(sig'), ~\E i \in 1 .. m : sig'[j] = w[i]
      PROVE  \E i \in 1 .. n : sig'[j] = sig[i]
  <2>1. j \notin 1 .. m
    BY <1>4, <1>7
  <2>2. j - m \in 1 .. n - 1 /\ m + (j - m) = j
    BY <1>1, <1>3, <2>1
  <2>3. sig'[j] = t[j - m]
    BY <1>5, <2>2
  <2>4. t[j - m] = sig[(j - m) + 1] /\ (j - m) + 1 \in 1 .. n
    BY <1>1, <2>2
  <2> QED
    BY <2>3, <2>4
<1> QED
  BY <1>4, <1>6, <1>7 DEF n, m

LEMMA EventsLeft ==
  ASSUME toYate \in Seq(Events), toYate # <<>>, toYate' = Tail(toYate)
  PROVE  \A type, c : Told(type, c) /\ (Head(toYate).type # type \/ Head(toYate).conn # c)
                        => Told(type, c)'
<1>1. /\ Head(toYate) = toYate[1] /\ Len(toYate') = Len(toYate) - 1
      /\ \A i \in 1 .. Len(toYate) - 1 : toYate'[i] = toYate[i + 1]
  OBVIOUS
<1> SUFFICES ASSUME NEW type, NEW c, NEW i \in 1 .. Len(toYate),
                    toYate[i].type = type, toYate[i].conn = c,
                    Head(toYate).type # type \/ Head(toYate).conn # c
             PROVE  \E j \in 1 .. Len(toYate') : toYate'[j].type = type /\ toYate'[j].conn = c
  BY DEF Told
<1>2. i # 1
  BY <1>1
<1>3. i - 1 \in 1 .. Len(toYate') /\ toYate'[i - 1] = toYate[(i - 1) + 1] /\ (i - 1) + 1 = i
  BY <1>1, <1>2
<1> QED
  BY <1>3

LEMMA EventsMore ==
  ASSUME toYate \in Seq(Events), NEW m \in Events, toYate' = Append(toYate, m)
  PROVE  /\ \A type, c : Told(type, c) => Told(type, c)'
         /\ Told(m.type, m.conn)'
<1>1. /\ Len(toYate') = Len(toYate) + 1 /\ toYate'[Len(toYate) + 1] = m
      /\ \A i \in 1 .. Len(toYate) : toYate'[i] = toYate[i] /\ i \in 1 .. Len(toYate')
  OBVIOUS
<1>2. Len(toYate) + 1 \in 1 .. Len(toYate')
  BY <1>1
<1> QED
  BY <1>1, <1>2 DEF Told

LEMMA LossStays ==
  ASSUME LossTold, UNCHANGED toYate,
         \A c \in Conn :
           /\ link'[c] # "none" => link[c] # "none"
           /\ link'[c] = "down" => link[c] = "down" \/ conn'[c].state = "removed"
           /\ conn'[c].state = conn[c].state \/ conn'[c].state = "removed"
  PROVE  LossTold'
BY DEF LossTold

LEMMA LossRead ==
  ASSUME TypeOK, OpensOnce, LossTold, NEW type, Reads(type), UNCHANGED link,
         \A d \in Conn :
           \/ conn'[d].state = conn[d].state
           \/ d = Head(toYate).conn /\ Opens(Head(toYate)) /\ conn'[d].state = "up"
           \/ d = Head(toYate).conn /\ type = "lost" /\ conn'[d].state = "removed",
         Opens(Head(toYate)) => conn'[Head(toYate).conn].state = "up",
         type = "lost" /\ conn[Head(toYate).conn].state = "up" =>
           conn'[Head(toYate).conn].state = "removed"
  PROVE  LossTold'
<1> DEFINE m == Head(toYate)
<1>1. /\ toYate # <<>> /\ m = toYate[1] /\ 1 \in 1 .. Len(toYate) /\ m.type = type
      /\ toYate \in Seq(Events) /\ toYate' = Tail(toYate) /\ m.conn \in Conn
      /\ type \in {"page", "update"} => conn[m.conn].state = "none"
  BY EventRead DEF TypeOK, RadioTyped
<1>2. \A i \in 1 .. Len(toYate) : i # 1 =>
        i - 1 \in 1 .. Len(toYate') /\ toYate'[i - 1] = toYate[i]
  BY <1>1
<1>3. \A i \in 1 .. Len(toYate') : i + 1 \in 1 .. Len(toYate) /\ toYate'[i] = toYate[i + 1]
  BY <1>1
<1>4. \A d \in Conn : conn[d].state \in {"none", "up", "removed"}
  BY DEF TypeOK, YateTyped, Connections
<1> HIDE DEF m
<1> SUFFICES ASSUME NEW c \in Conn
             PROVE  /\ link[c] # "none" /\ conn'[c].state = "none" =>
                         \E i \in 1 .. Len(toYate') :
                           Opens(toYate'[i]) /\ toYate'[i].conn = c
                    /\ link[c] = "down" /\ conn'[c].state # "removed" =>
                         \E i \in 1 .. Len(toYate') :
                           /\ toYate'[i].type = "lost" /\ toYate'[i].conn = c
                           /\ \A j \in i .. Len(toYate') :
                                ~(Opens(toYate'[j]) /\ toYate'[j].conn = c)
  BY DEF LossTold, Opens
<1>5. Opens(m) /\ m.conn = c => conn[c].state = "none" /\ conn'[c].state = "up"
  BY <1>1 DEF m, Opens
<1>6. ASSUME link[c] # "none", conn'[c].state = "none"
      PROVE  \E i \in 1 .. Len(toYate') : Opens(toYate'[i]) /\ toYate'[i].conn = c
  <2>1. conn[c].state = "none"
    BY <1>6
  <2>2. PICK i \in 1 .. Len(toYate) : Opens(toYate[i]) /\ toYate[i].conn = c
    BY <1>6, <2>1 DEF LossTold
  <2>3. i # 1
    BY <1>1, <1>5, <1>6, <2>2
  <2> QED
    BY <1>2, <2>2, <2>3
<1>7. ASSUME link[c] = "down", conn'[c].state # "removed"
      PROVE  \E i \in 1 .. Len(toYate') :
               /\ toYate'[i].type = "lost" /\ toYate'[i].conn = c
               /\ \A j \in i .. Len(toYate') : ~(Opens(toYate'[j]) /\ toYate'[j].conn = c)
  <2>1. conn[c].state # "removed"
    BY <1>1, <1>5, <1>7 DEF m
  <2>2. PICK i \in 1 .. Len(toYate) :
          /\ toYate[i].type = "lost" /\ toYate[i].conn = c
          /\ \A j \in i .. Len(toYate) : ~(Opens(toYate[j]) /\ toYate[j].conn = c)
    BY <1>7, <2>1 DEF LossTold
  <2>3. i # 1
    <3> SUFFICES ASSUME i = 1
                 PROVE  FALSE
      OBVIOUS
    <3>1. m.conn = c /\ type = "lost"
      BY <1>1, <2>2
    <3>2. conn[c].state = "none"
      BY <1>4, <1>7, <2>1, <3>1 DEF m
    <3>3. PICK j \in 1 .. Len(toYate) : Opens(toYate[j]) /\ toYate[j].conn = c
      BY <1>7, <3>2 DEF LossTold
    <3> QED
      BY <2>2, <3>3
  <2>4. i - 1 \in 1 .. Len(toYate') /\ toYate'[i - 1] = toYate[i]
    BY <1>2, <2>3
  <2>5. ASSUME NEW j \in i - 1 .. Len(toYate')
        PROVE  ~(Opens(toYate'[j]) /\ toYate'[j].conn = c)
    <3>1. j \in 1 .. Len(toYate')
      BY <2>4
    <3>2. j + 1 \in i .. Len(toYate) /\ toYate'[j] = toYate[j + 1]
      BY <1>3, <2>4, <3>1
    <3> QED
      BY <2>2, <3>2
  <2> QED
    BY <2>2, <2>4, <2>5
<1> QED
  BY <1>6, <1>7

LEMMA LossSent ==
  ASSUME TypeOK, LossTold, NEW m \in Events, toYate' = Append(toYate, m),
         UNCHANGED conn,
         \A d \in Conn :
           /\ link'[d] # "none" => link[d] # "none" \/ (Opens(m) /\ m.conn = d)
           /\ link'[d] = "down" =>
                /\ link[d] = "down" \/ (m.type = "lost" /\ m.conn = d)
                /\ ~(Opens(m) /\ m.conn = d)
  PROVE  LossTold'
<1> DEFINE n == Len(toYate)
<1>1. /\ n \in Nat /\ Len(toYate') = n + 1 /\ toYate'[n + 1] = m
      /\ \A i \in 1 .. n : toYate'[i] = toYate[i] /\ i \in 1 .. n + 1
      /\ n + 1 \in 1 .. n + 1
  BY DEF TypeOK, RadioTyped
<1> HIDE DEF n
<1> SUFFICES ASSUME NEW c \in Conn
             PROVE  /\ link'[c] # "none" /\ conn[c].state = "none" =>
                         \E i \in 1 .. n + 1 :
                           Opens(toYate'[i]) /\ toYate'[i].conn = c
                    /\ link'[c] = "down" /\ conn[c].state # "removed" =>
                         \E i \in 1 .. n + 1 :
                           /\ toYate'[i].type = "lost" /\ toYate'[i].conn = c
                           /\ \A j \in i .. n + 1 :
                                ~(Opens(toYate'[j]) /\ toYate'[j].conn = c)
  BY <1>1 DEF LossTold, Opens
<1>2. ASSUME link'[c] # "none", conn[c].state = "none"
      PROVE  \E i \in 1 .. n + 1 : Opens(toYate'[i]) /\ toYate'[i].conn = c
  <2>1. CASE Opens(m) /\ m.conn = c
    BY <1>1, <2>1
  <2>2. CASE ~(Opens(m) /\ m.conn = c)
    <3>1. PICK i \in 1 .. n : Opens(toYate[i]) /\ toYate[i].conn = c
      BY <1>2, <2>2 DEF LossTold, n
    <3> QED
      BY <1>1, <3>1
  <2> QED
    BY <2>1, <2>2
<1>3. ASSUME link'[c] = "down", conn[c].state # "removed"
      PROVE  \E i \in 1 .. n + 1 :
               /\ toYate'[i].type = "lost" /\ toYate'[i].conn = c
               /\ \A j \in i .. n + 1 : ~(Opens(toYate'[j]) /\ toYate'[j].conn = c)
  <2>1. ~(Opens(m) /\ m.conn = c)
    BY <1>3
  <2>2. CASE m.type = "lost" /\ m.conn = c
    <3>1. \A j \in n + 1 .. n + 1 : j = n + 1
      BY <1>1
    <3> QED
      BY <1>1, <2>1, <2>2, <3>1
  <2>3. CASE ~(m.type = "lost" /\ m.conn = c)
    <3>1. PICK i \in 1 .. n :
            /\ toYate[i].type = "lost" /\ toYate[i].conn = c
            /\ \A j \in i .. n : ~(Opens(toYate[j]) /\ toYate[j].conn = c)
      BY <1>3, <2>3 DEF LossTold, n
    <3>2. ASSUME NEW j \in i .. n + 1
          PROVE  ~(Opens(toYate'[j]) /\ toYate'[j].conn = c)
      <4>1. j = n + 1 \/ (j \in i .. n /\ j \in 1 .. n)
        BY <1>1
      <4> QED
        BY <1>1, <2>1, <3>1, <4>1
    <3> QED
      BY <1>1, <3>1, <3>2
  <2> QED
    BY <2>2, <2>3
<1> QED
  BY <1>2, <1>3

-----------------------------------------------------------------------------
(* checkMtSms, of the list that is looked at.                              *)

LEMMA SendOnSees ==
  ASSUME Inv, NEW l \in List, NEW lst \in Lists, lst.queue # <<>>, NEW c \in Conn,
         SendOn(l, lst, c)
  PROVE  /\ \A k \in List : k # l => list'[k] = list[k]
         /\ list'[l].queue = lst.queue /\ list'[l].check = lst.check
         /\ list'[l].conn = lst.conn
         /\ \A s \in Sms : /\ sms'[s].active = sms[s].active
                           /\ sms[s].sent => sms'[s].sent
         /\ \A d \in Conn : /\ link[d] \in {"asked", "down"} => link'[d] = link[d]
                            /\ link'[d] = "down" => link[d] = "down"
         /\ link'[c] = "none" => link[c] = "none"
         /\ \/ sms'[Head(lst.queue)].sent
            \/ link'[c] \in {"none", "asked", "down"}
<1>1. /\ list \in [List -> Lists] /\ sms \in [Sms -> Messages]
      /\ link \in [Conn -> {"none", "up", "asked", "down"}]
  BY DEF Inv, TypeOK, YateTyped, RadioTyped
<1> DEFINE s == Head(lst.queue)
<1>2. s \in Sms
  BY DEF Lists
<1>3. CASE ~conn[c].sapi
  <2>1. /\ list' = [list EXCEPT ![l] = lst] /\ UNCHANGED sms
        /\ link' = [link EXCEPT ![c] = IF @ = "up" THEN "asked" ELSE @]
    BY <1>3 DEF SendOn
  <2> QED
    BY <1>1, <2>1
<1>4. CASE conn[c].sapi
  <2> HIDE DEF s
  <2>1. /\ list' = [list EXCEPT ![l] = [lst EXCEPT !.tid = (@ + 1) % Tids]]
        /\ sms' = [sms EXCEPT ![s].sent = TRUE, ![s].callRef = lst.tid]
        /\ UNCHANGED link
    BY <1>4 DEF SendOn, s
  <2>2. /\ \A t \in Sms : /\ sms'[t].active = sms[t].active
                          /\ sms[t].sent => sms'[t].sent
        /\ sms'[s].sent
    BY <1>1, <1>2, <2>1 DEF Messages
  <2>3. /\ \A k \in List : k # l => list'[k] = list[k]
        /\ list'[l].queue = lst.queue /\ list'[l].check = lst.check
        /\ list'[l].conn = lst.conn
    BY <1>1, <2>1 DEF Lists
  <2> QED
    BY <2>1, <2>2, <2>3 DEF s
<1> QED
  BY <1>3, <1>4

LEMMA CheckSees ==
  ASSUME Inv, Inv', NEW l \in List, checkMtSms(l)
  PROVE  /\ \A k \in List : k # l => list'[k] = list[k]
         /\ list'[l].queue = Pending(l) /\ list'[l].check = list[l].check
         /\ \A s \in Sms : /\ sms'[s].active = sms[s].active
                           /\ sms[s].sent => sms'[s].sent
         /\ ue.paging => ue'.paging
         /\ \A d \in Conn : /\ conn'[d].state = conn[d].state
                            /\ conn'[d].ue = conn[d].ue
                            /\ conn'[d].locUpd = conn[d].locUpd
         /\ \A d \in Conn : /\ link[d] \in {"asked", "down"} => link'[d] = link[d]
                            /\ link'[d] = "down" => link[d] = "down"
                            /\ link'[d] # "none" => link[d] # "none"
         /\ list'[l].conn = list[l].conn \/ list'[l].conn \in Candidates
         /\ Unsent(l)' => Paged(l)' \/ Connects(l)' \/ AwaitsUpdate(l)'
<1> DEFINE queue == Pending(l)
           lst == [list[l] EXCEPT !.queue = queue, !.lapsed = FALSE]
           stale == list[l].paging
           u == IF stale THEN Counted(ue) ELSE ue
<1>1. /\ list \in [List -> Lists] /\ conn \in [Conn -> Connections]
      /\ ue \in [cnt: Nat, paging: BOOLEAN] /\ sms \in [Sms -> Messages]
      /\ link \in [Conn -> {"none", "up", "asked", "down"}]
      /\ list[l] \in Lists /\ list[l].queue \in Seq(Sms)
      /\ list' \in [List -> Lists] /\ sms' \in [Sms -> Messages]
      /\ conn' \in [Conn -> Connections]
      /\ link' \in [Conn -> {"none", "up", "asked", "down"}]
  BY DEF Inv, TypeOK, YateTyped, RadioTyped, Lists
<1>2. queue \in Seq(Sms)
  BY <1>1, PendingIsQueue
<1>3. queue # <<>> => sms[queue[1]].active /\ Head(queue) = queue[1] /\ 1 \in 1 .. Len(queue)
  BY <1>1, <1>2, PendingIsFirst
<1>4. u.paging = ue.paging
  BY <1>1 DEF Counted
<1>5. \A d \in Conn : link[d] = "none" <=> link'[d] = "none"
  BY Checked DEF Inv
<1> HIDE DEF queue, u
<1>6. /\ lst \in Lists /\ lst.queue = queue /\ lst.conn = list[l].conn
      /\ lst.paging = list[l].paging /\ lst.check = list[l].check
  BY <1>1, <1>2 DEF Lists
<1>7. None \notin Conn
  BY MtSmsAssumption DEF Conn
(* Nothing is unsent when the head has been sent.                          *)
<1>8. ASSUME list'[l].queue = queue, queue # <<>>, sms'[Head(queue)].sent,
             \A s \in Sms : sms'[s].active = sms[s].active
      PROVE  ~Unsent(l)'
  <2>1. 1 \in 1 .. Len(queue) /\ queue[1] \in Sms /\ sms'[queue[1]].active /\ sms'[queue[1]].sent
    BY <1>2, <1>3, <1>8
  <2>2. ASSUME NEW k \in 1 .. Len(queue), First(l, k)', ~sms'[queue[k]].sent
        PROVE  FALSE
    <3>1. k # 1
      BY <2>1, <2>2
    <3>2. 1 \in 1 .. k - 1
      BY <3>1
    <3> QED
      BY <1>8, <2>1, <2>2, <3>2 DEF First
  <2> QED
    BY <1>8, <2>2 DEF Unsent
<1>9. CASE queue = <<>> \/ sms[Head(queue)].sent \/ (list[l].paging /\ ue.paging)
  <2>1. list' = [list EXCEPT ![l] = lst]
        /\ UNCHANGED <<sms, ue, conn, pager, link, owed>>
    BY <1>9 DEF checkMtSms, queue
  <2> HIDE DEF lst
  <2>2. /\ list'[l] = lst
        /\ \A k \in List : k # l => list'[k] = list[k]
    BY <1>1, <2>1
  <2>3. Unsent(l)' => Paged(l)'
    <3>1. CASE queue = <<>>
      <4>1. list'[l].queue = <<>>
        BY <1>6, <2>2, <3>1
      <4> QED
        BY <4>1 DEF Unsent
    <3>2. CASE queue # <<>> /\ sms[Head(queue)].sent
      BY <1>6, <1>8, <2>1, <2>2, <3>2
    <3>3. CASE list[l].paging /\ ue.paging
      BY <1>6, <2>1, <2>2, <3>3 DEF Paged
    <3> QED
      BY <1>9, <3>1, <3>2, <3>3
  <2> QED
    BY <1>6, <2>1, <2>2, <2>3 DEF queue
<1>10. CASE ~(queue = <<>> \/ sms[Head(queue)].sent \/ (list[l].paging /\ ue.paging))
  <2>1. CASE /\ list[l].conn = None /\ Candidates = {}
             /\ list' = [list EXCEPT ![l] = [lst EXCEPT !.paging = TRUE]]
             /\ ue' = startPaging(u)
             /\ UNCHANGED <<sms, conn, link, owed>>
    <3> DEFINE x == [lst EXCEPT !.paging = TRUE]
    <3> HIDE DEF lst
    <3>1. /\ x.paging /\ x.conn = list[l].conn /\ x.queue = queue /\ x.check = list[l].check
      BY <1>6 DEF Lists
    <3> HIDE DEF x
    <3>2. list' = [list EXCEPT ![l] = x]
      BY <2>1 DEF x
    <3>3. /\ list'[l] = x
          /\ \A k \in List : k # l => list'[k] = list[k]
      BY <1>1, <3>2
    <3>4. ue'.paging
      BY <2>1 DEF startPaging
    <3> QED
      BY <2>1, <3>1, <3>3, <3>4 DEF Paged, queue
  <2>2. CASE \E c \in Found :
               /\ list[l].conn = None /\ conn[c].locUpd
               /\ list' = [list EXCEPT ![l] = [lst EXCEPT !.paging = FALSE]]
               /\ ue' = u
               /\ UNCHANGED <<sms, conn, pager, link, owed>>
    <3> DEFINE x == [lst EXCEPT !.paging = FALSE]
    <3>1. PICK c \in Found :
               /\ list[l].conn = None /\ conn[c].locUpd
               /\ list' = [list EXCEPT ![l] = x]
               /\ ue' = u
               /\ UNCHANGED <<sms, conn, pager, link, owed>>
      BY <2>2
    <3> HIDE DEF lst
    <3>2. /\ x.conn = list[l].conn /\ x.queue = queue /\ x.check = list[l].check
      BY <1>6 DEF Lists
    <3> HIDE DEF x
    <3>3. /\ list'[l] = x
          /\ \A k \in List : k # l => list'[k] = list[k]
      BY <1>1, <3>1
    <3>4. AwaitsUpdate(l)'
      <4>1. c \in Conn /\ conn[c].state = "up" /\ conn[c].ue
        BY DEF Found, Candidates
      <4> QED
        BY <3>1, <3>2, <3>3, <4>1 DEF AwaitsUpdate, Updating
    <3> QED
      BY <1>4, <3>1, <3>2, <3>3, <3>4 DEF queue
  <2>3. CASE \E c \in Found :
               /\ list[l].conn = None /\ ~conn[c].locUpd
               /\ SendOn(l, [lst EXCEPT !.paging = FALSE, !.conn = c], c)
               /\ ue' = u /\ conn' = UsageOn(c)
               /\ UNCHANGED pager
    <3>1. PICK c \in Found :
               /\ list[l].conn = None
               /\ SendOn(l, [lst EXCEPT !.paging = FALSE, !.conn = c], c)
               /\ ue' = u /\ conn' = UsageOn(c)
      BY <2>3
    <3>2. c \in Conn /\ c \in Candidates /\ conn[c].state = "up"
      BY DEF Found, Candidates
    <3> DEFINE x == [lst EXCEPT !.paging = FALSE, !.conn = c]
    <3> HIDE DEF lst
    <3>3. x \in Lists /\ x.conn = c /\ x.queue = queue /\ x.check = list[l].check
      BY <1>6, <3>2 DEF Lists
    <3> HIDE DEF x
    <3>4. SendOn(l, x, c)
      BY <3>1 DEF x
    <3>5. /\ \A k \in List : k # l => list'[k] = list[k]
          /\ list'[l].queue = queue /\ list'[l].check = list[l].check
          /\ list'[l].conn = c
          /\ \A s \in Sms : /\ sms'[s].active = sms[s].active
                            /\ sms[s].sent => sms'[s].sent
          /\ \A d \in Conn : /\ link[d] \in {"asked", "down"} => link'[d] = link[d]
                             /\ link'[d] = "down" => link[d] = "down"
          /\ \/ sms'[Head(queue)].sent
             \/ link'[c] \in {"none", "asked", "down"}
      BY <1>10, <3>2, <3>3, <3>4, SendOnSees
    <3>6. link'[c] # "none"
      BY <1>5, <3>2 DEF Inv, OpensOnce
    <3>7. Unsent(l)' => Connects(l)'
      BY <1>7, <1>8, <1>10, <3>2, <3>5, <3>6 DEF Connects, Establishing
    <3>8. \A d \in Conn : /\ conn'[d].state = conn[d].state
                          /\ conn'[d].ue = conn[d].ue
                          /\ conn'[d].locUpd = conn[d].locUpd
      BY <1>1, <3>1, <3>2 DEF UsageOn, Connections
    <3> QED
      BY <1>4, <1>5, <3>1, <3>2, <3>5, <3>7, <3>8 DEF queue
  <2>4. CASE /\ list[l].conn # None
             /\ SendOn(l, [lst EXCEPT !.paging = FALSE], list[l].conn)
             /\ ue' = u
             /\ UNCHANGED <<conn, pager>>
    <3> DEFINE x == [lst EXCEPT !.paging = FALSE]
               c == list[l].conn
    <3>1. c \in Conn
      BY <1>1, <2>4 DEF Lists
    <3> HIDE DEF lst
    <3>2. x \in Lists /\ x.conn = c /\ x.queue = queue /\ x.check = list[l].check
      BY <1>6 DEF Lists
    <3> HIDE DEF x, c
    <3>3. SendOn(l, x, c)
      BY <2>4 DEF x, c
    <3>4. /\ \A k \in List : k # l => list'[k] = list[k]
          /\ list'[l].queue = queue /\ list'[l].check = list[l].check
          /\ list'[l].conn = c
          /\ \A s \in Sms : /\ sms'[s].active = sms[s].active
                            /\ sms[s].sent => sms'[s].sent
          /\ \A d \in Conn : /\ link[d] \in {"asked", "down"} => link'[d] = link[d]
                             /\ link'[d] = "down" => link[d] = "down"
          /\ \/ sms'[Head(queue)].sent
             \/ link'[c] \in {"none", "asked", "down"}
      BY <1>10, <3>1, <3>2, <3>3, SendOnSees
    <3>5. link'[c] = "none" => conn'[c].state = "none"
      BY <3>1 DEF Inv, OpensOnce
    <3>6. Unsent(l)' => Connects(l)'
      BY <1>7, <1>8, <1>10, <3>1, <3>4, <3>5 DEF Connects, Establishing
    <3> QED
      BY <1>4, <1>5, <2>4, <3>4, <3>6 DEF queue, c
  <2> QED
    BY <1>10, <2>1, <2>2, <2>3, <2>4 DEF checkMtSms, queue, u
<1> QED
  BY <1>9, <1>10

LEMMA Types ==
  ASSUME Inv
  PROVE  /\ pc \in [Sms -> Pcs] /\ mine \in [Sms -> Sms \cup {None}]
         /\ sms \in [Sms -> Messages] /\ table \in Sms \cup {None}
         /\ list \in [Sms -> Lists] /\ conn \in [Conn -> Connections]
         /\ ue \in [cnt: Nat, paging: BOOLEAN]
         /\ toYate \in Seq(Events) /\ sig \in Seq(Work) /\ aside \in [Conn -> WorkAside]
         /\ link \in [Conn -> {"none", "up", "asked", "down"}]
         /\ List = Sms /\ None \notin Sms /\ None \notin Conn
         /\ \A l \in Sms : list[l].queue \in Seq(Sms) /\ list[l].conn \in Conn \cup {None}
         /\ \A l \in Sms : \A s \in Queued(l) : s \in Sms
         /\ \A i \in 1 .. Len(sig) : sig[i].list \in Sms \cup {None}
<1>1. /\ pc \in [Sms -> Pcs] /\ mine \in [Sms -> Sms \cup {None}]
      /\ sms \in [Sms -> Messages] /\ table \in Sms \cup {None}
      /\ list \in [Sms -> Lists] /\ conn \in [Conn -> Connections]
      /\ ue \in [cnt: Nat, paging: BOOLEAN]
      /\ toYate \in Seq(Events) /\ sig \in Seq(Work) /\ aside \in [Conn -> WorkAside]
      /\ link \in [Conn -> {"none", "up", "asked", "down"}]
      /\ List = Sms /\ None \notin Sms
  BY MtSmsAssumption DEF Inv, TypeOK, YateTyped, RadioTyped, List
<1>2. None \notin Conn
  BY MtSmsAssumption DEF Conn
<1>3. \A l \in Sms : list[l].queue \in Seq(Sms) /\ list[l].conn \in Conn \cup {None}
  BY <1>1 DEF Lists
<1>4. \A l \in Sms : \A s \in Queued(l) : s \in Sms
  BY <1>3 DEF Queued
<1>5. \A i \in 1 .. Len(sig) : sig[i].list \in Sms \cup {None}
  <2> DEFINE W == Work
  <2>1. sig \in Seq(W)
    BY <1>1
  <2>2. \A w \in W : w.list \in Sms \cup {None}
    BY <1>1 DEF Work
  <2> HIDE DEF W
  <2> QED
    BY <2>1, <2>2
<1> QED
  BY <1>1, <1>2, <1>3, <1>4, <1>5

LEMMA BegunStays ==
  ASSUME Inv, Inv', Begun, Owned,
         \A s \in Sms : /\ pc[s] # "idle" => pc'[s] # "idle"
                        /\ pc[s] \notin {"idle", "found"} => pc'[s] \notin {"idle", "found"},
         UNCHANGED mine, table' \in {table, None},
         \A l \in List : /\ Queued(l)' \subseteq Queued(l)
                         /\ list'[l].conn # None => list[l].conn # None \/ pc[l] # "idle",
         \A j \in 1 .. Len(sig') :
           \/ sig'[j].list \in {None, table}
           \/ \E i \in 1 .. Len(sig) : sig'[j].list = sig[i].list
  PROVE  Begun' /\ Owned'
<1>1. /\ \A s \in Sms : mine[s] \in List \cup {None}
      /\ table \in List \cup {None} /\ List = Sms
      /\ \A l \in List : \A s \in Queued(l) : s \in Sms
      /\ \A i \in 1 .. Len(sig) : sig[i].list \in List \cup {None}
  BY Types
<1>3. table' # None => pc'[table'] # "idle"
  BY <1>1 DEF Begun
<1>4. \A s \in Sms : mine'[s] # None => pc'[mine'[s]] # "idle"
  BY <1>1 DEF Begun
<1>5. ASSUME NEW j \in 1 .. Len(sig'), sig'[j].list # None
      PROVE  pc'[sig'[j].list] # "idle"
  BY <1>1, <1>5 DEF Begun
<1>6. \A l \in List : pc'[l] = "idle" => list'[l].conn = None
  BY <1>1 DEF Begun
<1>7. Owned'
  <2> SUFFICES ASSUME NEW l \in List, NEW s \in Queued(l)'
               PROVE  mine'[s] = l /\ pc'[s] \notin {"idle", "found"}
    BY DEF Owned
  <2>1. s \in Queued(l) /\ s \in Sms
    BY <1>1
  <2> QED
    BY <2>1 DEF Owned
<1> QED
  BY <1>3, <1>4, <1>5, <1>6, <1>7 DEF Begun

LEMMA QueuedStays ==
  ASSUME NEW l, list'[l].queue = list[l].queue
  PROVE  Queued(l)' = Queued(l)
BY DEF Queued

LEMMA UnsentStays ==
  ASSUME NEW l, list'[l].queue = list[l].queue,
         \A s \in Queued(l) : /\ sms'[s].active <=> sms[s].active
                              /\ sms[s].sent => sms'[s].sent
  PROVE  Unsent(l)' => Unsent(l)
<1> SUFFICES ASSUME NEW k \in 1 .. Len(list[l].queue), First(l, k)',
                    ~sms'[list[l].queue[k]].sent
             PROVE  First(l, k) /\ ~sms[list[l].queue[k]].sent
  BY DEF Unsent
<1>1. \A j \in 1 .. Len(list[l].queue) : list[l].queue[j] \in Queued(l)
  BY DEF Queued
<1>2. ASSUME NEW j \in 1 .. k - 1
      PROVE  ~sms[list[l].queue[j]].active
  <2>1. j \in 1 .. Len(list[l].queue)
    OBVIOUS
  <2> QED
    BY <1>1, <2>1 DEF First
<1> QED
  BY <1>1, <1>2 DEF First

LEMMA SeenStays ==
  ASSUME NEW l, Seen(l), list'[l].queue = list[l].queue,
         list'[l].conn = list[l].conn,
         list[l].paging /\ ue.paging => list'[l].paging /\ ue'.paging,
         list[l].check => list'[l].check, list[l].lapsed => list'[l].lapsed,
         \A s \in Sms : mine[s] = l /\ pc[s] \in {"appended", "check"} =>
                          mine'[s] = l /\ pc'[s] \in {"appended", "check"},
         \A s \in Queued(l) : mine[s] = l /\ pc[s] = "ended" =>
                                mine'[s] = l /\ pc'[s] = "ended",
         SigLooks(l) => SigLooks(l)', Resetting(l) => Resetting(l)',
         \A c : list[l].conn = c /\ c # None /\ Establishing(c) => Establishing(c)',
         list[l].conn = None =>
           \A c \in Conn : Updating(c) => Updating(c)'
  PROVE  Seen(l)'
<1>1. Queued(l)' = Queued(l)
  BY QueuedStays
<1>2. ThreadLooks(l) => ThreadLooks(l)'
  BY DEF ThreadLooks
<1>3. ThreadLeaves(l) => ThreadLeaves(l)'
  BY <1>1 DEF ThreadLeaves
<1>4. Paged(l) => Paged(l)'
  BY DEF Paged
<1>5. Connects(l) => Connects(l)'
  BY DEF Connects
<1>6. AwaitsUpdate(l) => AwaitsUpdate(l)'
  BY DEF AwaitsUpdate
<1> QED
  BY <1>2, <1>3, <1>4, <1>5, <1>6 DEF Seen

LEMMA HasConnStays ==
  ASSUME Inv, HasConn, table' \in {table, None},
         \A l \in List : \A c \in Conn : table = l /\ list'[l].conn = c =>
           /\ list[l].conn = c
           /\ Releasing(c) => Releasing(c)' \/ Resetting(l)'
           /\ Resetting(l) => Resetting(l)',
         \A c \in Conn :
           /\ conn[c].ue => conn'[c].ue
           /\ conn[c].state # "none" => conn'[c].state # "none"
           /\ conn'[c].state = "removed" => conn[c].state = "removed" \/ Releasing(c)'
  PROVE  HasConn'
<1> SUFFICES ASSUME NEW l \in List, NEW c \in Conn, table' = l, list'[l].conn = c
             PROVE  /\ conn'[c].ue /\ conn'[c].state # "none"
                    /\ conn'[c].state = "removed" => Releasing(c)' \/ Resetting(l)'
  BY DEF HasConn
<1>1. table = l
  BY Types
<1> QED
  BY <1>1 DEF HasConn

LEMMA WatchedIf ==
  ASSUME Inv', \A l \in List : table' = l /\ Unsent(l)' => Seen(l)'
  PROVE  Watched'
<1> SUFFICES ASSUME table' # None, Unsent(table)'
             PROVE  Seen(table)'
  BY DEF Watched
<1>1. PICK l \in List : table' = l
  BY DEF Inv, TypeOK, YateTyped
<1>2. Unsent(l)'
  BY <1>1 DEF Unsent, First
<1> QED
  BY <1>1, <1>2 DEF Seen, ThreadLooks, ThreadLeaves, SigLooks, Resetting, Paged, Connects,
     AwaitsUpdate, Queued, Establishing

(* The steps that leave the connections, the work and the events alone.    *)
LEMMA NothingTold ==
  ASSUME UNCHANGED <<sig, aside, toYate>>
  PROVE  /\ \A l : SigLooks(l)' <=> SigLooks(l)
         /\ \A l : Resetting(l)' <=> Resetting(l)
         /\ \A c : Releasing(c)' <=> Releasing(c)
         /\ \A type, c : Told(type, c)' <=> Told(type, c)
         /\ \A j \in 1 .. Len(sig') : \E i \in 1 .. Len(sig) : sig'[j].list = sig[i].list
BY DEF SigLooks, Releasing, Resetting, Told

-----------------------------------------------------------------------------
(* The thread of a message.                                                *)

LEMMA FindListWatch ==
  ASSUME Inv, Inv', WatchInv, NEW s \in Sms, FindList(s)
  PROVE  WatchInv'
<1>1. /\ pc[s] = "idle" /\ pc' = [pc EXCEPT ![s] = "found"]
      /\ table' = IF table # None THEN table ELSE s
      /\ mine' = [mine EXCEPT ![s] = table']
      /\ UNCHANGED <<sms, list, ue, conn, sig, aside, toYate, link>>
  BY DEF FindList, radio
<1>2. /\ pc \in [Sms -> Pcs] /\ mine \in [Sms -> List \cup {None}]
      /\ table \in List \cup {None} /\ List = Sms /\ None \notin Sms
      /\ list \in [List -> Lists]
      /\ \A l \in List : \A t \in Queued(l) : t \in Sms
  BY Types
<1>3. Watched /\ HasConn /\ Begun /\ Owned /\ LossTold
  BY DEF WatchInv
<1>4. /\ \A t \in Sms : t # s => pc'[t] = pc[t] /\ mine'[t] = mine[t]
      /\ pc'[s] = "found" /\ mine'[s] = table'
      /\ table' # None /\ table' \in List
  BY <1>1, <1>2
<1>5. table = None => Queued(s) = {} /\ list[s].conn = None /\ table' = s
  <2> SUFFICES ASSUME table = None, NEW t \in Queued(s)
               PROVE  FALSE
    BY <1>1, <1>2, <1>3 DEF Begun
  <2>1. t \in Sms /\ mine[t] = s
    BY <1>2, <1>3 DEF Owned
  <2> QED
    BY <1>1, <1>2, <1>3, <2>1 DEF Begun
<1>6. Watched'
  <2> SUFFICES ASSUME NEW l \in List, table' = l, Unsent(l)'
               PROVE  Seen(l)'
    BY WatchedIf
  <2>1. Unsent(l)
    BY <1>1, UnsentStays
  <2>2. CASE table = None
    <3>1. Queued(l) = {}
      BY <1>5, <2>2
    <3> QED
      BY <2>1, <3>1 DEF Unsent, Queued
  <2>3. CASE table # None
    <3>1. Seen(l)
      BY <1>1, <1>3, <2>1, <2>3 DEF Watched
    <3>2. /\ \A t \in Sms : mine[t] = l /\ pc[t] \in {"appended", "check"} =>
                              mine'[t] = l /\ pc'[t] \in {"appended", "check"}
          /\ \A t \in Queued(l) : mine[t] = l /\ pc[t] = "ended" =>
                                   mine'[t] = l /\ pc'[t] = "ended"
      BY <1>1, <1>2, <1>4
    <3>3. (SigLooks(l) => SigLooks(l)') /\ (Resetting(l) => Resetting(l)')
      BY <1>1, NothingTold
    <3>4. \A c \in Conn : Updating(c) => Updating(c)'
      BY <1>1, NothingTold DEF Updating
    <3>5. \A c : Establishing(c) => Establishing(c)'
      BY <1>1, NothingTold DEF Establishing
    <3> QED
      BY <1>1, <3>1, <3>2, <3>3, <3>4, <3>5, SeenStays
  <2> QED
    BY <2>2, <2>3
<1>7. HasConn'
  <2> SUFFICES ASSUME NEW l \in List, NEW c \in Conn, table' = l, list[l].conn = c
               PROVE  /\ conn[c].ue /\ conn[c].state # "none"
                      /\ conn[c].state = "removed" => Releasing(c)' \/ Resetting(l)'
    BY <1>1 DEF HasConn
  <2>1. table = l
    BY <1>1, <1>5, Types
  <2> QED
    BY <1>1, <1>3, <2>1, NothingTold DEF HasConn
<1>8. Begun'
  <2>1. \A t \in Sms : pc[t] # "idle" => pc'[t] # "idle"
    BY <1>1, <1>4
  <2>2. table' # None => pc'[table'] # "idle"
    BY <1>1, <1>2, <1>3, <1>4, <2>1 DEF Begun
  <2>3. \A t \in Sms : mine'[t] # None => pc'[mine'[t]] # "idle"
    BY <1>2, <1>3, <1>4, <2>1, <2>2 DEF Begun
  <2>4. \A i \in 1 .. Len(sig) : sig[i].list \in List \cup {None}
    BY Types
  <2>5. \A i \in 1 .. Len(sig') : sig'[i].list # None => pc'[sig'[i].list] # "idle"
    BY <1>1, <1>2, <1>3, <2>1, <2>4 DEF Begun
  <2>6. \A l \in List : pc'[l] = "idle" => list'[l].conn = None
    BY <1>1, <1>2, <1>3, <2>1 DEF Begun
  <2> QED
    BY <2>2, <2>3, <2>5, <2>6 DEF Begun
<1>9. Owned'
  <2> SUFFICES ASSUME NEW l \in List, NEW t \in Queued(l)'
               PROVE  mine'[t] = l /\ pc'[t] \notin {"idle", "found"}
    BY DEF Owned
  <2>1. t \in Queued(l) /\ t \in Sms
    BY <1>1, <1>2, QueuedStays
  <2> QED
    BY <1>1, <1>3, <1>4, <2>1 DEF Owned
<1>10. LossTold'
  BY <1>1, <1>3, LossStays
<1> QED
  BY <1>6, <1>7, <1>8, <1>9, <1>10 DEF WatchInv

(* Whoever runs checkMtSms sees to list l, and leaves the others alone.    *)
LEMMA CheckWatch ==
  ASSUME Inv, Inv', WatchInv, NEW l \in List, checkMtSms(l), pc[l] # "idle",
         UNCHANGED <<mine, table, toYate>>,
         \A s \in Sms :
           /\ pc[s] # "idle" => pc'[s] # "idle"
           /\ pc[s] \notin {"idle", "found"} => pc'[s] \notin {"idle", "found"}
           /\ mine[s] # l => pc'[s] = pc[s],
         \A k \in List : /\ k # l /\ SigLooks(k) => SigLooks(k)'
                         /\ Resetting(k) => Resetting(k)',
         \A c \in Conn : Releasing(c) => Releasing(c)',
         \A j \in 1 .. Len(sig') :
           \/ sig'[j].list = l
           \/ \E i \in 1 .. Len(sig) : sig'[j].list = sig[i].list
  PROVE  WatchInv'
<1>1. /\ \A k \in List : k # l => list'[k] = list[k]
      /\ list'[l].queue = Pending(l) /\ list'[l].check = list[l].check
      /\ \A s \in Sms : /\ sms'[s].active = sms[s].active
                        /\ sms[s].sent => sms'[s].sent
      /\ ue.paging => ue'.paging
      /\ \A d \in Conn : /\ conn'[d].state = conn[d].state
                         /\ conn'[d].ue = conn[d].ue
                         /\ conn'[d].locUpd = conn[d].locUpd
      /\ \A d \in Conn : /\ link[d] \in {"asked", "down"} => link'[d] = link[d]
                         /\ link'[d] = "down" => link[d] = "down"
                         /\ link'[d] # "none" => link[d] # "none"
      /\ list'[l].conn = list[l].conn \/ list'[l].conn \in Candidates
      /\ Unsent(l)' => Paged(l)' \/ Connects(l)' \/ AwaitsUpdate(l)'
  BY CheckSees
<1>2. Watched /\ HasConn /\ Begun /\ Owned /\ LossTold
  BY DEF WatchInv
<1>3. /\ table \in List \cup {None} /\ List = Sms /\ None \notin Sms /\ None \notin Conn
      /\ \A s \in Sms : mine[s] \in List \cup {None}
      /\ \A k \in List : list[k].queue \in Seq(Sms) /\ list[k].conn \in Conn \cup {None}
      /\ \A k \in List : \A t \in Queued(k) : t \in Sms
      /\ \A i \in 1 .. Len(sig) : sig[i].list \in List \cup {None}
  BY Types
<1>4. \A type, c : Told(type, c)' <=> Told(type, c)
  BY DEF Told
<1>5. Watched'
  <2> SUFFICES ASSUME NEW k \in List, table' = k, Unsent(k)'
               PROVE  Seen(k)'
    BY WatchedIf
  <2>1. CASE k = l
    BY <1>1, <2>1 DEF Seen
  <2>2. CASE k # l
    <3>1. list'[k] = list[k]
      BY <1>1, <2>2
    <3>2. Unsent(k)
      BY <1>1, <1>3, <3>1, UnsentStays
    <3>3. Seen(k)
      BY <1>2, <1>3, <3>2 DEF Watched
    <3>4. \A c \in Conn : Establishing(c) => Establishing(c)'
      BY <1>1, <1>4 DEF Establishing
    <3>5. \A c \in Conn : Updating(c) => Updating(c)'
      BY <1>1 DEF Updating
    <3>6. /\ \A t \in Sms : mine[t] = k /\ pc[t] \in {"appended", "check"} =>
                              mine'[t] = k /\ pc'[t] \in {"appended", "check"}
          /\ \A t \in Queued(k) : mine[t] = k /\ pc[t] = "ended" =>
                                   mine'[t] = k /\ pc'[t] = "ended"
      BY <1>3, <2>2
    <3> QED
      BY <1>1, <1>3, <2>2, <3>1, <3>3, <3>4, <3>5, <3>6, SeenStays
  <2> QED
    BY <2>1, <2>2
<1>6. HasConn'
  <2> SUFFICES ASSUME NEW k \in List, NEW c \in Conn, table = k, list'[k].conn = c
               PROVE  /\ conn[c].ue /\ conn[c].state # "none"
                      /\ conn[c].state = "removed" => Releasing(c)' \/ Resetting(k)'
    BY <1>1 DEF HasConn
  <2>1. CASE list[k].conn = c
    BY <1>2, <2>1 DEF HasConn
  <2>2. CASE list[k].conn # c
    BY <1>1, <1>3, <2>2 DEF Candidates
  <2> QED
    BY <2>1, <2>2
<1>7. Begun' /\ Owned'
  <2>1. Queued(l)' \subseteq Queued(l)
    <3>1. CASE Pending(l) = <<>>
      <4>1. list'[l].queue = <<>>
        BY <1>1, <3>1
      <4> QED
        BY <4>1 DEF Queued
    <3>2. CASE Pending(l) # <<>>
      <4>1. \A i \in 1 .. Len(Pending(l)) :
              \E j \in 1 .. Len(list[l].queue) : list[l].queue[j] = Pending(l)[i]
        BY <1>3, <3>2, PendingIsFirst
      <4> QED
        BY <1>1, <4>1 DEF Queued
    <3> QED
      BY <3>1, <3>2
  <2>2. \A k \in List : k # l => Queued(k)' = Queued(k)
    BY <1>1, QueuedStays
  <2>3. /\ \A k \in List : Queued(k)' \subseteq Queued(k)
        /\ \A k \in List : list'[k].conn # None => list[k].conn # None \/ pc[k] # "idle"
    BY <1>1, <2>1, <2>2
  <2>4. table' # None => pc'[table'] # "idle"
    BY <1>2, <1>3 DEF Begun
  <2>5. \A s \in Sms : mine'[s] # None => pc'[mine'[s]] # "idle"
    BY <1>2, <1>3 DEF Begun
  <2>6. \A j \in 1 .. Len(sig') : sig'[j].list # None => pc'[sig'[j].list] # "idle"
    BY <1>2, <1>3 DEF Begun
  <2>7. \A k \in List : pc'[k] = "idle" => list'[k].conn = None
    BY <1>2, <1>3, <2>3 DEF Begun
  <2>8. Owned'
    <3> SUFFICES ASSUME NEW k \in List, NEW s \in Queued(k)'
                 PROVE  mine'[s] = k /\ pc'[s] \notin {"idle", "found"}
      BY DEF Owned
    <3>1. s \in Queued(k) /\ s \in Sms
      BY <1>3, <2>3
    <3> QED
      BY <1>2, <3>1 DEF Owned
  <2> QED
    BY <2>4, <2>5, <2>6, <2>7, <2>8 DEF Begun
<1>8. LossTold'
  BY <1>1, <1>2, LossStays
<1> QED
  BY <1>5, <1>6, <1>7, <1>8 DEF WatchInv

LEMMA CheckByThreadWatch ==
  ASSUME Inv, Inv', WatchInv, NEW s \in Sms, CheckByThread(s)
  PROVE  WatchInv'
<1>1. /\ pc' = [pc EXCEPT ![s] = "wait"] /\ pc[s] \in {"appended", "check"}
      /\ checkMtSms(mine[s]) /\ UNCHANGED <<mine, table, sig, aside, toYate>>
  BY DEF CheckByThread
<1>2. mine[s] \in List /\ pc \in [Sms -> Pcs]
  BY <1>1 DEF Inv, TypeOK, YateTyped, Placed
<1>3. pc[mine[s]] # "idle"
  BY <1>2, Types DEF WatchInv, Begun
<1>4. \A t \in Sms :
        /\ pc[t] # "idle" => pc'[t] # "idle"
        /\ pc[t] \notin {"idle", "found"} => pc'[t] \notin {"idle", "found"}
        /\ mine[t] # mine[s] => pc'[t] = pc[t]
  BY <1>1, <1>2
<1>5. /\ \A k \in List : /\ SigLooks(k) => SigLooks(k)'
                         /\ Resetting(k) => Resetting(k)'
      /\ \A c \in Conn : Releasing(c) => Releasing(c)'
      /\ \A j \in 1 .. Len(sig') : \E i \in 1 .. Len(sig) : sig'[j].list = sig[i].list
  BY <1>1, NothingTold
<1> QED
  BY <1>1, <1>2, <1>3, <1>4, <1>5, CheckWatch

(* The other steps of Yate that read no event.                             *)
LEMMA StepWatch ==
  ASSUME Inv, Inv', WatchInv, UNCHANGED <<mine, toYate>>, table' \in {table, None},
         \A s \in Sms : /\ pc[s] # "idle" => pc'[s] # "idle"
                        /\ pc[s] \notin {"idle", "found"} => pc'[s] \notin {"idle", "found"}
                        /\ pc[s] \in {"appended", "check"} => pc'[s] \in {"appended", "check"},
         \A l \in List :
           /\ Queued(l)' \subseteq Queued(l)
           /\ list'[l].conn # None => list'[l].conn = list[l].conn,
         \A c \in Conn :
           /\ conn'[c].state = conn[c].state \/ (conn'[c].state = "removed" /\ Releasing(c)')
           /\ conn'[c].locUpd = conn[c].locUpd /\ (conn[c].ue => conn'[c].ue)
           /\ link'[c] = link[c] \/ (link'[c] = "down" /\ link[c] # "none"
                                      /\ conn'[c].state = "removed"),
         \A l \in List : \A c \in Conn : table = l /\ list'[l].conn = c =>
           /\ Releasing(c) => Releasing(c)' \/ Resetting(l)'
           /\ Resetting(l) => Resetting(l)',
         \A j \in 1 .. Len(sig') :
           \/ sig'[j].list \in {None, table}
           \/ \E i \in 1 .. Len(sig) : sig'[j].list = sig[i].list,
         \A l \in List : table' = l /\ Unsent(l)' =>
           \/ Seen(l)'
           \/ /\ Unsent(l)
              /\ list'[l].queue = list[l].queue /\ list'[l].conn = list[l].conn
              /\ list[l].paging /\ ue.paging => list'[l].paging /\ ue'.paging
              /\ list[l].check => list'[l].check
              /\ list[l].lapsed => list'[l].lapsed
              /\ \A s \in Queued(l) : pc[s] = "ended" => pc'[s] = "ended"
              /\ SigLooks(l) => SigLooks(l)'
              /\ Resetting(l) => Resetting(l)'
              /\ list[l].conn = None => \A c \in Conn : Updating(c) => Updating(c)'
  PROVE  WatchInv'
<1>1. Watched /\ HasConn /\ Begun /\ Owned /\ LossTold
  BY DEF WatchInv
<1>2. \A type, c : Told(type, c) => Told(type, c)'
  BY DEF Told
<1>3. /\ List = Sms /\ None \notin Sms /\ None \notin Conn
      /\ table \in List \cup {None}
      /\ \A l \in List : list[l].conn \in Conn \cup {None}
      /\ \A l \in List : \A s \in Queued(l) : s \in Sms
  BY Types
<1>4. \A c \in Conn : Establishing(c) => Establishing(c)'
  BY <1>2 DEF Establishing
<1>5. Watched'
  <2> SUFFICES ASSUME NEW l \in List, table' = l, Unsent(l)', ~Seen(l)'
               PROVE  FALSE
    BY WatchedIf
  <2>1. /\ Unsent(l)
        /\ list'[l].queue = list[l].queue /\ list'[l].conn = list[l].conn
        /\ list[l].paging /\ ue.paging => list'[l].paging /\ ue'.paging
        /\ list[l].check => list'[l].check
        /\ list[l].lapsed => list'[l].lapsed
        /\ \A s \in Queued(l) : pc[s] = "ended" => pc'[s] = "ended"
        /\ SigLooks(l) => SigLooks(l)'
        /\ Resetting(l) => Resetting(l)'
        /\ list[l].conn = None => \A c \in Conn : Updating(c) => Updating(c)'
    OBVIOUS
  <2>2. table = l /\ table # None
    BY <1>3
  <2>3. Seen(l)
    BY <1>1, <2>1, <2>2 DEF Watched
  <2>4. /\ \A s \in Sms : mine[s] = l /\ pc[s] \in {"appended", "check"} =>
                             mine'[s] = l /\ pc'[s] \in {"appended", "check"}
        /\ \A s \in Queued(l) : mine[s] = l /\ pc[s] = "ended" =>
                                  mine'[s] = l /\ pc'[s] = "ended"
        /\ \A c : list[l].conn = c /\ c # None /\ Establishing(c) => Establishing(c)'
    BY <1>3, <1>4, <2>1
  <2> QED
    BY <2>1, <2>3, <2>4, SeenStays
<1>6. HasConn'
  <2>1. \A l \in List : \A c \in Conn : table = l /\ list'[l].conn = c =>
          /\ list[l].conn = c
          /\ Releasing(c) => Releasing(c)' \/ Resetting(l)'
          /\ Resetting(l) => Resetting(l)'
    BY <1>3
  <2>2. \A c \in Conn :
          /\ conn[c].ue => conn'[c].ue
          /\ conn[c].state # "none" => conn'[c].state # "none"
          /\ conn'[c].state = "removed" => conn[c].state = "removed" \/ Releasing(c)'
    OBVIOUS
  <2> QED
    BY <1>1, <2>1, <2>2, HasConnStays
<1>7. Begun' /\ Owned'
  BY <1>1, <1>3, BegunStays
<1>8. LossTold'
  BY <1>1, LossStays
<1> QED
  BY <1>5, <1>6, <1>7, <1>8 DEF WatchInv

LEMMA TakeCheckWatch ==
  ASSUME Inv, Inv', WatchInv, NEW s \in Sms, TakeCheck(s)
  PROVE  WatchInv'
<1>1. /\ pc[s] = "wait" /\ pc' = [pc EXCEPT ![s] = "check"]
      /\ list' = [list EXCEPT ![mine[s]].check = FALSE]
      /\ UNCHANGED <<mine, sms, table, ue, conn, sig, aside, toYate, link>>
  BY DEF TakeCheck, radio
<1>2. /\ pc \in [Sms -> Pcs] /\ list \in [Sms -> Lists] /\ List = Sms
  BY Types
<1>3. mine[s] \in List
  BY <1>1 DEF Inv, TypeOK, Placed
<1>4. \A l \in List :
        /\ list'[l].queue = list[l].queue /\ list'[l].conn = list[l].conn
        /\ list'[l].paging = list[l].paging /\ list'[l].lapsed = list[l].lapsed
        /\ l # mine[s] => list'[l].check = list[l].check
  BY <1>1, <1>2, <1>3 DEF Lists
<1>5. \A l \in List : Queued(l)' = Queued(l)
  BY <1>4, QueuedStays
<1>6. \A l \in List : l = mine[s] => Seen(l)'
  <2> SUFFICES ASSUME NEW l \in List, l = mine[s]
               PROVE  Seen(l)'
    OBVIOUS
  <2>1. ThreadLooks(l)'
    BY <1>1, <1>2 DEF ThreadLooks
  <2> QED
    BY <2>1 DEF Seen
<1>7. \A l \in List : Unsent(l)' => Unsent(l)
  BY <1>1, <1>4, UnsentStays
<1>8. /\ \A t \in Sms : /\ pc[t] # "idle" => pc'[t] # "idle"
                        /\ pc[t] \notin {"idle", "found"} => pc'[t] \notin {"idle", "found"}
                        /\ pc[t] \in {"appended", "check"} => pc'[t] \in {"appended", "check"}
                        /\ pc[t] = "ended" => pc'[t] = "ended"
      /\ \A l \in List : \A t \in Queued(l) : t \in Sms
  BY <1>1, <1>2, Types
<1>9. /\ \A l \in List : /\ SigLooks(l) => SigLooks(l)'
                         /\ Resetting(l) => Resetting(l)'
      /\ \A c \in Conn : Releasing(c) => Releasing(c)'
      /\ \A c \in Conn : Updating(c) => Updating(c)'
      /\ \A j \in 1 .. Len(sig') : \E i \in 1 .. Len(sig) : sig'[j].list = sig[i].list
  BY <1>1, NothingTold DEF Updating
<1> QED
  BY <1>1, <1>4, <1>5, <1>6, <1>7, <1>8, <1>9, StepWatch

LEMMA AppendSmsWatch ==
  ASSUME Inv, Inv', WatchInv, NEW s \in Sms, AppendSms(s)
  PROVE  WatchInv'
<1>1. PICK l \in List : mine[s] = l
  BY DEF AppendSms, Inv, TypeOK, Placed
<1>2. /\ pc[s] = "found" /\ pc' = [pc EXCEPT ![s] = "appended"]
      /\ list' = [list EXCEPT ![l].queue = Append(@, s)]
      /\ UNCHANGED <<mine, sms, table, ue, conn, sig, aside, toYate, link>>
  BY <1>1 DEF AppendSms, radio
<1>3. /\ pc \in [Sms -> Pcs] /\ list \in [Sms -> Lists] /\ List = Sms
      /\ table \in Sms \cup {None} /\ None \notin Sms /\ None \notin Conn
      /\ mine \in [Sms -> Sms \cup {None}]
      /\ \A k \in Sms : list[k].queue \in Seq(Sms) /\ list[k].conn \in Conn \cup {None}
      /\ \A k \in Sms : \A t \in Queued(k) : t \in Sms
      /\ \A i \in 1 .. Len(sig) : sig[i].list \in Sms \cup {None}
  BY Types
<1>4. Watched /\ HasConn /\ Begun /\ Owned /\ LossTold
  BY DEF WatchInv
<1>5. /\ pc'[s] = "appended" /\ \A t \in Sms : t # s => pc'[t] = pc[t]
      /\ \A t \in Sms : pc[t] # "idle" => pc'[t] # "idle"
  BY <1>2, <1>3
<1>6. /\ list'[l].queue = Append(list[l].queue, s)
      /\ \A k \in List : k # l => list'[k] = list[k]
      /\ \A k \in List : list'[k].conn = list[k].conn
  BY <1>2, <1>3 DEF Lists
<1>7. \A t \in Queued(l)' : t = s \/ t \in Queued(l)
  <2>1. list[l].queue \in Seq(Sms)
    BY <1>3
  <2>2. ASSUME NEW i \in 1 .. Len(Append(list[l].queue, s))
        PROVE  Append(list[l].queue, s)[i] = s \/ Append(list[l].queue, s)[i] \in Queued(l)
    <3>1. i = Len(list[l].queue) + 1 \/ i \in 1 .. Len(list[l].queue)
      BY <2>1
    <3> QED
      BY <2>1, <3>1 DEF Queued
  <2> QED
    BY <1>6, <2>2 DEF Queued
<1>8. Watched'
  <2> SUFFICES ASSUME NEW k \in List, table' = k, Unsent(k)'
               PROVE  Seen(k)'
    BY WatchedIf
  <2>1. CASE k = l
    BY <1>1, <1>2, <1>5, <2>1 DEF Seen, ThreadLooks
  <2>2. CASE k # l
    <3>1. list'[k] = list[k]
      BY <1>6, <2>2
    <3>2. Unsent(k)
      BY <1>2, <3>1, UnsentStays
    <3>3. Seen(k)
      BY <1>2, <1>3, <1>4, <3>2 DEF Watched
    <3>4. /\ \A c : Establishing(c) => Establishing(c)'
          /\ \A c \in Conn : Updating(c) => Updating(c)'
          /\ SigLooks(k) => SigLooks(k)'
          /\ Resetting(k) => Resetting(k)'
      BY <1>2, NothingTold DEF Establishing, Updating
    <3>5. /\ \A t \in Sms : mine[t] = k /\ pc[t] \in {"appended", "check"} =>
                              mine'[t] = k /\ pc'[t] \in {"appended", "check"}
          /\ \A t \in Queued(k) : mine[t] = k /\ pc[t] = "ended" =>
                                   mine'[t] = k /\ pc'[t] = "ended"
      BY <1>1, <1>2, <1>3, <1>5, <2>2
    <3> QED
      BY <1>2, <3>1, <3>3, <3>4, <3>5, SeenStays
  <2> QED
    BY <2>1, <2>2
<1>9. Begun'
  BY <1>2, <1>3, <1>4, <1>5, <1>6 DEF Begun
<1>10. Owned'
  <2> SUFFICES ASSUME NEW k \in List, NEW t \in Queued(k)'
               PROVE  mine'[t] = k /\ pc'[t] \notin {"idle", "found"}
    BY DEF Owned
  <2>1. CASE k = l /\ t = s
    BY <1>1, <1>2, <1>5, <2>1
  <2>2. CASE ~(k = l /\ t = s)
    <3>1. t \in Queued(k)
      BY <1>6, <1>7, <2>2, QueuedStays
    <3>2. t \in Sms /\ mine[t] = k /\ pc[t] \notin {"idle", "found"}
      BY <1>3, <1>4, <3>1 DEF Owned
    <3> QED
      BY <1>2, <1>5, <3>2
  <2> QED
    BY <2>1, <2>2
<1>11. HasConn'
  <2>1. \A k \in List : \A c \in Conn : table = k /\ list'[k].conn = c =>
          /\ list[k].conn = c
          /\ Releasing(c) => Releasing(c)' \/ Resetting(k)'
          /\ Resetting(k) => Resetting(k)'
    BY <1>2, <1>6, NothingTold
  <2> QED
    BY <1>2, <1>4, <2>1, HasConnStays
<1>12. LossTold'
  BY <1>2, <1>4, LossStays
<1> QED
  BY <1>8, <1>9, <1>10, <1>11, <1>12 DEF WatchInv

LEMMA LeaveLoopWatch ==
  ASSUME Inv, Inv', WatchInv, NEW s \in Sms, LeaveLoop(s)
  PROVE  WatchInv'
<1>1. /\ pc[s] = "wait" /\ pc' = [pc EXCEPT ![s] = "ended"]
      /\ sms' = [sms EXCEPT ![s].active = FALSE]
      /\ UNCHANGED <<mine, table, list, ue, conn, sig, aside, toYate, link>>
  BY DEF LeaveLoop, radio
<1>2. /\ pc \in [Sms -> Pcs] /\ sms \in [Sms -> Messages] /\ List = Sms
      /\ \A k \in Sms : \A t \in Queued(k) : t \in Sms
      /\ \A k \in Sms : list[k].queue \in Seq(Sms)
      /\ table \in Sms \cup {None} /\ None \notin Sms
  BY Types
<1>3. Watched /\ Owned
  BY DEF WatchInv
<1>4. /\ pc'[s] = "ended" /\ \A t \in Sms : t # s => pc'[t] = pc[t]
      /\ \A t \in Sms : /\ pc[t] # "idle" => pc'[t] # "idle"
                        /\ pc[t] \notin {"idle", "found"} => pc'[t] \notin {"idle", "found"}
                        /\ pc[t] \in {"appended", "check"} => pc'[t] \in {"appended", "check"}
                        /\ pc[t] = "ended" => pc'[t] = "ended"
      /\ \A t \in Sms : t # s => sms'[t] = sms[t]
  BY <1>1, <1>2
<1>5. ASSUME NEW l \in List, s \in Queued(l)
      PROVE  Seen(l)'
  <2>1. Queued(l)' = Queued(l) /\ mine[s] = l
    BY <1>1, <1>3, <1>5, QueuedStays DEF Owned
  <2> QED
    BY <1>1, <1>4, <1>5, <2>1 DEF Seen, ThreadLeaves
<1>6. ASSUME NEW l \in List, s \notin Queued(l), Unsent(l)'
      PROVE  Unsent(l)
  BY <1>1, <1>2, <1>4, <1>6, UnsentStays
<1>7. \A l \in List : Queued(l)' = Queued(l)
  BY <1>1, QueuedStays
<1>8. ASSUME NEW l \in List, s \notin Queued(l)
      PROVE  \A t \in Queued(l) : pc[t] = "ended" => pc'[t] = "ended"
  BY <1>2, <1>4
<1>9. /\ \A l \in List : /\ SigLooks(l) => SigLooks(l)'
                         /\ Resetting(l) => Resetting(l)'
      /\ \A c \in Conn : Releasing(c) => Releasing(c)'
      /\ \A c \in Conn : Updating(c) => Updating(c)'
      /\ \A j \in 1 .. Len(sig') : \E i \in 1 .. Len(sig) : sig'[j].list = sig[i].list
  BY <1>1, NothingTold DEF Updating
<1> QED
  BY <1>1, <1>4, <1>5, <1>6, <1>7, <1>8, <1>9, StepWatch

LEMMA RemoveSmsWatch ==
  ASSUME Inv, Inv', WatchInv, NEW s \in Sms, RemoveSms(s)
  PROVE  WatchInv'
<1>1. PICK l \in List : mine[s] = l
  BY DEF RemoveSms, Inv, TypeOK, Placed
<1> DEFINE queue == RemoveFirst(list[l].queue, s)
           last == queue = <<>> /\ Holders(l) = {s} /\ ~SigHolds(l, sig) /\ ~HeldAside(l)
<1>2. /\ pc[s] = "ended"
      /\ table' = IF queue = <<>> /\ table = l THEN None ELSE table
      /\ IF last THEN Destroyed(l)
         ELSE /\ list' = [list EXCEPT ![l].queue = queue,
                                      ![l].lapsed = @ \/ queue # list[l].queue]
              /\ UNCHANGED <<ue, conn>>
      /\ \E to \in {"stopping", "done"} : pc' = [pc EXCEPT ![s] = to]
      /\ UNCHANGED <<mine, sms, sig, aside, toYate, link>>
  BY <1>1 DEF RemoveSms, radio
<1>3. /\ pc \in [Sms -> Pcs] /\ list \in [Sms -> Lists] /\ List = Sms
      /\ table \in Sms \cup {None} /\ None \notin Sms /\ None \notin Conn
      /\ conn \in [Conn -> Connections]
      /\ \A k \in Sms : list[k].queue \in Seq(Sms) /\ list[k].conn \in Conn \cup {None}
      /\ \A k \in Sms : \A t \in Queued(k) : t \in Sms
      /\ ue \in [cnt: Nat, paging: BOOLEAN]
  BY Types
<1>4. /\ queue \in Seq(Sms)
      /\ \A i \in 1 .. Len(queue) : \E j \in 1 .. Len(list[l].queue) : queue[i] = list[l].queue[j]
      /\ queue = list[l].queue <=> ~\E i \in 1 .. Len(list[l].queue) : list[l].queue[i] = s
  BY <1>3, RemovedKeeps
<1>5. /\ \A t \in Sms : t # s => pc'[t] = pc[t]
      /\ \A t \in Sms : /\ pc[t] # "idle" => pc'[t] # "idle"
                        /\ pc[t] \notin {"idle", "found"} => pc'[t] \notin {"idle", "found"}
                        /\ pc[t] \in {"appended", "check"} => pc'[t] \in {"appended", "check"}
  BY <1>2, <1>3
<1>6. queue = list[l].queue <=> s \notin Queued(l)
  BY <1>4 DEF Queued
<1>7. table' \in {table, None} /\ (table' = l => table = l /\ queue # <<>>)
  BY <1>2, <1>3
<1> HIDE DEF queue
<1>8. /\ \A k \in List : k # l => list'[k] = list[k]
      /\ list'[l].queue = queue \/ list'[l].queue = <<>>
      /\ list'[l].conn # None => list'[l].conn = list[l].conn
      /\ ue'.paging = ue.paging
      /\ queue # <<>> =>
           /\ list'[l].conn = list[l].conn /\ list'[l].paging = list[l].paging
           /\ list'[l].check = list[l].check
           /\ list[l].lapsed => list'[l].lapsed
           /\ queue # list[l].queue => list'[l].lapsed
           /\ list'[l].queue = queue
      /\ \A c \in Conn : /\ conn'[c].state = conn[c].state /\ conn'[c].ue = conn[c].ue
                         /\ conn'[c].locUpd = conn[c].locUpd
  <2>1. CASE last
    <3>1. /\ list' = [list EXCEPT ![l].paging = FALSE, ![l].conn = None, ![l].queue = <<>>]
          /\ ue' = IF list[l].paging THEN Counted(ue) ELSE ue
          /\ conn' = IF list[l].conn = None THEN conn ELSE UsageOff(list[l].conn)
          /\ queue = <<>>
      BY <1>2, <2>1 DEF Destroyed
    <3>2. ue'.paging = ue.paging
      BY <1>3, <3>1 DEF Counted
    <3>3. \A c \in Conn : /\ conn'[c].state = conn[c].state /\ conn'[c].ue = conn[c].ue
                         /\ conn'[c].locUpd = conn[c].locUpd
      BY <1>3, <3>1 DEF UsageOff, Connections
    <3> QED
      BY <1>3, <3>1, <3>2, <3>3 DEF Lists
  <2>2. CASE ~last
    BY <1>2, <1>3, <2>2 DEF Lists
  <2> QED
    BY <2>1, <2>2
<1>9. \A k \in List : Queued(k)' \subseteq Queued(k)
  <2>1. \A k \in List : k # l => Queued(k)' = Queued(k)
    BY <1>8, QueuedStays
  <2>2. Queued(l)' \subseteq Queued(l)
    <3>1. CASE list'[l].queue = queue
      BY <1>4, <3>1 DEF Queued
    <3>2. CASE list'[l].queue = <<>>
      BY <3>2 DEF Queued
    <3> QED
      BY <1>8, <3>1, <3>2
  <2> QED
    BY <2>1, <2>2
<1>10. ASSUME NEW k \in List, table' = k, Unsent(k)'
       PROVE  \/ Seen(k)'
              \/ /\ Unsent(k)
                 /\ list'[k].queue = list[k].queue /\ list'[k].conn = list[k].conn
                 /\ list[k].paging => list'[k].paging
                 /\ list[k].check => list'[k].check
                 /\ list[k].lapsed => list'[k].lapsed
                 /\ \A t \in Queued(k) : pc[t] = "ended" => pc'[t] = "ended"
  <2>1. CASE k # l
    <3>1. list'[k] = list[k]
      BY <1>8, <2>1
    <3>2. s \notin Queued(k)
      BY <1>1, <2>1 DEF WatchInv, Owned
    <3>3. Unsent(k)
      BY <1>2, <1>10, <3>1, UnsentStays
    <3> QED
      BY <1>3, <1>5, <3>1, <3>2, <3>3
  <2>2. CASE k = l /\ s \in Queued(l)
    BY <1>6, <1>7, <1>8, <1>10, <2>2 DEF Seen
  <2>3. CASE k = l /\ s \notin Queued(l)
    <3>1. list'[l].queue = list[l].queue
      BY <1>6, <1>7, <1>8, <1>10, <2>3
    <3>2. Unsent(l)
      BY <1>2, <1>10, <2>3, <3>1, UnsentStays
    <3> QED
      BY <1>3, <1>5, <1>6, <1>7, <1>8, <1>10, <2>3, <3>1, <3>2
  <2> QED
    BY <2>1, <2>2, <2>3
<1>11. /\ \A k \in List : /\ SigLooks(k) => SigLooks(k)'
                          /\ Resetting(k) => Resetting(k)'
       /\ \A c \in Conn : Releasing(c) => Releasing(c)'
       /\ \A c \in Conn : Updating(c) => Updating(c)'
       /\ \A j \in 1 .. Len(sig') : \E i \in 1 .. Len(sig) : sig'[j].list = sig[i].list
  BY <1>2, <1>8, NothingTold DEF Updating
<1>12. \A k \in List : list'[k].conn # None => list'[k].conn = list[k].conn
  BY <1>8
<1> QED
  BY <1>2, <1>5, <1>7, <1>8, <1>9, <1>10, <1>11, <1>12, StepWatch

(* The end of a list's paging: other lists that ask for it are not told.   *)
LEMMA StoppedWatch ==
  ASSUME Inv, Inv', WatchInv, UNCHANGED <<mine, sms, table, conn, toYate, link>>,
         list' = [l \in List |-> [list[l] EXCEPT !.lapsed = @ \/ list[l].paging]],
         \A s \in Sms : pc[s] # pc'[s] => pc[s] = "stopping" /\ pc'[s] = "done",
         \A l \in List : /\ SigLooks(l) => SigLooks(l)'
                         /\ Resetting(l) => Resetting(l)',
         \A c \in Conn : Releasing(c) => Releasing(c)',
         \A j \in 1 .. Len(sig') : \E i \in 1 .. Len(sig) : sig'[j].list = sig[i].list
  PROVE  WatchInv'
<1>1. /\ list \in [Sms -> Lists] /\ List = Sms
      /\ \A l \in Sms : \A t \in Queued(l) : t \in Sms
  BY Types
<1>2. \A l \in List :
        /\ list'[l].queue = list[l].queue /\ list'[l].conn = list[l].conn
        /\ list'[l].paging = list[l].paging /\ list'[l].check = list[l].check
        /\ list[l].lapsed => list'[l].lapsed
        /\ list[l].paging => list'[l].lapsed
  BY <1>1 DEF Lists
<1>3. \A l \in List : /\ Queued(l)' = Queued(l) /\ (Unsent(l)' => Unsent(l))
                      /\ list[l].paging => Seen(l)'
  BY <1>2, QueuedStays, UnsentStays DEF Seen
<1>4. \A t \in Sms : /\ pc[t] # "idle" => pc'[t] # "idle"
                     /\ pc[t] \notin {"idle", "found"} => pc'[t] \notin {"idle", "found"}
                     /\ pc[t] \in {"appended", "check"} => pc'[t] \in {"appended", "check"}
                     /\ pc[t] = "ended" => pc'[t] = "ended"
  OBVIOUS
<1>5. \A c \in Conn : Updating(c) => Updating(c)'
  BY DEF Updating
<1>6. ASSUME NEW l \in List, Unsent(l)'
      PROVE  \/ Seen(l)'
             \/ /\ Unsent(l) /\ ~list[l].paging
                /\ \A t \in Queued(l) : pc[t] = "ended" => pc'[t] = "ended"
  BY <1>1, <1>3, <1>4, <1>6
<1>7. \A l \in List : Queued(l)' \subseteq Queued(l)
  BY <1>3
<1> QED
  BY <1>2, <1>4, <1>5, <1>6, <1>7, StepWatch

LEMMA StopPagingByThreadWatch ==
  ASSUME Inv, Inv', WatchInv, NEW s \in Sms, StopPagingByThread(s)
  PROVE  WatchInv'
<1>1. /\ pc[s] = "stopping" /\ pc' = [pc EXCEPT ![s] = "done"]
      /\ list' = [l \in List |-> [list[l] EXCEPT !.lapsed = @ \/ list[l].paging]]
      /\ UNCHANGED <<mine, sms, table, conn, sig, aside, toYate, link>>
  BY DEF StopPagingByThread
<1>2. \A t \in Sms : pc[t] # pc'[t] => pc[t] = "stopping" /\ pc'[t] = "done"
  BY <1>1, Types
<1>3. /\ \A l \in List : /\ SigLooks(l) => SigLooks(l)'
                         /\ Resetting(l) => Resetting(l)'
      /\ \A c \in Conn : Releasing(c) => Releasing(c)'
      /\ \A j \in 1 .. Len(sig') : \E i \in 1 .. Len(sig) : sig'[j].list = sig[i].list
  BY <1>1, NothingTold
<1> QED
  BY <1>1, <1>2, <1>3, StoppedWatch

-----------------------------------------------------------------------------
(* The signalling thread.                                                  *)

LEMMA Single ==
  /\ \A T : <<>> \in Seq(T) /\ \A i : i \notin 1 .. Len(<<>>)
  /\ \A x : <<x>> \in Seq({x}) /\ Len(<<x>>) = 1 /\ <<x>>[1] = x
OBVIOUS

LEMMA WorkDone ==
  ASSUME Inv, sig # <<>>, NEW T, NEW w \in Seq(T), Goes(w), UNCHANGED aside
  PROVE  /\ \A l : SigLooks(l) /\ (\/ Head(sig).op \notin {"service", "look"}
                                   \/ Head(sig).op = "look" /\ Head(sig).list # l)
                     => SigLooks(l)'
         /\ \A c : Releasing(c) /\ (Head(sig).op # "released" \/ Head(sig).conn # c)
                     => Releasing(c)'
         /\ \A l : Resetting(l) /\ (Head(sig).op # "reset" \/ Head(sig).list # l)
                     => Resetting(l)'
         /\ \A i \in 1 .. Len(w) :
              /\ \A c : w[i].op = "released" /\ w[i].conn = c => Releasing(c)'
              /\ \A l : w[i].op = "reset" /\ w[i].list = l => Resetting(l)'
              /\ \A l : w[i].op = "service" \/ (w[i].op = "look" /\ w[i].list = l)
                          => SigLooks(l)'
         /\ \A j \in 1 .. Len(sig') :
              \/ \E i \in 1 .. Len(sig) : sig'[j].list = sig[i].list
              \/ \E i \in 1 .. Len(w) : sig'[j].list = w[i].list
<1> DEFINE S == Work
<1>1. sig \in Seq(S)
  BY Types
<1> HIDE DEF S
<1>2. /\ \A i \in 1 .. Len(w) : i \in 1 .. Len(sig') /\ sig'[i] = w[i]
      /\ \A i \in 1 .. Len(sig) :
           sig[i] = Head(sig) \/ \E j \in 1 .. Len(sig') : sig'[j] = sig[i]
      /\ \A j \in 1 .. Len(sig') :
           \/ \E i \in 1 .. Len(sig) : sig'[j] = sig[i]
           \/ \E i \in 1 .. Len(w) : sig'[j] = w[i]
  BY <1>1, WorkLeft, ZenonT(60)
<1>3. ASSUME NEW l, SigLooks(l), \/ Head(sig).op \notin {"service", "look"}
                                 \/ Head(sig).op = "look" /\ Head(sig).list # l
      PROVE  SigLooks(l)'
  BY <1>2, <1>3 DEF SigLooks
<1>4. ASSUME NEW c, Releasing(c), Head(sig).op # "released" \/ Head(sig).conn # c
      PROVE  Releasing(c)'
  BY <1>2, <1>4 DEF Releasing
<1>5. ASSUME NEW i \in 1 .. Len(w)
      PROVE  /\ \A c : w[i].op = "released" /\ w[i].conn = c => Releasing(c)'
             /\ \A l : w[i].op = "reset" /\ w[i].list = l => Resetting(l)'
             /\ \A l : w[i].op = "service" \/ (w[i].op = "look" /\ w[i].list = l)
                         => SigLooks(l)'
  BY <1>2 DEF Releasing, Resetting, SigLooks
<1>7. ASSUME NEW l, Resetting(l), Head(sig).op # "reset" \/ Head(sig).list # l
      PROVE  Resetting(l)'
  BY <1>2, <1>7 DEF Resetting
<1>6. \A j \in 1 .. Len(sig') :
        \/ \E i \in 1 .. Len(sig) : sig'[j].list = sig[i].list
        \/ \E i \in 1 .. Len(w) : sig'[j].list = w[i].list
  BY <1>2
<1> QED
  BY <1>3, <1>4, <1>5, <1>6, <1>7

LEMMA OneJob ==
  ASSUME Inv, sig # <<>>, NEW x, Goes(<<x>>), UNCHANGED aside
  PROVE  /\ \A l : SigLooks(l) /\ (\/ Head(sig).op \notin {"service", "look"}
                                   \/ Head(sig).op = "look" /\ Head(sig).list # l)
                     => SigLooks(l)'
         /\ \A c : Releasing(c) /\ (Head(sig).op # "released" \/ Head(sig).conn # c)
                     => Releasing(c)'
         /\ \A l : Resetting(l) /\ (Head(sig).op # "reset" \/ Head(sig).list # l)
                     => Resetting(l)'
         /\ \A l : x.op = "reset" /\ x.list = l => Resetting(l)'
         /\ \A c : x.op = "released" /\ x.conn = c => Releasing(c)'
         /\ \A l : x.op = "service" \/ (x.op = "look" /\ x.list = l) => SigLooks(l)'
         /\ \A j \in 1 .. Len(sig') :
              \/ \E i \in 1 .. Len(sig) : sig'[j].list = sig[i].list
              \/ sig'[j].list = x.list
<1> DEFINE w == <<x>>
<1>1. Goes(w) /\ w \in Seq({x}) /\ Len(w) = 1 /\ w[1] = x
  BY Single
<1> HIDE DEF w
<1>2. \A i \in 1 .. Len(w) : w[i] = x
  BY <1>1
<1>3. 1 \in 1 .. Len(w)
  BY <1>1
<1>4. /\ \A l : SigLooks(l) /\ (\/ Head(sig).op \notin {"service", "look"}
                                \/ Head(sig).op = "look" /\ Head(sig).list # l)
                  => SigLooks(l)'
      /\ \A c : Releasing(c) /\ (Head(sig).op # "released" \/ Head(sig).conn # c)
                  => Releasing(c)'
      /\ \A l : Resetting(l) /\ (Head(sig).op # "reset" \/ Head(sig).list # l)
                  => Resetting(l)'
  BY <1>1, WorkDone
<1>5. \A i \in 1 .. Len(w) :
        /\ \A l : w[i].op = "reset" /\ w[i].list = l => Resetting(l)'
        /\ \A c : w[i].op = "released" /\ w[i].conn = c => Releasing(c)'
        /\ \A l : w[i].op = "service" \/ (w[i].op = "look" /\ w[i].list = l)
                    => SigLooks(l)'
  BY <1>1, WorkDone
<1>6. \A j \in 1 .. Len(sig') :
        \/ \E i \in 1 .. Len(sig) : sig'[j].list = sig[i].list
        \/ \E i \in 1 .. Len(w) : sig'[j].list = w[i].list
  BY <1>1, WorkDone
<1>7. /\ \A l : x.op = "reset" /\ x.list = l => Resetting(l)'
      /\ \A c : x.op = "released" /\ x.conn = c => Releasing(c)'
      /\ \A l : x.op = "service" \/ (x.op = "look" /\ x.list = l) => SigLooks(l)'
  BY <1>1, <1>3, <1>5
<1>8. \A j \in 1 .. Len(sig') :
        \/ \E i \in 1 .. Len(sig) : sig'[j].list = sig[i].list
        \/ sig'[j].list = x.list
  BY <1>2, <1>6
<1> QED
  BY <1>4, <1>7, <1>8

(* A job that leaves the lists, the messages and the threads alone.        *)
LEMMA JobWatch ==
  ASSUME Inv, Inv', WatchInv, UNCHANGED <<mine, toYate, pc, sms, table, list, ue>>,
         \A c \in Conn :
           /\ conn'[c].state = conn[c].state \/ (conn'[c].state = "removed" /\ Releasing(c)')
           /\ conn'[c].locUpd = conn[c].locUpd /\ (conn[c].ue => conn'[c].ue)
           /\ link'[c] = link[c] \/ (link'[c] = "down" /\ link[c] # "none"
                                      /\ conn'[c].state = "removed"),
         \A l \in List : \A c \in Conn : table = l /\ list[l].conn = c /\ Releasing(c) =>
           Releasing(c)' \/ Resetting(l)',
         \A j \in 1 .. Len(sig') :
           \/ sig'[j].list \in {None, table}
           \/ \E i \in 1 .. Len(sig) : sig'[j].list = sig[i].list,
         \A l \in List : table = l => /\ SigLooks(l) => SigLooks(l)'
                                      /\ Resetting(l) => Resetting(l)',
         \A l \in List : table = l /\ list[l].conn = None =>
                           \/ Resetting(l)'
                           \/ \A c \in Conn : Updating(c) => Updating(c)'
  PROVE  WatchInv'
<1>1. \A l \in List : Queued(l)' = Queued(l) /\ (Unsent(l)' => Unsent(l))
  BY QueuedStays, UnsentStays
<1>2. \A l \in List : Resetting(l)' => Seen(l)'
  BY DEF Seen
<1> QED
  BY <1>1, <1>2, StepWatch

(* dropConn: whoever has found the connection there will run connReleased. *)
LEMMA DroppedWatch ==
  ASSUME Inv, Inv', WatchInv, NEW c \in Conn, dropConn(c),
         conn[c].state = "up" => Releasing(c)',
         UNCHANGED <<mine, toYate, pc, sms, table, list, ue>>,
         \A l \in List : /\ SigLooks(l) => SigLooks(l)'
                         /\ Resetting(l) => Resetting(l)',
         \A d \in Conn : Releasing(d) => Releasing(d)',
         \A j \in 1 .. Len(sig') :
           \/ sig'[j].list = None
           \/ \E i \in 1 .. Len(sig) : sig'[j].list = sig[i].list
  PROVE  WatchInv'
<1>1. CASE conn[c].state # "up"
  <2>1. UNCHANGED <<conn, link>>
    BY <1>1 DEF dropConn
  <2>2. \A d \in Conn : Updating(d) => Updating(d)'
    BY <2>1 DEF Updating
  <2> QED
    BY <2>1, <2>2, JobWatch
<1>2. CASE conn[c].state = "up"
  <2>1. /\ conn' = [conn EXCEPT ![c].state = "removed", ![c].usage = 0]
        /\ link' = [link EXCEPT ![c] = "down"]
    BY <1>2 DEF dropConn
  <2>2. /\ \A d \in Conn : d # c => conn'[d] = conn[d] /\ link'[d] = link[d]
        /\ conn'[c].state = "removed" /\ conn'[c].ue = conn[c].ue
        /\ conn'[c].locUpd = conn[c].locUpd
        /\ link'[c] = "down" /\ link[c] # "none"
    BY <1>2, <2>1, Types DEF Connections, Inv, OpensOnce
  <2>3. \A d \in Conn : Updating(d) => Updating(d)'
    BY <1>2, <2>2 DEF Updating
  <2> QED
    BY <1>2, <2>2, <2>3, JobWatch
<1> QED
  BY <1>1, <1>2

LEMMA DropConnWatch ==
  ASSUME Inv, Inv', WatchInv, DropConn
  PROVE  WatchInv'
<1>1. sig # <<>> /\ Head(sig).op = "drop"
  BY DEF DropConn, Does
<1>2. PICK c \in Conn : Head(sig).conn = c
  BY <1>1, HeadOfWork DEF Inv, TypeOK
<1> DEFINE x == Then(c)
<1>3. /\ UNCHANGED <<mine, toYate, pc, sms, table, list, ue, aside>>
      /\ dropConn(c) /\ Goes(<<x>>)
  BY <1>2 DEF DropConn
<1>4. /\ x.list = None /\ x.conn = c
      /\ conn[c].state = "up" => x.op = "released"
  BY DEF Then, Job
<1> HIDE DEF x
<1>5. /\ \A d : Releasing(d) => Releasing(d)'
      /\ \A l : /\ SigLooks(l) => SigLooks(l)'
                /\ Resetting(l) => Resetting(l)'
      /\ \A j \in 1 .. Len(sig') :
           \/ sig'[j].list = None
           \/ \E i \in 1 .. Len(sig) : sig'[j].list = sig[i].list
      /\ conn[c].state = "up" => Releasing(c)'
  BY <1>1, <1>3, <1>4, OneJob
<1> QED
  BY <1>3, <1>5, DroppedWatch

(* connReleased, of a connection that is with the phone's list or whose    *)
(* location update is over: the list has been found.                       *)
LEMMA ConnReleasedWatch ==
  ASSUME Inv, Inv', WatchInv, ConnReleased
  PROVE  WatchInv'
<1>1. sig # <<>> /\ Head(sig).op \in {"released", "absent"}
  BY DEF ConnReleased, Does
<1>2. PICK c \in Conn : Head(sig).conn = c
  BY <1>1, HeadOfWork DEF Inv, TypeOK
<1>3. /\ Goes(IF Finds(Head(sig).op, c) THEN <<Job("reset", table, None)>> ELSE <<>>)
      /\ UNCHANGED <<pc, mine, sms, table, list, ue, conn, aside, toYate, link>>
  BY <1>2 DEF ConnReleased, radio
<1>4. CASE ~Finds(Head(sig).op, c)
  <2>1. /\ \A d : Releasing(d) /\ (d # c \/ Head(sig).op # "released") => Releasing(d)'
        /\ \A l : /\ SigLooks(l) => SigLooks(l)'
                  /\ Resetting(l) => Resetting(l)'
        /\ \A j \in 1 .. Len(sig') : \E i \in 1 .. Len(sig) : sig'[j].list = sig[i].list
    BY <1>1, <1>2, <1>3, <1>4, Single, WorkDone
  <2>2. List = Sms /\ None \notin Sms
    BY Types
  <2>3. \A l \in List : table = l =>
          /\ list[l].conn # c
          /\ Head(sig).op = "released" => ~(conn[c].ue /\ conn[c].locUpd)
    BY <1>2, <1>4, <2>2 DEF Finds
  <2>4. \A l \in List : table = l => \A d \in Conn : Updating(d) => Updating(d)'
    BY <1>3, <2>1, <2>3 DEF Updating
  <2> QED
    BY <1>3, <2>1, <2>3, <2>4, JobWatch
<1>5. CASE Finds(Head(sig).op, c)
  <2>1. PICK l \in List : table = l
    BY <1>5, Types DEF Finds
  <2> DEFINE x == Job("reset", l, None)
  <2>2. Goes(<<x>>)
    BY <1>3, <1>5, <2>1
  <2>3. x.op = "reset" /\ x.list = l
    BY DEF Job
  <2> HIDE DEF x
  <2>4. /\ \A k : /\ SigLooks(k) => SigLooks(k)'
                  /\ Resetting(k) => Resetting(k)'
        /\ Resetting(l)'
        /\ \A j \in 1 .. Len(sig') :
             \/ sig'[j].list = l
             \/ \E i \in 1 .. Len(sig) : sig'[j].list = sig[i].list
    BY <1>1, <1>3, <2>2, <2>3, OneJob
  <2> QED
    BY <1>3, <2>1, <2>4, JobWatch
<1> QED
  BY <1>4, <1>5

(* A list that is reset has been told to look; those of other lists do not *)
(* notice.                                                                 *)
LEMMA ResetWatch ==
  ASSUME Inv, Inv', WatchInv, NEW l \in List, Reset(l),
         UNCHANGED <<pc, mine, table, conn, toYate, link>>,
         \A k \in List : /\ SigLooks(k) => SigLooks(k)'
                         /\ k # l /\ Resetting(k) => Resetting(k)',
         \A c \in Conn : Releasing(c) => Releasing(c)',
         \A j \in 1 .. Len(sig') :
           \/ sig'[j].list = None
           \/ \E i \in 1 .. Len(sig) : sig'[j].list = sig[i].list
  PROVE  WatchInv'
<1>1. /\ list' = [list EXCEPT ![l].conn = None, ![l].paging = FALSE, ![l].check = TRUE]
      /\ sms' = [s \in Sms |-> IF sms[s].active /\ s \in ToSet(list[l].queue)
                               THEN [sms[s] EXCEPT !.sent = FALSE] ELSE sms[s]]
      /\ ue' = IF list[l].paging THEN Counted(ue) ELSE ue
  BY DEF Reset
<1>2. /\ list \in [Sms -> Lists] /\ List = Sms /\ None \notin Sms /\ None \notin Conn
      /\ ue \in [cnt: Nat, paging: BOOLEAN]
      /\ \A k \in Sms : list[k].queue \in Seq(Sms)
      /\ \A k \in Sms : \A t \in Queued(k) : t \in Sms
  BY Types
<1>3. /\ list'[l].check /\ list'[l].queue = list[l].queue /\ list'[l].conn = None
      /\ \A k \in List : k # l => list'[k] = list[k]
  BY <1>1, <1>2 DEF Lists
<1>4. Seen(l)' /\ ue'.paging = ue.paging
  BY <1>1, <1>2, <1>3 DEF Seen, Counted
<1>5. \A k \in List : Queued(k)' = Queued(k)
  BY <1>3, QueuedStays
<1>6. ASSUME NEW k \in List, k # l, Unsent(k)'
      PROVE  Unsent(k)
  <2>1. \A t \in ToSet(list[l].queue) : t \in Queued(l)
    BY <1>2 DEF ToSet, Queued
  <2>2. \A t \in Queued(k) : t \notin Queued(l)
    BY <1>6 DEF WatchInv, Owned
  <2>3. \A t \in Queued(k) : sms'[t] = sms[t]
    BY <1>1, <1>2, <2>1, <2>2
  <2> QED
    BY <1>3, <1>6, <2>3, UnsentStays
<1>7. /\ \A k \in List : Queued(k)' \subseteq Queued(k)
      /\ \A k \in List : list'[k].conn # None => list'[k].conn = list[k].conn /\ k # l
      /\ \A c \in Conn : Updating(c) => Updating(c)'
  BY <1>3, <1>5 DEF Updating
<1>8. \A k \in List : \A t \in Queued(k) : pc[t] = "ended" => pc'[t] = "ended"
  OBVIOUS
<1> QED
  BY <1>2, <1>3, <1>4, <1>6, <1>7, <1>8, StepWatch

LEMMA ResetListWatch ==
  ASSUME Inv, Inv', WatchInv, ResetList
  PROVE  WatchInv'
<1>1. sig # <<>> /\ Head(sig).op = "reset"
  BY DEF ResetList, Does
<1>2. PICK l \in List : Head(sig).list = l
  BY <1>1, HeadOfWork DEF Inv, TypeOK
<1> DEFINE x == Job("stopPaging", None, None)
<1>3. /\ Reset(l) /\ UNCHANGED <<pc, mine, table, conn, aside, toYate, link>>
      /\ Goes(<<>>) \/ Goes(<<x>>)
  BY <1>2 DEF ResetList, radio
<1>4. x.list = None
  BY DEF Job
<1> HIDE DEF x
<1>5. /\ \A k \in List : /\ SigLooks(k) => SigLooks(k)'
                         /\ k # l /\ Resetting(k) => Resetting(k)'
      /\ \A c \in Conn : Releasing(c) => Releasing(c)'
      /\ \A j \in 1 .. Len(sig') :
           \/ sig'[j].list = None
           \/ \E i \in 1 .. Len(sig) : sig'[j].list = sig[i].list
  <2>1. CASE Goes(<<>>)
    BY <1>1, <1>2, <1>3, <2>1, Single, WorkDone
  <2>2. CASE Goes(<<x>>)
    BY <1>1, <1>2, <1>3, <1>4, <2>2, OneJob
  <2> QED
    BY <1>3, <2>1, <2>2
<1> QED
  BY <1>3, <1>5, ResetWatch

LEMMA StopPagingBySigWatch ==
  ASSUME Inv, Inv', WatchInv, StopPagingBySig
  PROVE  WatchInv'
<1>1. /\ sig # <<>> /\ Head(sig).op = "stopPaging" /\ Goes(<<>>)
      /\ list' = [l \in List |-> [list[l] EXCEPT !.lapsed = @ \/ list[l].paging]]
      /\ UNCHANGED <<pc, mine, sms, table, conn, aside, toYate, link>>
  BY DEF StopPagingBySig, Does
<1>2. /\ \A c : Releasing(c) => Releasing(c)'
      /\ \A l : /\ SigLooks(l) => SigLooks(l)'
                /\ Resetting(l) => Resetting(l)'
      /\ \A j \in 1 .. Len(sig') : \E i \in 1 .. Len(sig) : sig'[j].list = sig[i].list
  BY <1>1, Single, WorkDone
<1> QED
  BY <1>1, <1>2, StoppedWatch

LEMMA SetUEWatch ==
  ASSUME Inv, Inv', WatchInv, SetUE
  PROVE  WatchInv'
<1>1. sig # <<>> /\ Head(sig).op = "setUE"
  BY DEF SetUE, Does
<1>2. PICK c \in Conn : Head(sig).conn = c
  BY <1>1, HeadOfWork DEF Inv, TypeOK
<1>3. PICK S : S = Candidates \ {c}
  OBVIOUS
<1> DEFINE q == SetToSeq(S)
           w == [i \in DOMAIN q |-> Job("drop", None, q[i])]
           T == Work
<1>4. /\ UNCHANGED <<mine, toYate, pc, sms, table, list, ue, aside, link>>
      /\ conn' = [conn EXCEPT ![c].ue = TRUE]
      /\ Goes(w)
  BY <1>2, <1>3 DEF SetUE, radio
<1>5. w \in Seq(T)
  <2>1. S \in SUBSET Conn
    BY <1>3 DEF Candidates
  <2> QED
    BY <2>1, DropsTyped
<1>6. \A i \in DOMAIN w : w[i].list = None
  BY DEF Job
<1> HIDE DEF w, T
<1>7. \A i \in 1 .. Len(w) : w[i].list = None
  BY <1>5, <1>6
<1>8. /\ \A d : Releasing(d) => Releasing(d)'
      /\ \A l : /\ SigLooks(l) => SigLooks(l)'
                /\ Resetting(l) => Resetting(l)'
      /\ \A j \in 1 .. Len(sig') :
           \/ sig'[j].list = None
           \/ \E i \in 1 .. Len(sig) : sig'[j].list = sig[i].list
  BY <1>1, <1>4, <1>5, <1>7, WorkDone
<1>9. \A d \in Conn : /\ conn'[d].state = conn[d].state /\ conn'[d].locUpd = conn[d].locUpd
                      /\ conn[d].ue => conn'[d].ue
  BY <1>4, Types DEF Connections
<1>10. \A d \in Conn : Updating(d) => Updating(d)'
  BY <1>8, <1>9 DEF Updating
<1> QED
  BY <1>4, <1>8, <1>9, <1>10, JobWatch

LEMMA CheckServiceWatch ==
  ASSUME Inv, Inv', WatchInv, CheckService
  PROVE  WatchInv'
<1>1. /\ sig # <<>> /\ Head(sig).op = "service"
      /\ Goes(IF table = None THEN <<>> ELSE <<Job("look", table, None)>>)
      /\ UNCHANGED <<mine, toYate, pc, sms, table, list, ue, conn, aside, link>>
  BY DEF CheckService, Does, radio
<1>2. CASE table = None
  <2>1. /\ \A d : Releasing(d) => Releasing(d)'
        /\ \A l : Resetting(l) => Resetting(l)'
        /\ \A j \in 1 .. Len(sig') : \E i \in 1 .. Len(sig) : sig'[j].list = sig[i].list
    BY <1>1, <1>2, Single, WorkDone
  <2>2. List = Sms /\ None \notin Sms
    BY Types
  <2> QED
    BY <1>1, <1>2, <2>1, <2>2, JobWatch
<1>3. CASE table # None
  <2>1. PICK l \in List : table = l
    BY <1>3, Types
  <2> DEFINE x == Job("look", l, None)
  <2>2. Goes(<<x>>)
    BY <1>1, <1>3, <2>1
  <2>3. x.op = "look" /\ x.list = l
    BY DEF Job
  <2> HIDE DEF x
  <2>4. /\ \A d : Releasing(d) => Releasing(d)'
        /\ \A k : Resetting(k) => Resetting(k)'
        /\ SigLooks(l)'
        /\ \A j \in 1 .. Len(sig') :
             \/ \E i \in 1 .. Len(sig) : sig'[j].list = sig[i].list
             \/ sig'[j].list = l
    BY <1>1, <2>2, <2>3, OneJob
  <2>5. \A d \in Conn : Updating(d) => Updating(d)'
    BY <1>1, <2>4 DEF Updating
  <2>6. \A k \in List : table = k /\ SigLooks(k) => SigLooks(k)'
    BY <2>1, <2>4
  <2> QED
    BY <1>1, <2>1, <2>4, <2>5, <2>6, JobWatch
<1> QED
  BY <1>2, <1>3

LEMMA HeadIsFirst ==
  ASSUME Inv, sig # <<>>
  PROVE  1 \in 1 .. Len(sig) /\ Head(sig) = sig[1]
<1> DEFINE W == Work
<1>1. sig \in Seq(W)
  BY Types
<1> HIDE DEF W
<1> QED
  BY <1>1

LEMMA LookWatch ==
  ASSUME Inv, Inv', WatchInv, Look
  PROVE  WatchInv'
<1>1. sig # <<>> /\ Head(sig).op = "look"
  BY DEF Look, Does
<1>2. PICK l \in List : Head(sig).list = l
  BY <1>1, HeadOfWork DEF Inv, TypeOK
<1> DEFINE x == Job("remove", l, None)
<1>3. /\ checkMtSms(l) /\ UNCHANGED <<pc, mine, table, aside, toYate>>
      /\ Goes(<<>>) \/ Goes(<<x>>)
  BY <1>2 DEF Look
<1>4. pc[l] # "idle"
  <2>1. l # None
    BY Types
  <2> QED
    BY <1>1, <1>2, <2>1, HeadIsFirst DEF WatchInv, Begun
<1>5. x.list = l
  BY DEF Job
<1> HIDE DEF x
<1>6. /\ \A k \in List : /\ k # l /\ SigLooks(k) => SigLooks(k)'
                         /\ Resetting(k) => Resetting(k)'
      /\ \A c \in Conn : Releasing(c) => Releasing(c)'
      /\ \A j \in 1 .. Len(sig') :
           \/ sig'[j].list = l
           \/ \E i \in 1 .. Len(sig) : sig'[j].list = sig[i].list
  <2>1. CASE Goes(<<>>)
    BY <1>1, <1>2, <1>3, <2>1, Single, WorkDone
  <2>2. CASE Goes(<<x>>)
    BY <1>1, <1>2, <1>3, <1>5, <2>2, OneJob
  <2> QED
    BY <1>3, <2>1, <2>2
<1> QED
  BY <1>3, <1>4, <1>6, CheckWatch

LEMMA RemoveListWatch ==
  ASSUME Inv, Inv', WatchInv, RemoveList
  PROVE  WatchInv'
<1>1. sig # <<>> /\ Head(sig).op = "remove"
  BY DEF RemoveList, Does
<1>2. PICK l \in List : Head(sig).list = l
  BY <1>1, HeadOfWork DEF Inv, TypeOK
<1> DEFINE empty == list[l].queue = <<>>
           x == Job("stopPaging", None, None)
<1>3. /\ table' = IF empty /\ table = l THEN None ELSE table
      /\ (empty /\ Destroyed(l)) \/ UNCHANGED <<list, ue, conn>>
      /\ Goes(<<>>) \/ Goes(<<x>>)
      /\ UNCHANGED <<pc, mine, sms, aside, toYate, link>>
  BY <1>2 DEF RemoveList, radio
<1>4. x.list = None
  BY DEF Job
<1> HIDE DEF x
<1>5. /\ \A k \in List : /\ SigLooks(k) => SigLooks(k)'
                         /\ Resetting(k) => Resetting(k)'
      /\ \A c \in Conn : Releasing(c) => Releasing(c)'
      /\ \A j \in 1 .. Len(sig') :
           \/ sig'[j].list = None
           \/ \E i \in 1 .. Len(sig) : sig'[j].list = sig[i].list
  <2>1. CASE Goes(<<>>)
    BY <1>1, <1>3, <2>1, Single, WorkDone
  <2>2. CASE Goes(<<x>>)
    BY <1>1, <1>3, <1>4, <2>2, OneJob
  <2> QED
    BY <1>3, <2>1, <2>2
<1>6. /\ list \in [Sms -> Lists] /\ List = Sms /\ None \notin Sms
      /\ conn \in [Conn -> Connections] /\ ue \in [cnt: Nat, paging: BOOLEAN]
      /\ table \in Sms \cup {None}
  BY Types
<1>7. /\ \A k \in List : k # l \/ ~empty => list'[k] = list[k]
      /\ list'[l].queue = list[l].queue
      /\ list'[l].conn # None => list'[l].conn = list[l].conn
      /\ ue'.paging = ue.paging
      /\ \A c \in Conn : /\ conn'[c].state = conn[c].state /\ conn'[c].ue = conn[c].ue
                         /\ conn'[c].locUpd = conn[c].locUpd
  <2>1. CASE empty /\ Destroyed(l)
    <3>1. /\ list' = [list EXCEPT ![l].paging = FALSE, ![l].conn = None, ![l].queue = <<>>]
          /\ ue' = IF list[l].paging THEN Counted(ue) ELSE ue
          /\ conn' = IF list[l].conn = None THEN conn ELSE UsageOff(list[l].conn)
      BY <2>1 DEF Destroyed
    <3>2. ue'.paging = ue.paging
      BY <1>6, <3>1 DEF Counted
    <3>3. \A c \in Conn : /\ conn'[c].state = conn[c].state /\ conn'[c].ue = conn[c].ue
                         /\ conn'[c].locUpd = conn[c].locUpd
      BY <1>6, <3>1 DEF UsageOff, Connections
    <3> QED
      BY <1>6, <2>1, <3>1, <3>2, <3>3 DEF Lists
  <2>2. CASE UNCHANGED <<list, ue, conn>>
    BY <2>2
  <2> QED
    BY <1>3, <2>1, <2>2
<1>8. \A k \in List : list'[k].queue = list[k].queue
  BY <1>7
<1>9. \A k \in List : Queued(k)' = Queued(k) /\ (Unsent(k)' => Unsent(k))
  BY <1>3, <1>8, QueuedStays, UnsentStays
<1>10. ASSUME NEW k \in List, table' = k, Unsent(k)'
       PROVE  list'[k] = list[k]
  <2>1. CASE k = l /\ empty
    BY <1>3, <1>6, <1>10, <2>1
  <2> QED
    BY <1>7, <2>1
<1>11. \A c \in Conn : Updating(c) => Updating(c)'
  BY <1>5, <1>7 DEF Updating
<1>12. /\ table' \in {table, None}
       /\ \A k \in List : list'[k].conn # None => list'[k].conn = list[k].conn
  BY <1>3, <1>7
<1> QED
  BY <1>3, <1>5, <1>7, <1>9, <1>10, <1>11, <1>12, StepWatch

LEMMA FindAnsweredWatch ==
  ASSUME Inv, Inv', WatchInv, FindAnswered
  PROVE  WatchInv'
<1>1. /\ sig # <<>> /\ Head(sig).op = "answer"
      /\ Goes(IF table = None THEN <<>>
              ELSE <<[Head(sig) EXCEPT !.op = "take", !.list = table]>>)
      /\ UNCHANGED <<mine, toYate, pc, sms, table, list, ue, conn, aside, link>>
  BY DEF FindAnswered, Does, radio
<1>2. Head(sig) \in [op: {"answer", "take"}, list: List \cup {None},
                     conn: Conn, ref: Ref, sms: Sms]
  BY <1>1, HeadOfWork DEF Inv, TypeOK
<1>3. PICK x : x = [Head(sig) EXCEPT !.op = "take", !.list = table]
  OBVIOUS
<1>4. x.list = table
  BY <1>2, <1>3
<1>5. Goes(<<>>) \/ Goes(<<x>>)
  BY <1>1, <1>3
<1>6. /\ \A k \in List : /\ SigLooks(k) => SigLooks(k)'
                         /\ Resetting(k) => Resetting(k)'
      /\ \A c \in Conn : Releasing(c) => Releasing(c)'
      /\ \A j \in 1 .. Len(sig') :
           \/ sig'[j].list = table
           \/ \E i \in 1 .. Len(sig) : sig'[j].list = sig[i].list
  <2>1. CASE Goes(<<>>)
    BY <1>1, <2>1, Single, WorkDone
  <2>2. CASE Goes(<<x>>)
    BY <1>1, <1>4, <2>2, OneJob
  <2> QED
    BY <1>5, <2>1, <2>2
<1>7. \A d \in Conn : Updating(d) => Updating(d)'
  BY <1>1, <1>6 DEF Updating
<1> QED
  BY <1>1, <1>6, <1>7, JobWatch

LEMMA TakeWatch ==
  ASSUME Inv, Inv', WatchInv, Take
  PROVE  WatchInv'
<1>1. /\ sig # <<>> /\ Head(sig).op = "take"
      /\ UNCHANGED <<pc, mine, table, ue, conn, aside, toYate, link>>
  BY DEF Take, Does, radio
<1>2. PICK l \in List : Head(sig).list = l
  BY <1>1, HeadOfWork DEF Inv, TypeOK
<1>3. /\ list \in [Sms -> Lists] /\ List = Sms /\ None \notin Sms
      /\ sms \in [Sms -> Messages]
      /\ \A k \in Sms : list[k].queue \in Seq(Sms)
      /\ \A k \in Sms : \A t \in Queued(k) : t \in Sms
      /\ table \in Sms \cup {None}
  BY Types
<1> DEFINE queue == list[l].queue
(* Who is told of the answer looks, or the list has lapsed.                *)
<1>4. PICK x :
        /\ Goes(<<>>) \/ Goes(<<x>>)
        /\ x.list \in {None, l}
        /\ \/ UNCHANGED <<sms, list>>
           \/ /\ queue # <<>> /\ list' = [list EXCEPT ![l].queue = Tail(@), ![l].lapsed = TRUE]
              /\ UNCHANGED sms
           \/ /\ queue # <<>> /\ list' = [list EXCEPT ![l].queue = Tail(@)]
              /\ sms' = [sms EXCEPT ![Head(queue)].active = FALSE]
              /\ Goes(<<x>>) /\ x.op = "look" /\ x.list = l
  <2>1. Head(sig) \in [op: {"answer", "take"}, list: List \cup {None},
                       conn: Conn, ref: Ref, sms: Sms]
    BY <1>1, HeadOfWork DEF Inv, TypeOK
  <2>2. TakeAnswer(Head(sig))
    BY DEF Take
  <2>3. CASE queue = <<>>
    <3>1. Goes(<<Job("remove", l, None)>>) /\ UNCHANGED <<sms, list>>
      BY <1>2, <2>2, <2>3 DEF TakeAnswer
    <3>2. Job("remove", l, None).list = l
      BY DEF Job
    <3> QED
      BY <3>1, <3>2
  <2>4. CASE queue # <<>> /\ ~sms[Head(queue)].active
    <3> DEFINE x == [Head(sig) EXCEPT !.op = "answer", !.list = None]
    <3>1. /\ list' = [list EXCEPT ![l].queue = Tail(@), ![l].lapsed = TRUE]
          /\ Goes(<<x>>) /\ UNCHANGED sms
      BY <1>2, <2>2, <2>4 DEF TakeAnswer
    <3>2. x.list = None
      BY <2>1
    <3> QED
      BY <2>4, <3>1, <3>2
  <2>5. CASE queue # <<>> /\ sms[Head(queue)].active
    <3>1. CASE sms[Head(queue)].callRef # Head(sig).ref
      <4>1. Goes(<<>>) /\ UNCHANGED <<sms, list>>
        BY <1>2, <2>2, <2>5, <3>1 DEF TakeAnswer
      <4>2. Job("look", l, None).list = l
        BY DEF Job
      <4> QED
        BY <4>1, <4>2
    <3>2. CASE sms[Head(queue)].callRef = Head(sig).ref
      <4> DEFINE x == Job("look", l, None)
      <4>1. /\ list' = [list EXCEPT ![l].queue = Tail(@)]
            /\ sms' = [sms EXCEPT ![Head(queue)].active = FALSE]
            /\ Goes(<<x>>)
        BY <1>2, <2>2, <2>5, <3>2 DEF TakeAnswer
      <4>2. x.list = l /\ x.op = "look"
        BY DEF Job
      <4> QED
        BY <2>5, <4>1, <4>2
    <3> QED
      BY <3>1, <3>2
  <2> QED
    BY <2>3, <2>4, <2>5
<1>5. /\ \A k \in List : /\ SigLooks(k) => SigLooks(k)'
                         /\ Resetting(k) => Resetting(k)'
      /\ \A c \in Conn : Releasing(c) => Releasing(c)'
      /\ \A j \in 1 .. Len(sig') :
           \/ sig'[j].list = None
           \/ \E i \in 1 .. Len(sig) : sig'[j].list = sig[i].list
      /\ Goes(<<x>>) /\ x.op = "look" /\ x.list = l => SigLooks(l)'
  <2>1. Head(sig) = sig[1] /\ 1 \in 1 .. Len(sig)
    BY <1>1, HeadIsFirst
  <2>2. CASE Goes(<<x>>)
    BY <1>1, <1>2, <1>4, <2>1, <2>2, OneJob
  <2>3. CASE Goes(<<>>) /\ ~Goes(<<x>>)
    BY <1>1, <2>3, Single, WorkDone
  <2> QED
    BY <1>4, <2>2, <2>3
<1>6. /\ \A k \in List : k # l => list'[k] = list[k]
      /\ list'[l].conn = list[l].conn /\ list'[l].paging = list[l].paging
      /\ list'[l].check = list[l].check /\ (list[l].lapsed => list'[l].lapsed)
      /\ \/ UNCHANGED <<sms, list>>
         \/ /\ queue # <<>> /\ list'[l].queue = Tail(queue)
            /\ \A t \in Sms : t # Head(queue) => sms'[t] = sms[t]
            /\ (list'[l].lapsed /\ UNCHANGED sms) \/ SigLooks(l)'
  <2>1. CASE UNCHANGED <<sms, list>>
    BY <2>1
  <2>2. CASE /\ queue # <<>>
             /\ list' = [list EXCEPT ![l].queue = Tail(@), ![l].lapsed = TRUE]
             /\ UNCHANGED sms
    BY <1>3, <2>2 DEF Lists
  <2>3. CASE /\ queue # <<>> /\ list' = [list EXCEPT ![l].queue = Tail(@)]
             /\ sms' = [sms EXCEPT ![Head(queue)].active = FALSE]
             /\ Goes(<<x>>) /\ x.op = "look" /\ x.list = l
    <3>1. SigLooks(l)'
      BY <1>5, <2>3
    <3>2. /\ \A k \in List : k # l => list'[k] = list[k]
          /\ list'[l].conn = list[l].conn /\ list'[l].paging = list[l].paging
          /\ list'[l].check = list[l].check /\ (list[l].lapsed => list'[l].lapsed)
          /\ list'[l].queue = Tail(queue)
      BY <1>3, <2>3 DEF Lists
    <3>3. \A t \in Sms : t # Head(queue) => sms'[t] = sms[t]
      BY <1>3, <2>3
    <3> QED
      BY <2>3, <3>1, <3>2, <3>3
  <2> QED
    BY <1>4, <2>1, <2>2, <2>3
<1>7. queue # <<>> => /\ Head(queue) \in Queued(l)
                      /\ \A i \in 1 .. Len(Tail(queue)) : Tail(queue)[i] \in Queued(l)
  <2> SUFFICES ASSUME queue # <<>>
               PROVE  /\ Head(queue) \in Queued(l)
                      /\ \A i \in 1 .. Len(Tail(queue)) : Tail(queue)[i] \in Queued(l)
    OBVIOUS
  <2>1. PICK q \in Seq(Sms) : q = queue
    BY <1>3
  <2>2. /\ Head(q) = q[1] /\ 1 \in 1 .. Len(q)
        /\ \A i \in 1 .. Len(Tail(q)) : Tail(q)[i] = q[i + 1] /\ i + 1 \in 1 .. Len(q)
    BY <2>1
  <2> QED
    BY <2>1, <2>2 DEF Queued
<1>8. \A k \in List : Queued(k)' \subseteq Queued(k)
  <2>1. \A k \in List : k # l => Queued(k)' = Queued(k)
    BY <1>6, QueuedStays
  <2>2. Queued(l)' \subseteq Queued(l)
    <3>1. CASE UNCHANGED <<sms, list>>
      BY <3>1, QueuedStays
    <3>2. CASE queue # <<>> /\ list'[l].queue = Tail(queue)
      <4>1. \A t \in Queued(l)' : \E i \in 1 .. Len(Tail(queue)) : t = Tail(queue)[i]
        BY <3>2 DEF Queued
      <4> QED
        BY <1>7, <3>2, <4>1
    <3> QED
      BY <1>6, <3>1, <3>2
  <2> QED
    BY <2>1, <2>2
<1>9. ASSUME NEW k \in List, Unsent(k)'
      PROVE  Seen(k)' \/ (Unsent(k) /\ list'[k] = list[k])
  <2>1. CASE UNCHANGED <<sms, list>>
    BY <1>9, <2>1, UnsentStays
  <2>2. CASE ~UNCHANGED <<sms, list>> /\ k = l
    BY <1>6, <2>2 DEF Seen
  <2>3. CASE ~UNCHANGED <<sms, list>> /\ k # l
    <3>1. list'[k] = list[k] /\ queue # <<>>
      BY <1>6, <2>3
    <3>2. mine[Head(queue)] = l
      BY <1>7, <3>1 DEF WatchInv, Owned
    <3>3. \A t \in Queued(k) : mine[t] = k
      BY DEF WatchInv, Owned
    <3>4. \A t \in Queued(k) : sms'[t] = sms[t]
      BY <1>3, <1>6, <2>3, <3>2, <3>3
    <3> QED
      BY <1>9, <3>1, <3>4, UnsentStays
  <2> QED
    BY <2>1, <2>2, <2>3
<1>10. \A c \in Conn : Updating(c) => Updating(c)'
  BY <1>1, <1>5 DEF Updating
<1>11. \A k \in List : list'[k].conn = list[k].conn
  BY <1>6
<1> QED
  BY <1>1, <1>5, <1>8, <1>9, <1>10, <1>11, StepWatch

(* The signalling thread reads what mbts says of connection c.             *)
LEMMA EventWatch ==
  ASSUME Inv, Inv', WatchInv, NEW type, Reads(type), NEW c \in Conn,
         Head(toYate).conn = c,
         UNCHANGED <<pc, mine, sms, table, list, aside, link>>,
         \A d \in Conn : d # c => conn'[d] = conn[d],
         conn'[c].ue = conn[c].ue, conn[c].locUpd => conn'[c].locUpd,
         \/ conn'[c].state = conn[c].state /\ type \notin {"page", "update"}
              /\ ~(type = "lost" /\ conn[c].state = "up")
         \/ conn'[c].state = "up" /\ type \in {"page", "update"}
         \/ conn'[c].state = "removed" /\ type = "lost" /\ Releasing(c)',
         \A j \in 1 .. Len(sig') : sig'[j].list = None,
         \A l \in List : table = l =>
           \/ SigLooks(l)'
           \/ /\ ue.paging => ue'.paging
              /\ type = "sapi" => conn[c].state # "up" \/ ~conn[c].ue
  PROVE  WatchInv'
<1>1. /\ sig = <<>> /\ toYate # <<>> /\ toYate' = Tail(toYate) /\ Head(toYate).type = type
      /\ type \in {"page", "update"} => conn[c].state = "none"
  BY EventRead DEF Inv
<1>2. Watched /\ HasConn /\ Begun /\ Owned /\ LossTold
  BY DEF WatchInv
<1>3. /\ List = Sms /\ None \notin Sms /\ None \notin Conn
      /\ table \in List \cup {None} /\ toYate \in Seq(Events)
      /\ \A l \in List : list[l].conn \in Conn \cup {None}
      /\ \A d \in Conn : conn[d].state \in {"none", "up", "removed"}
  BY Types DEF Connections
<1>4. \A t, d : Told(t, d) /\ (type # t \/ c # d) => Told(t, d)'
  BY <1>1, <1>3, EventsLeft
<1>5. /\ \A d : Releasing(d) => Releasing(d)'
      /\ \A l : ~SigLooks(l) /\ (Resetting(l) => Resetting(l)')
  BY <1>1 DEF Releasing, SigLooks, Resetting
<1>6. \A d \in Conn : Updating(d) => Updating(d)'
  <2> SUFFICES ASSUME NEW d \in Conn, Updating(d)
               PROVE  Updating(d)'
    OBVIOUS
  <2>1. /\ conn[d].ue /\ conn[d].locUpd
        /\ conn[d].state = "up" \/ Releasing(d)'
    BY <1>5 DEF Updating
  <2>2. CASE d # c
    BY <2>1, <2>2 DEF Updating
  <2>3. CASE d = c
    BY <1>1, <2>1, <2>3 DEF Updating
  <2> QED
    BY <2>2, <2>3
<1>7. \A l \in List : table = l /\ list[l].conn = c =>
        conn[c].ue /\ conn[c].state \in {"up", "removed"}
  BY <1>2, <1>3 DEF HasConn
<1>8. Watched'
  <2> SUFFICES ASSUME NEW l \in List, table' = l, Unsent(l)', ~SigLooks(l)'
               PROVE  Seen(l)'
    BY WatchedIf DEF Seen
  <2>1. table = l /\ table # None /\ (ue.paging => ue'.paging)
    BY <1>3
  <2>2. Unsent(l)
    BY UnsentStays
  <2>3. Seen(l)
    BY <1>2, <2>1, <2>2 DEF Watched
  <2>4. \A d \in Conn : list[l].conn = d /\ Establishing(d) => Establishing(d)'
    <3> SUFFICES ASSUME NEW d \in Conn, list[l].conn = d, Establishing(d)
                 PROVE  Establishing(d)'
      OBVIOUS
    <3>1. CASE d # c
      <4>1. Told("sapi", d) => Told("sapi", d)'
        BY <1>4, <3>1
      <4> QED
        BY <3>1, <4>1 DEF Establishing
    <3>2. CASE d = c
      <4>1. CASE conn[c].state = "up"
        <5>1. type # "sapi"
          BY <1>7, <2>1, <3>2, <4>1
        <5>2. Told("sapi", c) => Told("sapi", c)'
          BY <1>4, <5>1
        <5> QED
          BY <3>2, <4>1, <5>2 DEF Establishing
      <4>2. CASE conn[c].state # "up"
        <5>1. conn'[c].state = "removed"
          BY <1>1, <1>7, <2>1, <3>2, <4>2
        <5> QED
          BY <3>2, <5>1 DEF Establishing
      <4> QED
        BY <4>1, <4>2
    <3> QED
      BY <3>1, <3>2
  <2>5. list[l].conn \in Conn \cup {None}
    BY <1>3
  <2> QED
    BY <1>5, <1>6, <2>1, <2>3, <2>4, <2>5, SeenStays
<1>9. HasConn'
  <2>1. \A d \in Conn : /\ conn[d].ue => conn'[d].ue
                        /\ conn[d].state # "none" => conn'[d].state # "none"
                        /\ conn'[d].state = "removed" =>
                             conn[d].state = "removed" \/ Releasing(d)'
    BY <1>1
  <2> QED
    BY <1>2, <1>5, <2>1, HasConnStays
<1>10. Begun' /\ Owned'
  <2>1. \A l \in List : Queued(l)' = Queued(l)
    BY QueuedStays
  <2> QED
    BY <1>2, <2>1, BegunStays
<1>11. LossTold'
  <2>1. Opens(Head(toYate)) <=> type \in {"page", "update"}
    BY <1>1 DEF Opens
  <2>2. \A d \in Conn :
           \/ conn'[d].state = conn[d].state
           \/ d = Head(toYate).conn /\ Opens(Head(toYate)) /\ conn'[d].state = "up"
           \/ d = Head(toYate).conn /\ type = "lost" /\ conn'[d].state = "removed"
    BY <2>1
  <2>3. Opens(Head(toYate)) => conn'[c].state = "up"
    BY <2>1
  <2>4. type = "lost" /\ conn[c].state = "up" => conn'[c].state = "removed"
    OBVIOUS
  <2>5. PICK m : m = Head(toYate)
    OBVIOUS
  <2>6. Opens(m) => conn'[c].state = "up"
    BY <2>3, <2>5
  <2> QED
    BY <1>2, <2>2, <2>3, <2>4, LossRead DEF Inv
<1> QED
  BY <1>8, <1>9, <1>10, <1>11 DEF WatchInv

LEMMA PagingResponseWatch ==
  ASSUME Inv, Inv', WatchInv, PagingResponse
  PROVE  WatchInv'
<1>1. Reads("page") /\ TypeOK /\ OpensOnce
  BY DEF PagingResponse, Inv
<1>2. PICK c \in Conn : Head(toYate).conn = c
  BY <1>1, EventRead
<1>3. /\ conn' = [conn EXCEPT ![c].state = "up"]
      /\ sig' = IF ue.paging THEN <<Job("setUE", None, c), Job("service", None, None)>>
                ELSE <<>>
      /\ ~ue.paging => UNCHANGED ue
      /\ UNCHANGED <<pc, mine, sms, table, list, aside, link>>
  BY <1>2 DEF PagingResponse
<1>4. /\ \A d \in Conn : d # c => conn'[d] = conn[d]
      /\ conn'[c].ue = conn[c].ue /\ conn'[c].locUpd = conn[c].locUpd
      /\ conn'[c].state = "up"
  BY <1>3, Types DEF Connections
<1>5. /\ \A j \in 1 .. Len(sig') : sig'[j].list = None
      /\ \A l \in List : ue.paging => SigLooks(l)'
  <2> DEFINE x == Job("setUE", None, c)
             y == Job("service", None, None)
  <2>1. x.list = None /\ y.list = None /\ y.op = "service"
    BY DEF Job
  <2> HIDE DEF x, y
  <2>2. Len(<<x, y>>) = 2 /\ <<x, y>>[1] = x /\ <<x, y>>[2] = y
    OBVIOUS
  <2>3. CASE ue.paging
    <3>1. sig' = <<x, y>>
      BY <1>3, <2>3 DEF x, y
    <3>2. \A j \in 1 .. Len(sig') : j = 1 \/ j = 2
      BY <2>2, <3>1
    <3>3. 2 \in 1 .. Len(sig') /\ sig'[2].op = "service"
      BY <2>1, <2>2, <3>1
    <3> QED
      BY <2>1, <2>2, <3>1, <3>2, <3>3 DEF SigLooks
  <2>4. CASE ~ue.paging
    BY <1>3, <2>4
  <2> QED
    BY <2>3, <2>4
<1> QED
  BY <1>1, <1>2, <1>3, <1>4, <1>5, EventWatch

LEMMA LocationUpdateWatch ==
  ASSUME Inv, Inv', WatchInv, LocationUpdate
  PROVE  WatchInv'
<1>1. Reads("update") /\ TypeOK /\ OpensOnce
  BY DEF LocationUpdate, Inv
<1>2. PICK c \in Conn : Head(toYate).conn = c
  BY <1>1, EventRead
<1>3. /\ conn' = [conn EXCEPT ![c].state = "up", ![c].locUpd = TRUE]
      /\ sig' = <<Job("setUE", None, c)>>
      /\ UNCHANGED <<pc, mine, sms, table, list, aside, link, ue>>
  BY <1>2 DEF LocationUpdate, radio
<1>4. /\ \A d \in Conn : d # c => conn'[d] = conn[d]
      /\ conn'[c].ue = conn[c].ue /\ (conn[c].locUpd => conn'[c].locUpd)
      /\ conn'[c].state = "up"
  BY <1>3, Types DEF Connections
<1>5. \A j \in 1 .. Len(sig') : sig'[j].list = None
  BY <1>3, Single DEF Job
<1>6. UNCHANGED <<pc, mine, sms, table, list, aside, link>> /\ (ue.paging => ue'.paging)
  BY <1>3
<1> QED
  BY <1>1, <1>2, <1>4, <1>5, <1>6, EventWatch

LEMMA SapiEstablishedWatch ==
  ASSUME Inv, Inv', WatchInv, SapiEstablished
  PROVE  WatchInv'
<1>1. Reads("sapi") /\ TypeOK /\ OpensOnce
  BY DEF SapiEstablished, Inv
<1>2. PICK c \in Conn : Head(toYate).conn = c
  BY <1>1, EventRead
<1>3. /\ IF conn[c].state = "up"
         THEN /\ conn' = [conn EXCEPT ![c].sapi = TRUE]
              /\ sig' = IF conn[c].ue THEN <<Job("service", None, None)>> ELSE <<>>
         ELSE UNCHANGED <<conn, sig>>
      /\ UNCHANGED <<pc, mine, sms, table, list, aside, link, ue>>
  BY <1>2 DEF SapiEstablished, radio
<1>4. /\ \A d \in Conn : d # c => conn'[d] = conn[d]
      /\ conn'[c].ue = conn[c].ue /\ conn'[c].locUpd = conn[c].locUpd
      /\ conn'[c].state = conn[c].state
  BY <1>3, Types DEF Connections
<1>5. sig = <<>>
  BY <1>1, EventRead
<1>6. /\ \A j \in 1 .. Len(sig') : sig'[j].list = None
      /\ conn[c].state = "up" /\ conn[c].ue => \A l \in List : SigLooks(l)'
  <2> DEFINE x == Job("service", None, None)
  <2>1. x.list = None /\ x.op = "service"
    BY DEF Job
  <2>2. CASE conn[c].state = "up" /\ conn[c].ue
    <3>1. sig' = <<x>>
      BY <1>3, <2>2
    <3> HIDE DEF x
    <3>2. Len(sig') = 1 /\ sig'[1] = x
      BY <3>1, Single
    <3> QED
      BY <2>1, <3>2 DEF SigLooks
  <2>3. CASE ~(conn[c].state = "up" /\ conn[c].ue)
    BY <1>3, <1>5, <2>3
  <2> QED
    BY <2>2, <2>3
<1> QED
  BY <1>1, <1>2, <1>3, <1>4, <1>6, EventWatch

LEMMA ConnLostWatch ==
  ASSUME Inv, Inv', WatchInv, ConnLost
  PROVE  WatchInv'
<1>1. Reads("lost") /\ TypeOK /\ OpensOnce
  BY DEF ConnLost, Inv
<1>2. PICK c \in Conn : Head(toYate).conn = c
  BY <1>1, EventRead
<1>3. /\ conn' = IF conn[c].state = "up"
                 THEN [conn EXCEPT ![c].state = "removed", ![c].usage = 0] ELSE conn
      /\ sig' = <<Then(c)>>
      /\ UNCHANGED <<pc, mine, sms, table, list, aside, link, ue>>
  BY <1>2 DEF ConnLost, radio
<1>4. /\ \A d \in Conn : d # c => conn'[d] = conn[d]
      /\ conn'[c].ue = conn[c].ue /\ conn'[c].locUpd = conn[c].locUpd
      /\ conn'[c].state = IF conn[c].state = "up" THEN "removed" ELSE conn[c].state
  BY <1>3, Types DEF Connections
<1>5. /\ \A j \in 1 .. Len(sig') : sig'[j].list = None
      /\ conn[c].state = "up" => Releasing(c)'
  <2> DEFINE x == Then(c)
  <2>1. /\ x.list = None /\ x.conn = c
        /\ conn[c].state = "up" => x.op = "released"
    BY DEF Then, Job
  <2>2. sig' = <<x>>
    BY <1>3
  <2> HIDE DEF x
  <2>3. Len(sig') = 1 /\ sig'[1] = x
    BY <2>2, Single
  <2> QED
    BY <2>1, <2>3 DEF Releasing
<1>6. UNCHANGED <<pc, mine, sms, table, list, aside, link>> /\ (ue.paging => ue'.paging)
  BY <1>3
<1>7. \/ conn'[c].state = conn[c].state /\ conn[c].state # "up"
      \/ conn'[c].state = "removed" /\ Releasing(c)'
  BY <1>4, <1>5
<1> QED
  BY <1>1, <1>2, <1>4, <1>5, <1>6, <1>7, EventWatch

LEMMA AnsweredWatch ==
  ASSUME Inv, Inv', WatchInv, Answered
  PROVE  WatchInv'
<1>1. Reads("answer") /\ TypeOK /\ OpensOnce
  BY DEF Answered, Inv
<1>2. PICK c \in Conn : Head(toYate).conn = c
  BY <1>1, EventRead
<1>3. UNCHANGED <<pc, mine, sms, table, list, aside, link, ue, conn>>
  BY DEF Answered, radio
<1>4. \A j \in 1 .. Len(sig') : sig'[j].list = None
  <2> DEFINE m == Head(toYate)
  <2>1. PICK x : x = [op |-> "answer", list |-> None, conn |-> m.conn,
                      ref |-> m.ref, sms |-> m.sms]
    OBVIOUS
  <2>2. sig' = <<x>> \/ sig' = <<>>
    BY <2>1 DEF Answered
  <2>3. x.list = None
    BY <2>1
  <2>4. CASE sig' = <<x>>
    BY <2>3, <2>4, Single
  <2>5. CASE sig' = <<>>
    BY <2>5
  <2> QED
    BY <2>2, <2>4, <2>5
<1> QED
  BY <1>1, <1>2, <1>3, <1>4, EventWatch

LEMMA UpdateCompleteWatch ==
  ASSUME Inv, Inv', WatchInv, NEW c \in Conn, UpdateComplete(c)
  PROVE  WatchInv'
<1>1. /\ sig = <<>> /\ sig' = <<Job("drop", None, c)>>
      /\ UNCHANGED <<mine, toYate, pc, sms, table, list, ue, conn, aside, link>>
  BY DEF UpdateComplete, radio
<1>2. /\ \A d : Releasing(d) => Releasing(d)'
      /\ \A l : ~SigLooks(l) /\ (Resetting(l) => Resetting(l)')
  BY <1>1 DEF Releasing, SigLooks, Resetting
<1>3. \A j \in 1 .. Len(sig') : sig'[j].list = None
  BY <1>1, Single DEF Job
<1>4. \A d \in Conn : Updating(d) => Updating(d)'
  BY <1>1, <1>2 DEF Updating
<1> QED
  BY <1>1, <1>2, <1>3, <1>4, JobWatch

-----------------------------------------------------------------------------
(* The threads beside it.                                                  *)

LEMMA AsideDone ==
  ASSUME Inv, NEW c \in Conn, NEW x, GoesAside(c, x), UNCHANGED sig
  PROVE  /\ \A d \in Conn : Releasing(d) /\ (aside[c].op # "released" \/ d # c)
                              => Releasing(d)'
         /\ \A l : Resetting(l) /\ (aside[c].op # "reset" \/ aside[c].list # l)
                     => Resetting(l)'
         /\ x.op = "released" => Releasing(c)'
         /\ \A l : x.op = "reset" /\ x.list = l => Resetting(l)'
         /\ \A l : SigLooks(l) => SigLooks(l)'
         /\ \A j \in 1 .. Len(sig') : \E i \in 1 .. Len(sig) : sig'[j].list = sig[i].list
<1>1. aside' = [aside EXCEPT ![c] = x] /\ UNCHANGED sig
  BY DEF GoesAside
<1>2. aside'[c] = x /\ \A d \in Conn : d # c => aside'[d] = aside[d]
  BY <1>1, Types
<1>3. \A d \in Conn : Releasing(d) /\ (aside[c].op # "released" \/ d # c) => Releasing(d)'
  BY <1>1, <1>2 DEF Releasing
<1>4. ASSUME NEW l, Resetting(l), aside[c].op # "reset" \/ aside[c].list # l
      PROVE  Resetting(l)'
  BY <1>1, <1>2, <1>4 DEF Resetting
<1>5. /\ x.op = "released" => Releasing(c)'
      /\ \A l : x.op = "reset" /\ x.list = l => Resetting(l)'
      /\ \A l : SigLooks(l) => SigLooks(l)'
  BY <1>1, <1>2 DEF Releasing, Resetting, SigLooks
<1> QED
  BY <1>1, <1>3, <1>4, <1>5

LEMMA BeginsAsideWatch ==
  ASSUME Inv, Inv', WatchInv, NEW c \in Conn, IdleTimeout(c) \/ UpdateFails(c)
  PROVE  WatchInv'
<1> DEFINE x == Job("drop", None, c)
<1>1. /\ aside[c].op = "none" /\ GoesAside(c, x)
      /\ UNCHANGED <<mine, toYate, pc, sms, table, list, ue, conn, sig, link>>
  BY DEF IdleTimeout, UpdateFails, DoesAside, radio
<1> HIDE DEF x
<1>2. /\ \A d \in Conn : Releasing(d) => Releasing(d)'
      /\ \A l : /\ SigLooks(l) => SigLooks(l)'
                /\ Resetting(l) => Resetting(l)'
      /\ \A j \in 1 .. Len(sig') : \E i \in 1 .. Len(sig) : sig'[j].list = sig[i].list
  BY <1>1, AsideDone
<1>3. \A d \in Conn : Updating(d) => Updating(d)'
  BY <1>1, <1>2 DEF Updating
<1> QED
  BY <1>1, <1>2, <1>3, JobWatch

LEMMA DropAsideWatch ==
  ASSUME Inv, Inv', WatchInv, NEW c \in Conn, DropAside(c)
  PROVE  WatchInv'
<1> DEFINE x == Then(c)
<1>1. /\ aside[c].op = "drop" /\ GoesAside(c, x) /\ dropConn(c)
      /\ UNCHANGED <<mine, toYate, pc, sms, table, list, ue, sig>>
  BY DEF DropAside, DoesAside
<1>2. conn[c].state = "up" => x.op = "released"
  BY DEF Then, Job
<1> HIDE DEF x
<1>3. /\ \A d \in Conn : Releasing(d) => Releasing(d)'
      /\ \A l : /\ SigLooks(l) => SigLooks(l)'
                /\ Resetting(l) => Resetting(l)'
      /\ \A j \in 1 .. Len(sig') : \E i \in 1 .. Len(sig) : sig'[j].list = sig[i].list
      /\ conn[c].state = "up" => Releasing(c)'
  BY <1>1, <1>2, AsideDone
<1> QED
  BY <1>1, <1>3, DroppedWatch

LEMMA ReleasedAsideWatch ==
  ASSUME Inv, Inv', WatchInv, NEW c \in Conn, ReleasedAside(c)
  PROVE  WatchInv'
<1>1. /\ aside[c].op \in {"released", "absent"}
      /\ GoesAside(c, IF Finds(aside[c].op, c) THEN Job("reset", table, c) ELSE Job("none", None, c))
      /\ UNCHANGED <<pc, mine, sms, table, list, ue, conn, sig, toYate, link>>
  BY DEF ReleasedAside, DoesAside, radio
<1>2. CASE ~Finds(aside[c].op, c)
  <2> DEFINE x == Job("none", None, c)
  <2>1. GoesAside(c, x)
    BY <1>1, <1>2
  <2> HIDE DEF x
  <2>2. /\ \A d \in Conn : Releasing(d) /\ (d # c \/ aside[c].op # "released") => Releasing(d)'
        /\ \A l : /\ SigLooks(l) => SigLooks(l)'
                  /\ Resetting(l) => Resetting(l)'
        /\ \A j \in 1 .. Len(sig') : \E i \in 1 .. Len(sig) : sig'[j].list = sig[i].list
    BY <1>1, <2>1, AsideDone
  <2>3. List = Sms /\ None \notin Sms
    BY Types
  <2>4. \A l \in List : table = l =>
          /\ list[l].conn # c
          /\ aside[c].op = "released" => ~(conn[c].ue /\ conn[c].locUpd)
    BY <1>1, <1>2, <2>3 DEF Finds
  <2>5. \A l \in List : table = l => \A d \in Conn : Updating(d) => Updating(d)'
    BY <1>1, <2>2, <2>4 DEF Updating
  <2> QED
    BY <1>1, <2>2, <2>4, <2>5, JobWatch
<1>3. CASE Finds(aside[c].op, c)
  <2>1. PICK l \in List : table = l
    BY <1>3, Types DEF Finds
  <2> DEFINE x == Job("reset", l, c)
  <2>2. GoesAside(c, x)
    BY <1>1, <1>3, <2>1
  <2>3. x.op = "reset" /\ x.list = l
    BY DEF Job
  <2> HIDE DEF x
  <2>4. /\ \A k : /\ SigLooks(k) => SigLooks(k)'
                  /\ Resetting(k) => Resetting(k)'
        /\ Resetting(l)'
        /\ \A j \in 1 .. Len(sig') : \E i \in 1 .. Len(sig) : sig'[j].list = sig[i].list
    BY <1>1, <2>2, <2>3, AsideDone
  <2> QED
    BY <1>1, <2>1, <2>4, JobWatch
<1> QED
  BY <1>2, <1>3

LEMMA ResetAsideWatch ==
  ASSUME Inv, Inv', WatchInv, NEW c \in Conn, ResetAside(c)
  PROVE  WatchInv'
<1>1. PICK l \in List : aside[c].op = "reset" /\ aside[c].list = l
  BY JobAside DEF ResetAside, DoesAside, Inv, TypeOK
<1>2. PICK x : GoesAside(c, x)
  BY DEF ResetAside
<1>3. Reset(l) /\ UNCHANGED <<pc, mine, table, conn, sig, toYate, link>>
  BY <1>1 DEF ResetAside, radio
<1>4. /\ \A k \in List : /\ SigLooks(k) => SigLooks(k)'
                         /\ k # l /\ Resetting(k) => Resetting(k)'
      /\ \A d \in Conn : Releasing(d) => Releasing(d)'
      /\ \A j \in 1 .. Len(sig') : \E i \in 1 .. Len(sig) : sig'[j].list = sig[i].list
  BY <1>1, <1>2, <1>3, AsideDone
<1> QED
  BY <1>3, <1>4, ResetWatch

LEMMA StopPagingAsideWatch ==
  ASSUME Inv, Inv', WatchInv, NEW c \in Conn, StopPagingAside(c)
  PROVE  WatchInv'
<1> DEFINE x == Job("none", None, c)
<1>1. /\ aside[c].op = "stopPaging" /\ GoesAside(c, x)
      /\ list' = [l \in List |-> [list[l] EXCEPT !.lapsed = @ \/ list[l].paging]]
      /\ UNCHANGED <<pc, mine, sms, table, conn, sig, toYate, link>>
  BY DEF StopPagingAside, DoesAside
<1> HIDE DEF x
<1>2. /\ \A d \in Conn : Releasing(d) => Releasing(d)'
      /\ \A l : /\ SigLooks(l) => SigLooks(l)'
                /\ Resetting(l) => Resetting(l)'
      /\ \A j \in 1 .. Len(sig') : \E i \in 1 .. Len(sig) : sig'[j].list = sig[i].list
  BY <1>1, AsideDone
<1> QED
  BY <1>1, <1>2, StoppedWatch

-----------------------------------------------------------------------------
(* mbts and the phone.                                                     *)

LEMMA RadioWatch ==
  ASSUME Inv, Inv', WatchInv, UNCHANGED yate, LossTold',
         \A type, c : Told(type, c) => Told(type, c)',
         \A c \in Conn :
           link[c] \in {"asked", "down"} =>
             link'[c] \in {"asked", "down"} \/ Told("sapi", c)'
  PROVE  WatchInv'
<1>1. UNCHANGED <<pc, mine, sms, table, list, ue, conn, sig, aside>>
  BY DEF yate
<1>2. Watched /\ HasConn /\ Begun /\ Owned
  BY DEF WatchInv
<1>3. /\ List = Sms /\ None \notin Sms /\ table \in List \cup {None}
      /\ \A l \in List : list[l].conn \in Conn \cup {None}
  BY Types
<1>4. /\ \A l : SigLooks(l)' <=> SigLooks(l)
      /\ \A c : Releasing(c)' <=> Releasing(c)
      /\ \A l : Resetting(l)' <=> Resetting(l)
      /\ \A c : Updating(c)' <=> Updating(c)
  BY <1>1 DEF SigLooks, Releasing, Resetting, Updating
<1>5. \A c \in Conn : Establishing(c) => Establishing(c)'
  BY <1>1 DEF Establishing
<1>6. Watched'
  <2> SUFFICES ASSUME NEW l \in List, table' = l, Unsent(l)'
               PROVE  Seen(l)'
    BY WatchedIf
  <2>1. Unsent(l)
    BY <1>1, UnsentStays
  <2>2. Seen(l)
    BY <1>1, <1>2, <1>3, <2>1 DEF Watched
  <2> QED
    BY <1>1, <1>3, <1>4, <1>5, <2>2, SeenStays
<1>7. HasConn' /\ Begun'
  BY <1>1, <1>2, <1>4 DEF HasConn, Begun
<1>8. Owned'
  <2>1. \A l \in List : Queued(l)' = Queued(l)
    BY <1>1, QueuedStays
  <2> QED
    BY <1>1, <1>2, <2>1 DEF Owned
<1> QED
  BY <1>6, <1>7, <1>8 DEF WatchInv

LEMMA ComesWatch ==
  ASSUME Inv, Inv', WatchInv, NEW type \in {"page", "update"}, NEW c \in Fresh,
         Comes(type, c), UNCHANGED yate
  PROVE  WatchInv'
<1>1. PICK m : m = [type |-> type, conn |-> c]
  OBVIOUS
<1>2. /\ c \in Conn /\ link[c] = "none" /\ UNCHANGED conn
      /\ link' = [link EXCEPT ![c] = "up"]
      /\ toYate' = Append(toYate, m)
  BY <1>1 DEF Comes, Fresh, yate
<1>3. m \in Events /\ Opens(m) /\ m.conn = c
  BY <1>1, <1>2 DEF Events, Opens
<1>4. /\ \A d \in Conn : d # c => link'[d] = link[d]
      /\ link'[c] = "up"
  BY <1>2, Types
<1>5. LossTold'
  BY <1>2, <1>3, <1>4, LossSent DEF Inv, WatchInv
<1>6. \A t, d : Told(t, d) => Told(t, d)'
  BY <1>2, <1>3, Types, EventsMore
<1> QED
  BY <1>2, <1>4, <1>5, <1>6, RadioWatch

LEMMA SapiComesUpWatch ==
  ASSUME Inv, Inv', WatchInv, NEW c \in Conn, SapiComesUp(c)
  PROVE  WatchInv'
<1>1. PICK m : m = [type |-> "sapi", conn |-> c]
  OBVIOUS
<1>2. /\ link[c] = "asked" /\ link' = [link EXCEPT ![c] = "up"]
      /\ toYate' = Append(toYate, m) /\ UNCHANGED yate
  BY <1>1 DEF SapiComesUp
<1>3. m \in Events /\ ~Opens(m) /\ m.conn = c /\ m.type = "sapi"
  BY <1>1 DEF Events, Opens
<1>4. (\A d \in Conn : d # c => link'[d] = link[d]) /\ link'[c] = "up"
  BY <1>2, Types
<1>5. UNCHANGED conn
  BY <1>2 DEF yate
<1>6. LossTold'
  BY <1>2, <1>3, <1>4, <1>5, LossSent DEF Inv, WatchInv
<1>7. (\A t, d : Told(t, d) => Told(t, d)') /\ Told("sapi", c)'
  <2>1. (\A t, d : Told(t, d) => Told(t, d)') /\ Told(m.type, m.conn)'
    BY <1>2, <1>3, Types, EventsMore
  <2> QED
    BY <1>3, <2>1
<1> QED
  BY <1>2, <1>4, <1>6, <1>7, RadioWatch

LEMMA LinkLostWatch ==
  ASSUME Inv, Inv', WatchInv, NEW c \in Conn, LinkLost(c)
  PROVE  WatchInv'
<1>1. PICK m : m = [type |-> "lost", conn |-> c]
  OBVIOUS
<1>2. /\ link[c] \in {"up", "asked"} /\ link' = [link EXCEPT ![c] = "down"]
      /\ toYate' = Append(toYate, m) /\ UNCHANGED yate
  BY <1>1 DEF LinkLost
<1>3. m \in Events /\ ~Opens(m) /\ m.conn = c /\ m.type = "lost"
  BY <1>1 DEF Events, Opens
<1>4. (\A d \in Conn : d # c => link'[d] = link[d]) /\ link'[c] = "down"
  BY <1>2, Types
<1>5. UNCHANGED conn
  BY <1>2 DEF yate
<1>6. LossTold'
  BY <1>2, <1>3, <1>4, <1>5, LossSent DEF Inv, WatchInv
<1>7. \A t, d : Told(t, d) => Told(t, d)'
  BY <1>2, <1>3, Types, EventsMore
<1> QED
  BY <1>2, <1>4, <1>6, <1>7, RadioWatch

LEMMA PhoneAnswersWatch ==
  ASSUME Inv, Inv', WatchInv, NEW o \in owed, PhoneAnswers(o)
  PROVE  WatchInv'
<1>1. PICK m : m = [type |-> "answer", conn |-> o.conn, ref |-> o.ref, sms |-> o.sms]
  OBVIOUS
<1>2. toYate' = Append(toYate, m) /\ UNCHANGED yate /\ UNCHANGED link
  BY <1>1 DEF PhoneAnswers
<1>3. o \in Debts
  BY DEF Inv, TypeOK, RadioTyped
<1>4. m \in Events /\ ~Opens(m)
  BY <1>1, <1>3 DEF Events, Opens, Debts
<1>5. UNCHANGED conn
  BY <1>2 DEF yate
<1>6. LossTold'
  BY <1>2, <1>4, <1>5, LossSent DEF Inv, WatchInv
<1>7. \A t, d : Told(t, d) => Told(t, d)'
  BY <1>2, <1>4, Types, EventsMore
<1> QED
  BY <1>2, <1>6, <1>7, RadioWatch

(* The phone leaves, or its page expires: mbts tells nobody.               *)
LEMMA SilentWatch ==
  ASSUME Inv, Inv', WatchInv, UNCHANGED yate, UNCHANGED <<toYate, link>>
  PROVE  WatchInv'
<1>1. LossTold'
  BY LossStays DEF WatchInv, yate
<1>2. \A t, d : Told(t, d) => Told(t, d)'
  BY DEF Told
<1> QED
  BY <1>1, <1>2, RadioWatch

-----------------------------------------------------------------------------
LEMMA WatchInit == Init => WatchInv
<1> SUFFICES ASSUME Init
             PROVE  WatchInv
  OBVIOUS
<1>1. List = Sms /\ None \notin Sms /\ None \notin Conn
  BY MtSmsAssumption DEF List, Conn
<1>2. \A l \in List : Queued(l) = {} /\ list[l].conn = None
  BY DEF Init, Queued
<1>3. /\ table = None /\ sig = <<>>
      /\ \A s \in Sms : mine[s] = None
      /\ \A c \in Conn : link[c] = "none"
  BY DEF Init
<1> QED
  BY <1>1, <1>2, <1>3 DEF WatchInv, Watched, HasConn, Begun, Owned, LossTold

LEMMA WatchNext == Inv /\ WatchInv /\ [Next]_vars => WatchInv'
<1> SUFFICES ASSUME Inv, WatchInv, [Next]_vars
             PROVE  WatchInv'
  OBVIOUS
<1>1. Inv'
  BY InvNext
<1>2. ASSUME NEW s \in Sms, Thread(s)
      PROVE  WatchInv'
  BY <1>1, <1>2, FindListWatch, AppendSmsWatch, CheckByThreadWatch, TakeCheckWatch,
     LeaveLoopWatch, RemoveSmsWatch, StopPagingByThreadWatch DEF Thread
<1>3. CASE Signalling
  BY <1>1, <1>3, DropConnWatch, ConnReleasedWatch, ResetListWatch, StopPagingBySigWatch, SetUEWatch,
     CheckServiceWatch, LookWatch, RemoveListWatch, FindAnsweredWatch, TakeWatch,
     PagingResponseWatch, LocationUpdateWatch, SapiEstablishedWatch, ConnLostWatch,
     AnsweredWatch, UpdateCompleteWatch DEF Signalling
<1>6. ASSUME NEW c \in Conn, Beside(c)
      PROVE  WatchInv'
  BY <1>1, <1>6, BeginsAsideWatch, DropAsideWatch, ReleasedAsideWatch, ResetAsideWatch,
     StopPagingAsideWatch DEF Beside
<1>4. CASE Mbts
  <2>1. CASE PhoneAnswersPage \/ PhoneUpdates
    BY <1>1, <2>1, ComesWatch DEF PhoneAnswersPage, PhoneUpdates
  <2>2. CASE PhoneLeaves \/ PagerExpires
    BY <1>1, <2>2, SilentWatch DEF PhoneLeaves, PagerExpires
  <2>3. CASE \E c \in Conn : SapiComesUp(c) \/ LinkLost(c)
    BY <1>1, <2>3, SapiComesUpWatch, LinkLostWatch
  <2>4. CASE \E o \in owed : PhoneAnswers(o)
    BY <1>1, <2>4, PhoneAnswersWatch
  <2> QED
    BY <1>4, <2>1, <2>2, <2>3, <2>4 DEF Mbts
<1>5. CASE UNCHANGED vars
  <2>1. UNCHANGED yate /\ UNCHANGED <<toYate, link>>
    BY <1>5 DEF vars, radio
  <2> QED
    BY <1>1, <2>1, SilentWatch
<1> QED
  BY <1>2, <1>3, <1>4, <1>5, <1>6 DEF Next

(* When nobody is in the middle of something, the message whose turn it is *)
(* has been sent, or somebody has been told to look, the phone is paged,   *)
(* SAP 3 is being established or a location update awaited: no wake-up is  *)
(* lost between the threads of the messages, the signalling thread and     *)
(* mbts, but those that lapsed marks.                                      *)
THEOREM NobodyIsForgotten == Spec => []NotForgotten
<1>1. Init => Inv /\ WatchInv
  BY InvInit, WatchInit
<1>2. Inv /\ WatchInv /\ [Next]_vars => (Inv /\ WatchInv)'
  BY InvNext, WatchNext
<1>3. Inv /\ WatchInv => NotForgotten
  <2> SUFFICES ASSUME Inv, WatchInv, Quiet, table # None, Pending(table) # <<>>,
                      ~sms[Head(Pending(table))].sent
               PROVE  \/ list[table].check \/ list[table].lapsed
                      \/ list[table].paging /\ ue.paging
                      \/ list[table].conn # None /\ link[list[table].conn] = "asked"
                      \/ list[table].conn = None /\ \E c \in Candidates : conn[c].locUpd
    BY DEF NotForgotten
  <2>1. PICK l \in List : table = l
    BY Types
  <2>2. /\ list[l].queue \in Seq(Sms) /\ List = Sms /\ None \notin Conn
        /\ list[l].conn \in Conn \cup {None}
        /\ \A s \in Queued(l) : s \in Sms
        /\ \A c \in Conn : conn[c].state \in {"none", "up", "removed"}
    BY <2>1, Types DEF Connections
  <2>3. /\ sig = <<>> /\ toYate = <<>> /\ \A s \in Sms : pc[s] \in {"idle", "wait", "done"}
        /\ \A c \in Conn : aside[c].op = "none"
    BY DEF Quiet
  <2>4. Unsent(l)
    BY <2>1, <2>2, PendingIsFirst DEF Unsent
  <2>5. Seen(l)
    BY <2>1, <2>4 DEF WatchInv, Watched
  <2>6. ~ThreadLooks(l) /\ ~ThreadLeaves(l) /\ ~SigLooks(l)
    BY <2>2, <2>3 DEF ThreadLooks, ThreadLeaves, SigLooks
  <2>7. /\ \A type, c : ~Told(type, c)
        /\ \A c \in Conn : ~Releasing(c)
        /\ \A k : ~Resetting(k)
    BY <2>3 DEF Told, Releasing, Resetting
  <2>8. Connects(l) => list[l].conn # None /\ link[list[l].conn] = "asked"
    <3> SUFFICES ASSUME list[l].conn # None, Establishing(list[l].conn)
                 PROVE  link[list[l].conn] = "asked"
      BY DEF Connects
    <3>1. PICK c \in Conn : list[l].conn = c
      BY <2>2
    <3>2. conn[c].state = "up"
      BY <2>1, <2>2, <2>7, <3>1, Types DEF WatchInv, HasConn
    <3>3. link[c] # "down"
      BY <2>3, <3>2 DEF WatchInv, LossTold
    <3>4. link[c] \in {"asked", "down"}
      BY <2>7, <3>1, <3>2 DEF Establishing
    <3> QED
      BY <3>1, <3>3, <3>4
  <2>9. AwaitsUpdate(l) => list[l].conn = None /\ \E c \in Candidates : conn[c].locUpd
    BY <2>7 DEF AwaitsUpdate, Updating, Candidates
  <2> QED
    BY <2>1, <2>5, <2>6, <2>7, <2>8, <2>9 DEF Seen, Paged
<1> QED
  BY <1>1, <1>2, <1>3, PTL DEF Spec

(* However many threads drop connections, and whichever of them is told    *)
(* first, no list in the table is left with a connection that is gone:     *)
(* until the list has been reset, a thread is about to find it or has      *)
(* found it.                                                               *)
THEOREM NobodyKeepsADeadConnection == Spec => []NoDeadConnection
<1>1. Init => Inv /\ WatchInv
  BY InvInit, WatchInit
<1>2. Inv /\ WatchInv /\ [Next]_vars => (Inv /\ WatchInv)'
  BY InvNext, WatchNext
<1>3. Inv /\ WatchInv => NoDeadConnection
  <2> SUFFICES ASSUME Inv, WatchInv, Quiet, NEW l \in List, NEW c \in Conn,
                      table = l, list[l].conn = c
               PROVE  conn[c].state = "up"
    BY Types DEF NoDeadConnection
  <2>1. sig = <<>> /\ \A d \in Conn : aside[d].op = "none"
    BY DEF Quiet
  <2>2. ~Releasing(c) /\ ~Resetting(l)
    BY <2>1 DEF Releasing, Resetting
  <2>3. conn[c].state \in {"none", "up", "removed"}
    BY Types DEF Connections
  <2> QED
    BY <2>2, <2>3 DEF WatchInv, HasConn
<1> QED
  BY <1>1, <1>2, <1>3, PTL DEF Spec

=============================================================================
