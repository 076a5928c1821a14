-------------------------- MODULE MtSmsOwnProofs ---------------------------
(***************************************************************************)
(* An answer ends its own message, whatever is sent again after a          *)
(* connection has been released, and however late the answer comes, as     *)
(* long as no list comes round its references: it counts them from 0, and  *)
(* again from 0 after Tids.                                                *)
(***************************************************************************)
EXTENDS MtSmsProofs

Unfound ==
  \A s \in Sms :
    /\ pc[s] = "idle" => mine[s] = None
    /\ pc[s] \in {"idle", "found"} => ~sms[s].sent /\ sms[s].callRef = None
    /\ pc[s] = "ended" => ~sms[s].active

(* Of the messages of a list that have not ended, only the first has been  *)
(* sent.                                                                   *)
IsFirst(l, s) == \E k \in 1 .. Len(list[l].queue) : First(l, k) /\ list[l].queue[k] = s
OneIsSentOf(l) == \A s \in Queued(l) : sms[s].active /\ sms[s].sent => IsFirst(l, s)
OneIsSent == \A l \in List : OneIsSentOf(l)

(* A reference that has been given is that of one message at most.         *)
RefsGiven ==
  \A s \in Sms : sms[s].callRef # None => sms[s].callRef < list[mine[s]].tid
Known(ref, s) ==
  /\ mine[s] # None /\ ref < list[mine[s]].tid
  /\ \A t \in Sms : mine[t] = mine[s] /\ sms[t].callRef = ref => t = s

Answers(ref, s) ==
  \/ \E o \in owed : o.ref = ref /\ o.sms = s
  \/ \E i \in 1 .. Len(toYate) :
       toYate[i].type = "answer" /\ toYate[i].ref = ref /\ toYate[i].sms = s
  \/ \E i \in 1 .. Len(sig) :
       sig[i].op \in {"answer", "take"} /\ sig[i].ref = ref /\ sig[i].sms = s
AnswersKnown == \A ref \in Ref, s \in Sms : Answers(ref, s) => Known(ref, s)

TakenOwn ==
  \A s \in Sms : taken[s] # None =>
    /\ mine[s] # None /\ mine[taken[s]] # None
    /\ mine[taken[s]] = mine[s] => taken[s] = s

OwnInv == Unfound /\ OneIsSent /\ RefsGiven /\ AnswersKnown /\ TakenOwn

(* No list has come to the last of its references.                         *)
NotRound == \A l \in List : list[l].tid < Tids - 1

-----------------------------------------------------------------------------
(* What a step does that sends nothing.                                    *)

LEMMA KnownStays ==
  ASSUME Inv, NEW ref \in Ref, NEW s \in Sms, Known(ref, s), UNCHANGED mine,
         \A l \in List : list'[l].tid = list[l].tid,
         \A t \in Sms : sms'[t].callRef = sms[t].callRef
  PROVE  Known(ref, s)'
BY Types DEF Known

LEMMA OwnRest ==
  ASSUME Inv, Inv', OwnInv, UNCHANGED mine,
         \A l \in List : list'[l].tid = list[l].tid,
         \A s \in Sms :
           /\ sms'[s].callRef = sms[s].callRef /\ (sms'[s].sent => sms[s].sent)
           /\ pc'[s] \in {"idle", "found"} => pc'[s] = pc[s]
           /\ pc'[s] = "ended" => ~sms'[s].active,
         TakenOwn', OneIsSent',
         \A ref \in Ref, s \in Sms : Answers(ref, s)' => Answers(ref, s)
  PROVE  OwnInv'
<1>1. Unfound'
  BY DEF OwnInv, Unfound
<1>2. RefsGiven'
  <2> SUFFICES ASSUME NEW s \in Sms, sms[s].callRef # None
               PROVE  sms[s].callRef < list'[mine[s]].tid
    BY DEF RefsGiven
  <2>1. mine[s] \in List
    BY Types DEF OwnInv, Unfound, Inv, TypeOK, Placed
  <2> QED
    BY <2>1 DEF OwnInv, RefsGiven
<1>3. AnswersKnown'
  BY KnownStays DEF OwnInv, AnswersKnown
<1> QED
  BY <1>1, <1>2, <1>3 DEF OwnInv

LEMMA OwnStep ==
  ASSUME Inv, Inv', OwnInv, UNCHANGED <<mine, taken>>,
         \A l \in List : list'[l].tid = list[l].tid,
         \A s \in Sms :
           /\ sms'[s].callRef = sms[s].callRef /\ (sms'[s].sent => sms[s].sent)
           /\ pc'[s] \in {"idle", "found"} => pc'[s] = pc[s]
           /\ pc'[s] = "ended" => ~sms'[s].active,
         OneIsSent',
         \A ref \in Ref, s \in Sms : Answers(ref, s)' => Answers(ref, s)
  PROVE  OwnInv'
<1>1. TakenOwn'
  BY DEF OwnInv, TakenOwn
<1> QED
  BY <1>1, OwnRest

(* A queue stays as it is, and no message of it is sent.                   *)
LEMMA FirstStays ==
  ASSUME NEW l, OneIsSentOf(l),
         list'[l].queue = list[l].queue,
         \A s \in Queued(l) : /\ sms'[s].active => sms[s].active
                              /\ sms'[s].sent => sms[s].sent
  PROVE  OneIsSentOf(l)'
<1> SUFFICES ASSUME NEW s \in Queued(l), sms'[s].active, sms'[s].sent
             PROVE  IsFirst(l, s)'
  BY QueuedStays DEF OneIsSentOf
<1>1. PICK k \in 1 .. Len(list[l].queue) : First(l, k) /\ list[l].queue[k] = s
  BY DEF OneIsSentOf, IsFirst
<1>2. \A j \in 1 .. Len(list[l].queue) : list[l].queue[j] \in Queued(l)
  BY DEF Queued
<1>3. ASSUME NEW j \in 1 .. k - 1
      PROVE  ~sms'[list[l].queue[j]].active
  <2>1. j \in 1 .. Len(list[l].queue)
    OBVIOUS
  <2> QED
    BY <1>1, <1>2, <2>1 DEF First
<1> QED
  BY <1>1, <1>3 DEF IsFirst, First

LEMMA QueuesStay ==
  ASSUME OneIsSent, \A l \in List : list'[l].queue = list[l].queue,
         \A l \in List : \A s \in Queued(l) : /\ sms'[s].active => sms[s].active
                                              /\ sms'[s].sent => sms[s].sent
  PROVE  OneIsSent'
BY FirstStays DEF OneIsSent

-----------------------------------------------------------------------------
(* The work of the signalling thread.                                      *)

(* Where each piece of the work comes from.                                *)
LEMMA WorkIs ==
  ASSUME NEW S, NEW T, sig \in Seq(S), sig # <<>>, NEW w \in Seq(T), Goes(w)
  PROVE  /\ Head(sig) = sig[1] /\ 1 \in 1 .. Len(sig) /\ Len(w) \in Nat
         /\ \A j \in 1 .. Len(sig') :
              \/ j \in 1 .. Len(w) /\ sig'[j] = w[j]
              \/ /\ j - Len(w) + 1 \in 1 .. Len(sig) /\ j - Len(w) + 1 # 1
                 /\ sig'[j] = sig[j - Len(w) + 1]
<1> DEFINE t == Tail(sig)
           n == Len(sig)
           m == Len(w)
           U == S \cup T
<1>0. sig \in Seq(U) /\ w \in Seq(U)
  OBVIOUS
<1> HIDE DEF U
<1>1. /\ n \in Nat /\ n > 0 /\ t \in Seq(U) /\ Len(t) = n - 1 /\ Head(sig) = sig[1]
      /\ \A i \in 1 .. n - 1 : t[i] = sig[i + 1]
  BY <1>0
<1>2. sig' = w \o t
  BY DEF Goes
<1> HIDE DEF t, n
<1>3. /\ Len(sig') = m + (n - 1) /\ m \in Nat
      /\ \A i \in 1 .. m : sig'[i] = w[i]
      /\ \A i \in 1 .. n - 1 : sig'[m + i] = t[i]
  BY <1>0, <1>1, <1>2, Joined
<1> HIDE DEF m
<1>4. ASSUME NEW j \in 1 .. Len(sig'), j \notin 1 .. m
      PROVE  j - m + 1 \in 1 .. n /\ j - m + 1 # 1 /\ sig'[j] = sig[j - m + 1]
  <2>1. j - m \in 1 .. n - 1 /\ m + (j - m) = j
    BY <1>1, <1>3, <1>4
  <2>2. sig'[j] = t[j - m] /\ t[j - m] = sig[(j - m) + 1]
    BY <1>1, <1>3, <2>1
  <2> QED
    BY <1>1, <2>1, <2>2
<1>5. 1 \in 1 .. n
  BY <1>1
<1> QED
  BY <1>1, <1>3, <1>4, <1>5 DEF n, m

(* A job is done, and what it leaves to do goes first.                     *)
LEMMA JobTells ==
  ASSUME Inv, sig # <<>>, NEW T, NEW w \in Seq(T), Goes(w),
         UNCHANGED toYate, owed' \subseteq owed,
         \A i \in 1 .. Len(w) : w[i].op \in {"answer", "take"} =>
           /\ Head(sig).op \in {"answer", "take"}
           /\ w[i].ref = Head(sig).ref /\ w[i].sms = Head(sig).sms
  PROVE  \A ref \in Ref, s \in Sms : Answers(ref, s)' => Answers(ref, s)
<1> DEFINE S == Work
<1>1. sig \in Seq(S)
  BY Types
<1> HIDE DEF S
<1>2. /\ Head(sig) = sig[1] /\ 1 \in 1 .. Len(sig)
      /\ \A j \in 1 .. Len(sig') :
           \/ \E i \in 1 .. Len(sig) : sig'[j] = sig[i]
           \/ \E i \in 1 .. Len(w) : sig'[j] = w[i]
  BY <1>1, WorkIs
<1> SUFFICES ASSUME NEW ref \in Ref, NEW s \in Sms, Answers(ref, s)'
             PROVE  Answers(ref, s)
  OBVIOUS
<1>3. CASE \E i \in 1 .. Len(sig') :
             sig'[i].op \in {"answer", "take"} /\ sig'[i].ref = ref /\ sig'[i].sms = s
  BY <1>2, <1>3 DEF Answers
<1> QED
  BY <1>3 DEF Answers

LEMMA JobOwn ==
  ASSUME Inv, Inv', OwnInv, sig # <<>>, NEW T, NEW w \in Seq(T), Goes(w),
         UNCHANGED <<pc, mine, taken, toYate>>, owed' \subseteq owed,
         \A l \in List : list'[l].tid = list[l].tid,
         \A s \in Sms : /\ sms'[s].callRef = sms[s].callRef
                        /\ sms'[s].sent => sms[s].sent
                        /\ sms'[s].active => sms[s].active,
         OneIsSent',
         \A i \in 1 .. Len(w) : w[i].op \in {"answer", "take"} =>
           /\ Head(sig).op \in {"answer", "take"}
           /\ w[i].ref = Head(sig).ref /\ w[i].sms = Head(sig).sms
  PROVE  OwnInv'
<1>1. \A ref \in Ref, s \in Sms : Answers(ref, s)' => Answers(ref, s)
  BY JobTells
<1>2. \A s \in Sms : pc[s] = "ended" => ~sms'[s].active
  BY DEF OwnInv, Unfound
<1> QED
  BY <1>1, <1>2, OwnStep

(* A message from mbts has been read, or an update is over.                *)
LEMMA EventOwn ==
  ASSUME Inv, Inv', OwnInv, sig = <<>>,
         UNCHANGED <<pc, mine, taken, sms, list, owed>>,
         \/ UNCHANGED toYate
         \/ toYate # <<>> /\ toYate' = Tail(toYate),
         \A i \in 1 .. Len(sig') : sig'[i].op \in {"answer", "take"} =>
           /\ toYate # <<>> /\ Head(toYate).type = "answer"
           /\ sig'[i].ref = Head(toYate).ref /\ sig'[i].sms = Head(toYate).sms
  PROVE  OwnInv'
<1>1. OneIsSent'
  BY QueuesStay DEF OwnInv
<1>2. /\ toYate # <<>> => Head(toYate) = toYate[1] /\ 1 \in 1 .. Len(toYate)
      /\ \A j \in 1 .. Len(toYate') : \E i \in 1 .. Len(toYate) : toYate'[j] = toYate[i]
  <2> DEFINE E == Events
  <2>1. toYate \in Seq(E)
    BY Types
  <2> HIDE DEF E
  <2>2. toYate # <<>> => Head(toYate) = toYate[1] /\ 1 \in 1 .. Len(toYate)
    BY <2>1
  <2>3. ASSUME toYate # <<>>, toYate' = Tail(toYate), NEW j \in 1 .. Len(toYate')
        PROVE  j + 1 \in 1 .. Len(toYate) /\ toYate'[j] = toYate[j + 1]
    BY <2>1, <2>3
  <2> QED
    BY <2>2, <2>3
<1>3. ASSUME NEW ref \in Ref, NEW s \in Sms, Answers(ref, s)'
      PROVE  Answers(ref, s)
  <2>1. CASE \E i \in 1 .. Len(sig') :
               sig'[i].op \in {"answer", "take"} /\ sig'[i].ref = ref /\ sig'[i].sms = s
    BY <1>2, <2>1 DEF Answers
  <2>2. CASE \E i \in 1 .. Len(toYate') :
               toYate'[i].type = "answer" /\ toYate'[i].ref = ref /\ toYate'[i].sms = s
    BY <1>2, <2>2 DEF Answers
  <2> QED
    BY <1>3, <2>1, <2>2 DEF Answers
<1>4. \A s \in Sms : pc[s] = "ended" => ~sms[s].active
  BY DEF OwnInv, Unfound
<1> QED
  BY <1>1, <1>3, <1>4, OwnStep

(* A step of mbts or of the phone.                                         *)
LEMMA RadioOwn ==
  ASSUME Inv, Inv', OwnInv, UNCHANGED yate,
         \A ref \in Ref, s \in Sms : Answers(ref, s)' => Answers(ref, s)
  PROVE  OwnInv'
<1>1. UNCHANGED <<pc, mine, sms, table, list, ue, conn, sig, taken>>
  BY DEF yate
<1>2. OneIsSent'
  BY <1>1, QueuesStay DEF OwnInv
<1>3. \A s \in Sms : pc[s] = "ended" => ~sms[s].active
  BY DEF OwnInv, Unfound
<1> QED
  BY <1>1, <1>2, <1>3, OwnStep

-----------------------------------------------------------------------------
(* What is left of a queue of which messages that have ended are taken.    *)

(* r is what is left of q, and f tells where it was. *)
Left(f, q, r) ==
  /\ Len(q) \in Nat /\ Len(r) \in Nat
  /\ \A j \in 1 .. Len(r) : f[j] \in 1 .. Len(q) /\ r[j] = q[f[j]]
  /\ \A i, j \in 1 .. Len(r) : i < j => f[i] < f[j]

LEMMA QueueCut ==
  ASSUME NEW l, OneIsSentOf(l), NEW f, Left(f, list[l].queue, list'[l].queue),
         \A k \in 1 .. Len(list[l].queue) :
           sms'[list[l].queue[k]].active => \E j \in 1 .. Len(list'[l].queue) : f[j] = k,
         \A s \in Queued(l) : /\ sms'[s].active => sms[s].active
                              /\ sms'[s].sent => sms[s].sent
  PROVE  OneIsSentOf(l)'
<1> DEFINE q == list[l].queue
           r == list'[l].queue
<1>0. Left(f, q, r)
  OBVIOUS
<1> SUFFICES ASSUME NEW i \in 1 .. Len(r), sms'[r[i]].active, sms'[r[i]].sent
             PROVE  \E j \in 1 .. Len(r) :
                      /\ r[j] = r[i] /\ sms'[r[j]].active
                      /\ \A h \in 1 .. j - 1 : ~sms'[r[h]].active
  BY DEF OneIsSentOf, Queued, IsFirst, First
<1>1. \A k \in 1 .. Len(q) : q[k] \in Queued(l)
  BY DEF Queued
<1>2. r[i] \in Queued(l)
  BY <1>0, <1>1 DEF Left
<1>3. PICK k \in 1 .. Len(q) : First(l, k) /\ q[k] = r[i]
  BY <1>2 DEF OneIsSentOf, IsFirst
<1>4. PICK j \in 1 .. Len(r) : f[j] = k
  BY <1>3
<1>5. r[j] = r[i]
  BY <1>0, <1>3, <1>4 DEF Left
<1>6. ASSUME NEW h \in 1 .. j - 1
      PROVE  ~sms'[r[h]].active
  <2>1. h \in 1 .. Len(r) /\ h < j
    BY <1>0, <1>4 DEF Left
  <2>2. f[h] \in 1 .. Len(q) /\ f[h] < k
    BY <1>0, <1>4, <2>1 DEF Left
  <2>3. f[h] \in 1 .. k - 1 /\ r[h] = q[f[h]]
    BY <1>0, <1>3, <2>1, <2>2 DEF Left
  <2>4. ~sms[r[h]].active
    BY <1>3, <2>3 DEF First
  <2> QED
    BY <1>1, <2>2, <2>3, <2>4
<1> QED
  BY <1>3, <1>4, <1>5, <1>6 DEF First

LEMMA TailCut ==
  ASSUME NEW l, OneIsSentOf(l),
         list[l].queue \in Seq(Sms), list[l].queue # <<>>,
         list'[l].queue = Tail(list[l].queue),
         ~sms'[Head(list[l].queue)].active,
         \A s \in Queued(l) : /\ sms'[s].active => sms[s].active
                              /\ sms'[s].sent => sms[s].sent
  PROVE  OneIsSentOf(l)'
<1> DEFINE q == list[l].queue
           f == [j \in 1 .. Len(q) |-> j + 1]
<1>1. /\ Len(q) \in Nat /\ Len(list'[l].queue) = Len(q) - 1 /\ Head(q) = q[1]
      /\ \A j \in 1 .. Len(q) - 1 : list'[l].queue[j] = q[j + 1]
      /\ Len(list'[l].queue) \in Nat
  OBVIOUS
<1>2. \A j \in 1 .. Len(q) - 1 : f[j] = j + 1 /\ f[j] \in 1 .. Len(q)
  BY <1>1
<1> HIDE DEF f
<1>3. \A i, j \in 1 .. Len(q) - 1 : i < j => f[i] < f[j]
  BY <1>1, <1>2
<1>4. ASSUME NEW k \in 1 .. Len(q), sms'[q[k]].active
      PROVE  \E j \in 1 .. Len(q) - 1 : f[j] = k
  <2>1. k # 1
    BY <1>1, <1>4
  <2>2. k - 1 \in 1 .. Len(q) - 1 /\ (k - 1) + 1 = k
    BY <1>1, <2>1
  <2> QED
    BY <1>2, <2>2
<1>5. Left(f, q, list'[l].queue)
  BY <1>1, <1>2, <1>3 DEF Left
<1>6. \A k \in 1 .. Len(q) :
        sms'[q[k]].active => \E j \in 1 .. Len(list'[l].queue) : f[j] = k
  BY <1>1, <1>4
<1> QED
  BY <1>5, <1>6, QueueCut

LEMMA RemovedCut ==
  ASSUME NEW l, OneIsSentOf(l),
         NEW e, list[l].queue \in Seq(Sms),
         list'[l].queue = RemoveFirst(list[l].queue, e), ~sms'[e].active,
         \A s \in Queued(l) : /\ sms'[s].active => sms[s].active
                              /\ sms'[s].sent => sms[s].sent
  PROVE  OneIsSentOf(l)'
<1> DEFINE q == list[l].queue
           r == RemoveFirst(q, e)
<1>1. CASE r = q
  BY <1>1, FirstStays
<1>2. CASE r # q
  <2> HIDE DEF q
  <2>0. q \in Seq(Sms)
    BY DEF q
  <2>1. PICK k \in 1 .. Len(q) :
          /\ q[k] = e /\ r \in Seq(Sms) /\ Len(r) = Len(q) - 1
          /\ \A i \in 1 .. k - 1 : r[i] = q[i]
          /\ \A i \in k .. Len(q) - 1 : r[i] = q[i + 1]
    BY <1>2, <2>0, RemovedIs
  <2> HIDE DEF r
  <2>2. Len(q) \in Nat /\ Len(r) \in Nat
    BY <2>0, <2>1
  <2> DEFINE f == [j \in 1 .. Len(q) |-> IF j < k THEN j ELSE j + 1]
  <2>3. \A j \in 1 .. Len(r) :
          f[j] = (IF j < k THEN j ELSE j + 1) /\ f[j] \in 1 .. Len(q)
    BY <2>1, <2>2
  <2> HIDE DEF f
  <2>4. \A i, j \in 1 .. Len(r) : i < j => f[i] < f[j]
    BY <2>1, <2>2, <2>3
  <2>5. ASSUME NEW j \in 1 .. Len(r)
        PROVE  r[j] = q[f[j]]
    <3>1. CASE j < k
      <4>1. j \in 1 .. k - 1
        BY <2>1, <2>2, <3>1
      <4> QED
        BY <2>1, <2>3, <3>1, <4>1
    <3>2. CASE ~(j < k)
      <4>1. j \in k .. Len(q) - 1
        BY <2>1, <2>2, <3>2
      <4> QED
        BY <2>1, <2>3, <3>2, <4>1
    <3> QED
      BY <3>1, <3>2
  <2>6. ASSUME NEW i \in 1 .. Len(q), sms'[q[i]].active
        PROVE  \E j \in 1 .. Len(r) : f[j] = i
    <3>1. i # k
      BY <2>1, <2>6
    <3>2. CASE i < k
      <4>1. i \in 1 .. Len(r)
        BY <2>1, <2>2, <3>2
      <4> QED
        BY <2>3, <3>2, <4>1
    <3>3. CASE ~(i < k)
      <4>1. i - 1 \in 1 .. Len(r) /\ ~(i - 1 < k) /\ (i - 1) + 1 = i
        BY <2>1, <2>2, <3>1, <3>3
      <4> QED
        BY <2>3, <4>1
    <3> QED
      BY <3>2, <3>3
  <2>7. list'[l].queue = r
    BY DEF r, q
  <2>8. Left(f, q, r)
    BY <2>2, <2>3, <2>4, <2>5 DEF Left
  <2> QED
    BY <2>6, <2>7, <2>8, QueueCut DEF q
<1> QED
  BY <1>1, <1>2

(* What checkMtSms leaves of the queue begins with the message whose turn  *)
(* it is, and no other that has not ended has been sent.                   *)
LEMMA PendingFirst ==
  ASSUME NEW l \in List, list[l].queue \in Seq(Sms), list'[l].queue = Pending(l),
         OneIsSentOf(l),
         \A s \in Queued(l) : sms'[s].active = sms[s].active,
         \A s \in Queued(l) : sms'[s].sent =>
           sms[s].sent \/ (Pending(l) # <<>> /\ s = Pending(l)[1])
  PROVE  OneIsSentOf(l)'
<1> DEFINE q == list[l].queue
           r == Pending(l)
<1>1. PICK n \in 0 .. Len(q) :
        /\ \A j \in 1 .. n : ~sms[q[j]].active
        /\ n < Len(q) => sms[q[n + 1]].active
        /\ r = SubSeq(q, n + 1, Len(q))
  BY PendingCut
<1>2. Len(q) \in Nat /\ r = SubSeq(q, n + 1, Len(q))
  BY <1>1
<1> HIDE DEF r
<1>3. /\ Len(r) = Len(q) - n
      /\ \A j \in 1 .. Len(q) - n : r[j] = q[n + j] /\ n + j \in 1 .. Len(q)
  <2> HIDE DEF q
  <2>1. q \in Seq(Sms)
    BY DEF q
  <2> QED
    BY <1>1, <1>2, <2>1
<1>4. \A k \in 1 .. Len(q) : q[k] \in Queued(l)
  BY DEF Queued
<1> SUFFICES ASSUME NEW i \in 1 .. Len(r), sms'[r[i]].active, sms'[r[i]].sent
             PROVE  \E j \in 1 .. Len(r) :
                      /\ r[j] = r[i] /\ sms'[r[j]].active
                      /\ \A h \in 1 .. j - 1 : ~sms'[r[h]].active
  BY DEF OneIsSentOf, Queued, IsFirst, First, r
<1>5. /\ n < Len(q) /\ 1 \in 1 .. Len(r) /\ r[1] = q[n + 1]
      /\ r[i] \in Queued(l) /\ sms[r[i]].active /\ r # <<>>
  <2>1. i \in 1 .. Len(q) - n
    BY <1>3
  <2>2. r[i] = q[n + i] /\ n + i \in 1 .. Len(q) /\ r[1] = q[n + 1]
    BY <1>1, <1>2, <1>3, <2>1
  <2>3. n < Len(q) /\ 1 \in 1 .. Len(r)
    BY <1>1, <1>2, <1>3, <2>1
  <2>4. r # <<>>
    BY <2>3
  <2> QED
    BY <1>4, <2>2, <2>3, <2>4
<1>6. r[i] = r[1]
  <2>1. CASE sms[r[i]].sent
    <3>1. PICK k \in 1 .. Len(q) : First(l, k) /\ q[k] = r[i]
      BY <1>5, <2>1 DEF OneIsSentOf, IsFirst
    <3>2. ~(k < n + 1)
      <4> SUFFICES ASSUME k < n + 1
                   PROVE  FALSE
        OBVIOUS
      <4>1. k \in 1 .. n
        BY <1>1
      <4> QED
        BY <1>1, <3>1, <4>1 DEF First
    <3>3. ~(n + 1 < k)
      <4> SUFFICES ASSUME n + 1 < k
                   PROVE  FALSE
        OBVIOUS
      <4>1. n + 1 \in 1 .. k - 1
        BY <1>1
      <4> QED
        BY <1>1, <1>5, <3>1, <4>1 DEF First
    <3>4. k = n + 1
      BY <1>1, <3>2, <3>3
    <3> QED
      BY <1>5, <3>1, <3>4
  <2>2. CASE ~sms[r[i]].sent
    BY <1>5, <2>2 DEF r
  <2> QED
    BY <2>1, <2>2
<1> QED
  BY <1>5, <1>6

-----------------------------------------------------------------------------
(* checkMtSms: a message that is sent gets the next reference of its list. *)

Sends(l, s) ==
  /\ sms' = [sms EXCEPT ![s].sent = TRUE, ![s].callRef = list[l].tid]
  /\ list'[l].tid = (list[l].tid + 1) % Tids
  /\ \A o \in owed' : o \in owed \/ (o.ref = list[l].tid /\ o.sms = s)

LEMMA SendOnSends ==
  ASSUME Inv, NEW l \in List, NEW lst \in Lists, lst.queue # <<>>, lst.tid = list[l].tid,
         NEW c \in Conn, SendOn(l, lst, c)
  PROVE  /\ \A k \in List : k # l => list'[k] = list[k]
         /\ list'[l].queue = lst.queue
         /\ \/ UNCHANGED <<sms, owed>> /\ list'[l].tid = list[l].tid
            \/ Sends(l, Head(lst.queue))
<1>1. list \in [List -> Lists]
  BY DEF Inv, TypeOK, YateTyped
<1>2. CASE ~conn[c].sapi
  <2>1. list' = [list EXCEPT ![l] = lst] /\ UNCHANGED <<sms, owed>>
    BY <1>2 DEF SendOn
  <2> QED
    BY <1>1, <2>1
<1>3. CASE conn[c].sapi
  <2> DEFINE s == Head(lst.queue)
             x == [lst EXCEPT !.tid = (lst.tid + 1) % Tids]
  <2>1. /\ list' = [list EXCEPT ![l] = x]
        /\ sms' = [sms EXCEPT ![s].sent = TRUE, ![s].callRef = list[l].tid]
        /\ owed' = IF Listening(c)
                   THEN owed \cup {[conn |-> c, ref |-> list[l].tid, sms |-> s]} ELSE owed
    BY <1>3 DEF SendOn
  <2> HIDE DEF s
  <2>2. x.queue = lst.queue /\ x.tid = (list[l].tid + 1) % Tids
    BY DEF Lists
  <2> HIDE DEF x
  <2>3. /\ list'[l] = x
        /\ \A k \in List : k # l => list'[k] = list[k]
    BY <1>1, <2>1
  <2>4. \A o \in owed' : o \in owed \/ (o.ref = list[l].tid /\ o.sms = s)
    BY <2>1
  <2> QED
    BY <2>1, <2>2, <2>3, <2>4 DEF Sends, s
<1> QED
  BY <1>2, <1>3

LEMMA CheckSends ==
  ASSUME Inv, NEW l \in List, checkMtSms(l)
  PROVE  /\ \A k \in List : k # l => list'[k] = list[k]
         /\ list'[l].queue = Pending(l)
         /\ \/ UNCHANGED <<sms, owed>> /\ list'[l].tid = list[l].tid
            \/ /\ Pending(l) # <<>> /\ ~sms[Head(Pending(l))].sent
               /\ Sends(l, Head(Pending(l)))
<1> DEFINE queue == Pending(l)
           lst == [list[l] EXCEPT !.queue = queue, !.lapsed = FALSE]
           u == IF list[l].paging THEN Counted(ue) ELSE ue
<1>1. /\ list \in [List -> Lists]       /\ list[l] \in Lists /\ list[l].queue \in Seq(Sms) /\ list[l].conn \in Conn \cup {None}
  BY Types
<1>2. queue \in Seq(Sms)
  BY <1>1, PendingIsQueue
<1> HIDE DEF queue
<1>3. \A p \in BOOLEAN : /\ [lst EXCEPT !.paging = p] \in Lists
                         /\ [lst EXCEPT !.paging = p].queue = queue
                         /\ [lst EXCEPT !.paging = p].tid = list[l].tid
  BY <1>1, <1>2 DEF Lists
<1>4. \A c \in Conn : /\ [lst EXCEPT !.paging = FALSE, !.conn = c] \in Lists
                      /\ [lst EXCEPT !.paging = FALSE, !.conn = c].queue = queue
                      /\ [lst EXCEPT !.paging = FALSE, !.conn = c].tid = list[l].tid
  BY <1>1, <1>2 DEF Lists
<1>5. lst \in Lists /\ lst.queue = queue /\ lst.tid = list[l].tid
  BY <1>1, <1>2 DEF Lists
<1> HIDE DEF lst
<1>6. \A x \in Lists : list' = [list EXCEPT ![l] = x] =>
        list'[l] = x /\ \A k \in List : k # l => list'[k] = list[k]
  BY <1>1
<1>7. CASE queue = <<>> \/ sms[Head(queue)].sent \/ (list[l].paging /\ ue.paging)
  <2>1. list' = [list EXCEPT ![l] = lst] /\ UNCHANGED <<sms, owed>>
    BY <1>7 DEF checkMtSms, queue, lst
  <2> QED
    BY <1>5, <1>6, <2>1 DEF queue
<1>8. CASE ~(queue = <<>> \/ sms[Head(queue)].sent \/ (list[l].paging /\ ue.paging))
  <2>1. CASE list' = [list EXCEPT ![l] = [lst EXCEPT !.paging = TRUE]]
               /\ UNCHANGED <<sms, owed>>
    BY <1>3, <1>6, <2>1 DEF queue
  <2>2. CASE list' = [list EXCEPT ![l] = [lst EXCEPT !.paging = FALSE]]
               /\ UNCHANGED <<sms, owed>>
    BY <1>3, <1>6, <2>2 DEF queue
  <2>3. CASE \E c \in Found :
               SendOn(l, [lst EXCEPT !.paging = FALSE, !.conn = c], c)
    <3>1. PICK c \in Conn :
            SendOn(l, [lst EXCEPT !.paging = FALSE, !.conn = c], c)
      BY <2>3 DEF Found, Candidates
    <3> DEFINE x == [lst EXCEPT !.paging = FALSE, !.conn = c]
    <3>2. x \in Lists /\ x.queue = queue /\ x.tid = list[l].tid /\ SendOn(l, x, c)
      BY <1>4, <3>1
    <3> HIDE DEF x
    <3> QED
      BY <1>8, <3>1, <3>2, SendOnSends DEF queue
  <2>4. CASE /\ list[l].conn # None
             /\ SendOn(l, [lst EXCEPT !.paging = FALSE], list[l].conn)
    <3>1. PICK c \in Conn : list[l].conn = c
      BY <1>1, <2>4
    <3> DEFINE x == [lst EXCEPT !.paging = FALSE]
    <3>2. x \in Lists /\ x.queue = queue /\ x.tid = list[l].tid /\ SendOn(l, x, c)
      BY <1>3, <2>4, <3>1
    <3> HIDE DEF x
    <3> QED
      BY <1>8, <2>4, <3>2, SendOnSends DEF queue
  <2> QED
    BY <1>8, <2>1, <2>2, <2>3, <2>4 DEF checkMtSms, queue, lst
<1> QED
  BY <1>7, <1>8

(* A message has been sent on its list, which has references enough.       *)
LEMMA SendOwn ==
  ASSUME Inv, Inv', OwnInv, NotRound, NEW l \in List, NEW s \in Sms, mine[s] = l,
         pc[s] \notin {"idle", "found"}, Sends(l, s),
         UNCHANGED <<mine, taken>>,
         \A k \in List : k # l => list'[k].tid = list[k].tid,
         \A t \in Sms : /\ pc'[t] \in {"idle", "found"} => pc'[t] = pc[t]
                        /\ pc'[t] = "ended" => pc[t] = "ended",
         OneIsSent',
         \A ref \in Ref, t \in Sms :
           Answers(ref, t)' => Answers(ref, t) \/ (ref = list[l].tid /\ t = s)
  PROVE  OwnInv'
<1>0. PICK tid \in Ref : tid = list[l].tid
  BY Types DEF Lists
<1>1. /\ sms \in [Sms -> Messages] /\ mine \in [Sms -> List \cup {None}] /\ List = Sms
      /\ \A k \in List : list[k].tid \in Ref
      /\ list[l] \in Lists /\ None \notin Sms
  BY Types DEF Lists
<1>2. (\A r \in Ref : r \in Nat) /\ None \notin Ref /\ Tids \in Nat
  BY MtSmsAssumption DEF Ref
<1>3. /\ sms' = [sms EXCEPT ![s].sent = TRUE, ![s].callRef = tid]
      /\ list'[l].tid = (tid + 1) % Tids
  BY <1>0 DEF Sends
<1>4. /\ \A t \in Sms : t # s => sms'[t] = sms[t]
      /\ sms'[s].sent /\ sms'[s].callRef = tid /\ sms'[s].active = sms[s].active
  BY <1>1, <1>3 DEF Messages
<1>5. tid \in Nat /\ tid + 1 < Tids
  BY <1>0, <1>2 DEF NotRound
<1>6. list'[l].tid = tid + 1
  BY <1>2, <1>3, <1>5
<1>7. ASSUME NEW k \in List
      PROVE  list[k].tid \in Nat /\ list'[k].tid \in Nat /\ list[k].tid <= list'[k].tid
  <2>1. CASE k = l
    BY <1>0, <1>5, <1>6, <2>1
  <2>2. CASE k # l
    <3>1. list[k].tid \in Nat /\ list'[k].tid = list[k].tid
      BY <1>1, <1>2, <2>2
    <3> QED
      BY <3>1
  <2> QED
    BY <2>1, <2>2
<1>8. \A t \in Sms : sms[t].callRef # None => mine[t] \in List
  BY Types DEF OwnInv, Unfound, Inv, TypeOK, Placed
<1>9. \A t \in Sms : sms[t].callRef \in Ref \cup {None}
  BY <1>1 DEF Messages
<1>10. RefsGiven'
  <2> SUFFICES ASSUME NEW t \in Sms, sms'[t].callRef # None
               PROVE  sms'[t].callRef < list'[mine[t]].tid
    BY DEF RefsGiven
  <2>1. CASE t = s
    BY <1>4, <1>5, <1>6, <2>1
  <2>2. CASE t # s
    <3>1. /\ sms[t].callRef < list[mine[t]].tid /\ mine[t] \in List
          /\ sms[t].callRef \in Nat /\ sms'[t].callRef = sms[t].callRef
      BY <1>2, <1>4, <1>8, <1>9, <2>2 DEF OwnInv, RefsGiven
    <3> QED
      BY <1>7, <3>1
  <2> QED
    BY <2>1, <2>2
<1>11. ASSUME NEW ref \in Ref, NEW t \in Sms, Known(ref, t)
       PROVE  Known(ref, t)'
  <2>1. mine[t] \in List /\ ref < list[mine[t]].tid /\ ref \in Nat
    BY <1>1, <1>2, <1>11 DEF Known
  <2>2. ref < list'[mine[t]].tid
    BY <1>7, <2>1
  <2>3. mine[s] = mine[t] => sms'[s].callRef # ref
    BY <1>0, <1>4, <1>5, <2>1
  <2> QED
    BY <1>4, <1>11, <2>1, <2>2, <2>3 DEF Known
<1>12. Known(tid, s)'
  <2>1. ASSUME NEW t \in Sms, mine[t] = mine[s], sms'[t].callRef = tid
        PROVE  t = s
    <3> SUFFICES ASSUME t # s
                 PROVE  FALSE
      OBVIOUS
    <3>1. sms[t].callRef = tid
      BY <1>4, <2>1
    <3>2. tid # None
      BY <1>2
    <3>3. tid < list[l].tid
      BY <2>1, <3>1, <3>2 DEF OwnInv, RefsGiven
    <3> QED
      BY <1>0, <1>5, <3>3
  <2>2. mine[s] # None /\ tid < list'[mine[s]].tid
    BY <1>1, <1>5, <1>6
  <2> QED
    BY <2>1, <2>2 DEF Known
<1>13. AnswersKnown'
  BY <1>0, <1>11, <1>12 DEF OwnInv, AnswersKnown
<1>14. Unfound'
  BY <1>4 DEF OwnInv, Unfound
<1>15. TakenOwn'
  BY DEF OwnInv, TakenOwn
<1> QED
  BY <1>10, <1>13, <1>14, <1>15 DEF OwnInv

LEMMA CheckOwn ==
  ASSUME Inv, Inv', WatchInv, OwnInv, NotRound, NEW l \in List, checkMtSms(l),
         UNCHANGED <<mine, taken, toYate>>,
         \A t \in Sms : /\ pc'[t] \in {"idle", "found"} => pc'[t] = pc[t]
                        /\ pc'[t] = "ended" => pc[t] = "ended",
         \A j \in 1 .. Len(sig') :
           sig'[j].op \in {"answer", "take"} => \E i \in 1 .. Len(sig) : sig'[j] = sig[i]
  PROVE  OwnInv'
<1>1. /\ \A k \in List : k # l => list'[k] = list[k]
      /\ list'[l].queue = Pending(l)
      /\ \/ UNCHANGED <<sms, owed>> /\ list'[l].tid = list[l].tid
         \/ /\ Pending(l) # <<>> /\ ~sms[Head(Pending(l))].sent
            /\ Sends(l, Head(Pending(l)))
  BY CheckSends
<1>2. /\ sms \in [Sms -> Messages] /\ List = Sms
      /\ \A k \in List : list[k].queue \in Seq(Sms)
      /\ \A k \in List : \A t \in Queued(k) : t \in Sms
  BY Types
<1>3. CASE UNCHANGED <<sms, owed>> /\ list'[l].tid = list[l].tid
  <2>1. OneIsSent'
    <3>1. OneIsSentOf(l)'
      BY <1>1, <1>2, <1>3, PendingFirst DEF OwnInv, OneIsSent
    <3>2. ASSUME NEW k \in List, k # l
          PROVE  OneIsSentOf(k)'
      BY <1>1, <1>3, <3>2, FirstStays DEF OwnInv, OneIsSent
    <3> QED
      BY <3>1, <3>2 DEF OneIsSent
  <2>2. \A ref \in Ref, s \in Sms : Answers(ref, s)' => Answers(ref, s)
    BY <1>3 DEF Answers
  <2>3. \A k \in List : list'[k].tid = list[k].tid
    BY <1>1, <1>3
  <2>4. \A t \in Sms : pc'[t] = "ended" => ~sms[t].active
    BY DEF OwnInv, Unfound
  <2> QED
    BY <1>3, <2>1, <2>2, <2>3, <2>4, OwnStep
<1>4. CASE /\ Pending(l) # <<>> /\ ~sms[Head(Pending(l))].sent
           /\ Sends(l, Head(Pending(l)))
  <2>1. /\ Head(Pending(l)) = Pending(l)[1]
        /\ \E k \in 1 .. Len(list[l].queue) : list[l].queue[k] = Pending(l)[1]
    BY <1>2, <1>4, PendingIsFirst
  <2>2. PICK s \in Sms : s = Pending(l)[1] /\ s \in Queued(l)
    BY <1>2, <2>1 DEF Queued
  <2>3. mine[s] = l /\ pc[s] \notin {"idle", "found"} /\ Sends(l, s)
    BY <1>4, <2>1, <2>2 DEF WatchInv, Owned
  <2>4. /\ \A t \in Sms : t # s => sms'[t] = sms[t]
        /\ sms'[s].active = sms[s].active
    BY <1>2, <2>3 DEF Sends, Messages
  <2>5. OneIsSent'
    <3>1. OneIsSentOf(l)'
      BY <1>1, <1>2, <1>4, <2>2, <2>4, PendingFirst DEF OwnInv, OneIsSent
    <3>2. ASSUME NEW k \in List, k # l
          PROVE  OneIsSentOf(k)'
      <4>1. s \notin Queued(k)
        BY <2>3, <3>2 DEF WatchInv, Owned
      <4>2. \A t \in Queued(k) : sms'[t] = sms[t]
        BY <1>2, <2>4, <4>1
      <4> QED
        BY <1>1, <3>2, <4>2, FirstStays DEF OwnInv, OneIsSent
    <3> QED
      BY <3>1, <3>2 DEF OneIsSent
  <2>6. \A ref \in Ref, t \in Sms :
          Answers(ref, t)' => Answers(ref, t) \/ (ref = list[l].tid /\ t = s)
    BY <2>3 DEF Answers, Sends
  <2> QED
    BY <1>1, <2>3, <2>5, <2>6, SendOwn
<1> QED
  BY <1>1, <1>3, <1>4

-----------------------------------------------------------------------------
(* The threads of the messages.                                            *)

LEMMA ThreadOwn ==
  ASSUME Inv, Inv', OwnInv, UNCHANGED <<mine, taken, sig, toYate>>, owed' \subseteq owed,
         \A l \in List : list'[l].tid = list[l].tid,
         \A s \in Sms :
           /\ sms'[s].callRef = sms[s].callRef /\ (sms'[s].sent => sms[s].sent)
           /\ pc'[s] \in {"idle", "found"} => pc'[s] = pc[s]
           /\ pc'[s] = "ended" => ~sms'[s].active,
         OneIsSent'
  PROVE  OwnInv'
<1>1. \A ref \in Ref, s \in Sms : Answers(ref, s)' => Answers(ref, s)
  BY DEF Answers
<1> QED
  BY <1>1, OwnStep

LEMMA FindListOwn ==
  ASSUME Inv, Inv', OwnInv, NEW s \in Sms, FindList(s)
  PROVE  OwnInv'
<1>1. /\ pc[s] = "idle" /\ pc' = [pc EXCEPT ![s] = "found"]
      /\ mine' = [mine EXCEPT ![s] = table']
      /\ UNCHANGED <<sms, list, conn, sig, taken, toYate, owed>>
  BY DEF FindList, radio
<1>2. /\ pc \in [Sms -> Pcs] /\ mine \in [Sms -> Sms \cup {None}] /\ List = Sms
      /\ taken \in [Sms -> Sms \cup {None}] /\ None \notin Ref
  BY Types, MtSmsAssumption DEF Inv, TypeOK, YateTyped, Ref
<1>3. mine[s] = None /\ ~sms[s].sent /\ sms[s].callRef = None
  BY <1>1 DEF OwnInv, Unfound
<1>4. /\ \A t \in Sms : t # s => pc'[t] = pc[t] /\ mine'[t] = mine[t]
      /\ pc'[s] = "found"
  BY <1>1, <1>2
<1>5. Unfound'
  BY <1>1, <1>3, <1>4 DEF OwnInv, Unfound
<1>6. OneIsSent'
  BY <1>1, QueuesStay DEF OwnInv
<1>7. RefsGiven'
  BY <1>1, <1>3, <1>4 DEF OwnInv, RefsGiven
<1>8. AnswersKnown'
  <2> SUFFICES ASSUME NEW ref \in Ref, NEW t \in Sms, Answers(ref, t)'
               PROVE  Known(ref, t)'
    BY DEF AnswersKnown
  <2>1. Answers(ref, t)
    BY <1>1 DEF Answers
  <2>2. Known(ref, t) /\ t # s
    BY <1>3, <2>1 DEF OwnInv, AnswersKnown, Known
  <2>3. mine'[t] = mine[t]
    BY <1>4, <2>2
  <2>4. \A u \in Sms : mine'[u] = mine'[t] /\ sms[u].callRef = ref => u # s
    BY <1>2, <1>3
  <2> QED
    BY <1>1, <1>4, <2>2, <2>3, <2>4 DEF Known
<1>9. TakenOwn'
  <2> SUFFICES ASSUME NEW t \in Sms, taken[t] # None
               PROVE  /\ mine'[t] # None /\ mine'[taken[t]] # None
                      /\ mine'[taken[t]] = mine'[t] => taken[t] = t
    BY <1>1 DEF TakenOwn
  <2>1. /\ mine[t] # None /\ mine[taken[t]] # None /\ taken[t] \in Sms
        /\ mine[taken[t]] = mine[t] => taken[t] = t
    BY <1>2 DEF OwnInv, TakenOwn
  <2> QED
    BY <1>3, <1>4, <2>1
<1> QED
  BY <1>5, <1>6, <1>7, <1>8, <1>9 DEF OwnInv

LEMMA AppendSmsOwn ==
  ASSUME Inv, Inv', OwnInv, NEW s \in Sms, AppendSms(s)
  PROVE  OwnInv'
<1>1. PICK l \in List : mine[s] = l
  BY DEF AppendSms, Inv, TypeOK, Placed
<1>2. /\ pc[s] = "found" /\ pc' = [pc EXCEPT ![s] = "appended"]
      /\ list' = [list EXCEPT ![l].queue = Append(@, s)]
      /\ UNCHANGED <<mine, sms, conn, sig, taken, toYate, owed>>
  BY <1>1 DEF AppendSms, radio
<1>3. /\ pc \in [Sms -> Pcs] /\ list \in [Sms -> Lists] /\ List = Sms
      /\ list[l].queue \in Seq(Sms)
  BY Types
<1>4. ~sms[s].sent
  BY <1>2 DEF OwnInv, Unfound
<1>5. pc'[s] = "appended" /\ \A t \in Sms : t # s => pc'[t] = pc[t]
  BY <1>2, <1>3
<1>6. /\ list'[l].queue = Append(list[l].queue, s)
      /\ \A k \in List : k # l => list'[k] = list[k]
      /\ \A k \in List : list'[k].tid = list[k].tid
  BY <1>2, <1>3 DEF Lists
<1> DEFINE q == list[l].queue
           r == Append(q, s)
<1>7. /\ Len(q) \in Nat /\ Len(r) = Len(q) + 1 /\ r[Len(q) + 1] = s
      /\ \A i \in 1 .. Len(q) : r[i] = q[i]
  BY <1>3
<1>8. OneIsSentOf(l)'
  <2> HIDE DEF q, r
  <2>0. list[l].queue = q /\ list'[l].queue = r
    BY <1>6 DEF q, r
  <2> SUFFICES ASSUME NEW t \in Queued(l)', sms[t].active, sms[t].sent
               PROVE  IsFirst(l, t)'
    BY <1>2 DEF OneIsSentOf
  <2>1. PICK i \in 1 .. Len(r) : t = r[i]
    BY <2>0 DEF Queued
  <2>2. i \in 1 .. Len(q) /\ t = q[i]
    BY <1>4, <1>7, <2>1
  <2>3. t \in Queued(l)
    BY <2>0, <2>2 DEF Queued
  <2>4. PICK k \in 1 .. Len(q) : First(l, k) /\ q[k] = t
    BY <2>0, <2>3 DEF OwnInv, OneIsSent, OneIsSentOf, IsFirst
  <2>5. k \in 1 .. Len(r) /\ r[k] = t
    BY <1>7, <2>4
  <2>6. ASSUME NEW j \in 1 .. k - 1
        PROVE  ~sms[r[j]].active
    <3>1. j \in 1 .. Len(q)
      BY <1>7
    <3> QED
      BY <1>7, <2>0, <2>4, <3>1 DEF First
  <2> QED
    BY <1>2, <2>0, <2>5, <2>6 DEF IsFirst, First
<1>9. ASSUME NEW k \in List, k # l
      PROVE  OneIsSentOf(k)'
  BY <1>2, <1>6, <1>9, FirstStays DEF OwnInv, OneIsSent
<1>10. OneIsSent'
  BY <1>8, <1>9 DEF OneIsSent
<1>11. \A t \in Sms : pc'[t] = "ended" => ~sms[t].active
  BY <1>5 DEF OwnInv, Unfound
<1> QED
  BY <1>2, <1>5, <1>6, <1>10, <1>11, ThreadOwn

LEMMA TakeCheckOwn ==
  ASSUME Inv, Inv', OwnInv, NEW s \in Sms, TakeCheck(s)
  PROVE  OwnInv'
<1>1. /\ pc' = [pc EXCEPT ![s] = "check"]
      /\ list' = [list EXCEPT ![mine[s]].check = FALSE]
      /\ UNCHANGED <<mine, sms, conn, sig, taken, toYate, owed>>
  BY DEF TakeCheck, radio
<1>2. /\ \A l \in List : list'[l].queue = list[l].queue /\ list'[l].tid = list[l].tid
      /\ \A t \in Sms : pc'[t] \in {"idle", "found", "ended"} => pc'[t] = pc[t]
  BY <1>1, Types DEF Lists
<1>3. OneIsSent'
  BY <1>1, <1>2, QueuesStay DEF OwnInv
<1>4. \A t \in Sms : pc'[t] = "ended" => ~sms[t].active
  BY <1>2 DEF OwnInv, Unfound
<1> QED
  BY <1>1, <1>2, <1>3, <1>4, ThreadOwn

LEMMA LeaveLoopOwn ==
  ASSUME Inv, Inv', OwnInv, NEW s \in Sms, LeaveLoop(s)
  PROVE  OwnInv'
<1>1. /\ pc' = [pc EXCEPT ![s] = "ended"]
      /\ sms' = [sms EXCEPT ![s].active = FALSE]
      /\ UNCHANGED <<mine, list, conn, sig, taken, toYate, owed>>
  BY DEF LeaveLoop, radio
<1>2. /\ pc \in [Sms -> Pcs] /\ sms \in [Sms -> Messages] /\ List = Sms
      /\ \A l \in List : \A t \in Queued(l) : t \in Sms
  BY Types
<1>3. /\ \A t \in Sms : t # s => pc'[t] = pc[t] /\ sms'[t] = sms[t]
      /\ pc'[s] = "ended" /\ ~sms'[s].active
      /\ sms'[s].sent = sms[s].sent /\ sms'[s].callRef = sms[s].callRef
  BY <1>1, <1>2 DEF Messages
<1>4. \A l \in List : \A t \in Queued(l) : /\ sms'[t].active => sms[t].active
                                           /\ sms'[t].sent => sms[t].sent
  BY <1>2, <1>3
<1>5. OneIsSent'
  BY <1>1, <1>4, QueuesStay DEF OwnInv
<1>6. \A t \in Sms : pc'[t] = "ended" => ~sms'[t].active
  BY <1>3 DEF OwnInv, Unfound
<1> QED
  BY <1>1, <1>3, <1>5, <1>6, ThreadOwn

(* A list that ends has no messages.                                       *)
LEMMA EndsEmpty ==
  ASSUME Inv, NEW l \in List, Destroyed(l)
  PROVE  /\ list'[l].queue = <<>>
         /\ \A k \in List : list'[k].tid = list[k].tid /\ (k # l => list'[k] = list[k])
         /\ UNCHANGED sms /\ OneIsSent => OneIsSent'
<1>1. /\ list \in [Sms -> Lists] /\ List = Sms
      /\ list' = [list EXCEPT ![l].paging = FALSE, ![l].conn = None, ![l].queue = <<>>]
  BY Types DEF Destroyed
<1>2. /\ list'[l].queue = <<>>
      /\ \A k \in List : list'[k].tid = list[k].tid /\ (k # l => list'[k] = list[k])
  BY <1>1 DEF Lists
<1>3. ASSUME UNCHANGED sms, OneIsSent
      PROVE  OneIsSent'
  <2>1. OneIsSentOf(l)'
    BY <1>2 DEF OneIsSentOf, Queued
  <2>2. ASSUME NEW k \in List, k # l
        PROVE  OneIsSentOf(k)'
    BY <1>2, <1>3, <2>2, FirstStays DEF OneIsSent
  <2> QED
    BY <2>1, <2>2 DEF OneIsSent
<1> QED
  BY <1>2, <1>3

LEMMA RemoveSmsOwn ==
  ASSUME Inv, Inv', OwnInv, NEW s \in Sms, RemoveSms(s)
  PROVE  OwnInv'
<1>1. PICK l \in List : mine[s] = l
  BY DEF RemoveSms, Inv, TypeOK, Placed
<1> DEFINE queue == RemoveFirst(list[l].queue, s)
<1>2. /\ pc[s] = "ended"
      /\ \/ Destroyed(l)
         \/ /\ list' = [list EXCEPT ![l].queue = queue,
                                    ![l].lapsed = @ \/ queue # list[l].queue]
            /\ UNCHANGED conn
      /\ \E to \in {"stopping", "done"} : pc' = [pc EXCEPT ![s] = to]
      /\ UNCHANGED <<mine, sms, sig, taken, toYate, owed>>
  BY <1>1 DEF RemoveSms, radio
<1>3. /\ pc \in [Sms -> Pcs] /\ list \in [Sms -> Lists] /\ List = Sms
      /\ list[l].queue \in Seq(Sms)
  BY Types
<1>4. \A t \in Sms : pc'[t] \in {"idle", "found", "ended"} => pc'[t] = pc[t]
  BY <1>2, <1>3
<1>5. \A t \in Sms : pc'[t] = "ended" => ~sms[t].active
  BY <1>4 DEF OwnInv, Unfound
<1>6. CASE Destroyed(l)
  BY <1>2, <1>4, <1>5, <1>6, EndsEmpty, ThreadOwn DEF OwnInv
<1>7. CASE /\ list' = [list EXCEPT ![l].queue = queue,
                                   ![l].lapsed = @ \/ queue # list[l].queue]
           /\ UNCHANGED conn
  <2> HIDE DEF queue
  <2>1. /\ list'[l].queue = queue
        /\ \A k \in List : list'[k].tid = list[k].tid /\ (k # l => list'[k] = list[k])
    BY <1>3, <1>7 DEF Lists
  <2>2. OneIsSentOf(l)'
    <3>1. ~sms'[s].active
      BY <1>2 DEF OwnInv, Unfound
    <3> QED
      BY <1>2, <1>3, <2>1, <3>1, RemovedCut DEF OwnInv, OneIsSent, queue
  <2>3. ASSUME NEW k \in List, k # l
        PROVE  OneIsSentOf(k)'
    BY <1>2, <2>1, <2>3, FirstStays DEF OwnInv, OneIsSent
  <2>4. OneIsSent'
    BY <2>2, <2>3 DEF OneIsSent
  <2> QED
    BY <1>2, <1>4, <1>5, <1>7, <2>1, <2>4, ThreadOwn
<1> QED
  BY <1>2, <1>6, <1>7

LEMMA StopPagingByThreadOwn ==
  ASSUME Inv, Inv', OwnInv, NEW s \in Sms, StopPagingByThread(s)
  PROVE  OwnInv'
<1>1. /\ pc' = [pc EXCEPT ![s] = "done"]
      /\ list' = [l \in List |-> [list[l] EXCEPT !.lapsed = @ \/ list[l].paging]]
      /\ UNCHANGED <<mine, sms, conn, sig, taken, toYate, owed>>
  BY DEF StopPagingByThread
<1>2. /\ \A l \in List : list'[l].queue = list[l].queue /\ list'[l].tid = list[l].tid
      /\ \A t \in Sms : pc'[t] \in {"idle", "found", "ended"} => pc'[t] = pc[t]
  BY <1>1, Types DEF Lists
<1>3. OneIsSent'
  BY <1>1, <1>2, QueuesStay DEF OwnInv
<1>4. \A t \in Sms : pc'[t] = "ended" => ~sms[t].active
  BY <1>2 DEF OwnInv, Unfound
<1> QED
  BY <1>1, <1>2, <1>3, <1>4, ThreadOwn

LEMMA CheckByThreadOwn ==
  ASSUME Inv, Inv', WatchInv, OwnInv, NotRound, NEW s \in Sms, CheckByThread(s)
  PROVE  OwnInv'
<1>1. PICK l \in List : mine[s] = l
  BY DEF CheckByThread, Inv, TypeOK, Placed
<1>2. /\ pc' = [pc EXCEPT ![s] = "wait"] /\ checkMtSms(l)
      /\ UNCHANGED <<mine, sig, taken, toYate>>
  BY <1>1 DEF CheckByThread
<1>3. \A t \in Sms : pc'[t] \in {"idle", "found", "ended"} => pc'[t] = pc[t]
  BY <1>2, Types
<1> QED
  BY <1>2, <1>3, CheckOwn

-----------------------------------------------------------------------------
(* The signalling thread.                                                  *)

(* At most one thing to do is left, which is no answer.                    *)
LEMMA PlainOwn ==
  ASSUME Inv, Inv', OwnInv, sig # <<>>, NEW x, Goes(<<>>) \/ Goes(<<x>>),
         x.op \notin {"answer", "take"},
         UNCHANGED <<pc, mine, taken, toYate>>, owed' \subseteq owed,
         \A l \in List : list'[l].tid = list[l].tid,
         \A s \in Sms : /\ sms'[s].callRef = sms[s].callRef
                        /\ sms'[s].sent => sms[s].sent
                        /\ sms'[s].active => sms[s].active,
         OneIsSent'
  PROVE  OwnInv'
<1>1. CASE Goes(<<>>)
  BY <1>1, Single, JobOwn
<1>2. CASE Goes(<<x>>)
  <2> DEFINE w == <<x>>
  <2>1. Goes(w) /\ w \in Seq({x}) /\ Len(w) = 1 /\ w[1] = x
    BY <1>2, Single
  <2> HIDE DEF w
  <2>2. \A i \in 1 .. Len(w) : w[i] = x
    BY <2>1
  <2> QED
    BY <2>1, <2>2, JobOwn
<1> QED
  BY <1>1, <1>2

(* What a release leaves of a list: nothing of it has been sent.           *)
LEMMA ResetOwn ==
  ASSUME Inv, OwnInv, NEW l \in List, Reset(l)
  PROVE  /\ \A k \in List : list'[k].tid = list[k].tid
         /\ \A s \in Sms : /\ sms'[s].callRef = sms[s].callRef
                           /\ sms'[s].sent => sms[s].sent
                           /\ sms'[s].active => sms[s].active
         /\ OneIsSent'
<1>1. /\ list \in [Sms -> Lists] /\ List = Sms /\ sms \in [Sms -> Messages]
      /\ \A k \in List : \A t \in Queued(k) : t \in Sms
  BY Types
<1>2. /\ list' = [list EXCEPT ![l].conn = None, ![l].paging = FALSE, ![l].check = TRUE]
      /\ sms' = [s \in Sms |->
                   IF sms[s].active /\ s \in ToSet(list[l].queue)
                   THEN [sms[s] EXCEPT !.sent = FALSE] ELSE sms[s]]
  BY DEF Reset
<1>3. \A k \in List : list'[k].queue = list[k].queue /\ list'[k].tid = list[k].tid
  BY <1>1, <1>2 DEF Lists
<1>4. \A s \in Sms : /\ sms'[s].callRef = sms[s].callRef
                     /\ sms'[s].sent => sms[s].sent
                     /\ sms'[s].active => sms[s].active
  BY <1>1, <1>2 DEF Messages
<1>5. OneIsSent'
  BY <1>1, <1>3, <1>4, QueuesStay DEF OwnInv
<1> QED
  BY <1>3, <1>4, <1>5

LEMMA DropConnOwn ==
  ASSUME Inv, Inv', OwnInv, DropConn
  PROVE  OwnInv'
<1>1. PICK x : x = Then(Head(sig).conn)
  OBVIOUS
<1>2. /\ sig # <<>> /\ Goes(<<x>>)
      /\ UNCHANGED <<pc, mine, sms, list, taken, toYate>> /\ owed' \subseteq owed
  BY <1>1 DEF DropConn, Does, dropConn
<1>3. x.op \in {"released", "absent"}
  BY <1>1 DEF Then, Job
<1>4. OneIsSent'
  BY <1>2, QueuesStay DEF OwnInv
<1> QED
  BY <1>2, <1>3, <1>4, PlainOwn

LEMMA ConnReleasedOwn ==
  ASSUME Inv, Inv', OwnInv, ConnReleased
  PROVE  OwnInv'
<1>1. PICK x : x = Job("reset", table, None)
  OBVIOUS
<1>2. /\ sig # <<>> /\ (Goes(<<>>) \/ Goes(<<x>>))
      /\ UNCHANGED <<pc, mine, sms, list, taken, toYate, owed>>
  BY <1>1 DEF ConnReleased, Does, radio
<1>3. x.op = "reset"
  BY <1>1 DEF Job
<1>4. OneIsSent'
  BY <1>2, QueuesStay DEF OwnInv
<1> QED
  BY <1>2, <1>3, <1>4, PlainOwn

LEMMA ResetListOwn ==
  ASSUME Inv, Inv', OwnInv, ResetList
  PROVE  OwnInv'
<1>1. sig # <<>> /\ Head(sig).op = "reset"
  BY DEF ResetList, Does
<1>2. PICK l \in List : Head(sig).list = l
  BY <1>1, HeadOfWork DEF Inv, TypeOK
<1>3. PICK x : x = Job("stopPaging", None, None)
  OBVIOUS
<1>4. /\ Reset(l) /\ (Goes(<<>>) \/ Goes(<<x>>))
      /\ UNCHANGED <<pc, mine, taken, toYate, owed>>
  BY <1>2, <1>3 DEF ResetList, radio
<1>5. x.op = "stopPaging"
  BY <1>3 DEF Job
<1>6. /\ \A k \in List : list'[k].tid = list[k].tid
      /\ \A s \in Sms : /\ sms'[s].callRef = sms[s].callRef
                        /\ sms'[s].sent => sms[s].sent
                        /\ sms'[s].active => sms[s].active
      /\ OneIsSent'
  BY <1>4, ResetOwn
<1> QED
  BY <1>1, <1>4, <1>5, <1>6, PlainOwn

LEMMA StopPagingBySigOwn ==
  ASSUME Inv, Inv', OwnInv, StopPagingBySig
  PROVE  OwnInv'
<1>1. /\ sig # <<>> /\ Goes(<<>>)
      /\ list' = [l \in List |-> [list[l] EXCEPT !.lapsed = @ \/ list[l].paging]]
      /\ UNCHANGED <<pc, mine, sms, conn, taken, toYate, owed>>
  BY DEF StopPagingBySig, Does
<1>2. \A l \in List : list'[l].queue = list[l].queue /\ list'[l].tid = list[l].tid
  BY <1>1, Types DEF Lists
<1>3. OneIsSent'
  BY <1>1, <1>2, QueuesStay DEF OwnInv
<1> QED
  BY <1>1, <1>2, <1>3, Single, JobOwn

LEMMA SetUEOwn ==
  ASSUME Inv, Inv', OwnInv, SetUE
  PROVE  OwnInv'
<1>1. sig # <<>> /\ Head(sig).op = "setUE"
  BY DEF SetUE, Does
<1>2. PICK c \in Conn : Head(sig).conn = c
  BY <1>1, HeadOfWork DEF Inv, TypeOK
<1>3. PICK S : S = Candidates \ {c}
  OBVIOUS
<1> DEFINE q == SetToSeq(S)
           w == [i \in DOMAIN q |-> Job("drop", None, q[i])]
           T == Work
<1>4. /\ UNCHANGED <<pc, mine, sms, list, taken, toYate, owed>>
      /\ Goes(w)
  BY <1>2, <1>3 DEF SetUE, radio
<1>5. w \in Seq(T)
  <2>1. S \in SUBSET Conn
    BY <1>3 DEF Candidates
  <2> QED
    BY <2>1, DropsTyped
<1>6. \A i \in DOMAIN w : w[i].op = "drop"
  BY DEF Job
<1> HIDE DEF w, T
<1>7. \A i \in 1 .. Len(w) : w[i].op = "drop"
  BY <1>5, <1>6
<1>8. OneIsSent'
  BY <1>4, QueuesStay DEF OwnInv
<1> QED
  BY <1>1, <1>4, <1>5, <1>7, <1>8, JobOwn

LEMMA CheckServiceOwn ==
  ASSUME Inv, Inv', OwnInv, CheckService
  PROVE  OwnInv'
<1>0. PICK x : x = Job("look", table, None)
  OBVIOUS
<1>1. /\ sig # <<>> /\ (Goes(<<>>) \/ Goes(<<x>>))
      /\ UNCHANGED <<pc, mine, sms, list, conn, taken, toYate, owed>>
  BY <1>0 DEF CheckService, Does, radio
<1>2. x.op = "look"
  BY <1>0 DEF Job
<1>3. OneIsSent'
  BY <1>1, QueuesStay DEF OwnInv
<1> QED
  BY <1>1, <1>2, <1>3, PlainOwn

LEMMA RemoveListOwn ==
  ASSUME Inv, Inv', OwnInv, RemoveList
  PROVE  OwnInv'
<1>1. sig # <<>> /\ Head(sig).op = "remove"
  BY DEF RemoveList, Does
<1>2. PICK l \in List : Head(sig).list = l
  BY <1>1, HeadOfWork DEF Inv, TypeOK
<1> DEFINE x == Job("stopPaging", None, None)
<1>3. /\ Destroyed(l) \/ UNCHANGED list
      /\ Goes(<<>>) \/ Goes(<<x>>)
      /\ UNCHANGED <<pc, mine, sms, taken, toYate, owed>>
  BY <1>2 DEF RemoveList, radio
<1>4. x.op = "stopPaging"
  BY DEF Job
<1> HIDE DEF x
<1>5. /\ \A k \in List : list'[k].tid = list[k].tid
      /\ OneIsSent'
  <2>1. CASE Destroyed(l)
    BY <1>3, <2>1, EndsEmpty DEF OwnInv
  <2>2. CASE UNCHANGED list
    BY <1>3, <2>2, QueuesStay DEF OwnInv
  <2> QED
    BY <1>3, <2>1, <2>2
<1> QED
  BY <1>1, <1>3, <1>4, <1>5, PlainOwn

LEMMA LookOwn ==
  ASSUME Inv, Inv', WatchInv, OwnInv, NotRound, Look
  PROVE  OwnInv'
<1>1. sig # <<>> /\ Head(sig).op = "look"
  BY DEF Look, Does
<1>2. PICK l \in List : Head(sig).list = l
  BY <1>1, HeadOfWork DEF Inv, TypeOK
<1> DEFINE x == Job("remove", l, None)
<1>3. /\ checkMtSms(l) /\ UNCHANGED <<pc, mine, taken, toYate>>
      /\ Goes(<<>>) \/ Goes(<<x>>)
  BY <1>2 DEF Look
<1>4. x.op = "remove"
  BY DEF Job
<1> HIDE DEF x
<1>5. PICK w \in Seq({x}) : Goes(w) /\ \A i \in 1 .. Len(w) : w[i].op = "remove"
  <2>1. CASE Goes(<<>>)
    BY <2>1, Single
  <2>2. CASE Goes(<<x>>)
    <3> DEFINE v == <<x>>
    <3>1. Goes(v) /\ v \in Seq({x}) /\ Len(v) = 1 /\ v[1] = x
      BY <2>2, Single
    <3> HIDE DEF v
    <3>2. \A i \in 1 .. Len(v) : v[i].op = "remove"
      BY <1>4, <3>1
    <3> QED
      BY <3>1, <3>2
  <2> QED
    BY <1>3, <2>1, <2>2
<1> DEFINE S == Work
<1>6. sig \in Seq(S)
  BY Types
<1> HIDE DEF S
<1>7. \A j \in 1 .. Len(sig') :
        sig'[j].op \in {"answer", "take"} => \E i \in 1 .. Len(sig) : sig'[j] = sig[i]
  BY <1>1, <1>5, <1>6, WorkIs
<1>8. \A t \in Sms : pc'[t] = pc[t]
  BY <1>3
<1> QED
  BY <1>3, <1>7, <1>8, CheckOwn

LEMMA FindAnsweredOwn ==
  ASSUME Inv, Inv', OwnInv, FindAnswered
  PROVE  OwnInv'
<1>1. /\ sig # <<>> /\ Head(sig).op = "answer"
      /\ Goes(IF table = None THEN <<>>
              ELSE <<[Head(sig) EXCEPT !.op = "take", !.list = table]>>)
      /\ UNCHANGED <<pc, mine, sms, list, conn, taken, toYate, owed>>
  BY DEF FindAnswered, Does, radio
<1>2. Head(sig) \in [op: {"answer", "take"}, list: List \cup {None},
                     conn: Conn, ref: Ref, sms: Sms]
  BY <1>1, HeadOfWork DEF Inv, TypeOK
<1>3. PICK x : x = [Head(sig) EXCEPT !.op = "take", !.list = table]
  OBVIOUS
<1>4. x.op = "take" /\ x.ref = Head(sig).ref /\ x.sms = Head(sig).sms
  BY <1>2, <1>3
<1>5. OneIsSent'
  BY <1>1, QueuesStay DEF OwnInv
<1>6. CASE Goes(<<>>)
  BY <1>1, <1>5, <1>6, Single, JobOwn
<1>7. CASE Goes(<<x>>)
  <2> DEFINE w == <<x>>
  <2>1. Goes(w) /\ w \in Seq({x}) /\ Len(w) = 1 /\ w[1] = x
    BY <1>7, Single
  <2> HIDE DEF w
  <2>2. \A i \in 1 .. Len(w) : w[i] = x
    BY <2>1
  <2> QED
    BY <1>1, <1>4, <1>5, <2>1, <2>2, JobOwn
<1> QED
  BY <1>1, <1>3, <1>6, <1>7

LEMMA TakeOwn ==
  ASSUME Inv, Inv', WatchInv, OwnInv, Take
  PROVE  OwnInv'
<1>1. /\ sig # <<>> /\ Head(sig).op = "take" /\ TakeAnswer(Head(sig))
      /\ UNCHANGED <<pc, mine, conn, toYate, owed>>
  BY DEF Take, Does, radio
<1>2. PICK l \in List : Head(sig).list = l
  BY <1>1, HeadOfWork DEF Inv, TypeOK
<1>3. PICK ref \in Ref, a \in Sms : Head(sig).ref = ref /\ Head(sig).sms = a
  <2>1. Head(sig) \in [op: {"answer", "take"}, list: List \cup {None},
                       conn: Conn, ref: Ref, sms: Sms]
    BY <1>1, HeadOfWork DEF Inv, TypeOK
  <2> QED
    BY <2>1
<1>4. /\ list \in [Sms -> Lists] /\ List = Sms /\ sms \in [Sms -> Messages]
      /\ taken \in [Sms -> Sms \cup {None}] /\ None \notin Sms
      /\ \A k \in Sms : list[k].queue \in Seq(Sms)
      /\ \A k \in Sms : \A t \in Queued(k) : t \in Sms
  BY Types DEF Inv, TypeOK, YateTyped
<1> DEFINE queue == list[l].queue
<1>5. CASE queue = <<>>
  <2> DEFINE x == Job("remove", l, None)
  <2>1. Goes(<<x>>) /\ UNCHANGED <<sms, list, taken>>
    BY <1>1, <1>2, <1>5 DEF TakeAnswer
  <2>2. x.op = "remove"
    BY DEF Job
  <2>3. OneIsSent'
    BY <2>1, QueuesStay DEF OwnInv
  <2> HIDE DEF x
  <2> QED
    BY <1>1, <2>1, <2>2, <2>3, PlainOwn
<1>6. CASE queue # <<>> /\ ~sms[Head(queue)].active
  <2>1. PICK x : x = [Head(sig) EXCEPT !.op = "answer", !.list = None]
    OBVIOUS
  <2>2. /\ list' = [list EXCEPT ![l].queue = Tail(@), ![l].lapsed = TRUE]
        /\ Goes(<<x>>) /\ UNCHANGED <<sms, taken>>
    BY <1>1, <1>2, <1>6, <2>1 DEF TakeAnswer
  <2>3. x.op = "answer" /\ x.ref = ref /\ x.sms = a
    <3>1. Head(sig) \in [op: {"answer", "take"}, list: List \cup {None},
                         conn: Conn, ref: Ref, sms: Sms]
      BY <1>1, HeadOfWork DEF Inv, TypeOK
    <3> QED
      BY <1>3, <2>1, <3>1
  <2>4. /\ list'[l].queue = Tail(queue)
        /\ \A k \in List : list'[k].tid = list[k].tid /\ (k # l => list'[k] = list[k])
    BY <1>4, <2>2 DEF Lists
  <2>5. OneIsSent'
    <3>1. OneIsSentOf(l)'
      BY <1>4, <1>6, <2>2, <2>4, TailCut DEF OwnInv, OneIsSent
    <3>2. ASSUME NEW k \in List, k # l
          PROVE  OneIsSentOf(k)'
      BY <2>2, <2>4, <3>2, FirstStays DEF OwnInv, OneIsSent
    <3> QED
      BY <3>1, <3>2 DEF OneIsSent
  <2> DEFINE w == <<x>>
  <2>6. Goes(w) /\ w \in Seq({x}) /\ Len(w) = 1 /\ w[1] = x
    BY <2>2, Single
  <2> HIDE DEF w
  <2>7. \A i \in 1 .. Len(w) : w[i] = x
    BY <2>6
  <2> QED
    BY <1>1, <1>3, <2>2, <2>3, <2>4, <2>5, <2>6, <2>7, JobOwn
<1>7. CASE /\ queue # <<>> /\ sms[Head(queue)].active
           /\ sms[Head(queue)].callRef # ref
  <2>1. Goes(<<>>) /\ UNCHANGED <<sms, list, taken>>
    BY <1>1, <1>2, <1>3, <1>7 DEF TakeAnswer
  <2>2. OneIsSent'
    BY <2>1, QueuesStay DEF OwnInv
  <2> QED
    BY <1>1, <2>1, <2>2, Single, JobOwn
(* The message at the head has the answer's reference, as has the one that *)
(* is answered: they are one.                                              *)
<1>8. CASE /\ queue # <<>> /\ sms[Head(queue)].active
           /\ sms[Head(queue)].callRef = ref
  <2>1. PICK s \in Sms : s = Head(queue) /\ s \in Queued(l)
    <3>1. PICK q \in Seq(Sms) : q = queue
      BY <1>4
    <3>2. Head(q) = q[1] /\ 1 \in 1 .. Len(q) /\ q[1] \in Sms
      BY <1>8, <3>1
    <3> QED
      BY <3>1, <3>2 DEF Queued
  <2> DEFINE x == Job("look", l, None)
  <2>2. /\ list' = [list EXCEPT ![l].queue = Tail(@)]
        /\ sms' = [sms EXCEPT ![s].active = FALSE]
        /\ taken' = [taken EXCEPT ![s] = a]
        /\ Goes(<<x>>)
    BY <1>1, <1>2, <1>3, <1>8, <2>1 DEF TakeAnswer
  <2>3. x.op = "look"
    BY DEF Job
  <2> HIDE DEF x
  <2>4. /\ list'[l].queue = Tail(queue)
        /\ \A k \in List : list'[k].tid = list[k].tid /\ (k # l => list'[k] = list[k])
    BY <1>4, <2>2 DEF Lists
  <2>5. /\ \A t \in Sms : /\ t # s => sms'[t] = sms[t] /\ taken'[t] = taken[t]
                          /\ sms'[t].sent = sms[t].sent /\ sms'[t].callRef = sms[t].callRef
                          /\ sms'[t].active => sms[t].active
        /\ ~sms'[s].active /\ taken'[s] = a
    BY <1>4, <2>2 DEF Messages
  <2>6. OneIsSent'
    <3>1. OneIsSentOf(l)'
      BY <1>4, <1>8, <2>1, <2>4, <2>5, TailCut DEF OwnInv, OneIsSent
    <3>2. ASSUME NEW k \in List, k # l
          PROVE  OneIsSentOf(k)'
      BY <1>4, <2>4, <2>5, <3>2, FirstStays DEF OwnInv, OneIsSent
    <3> QED
      BY <3>1, <3>2 DEF OneIsSent
  <2>7. Known(ref, a)
    <3>1. 1 \in 1 .. Len(sig) /\ Head(sig) = sig[1]
      BY <1>1, HeadIsFirst
    <3>2. Answers(ref, a)
      BY <1>1, <1>3, <3>1 DEF Answers
    <3> QED
      BY <3>2 DEF OwnInv, AnswersKnown
  <2>8. mine[s] = l /\ mine[a] # None /\ (mine[a] = mine[s] => a = s) /\ l # None
    BY <1>4, <1>8, <2>1, <2>7 DEF WatchInv, Owned, Known
  <2>9. TakenOwn'
    <3> SUFFICES ASSUME NEW t \in Sms, taken'[t] # None
                 PROVE  /\ mine[t] # None /\ mine[taken'[t]] # None
                        /\ mine[taken'[t]] = mine[t] => taken'[t] = t
      BY <1>1 DEF TakenOwn
    <3>1. CASE t = s
      BY <2>5, <2>8, <3>1
    <3>2. CASE t # s
      BY <2>5, <3>2 DEF OwnInv, TakenOwn
    <3> QED
      BY <3>1, <3>2
  <2> DEFINE w == <<x>>
  <2>10. Goes(w) /\ w \in Seq({x}) /\ Len(w) = 1 /\ w[1] = x
    BY <2>2, Single
  <2> HIDE DEF w
  <2>11. \A i \in 1 .. Len(w) : w[i].op = "look"
    BY <2>3, <2>10
  <2>12. \A r \in Ref, t \in Sms : Answers(r, t)' => Answers(r, t)
    BY <1>1, <2>10, <2>11, JobTells
  <2>13. \A t \in Sms : pc[t] = "ended" => ~sms'[t].active
    BY <2>5 DEF OwnInv, Unfound
  <2> QED
    BY <1>1, <2>4, <2>5, <2>6, <2>9, <2>12, <2>13, OwnRest
<1> QED
  BY <1>5, <1>6, <1>7, <1>8

LEMMA PagingResponseOwn ==
  ASSUME Inv, Inv', OwnInv, PagingResponse
  PROVE  OwnInv'
<1>1. Reads("page") /\ TypeOK /\ OpensOnce
  BY DEF PagingResponse, Inv
<1>2. PICK c \in Conn : Head(toYate).conn = c
  BY <1>1, EventRead
<1>3. /\ sig' = <<Job("setUE", None, c), Job("service", None, None)>> \/ sig' = <<>>
      /\ UNCHANGED <<pc, mine, sms, list, taken, owed>>
  BY <1>2 DEF PagingResponse
<1>4. /\ sig = <<>> /\ toYate # <<>> /\ toYate' = Tail(toYate)
  BY <1>1, <1>2, EventRead
<1>5. \A i \in 1 .. Len(sig') : sig'[i].op \in {"setUE", "service"}
  <2> DEFINE x == Job("setUE", None, c)
             y == Job("service", None, None)
  <2>1. x.op = "setUE" /\ y.op = "service"
    BY DEF Job
  <2>2. sig' = <<x, y>> \/ sig' = <<>>
    BY <1>3
  <2> HIDE DEF x, y
  <2>3. Len(<<x, y>>) = 2 /\ <<x, y>>[1] = x /\ <<x, y>>[2] = y
    OBVIOUS
  <2>4. CASE sig' = <<x, y>>
    <3>1. \A i \in 1 .. Len(sig') : i = 1 \/ i = 2
      BY <2>3, <2>4
    <3> QED
      BY <2>1, <2>3, <2>4, <3>1
  <2>5. CASE sig' = <<>>
    BY <2>5
  <2> QED
    BY <2>2, <2>4, <2>5
<1> QED
  BY <1>3, <1>4, <1>5, EventOwn

LEMMA LocationUpdateOwn ==
  ASSUME Inv, Inv', OwnInv, LocationUpdate
  PROVE  OwnInv'
<1>1. Reads("update") /\ TypeOK /\ OpensOnce
  BY DEF LocationUpdate, Inv
<1>2. PICK c \in Conn : Head(toYate).conn = c
  BY <1>1, EventRead
<1>3. /\ sig' = <<Job("setUE", None, c)>>
      /\ UNCHANGED <<pc, mine, sms, list, taken, owed>>
  BY <1>2 DEF LocationUpdate, radio
<1>4. /\ sig = <<>> /\ toYate # <<>> /\ toYate' = Tail(toYate)
  BY <1>1, <1>2, EventRead
<1>5. \A i \in 1 .. Len(sig') : sig'[i].op = "setUE"
  BY <1>3, Single DEF Job
<1> QED
  BY <1>3, <1>4, <1>5, EventOwn

LEMMA SapiEstablishedOwn ==
  ASSUME Inv, Inv', OwnInv, SapiEstablished
  PROVE  OwnInv'
<1>1. Reads("sapi") /\ TypeOK /\ OpensOnce
  BY DEF SapiEstablished, Inv
<1>2. PICK c \in Conn : Head(toYate).conn = c
  BY <1>1, EventRead
<1>3. sig = <<>> /\ toYate # <<>> /\ toYate' = Tail(toYate)
  BY <1>1, EventRead
<1>4. /\ sig' = <<Job("service", None, None)>> \/ sig' = <<>>
      /\ UNCHANGED <<pc, mine, sms, list, taken, owed>>
  BY <1>2, <1>3 DEF SapiEstablished, radio
<1>5. \A i \in 1 .. Len(sig') : sig'[i].op = "service"
  BY <1>4, Single DEF Job
<1> QED
  BY <1>3, <1>4, <1>5, EventOwn

LEMMA ConnLostOwn ==
  ASSUME Inv, Inv', OwnInv, ConnLost
  PROVE  OwnInv'
<1>1. Reads("lost") /\ TypeOK /\ OpensOnce
  BY DEF ConnLost, Inv
<1>2. sig = <<>> /\ toYate # <<>> /\ toYate' = Tail(toYate)
  BY <1>1, EventRead
<1>3. PICK x : x = Then(Head(toYate).conn)
  OBVIOUS
<1>4. sig' = <<x>> /\ UNCHANGED <<pc, mine, sms, list, taken, owed>>
  BY <1>3 DEF ConnLost, radio
<1>5. x.op \in {"released", "absent"}
  BY <1>3 DEF Then, Job
<1>6. \A i \in 1 .. Len(sig') : sig'[i] = x
  BY <1>4, Single
<1> QED
  BY <1>2, <1>4, <1>5, <1>6, EventOwn

LEMMA AnsweredOwn ==
  ASSUME Inv, Inv', OwnInv, Answered
  PROVE  OwnInv'
<1>1. Reads("answer") /\ TypeOK /\ OpensOnce
  BY DEF Answered, Inv
<1>2. /\ sig = <<>> /\ toYate # <<>> /\ toYate' = Tail(toYate)
      /\ Head(toYate).type = "answer"
  BY <1>1, EventRead
<1>3. PICK x : x = [op |-> "answer", list |-> None, conn |-> Head(toYate).conn,
                    ref |-> Head(toYate).ref, sms |-> Head(toYate).sms]
  OBVIOUS
<1>4. /\ sig' = <<x>> \/ sig' = <<>>
      /\ UNCHANGED <<pc, mine, sms, list, taken, owed>>
  BY <1>3 DEF Answered, radio
<1>5. x.op = "answer" /\ x.ref = Head(toYate).ref /\ x.sms = Head(toYate).sms
  BY <1>3
<1>6. \A i \in 1 .. Len(sig') : sig'[i] = x
  <2>1. CASE sig' = <<x>>
    BY <2>1, Single
  <2>2. CASE sig' = <<>>
    BY <2>2
  <2> QED
    BY <1>4, <2>1, <2>2
<1> QED
  BY <1>2, <1>4, <1>5, <1>6, EventOwn

LEMMA UpdateCompleteOwn ==
  ASSUME Inv, Inv', OwnInv, NEW c \in Conn, UpdateComplete(c)
  PROVE  OwnInv'
<1>1. /\ sig = <<>> /\ sig' = <<Job("drop", None, c)>>
      /\ UNCHANGED <<pc, mine, sms, list, taken, toYate, owed>>
  BY DEF UpdateComplete, radio
<1>2. \A i \in 1 .. Len(sig') : sig'[i].op = "drop"
  BY <1>1, Single DEF Job
<1> QED
  BY <1>1, <1>2, EventOwn

-----------------------------------------------------------------------------
(* The threads beside it, which have nothing to do with answers.           *)

LEMMA BesideOwn ==
  ASSUME Inv, Inv', OwnInv, NEW c \in Conn, Beside(c)
  PROVE  OwnInv'
<1>1. /\ UNCHANGED <<pc, mine, sig, taken, toYate>> /\ owed' \subseteq owed
      /\ \/ UNCHANGED <<sms, list>>
         \/ ResetAside(c)
         \/ /\ UNCHANGED sms
            /\ list' = [l \in List |-> [list[l] EXCEPT !.lapsed = @ \/ list[l].paging]]
  BY DEF Beside, IdleTimeout, UpdateFails, DropAside, dropConn, ReleasedAside, ResetAside,
         StopPagingAside, radio
<1>2. /\ \A l \in List : list'[l].tid = list[l].tid
      /\ \A s \in Sms : /\ sms'[s].callRef = sms[s].callRef
                        /\ sms'[s].sent => sms[s].sent
                        /\ sms'[s].active => sms[s].active
      /\ OneIsSent'
  <2>1. CASE UNCHANGED <<sms, list>>
    BY <2>1, QueuesStay DEF OwnInv
  <2>2. CASE ResetAside(c)
    <3>1. PICK l \in List : aside[c].list = l
      BY <2>2, JobAside DEF ResetAside, DoesAside, Inv, TypeOK
    <3> QED
      BY <2>2, <3>1, ResetOwn DEF ResetAside
  <2>3. CASE /\ UNCHANGED sms
             /\ list' = [l \in List |-> [list[l] EXCEPT !.lapsed = @ \/ list[l].paging]]
    <3>1. \A l \in List : list'[l].queue = list[l].queue /\ list'[l].tid = list[l].tid
      BY <2>3, Types DEF Lists
    <3> QED
      BY <2>3, <3>1, QueuesStay DEF OwnInv
  <2> QED
    BY <1>1, <2>1, <2>2, <2>3
<1>3. \A s \in Sms : pc[s] = "ended" => ~sms'[s].active
  BY <1>2 DEF OwnInv, Unfound
<1> QED
  BY <1>1, <1>2, <1>3, ThreadOwn

-----------------------------------------------------------------------------
(* mbts and the phone: what it answers it has owed.                        *)

LEMMA SentToYate ==
  ASSUME Inv, Inv', OwnInv, UNCHANGED yate, owed' \subseteq owed,
         NEW m \in Events, toYate' = Append(toYate, m),
         m.type = "answer" => \E o \in owed : o.ref = m.ref /\ o.sms = m.sms
  PROVE  OwnInv'
<1>1. UNCHANGED sig
  BY DEF yate
<1> DEFINE E == Events
<1>2. toYate \in Seq(E)
  BY Types
<1> HIDE DEF E
<1>3. \A i \in 1 .. Len(toYate') :
        toYate'[i] = m \/ (i \in 1 .. Len(toYate) /\ toYate'[i] = toYate[i])
  BY <1>2
<1>4. ASSUME NEW ref \in Ref, NEW s \in Sms, Answers(ref, s)'
      PROVE  Answers(ref, s)
  <2>1. CASE \E i \in 1 .. Len(toYate') :
               toYate'[i].type = "answer" /\ toYate'[i].ref = ref /\ toYate'[i].sms = s
    BY <1>3, <2>1 DEF Answers
  <2> QED
    BY <1>1, <1>4, <2>1 DEF Answers
<1> QED
  BY <1>4, RadioOwn

LEMMA SilentOwn ==
  ASSUME Inv, Inv', OwnInv, UNCHANGED yate, UNCHANGED toYate, owed' \subseteq owed
  PROVE  OwnInv'
<1>1. UNCHANGED sig
  BY DEF yate
<1>2. \A ref \in Ref, s \in Sms : Answers(ref, s)' => Answers(ref, s)
  BY <1>1 DEF Answers
<1> QED
  BY <1>2, RadioOwn

LEMMA ComesOwn ==
  ASSUME Inv, Inv', OwnInv, NEW type \in {"page", "update"}, NEW c \in Fresh,
         Comes(type, c), UNCHANGED yate, UNCHANGED owed
  PROVE  OwnInv'
<1>1. PICK m : m = [type |-> type, conn |-> c]
  OBVIOUS
<1>2. m \in Events /\ m.type # "answer" /\ toYate' = Append(toYate, m)
  BY <1>1 DEF Events, Comes, Fresh
<1> QED
  BY <1>2, SentToYate

LEMMA LinkOwn ==
  ASSUME Inv, Inv', OwnInv, NEW c \in Conn, SapiComesUp(c) \/ LinkLost(c)
  PROVE  OwnInv'
<1>1. PICK m : /\ m \in {[type |-> type, conn |-> c] : type \in {"sapi", "lost"}}
               /\ toYate' = Append(toYate, m)
  BY DEF SapiComesUp, LinkLost
<1>2. UNCHANGED yate /\ owed' \subseteq owed
  BY DEF SapiComesUp, LinkLost
<1>3. m \in Events /\ m.type # "answer"
  BY <1>1 DEF Events
<1> QED
  BY <1>1, <1>2, <1>3, SentToYate

LEMMA PhoneAnswersOwn ==
  ASSUME Inv, Inv', OwnInv, NEW o \in owed, PhoneAnswers(o)
  PROVE  OwnInv'
<1>1. PICK m : m = [type |-> "answer", conn |-> o.conn, ref |-> o.ref, sms |-> o.sms]
  OBVIOUS
<1>2. /\ toYate' = Append(toYate, m) /\ UNCHANGED yate /\ owed' \subseteq owed
  BY <1>1 DEF PhoneAnswers
<1>3. o \in Debts
  BY DEF Inv, TypeOK, RadioTyped
<1>4. m \in Events /\ m.ref = o.ref /\ m.sms = o.sms
  BY <1>1, <1>3 DEF Events, Debts
<1> QED
  BY <1>2, <1>4, SentToYate

-----------------------------------------------------------------------------
LEMMA OwnInit == Init => OwnInv
<1> SUFFICES ASSUME Init
             PROVE  OwnInv
  OBVIOUS
<1>1. /\ sig = <<>> /\ toYate = <<>> /\ owed = {}
      /\ \A s \in Sms : /\ pc[s] = "idle" /\ mine[s] = None /\ taken[s] = None
                        /\ ~sms[s].sent /\ sms[s].callRef = None
      /\ \A l \in List : list[l].queue = <<>> /\ list[l].tid = 0
  BY DEF Init, List
<1>2. Unfound /\ RefsGiven /\ TakenOwn
  BY <1>1 DEF Unfound, RefsGiven, TakenOwn
<1>3. OneIsSent
  BY <1>1 DEF OneIsSent, OneIsSentOf, Queued
<1>4. AnswersKnown
  BY <1>1 DEF AnswersKnown, Answers
<1> QED
  BY <1>2, <1>3, <1>4 DEF OwnInv

LEMMA OwnNext == Inv /\ WatchInv /\ OwnInv /\ NotRound /\ [Next]_vars => OwnInv'
<1> SUFFICES ASSUME Inv, WatchInv, OwnInv, NotRound, [Next]_vars
             PROVE  OwnInv'
  OBVIOUS
<1>1. Inv'
  BY InvNext
<1>2. ASSUME NEW s \in Sms, Thread(s)
      PROVE  OwnInv'
  BY <1>1, <1>2, FindListOwn, AppendSmsOwn, CheckByThreadOwn, TakeCheckOwn,
     LeaveLoopOwn, RemoveSmsOwn, StopPagingByThreadOwn DEF Thread
<1>3. CASE Signalling
  BY <1>1, <1>3, DropConnOwn, ConnReleasedOwn, ResetListOwn, StopPagingBySigOwn,
     SetUEOwn, CheckServiceOwn, LookOwn, RemoveListOwn, FindAnsweredOwn, TakeOwn,
     PagingResponseOwn, LocationUpdateOwn, SapiEstablishedOwn, ConnLostOwn,
     AnsweredOwn, UpdateCompleteOwn DEF Signalling
<1>4. ASSUME NEW c \in Conn, Beside(c)
      PROVE  OwnInv'
  BY <1>1, <1>4, BesideOwn
<1>5. CASE Mbts
  <2>1. CASE PhoneAnswersPage \/ PhoneUpdates
    BY <1>1, <2>1, ComesOwn DEF PhoneAnswersPage, PhoneUpdates
  <2>2. CASE PhoneLeaves \/ PagerExpires
    BY <1>1, <2>2, SilentOwn DEF PhoneLeaves, PagerExpires
  <2>3. CASE \E c \in Conn : SapiComesUp(c) \/ LinkLost(c)
    BY <1>1, <2>3, LinkOwn
  <2>4. CASE \E o \in owed : PhoneAnswers(o)
    BY <1>1, <2>4, PhoneAnswersOwn
  <2> QED
    BY <1>5, <2>1, <2>2, <2>3, <2>4 DEF Mbts
<1>6. CASE UNCHANGED vars
  <2>1. UNCHANGED yate /\ UNCHANGED <<toYate, owed>>
    BY <1>6 DEF vars, radio
  <2> QED
    BY <1>1, <2>1, SilentOwn
<1> QED
  BY <1>2, <1>3, <1>4, <1>5, <1>6 DEF Next

(* An answer ends the message it is the answer to, or one of a list that   *)
(* the phone had at another time, however late it comes, as long as no     *)
(* list of the phone's comes round its references.                         *)
THEOREM AnswerEndsItsOwn == Spec /\ []NotRound => []SuccessIsOwn
<1>1. Init => Inv /\ WatchInv /\ OwnInv
  BY InvInit, WatchInit, OwnInit
<1>2. Inv /\ WatchInv /\ OwnInv /\ NotRound /\ [Next]_vars => (Inv /\ WatchInv /\ OwnInv)'
  BY InvNext, WatchNext, OwnNext
<1>3. OwnInv => SuccessIsOwn
  BY DEF OwnInv, TakenOwn, SuccessIsOwn
<1> QED
  BY <1>1, <1>2, <1>3, PTL DEF Spec

=============================================================================
