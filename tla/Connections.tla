---------------------------- MODULE Connections ----------------------------
(***************************************************************************)
(* The connections between mbts and Yate: the dedicated channels with one  *)
(* dispatcher thread each (DCCHDispatch.cpp), the thread that serves Yate's*)
(* requests (SigConnection.cpp), the table they share, the signalling      *)
(* socket with its two directions, and Yate's own table of connections     *)
(* (YBTSSignalling in ybts.cpp).  Phones come, speak, move to a traffic    *)
(* channel, are handed over to this cell, and leave, with or without a     *)
(* word.                                                                   *)
(*                                                                         *)
(* A channel is what LAPDm and L1 make of it: is SAP 0 established, which  *)
(* of the timers T3101 / T3109 / T3111 runs, and what waits in mL3Out.     *)
(* The time a thread spends blocked in L2 and the acknowledgement of what  *)
(* it sends are those of module LAPDm and are not repeated here.           *)
(***************************************************************************)
EXTENDS ConnectionMap, SequencesExt

CONSTANTS
    Sdcch, Tch,     \* the pools of channels
    Phone,
    HoRefs,         \* the references of inbound handovers, in turn
    Access,         \* the pools a phone may be granted a channel of
    MaxAccess,      \* bound: channels granted to phones that ask
    MaxBurst,       \* bound: access bursts that wait for the dispatcher
    MaxTalk,        \* bound: call control messages of phones
    MaxFail,        \* bound: assignments and links that fail under a phone
    MaxLate         \* bound: T3101 or T3111 runs out under a connection

ASSUME ChannelsAssumption ==
  /\ Chan = Sdcch \cup Tch /\ Sdcch \cap Tch = {}
  /\ Access \subseteq {Sdcch, Tch}
ASSUME PhonesAssumption == None \notin Phone /\ Phone \cap Chan = {}
ASSUME OrdersAssumption == Chan \cap {"none", "release", "modify"} = {}
ASSUME HoRefsAssumption == HoRefs \in Seq(Ref)
ASSUME BoundsAssumption ==
  {MaxAccess, MaxBurst, MaxTalk, MaxFail, MaxLate} \subseteq Nat

VARIABLES
    ch,             \* ch[c]: channel c, its L1, L2 and dispatcher
    table,          \* gConnMap
    sig,            \* the channel SigConnRelease has unmapped and not told
    toYate, toBts,  \* the socket
    conn,           \* conn[id]: Yate's YBTSConn of that id
    ph,             \* ph[p]: what phone p does
    handovers,      \* the handovers begun so far, a prefix of HoRefs
    used            \* the bounded events so far

vars == <<ch, table, sig, toYate, toBts, conn, ph, handovers, used>>

(* A message of a phone, by what the threads tell apart. *)
Uplink == {"MM", "CC", "HandoverComplete", "AssignmentComplete",
           "AssignmentFailure", "ModeModifyAck"}

Primitives == {"ESTABLISH", "HANDOVER_ACCESS", "RELEASE", "HARDRELEASE",
               "ERROR", "DATA"}

L3Frame == [prim : Primitives, msg : Uplink \cup {None},
            from : Phone \cup {None}]

Channel ==
  [l1 : {"free", "T3101", "T3109", "T3111"},    \* "free" is recyclable()
   link : BOOLEAN,                              \* is SAP 0 established
   handoverPending : BOOLEAN,
   l3 : Seq(L3Frame),                           \* mL3Out
   pc : {"wait", "first", "handover", "recv", "end", "lost",
         "release", "unmap"},                   \* where the dispatcher is
   id : Id \cup {-1}]                           \* and for which connection

ToYate ==
  LET Message(t, id) ==
        [t : t, id : id, msg : Uplink \cup {None}, from : Phone \cup {None},
         ref : Ref \cup {NoRef},
         chan : Chan \cup {None}]              \* of the handover command
  IN Message({"L3", "Started", "Error", "Lost", "HandoverAck"}, Id) \cup
     Message({"HandoverReject"}, {-1})

ToBts == [t : {"Release", "HardRelease", "Alloc", "Start", "L3",
               "HandoverRequest"},
          id : Id \cup {-1}, ref : Ref \cup {NoRef}]

Conn == [st : {"none", "live", "removed"},
         ue : Phone \cup {None},
         call : BOOLEAN,                        \* is it in use (m_usage)
         wait : BOOLEAN, traffic : BOOLEAN,     \* m_waitForTraffic, m_traffic
         hard : BOOLEAN]                        \* m_hardRelease

PhoneState ==
  [at : Chan \cup {None}, back : Chan \cup {None},
   stage : {"asking", "linked", "talking"},
   brings : Uplink,                             \* its first message there
   ref : Ref \cup {NoRef},
   order : {"none", "release", "modify"} \cup Chan]

NoSig == [chan |-> None, hard |-> FALSE]

NoConn == [st |-> "none", ue |-> None, call |-> FALSE, wait |-> FALSE,
           traffic |-> FALSE, hard |-> FALSE]

Away == [at |-> None, back |-> None, stage |-> "asking", brings |-> "MM",
         ref |-> NoRef, order |-> "none"]

TypeOK ==
  /\ ch \in [Chan -> Channel]
  /\ table \in Table
  /\ sig \in [chan : Chan \cup {None}, hard : BOOLEAN]
  /\ toYate \in Seq(ToYate)
  /\ toBts \in Seq(ToBts)
  /\ conn \in [Id -> Conn]
  /\ ph \in [Phone -> PhoneState]
  /\ handovers \in 0 .. Len(HoRefs)
  /\ used \in [access : Nat, talk : Nat, fail : Nat, late : Nat]

Init ==
  /\ ch = [c \in Chan |-> [l1 |-> "free", link |-> FALSE,
                           handoverPending |-> FALSE, l3 |-> <<>>,
                           pc |-> "wait", id |-> -1]]
  /\ table = InitTable
  /\ sig = NoSig
  /\ toYate = <<>>
  /\ toBts = <<>>
  /\ conn = [i \in Id |-> NoConn]
  /\ ph = [p \in Phone |-> Away]
  /\ handovers = 0
  /\ used = [access |-> 0, talk |-> 0, fail |-> 0, late |-> 0]

-----------------------------------------------------------------------------
(* A channel *)

Data(m, p) == [prim |-> "DATA", msg |-> m, from |-> p]
Bare(prim) == [prim |-> prim, msg |-> None, from |-> None]

Up(x, f) == [x EXCEPT !.l3 = Append(@, f)]

Open(x) == [x EXCEPT !.l1 = "T3101", !.link = FALSE, !.handoverPending = FALSE,
                     !.l3 = <<>>]

(* Fault: L1 is closed and L2 is not.                                       *)
ClosedInL1(x, prim) ==
  Up([x EXCEPT !.l1 = IF prim = "HARDRELEASE" THEN "free" ELSE "T3111"],
     Bare(prim))

(* L2LAPDm::clearState and L1Decoder::close. *)
Closed(x, prim) ==
  Up([x EXCEPT !.link = FALSE,
               !.l1 = IF prim = "HARDRELEASE" THEN "free" ELSE "T3111"],
     Bare(prim))

Abnormal(x) == Closed(Up(x, Bare("ERROR")), "RELEASE")

(* The phones L2 talks to on c. *)
OnLink(c) == {p \in Phone : ph[p].at = c /\ ph[p].stage # "asking"}

(* The phones of c after its link has been cleared with a DISC or a DM, or  *)
(* after c has been opened for another one: what they say is answered no    *)
(* more, and none returns to it.                                            *)
Dismissed(c) ==
  [p \in Phone |-> IF p \in OnLink(c) THEN Away
                   ELSE [ph[p] EXCEPT !.back = IF @ = c THEN None ELSE @]]

(* chan->send of a message: what it makes of the channel and its phones. *)
SendL3(x) == IF x.link THEN x ELSE Abnormal(x)
Told(c, order) ==
  [p \in Phone |-> IF ch[c].link /\ p \in OnLink(c)
                   THEN [ph[p] EXCEPT !.order = order] ELSE ph[p]]

(* chan->send(RELEASE): nothing when the link is released already. *)
SendRelease(x) == IF x.link THEN Closed(x, "RELEASE") ELSE x

Behind(c) == ch[c].l3 # <<>> \/ ch[c].pc \notin {"wait", "recv"}

(* c is in use, or about to be, by mbts or by a phone that has been sent to *)
(* it or may return to it.  One that is merely reserved for a connection is *)
(* not.                                                                     *)
Needed(c) ==
  \/ Behind(c) \/ Find(table, c) # -1 \/ sig.chan = c
  \/ ch[c].l1 = "T3101" /\ \E p \in Phone : c \in {ph[p].at, ph[p].order}
  \/ ch[c].l1 = "T3109" /\
       \E p \in Phone : ph[p].back = c /\ ph[p].stage = "asking"
  \/ \E i \in Id : table.mMap[i].mMedia = c /\ table.mMap[i].mChan # None
                    /\ Behind(table.mMap[i].mChan)
  \/ \E i \in 1 .. Len(toBts) :
        toBts[i].t = "Start" /\ MediaOf(table, toBts[i].id) = c

ToYateMsg(t, id) == [t |-> t, id |-> id, msg |-> None, from |-> None,
                     ref |-> NoRef, chan |-> None]
L3ToYate(id, f) ==
  [ToYateMsg("L3", id) EXCEPT !.msg = f.msg, !.from = f.from]
ToBtsMsg(t, id) == [t |-> t, id |-> id, ref |-> NoRef]

(* L1Decoder::recyclable: the timer that runs has run out.  T3109 runs only *)
(* over a silent channel.  The others are longer than what they wait for:   *)
(* MaxLate is the number of times they are not.                             *)
TimerExpires(c) ==
  /\ ch[c].l1 # "free"
  /\ ch[c].l1 = "T3109" => OnLink(c) = {}
  /\ IF Needed(c)
     THEN used.late < MaxLate /\ used' = [used EXCEPT !.late = @ + 1]
     ELSE UNCHANGED used
  /\ ch' = [ch EXCEPT ![c].l1 = "free"]
  /\ UNCHANGED <<table, sig, toYate, toBts, conn, ph, handovers>>

(* N200 repetitions without an answer: the phone has left, or the radio has *)
(* failed under it, and what it was told last is lost.  They take longer    *)
(* than an assignment and what the dispatchers make of its end: when they   *)
(* do not, that is a late event as well.                                    *)
LinkFails(c) ==
  LET new == MediaOf(table, Find(table, c))
      late == \/ Find(table, c) # -1 /\ \E p \in Phone : ph[p].back = c
              \/ new # None /\ ch[new].l3 # <<>>
      fails == OnLink(c) # {} IN
  /\ ch[c].link
  /\ late => used.late < MaxLate
  /\ fails => used.fail < MaxFail
  /\ used' = [used EXCEPT !.late = IF late THEN @ + 1 ELSE @,
                          !.fail = IF fails THEN @ + 1 ELSE @]
  /\ ch' = [ch EXCEPT ![c] = Abnormal(@)]
  /\ ph' = [p \in Phone |-> IF p \in OnLink(c)
                            THEN [ph[p] EXCEPT !.order = "none"] ELSE ph[p]]
  /\ UNCHANGED <<table, sig, toYate, toBts, conn, handovers>>

-----------------------------------------------------------------------------
(* Phones *)

Say(c, f) == ch' = [ch EXCEPT ![c] = Up(@, f)]

(* AccessGrantResponder. *)
Grant(p, pool) ==
  /\ ph[p].at = None
  /\ used.access < MaxAccess
  /\ used' = [used EXCEPT !.access = @ + 1]
  /\ \E c \in pool :
        /\ ch[c].l1 = "free"
        /\ ch' = [ch EXCEPT ![c] = Open(@)]
        /\ ph' = [Dismissed(c) EXCEPT ![p] = [Away EXCEPT !.at = c]]
  /\ UNCHANGED <<table, sig, toYate, toBts, conn, handovers>>

(* SABM, with the first message of a phone that has been granted a channel. *)
(* A phone that is handed over waits for the physical information.          *)
Seize(p) ==
  LET c == ph[p].at IN
  /\ c # None /\ ph[p].stage = "asking"
  /\ ch[c].l1 \in {"T3101", "T3109"}
  /\ ~ch[c].link /\ ~ch[c].handoverPending
  /\ ph[p].brings = "HandoverComplete" => ch[c].pc = "handover"
  /\ LET x == Up([ch[c] EXCEPT !.l1 = "T3109", !.link = TRUE],
                 Bare("ESTABLISH"))
         first == ph[p].brings = "MM"
     IN /\ ch' = [ch EXCEPT ![c] = IF first THEN Up(x, Data("MM", p)) ELSE x]
        /\ ph' = [ph EXCEPT ![p].stage = IF first THEN "talking"
                                                  ELSE "linked"]
  /\ UNCHANGED <<table, sig, toYate, toBts, conn, handovers, used>>

(* AssignmentComplete or HandoverComplete. *)
Announce(p) ==
  LET c == ph[p].at IN
  /\ c # None /\ ph[p].stage = "linked" /\ ch[c].link
  /\ Say(c, Data(ph[p].brings, p))
  /\ ph' = [ph EXCEPT ![p].stage = "talking"]
  /\ UNCHANGED <<table, sig, toYate, toBts, conn, handovers, used>>

(* Call control: a call is set up, or cleared. *)
Talk(p) ==
  LET c == ph[p].at IN
  /\ c # None /\ ph[p].stage = "talking" /\ ch[c].link
  /\ ph[p].order = "none"
  /\ used.talk < MaxTalk
  /\ used' = [used EXCEPT !.talk = @ + 1]
  /\ Say(c, Data("CC", p))
  /\ UNCHANGED <<table, sig, toYate, toBts, conn, ph, handovers>>

ObeyRelease(p) ==
  LET c == ph[p].at IN
  /\ c # None /\ ph[p].order = "release"
  /\ ch' = [ch EXCEPT ![c] = IF @.link THEN Closed(@, "RELEASE") ELSE @]
  /\ ph' = [ph EXCEPT ![p] = Away]
  /\ UNCHANGED <<table, sig, toYate, toBts, conn, handovers, used>>

ObeyModify(p) ==
  LET c == ph[p].at IN
  /\ c # None /\ ph[p].order = "modify" /\ ch[c].link
  /\ Say(c, Data("ModeModifyAck", p))
  /\ ph' = [ph EXCEPT ![p].order = "none"]
  /\ UNCHANGED <<table, sig, toYate, toBts, conn, handovers, used>>

(* The phone leaves its channel for the traffic channel, without a DISC. *)
ObeyAssignment(p) ==
  /\ ph[p].order \in Chan
  /\ ph' = [ph EXCEPT ![p] = [Away EXCEPT !.at = ph[p].order,
                                          !.back = ph[p].at,
                                          !.brings = "AssignmentComplete"]]
  /\ UNCHANGED <<ch, table, sig, toYate, toBts, conn, handovers, used>>

(* It cannot seize the new channel and returns to the old one. *)
AssignmentFails(p) ==
  LET c == ph[p].back IN
  /\ c # None /\ ph[p].stage = "asking"
  /\ used.fail < MaxFail
  /\ used' = [used EXCEPT !.fail = @ + 1]
  /\ IF ch[c].link
     THEN /\ Say(c, Data("AssignmentFailure", p))
          /\ ph' = [ph EXCEPT ![p] = [Away EXCEPT !.at = c,
                                                  !.stage = "talking"]]
     ELSE /\ ph' = [ph EXCEPT ![p] = Away]
          /\ UNCHANGED ch
  /\ UNCHANGED <<table, sig, toYate, toBts, conn, handovers>>

(* A handover access burst on a channel that waits for one. *)
HandoverBurst(p) ==
  LET c == ph[p].at
      id == FindRef(table, ph[p].ref) IN
  /\ c # None /\ ph[p].brings = "HandoverComplete"
  /\ ch[c].handoverPending /\ ch[c].l1 \in {"T3101", "T3109"}
  /\ Cardinality({i \in 1 .. Len(ch[c].l3) :
                    ch[c].l3[i].prim = "HANDOVER_ACCESS"}) < MaxBurst
  /\ ChanOf(table, id) = c                      \* SaveHandoverAccess
  /\ Say(c, Bare("HANDOVER_ACCESS"))
  /\ UNCHANGED <<table, sig, toYate, toBts, conn, ph, handovers, used>>

(* Switched off, out of range, or back to another cell. *)
Leave(p) ==
  /\ ph[p].at # None
  /\ ph' = [ph EXCEPT ![p] = Away]
  /\ UNCHANGED <<ch, table, sig, toYate, toBts, conn, handovers, used>>

-----------------------------------------------------------------------------
(* The dispatcher of a channel: DCCHDispatcher and the functions it calls.  *)
(* The condition of connDispatchLoop is evaluated with the step before it.  *)

At(c, pc) == ch[c].pc = pc

Popped(c) == [ch[c] EXCEPT !.l3 = Tail(@)]

(* The dispatcher gives the channel up. *)
Leaves(x) == [x EXCEPT !.pc = "wait", !.id = -1]

Becomes(c, x) == ch' = [ch EXCEPT ![c] = x]

ToYateAlso(m) == toYate' = Append(toYate, m)

DispatcherOnly == UNCHANGED <<sig, toBts, conn, handovers>>

(* waitForEstablishOrHandover, and the beginning of ProcessHandoverAccess. *)
Await(c) ==
  /\ At(c, "wait") /\ ch[c].l3 # <<>>
  /\ LET prim == Head(ch[c].l3).prim
         id == Find(table, c) IN
       \/ /\ prim = "ESTABLISH"
          /\ Becomes(c, [Popped(c) EXCEPT !.pc = "first"])
          /\ UNCHANGED table
       \/ /\ prim = "HANDOVER_ACCESS" /\ id = -1
          /\ Becomes(c, Closed(Popped(c), "HARDRELEASE"))
          /\ UNCHANGED table
       \/ /\ prim = "HANDOVER_ACCESS" /\ id # -1
          /\ Becomes(c, [Popped(c) EXCEPT !.pc = "handover",
                                          !.handoverPending = FALSE])
          /\ table' = TakeTA(table, id)
       \/ /\ prim \notin {"ESTABLISH", "HANDOVER_ACCESS"}
          /\ Becomes(c, Popped(c))
          /\ UNCHANGED table
  /\ DispatcherOnly
  /\ UNCHANGED <<toYate, ph, used>>

(* A read that runs out of time although a phone is there is late. *)
ReadTimesOut(c) ==
  /\ ch[c].l3 = <<>>
  /\ IF \E p \in Phone : ph[p].at = c
     THEN used.late < MaxLate /\ used' = [used EXCEPT !.late = @ + 1]
     ELSE UNCHANGED used

(* The rest of ProcessHandoverAccess: whatever ends it, the id stays mapped. *)
AwaitHandover(c) ==
  /\ At(c, "handover")
  /\ \/ /\ ReadTimesOut(c)
        /\ Becomes(c, Leaves(ch[c]))
     \/ /\ ch[c].l3 # <<>>
        /\ LET prim == Head(ch[c].l3).prim IN
             Becomes(c, CASE prim = "HANDOVER_ACCESS" -> Popped(c)
                          [] prim = "ESTABLISH" ->
                               [Popped(c) EXCEPT !.pc = "first"]
                          [] OTHER -> Leaves(Popped(c)))
        /\ UNCHANGED used
  /\ DispatcherOnly
  /\ UNCHANGED <<table, toYate, ph>>

(* connDispatchEstablish, when the first message makes no connection. *)
FirstIsNone(c) ==
  /\ At(c, "first")
  /\ \/ /\ ReadTimesOut(c)
        /\ Becomes(c, Leaves(ch[c]))
        /\ table' = UnmapChan(table, c)
        /\ UNCHANGED ph
     \/ /\ ch[c].l3 # <<>> /\ Head(ch[c].l3).prim # "DATA"
        /\ Becomes(c, SendL3(Leaves(Popped(c))))    \* UnexpectedPrimitive
        /\ ph' = Told(c, "release")
        /\ UNCHANGED <<table, used>>
  /\ DispatcherOnly
  /\ UNCHANGED toYate

(* Fault: a table that is full is not noticed. *)
FirstOfChannelUnchecked(c) ==
  /\ At(c, "first") /\ ch[c].l3 # <<>> /\ Head(ch[c].l3).msg = "MM"
  /\ Becomes(c, [Popped(c) EXCEPT !.pc = "recv", !.id = MapId(table, c)])
  /\ table' = Map(table, c, NoRef)
  /\ ToYateAlso(L3ToYate(MapId(table, c), Head(ch[c].l3)))
  /\ DispatcherOnly
  /\ UNCHANGED <<ph, used>>

(* connDispatchChannel. *)
FirstOfChannel(c) ==
  LET f == Head(ch[c].l3)
      id == MapId(table, c) IN
  /\ At(c, "first") /\ ch[c].l3 # <<>>
  /\ f.prim = "DATA" /\ f.msg \in {"MM", "CC", "HandoverComplete"}
  /\ IF id = -1
     THEN /\ Becomes(c, Leaves(Popped(c)))
          /\ UNCHANGED <<table, toYate>>
     ELSE /\ Becomes(c, [Popped(c) EXCEPT !.pc = "recv", !.id = id])
          /\ table' = Map(table, c, NoRef)
          /\ ToYateAlso(L3ToYate(id, f))
  /\ DispatcherOnly
  /\ UNCHANGED <<ph, used>>

(* connDispatchReassigned, and what connDispatchEstablish makes of another  *)
(* RR message.                                                              *)
FirstOfReassigned(c) ==
  LET f == Head(ch[c].l3)
      id == IF c \in Tch /\ f.msg = "AssignmentComplete" THEN RemapId(table, c)
                                                         ELSE -1 IN
  /\ At(c, "first") /\ ch[c].l3 # <<>>
  /\ f.prim = "DATA"
  /\ f.msg \in {"AssignmentComplete", "AssignmentFailure", "ModeModifyAck"}
  /\ IF id = -1
     THEN /\ Becomes(c, Leaves(Popped(c)))
          /\ table' = UnmapChan(table, c)
          /\ UNCHANGED toYate
     ELSE /\ Becomes(c, [Popped(c) EXCEPT !.pc = "recv", !.id = id])
          /\ table' = Remap(table, c)
          /\ ToYateAlso(ToYateMsg("Started", id))
  /\ DispatcherOnly
  /\ UNCHANGED <<ph, used>>

(* The loop goes on as long as the id is this channel's. *)
Loop(c, x) ==
  [x EXCEPT !.pc = IF ChanOf(table, x.id) = c THEN "recv" ELSE "end"]

(* What the loop makes of a message: connDispatchRR, or Yate's. *)
Forwarded(id, f) ==
  CASE f.msg \in {"AssignmentComplete", "ModeModifyAck"} ->
         ToYateMsg("Started", id)
    [] f.msg = "AssignmentFailure" -> ToYateMsg("Error", id)
    [] OTHER -> L3ToYate(id, f)

Forward(c) ==
  /\ At(c, "recv") /\ ch[c].l3 # <<>> /\ Head(ch[c].l3).prim = "DATA"
  /\ Becomes(c, Loop(c, Popped(c)))
  /\ ToYateAlso(Forwarded(ch[c].id, Head(ch[c].l3)))
  /\ DispatcherOnly
  /\ UNCHANGED <<table, ph, used>>

(* Any other primitive ends the loop.  (No access burst comes so late: they *)
(* end before the channel is established.)                                  *)
Break(c) ==
  /\ At(c, "recv") /\ ch[c].l3 # <<>>
  /\ LET prim == Head(ch[c].l3).prim IN
       \/ /\ prim = "ESTABLISH"
          /\ Becomes(c, [SendRelease(Popped(c)) EXCEPT !.pc = "end"])
          /\ ph' = Dismissed(c)
       \/ /\ prim \in {"ERROR", "RELEASE", "HARDRELEASE"}
          /\ Becomes(c, [Popped(c) EXCEPT !.pc = "end"])
          /\ UNCHANGED ph
  /\ DispatcherOnly
  /\ UNCHANGED <<table, toYate, used>>

(* recv() has timed out and the id is no more this channel's. *)
Idle(c) ==
  /\ At(c, "recv") /\ ch[c].l3 = <<>>
  /\ ChanOf(table, ch[c].id) # c
  /\ Becomes(c, [ch[c] EXCEPT !.pc = "end"])
  /\ DispatcherOnly
  /\ UNCHANGED <<table, toYate, ph, used>>

EndsAs(c, pc) ==
  /\ At(c, "end")
  /\ Becomes(c, [ch[c] EXCEPT !.pc = pc])
  /\ DispatcherOnly
  /\ UNCHANGED <<table, toYate, ph, used>>

(* Fault: a connection that is lost is not reported. *)
EndSilently(c) ==
  EndsAs(c, IF ChanOf(table, ch[c].id) = None THEN "release" ELSE "unmap")

(* Fault: a connection that has moved is reported lost. *)
EndReportsMoved(c) ==
  EndsAs(c, IF ChanOf(table, ch[c].id) = None THEN "release" ELSE "lost")

(* Whose is the id now?  The answer is read here and acted upon below. *)
End(c) ==
  LET owner == ChanOf(table, ch[c].id) IN
  EndsAs(c, CASE owner = c -> "lost"
              [] owner = None -> "release"
              [] OTHER -> "unmap")

ReportLost(c) ==
  /\ At(c, "lost")
  /\ Becomes(c, [ch[c] EXCEPT !.pc = "unmap"])
  /\ ToYateAlso(ToYateMsg("Lost", ch[c].id))
  /\ DispatcherOnly
  /\ UNCHANGED <<table, ph, used>>

ReleaseClosed(c) ==
  /\ At(c, "release")
  /\ Becomes(c, [SendRelease(ch[c]) EXCEPT !.pc = "unmap"])
  /\ ph' = IF ch[c].link THEN Dismissed(c) ELSE ph
  /\ DispatcherOnly
  /\ UNCHANGED <<table, toYate, used>>

Unmap(c) ==
  /\ At(c, "unmap")
  /\ Becomes(c, Leaves(ch[c]))
  /\ table' = UnmapChan(table, c)
  /\ DispatcherOnly
  /\ UNCHANGED <<toYate, ph, used>>

Dispatch(c) ==
  \/ Await(c) \/ AwaitHandover(c)
  \/ FirstIsNone(c) \/ FirstOfChannel(c) \/ FirstOfReassigned(c)
  \/ Forward(c) \/ Break(c) \/ Idle(c)
  \/ End(c) \/ ReportLost(c) \/ ReleaseClosed(c) \/ Unmap(c)

-----------------------------------------------------------------------------
(* SigConnection: the thread that serves Yate's requests in turn *)

Request(t) ==
  /\ sig = NoSig /\ toBts # <<>> /\ Head(toBts).t = t
  /\ toBts' = Tail(toBts)

SigOnly == UNCHANGED <<conn, handovers, used>>

FreeTch == {c \in Tch : ch[c].l1 = "free"}

(* SigConnRelease unmaps the id, and then speaks on its channel. *)
ServeRelease ==
  \E t \in {"Release", "HardRelease"} :
    /\ Request(t)
    /\ LET id == Head(toBts).id IN
         /\ sig' = [chan |-> ChanOf(table, id),
                    hard |-> t = "HardRelease" /\ ChanOf(table, id) # None]
         /\ table' = UnmapId(table, id)
    /\ UNCHANGED <<ch, toYate, ph>>
    /\ SigOnly

TellRelease ==
  /\ sig # NoSig
  /\ sig' = NoSig
  /\ IF sig.hard
     THEN /\ Becomes(sig.chan, Closed(ch[sig.chan], "HARDRELEASE"))
          /\ UNCHANGED ph
     ELSE /\ Becomes(sig.chan, SendL3(ch[sig.chan]))
          /\ ph' = Told(sig.chan, "release")
  /\ UNCHANGED <<table, toYate, toBts>>
  /\ SigOnly

ServeStart ==
  /\ Request("Start")
  /\ LET id == Head(toBts).id
         c == ChanOf(table, id)
         t == MediaOf(table, id) IN
       \/ /\ c = None
          /\ UNCHANGED <<ch, table, toYate, ph>>
       \/ /\ c \in Tch
          /\ table' = MapMedia(table, id, c)
          /\ Becomes(c, SendL3(ch[c]))
          /\ ph' = Told(c, "modify")
          /\ UNCHANGED toYate
       \/ /\ c \in Sdcch /\ t = None
          /\ ToYateAlso(ToYateMsg("Error", id))
          /\ UNCHANGED <<ch, table, ph>>
       \/ /\ c \in Sdcch /\ t # None
          /\ ch' = [ch EXCEPT ![t] = Open(@), ![c] = SendL3(@)]
          /\ ph' = [p \in Phone |-> IF p \in OnLink(t) THEN Away
                                                      ELSE Told(c, t)[p]]
          /\ UNCHANGED <<table, toYate>>
  /\ UNCHANGED sig
  /\ SigOnly

ServeAlloc ==
  /\ Request("Alloc")
  /\ LET id == Head(toBts).id IN
       \/ /\ MediaOf(table, id) # None \/ ChanOf(table, id) \notin Sdcch
          /\ UNCHANGED <<ch, table, toYate, ph>>
       \/ /\ MediaOf(table, id) = None /\ ChanOf(table, id) \in Sdcch
          /\ \/ \E c \in FreeTch :
                  /\ Becomes(c, Open(ch[c]))
                  /\ ph' = Dismissed(c)
                  /\ table' = MapMedia(table, id, c)
                  /\ UNCHANGED toYate
             \/ /\ FreeTch = {}
                /\ ToYateAlso(ToYateMsg("Error", id))
                /\ UNCHANGED <<ch, table, ph>>
  /\ UNCHANGED sig
  /\ SigOnly

(* A message for the phone: all that matters is whether there is a link. *)
ServeL3 ==
  /\ Request("L3")
  /\ LET c == ChanOf(table, Head(toBts).id) IN
       IF c = None THEN UNCHANGED ch ELSE Becomes(c, SendL3(ch[c]))
  /\ UNCHANGED <<table, sig, toYate, ph>>
  /\ SigOnly

(* processHandover. *)
ServeHandover ==
  /\ Request("HandoverRequest")
  /\ LET ref == Head(toBts).ref
         reject == [ToYateMsg("HandoverReject", -1) EXCEPT !.ref = ref] IN
       \/ /\ FreeTch = {}
          /\ ToYateAlso(reject)
          /\ UNCHANGED <<ch, table, ph>>
       \/ \E c \in FreeTch :
          /\ ph' = Dismissed(c)
          /\ LET id == MapId(table, c) IN
            IF id = -1
            THEN /\ Becomes(c, Closed(Open(ch[c]), "HARDRELEASE"))
                 /\ ToYateAlso(reject)
                 /\ UNCHANGED table
            ELSE /\ Becomes(c, [Open(ch[c]) EXCEPT !.handoverPending = TRUE])
                 /\ table' = MapMedia(Map(table, c, ref), id, c)
                 /\ ToYateAlso([ToYateMsg("HandoverAck", id)
                                  EXCEPT !.ref = ref, !.chan = c])
  /\ UNCHANGED sig
  /\ SigOnly

Serve ==
  \/ ServeRelease \/ TellRelease \/ ServeStart \/ ServeAlloc \/ ServeL3
  \/ ServeHandover

-----------------------------------------------------------------------------
(* Yate *)

YateOnly == UNCHANGED <<ch, table, sig, used>>

Receive(t) ==
  /\ toYate # <<>> /\ Head(toYate).t = t
  /\ toYate' = Tail(toYate)

Send(ms) == toBts' = toBts \o ms

(* dropConn(id, true): the connection stays for a while, as removed, and is *)
(* released in mbts.                                                        *)
Removed == [NoConn EXCEPT !.st = "removed"]

ReleaseMsg(id) ==
  ToBtsMsg(IF conn[id].hard THEN "HardRelease" ELSE "Release", id)

(* The connections with the ids of S are dropped. *)
Drop(cs, S) == [i \in Id |-> IF i \in S THEN Removed ELSE cs[i]]

Releases(S) == LET ids == SetToSeq(S) IN
  [k \in 1 .. Cardinality(S) |-> ReleaseMsg(ids[k])]

(* setUE and connUeChanged: the ids that lose p to id. *)
Replaced(id, p) ==
  IF conn[id].ue # None THEN {}
  ELSE {i \in Id \ {id} : conn[i].st = "live" /\ conn[i].ue = p}

Owned(x, p) == [x EXCEPT !.st = "live", !.hard = FALSE,
                         !.ue = IF @ = None THEN p ELSE @]

(* A mobility management message makes a connection, unless the id still    *)
(* belongs to one that is being removed.                                    *)
HandleMM ==
  /\ Receive("L3") /\ Head(toYate).msg = "MM"
  /\ LET id == Head(toYate).id
         p == Head(toYate).from IN
       IF conn[id].st = "removed" THEN UNCHANGED <<conn, toBts>>
       ELSE /\ conn' = Drop([conn EXCEPT ![id] = Owned(@, p)], Replaced(id, p))
            /\ Send(Releases(Replaced(id, p)))
  /\ YateOnly
  /\ UNCHANGED <<ph, handovers>>

(* findConnDrop: a message for a connection Yate does not have is ignored,  *)
(* dropConn having nothing to release.                                      *)
HandleUnknown ==
  /\ Receive("L3") /\ Head(toYate).msg # "MM"
  /\ conn[Head(toYate).id].st # "live"
  /\ UNCHANGED <<conn, toBts>>
  /\ YateOnly
  /\ UNCHANGED <<ph, handovers>>

(* A call is set up, with traffic allocated and started, or cleared.        *)
HandleCC ==
  /\ Receive("L3") /\ Head(toYate).msg = "CC"
  /\ LET id == Head(toYate).id
         x == conn[id]
         start == ~x.traffic /\ ~x.wait IN
       /\ x.st = "live"
       /\ IF x.call
          THEN /\ conn' = [conn EXCEPT ![id].hard = FALSE, ![id].call = FALSE]
               /\ UNCHANGED toBts
          ELSE /\ conn' = [conn EXCEPT ![id].hard = FALSE, ![id].call = TRUE,
                                       ![id].wait = @ \/ start]
               /\ Send(<<ToBtsMsg("Alloc", id)>> \o
                       IF start THEN <<ToBtsMsg("Start", id)>> ELSE <<>>)
  /\ YateOnly
  /\ UNCHANGED <<ph, handovers>>

(* handleHoComplete: the state saved for the handover is loaded, with the   *)
(* phone and its call.                                                      *)
HandleHandoverComplete ==
  /\ Receive("L3") /\ Head(toYate).msg = "HandoverComplete"
  /\ LET id == Head(toYate).id
         p == Head(toYate).from IN
       /\ conn[id].st = "live"
       /\ conn' = Drop([conn EXCEPT ![id] =
                          [Owned(@, p) EXCEPT !.call = TRUE,
                                              !.traffic = TRUE]],
                       Replaced(id, p))
       /\ Send(Releases(Replaced(id, p)))
  /\ YateOnly
  /\ UNCHANGED <<ph, handovers>>

(* The call of id ends: at once with the connection if it is to be released *)
(* hard, and otherwise with a message to the phone.                         *)
HangUpOf(id) ==
  IF conn[id].hard
  THEN conn' = Drop(conn, {id}) /\ Send(Releases({id}))
  ELSE conn' = [conn EXCEPT ![id].call = FALSE] /\ Send(<<ToBtsMsg("L3", id)>>)

(* startTrafficRsp. *)
HandleStarted ==
  /\ Receive("Started")
  /\ LET id == Head(toYate).id
         x == conn[id] IN
       conn' = IF x.st # "live" \/ x.wait = x.traffic THEN conn
               ELSE [conn EXCEPT ![id].traffic = x.wait, ![id].wait = FALSE]
  /\ UNCHANGED toBts
  /\ YateOnly
  /\ UNCHANGED <<ph, handovers>>

HandleError ==
  /\ Receive("Error")
  /\ LET id == Head(toYate).id IN
       \/ /\ conn[id].st = "live" /\ conn[id].call
          /\ IF conn[id].hard
             THEN conn' = Drop(conn, {id}) /\ Send(Releases({id}))
             ELSE /\ conn' = [conn EXCEPT ![id].call = FALSE, ![id].wait = FALSE]
                  /\ Send(<<ToBtsMsg("L3", id)>>)
       \/ /\ conn[id].st = "live" /\ ~conn[id].call
          /\ conn' = [conn EXCEPT ![id].wait = FALSE]
          /\ UNCHANGED toBts
       \/ /\ conn[id].st # "live"
          /\ UNCHANGED <<conn, toBts>>
  /\ YateOnly
  /\ UNCHANGED <<ph, handovers>>

(* dropConn(id, false). *)
HandleLost ==
  /\ Receive("Lost")
  /\ conn' = [conn EXCEPT ![Head(toYate).id] = NoConn]
  /\ UNCHANGED toBts
  /\ YateOnly
  /\ UNCHANGED <<ph, handovers>>

(* The phone is sent here if the handover command reaches it in time: the   *)
(* other network waits a second for it.                                     *)
HandleHandoverAck ==
  /\ Receive("HandoverAck")
  /\ LET m == Head(toYate) IN
       IF conn[m.id].st = "removed" THEN UNCHANGED <<conn, ph>>
       ELSE /\ conn' = [conn EXCEPT ![m.id].st = "live", ![m.id].hard = TRUE]
            /\ \/ UNCHANGED ph
               \/ \E p \in Phone :
                    /\ ph[p] = Away
                    /\ ph' = [ph EXCEPT ![p] =
                                [Away EXCEPT !.at = m.chan, !.ref = m.ref,
                                             !.brings = "HandoverComplete"]]
  /\ UNCHANGED toBts
  /\ YateOnly
  /\ UNCHANGED handovers

HandleHandoverReject ==
  /\ Receive("HandoverReject")
  /\ UNCHANGED <<conn, toBts>>
  /\ YateOnly
  /\ UNCHANGED <<ph, handovers>>

(* The driver is asked for a handover to this cell. *)
AskHandover ==
  /\ handovers < Len(HoRefs)
  /\ handovers' = handovers + 1
  /\ Send(<<[ToBtsMsg("HandoverRequest", -1) EXCEPT !.ref = HoRefs[handovers']]>>)
  /\ YateOnly
  /\ UNCHANGED <<toYate, conn, ph>>

HangUp(id) ==
  /\ conn[id].st = "live" /\ conn[id].call
  /\ HangUpOf(id)
  /\ YateOnly
  /\ UNCHANGED <<toYate, ph, handovers>>

(* checkTimers: a connection nobody uses is dropped. *)
IdleTimeout(id) ==
  /\ conn[id].st = "live" /\ ~conn[id].call
  /\ conn' = Drop(conn, {id})
  /\ Send(Releases({id}))
  /\ YateOnly
  /\ UNCHANGED <<toYate, ph, handovers>>

(* Something of the connection is still on its way. *)
Pending(id) ==
  \/ \E i \in 1 .. Len(toYate) : toYate[i].id = id
  \/ \E i \in 1 .. Len(toBts) : toBts[i].id = id
  \/ \E c \in Chan : ch[c].id = id
  \/ ChanOf(table, id) # None

(* It is forgotten much later. *)
RemovedTimeout(id) ==
  /\ conn[id].st = "removed"
  /\ IF Pending(id)
     THEN used.late < MaxLate /\ used' = [used EXCEPT !.late = @ + 1]
     ELSE UNCHANGED used
  /\ conn' = [conn EXCEPT ![id] = NoConn]
  /\ UNCHANGED <<ch, table, sig, toYate, toBts, ph, handovers>>

Yate ==
  \/ HandleMM \/ HandleUnknown \/ HandleCC \/ HandleHandoverComplete
  \/ HandleStarted \/ HandleError \/ HandleLost
  \/ HandleHandoverAck \/ HandleHandoverReject
  \/ AskHandover
  \/ \E id \in Id : HangUp(id) \/ IdleTimeout(id) \/ RemovedTimeout(id)

Radio ==
  \/ \E c \in Chan : TimerExpires(c) \/ LinkFails(c)
  \/ \E p \in Phone :
       \/ \E pool \in Access : Grant(p, pool)
       \/ Seize(p) \/ Announce(p) \/ Talk(p) \/ HandoverBurst(p) \/ Leave(p)
       \/ ObeyRelease(p) \/ ObeyModify(p) \/ ObeyAssignment(p)
       \/ AssignmentFails(p)

Next == Radio \/ (\E c \in Chan : Dispatch(c)) \/ Serve \/ Yate

Spec == Init /\ [][Next]_vars

-----------------------------------------------------------------------------
(* Properties *)

(* A channel serves one connection, as the channel it speaks on or the one  *)
(* reserved for it: Map, Remap, MapMedia and Unmap come from all the        *)
(* dispatchers and from the thread of the socket.                           *)
OneHolder ==
  \A i, j \in Id : i # j =>
    {table.mMap[i].mChan, table.mMap[i].mMedia} \cap
    {table.mMap[j].mChan, table.mMap[j].mMedia} \subseteq {None}

(* What a phone says is never taken for another phone's: the id of a        *)
(* message that Yate is about to read is that of its sender's connection.   *)
NextMessageIsOwn ==
  toYate # <<>> /\ Head(toYate).t = "L3" /\ conn[Head(toYate).id].st = "live"
    => conn[Head(toYate).id].ue \in {None, Head(toYate).from}

(* Yate's release of a connection never meets another: as long as it is on  *)
(* its way the id is not given to a phone Yate serves.                      *)
ReleaseHitsOwn ==
  \A i \in 1 .. Len(toBts) :
    toBts[i].t \in {"Release", "HardRelease"} =>
      conn[toBts[i].id].st # "live"

(* A link that both its ends have is watched by T3109, which the phone's    *)
(* frames start again: whatever is opened, moved, released or fails, such a *)
(* channel is not recyclable, nor left to T3101 or T3111 to become so.      *)
LinkIsHeld ==
  \A c \in Chan : ch[c].link /\ OnLink(c) # {} => ch[c].l1 = "T3109"

(* "Connection to UE lost": a connection that is reported lost is not one   *)
(* that has moved to another channel.                                       *)
LostIsLost ==
  \A i \in 1 .. Len(toYate) :
    toYate[i].t = "Lost" =>
      \A c \in Chan : ChanOf(table, toYate[i].id) = c => At(c, "unmap")

(* Nothing is under way between the two programs. *)
Quiet ==
  /\ toYate = <<>> /\ toBts = <<>> /\ sig = NoSig
  /\ \A c \in Chan :
        /\ ch[c].l3 = <<>>
        /\ \/ At(c, "wait")
           \/ At(c, "recv") /\ ChanOf(table, ch[c].id) = c

(* When nothing is under way both programs know the same connections: what  *)
(* mbts has mapped Yate has, and the other way round, except a handover that*)
(* Yate still waits for and that its idle timer will end.                   *)
Agreement ==
  Quiet => \A id \in Id :
    /\ ChanOf(table, id) # None => conn[id].st = "live"
    /\ conn[id].st = "live" /\ ~conn[id].hard => ChanOf(table, id) # None

(* A phone that comes to the channel that waits for it is recognised by its *)
(* reference.                                                               *)
PromisedHandoverIsFound ==
  \A p \in Phone :
    LET c == ph[p].at
        id == Find(table, c) IN
    /\ c # None /\ ph[p].brings = "HandoverComplete"
    /\ ch[c].handoverPending
    /\ id # -1 /\ table.mMap[id].mHoRef = ph[p].ref
    => FindRef(table, ph[p].ref) = id

(* A connection that Yate has given to a phone serves no other: whoever has *)
(* the link of its channel, while the dispatcher reads it, is that phone.   *)
ServesItsOwner ==
  \A c \in Chan :
    At(c, "recv") /\ ChanOf(table, ch[c].id) = c
      /\ conn[ch[c].id].st = "live" /\ conn[ch[c].id].ue # None
    => OnLink(c) \subseteq {conn[ch[c].id].ue}

=============================================================================
