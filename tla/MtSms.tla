------------------------------- MODULE MtSms --------------------------------
(***************************************************************************)
(* Short messages to one phone: the thread that waits in msg.execute for   *)
(* each of them (YBTSDriver), the list of a phone's messages               *)
(* (YBTSMtSmsList), which comes and goes with its messages, the paging of  *)
(* the phone, the signalling thread, which brings what the phone and mbts  *)
(* say, and the threads beside it that drop connections: the one that runs *)
(* the timers, and those of location updates.  mbts and the phone are      *)
(* reduced to connections that come and are lost, a page, SAP 3 and the    *)
(* answers the phone owes.                                                 *)
(*                                                                         *)
(* A connection is authenticated, or need not be (auth.sms=no), has no     *)
(* call, and the radio is up.  Each step is one stretch of code under one  *)
(* lock: of a list, of the table of lists, or of the connections; what it  *)
(* sends to mbts arrives with it.  A list's lock is also held while the    *)
(* count of those who page comes to 0 and the paging is stopped: here the  *)
(* list may be used in between, which adds behaviours.                     *)
(***************************************************************************)
EXTENDS SequencesExt

CONSTANTS Sms,          \* bound: the messages there are
          MaxConn,      \* bound: the connections the phone makes
          MaxUpdate,    \* bound: how many of them for a location update
          Tids,         \* 7: where m_tid goes back to 0
          None

ASSUME MtSmsAssumption ==
  /\ MaxConn \in Nat \ {0} /\ MaxUpdate \in Nat /\ Tids \in Nat \ {0}
  /\ IsFiniteSet(Sms)
  /\ None \notin Sms /\ None \notin 1 .. MaxConn /\ None \notin 0 .. Tids - 1

VARIABLES
    pc,         \* where the thread of a message is
    mine,       \* the list it has found, or None
    sms,        \* YBTSMtSms: active, sent, callRef
    table,      \* the phone's entry of m_mtSms, or None
    list,       \* YBTSMtSmsList; lapsed: see NotForgotten
    ue,         \* YBTSUE: m_pageCnt, m_paging
    conn,       \* the connections of YBTSSignalling
    sig,        \* what the signalling thread has yet to do, first thing first
    aside,      \* of each connection: what the thread beside it that drops it
                \* does next
    toYate,     \* the socket to Yate
    pager,      \* mbts has a paging entry
    link,       \* the channels in mbts: "none", "up", "asked" for SAP 3, "down"
    at,         \* the one the phone is on, or None
    owed,       \* what the phone will answer
    taken       \* whose answer ended a message, or None

yate == <<pc, mine, sms, table, list, ue, conn, sig, aside, taken>>
radio == <<pager, link, at, owed>>
vars == <<yate, toYate, radio>>

Conn == 1 .. MaxConn
List == Sms     \* a list has the name of the message that has opened it

Job(op, l, c) == [op |-> op, list |-> l, conn |-> c]

Init ==
  /\ pc = [s \in Sms |-> "idle"] /\ mine = [s \in Sms |-> None]
  /\ sms = [s \in Sms |-> [active |-> TRUE, sent |-> FALSE, callRef |-> None]]
  /\ table = None
  /\ list = [l \in List |-> [queue |-> <<>>, conn |-> None, tid |-> 0, check |-> FALSE,
                             paging |-> FALSE, lapsed |-> FALSE]]
  /\ ue = [cnt |-> 0, paging |-> FALSE]
  /\ conn = [c \in Conn |-> [state |-> "none", ue |-> FALSE, locUpd |-> FALSE,
                             sapi |-> FALSE, usage |-> 0, due |-> FALSE]]
  /\ sig = <<>> /\ toYate = <<>>
  /\ aside = [c \in Conn |-> Job("none", None, c)]
  /\ pager = FALSE /\ link = [c \in Conn |-> "none"] /\ at = None /\ owed = {}
  /\ taken = [s \in Sms |-> None]

Listening(c) == at = c /\ link[c] \in {"up", "asked"}

(* Who holds a reference to a list, besides the table.                     *)
Working == {"found", "appended", "wait", "check", "ended"}
Holders(l) == {s \in Sms : mine[s] = l /\ pc[s] \in Working}
SigHolds(l, work) == \E i \in DOMAIN work : work[i].list = l
HeldAside(l) == \E c \in Conn : aside[c].list = l

-----------------------------------------------------------------------------
(* Paging and connection usage: what checkMtSms, connReleased and the end  *)
(* of a list have in common.                                               *)

(* YBTSUE::stopPaging, its first half: the count.                          *)
Counted(u) == [u EXCEPT !.cnt = IF @ > 0 THEN @ - 1 ELSE 0]
StopsNow(u) == u.cnt = 1

(* The count, and a request to mbts unless the phone is being paged.       *)
startPaging(u) == [cnt |-> u.cnt + 1, paging |-> TRUE]

(* Fault: the timer goes on.                                              *)
UsageOnKeepsTimer(c) == [conn EXCEPT ![c].usage = @ + 1]

UsageOn(c) == [conn EXCEPT ![c].usage = @ + 1, ![c].due = FALSE]

(* A removed connection keeps its usage as it is.                          *)
UsageOff(c) ==
  IF conn[c].state = "up"
  THEN [conn EXCEPT ![c].usage = @ - 1, ![c].due = (conn[c].usage = 1)]
  ELSE conn

(* Fault: the paging goes on.                                              *)
DestroyedKeepsPaging(l) ==
  /\ list' = [list EXCEPT ![l].paging = FALSE, ![l].conn = None, ![l].queue = <<>>]
  /\ UNCHANGED ue
  /\ conn' = IF list[l].conn = None THEN conn ELSE UsageOff(list[l].conn)

(* The last reference to a list is dropped.                                *)
Destroyed(l) ==
  /\ list' = [list EXCEPT ![l].paging = FALSE, ![l].conn = None, ![l].queue = <<>>]
  /\ ue' = IF list[l].paging THEN Counted(ue) ELSE ue
  /\ conn' = IF list[l].conn = None THEN conn ELSE UsageOff(list[l].conn)

(* stopPagingNow, after the count has come to 0 or for its own sake.  The  *)
(* lists that ask for paging are not told.                                 *)
stopPagingNow ==
  /\ ue' = [ue EXCEPT !.paging = FALSE]
  /\ pager' = (pager /\ ~ue.paging)

-----------------------------------------------------------------------------
(* YBTSDriver::checkMtSms.                                                 *)

(* The queue without the inactive messages at its head.                    *)
Pending(l) ==
  LET q == list[l].queue
      n == CHOOSE k \in 0 .. Len(q) :
             /\ \A j \in 1 .. k : ~sms[q[j]].active
             /\ k < Len(q) => sms[q[k + 1]].active
  IN SubSeq(q, n + 1, Len(q))

(* Fault: a connection that has been removed is found.                     *)
RemovedToo == {c \in Conn : conn[c].state # "none" /\ conn[c].ue}

(* The connections with the phone, of which findConn gives the oldest.     *)
Candidates == {c \in Conn : conn[c].state = "up" /\ conn[c].ue}
Found == {c \in Candidates : \A d \in Candidates : c <= d}

(* With the list's own connection, or one just found: establish SAP 3, or  *)
(* send.  lst is the list so far.                                          *)
SendOn(l, lst, c) ==
  LET s == Head(lst.queue) IN
  IF ~conn[c].sapi
  THEN /\ list' = [list EXCEPT ![l] = lst]
       /\ link' = [link EXCEPT ![c] = IF @ = "up" THEN "asked" ELSE @]
       /\ UNCHANGED <<sms, owed>>
  ELSE /\ list' = [list EXCEPT ![l] = [lst EXCEPT !.tid = (@ + 1) % Tids]]
       /\ sms' = [sms EXCEPT ![s].sent = TRUE, ![s].callRef = lst.tid]
       /\ owed' = IF Listening(c)
                  THEN owed \cup {[conn |-> c, ref |-> lst.tid, sms |-> s]} ELSE owed
       /\ UNCHANGED link

checkMtSms(l) ==
  LET queue == Pending(l)
      lst == [list[l] EXCEPT !.queue = queue, !.lapsed = FALSE]
      stale == list[l].paging           \* the phone is not paged
      u == IF stale THEN Counted(ue) ELSE ue
  IN
  IF queue = <<>> \/ sms[Head(queue)].sent \/ (list[l].paging /\ ue.paging)
  THEN /\ list' = [list EXCEPT ![l] = lst]
       /\ UNCHANGED <<sms, ue, conn, pager, link, owed>>
  ELSE \/ /\ list[l].conn = None /\ Candidates = {}
          /\ list' = [list EXCEPT ![l] = [lst EXCEPT !.paging = TRUE]]
          /\ ue' = startPaging(u)
          /\ pager' = (pager \/ ~ue.paging)
          /\ UNCHANGED <<sms, conn, link, owed>>
       \/ \E c \in Found :
            /\ list[l].conn = None /\ conn[c].locUpd
            /\ list' = [list EXCEPT ![l] = [lst EXCEPT !.paging = FALSE]]
            /\ ue' = u
            /\ UNCHANGED <<sms, conn, pager, link, owed>>
       \/ \E c \in Found :
            /\ list[l].conn = None /\ ~conn[c].locUpd
            /\ SendOn(l, [lst EXCEPT !.paging = FALSE, !.conn = c], c)
            /\ ue' = u /\ conn' = UsageOn(c)
            /\ UNCHANGED pager
       \/ /\ list[l].conn # None
          /\ SendOn(l, [lst EXCEPT !.paging = FALSE], list[l].conn)
          /\ ue' = u
          /\ UNCHANGED <<conn, pager>>

-----------------------------------------------------------------------------
(* The thread of a message, handleMsgExecute.                              *)

(* findMtSmsList(create), under the lock of the table.                     *)
FindList(s) ==
  /\ pc[s] = "idle"
  /\ pc' = [pc EXCEPT ![s] = "found"]
  /\ table' = IF table # None THEN table ELSE s
  /\ mine' = [mine EXCEPT ![s] = table']
  /\ UNCHANGED <<sms, list, ue, conn, sig, aside, taken, toYate, radio>>

(* Under the lock of the list, which may have left the table meanwhile.    *)
AppendSms(s) ==
  /\ pc[s] = "found"
  /\ pc' = [pc EXCEPT ![s] = "appended"]
  /\ list' = [list EXCEPT ![mine[s]].queue = Append(@, s)]
  /\ UNCHANGED <<mine, sms, table, ue, conn, sig, aside, taken, toYate, radio>>

CheckByThread(s) ==
  /\ pc[s] \in {"appended", "check"}
  /\ pc' = [pc EXCEPT ![s] = "wait"]
  /\ checkMtSms(mine[s])
  /\ UNCHANGED <<mine, table, sig, aside, taken, toYate, at>>

TakeCheck(s) ==
  /\ pc[s] = "wait" /\ sms[s].active /\ list[mine[s]].check
  /\ pc' = [pc EXCEPT ![s] = "check"]
  /\ list' = [list EXCEPT ![mine[s]].check = FALSE]
  /\ UNCHANGED <<mine, sms, table, ue, conn, sig, aside, taken, toYate, radio>>

(* The message has been answered, or its time (postdialdelay, timeout) is  *)
(* over.                                                                   *)
LeaveLoop(s) ==
  /\ pc[s] = "wait"
  /\ pc' = [pc EXCEPT ![s] = "ended"]
  /\ sms' = [sms EXCEPT ![s].active = FALSE]
  /\ UNCHANGED <<mine, table, list, ue, conn, sig, aside, taken, toYate, radio>>

(* removeMtSms, and the end of the list if nobody else has it.             *)
RemoveSms(s) ==
  LET l == mine[s]
      queue == RemoveFirst(list[l].queue, s)
      last == queue = <<>> /\ Holders(l) = {s} /\ ~SigHolds(l, sig) /\ ~HeldAside(l)
  IN
  /\ pc[s] = "ended"
  /\ table' = IF queue = <<>> /\ table = l THEN None ELSE table
  /\ IF last THEN Destroyed(l)
     ELSE /\ list' = [list EXCEPT ![l].queue = queue,
                                  ![l].lapsed = @ \/ queue # list[l].queue]
          /\ UNCHANGED <<ue, conn>>
  /\ pc' = [pc EXCEPT ![s] = IF last /\ list[l].paging /\ StopsNow(ue)
                             THEN "stopping" ELSE "done"]
  /\ UNCHANGED <<mine, sms, sig, aside, taken, toYate, radio>>

(* The second half of stopPaging, without a lock.                          *)
StopPagingByThread(s) ==
  /\ pc[s] = "stopping"
  /\ pc' = [pc EXCEPT ![s] = "done"]
  /\ stopPagingNow
  /\ list' = [l \in List |-> [list[l] EXCEPT !.lapsed = @ \/ list[l].paging]]
  /\ UNCHANGED <<mine, sms, table, conn, sig, aside, taken, toYate, link, at, owed>>

-----------------------------------------------------------------------------
(* The signalling thread: jobs it has taken on, then the socket and timers.*)

Does(op) == sig # <<>> /\ Head(sig).op = op
Goes(work) == sig' = work \o Tail(sig)

(* YBTSSignalling::dropConn with a release sent to mbts, unless another    *)
(* thread has removed the connection.                                      *)
dropConn(c) ==
  IF conn[c].state = "up"
  THEN /\ conn' = [conn EXCEPT ![c].state = "removed", ![c].usage = 0]
       /\ link' = [link EXCEPT ![c] = "down"]
       /\ at' = IF at = c THEN None ELSE at
       /\ owed' = {o \in owed : o.conn # c}
  ELSE UNCHANGED <<conn, link, at, owed>>

(* It calls connReleased either way, with the connection if it was there.  *)
Then(c) == Job(IF conn[c].state = "up" THEN "released" ELSE "absent", None, c)

DropConn ==
  /\ Does("drop")
  /\ dropConn(Head(sig).conn) /\ Goes(<<Then(Head(sig).conn)>>)
  /\ UNCHANGED <<pc, mine, sms, table, list, ue, aside, taken, toYate, pager>>

(* connReleased, its two locks.  Under the one of the table it finds the   *)
(* list that has the connection, or the phone's list when a location       *)
(* update is over.                                                         *)
Finds(op, c) ==
  /\ table # None
  /\ list[table].conn = c \/ (op = "released" /\ conn[c].ue /\ conn[c].locUpd)

(* Fault: the threads that wait are not told.                              *)
ResetSilently(l) ==
  /\ list' = [list EXCEPT ![l].conn = None, ![l].paging = FALSE]
  /\ sms' = [s \in Sms |-> IF sms[s].active /\ s \in ToSet(list[l].queue)
                           THEN [sms[s] EXCEPT !.sent = FALSE] ELSE sms[s]]
  /\ ue' = IF list[l].paging THEN Counted(ue) ELSE ue

(* Under the list's own, whatever has become of the list meanwhile.        *)
Reset(l) ==
  /\ list' = [list EXCEPT ![l].conn = None, ![l].paging = FALSE, ![l].check = TRUE]
  /\ sms' = [s \in Sms |-> IF sms[s].active /\ s \in ToSet(list[l].queue)
                           THEN [sms[s] EXCEPT !.sent = FALSE] ELSE sms[s]]
  /\ ue' = IF list[l].paging THEN Counted(ue) ELSE ue

ConnReleased ==
  /\ Does("released") \/ Does("absent")
  /\ Goes(IF Finds(Head(sig).op, Head(sig).conn) THEN <<Job("reset", table, None)>>
          ELSE <<>>)
  /\ UNCHANGED <<pc, mine, sms, table, list, ue, conn, aside, taken, toYate, radio>>

ResetList ==
  /\ Does("reset")
  /\ LET l == Head(sig).list IN
     /\ Reset(l)
     /\ Goes(IF list[l].paging /\ StopsNow(ue)
             THEN <<Job("stopPaging", None, None)>> ELSE <<>>)
  /\ UNCHANGED <<pc, mine, table, conn, aside, taken, toYate, radio>>

StopPagingBySig ==
  /\ Does("stopPaging")
  /\ Goes(<<>>)
  /\ stopPagingNow
  /\ list' = [l \in List |-> [list[l] EXCEPT !.lapsed = @ \/ list[l].paging]]
  /\ UNCHANGED <<pc, mine, sms, table, conn, aside, taken, toYate, link, at, owed>>

(* setUE, then connUeChanged: other connections with the phone go.         *)
SetUE ==
  /\ Does("setUE")
  /\ LET c == Head(sig).conn
         others == SetToSeq(Candidates \ {c})
     IN /\ conn' = [conn EXCEPT ![c].ue = TRUE]
        /\ Goes([i \in DOMAIN others |-> Job("drop", None, others[i])])
  /\ UNCHANGED <<pc, mine, sms, table, list, ue, aside, taken, toYate, radio>>

(* checkMtService: checkMtSms of the phone.                                *)
CheckService ==
  /\ Does("service")
  /\ Goes(IF table = None THEN <<>> ELSE <<Job("look", table, None)>>)
  /\ UNCHANGED <<pc, mine, sms, table, list, ue, conn, aside, taken, toYate, radio>>

Look ==
  /\ Does("look")
  /\ LET l == Head(sig).list IN
     /\ checkMtSms(l)
     /\ Goes(IF Pending(l) = <<>> THEN <<Job("remove", l, None)>> ELSE <<>>)
  /\ UNCHANGED <<pc, mine, table, aside, taken, toYate, at>>

RemoveList ==
  /\ Does("remove")
  /\ LET l == Head(sig).list
         empty == list[l].queue = <<>>
         last == empty /\ Holders(l) = {} /\ ~SigHolds(l, Tail(sig)) /\ ~HeldAside(l)
     IN /\ table' = IF empty /\ table = l THEN None ELSE table
        /\ IF last THEN Destroyed(l) ELSE UNCHANGED <<list, ue, conn>>
        /\ Goes(IF last /\ list[l].paging /\ StopsNow(ue)
                THEN <<Job("stopPaging", None, None)>> ELSE <<>>)
  /\ UNCHANGED <<pc, mine, sms, aside, taken, toYate, radio>>

(* Fault: whatever is answered, it is the message at the head.             *)
TakeAnyAnswer(job) ==
  LET l == job.list
      queue == list[l].queue
  IN
  IF queue = <<>> THEN Goes(<<Job("remove", l, None)>>) /\ UNCHANGED <<sms, list, taken>>
  ELSE /\ list' = [list EXCEPT ![l].queue = Tail(@)]
       /\ sms' = [sms EXCEPT ![Head(queue)].active = FALSE]
       /\ taken' = IF sms[Head(queue)].active
                   THEN [taken EXCEPT ![Head(queue)] = job.sms] ELSE taken
       /\ Goes(<<Job("look", l, None)>>)

(* handleMtSmsRsp, once the list has been found.                           *)
TakeAnswer(job) ==
  LET l == job.list
      queue == list[l].queue
  IN
  IF queue = <<>> THEN Goes(<<Job("remove", l, None)>>) /\ UNCHANGED <<sms, list, taken>>
  ELSE IF ~sms[Head(queue)].active
  THEN /\ list' = [list EXCEPT ![l].queue = Tail(@), ![l].lapsed = TRUE]
       /\ Goes(<<[job EXCEPT !.op = "answer", !.list = None]>>)
       /\ UNCHANGED <<sms, taken>>
  ELSE IF sms[Head(queue)].callRef # job.ref
  THEN Goes(<<>>) /\ UNCHANGED <<sms, list, taken>>
  ELSE /\ list' = [list EXCEPT ![l].queue = Tail(@)]
       /\ sms' = [sms EXCEPT ![Head(queue)].active = FALSE]
       /\ taken' = [taken EXCEPT ![Head(queue)] = job.sms]
       /\ Goes(<<Job("look", l, None)>>)

FindAnswered ==
  /\ Does("answer")
  /\ Goes(IF table = None THEN <<>>
          ELSE <<[Head(sig) EXCEPT !.op = "take", !.list = table]>>)
  /\ UNCHANGED <<pc, mine, sms, table, list, ue, conn, aside, taken, toYate, radio>>

Take ==
  /\ Does("take")
  /\ TakeAnswer(Head(sig))
  /\ UNCHANGED <<pc, mine, table, ue, conn, aside, toYate, radio>>

Reads(type) ==
  /\ sig = <<>> /\ toYate # <<>> /\ Head(toYate).type = type
  /\ toYate' = Tail(toYate)

(* YBTSMM::handlePagingResponse.  A phone that nobody pages any more gets  *)
(* RRStatus, and a connection without UE.                                  *)
PagingResponse ==
  /\ Reads("page")
  /\ LET c == Head(toYate).conn IN
     /\ conn' = [conn EXCEPT ![c].state = "up"]
     /\ sig' = IF ue.paging THEN <<Job("setUE", None, c), Job("service", None, None)>>
               ELSE <<>>
  /\ IF ue.paging THEN stopPagingNow ELSE UNCHANGED <<ue, pager>>
  /\ UNCHANGED <<pc, mine, sms, table, list, aside, taken, link, at, owed>>

LocationUpdate ==
  /\ Reads("update")
  /\ LET c == Head(toYate).conn IN
     /\ conn' = [conn EXCEPT ![c].state = "up", ![c].locUpd = TRUE]
     /\ sig' = <<Job("setUE", None, c)>>
  /\ UNCHANGED <<pc, mine, sms, table, list, ue, aside, taken, radio>>

(* sapiEstablish.                                                          *)
SapiEstablished ==
  /\ Reads("sapi")
  /\ LET c == Head(toYate).conn IN
     IF conn[c].state = "up"
     THEN /\ conn' = [conn EXCEPT ![c].sapi = TRUE]
          /\ sig' = IF conn[c].ue THEN <<Job("service", None, None)>> ELSE <<>>
     ELSE UNCHANGED <<conn, sig>>
  /\ UNCHANGED <<pc, mine, sms, table, list, ue, aside, taken, radio>>

(* dropConn for a connection mbts has lost.                                *)
ConnLost ==
  /\ Reads("lost")
  /\ LET c == Head(toYate).conn IN
     /\ conn' = IF conn[c].state = "up"
                THEN [conn EXCEPT ![c].state = "removed", ![c].usage = 0] ELSE conn
     /\ sig' = <<Then(c)>>
  /\ UNCHANGED <<pc, mine, sms, table, list, ue, aside, taken, radio>>

(* handleSmsCPData of an RP-ACK or RP-ERROR, and the CP-ERROR of           *)
(* handleSmsCPRsp.                                                         *)
Answered ==
  /\ Reads("answer")
  /\ LET m == Head(toYate) IN
     sig' = IF conn[m.conn].state = "up" /\ conn[m.conn].ue
            THEN <<[op |-> "answer", list |-> None, conn |-> m.conn,
                    ref |-> m.ref, sms |-> m.sms]>>
            ELSE <<>>
  /\ UNCHANGED <<pc, mine, sms, table, list, ue, conn, aside, taken, radio>>

(* handleUpdateComplete.                                                   *)
UpdateComplete(c) ==
  /\ sig = <<>> /\ conn[c].state = "up" /\ conn[c].locUpd
  /\ sig' = <<Job("drop", None, c)>>
  /\ UNCHANGED <<pc, mine, sms, table, list, ue, conn, aside, taken, toYate, radio>>

-----------------------------------------------------------------------------
(* Beside the signalling thread: each of these threads sees that the       *)
(* connection is up, and drops it later.                                   *)

DoesAside(c, op) == aside[c].op = op
GoesAside(c, job) == aside' = [aside EXCEPT ![c] = job]

(* checkTimers: the connection is idle.                                    *)
IdleTimeout(c) ==
  /\ DoesAside(c, "none") /\ conn[c].state = "up" /\ conn[c].due
  /\ GoesAside(c, Job("drop", None, c))
  /\ UNCHANGED <<pc, mine, sms, table, list, ue, conn, sig, taken, toYate, radio>>

(* locUpdTerminated: the registration has failed.                          *)
UpdateFails(c) ==
  /\ DoesAside(c, "none") /\ conn[c].state = "up" /\ conn[c].locUpd
  /\ GoesAside(c, Job("drop", None, c))
  /\ UNCHANGED <<pc, mine, sms, table, list, ue, conn, sig, taken, toYate, radio>>

DropAside(c) ==
  /\ DoesAside(c, "drop")
  /\ dropConn(c) /\ GoesAside(c, Then(c))
  /\ UNCHANGED <<pc, mine, sms, table, list, ue, sig, taken, toYate, pager>>

ReleasedAside(c) ==
  /\ DoesAside(c, "released") \/ DoesAside(c, "absent")
  /\ GoesAside(c, IF Finds(aside[c].op, c) THEN Job("reset", table, c) ELSE Job("none", None, c))
  /\ UNCHANGED <<pc, mine, sms, table, list, ue, conn, sig, taken, toYate, radio>>

ResetAside(c) ==
  /\ DoesAside(c, "reset")
  /\ LET l == aside[c].list IN
     /\ Reset(l)
     /\ GoesAside(c, Job(IF list[l].paging /\ StopsNow(ue) THEN "stopPaging" ELSE "none",
                         None, c))
  /\ UNCHANGED <<pc, mine, table, conn, sig, taken, toYate, radio>>

StopPagingAside(c) ==
  /\ DoesAside(c, "stopPaging")
  /\ GoesAside(c, Job("none", None, c))
  /\ stopPagingNow
  /\ list' = [l \in List |-> [list[l] EXCEPT !.lapsed = @ \/ list[l].paging]]
  /\ UNCHANGED <<pc, mine, sms, table, conn, sig, taken, toYate, link, at, owed>>

-----------------------------------------------------------------------------
(* mbts and the phone.                                                     *)

Fresh == {c \in Conn : link[c] = "none" /\ \A d \in 1 .. c - 1 : link[d] # "none"}

Comes(type, c) ==
  /\ link' = [link EXCEPT ![c] = "up"] /\ at' = c
  /\ toYate' = Append(toYate, [type |-> type, conn |-> c])

PhoneAnswersPage ==
  /\ pager /\ at = None
  /\ \E c \in Fresh : Comes("page", c)
  /\ UNCHANGED <<yate, pager, owed>>

(* The phone comes by itself; its old channel, if any, is left behind.     *)
PhoneUpdates ==
  /\ Cardinality({c \in Conn : conn[c].locUpd}) < MaxUpdate
  /\ \A i \in DOMAIN toYate : toYate[i].type # "update"
  /\ \E c \in Fresh : Comes("update", c)
  /\ UNCHANGED <<yate, pager, owed>>

(* The phone drops the channel; mbts finds out later.                      *)
PhoneLeaves ==
  /\ at # None /\ at' = None
  /\ owed' = {o \in owed : o.conn # at}
  /\ UNCHANGED <<yate, toYate, pager, link>>

(* A SAP 3 that fails ends the connection.                                 *)
SapiComesUp(c) ==
  /\ link[c] = "asked" /\ at = c
  /\ link' = [link EXCEPT ![c] = "up"]
  /\ toYate' = Append(toYate, [type |-> "sapi", conn |-> c])
  /\ UNCHANGED <<yate, pager, at, owed>>

LinkLost(c) ==
  /\ link[c] \in {"up", "asked"}
  /\ link' = [link EXCEPT ![c] = "down"]
  /\ at' = IF at = c THEN None ELSE at
  /\ owed' = {o \in owed : o.conn # c}
  /\ toYate' = Append(toYate, [type |-> "lost", conn |-> c])
  /\ UNCHANGED <<yate, pager>>

(* In any order, and however late.                                         *)
PhoneAnswers(o) ==
  /\ o \in owed /\ Listening(o.conn)
  /\ owed' = owed \ {o}
  /\ toYate' = Append(toYate, [type |-> "answer", conn |-> o.conn, ref |-> o.ref,
                               sms |-> o.sms])
  /\ UNCHANGED <<yate, pager, link, at>>

(* T3113 of mbts; Yate is not told.                                        *)
PagerExpires ==
  /\ pager /\ pager' = FALSE
  /\ UNCHANGED <<yate, toYate, link, at, owed>>

-----------------------------------------------------------------------------
Thread(s) ==
  \/ FindList(s) \/ AppendSms(s) \/ CheckByThread(s) \/ TakeCheck(s)
  \/ LeaveLoop(s) \/ RemoveSms(s) \/ StopPagingByThread(s)

Signalling ==
  \/ DropConn \/ ConnReleased \/ ResetList \/ StopPagingBySig \/ SetUE \/ CheckService \/ Look
  \/ RemoveList \/ FindAnswered \/ Take
  \/ PagingResponse \/ LocationUpdate \/ SapiEstablished \/ ConnLost \/ Answered
  \/ \E c \in Conn : UpdateComplete(c)

Beside(c) ==
  \/ IdleTimeout(c) \/ UpdateFails(c) \/ DropAside(c) \/ ReleasedAside(c)
  \/ ResetAside(c) \/ StopPagingAside(c)

Mbts ==
  \/ PhoneAnswersPage \/ PhoneUpdates \/ PhoneLeaves \/ PagerExpires
  \/ \E c \in Conn : SapiComesUp(c) \/ LinkLost(c)
  \/ \E o \in owed : PhoneAnswers(o)

Next == (\E s \in Sms : Thread(s)) \/ Signalling \/ (\E c \in Conn : Beside(c)) \/ Mbts

Spec == Init /\ [][Next]_vars

-----------------------------------------------------------------------------
(* Properties.                                                             *)

(* An answer ends the message it is the answer to: not one that follows it *)
(* in the same list, however late the answer comes.  (A list that begins   *)
(* anew counts from 0 again: an answer to the last message of the list     *)
(* before may come on the same connection.)                                *)
SuccessIsOwn ==
  \A s \in Sms :
    taken[s] \notin {None, s} => mine[taken[s]] # mine[s]

(* Nobody is in the middle of something.                                   *)
Quiet ==
  /\ sig = <<>> /\ toYate = <<>> /\ \A c \in Conn : aside[c].op = "none"
  /\ \A s \in Sms : pc[s] \in {"idle", "wait", "done"}

(* No wake-up is lost: the message whose turn it is is never left alone.   *)
(* It has been sent, or a thread has been told to look, the phone is being *)
(* paged, SAP 3 is being established, or a location update is awaited.     *)
(* lapsed: nobody looks after the head of the queue ran out of time, nor   *)
(* when a list asks for paging just as another list's is being stopped.    *)
NotForgotten ==
  Quiet /\ table # None /\ Pending(table) # <<>> =>
    LET l == list[table] IN
    \/ sms[Head(Pending(table))].sent \/ l.check \/ l.lapsed
    \/ l.paging /\ ue.paging
    \/ l.conn # None /\ link[l.conn] = "asked"
    \/ l.conn = None /\ \E c \in Candidates : conn[c].locUpd

(* The phone is not paged when no list asks for it: paging is counted by   *)
(* list, stopped by answers, and both at once.                             *)
PagedOnlyIfWanted == Quiet /\ pager => \E l \in List : list[l].paging

(* The usage of a connection, which keeps it from being closed as idle,    *)
(* covers every list that uses it, however the lists come by it and leave  *)
(* it and whoever drops it: its timer never runs while a list uses it.     *)
(* (It may count more.  A thread may give a list the phone's next          *)
(* connection after the list was found for the release of another: that    *)
(* release then takes it from the list, and does not give it back.)        *)
UsageCoversHolders ==
  \A c \in Conn : conn[c].state = "up" =>
    /\ conn[c].usage >= Cardinality({l \in List : list[l].conn = c})
    /\ conn[c].due => conn[c].usage = 0

(* However many threads drop connections, and whichever is told first, no  *)
(* list in the table is left with a connection that is gone: nobody would  *)
(* page for its messages.                                                  *)
NoDeadConnection ==
  Quiet /\ table # None => list[table].conn = None \/ conn[list[table].conn].state = "up"

=============================================================================
