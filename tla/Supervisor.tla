----------------------------- MODULE Supervisor -----------------------------
(***************************************************************************)
(* How Yate starts, watches, stops and restarts mbts: YBTSDriver with its  *)
(* state, stop and restart flags, YBTSSignalling with the thread that      *)
(* reads the socket, the mbts processes, and the worker threads of Yate    *)
(* that run a timer tick, a command or the halt of the engine.             *)
(*                                                                         *)
(* A thread is the sequence of what it has still to do (todo): one entry   *)
(* for each stretch of code between two points where another thread can    *)
(* step in, which are the taking and the dropping of m_stateMutex and the  *)
(* waits. A call puts the entries of the callee in front.                  *)
(*                                                                         *)
(* Time: a timer that has been set may be due at any tick.                 *)
(***************************************************************************)
EXTENDS Integers, Sequences, FiniteSets

CONSTANTS Tickers,      \* Yate's message threads that handle timer ticks
          Commanders,   \* those that handle commands and the halt
          None,
          Sig,          \* the thread of YBTSSignalling
          MaxRestart,   \* s_restartMax
          MaxPid,       \* bound: mbts processes
          MaxCmd,       \* bound: commands
          MaxFail       \* bound: failures of a peer or of a start

Workers == Tickers \cup Commanders

ASSUME SupervisorAssumption ==
  /\ {MaxRestart, MaxPid, MaxCmd, MaxFail} \subseteq Nat
  /\ None \notin Workers /\ Sig \notin Workers /\ Sig # None

VARIABLES drv,    \* YBTSDriver
          sig,    \* YBTSSignalling
          todo,   \* what each thread has still to do
          mutex,  \* who holds m_stateMutex over several steps
          sock,   \* the process at the other end of the sockets, 0 if none
          inbox,  \* messages of that process not read yet
          proc,   \* the processes
          gone,   \* the pid a tick found to have vanished
          env,    \* exiting, and how much of the bounds is used
          hist    \* for the properties: what has led here

vars == <<drv, sig, todo, mutex, sock, inbox, proc, gone, env, hist>>

Pid == 1..MaxPid
Threads == Workers \cup {Sig}
DriverStates == {"Idle", "Starting", "WaitHandshake", "Running", "RadioUp"}
SigStates == {"Idle", "Started", "WaitHandshake", "Running", "Closing"}
Messages == {"Handshake", "BadVersion", "RadioReady", "StopError", "StopFatal"}

(* boot: not spoken yet, up: radio ready, leaving: has read "shutdown",    *)
(* hung: alive and silent, zombie: ended and not waited for                *)
ProcStates == {"none", "boot", "greeted", "up", "leaving", "hung", "zombie"}
(* A pid is given again once nobody can remember it.                       *)
Fresh(p) == proc[p] = "none" /\ \A w \in Workers : gone[w] # p

LiveStates == {"boot", "greeted", "up", "leaving", "hung"}
Live(p) == proc[p] \in LiveStates
Talks == sock # 0 /\ proc[sock] \in {"boot", "greeted", "up"}

Steps == {"checkStop", "checkRestart", "timers", "peer", "vanished",
          "stop", "shutdown", "join", "tear", "ended",
          "start", "launch", "announce", "startIdle",
          "restart", "restartLock", "fatal", "fatalLock",
          "cmdStart", "cmdStop", "cmdRestart",
          "handshake", "run", "ready", "end"}

TypeOK ==
  /\ drv \in [state: DriverStates, stopped: BOOLEAN, error: BOOLEAN, stop: BOOLEAN,
              restart: BOOLEAN, timed: BOOLEAN, index: 0..MaxRestart,
              stopping: BOOLEAN, pid: 0..MaxPid]
  /\ sig \in [state: SigStates, thread: BOOLEAN, cancel: BOOLEAN]
  /\ todo \in [Threads -> Seq(Steps)]
  /\ mutex \in Workers \cup {None}
  /\ sock \in 0..MaxPid
  /\ inbox \in Seq(Messages)
  /\ proc \in [Pid -> ProcStates]
  /\ gone \in [Workers -> 0..MaxPid]
  /\ env \in [exiting: BOOLEAN, cmds: 0..MaxCmd, fails: 0..MaxFail]
  /\ hist \in [raced: BOOLEAN, gaveUp: BOOLEAN]

-----------------------------------------------------------------------------
(* Helpers *)

At(t, step) == todo[t] # <<>> /\ Head(todo[t]) = step

Does(t, steps) == \E i \in 1..Len(todo[t]) : todo[t][i] \in steps

(* Thread t goes on with the steps of a callee, then with its own.          *)
Goes(t, steps) == todo' = [todo EXCEPT ![t] = steps \o Tail(@)]
Returns(t) == Goes(t, <<>>)

(* For the properties: a call of start or stop while another thread is     *)
(* between its steps, which nothing in start keeps out                     *)
StopSteps == {"stop", "shutdown", "join", "tear", "ended"}
StartSteps == {"start", "launch", "announce"}
Enters(w, steps) ==
  hist' = [hist EXCEPT !.raced = @ \/ \E v \in Workers \ {w} : Does(v, steps)]

(* Lock lck(m_stateMutex)                                                  *)
Free == mutex = None

(* Fault: the process is not waited for, only forgotten. *)
PeerForgotten == proc

(* stopPeer: wait for the process, after a kill if it is alive             *)
PeerStopped == [p \in Pid |-> IF p = drv.pid THEN "none" ELSE proc[p]]

(* Fault: stopThread cancels the thread and does not wait. *)
NotJoined == TRUE

(* The loop of stopThread has ended                                        *)
Joined == ~sig.thread

(* m_restart together with m_restartTime                                   *)
Scheduled(d, on) == [d EXCEPT !.restart = on, !.timed = TRUE]

Failing == env.fails < MaxFail
Counted == env' = [env EXCEPT !.fails = @ + 1]

Init ==
  /\ drv = [state |-> "Idle", stopped |-> FALSE, error |-> FALSE, stop |-> FALSE,
            restart |-> FALSE, timed |-> FALSE, index |-> 0,
            stopping |-> FALSE, pid |-> 0]
  /\ sig = [state |-> "Idle", thread |-> FALSE, cancel |-> FALSE]
  /\ \E w \in Workers : todo = [t \in Threads |-> IF t = w THEN <<"startIdle">> ELSE <<>>]
  /\ mutex = None
  /\ sock = 0
  /\ inbox = <<>>
  /\ proc = [p \in Pid |-> "none"]
  /\ gone = [w \in Workers |-> 0]
  /\ env = [exiting |-> FALSE, cmds |-> 0, fails |-> 0]
  /\ hist = [raced |-> FALSE, gaveUp |-> FALSE]

-----------------------------------------------------------------------------
(* Messages of the engine *)

(* received(Timer)                                                         *)
Tick(w) ==
  /\ w \in Tickers
  /\ todo[w] = <<>>
  /\ todo' = [todo EXCEPT ![w] =
                 (IF drv.stop THEN <<"checkStop">>
                  ELSE IF drv.restart THEN <<"checkRestart">> ELSE <<>>)
                 \o <<"timers", "peer">>]
  /\ UNCHANGED <<drv, sig, mutex, sock, inbox, proc, gone, env, hist>>

(* commandExecute: start, stop, restart                                    *)
Command(w) ==
  /\ w \in Commanders
  /\ todo[w] = <<>>
  /\ env.cmds < MaxCmd
  /\ \E c \in {"cmdStart", "cmdStop", "cmdRestart"} : todo' = [todo EXCEPT ![w] = <<c>>]
  /\ env' = [env EXCEPT !.cmds = @ + 1]
  /\ UNCHANGED <<drv, sig, mutex, sock, inbox, proc, gone, hist>>

(* received(Halt)                                                          *)
Halt(w) ==
  /\ w \in Commanders
  /\ todo[w] = <<>>
  /\ ~env.exiting
  /\ env.cmds < MaxCmd
  /\ env' = [env EXCEPT !.exiting = TRUE, !.cmds = @ + 1]
  /\ todo' = [todo EXCEPT ![w] = <<"stop">>]
  /\ Enters(w, StartSteps)
  /\ UNCHANGED <<drv, sig, mutex, sock, inbox, proc, gone>>

(* cmdStartStop and what the command calls next                            *)
Commanded(w, command, stopped, call) ==
  /\ At(w, command)
  /\ drv' = [drv EXCEPT !.stopped = stopped, !.index = 0]
  /\ Goes(w, <<call>>)

CmdStartStop(w) ==
  /\ Free
  /\ \/ Commanded(w, "cmdStart", FALSE, "startIdle")
     \/ Commanded(w, "cmdStop", TRUE, "fatal")
     \/ Commanded(w, "cmdRestart", FALSE, "restart")
  /\ UNCHANGED <<sig, mutex, sock, inbox, proc, gone, env, hist>>

StartIdle(w) ==
  /\ At(w, "startIdle")
  /\ Free
  /\ IF drv.stopped \/ drv.state # "Idle" \/ env.exiting
     THEN Returns(w) /\ UNCHANGED hist
     ELSE Goes(w, <<"stop", "start">>) /\ Enters(w, StopSteps \cup StartSteps)
  /\ UNCHANGED <<drv, sig, mutex, sock, inbox, proc, gone, env>>

(* checkStop, checkRestart: the time is there                              *)
StopDue(w) ==
  /\ At(w, "checkStop")
  /\ Free
  /\ drv.stop
  /\ Goes(w, <<"stop">>)
  /\ Enters(w, StartSteps)
  /\ UNCHANGED <<drv, sig, mutex, sock, inbox, proc, gone, env>>

RestartDue(w) ==
  /\ At(w, "checkRestart")
  /\ Free
  /\ drv.restart /\ drv.timed
  /\ Goes(w, <<"stop", "start">>)
  /\ Enters(w, StopSteps \cup StartSteps)
  /\ UNCHANGED <<drv, sig, mutex, sock, inbox, proc, gone, env>>

(* ... is not there yet, or there is no time to wait for                   *)
NotDue(w) ==
  /\ Free
  /\ \/ /\ At(w, "checkStop")
        /\ UNCHANGED drv
     \/ /\ At(w, "checkRestart")
        /\ drv' = [drv EXCEPT !.restart = @ /\ drv.timed]
  /\ Returns(w)
  /\ UNCHANGED <<sig, mutex, sock, inbox, proc, gone, env, hist>>

(* YBTSSignalling::checkTimers: the handshake or the heartbeat timer, which *)
(* run out for a peer that still speaks only as a failure, or a heartbeat  *)
(* that cannot be sent. The caller then restarts.                          *)
PeerTimesOut(w) ==
  /\ At(w, "timers")
  /\ sig.state \in {"WaitHandshake", "Running"}
  /\ IF Talks THEN Failing /\ Counted ELSE UNCHANGED env
  /\ sig' = [sig EXCEPT !.state = "Closing"]
  /\ proc' = PeerStopped
  /\ drv' = [drv EXCEPT !.pid = 0]
  /\ Goes(w, <<"restart">>)
  /\ UNCHANGED <<mutex, sock, inbox, gone, hist>>

(* The check of the peer: waitpid finds it ended                           *)
PeerFoundDead(w) ==
  /\ At(w, "peer")
  /\ Free
  /\ drv.state \in {"WaitHandshake", "Running", "RadioUp"}
  /\ drv.pid # 0
  /\ proc[drv.pid] = "zombie"
  /\ proc' = [proc EXCEPT ![drv.pid] = "none"]
  /\ gone' = [gone EXCEPT ![w] = drv.pid]
  /\ Goes(w, <<"vanished">>)
  /\ UNCHANGED <<drv, sig, mutex, sock, inbox, env, hist>>

(* Nothing has run out, or it is too early for a check                     *)
NothingFound(w) ==
  /\ At(w, "timers") \/ (At(w, "peer") /\ Free)
  /\ Returns(w)
  /\ UNCHANGED <<drv, sig, mutex, sock, inbox, proc, gone, env, hist>>

Vanished(w) ==
  /\ At(w, "vanished")
  /\ Free
  /\ IF gone[w] = drv.pid
     THEN /\ drv' = [drv EXCEPT !.pid = 0, !.timed = FALSE]
          /\ Goes(w, <<"restart">>)
     ELSE Returns(w) /\ UNCHANGED drv
  /\ gone' = [gone EXCEPT ![w] = 0]
  /\ UNCHANGED <<sig, mutex, sock, inbox, proc, env, hist>>

-----------------------------------------------------------------------------
(* YBTSDriver::restart and stopNoRestart, called by any thread: a look at  *)
(* m_stopping without the lock, then the rest with it.                     *)

Ask(t) ==
  /\ \/ At(t, "restart") /\ Goes(t, IF drv.stopping THEN <<>> ELSE <<"restartLock">>)
     \/ At(t, "fatal") /\ Goes(t, IF drv.stopping THEN <<>> ELSE <<"fatalLock">>)
  /\ UNCHANGED <<drv, sig, mutex, sock, inbox, proc, gone, env, hist>>

(* Fault: a restart that stops only what has been up. *)
AskedWhenUp(d) ==
  IF d.error THEN d ELSE [Scheduled(d, TRUE) EXCEPT !.stop = @ \/ d.state = "RadioUp"]

Asked(d) ==
  IF d.error THEN d ELSE [Scheduled(d, TRUE) EXCEPT !.stop = @ \/ d.state # "Idle"]

Restart(t) ==
  /\ At(t, "restartLock")
  /\ Free
  /\ drv' = Asked(drv)
  /\ Returns(t)
  /\ UNCHANGED <<sig, mutex, sock, inbox, proc, gone, env, hist>>

StopNoRestart(t) ==
  /\ At(t, "fatalLock")
  /\ Free
  /\ drv' = [drv EXCEPT !.stop = TRUE, !.restart = FALSE, !.timed = FALSE, !.error = TRUE]
  /\ hist' = [hist EXCEPT !.gaveUp = TRUE]
  /\ Returns(t)
  /\ UNCHANGED <<sig, mutex, sock, inbox, proc, gone, env>>

-----------------------------------------------------------------------------
(* YBTSDriver::stop *)

StopEnter(w) ==
  /\ At(w, "stop")
  /\ Free
  /\ IF drv.stopping
     THEN Returns(w) /\ UNCHANGED drv
     ELSE /\ drv' = [drv EXCEPT !.stopping = TRUE]
          /\ Goes(w, <<"shutdown", "join", "tear", "ended">>)
  /\ UNCHANGED <<sig, mutex, sock, inbox, proc, gone, env, hist>>

(* The command "shutdown", which only a peer in its main loop reads. The   *)
(* wait for the answer ends in StopJoin, whatever comes.                   *)
StopShutdown(w) ==
  /\ At(w, "shutdown")
  /\ proc' = IF drv.state # "Idle" /\ sock # 0 /\ proc[sock] = "up"
             THEN [proc EXCEPT ![sock] = "leaving"] ELSE proc
  /\ Returns(w)
  /\ UNCHANGED <<drv, sig, mutex, sock, inbox, gone, env, hist>>

(* With the mutex, the signalling thread is cancelled ...                  *)
StopJoin(w) ==
  /\ At(w, "join")
  /\ Free
  /\ mutex' = w
  /\ drv' = [drv EXCEPT !.stop = FALSE, !.error = FALSE]
  /\ sig' = [sig EXCEPT !.cancel = sig.thread]
  /\ Returns(w)
  /\ UNCHANGED <<sock, inbox, proc, gone, env, hist>>

(* ... and waited for, with the mutex held                                 *)
StopTear(w) ==
  /\ At(w, "tear")
  /\ Joined
  /\ mutex' = None
  /\ sig' = [sig EXCEPT !.state = "Idle"]
  /\ sock' = 0
  /\ inbox' = <<>>
  /\ proc' = PeerStopped
  /\ drv' = [drv EXCEPT !.pid = 0, !.state = "Idle"]
  /\ Returns(w)
  /\ UNCHANGED <<gone, env, hist>>

(* Fault: the exit of the engine is not looked at. *)
EndedAsEver == [drv EXCEPT !.stopping = FALSE]

Ended ==
  IF env.exiting
  THEN [drv EXCEPT !.restart = FALSE, !.timed = FALSE, !.error = TRUE,
                   !.stopped = TRUE, !.stopping = FALSE]
  ELSE [drv EXCEPT !.stopping = FALSE]

StopEnded(w) ==
  /\ At(w, "ended")
  /\ drv' = Ended
  /\ Returns(w)
  /\ UNCHANGED <<sig, mutex, sock, inbox, proc, gone, env, hist>>

-----------------------------------------------------------------------------
(* YBTSDriver::start, after its call of stop *)

(* Fault: one restart too many. *)
AtLimitLate == drv.index > MaxRestart

AtLimit == drv.index >= MaxRestart

StartEnter(w) ==
  /\ At(w, "start")
  /\ Free
  /\ IF drv.stopped \/ AtLimit
     THEN /\ drv' = [drv EXCEPT !.stopped = TRUE]
          /\ Returns(w)
          /\ UNCHANGED <<sig, mutex>>
     ELSE /\ drv' = [drv EXCEPT !.index = @ + 1, !.state = "Starting"]
          /\ mutex' = w
          /\ sig' = [sig EXCEPT !.cancel = sig.thread]
          /\ Goes(w, <<"launch">>)
  /\ UNCHANGED <<sock, inbox, proc, gone, env, hist>>

(* A start that fails: of an interface before the signalling, or later,    *)
(* when the signalling thread runs.                                        *)
LaunchFails(w) ==
  /\ At(w, "launch")
  /\ Joined
  /\ Failing /\ Counted
  /\ \/ UNCHANGED <<sig, sock, inbox>>
     \/ /\ sig' = [state |-> "Started", thread |-> TRUE, cancel |-> FALSE]
        /\ sock' = 0
        /\ inbox' = <<>>
  /\ drv' = Scheduled(drv, FALSE)
  /\ hist' = [hist EXCEPT !.gaveUp = TRUE]
  /\ mutex' = None
  /\ Goes(w, <<"stop">>)
  /\ UNCHANGED <<proc, gone>>

(* The interfaces and the process; the peer may speak from here on         *)
Launch(w) ==
  /\ At(w, "launch")
  /\ Joined
  /\ \E p \in Pid :
       /\ Fresh(p) /\ \A q \in 1..(p - 1) : ~Fresh(q)
       /\ proc' = [proc EXCEPT ![p] = "boot"]
       /\ sock' = p
       /\ drv' = [drv EXCEPT !.pid = p, !.state = "WaitHandshake"]
  /\ sig' = [state |-> "Started", thread |-> TRUE, cancel |-> FALSE]
  /\ inbox' = <<>>
  /\ hist' = [hist EXCEPT !.gaveUp = FALSE]
  /\ Goes(w, <<"announce">>)
  /\ UNCHANGED <<mutex, gone, env>>

WaitHandshake == [sig EXCEPT !.state = "WaitHandshake"]

(* waitHandshake, setRestart                                               *)
Announce(w) ==
  /\ At(w, "announce")
  /\ sig' = WaitHandshake
  /\ drv' = Scheduled(drv, FALSE)
  /\ mutex' = None
  /\ Returns(w)
  /\ UNCHANGED <<sock, inbox, proc, gone, env, hist>>

-----------------------------------------------------------------------------
(* The signalling thread: processLoop, handlePDU                           *)

(* What a message makes the thread do                                      *)
Handling(m) ==
  CASE m = "Handshake" -> IF sig.state = "WaitHandshake" THEN <<"handshake">> ELSE <<>>
    [] m = "BadVersion" -> IF sig.state = "WaitHandshake" THEN <<"fatal", "end">> ELSE <<>>
    [] m = "RadioReady" -> <<"ready">>
    [] OTHER -> IF drv.stopping \/ sig.state \notin {"Running", "Closing"} THEN <<>>
                ELSE IF m = "StopError" THEN <<"restart", "end">> ELSE <<"fatal", "end">>

Receive ==
  /\ sig.thread /\ todo[Sig] = <<>> /\ ~sig.cancel
  /\ inbox # <<>>
  /\ inbox' = Tail(inbox)
  /\ todo' = [todo EXCEPT ![Sig] = Handling(Head(inbox))]
  /\ UNCHANGED <<drv, sig, mutex, sock, proc, gone, env, hist>>

(* A socket error                                                          *)
ReadFails ==
  /\ sig.thread /\ todo[Sig] = <<>> /\ ~sig.cancel
  /\ Failing /\ Counted
  /\ todo' = [todo EXCEPT ![Sig] = <<"restart", "end">>]
  /\ UNCHANGED <<drv, sig, mutex, sock, inbox, proc, gone, hist>>

(* handshakeDone: restart, and the Error it returns restarts once more     *)
HandshakeDone ==
  /\ At(Sig, "handshake")
  /\ Free
  /\ IF drv.state = "WaitHandshake"
     THEN /\ drv' = [drv EXCEPT !.state = "Running"]
          /\ Goes(Sig, <<"run">>)
     ELSE /\ Goes(Sig, (IF drv.state # "Idle" THEN <<"restart">> ELSE <<>>) \o <<"restart", "end">>)
          /\ UNCHANGED drv
  /\ UNCHANGED <<sig, mutex, sock, inbox, proc, gone, env, hist>>

(* ... the rest of handleHandshake, with the lock of the signalling        *)
HandshakeAnswered ==
  /\ At(Sig, "run")
  /\ IF sig.state # "WaitHandshake"
     THEN Returns(Sig) /\ UNCHANGED sig
     ELSE /\ sig' = [sig EXCEPT !.state = "Running"]
          /\ Goes(Sig, IF sock # 0 /\ Live(sock) THEN <<>> ELSE <<"restart", "end">>)
  /\ UNCHANGED <<drv, mutex, sock, inbox, proc, gone, env, hist>>

(* Fault: radio ready in a wrong state is passed over. *)
RadioReadyIgnored ==
  /\ At(Sig, "ready")
  /\ Free
  /\ drv' = IF drv.state = "Running"
            THEN [drv EXCEPT !.index = 0, !.state = "RadioUp"] ELSE drv
  /\ Returns(Sig)
  /\ UNCHANGED <<sig, mutex, sock, inbox, proc, gone, env, hist>>

RadioReady ==
  /\ At(Sig, "ready")
  /\ Free
  /\ IF drv.state = "Running"
     THEN /\ drv' = [drv EXCEPT !.index = 0, !.state = "RadioUp"]
          /\ Returns(Sig)
     ELSE Goes(Sig, <<"restart">>) /\ UNCHANGED drv
  /\ UNCHANGED <<sig, mutex, sock, inbox, proc, gone, env, hist>>

(* The loop is left: told so, or cancelled                                 *)
ThreadEnds ==
  /\ sig.thread
  /\ At(Sig, "end") \/ (todo[Sig] = <<>> /\ sig.cancel)
  /\ sig' = [sig EXCEPT !.thread = FALSE, !.cancel = FALSE]
  /\ todo' = [todo EXCEPT ![Sig] = <<>>]
  /\ UNCHANGED <<drv, mutex, sock, inbox, proc, gone, env, hist>>

-----------------------------------------------------------------------------
(* mbts *)

Says(p, m) == inbox' = IF sock = p THEN Append(inbox, m) ELSE inbox

(* SigConnection::started                                                  *)
PeerGreets(p) ==
  /\ proc[p] = "boot"
  /\ proc' = [proc EXCEPT ![p] = "greeted"]
  /\ \/ Says(p, "Handshake") /\ UNCHANGED env
     \/ Says(p, "BadVersion") /\ Failing /\ Counted
  /\ UNCHANGED <<drv, sig, todo, mutex, sock, gone, hist>>

(* main: gSigConn.send(SigRadioReady)                                      *)
PeerUp(p) ==
  /\ proc[p] = "greeted"
  /\ proc' = [proc EXCEPT ![p] = "up"]
  /\ Says(p, "RadioReady")
  /\ UNCHANGED <<drv, sig, todo, mutex, sock, gone, env, hist>>

(* terminate: a last word and the end                                      *)
PeerGivesUp(p) ==
  /\ proc[p] \in {"greeted", "up"}
  /\ Failing /\ Counted
  /\ \E m \in {"StopError", "StopFatal"} : Says(p, m)
  /\ proc' = [proc EXCEPT ![p] = "zombie"]
  /\ UNCHANGED <<drv, sig, todo, mutex, sock, gone, hist>>

PeerFails(p) ==
  /\ proc[p] \in {"boot", "greeted", "up"}
  /\ Failing /\ Counted
  /\ \E s \in {"zombie", "hung"} : proc' = [proc EXCEPT ![p] = s]
  /\ UNCHANGED <<drv, sig, todo, mutex, sock, inbox, gone, hist>>

(* The end of main after "shutdown", or because the sockets are dead       *)
PeerLeaves(p) ==
  /\ proc[p] = "leaving" \/ (proc[p] \in {"greeted", "up"} /\ sock # p)
  /\ proc' = [proc EXCEPT ![p] = "zombie"]
  /\ UNCHANGED <<drv, sig, todo, mutex, sock, inbox, gone, env, hist>>

-----------------------------------------------------------------------------
WorkerStep(w) ==
  \/ CmdStartStop(w) \/ StartIdle(w) \/ StopDue(w) \/ RestartDue(w) \/ NotDue(w)
  \/ PeerTimesOut(w) \/ PeerFoundDead(w) \/ Vanished(w) \/ NothingFound(w)
  \/ Ask(w) \/ Restart(w) \/ StopNoRestart(w)
  \/ StopEnter(w) \/ StopShutdown(w) \/ StopJoin(w) \/ StopTear(w) \/ StopEnded(w)
  \/ StartEnter(w) \/ LaunchFails(w) \/ Launch(w) \/ Announce(w)

SignallingStep ==
  \/ Receive \/ HandshakeDone \/ HandshakeAnswered \/ RadioReady \/ ThreadEnds
  \/ Ask(Sig) \/ Restart(Sig) \/ StopNoRestart(Sig)

PeerStep(p) == PeerGreets(p) \/ PeerUp(p) \/ PeerLeaves(p)

Next ==
  \/ \E w \in Workers : Tick(w) \/ Command(w) \/ Halt(w) \/ WorkerStep(w)
  \/ SignallingStep
  \/ ReadFails
  \/ \E p \in Pid : PeerStep(p) \/ PeerGivesUp(p) \/ PeerFails(p)

Spec == Init /\ [][Next]_vars

(* What a tick does that is due                                            *)
DueStep(w) == StopDue(w) \/ RestartDue(w) \/ (PeerTimesOut(w) /\ ~Talks)

Fairness ==
  /\ \A w \in Workers : WF_vars(WorkerStep(w))
  /\ \A w \in Tickers : WF_vars(Tick(w)) /\ SF_vars(DueStep(w))
  /\ WF_vars(SignallingStep)
  /\ WF_vars(\E p \in Pid : PeerStep(p))

FairSpec == Spec /\ Fairness

-----------------------------------------------------------------------------
(* Properties *)

Up == {"WaitHandshake", "Running", "RadioUp"}
Restarting == \E t \in Threads : Does(t, {"restart", "restartLock", "vanished"})

(* stop and start wait for the signalling thread with m_stateMutex held,   *)
(* and that thread waits for the mutex: nobody gets on (a deadlock of the  *)
(* code, see README, section 7).                                           *)
Stuck ==
  /\ mutex # None /\ sig.thread
  /\ \E step \in {"handshake", "ready", "restartLock", "fatalLock"} : At(Sig, step)

(* An idle driver has no process, no thread and no socket, whatever the    *)
(* threads that stop and start it did meanwhile.                           *)
IdleOwnsNothing ==
  drv.state = "Idle" =>
    drv.pid = 0 /\ sock = 0 /\ sig.state = "Idle" /\ ~sig.thread

(* Each mbts that runs is the one the driver knows, and will stop: none is *)
(* left behind to use the radio along with its successor. Two calls of     *)
(* start at once break this.                                               *)
NoOrphan == ~hist.raced => \A p \in Pid : Live(p) => p = drv.pid

(* Once the signalling has given its peer up, or the peer has gone, a stop *)
(* is on its way: restart() may be dropped only where somebody else stops. *)
LossIsNoticed ==
  (sig.state = "Closing" \/ (drv.state \in Up /\ drv.pid = 0)) /\ ~hist.raced =>
    drv.stop \/ drv.stopping \/ Restarting

(* When the engine exits and everybody is done, nothing runs and nothing   *)
(* will be started, whatever is commanded afterwards: startIdle looks at   *)
(* the exit, and a restart is refused.                                     *)
ExitIsFinal ==
  (env.exiting /\ ~hist.raced /\ \A w \in Workers : todo[w] = <<>>) =>
    drv.state = "Idle" /\ ~drv.restart

(* A driver that is neither idle nor up, or that was asked to restart,     *)
(* comes up with a peer that speaks, or is stopped (by command, by the     *)
(* limit of restarts, by the exit), or was told not to go on: a fatal      *)
(* error, or a start that failed, after which nobody tries again.          *)
Recovers ==
  (drv.state \notin {"Idle", "RadioUp"} \/ drv.restart) ~>
     \/ drv.state = "RadioUp" /\ Talks
     \/ drv.stopped \/ hist.gaveUp \/ hist.raced \/ Stuck
=============================================================================
