# Formal models of YateBTS

TLA+ modules about the parts of YateBTS where concurrency, loss and timeouts
decide what happens. They are about five questions: does a data link, or a packet
transfer, deliver what it was given (LAPDm, the GPRS RLC engines); which phone do a
radio channel and a connection belong to (channels, dispatchers, the table that
numbers connections, and Yate's own table at the other end of the socket); is a
short message sent and answered while its connection comes and goes (paging, the
lists of messages); and does the base station process run when it should, and only
then (the supervisor).
The modules are read against the C++ they model: every definition that stands
for code is listed with its file and lines in `PROJECT.json` under `map`.

Contents

1. The system and its parts
2. The modules
3. What each run checks
4. Bounds, symmetry and fairness
5. What is proved
6. What is only model-checked
7. Disagreements between code and comments
8. What is not modelled
9. Plan

To check one configuration: `tlc -config LAPDm_sap0.cfg MCLAPDm.tla`. To check the
proofs: `tlapm M.tla` for each of the modules of section 2 whose form is "proofs".

## 1. The system and its parts

YateBTS is two programs. `mbts` (directory `mbts/`, C++ threads) is the base
station: radio layers, data link, radio resource management, GPRS. The Yate module
`ybts.cpp` is the network side: mobility management, calls, short messages. They
speak over a sequenced-packet socket, one message per primitive (`ybts.h`).

### LAPDm (`mbts/GSM/GSML2LAPDm.cpp`)

*State.* One `L2LAPDm` object per SAP and channel: `mState`, the sequence
variables `mVS`, `mVA`, `mVR`, the last acknowledged-mode frame `mSentFrame`,
the timer T200 with the counter `mRC`, the receive buffer, the flag
`mEstablishmentInProgress` and the check value `mContentionCheck`.

*Operations.* `writeHighSide` (ESTABLISH, RELEASE, HARDRELEASE, DATA) is called
by any thread and blocks; `serviceLoop` is a thread that takes frames from L1
and fires T200; `open` is called when the channel is given to a phone.

*Interaction.* Callers, service loop and `open` share the object under `mLock`,
which `waitForAck` gives up while it waits. Upwards L2 puts primitives in
`mL3Out`, downwards it writes frames to L1 and tells L1 when the link is gone.

*Hard.* A request that waits finds another state when it goes on; a SABM is sent
after the lock has been dropped; frames are repeated, late or lost; two phones
may answer the same assignment.

*Correct when* each end gets the other's messages whole, once and in order until
the link is released; L3 is told of each change; nobody waits for ever; only one
phone believes that the link is its own.

### Dedicated channels (`GSML1FEC.cpp`, `GSMLogicalChannel.cpp`, `GSMConfig.cpp`)

*State.* For each SDCCH and TCH/FACCH: is it active, which of T3101 (assigned,
nobody has come), T3109 (established, silent) and T3111 (released, left to cool
down) runs. A channel is free when `recyclable()` says that one has expired.

*Operations.* `open`, `close`, the first good frame, the primitives L2 sends to
L1, the search for a free channel (`getTCH`, `getSDCCH`), the handover bursts.

*Hard.* Freeing is by time, not by agreement: nothing asks the connection table
whether the channel is still spoken for.

*Correct when* no channel is free while a phone has its link.

### Channel dispatchers (`Control/DCCHDispatch.cpp`, `Control/RadioResource.cpp`)

*State.* One thread per channel, whose position is its state: waiting for
ESTABLISH or HANDOVER_ACCESS, waiting for the first message, in the loop of a
connection, leaving it.

*Operations.* They map the channel to an id, forward L3 messages to Yate, turn
RR messages into media indications, remap an id when a phone arrives on its
traffic channel, report a lost connection, release a channel Yate has closed.

*Hard.* On the way out a dispatcher reads whose the id is and acts on the answer
while the socket's thread and the other dispatchers go on.

### Connection table (`Connection/ConnectionMap.cpp`)

*State.* 1024 slots: channel, reserved traffic channel, handover reference; the
slot given out last. *Operations.* `map`, `mapMedia`, `unmap` by id and by
channel, `remap`, the searches, `takeTA`. *Correct when* a channel belongs to
one slot, and a slot to one phone.

### Signalling socket (`Connection/SigConnection.cpp`)

One thread in mbts serves Yate's requests in turn and speaks to the channels
itself; the dispatchers send from their own threads. *Hard*: it blocks in L2
together with the one phone it speaks to.

### Yate connections (`ybts.cpp`: `YBTSSignalling`, `YBTSConn`)

*State.* For each id: the owner, whether something uses the connection, the
traffic mode and the mode waited for, the idle timer, whether it has been removed
(kept for a while so that late messages do not create it again) and whether it is
to be released hard, which a handover is until the phone has spoken.

*Operations.* One handler for each message of the socket, the timers, the end of
a call, the command that asks for an inbound handover.

*Correct when* both programs agree on the connections once nothing is on its way,
a message is never taken for another phone's, a release never hits the wrong
connection.

### Short messages to a phone, and paging (`ybts.cpp`: `YBTSDriver`, `YBTSMtSmsList`, `YBTSUE`)

*State.* For each message whether it is active, has been sent, and under which
reference; for each phone that has messages one list of them, with the connection
it uses, the next reference, the flags "paging" and "check"; for each phone how
many lists and calls have asked for paging, and whether it is being paged.

*Operations.* A message is a Yate message, whose thread puts it in the list, looks
whether it can be sent (`checkMtSms`), and then waits, looking again when told, until
the message is answered or its time is over. The signalling thread looks when a
connection gets its phone or SAP 3, takes answers, and tells the threads when a
connection has ended; so do the threads that drop one from outside, the timers' and those
of a registration that fails.

*Interaction.* Lists and their table have a lock each, held for short stretches; a
list ends with its last holder, and gives back its connection and its paging then. In
mbts the pager and the channels go on by themselves.

*Hard.* Between two stretches the list may have left the table, the connection the
list, the phone the connection; paging is counted by lists, stopped by whoever brings
the count to 0 and by an answer; a message may be answered after its time.

*Correct when* an answer ends the message it belongs to; no message waits without
anything that will wake it; the phone is paged while somebody wants it, and not
after; a connection is kept while it is used, and no list waits on one that is gone.

### Supervisor (`ybts.cpp`: `YBTSDriver`, `YBTSSignalling`; `SigConnection`, `OpenBTS.cpp`)

*State.* The driver: its state (Idle, Starting, WaitHandshake, Running, RadioUp),
whether it has been stopped for good, the pid of mbts, the flags and times "stop"
and "restart", the counter of restarts, `m_stopping`. The signalling: its own
state, a thread that reads the socket, the handshake and heartbeat timers.

*Operations.* A timer tick (stop or restart that is due, timers of the signalling,
check of the pid), commands start, stop and restart, the halt of the engine; the
messages handshake, radio ready, and the last words of an mbts that terminates.

*Interaction.* Timer ticks and commands come on Yate's worker threads. They and the
signalling thread share the driver under `m_stateMutex`, which `stop` drops while it
waits for mbts to shut down and holds while it waits for the signalling thread.

*Hard.* A flag is read without the lock and acted on with it; a stop takes seconds
in which ticks, deaths of the process and commands arrive.

*Correct when* an idle driver owns no process, thread or socket; no mbts is left
behind to use the radio with its successor; whatever is lost is noticed and
restarted until the limit is reached; a halted engine starts nothing.

### GPRS RLC (`mbts/GPRS/RLCEngine.cpp`, `TBF.cpp`, `MAC.cpp`)

*State.* For each phone and direction a TBF (its state, counters N3101, N3103,
N3105, the one reservation that is outstanding) with an RLC engine: sequence
variables modulo 128 (VS, VA, VB; VR, VQ, VN), the blocks sent or received and not
yet done with, the flags that say stalled, finished, all acknowledged, closing.

*Operations.* The MAC loop serves each TBF and channel in turn: it hands an engine
a downlink block, grants an uplink block (USF), makes a reservation for an answer
and lets it expire; blocks and acknowledgements that come in go to the engine.

*Hard.* A number in an answer stands for one of several blocks; the answer is about
the past; a slot of the window is used again; TBFs die, are retried, are kept open
for more data and closed while more data arrives.

*Correct when* the receiver gets the blocks in order and once, no success is
reported before, no block is dropped that may still be asked for, and a TBF does
not hold its channel for ever.

### The other parts

| Part | State | Hard behaviour | Properties to aim at |
|---|---|---|---|
| Mobility management (`YBTSMM`, `Pager`) | UEs by IMSI and TMSI, TMSI storage, paging entries with timers | procedures that cross; an old TMSI | one UE for one IMSI; a page ends |
| Calls, messages from phones, supplementary services (`YBTSChan`, `YBTSTid`) | calls and transactions per connection, timers | the connection vanishes under them | each request is answered once |
| SGSN, GGSN (`mbts/SGSNGGSN`) | GMM contexts, TLLIs, PDP contexts | procedures that cross, retransmission | a TLLI names one context |
| Transceiver manager, transceiver | UDP commands, burst queues, clock | lost datagrams, late bursts | no burst is sent twice |
| Scripts (`roaming`, `nipc`) | registrations, subscribers | expiry against renewal | outside of the repository for the larger part |

## 2. The modules

| Module | Models | Form |
|---|---|---|
| `LAPDmEntity` | the handlers of `L2LAPDm`, as operators from the object to the object they leave, with the frames given to L1 | no variables |
| `LAPDm` | two entities, the frames between them, the threads inside `writeHighSide`, the timer, reuse of the channel | state machine |
| `LAPDmLink` | what a link promises layer 3 | abstract specification |
| `LAPDmContention` | one entity and several phones on one channel | state machine |
| `LAPDmEntityProofs` | what each handler of `LAPDmEntity` makes of a sound object | proofs (lemmas) |
| `LAPDmProofs` | theorems about `LAPDm` | proofs |
| `ConnectionMap` | the table, as operators from table to table | no variables |
| `Connections` | channels, dispatchers, the socket and its thread, Yate's connections, phones | state machine |
| `ConnectionsProofs` | lemmas about the table, theorems about `Connections` | proofs |
| `MtSms` | short messages to one phone: their threads, the signalling thread, the threads that drop connections beside it, paging, connections | state machine |
| `MtSmsProofs` | theorems about `MtSms`: connections and their usage, paging, wake-ups | proofs |
| `MtSmsOwnProofs` | the theorem about answers and references of `MtSms` | proofs |
| `Supervisor` | driver, signalling thread, worker threads, mbts processes | state machine |
| `SupervisorProofs` | theorems about `Supervisor` | proofs |
| `RLCSeq` | arithmetic on sequence numbers | no variables |
| `RLCTransfer` | what an acknowledged TBF promises, in either direction | abstract specification |
| `RLCDown` | queue of PDUs, downlink TBF, its engine, a phone | state machine |
| `RLCUp` | a phone, uplink TBF, its engine | state machine |
| `RLCDownProofs` | theorems about `RLCSeq` and `RLCDown`, and its refinement of `RLCTransfer` | proofs |
| `MCLAPDm`, `MCLAPDmContention`, `MCConnections`, `MCSupervisor`, `MCMtSms` | values of the constants | instances |

`LAPDm` and `LAPDmContention` extend `LAPDmEntity`; `LAPDm` implements
`LAPDmLink` through the mapping at its end; `Connections` extends `ConnectionMap`;
`RLCDown` and `RLCUp` extend `RLCSeq` and implement `RLCTransfer`, each through an
instance of it among its properties.

### State and actions of LAPDm

`ent[e]` is the object of side e with the members above; `up` is the last
primitive put in `mL3Out`, `dlv` the messages L3 was given, `rx` whether L1 still
decodes for this link, `out` the frames of the current handler. A handler that
runs with the lock held is one step. `wr[w]` is the position of a calling thread:
a call is split exactly where the code drops the lock or has not taken it, that
is before and after `PrepareEstablish` (the state read before the lock and the
SABM sent after it), at each wait of RELEASE, and between the segments of a
message. On SAP 3 the module is about one entity of the channel, and of SAP 0 it has what SAP 3
sees: L1 may be closed at any moment (`MasterReleases`), and each turn of the service loop
ends with `FollowMaster`, whether it had a frame, T200 or neither (`IdleTurn`). The other side is the same class, because the class is written for
either end (`mC`); phones that follow GSM 04.06 instead are those of
`LAPDmContention`. A frame can be lost, and T200 can expire early, that is while
the frame it repeats, or its answer, is still under way.

### State and actions of Connections

`ch[c]` is a channel with its L1 timer, whether SAP 0 is established, `mL3Out`
and the place and id of its dispatcher; `table` is `gConnMap`; `toBts` and
`toYate` the two directions of the socket, in order; `sig` the channel that
`SigConnRelease` has unmapped and not spoken to yet; `conn[id]` Yate's
`YBTSConn`; `ph[p]` what a phone does. Each dispatcher step is one pass between
two points at which another thread can see or change what it uses: taking a
primitive, asking whose the id is, reporting, releasing, unmapping. Requests of
Yate are one step each except the release, which is two. In Yate the signalling
thread and the timers hold a lock over their work on a connection, and each
handler is one step.

A channel in this module is what `LAPDm` makes of it, reduced to "established or
not": `SendL3` on a released link is the abnormal release of `LAPDm`, with ERROR
and RELEASE to L3 and the closing of L1.

Phones (external) are asked for no more than what GSM 04.08 says: they ask for a
channel, seize it, move when told, return to the old channel when the new one
cannot be seized, release when told, or vanish at any moment.

### State and actions of Supervisor

A thread is the sequence of the steps it has still to take (`todo`): the code
between two points where another thread can step in, which are the taking and
dropping of `m_stateMutex` and the waits. A call puts the callee's steps in front.
`mutex` says who holds `m_stateMutex` over more than one step, as `stop` and `start` do. `drv` and
`sig` are the members of the two objects; times are reduced to "set or not"
(`timed`), and one that is set may be due at any tick. `proc` holds every mbts by
pid, as the kernel does, a pid being used again once nobody remembers it; `sock` and
`inbox` are the socket. `hist.raced` remembers that start or stop of two threads
have overlapped, `hist.gaveUp` that the driver was told not to go on.

### State and actions of MtSms

`pc[s]` is where the thread of message s is in `handleMsgExecute`, `mine[s]` the list
it holds. `sms`, `list`, `ue`, `conn` have the members of `YBTSMtSms`,
`YBTSMtSmsList`, `YBTSUE` and `YBTSConn` that decide what happens; `table` is the
phone's entry of `m_mtSms`. A list has the name of the message that has opened it, and may
be out of the table and still be held. `sig`
is what the signalling thread has still to do with the message it has read, the
innermost call first: a step takes the first job off and puts those it leads to in
its place. A step is what happens under one lock: `checkMtSms`, which keeps the
list's lock throughout, is one operator; `stopPaging` is two steps, because it drops
the lock after the count; `dropConn` is one, and `connReleased` two, as it finds the list under the lock of the table and
works on it under its own. `aside[c]` is what a thread beside the signalling thread does
next that has seen c idle (`checkTimers`, on the worker thread of `engine.timer`) or its
registration failed (`locUpdTerminated`): it too drops the connection and tells of the release,
and each of its steps may come between any others.

The phone and mbts are external except for what the code of mbts does to a page and to
SAP 3: the phone answers a page, comes for a location update by itself, leaves without a
word, answers a message late or never; a channel is lost, a page expires.

Assumed: the radio is up, SMS need no authentication (`auth.sms=no`) or the phone has
been authenticated, there is no call, a send on the socket does not fail.
`startPaging` is one step, and so is the `stopPaging` within `checkMtSms`, which finds the phone
not paged. A connection is dropped from outside by one thread at a time, of which there may be one for
each connection. `lapsed` belongs to no code: it marks histories that a property excepts
(section 7). `taken` remembers whose answer ended a message.

### State and actions of RLCDown and RLCUp

The variables have the names of the members. A block carries one PDU. A pass of
the service loop is one step for each TBF and channel (`engineService`), with its
inputs, which are whether this is the primary channel, whether there is room for a
poll, and whether the phone hears the block, quantified. The two reservations a TBF makes, for an
acknowledgement and for its release, are the variable `poll` with the snapshot `ack`
of what the phone answered, which may arrive after more blocks have been sent, or
never. In `RLCUp` a block is sent and arrives in the step that grants it, or
(`GrantDelayed`) stays on the way. Counters of the code that are only compared with
a limit stop there.

The phones are external, those of 3GPP 44.060: window, bitmap, countdown on the last
blocks, a block sent again until it is acknowledged. A phone may be silent or go
away at any time.

`sent`, `got` and `outcome` belong to no code: they are what `RLCTransfer` is
about, the blocks of the present TBF, those its receiver has taken, and how it ended.

## 3. What each run checks

Passing runs

| Run | System | Properties |
|---|---|---|
| `sap0` | main link; segmented data, releases from both ends, hard release, reuse of the channel; loss and early timeouts | `TypeOK`, `L3Informed`, `WaitingIsTimed`, `SentFrameIsUnacked`, `FreshUntilResolved`, refinement `LinkSpec` |
| `sap3` | link both ends may establish, at once and twice; the network sends a message of up to two segments, the phone releases, SAP 0 may close the channel at any moment; loss | `RequestsReturn`, `EstablishmentSettles` |
| `calls` | two phones, one SDCCH, one TCH, one call: with an assignment, on the TCH at once (very early assignment), or refused because the TCH is taken; one link or assignment that fails | `ReleaseHitsOwn`, `LostIsLost`, `Agreement`, `ServesItsOwner`, `LinkIsHeld` |
| `handover` | three handovers, one TCH, two phones: some are rejected, the channel is used again | `Agreement`, `PromisedHandoverIsFound`, `LinkIsHeld` |
| `reuse` | three accesses over two ids, one timer that runs out too early | `TypeOK`, `OneHolder`, `NextMessageIsOwn` |
| `supervisor` | one thread that ticks, one that commands or halts, one failure, limit of two restarts | `TypeOK`, `IdleOwnsNothing`, `NoOrphan`, `LossIsNoticed`, `ExitIsFinal`, `Recovers` |
| `rlc_down` | nine PDUs, window of four, loss of anything, retries; with and without persistence | `WindowOpen`, `AckedIsReceived`, `MissingIsKept`, refinement `KeepsTransfer`, `NoOvertaking`, `EveryTbfEnds` |
| `rlc_up` | nine PDUs, window of four, loss of anything, blocks that come late; with and without extended uplink | `AckedIsHeld`, refinement `KeepsTransfer`, `EndsBetweenBursts`, `EveryTbfEnds` |
| `mt_sms` | two messages to a phone that comes twice, by a page or for a location update, and leaves or is lost at any time; three kinds of threads drop its connections | `SuccessIsOwn`, `NotForgotten`, `PagedOnlyIfWanted`, `UsageCoversHolders`, `NoDeadConnection` |

What the properties say:

* `LinkSpec`: as long as neither end has released the link, layer 3 gets the
  peer's messages whole, once, in order; afterwards only messages of this link.
* `L3Informed`: no change between established and released is kept from L3 (on SAP 3
  this holds while SAP 0 has the channel; what happens then is in section 7).
* `WaitingIsTimed`: who waits for UA has T200 running over the frame that is
  waited for, whatever two threads and the peer do meanwhile.
* `SentFrameIsUnacked`: what T200 repeats on an established link is the last
  I-frame.
* `FreshUntilResolved`: when a SABM is answered without a reset there is nothing
  to reset.
* `RequestsReturn`, `EstablishmentSettles`: no thread stays in L2, no
  establishment stays open.
* `OneHolder`: a channel is in one slot of the table, in use or reserved.
* `ReleaseHitsOwn`: an id is not given to a phone while a release of its last
  owner is on the socket.
* `NextMessageIsOwn`: Yate never reads one phone's message as another's.
* `LinkIsHeld`: a link that its two ends have is watched by T3109, which the phone's
  frames start again: such a channel is not free, nor left to a timer that only waits
  for it to become so.
* `LostIsLost`: a connection that moved to another channel is not reported lost
  by the channel it left.
* `Agreement`: when nothing is under way, what mbts maps is what Yate has, and
  the other way round, except a handover that Yate still waits for.
* `PromisedHandoverIsFound`: the phone that arrives with the reference promised
  for its channel is recognised.
* `ServesItsOwner`: a dispatcher in the loop of a connection that Yate has given
  to a phone reads that phone.
* `IdleOwnsNothing`: an idle driver has no process, thread or socket.
* `NoOrphan`: an mbts that runs is the one the driver knows and will stop.
* `LossIsNoticed`: once the peer has gone, or been given up, a stop is on its way.
* `ExitIsFinal`: nothing is started after the halt: when its thread is through, the driver
  is idle and no restart is due, whatever is commanded later.
* `Recovers`: a driver that is half way, or was asked to restart, comes up with a
  peer that speaks, unless it was stopped, ran into the limit or gave up.
* `WindowOpen`: the downlink never has a whole window outstanding, so that a number
  in an answer stands for one block.
* `AckedIsReceived`: an acknowledgement that was taken is true of the block its
  number stands for now.
* `MissingIsKept`: a block the phone lacks is still in its slot.
* `AckedIsHeld`: a block the phone was told to forget is handed on or held under its
  own number.
* `KeepsTransfer`: in order, once, and success only when all has arrived.
* `NoOvertaking`: over all TBFs of a phone no PDU reaches it after a later one.
* `EndsBetweenBursts`: an extended uplink TBF is closed after a final block only.
* `EveryTbfEnds`: no TBF transmits, waits or closes for ever.
* `SuccessIsOwn`: the answer to one message does not end another of its list.
* `NotForgotten`: when nothing is under way, the message whose turn it is has been
  sent, or something will make somebody look at it again.
* `PagedOnlyIfWanted`: when nothing is under way, a phone is paged only if a list asks.
* `UsageCoversHolders`: the count that keeps a connection open is at least the number of
  its lists, and its idle timer does not run while it is more than 0.
* `NoDeadConnection`: when nothing is under way, the phone's list has no connection that is gone.

Runs that find a violation are those of section 7.

## 4. Bounds, symmetry and fairness

LAPDm: `MaxMsg` messages of up to `MaxSeg` segments a side, `MaxCtl`
establishments and releases, `MaxOpen` reuses, `MaxAir` frames that a timer may
put behind others, `N200` of 1 (23 for an SDCCH). Two segments are the least
that can be lost separately, three requests let one interrupt another
and a third follow, one reuse shows what a transaction leaves to the next. In `sap3`, whose
question is whether everybody returns, there is one message and `MaxCtl` is 2, and `MaxAir`
is 1: a timer repeats a frame only once its last copy has been read, which is T200 as it
is set (longer than there and back). Beyond these `RequestsReturn` fails, for the reason
the run `stale_ack` shows, and messages are spliced, which no property of the run is about (section 7). The
modulus stays 8.

Connections: `MaxAccess` channels granted to phones, `MaxTalk` call control
messages, `MaxFail` failures of a link or of an assignment, `MaxLate` timers that
run out under something that needs them, `MaxBurst` access bursts queued, and the
list `HoRefs`. `Size` is 5 where ids shall not come round, since 1023 other
connections lie between two uses of one id, and 2 in `reuse`, where they shall
and where the table is full at times. Two phones and up to three channels are
enough for one connection to be mistaken for another, which is what all these
properties are about. Phones, and the channels of a pool, are interchangeable and no property names
one: symmetry is used for them, in runs without liveness only.

Timing in `Connections` is an assumption about order, not about durations:
`TimerExpires` may happen at any time over a channel nobody needs; over one that
is needed (`Needed`) it counts against `MaxLate`, and so does T3109 (30 s) over a phone that may
return from an assignment; T3109 is started again by what
the phone sends and so never runs out under a phone on the link. A link that fails
before the dispatchers have done with an assignment fails late and counts too. These
guards exclude a dispatcher that is slower than T3101 (4 s). The removal timer of
Yate is treated alike. Runs without `MaxLate` say what holds if timers are as long
as they were meant to be, `reuse` what holds even if one is not.

Supervisor: `MaxPid` processes alive or remembered at once, `MaxCmd` commands,
`MaxFail` failures of a peer, a read or a start, `MaxRestart` of 2 (the limit is
configurable). Two processes are enough for one to be left behind by the next; one
failure after the limit has been half used reaches every state of the machine. `MaxCmd` is 1:
with two, the command stop may come between the two parts of another thread's start, and the
command start that follows takes `m_stopped` back, so that each ends the other's work and
`Recovers` does not hold. The safety properties hold for any number of commands (section 5). Ticks
are taken one after the other, as they are unless a tick lasts longer than a second;
section 7 says what happens when they overlap.

RLC: `WS` of 4 (64 in the code). With 3 the final block is never sent a second time
for want of anything else and no answer comes without progress. Nine PDUs take the
numbers, of which there are 8, round. `PollEvery`, `N3101Max`, `N3103Max`,
`N3105Max`, `NStuck` are the least that let the case before and the case after the
limit happen; `Lag` is how far a late block may be behind, `MaxExtended` the PDUs
written with extended uplink (behind which the TBF may be closed and go on).

Short messages: `Sms` has two messages, the least that can be taken for each other,
share a list, or have lists that follow each other; `MaxConn` is 2, so that the release of
one connection can meet the other, and `MaxUpdate` is 2: either may be for a location
update. (Three connections of which one is for an update were checked once, over 23 million states:
the five properties hold there too.) `Tids` is 7 as in the code; no list gives out more than three
references in these bounds. The messages are
interchangeable (symmetry). The system stops when both messages have ended.

Fairness (`FairSpec` of `Supervisor`): a worker thread goes on with what it has
begun, ticks come again, and what is due at a tick is done at some tick although
others come too early (strong fairness of `DueStep`: a time that has been set
passes). The signalling thread reads on, and an mbts that has not failed gets as far
as its radio.

Fairness (`FairSpec` of `RLCDown` and `RLCUp`): the service loop comes to a TBF
and to its primary channel again and again, and reservations pass. Of `RLCUp` closing
is strongly fair: an acknowledgement that is due goes first and a burst that begins puts
it off, and neither does so for ever unless the phone goes on sending. A block may come after the end
was decided on and take the engine out of `RlcUpFinished`; no USF is granted any more then, an
acknowledgement that is due waits for one, and what ends the TBF is that the phone
is not heard (`NonResponsive`, TBF.cpp:1011-1020). Nothing is assumed
of the radio or of the phone, so that a TBF that ends does so by the network's own
counters.

Fairness (`FairSpec` of `LAPDm`): each service loop takes frames and fires T200,
being a thread of its own that sleeps until one of the two is there, and looks at its master at each
turn (a T200 that is set while it sleeps on SAP 3 is noticed late: section 7); a thread
inside a request runs on when its condition holds. Nothing is assumed of the
radio: a run that loses every frame is fair, and ends in the abnormal release.
Fairness of `Receive`, `T200Expires` and `IdleTurn` is weak, because each stays enabled until
one of them is taken (a running timer is stopped only by a frame).

Deadlock is not checked: the bounded system stops when phones and
requests are used up, as the real one does when nobody calls.

## 5. What is proved

Every theorem is for all values of the constants that the assumptions of its module allow:
numbers are naturals (the modulus of LAPDm at least 2, the window of RLC and the number of
references at least 1), sets of phones and messages are finite, and the value `None` is none
of the things it stands beside. No theorem assumes anything of the order in which threads
run or of what the radio loses. Six have hypotheses, which their statements name: three of
`Connections` (handover references that differ; no handovers; timers in time, or no link or
assignment that fails), two of `LAPDm` (SAP 0, and a phone whose layer 3 is one thread), and one of
`MtSms` (lists whose references do not come round). Each rests on an inductive invariant of its module, which
was an invariant of TLC's runs before it was proved; there is one lemma for each action
and the last lemma goes through the disjuncts of `Next`.

### The data link (`LAPDmEntityProofs`, `LAPDmProofs`)

* `TypeCorrect`: `Spec => []TypeOK`
* `L3IsInformed`: `Spec => []L3Informed`
* `FreshnessHolds`: `Spec => []FreshUntilResolved`
* `RetriesAreBounded`: `Spec => []RetriesBounded`
* `WaitingEndsInTime`: with `Sapi = 0` and `OnePhoneThread`, `Spec => []WaitingIsTimed`
* `RepeatsTheLastFrame`: with the same, `Spec => []SentFrameIsUnacked`

The first four hold together, for any SAP and any number of threads; on SAP 3 `L3Informed` says
nothing of a link that is released once SAP 0 has released the channel, of which L3 is not told
(section 7). `TypeOK` alone is inductive, `L3Informed` is not: whether
a handler tells L3 depends on the state it finds, and the states it can find
depend on the flag and the buffer that `FreshUntilResolved` speaks of. The
inductive invariant `IInv` is the type invariant and, for each side, `Sound(ent[e])`,
which is the conjunction of what the four say of one object. There is one lemma
for each operator of `LAPDmEntity`: it takes a sound object to a sound one on the
same SAP (`Kept`), whatever frame it is given; what the master does to SAP 3 is `FollowMasterKept`. An action
of `LAPDm` is then one or two of these lemmas and the bookkeeping of `CommitKept`.

The two theorems about T200 need more than one object: a side waits for UA without
T200 if a UA, a SABM or a thread finds it in a state it should not be in. On SAP 0 that
does not happen, because a link that is released closes its decoder, and until the channel
is opened again the phone establishes once. `TimedInv` says so. `Timed` is about each
object: who awaits the end of a release has T200 running over a DISC, and who is
established and has T200 running repeats the I-frame before V(S). `Hush` is about
both ends: as long as the phone has not sent the SABM of this opening, the network has no link,
no thread of it establishes, and what is left on the air from before is DM and DISC to the
phone, DM from it. `Awaited` says that a side that waits for UA has T200 running
over the SABM, or a thread on its way from the state to the send. A SABM therefore
finds a network that is released or established, and a late thread of the network, which may
wake on the channel's next transaction, sends nothing that begins a link. Both
hypotheses are used: on SAP 3 the network establishes too, and the property
fails (section 7); `OnePhoneThread` says that the phone's threads are one, which is
how the phone, which is not this program, is modelled (with two, one could send an ESTABLISH
between the two steps of the other's). The network may have any number of threads.

### Connections (`ConnectionsProofs`)

* `ConnectionsTyped`: `Spec => [](TypeOK /\ Placed /\ Spoken)`
* `HandoverIsRecognised`: `ToldApart => (Spec => []PromisedHandoverIsFound)`
* `OneUserOfAChannel`: `HoRefs = <<>> => (Spec => []OneUser)`
* `LinkIsGuarded`: with `MaxLate = 0` or `MaxFail = 0`, `Spec => []LinkIsHeld`

For any pools, phones, size of the table and bounds. `MaxLate` is any number but in the last, and
there only one case needs a timer to be long enough. The lemmas `FindIs` to `TakeTAIs`
say what each operation of the table returns and changes; those of `DispatchHolds`,
`ServeHolds`, `YateHolds` and `RadioIsPlain` go through the actions once, and
say of each, besides that it keeps the types, which of two things it leaves alone: the references
(`RefStep`) and the users of channels (`UseStep`). Six of the forty-three actions do not, and only
these are looked at again for `HandoverIsRecognised` and `OneUserOfAChannel`.

`TypeOK` is not inductive: an id of -1, which `map` and `remap` return when there is no slot,
is a value of the type, and would be sent to Yate by a dispatcher that serves with it. `Placed`
says that none does, and `Spoken` that the release that waits to be told has a channel.

A phone is recognised because its reference is in one slot only, and slots keep references
long after their handover (`UnmapId`). `HandoverRefs` says that a reference in a slot has been given,
and is no other slot's; that a request on its way has one that no slot and no other request
has; and that neither an answer nor a phone has one of those that slots hold without a handover. It needs
`ToldApart`: the references of `HoRefs` differ and none is 0. handover.js:576 counts them
from 1 modulo 256, and so they do for 255 handovers; for what happens then see section 7.

`OneUser` says that no channel is the channel of two connections. `Users` adds that a
channel whose dispatcher waits has no connection at all, which is what `map` and `remap`
find when the dispatcher calls them, and what its own unmap leaves behind. Yate's release, which
unmaps by id at any moment, only takes channels away. With handovers it is not true (section 7):
the thread of the socket maps a channel whose dispatcher waits.

`LinkIsHeld` is about the link that both ends have, and a phone that was ordered to another channel
may come back to its old one with the link still up. `Held` therefore says that T3109 runs on every channel
that is up in L2 and is near a phone: on the link, or where the phone would return (`Near`); and that a phone that
asks for a channel has been ordered nowhere. Every action is then shown to end a
channel's link or to leave it with its timer (`Fine`), and to bring its phone near
to no other channel (`StaysBy`); what remains are the few that establish a link, which start
T3109. Handovers are included, and hard releases, which take the link with them. The hypothesis is about one case: T3109
(30 s) running out in the moments in which a phone is away for an assignment that will fail.
It says nothing of a channel whose link has ended: that one may be freed
while its phone still sends (section 7).

### The supervisor (`SupervisorProofs`)

* `SupervisorTyped`, `IdleIsEmpty`, `NobodyIsOrphaned`, `LossIsFollowedUp`, `TheExitIsFinal`:
  the five invariants of the run, for any number of threads, ticks, commands, failures and
  processes, ticks that overlap included.

The invariants speak of the driver, and what the driver is depends on how far each thread
has got. `Shaped` says what the rest of a thread's work can look like (a start or what
follows it stands only behind the steps of one stop), and `SupervisorInv` has two parts.
`Orderly` always holds: who stands where the mutex is held holds it; one thread at a time
is in the body of `stop`, and `m_stopping` says so; idle means empty. `Sane` holds
unless calls of start have overlapped (`hist.raced`): who is going to start is alone with
stops and starts, what was torn down stays so until then, every live process is the one
in `m_peerPid`, an error leaves a stop that is due, a loss has somebody who follows it up. `NoOrphan`, `LossIsNoticed` and
`ExitIsFinal` need each other: that nothing is left behind by a start needs that the stop
before it was complete, which needs that a second thread that comes to `stop` and returns
at once does not go on to start.

### Short messages (`MtSmsProofs`, `MtSmsOwnProofs`)

* `UsageCoversTheHolders`: `Spec => []UsageCoversHolders`
* `PagedForAList`: `Spec => []PagedOnlyIfWanted`
* `NobodyIsForgotten`: `Spec => []NotForgotten`
* `NobodyKeepsADeadConnection`: `Spec => []NoDeadConnection`
* `AnswerEndsItsOwn`: `Spec /\ []NotRound => []SuccessIsOwn`

`Inv` adds to the types that a connection is opened once, before anybody uses it
(`OpensOnce`: an opening message on the socket is for a connection Yate has not seen),
`UsageKept` (the count is at least the number of lists that have the connection) and `PagingKept`: `ue.cnt` is the number of lists
that page, and when it is 0 while the phone is paged, somebody is on the way to stop it.
`PagedOnlyIfWanted` is about moments when nothing is under way; the invariant has to
say who is under way at the others, on the signalling thread or beside it. That a list with no holder left gives its connection
back once at most rests on `Destroyed`, whose lemma counts the lists before and after.

`NotForgotten` is about quiet moments as well, and nearly every action disturbs what makes
it true then. `WatchInv` says it for every moment. `Watched`: as long as the first message that
has not ended has not been sent, the phone's list is seen to by somebody (`Seen`): it is marked to be
looked at, a thread that has just queued its message or been woken is about to look, the thread of a message that has
ended is about to leave and will look, the signalling thread has work that looks, the
phone is paged for the list, SAP 3 of its connection is being established or its loss is
on the way, or a location update is, at whose end somebody looks; or the list has lapsed, as section 7
tells. The other parts are what makes these true until they are done:
`LossTold`, that a connection mbts has lost, or opened, is told to Yate in this order; `HasConn`, that the connection
of the list is one of the phone, and one that has been dropped still has its release to come, or its list found and to be
reset, by whichever thread dropped it, so that a list does not wait for
a connection that is no more (which is `NoDeadConnection` once nobody is under way); `Begun` and `Owned`, that lists belong to messages that have come, so that no
thread that begins finds a list it does not know of. `StepWatch` is the argument that most actions share; the
rest of the proof says, of each action, who takes over from whom. These four have no hypothesis: any number of
messages, connections and pages, and `Tids` may come round.

`SuccessIsOwn` does need that it does not. A reference tells two messages of a list apart
only until the list has used all of them; the eighth send of a list that has never been
empty has reference 0 again, as in the code, and a late answer to the first would end it. (With `Tids` of 1
TLC finds this in the bounds of the run.) `NotRound` says that no list has come to its last reference; in
the bounds of the run none gives out more than 3 of the 7. Nothing simpler will do: the connections do not bound
how often a message is sent again, because the release of one may reset a list that
already has another. `OwnInv` has five parts: of a list's messages that have not ended only the first has been sent
(`OneIsSent`), so that a reference that is given out is new to its list; a reference that has been given is
below the list's next one (`RefsGiven`); every answer
on its way, from the phone's debt through the socket to the work of the signalling thread, names
a reference that one message of the list has and no other will get (`AnswersKnown`), and so does
the message a thread has taken for it (`TakenOwn`); and a thread that has no list yet has sent nothing (`Unfound`).
It rests on `Inv` and `WatchInv`, which is why it comes last.

### GPRS RLC, downlink (`RLCDownProofs`)

* `DeltaSNFinds`, `DeltaSNSFinds`: what the two differences of sequence numbers
  return, where the numbers wrap too.
* `DownWindow`: `Spec => []WindowOpen`
* `AcksAreTrue`: `Spec => []AckedIsReceived`
* `NothingMissingIsLost`: `Spec => []MissingIsKept`
* `DownKeepsTransfer`: `Spec => KeepsTransfer`, which is `RLCTransfer!Spec` under the mapping
  of `sent`, `got` and `outcome`: the initial state is one of the abstract
  specification, and every step is one of its steps or a stutter.
* `NothingOvertakes`: `Spec => NoOvertaking`

So every safety property of the run `rlc_down` is a theorem for every window.

`WindowOpen` alone is not inductive: `getBlock` adds a block when VS has reached the
last one, and `VS` is not what `WindowOpen` speaks of. `WindowInv` adds the types of the
sequence variables and `RoomForNext`: when VS is at the end of what was sent, less than WS - 1 blocks are
outstanding. `advanceVS` establishes it (it stops one short of the window), and
`advanceVA`, which moves the other end, can only make room: `StepsAfterAdvance` says that
distances shrink by what VA passes, in the modular arithmetic of `RLCSeq`.

`AckedIsReceived` is not inductive either. A number in an answer is read when the answer is
taken, and by then stands for whatever block has that number; `DownInv` must say why that is
still the block the phone meant. Its parts:

* `Place(b)` is the block that the number b stands for, counted back from VS's end of
  what was sent; `Holds` says that TxQ has the last SNS - 1 blocks each under its number, and that only
  the last can be final.
* `Close`: VA and VS are not further behind than the window, nor than the first block.
* `PhoneInStep`: V(Q) and V(R) are where the blocks say, V(Q) is not behind VA, and what the phone
  buffers is what was sent under that number; a bit in VB is true.
* `AckIsTrue`: the same for the answer on its way: its numbers lie within a window behind
  its starting number, which is not behind VA, and so none of them has been given
  out again.
* `Staged` ties outcome, state, reservation and the first block together. The phone's part
  holds once the TBF has begun (`Begun`); before, the phone may be that of an earlier TBF.

A service of the TBF changes both ends in one step. The proof takes it apart: first mbts makes the
block (`StillInStep`, `AckStillTrue` say what holds of the phone that has not heard it), then the
phone hears it or not. The refinement follows from `DownInv`: an abstract success needs
that a final acknowledgement was true. `NoOvertaking` needs one more invariant, `PdusInOrder`: what
was sent, the queue, and the last PDU delivered stand in order, also when a retry
puts the last PDU back in front.

## 6. What is only model-checked

* Of `LAPDm`: the refinement `LinkSpec`, which holds in the bounds of `sap0`: with several messages a side,
  or more repetitions on the air, messages are spliced (section 7).
  A proof would need an invariant that says which frames can be behind which. On SAP 3 `WaitingIsTimed` and
  `SentFrameIsUnacked` do not hold (section 7).
* Of `Connections`: `ReleaseHitsOwn`, `LostIsLost`, `Agreement`, `ServesItsOwner`, `OneHolder`,
  `NextMessageIsOwn`. They hold for some values of the bounds
  only (section 4 says which, and section 7 what happens beyond: `OneHolder`, for one, fails when
  T3101 of a reserved channel runs out): timers in time, and ids that do not come round
  while a message with the old one is on its way. A theorem would need those bounds as
  hypotheses, and an invariant that says in which order the events of one connection can come.
* Of `RLCUp`: `AckedIsHeld`, `KeepsTransfer`, `EndsBetweenBursts`. The engine takes a run
  of blocks at once (a fold over the blocks it holds), and what the fold computes for every length is
  an induction over data.
* Of `MtSms` every property of the run is a theorem; that of `SuccessIsOwn` is for lists whose references
  do not come round. Beyond this an old answer is taken for a new one.
* Liveness (`RequestsReturn`, `EstablishmentSettles`, `Recovers`, both `EveryTbfEnds`) is
  beyond the proof system.

## 7. Disagreements between code and comments

Each of these has a run whose only property states what a comment says, and which
TLC finds violated. The lines are in `PROJECT.json`, `findings`.

| Run | What happens |
|---|---|
| `contention` | Two SABMs of the phone that opened the link are enough to leave ContentionResolution; the SABM of another phone on the channel is then echoed without a comparison, and both phones own the link. |
| `stale_ack` | An I-frame repeated with its old N(R) takes V(A) back after T200 was stopped: the writer waits until the channel is opened again. With phones that write a current N(R) into a repeated frame this needs the network's own stale N(R) at the other end, that is a peer of the same class. What would block in mbts is the thread that serves all of Yate's requests. |
| `reserved` | A traffic channel reserved for a phone that has left is free after T3101 (4 s) although the slot still names it, and is reserved a second time. The dead link is noticed much later (N200 times T200, about 20 s on an SDCCH). |

The models contain the following too.

*Data link and connections.* No run is kept for them: they come from the
same lines as the runs above, or were seen as traces while the bounds of the
passing runs were chosen. They say why those bounds are what they are.

* After eight frames one way, an old N(R) acknowledges a new frame (the cause of
  `stale_ack`, modulo 8): `MaxMsg` is below the modulus in the passing runs.
* The hole of `stale_ack` opens without repeated I-frames too. In `sap3` with `MaxAir` 2, or `MaxCtl` 3, a late SABM
  resets the counters under a link in use, and the RR that follows puts V(A) ahead of V(S)
  with no T200 running: `RequestsReturn` fails there. `EstablishmentSettles` holds.
* On SAP 3 with two ESTABLISH requests, the answer to the first SABM comes between
  the unlock of `writeHighSide` and the send of the second, and T200 repeats a SABM
  on an established link: `SentFrameIsUnacked` is checked in `sap0` only.
* A SABM that comes late (T200 repeats it while its last copy is still on the way, or
  it is sent in that gap of `writeHighSide`) crosses an I-frame already sent on the new
  link. The receiver answers and starts its numbers again, the sender does not repeat:
  the first segment of the next message is taken for a repetition and L3 gets only
  the rest, or one segment of a message with the second of another. This contradicts what `bufferIFrameData` quotes from GSM 04.06
  (GSML2LAPDm.cpp:209-212, "pass the complete layer 3 message unit"). It takes `MaxAir` 2 or
  `MaxCtl` 3 and two messages, and no run shows it: `sap0` has one message a side.
* A service loop that waits without T200 waits for 3600000 ms (GSML2LAPDm.cpp:403), and does not look at T200
  before, against its comment ("Block for up to T200 expiration, then check T200", line 393). A T200 that an
  ESTABLISH sets meanwhile, on SAP 3, is noticed at the next frame: if the SABM is lost, an hour later.
  The fairness of `T200Expires` assumes that it is noticed.
* When SAP 0 has released the channel the service loop sets SAP 3 to LinkReleased at its next turn
  (GSML2LAPDm.cpp:398-401) and tells nobody: L3 goes on believing in the link until it asks. `L3Informed`
  excepts it.
* A RELEASE by the dispatcher while a thread of Yate is between the two steps of an
  establishment of SAP 3 leaves a side that waits without T200: `WaitingIsTimed` is
  checked on SAP 0, where the network does not establish.
* The comparison of ContentionResolution is of the number of one bits, so that a phone whose message
  has as many as the owner's is echoed as if it were the owner; `contention` shows two owners whose messages differ
  in this too.
* Following `reserved`, the second phone takes its assignment, `remap` finds the
  first slot, and Yate sees the second phone on the first one's connection: with
  `MaxTalk` 1 in `calls` a channel is reserved once (`reserved` has 2).
* Yate's idle timer, 2 s, ends a handover with a hard release while the phone is
  arriving, and the channel is free at once, under a phone that is about to send on it. The phone's
  HandoverComplete then comes on an id Yate does not know and is dropped, and mbts keeps
  a connection Yate does not have: where a phone may also be granted the handover's
  channel by access, `Agreement` fails.
* After an abnormal release the RELEASE that follows the ERROR closes L1, which the
  ERROR was to leave open (GSML1FEC.cpp:1008-1011 "Otherwise, we risk recycling the channel
  while the phone's still active", against GSML2LAPDm.cpp:261), and T3111 frees the
  channel after 1.8 s, whether or not the phone has noticed. `calls` and `handover` contain it (a link that fails,
  a hard release); `LinkIsHeld` is about links both ends have, and says nothing of what comes after. No run
  states the comment's sentence, which is of a phone whose link the network has given up.
* T3109 (30 s) may run out on a channel while its phone is away for an assignment that fails; the phone
  then comes back to a channel that is free. `LinkIsHeld` is checked, and proved, without late timers or without failures.
* A phone whose AssignmentComplete finds no slot to be moved to, or whose first message finds the table
  full, is left on a link that is up: the dispatcher only logs it and waits for the next
  establishment (DCCHDispatch.cpp:174-209).
* A timer that is late together with a failing link lets a connection be reported
  lost that has moved on: `LostIsLost` is checked in `calls`, without late timers.
* A slot unmapped by id keeps its reference and hides a later handover with the
  same one; a slot never used holds the reference 0, because the constructor clears
  memory, and hides a handover with reference 0, which is valid. `handover`
  gives references that differ and are not 0, and `ToldApart` assumes such.
* The channel of a handover is free again when its T3101 runs out before the phone comes,
  and the slot still names it. Reserved then for another connection and taken by its phone, `remap`
  makes it that one's channel too: `OneUser` is proved where nobody is handed over.
* A hard release frees the channel at once. When another connection gets it before
  its dispatcher has taken the RELEASE, `open` clears the RELEASE away and the
  dispatcher stays in the loop of the old connection: `Agreement` is checked with
  handovers only where nobody else can be granted their channels.

*Supervisor.*

* `stop` and `start` wait with `m_stateMutex` held for the signalling thread to end,
  and that thread may be waiting for the mutex in `handshakeDone`, `radioReady`,
  `restart` or `stopNoRestart`: nobody gets on (`Stuck`; `Recovers` excepts it).
* Two calls of `start` that overlap, as a command's and a tick's may: `stop` returns
  at once to the second because the first is stopping, it goes on, and the pid of the
  first mbts is written over: `NoOrphan` is stated without such histories.
* Were a tick to begin while another waits in `stop` for "shutdown" (up to 10 s), it
  would find the pid gone, clear the restart's time and have its own `restart` refused
  because the driver is stopping: the restart is lost. The run has one thread that ticks.
* A handshake that comes before `waitHandshake` is ignored; heartbeats keep the timer
  from running out; only the radio ready that follows in a wrong state restarts.
* After a start that failed, `m_restart` is false and nobody tries again.
* ybts.conf.sample:925 says that at the limit of restarts "the entire Yate application
  will exit!". The code sets `m_stopped` and stays idle (ybts.cpp:9826).

*Short messages and paging.*

* ybts.cpp:5419 says "Stop paging when request counter drops to zero". `stopPaging` drops
  the lock after the count, and `stopPagingNow` then ends a paging that another list has
  joined in between. That list is not told and waits until something else makes it
  look. `handlePagingResponse` stops the paging for everybody too, but the phone is there
  then. `NotForgotten` marks such a list as lapsed.
* When the message at the head of a list runs out of time, neither `removeMtSms` nor
  `handleMtSmsRsp` (which drops an inactive head and goes on with the answer) looks
  after the next one: it waits for a connection to end, or for its own time. Lapsed
  as well.
* `connReleased` finds the list and then locks it (ybts.cpp:8699-8706). A thread may give the list the phone's
  next connection in between, or before the end of a location update, whose release
  finds the list by the phone: that connection is taken from the list, its usage stays, so that it is never idle, and
  a message already sent there is sent again. `UsageCoversHolders` asks only that
  the count is not too small.
* `checkTimers` decides that a connection is to be dropped, drops the locks (ybts.cpp:4276-4287) and then drops it: a list that takes
  the connection in between loses it, and its message is sent again on another.
* A list that has become empty goes, and a new one counts its references from 0: the
  late answer to the last message of the old list, on the same connection, is taken for
  the first of the new. `SuccessIsOwn` compares messages of one list.
* `findMtSmsList` and the `append` after it are not one step. A message put in a list that
  has left the table meanwhile pages, but no answer and no end of a connection finds it.
  `NotForgotten` and `SuccessIsOwn` are about the list in the table and about answers.
* `sentCount()` returns `m_sent` (ybts.cpp:1309), so that the delay for reaching the phone
  is counted again after a connection has been lost.
* The pager of mbts gives up after T3113 and does not say so; Yate believes that the phone
  is paged until a list stops it. A second message joins a paging that is over.
* A phone that answers a page after it has been stopped gets RRStatus, and a connection
  without phone or usage, whose idle time nobody starts.

*RLC.*

* ybts.conf.sample:759 says "After completion, downlink TBFs are held open for this time, in milliseconds". Their end is
  that of an idle block (RLCEngine.cpp:1188-1195), which only a keep-alive can be, and none is ever made:
  `sgsnSendKeepAlive` is empty (Sgsn.cpp:1973) and `isKeepAlive` is always false (SgsnExport.h:70). A
  persistent TBF without data stays until the phone is lost or its data come.
* RLCEngine.cpp:213 says that VS is at or ahead of VA. After an answer that
  acknowledges everything `engineRecvAckNack` returns before VS is set, and VS stays
  behind. `advanceVS` may then see a stall that is none; nothing worse.
* RLCEngine.cpp:106 says that `deltaSNS` of a number one behind is -1. Where the
  numbers wrap it is 127.
* When N3105 overflows, the last reservation is still outstanding. Its answer, taken
  while the TBF waits for its release, may finish it, or, by NStuck, kill it without the retry.
* A retry sends the last PDU again and only that: earlier ones that were not
  acknowledged are lost, and one that was acknowledged may be sent twice (TBF.cpp:1067).
* An uplink block 62 or 63 numbers ahead of the window makes `engineRecvDataBlock`
  free the slot it has just stored the block in, and then read the freed block
  (RLCEngine.cpp:720-736). In `RLCUp` what is read is arbitrary; the phone sends the
  block again.
* RLCEngine.cpp:630 says "first we have to stop transmitting USFs" of the closing of an
  extended uplink TBF; `findNeedyUSF` goes on granting them, and a block that comes
  then may be acknowledged and dropped. `KeepsTransfer` takes such a TBF for failed.
* With a change of priority, a run of blocks taken at once may go past a final
  block; the TBF ends although a new burst has begun (`EndsBetweenBursts` excepts it).
* N3103 is compared before the answer is looked at (TBF.cpp:1448): the last of the
  final acknowledgements is never waited for.

## 8. What is not modelled

* Radio: coding, power, timing advance, measurement. A burst arrives or not.
* UI frames and the SACCH; the frames on SAP 3 (`MtSms` has only its establishment and
  its loss); `SigStopMedia` and the voice frames.
* Of the short messages: those from phones, CP-ACK and the retransmissions of the CP
  layer, authentication before a message, the answer `extra_rel` asks for, the end of the
  phone's registration, which only ends the threads.
* `gBTS.hold()`, which rejects accesses and handovers under overload; a rejected
  handover is there because of a full pool.
* Of the supervisor: the threads of media and log sockets, which end with `stop`; the command socket, on which
  a CLI command that fails asks for a restart (ybts.cpp:4110, 4132) as the signalling
  thread does when its socket fails; and the settings.
* Of GPRS: unacknowledged mode, PDUs of several blocks, the assignment over CCCH, the
  choice of channels and codings, the sharing of a channel by several phones, phones
  that change their TLLI; the end of a persistent downlink TBF and its keep-alive
  (RLCEngine.cpp:1163-1172, 1188-1200), which nothing can reach (section 7). A TBF that died and is kept besides its retry, waiting for
  its TFI to be free, is not kept in the model.
* Retries of a transaction by a phone: a phone that fails starts again, up to
  `MaxAccess`.
* The parts in the last table of section 1. Signal processing, ciphers and
  authentication algorithms are pure functions over large words, out of reach of
  enumeration; the database is vendored; web pages, CLI and
  configuration read and print settings.

## 9. Plan

In this order, each with its own MC module, runs and, where named, proofs.

1. `ConnectionMap`, `Connections`: done for SAP 0, with types, handover references,
   `OneUser` and `LinkIsHeld` proved. To prove: `OneHolder` and `LostIsLost` without late timers. To add: SAP 3, an abstract specification of one connection
   (`idle`, `live`, `lost`, `released`) that `Connections` implements when no timer
   is late.
2. `LAPDm`, `LAPDmContention`, `LAPDmLink`: done, and T200 on SAP 0 proved. To prove:
   `LinkSpec`, for one frame on the air each way.
3. `RLCDown`, `RLCUp`, `RLCTransfer`: done, and the downlink proved. To add: several phones
   on one channel with their TFIs and USFs.
4. `MtSms`: done for one phone, and proved. To add: several phones, whose
   TMSIs change while they are paged.
5. `Supervisor`: done, and its safety proved.
6. `Calls`: `YBTSChan` with its connection, its paging and its timers; messages from
   phones and supplementary services over the same connection.
7. `Gmm`: attach, detach and PDP activation between phone, SGSN and Yate's ids.
