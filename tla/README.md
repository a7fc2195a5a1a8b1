# openPOWERLINK: TLA+ verification project

openPOWERLINK is an Ethernet POWERLINK stack in C: a real-time **kernel part** (data link layer,
NMT kernel state machine, PDO copying, error handler) and an application-side **user part** (NMT
user state machines, SDO, object dictionary, control module), connected by **communication
abstraction layers** (CAL) over queues, shared memory and ioctl calls. This directory models the
parts whose correctness depends on the order of events, and proves what can be proved about them.
Paths below are relative to `src/stack/src/` unless they say otherwise.

## 1. Inventory

| Component | State it keeps | Operations | Talks to | Hard behaviour |
|---|---|---|---|---|
| SDO sequence layer `user/sdo/sdo-sequ.c` | `aSdoSeqCon[]`: state, sequence numbers, history ring, timer, retry count | initCon, sendData, deleteCon, receiveCb, processEvent | sdo-comu (callbacks into it and calls from inside them), sdo-udpu, sdo-asndu, timeru | lost, repeated, reordered frames; late timer events; crossing handshakes; history limit; refused sends |
| SDO command layer `user/sdo/sdo-comu.c` | `sdoComCon[]`: state, transfer size and position, transaction id | defineCon, initTransfer, undefineCon, receive and connection callbacks | sdo-sequ, obd, application | segmented transfers, abort during transfer, several handles on one connection |
| SDO/UDP, SDO/ASnd `user/sdo/sdo-udpu.c`, `sdo-asndu.c` | connection tables, socket, thread | initCon, sendData, delCon, receive | dllucal, sockets | receive thread beside the event thread |
| User timers `user/timer/timer-generic.c`, `timer-linuxuser.c` | free list and delta list of timers | setTimer, modifyTimer, deleteTimer, process | eventu | stale handles, expiry racing a restart, tick wrap |
| Circular buffers `common/circbuf/circbuffer.c` | header with read/write index, free size, data count | alloc, connect, write, read, reset, setSignaling | event CAL, dll CAL | wrap-around, full and empty, producer/consumer |
| Event queues `kernel/event/`, `user/event/` | one circular buffer per direction, semaphore, thread | post, process | every module | order between queues, full queue, error events about errors |
| PDO triple buffer `kernel/pdo/pdokcal-triplebufshm.c`, `user/pdo/pdoucal-triplebufshm.c` | read, write and clean index, new-data flag | write, read PDO | pdok, pdou | lock-free exchange between two processes |
| PDO modules `kernel/pdo/pdok.c`, `user/pdo/pdou.c` | channel table, mapping, running flag | configure, enable, copy | dllk, obd | reconfiguration while copying |
| Error handler `kernel/errhnd/errhndk.c`, `user/errhnd/errhndu.c` | cumulative, threshold and error counters per error | postError, cycleFinished | dllk, nmtk, shared memory | threshold arithmetic, stored counters against local ones |
| DLL `kernel/dll/` | cycle state, node table, asynchronous queues, frame buffers | frame handlers, NMT-driven start, cycle state machine | edrv, nmtk, errhndk, pdok | frame order within a cycle, loss of SoC, PReq, SoA |
| DLL CAL `kernel/dll/dllkcal.c`, `user/dll/dllucal.c` | asynchronous transmit queues, request counters | send, getFrame, issueRequest | circbuf, eventu | scheduling asynchronous requests |
| NMT kernel `kernel/nmt/nmtk.c` | NMT state and flags | processEvent | dllk (synchronous), events | event order; flags that outlive a reset |
| NMT user `user/nmt/nmtu.c`, `nmtcnu.c` | local state, timer, node id | postNmtEvent, state change callbacks | nmtk via events | user view behind kernel state |
| NMT MN `user/nmt/nmtmnu.c` | per-node boot state, counters, timers | node events, boot-up process | identu, statusu, syncu, dllucal | many nodes booting in parallel, timer expiry against answer |
| identu, statusu, syncu `user/nmt/` | one callback per node | request, receive | dllucal | double requests |
| Configuration manager `user/cfmu.c` | per-node SDO download | process, SDO callback | sdo-comu, obd | abort and restart of a download |
| Object dictionary `user/obd/obd.c`, `obdcdc.c` | partitions, callbacks | read, write, access | all | pointer arithmetic, no concurrency of its own |
| Control `user/ctrl/ctrlu.c`, `kernel/ctrl/ctrlk.c` | command, return, status, heartbeat | executeCmd, process | ctrl CAL | two processes on a shared memory word |
| Cycle sender `kernel/edrv/edrvcyclic.c` | double-buffered transmit list | setNext, start, timer callback | edrv, hrestimer | list switched while it is sent |
| Virtual Ethernet `kernel/veth/`, LEDs `user/ledu.c`, API `user/api/`, drivers `kernel/edrv/edrv-*.c`, hrestimer, synctimer, timestamp, `arch/`, ami, debugstr | | | | platform, conversion or I/O code |

What makes each one correct: see sections 3 and 4 for the modelled parts and section 7 for the rest.

## 2. Plan

Order: what carries the stack's guarantees and is hardest to test first.

Done:

1. `SdoSeqHistory`, `SdoSeq`: a connection over an unreliable link; implements `SdoStream` for one
   direction; proofs in `SdoSeqProofs`.
2. `TimerGeneric`: the timer list the sequence layer relies on; implements `TimerSpec`; proofs in
   `TimerGenericProofs`.
3. `PdoTripleBuf`: lock-free exchange of process data; proofs in `BufferProofs`.
4. `CircBuf`: the circular buffer under all queues; implements `FifoSpec`; proofs in `BufferProofs`.
5. `EventCal`: the event queues and threads on top of it; proofs in `EventCalProofs`.
6. `NmtkStates`, `NmtCn`: the NMT state machine of a controlled node and the user part that follows
   and answers it, over the queues of `EventCal`; proofs in `NmtCnProofs`.
7. `DllkCn`, `CnCycle`: the cycle of a controlled node, composed of the DLL state machine, the
   threshold counters of `errhndk.c` and the NMT state machine of `NmtkStates`; proofs in `DllProofs`.
8. `DllkCal`: who is invited by the next SoA; proofs in `DllProofs`.
9. `EdrvCyclic`, `MnCycle`: the cycle of a managing node, composed of the cyclic driver with its two
   frame lists, the DLL, the kernel thread and the managing node's part of the error handler; proofs
   in `MnCycleProofs`.
10. `NmtMn`: the boot-up that a managing node does with its controlled nodes, composed of
   `nmtmnu.c`, the kernel's NMT state machine and what a controlled node does with the commands;
   proofs in `NmtMnProofs`.

Left, in this order:

| Module | What it is for |
|---|---|
| `SdoCom` | segmented transfers over the stream of `SdoStream`: a completed transfer has all bytes in order, abort and loss of connection end it on both sides |
| `Ctrl` | the command word between two processes; modules deleted while the event thread still runs |
| `Cfm`, PDO reconfiguration | download aborted and restarted; mapping changed while the cycle runs |
| `ErrHndk` | the rest of the error handler: loss of PRes per node and the copy of the counters that the user part reads |

Theorems left: every safety and action property that the passing runs check has one except `Watched`
of `NmtMn`, which speaks of the number of failures: a proof needs the whole way of a mandatory node
through the boot-up with one failure at each of its stages.

## 3. How the modules correspond to the code

An action is one call of a handler with everything it calls, except where a module says that a
thread can be interrupted inside; then an action is one access to shared memory. The operators and
actions have the names of the functions they model where TLA+ allows it; `PROJECT.json` gives the
lines of each. An operator that begins with `Bad` is not part of the specification: it is a
definition as a plausible bug would have it, and putting it in place of the right one shows that a
property notices the bug.

### SDO sequence layer: `SdoSeqHistory`, `SdoSeq`, `SdoStream`, `MCSdoSeq`

`SdoSeqHistory` has the ring of unacknowledged frames as pure operators: `initHistory`,
`addFrameToHistory`, `deleteAckedFrameFromHistory`, `readFromHistory`, on a record with the fields
of `tSdoSeqConHistory` (`sized` is the set of slots whose frame size is not 0).

| State | Code |
|---|---|
| `con[p]` | `p`'s entry of `aSdoSeqCon`: state, both number bytes (sequence number and connection bits apart), history, retry count, use of the handle |
| `timer[p]` | `timerHdl`; "fired" is a handle whose timer has expired and that is not deleted yet, "refused" a handle of 0 because `setTimer` returned an error |
| `timerEvent[p]` | the timer event in the event queue |
| `chan[p]` | frames under way to `p`: SDO/ASnd or SDO/UDP and the network, external |
| `up`, `sent`, `got` | what the command layer believes and has received, to state properties about |

| Action | Code |
|---|---|
| `sdoseq_initCon`, `sdoseq_sendData`, `sdoseq_sendAck`, `sdoseq_deleteCon` | the calls of the command layer |
| `receiveCb` (`RecvIdle` .. `RecvWaitAck`) | `receiveCb` and `processState` with event `kSdoSeqEventFrameRec`, the replies that the command layer sends from inside the callback included |
| `TimerExpires`, `StaleEvent`, `sdoseq_processEvent` | expiry, an outdated event, and `processState` with `kSdoSeqEventTimeout` |
| `Lose`, `Duplicate`, `Swap`, `Restart` | network and power |

Sequence numbers wrap at `SeqMod` (64 in the code), the comparison uses `Threshold` (100 of 256 in
units of the number byte, which has the number in its upper six bits).

`SdoStream` is what the command layers may rely on: in each direction a counter of the frames sent
and one of those taken, each next one exactly, with at most a window between them.
`ImplementsStream` maps `sent` to itself and the frames taken to the tag that was delivered last at
the other end, so a frame that is delivered twice, late or after a hole is no step of it.

A `setTimer` that finds no free timer returns its error, and the handler has changed the state all
the same: so each action that starts a timer has the outcome "refused" besides "running"
(`TimerOutcome`) if `noTimer` of the budget allows it.

`Budgets` is a set of records, and a behaviour begins with one of them: how many frames the network
loses, repeats and swaps, whether late frames and timer events survive a connection, how often a
send is refused, a node restarts, closes and opens, whether timers can run out, and how much is
sent. So one run asks the same question of several networks.

### User timers: `TimerGeneric`, `TimerSpec`, `MCTimerGeneric`

`timeruInstance` has the free list, the delta list (entry and time after its predecessor), the tick
of the last start and the number of free entries. `timeru_setTimer`, `timeru_modifyTimer` and
`timeru_deleteTimer` are the clients' calls, `timeru_process` takes the first timer off the list
(`Take`) and posts its event (`Post`). These are two steps, and calls of clients may come in
between: with the thread of WIN32 they can, without one the main loop takes the two at once, which
is one of the orders. `ProcessEvent` is the client that gets the event: an SDO connection that does
not know the event's handle deletes that handle again. `TimerSpec` promises what a client may
expect: a set of deadlines, each expiring in order and not before its time.

`now` counts ticks from `Uptime`, the age of the system when the stack is started, and the code sees
it modulo `TickMod`. `fault` is a history of what the code does wrong: "second free" is the deletion
of a handle that is not the connection's any more. The entry is then in the free list twice, or is
taken from the client that got it meanwhile; the two lists share their links, so that sequences do not
describe them any more, and the model ends there. "wrap" is a relative time longer than the tick
count, which the code cuts; the model goes on with the time as it is cut.

### PDO triple buffer: `PdoTripleBuf`, `MCLayers`

`readBuf`, `writeBuf`, `cleanBuf`, `newData` are the fields of `tPdoBufferInfo`, `pdo` the three
buffers with a PDO in two parts. `CopyIn`, `CopyInRest`, `Offer`, `SetNewData` are the producer
(`pdokcal_writeRxPdo`, `pdoucal_setTxPdo`), `CheckNewData`, `Fetch`, `ClearNewData`, `CopyOut`,
`CopyOutRest` the consumer (`pdoucal_getRxPdo`, `pdokcal_readTxPdo`), each step one access.

### Circular buffers: `CircBuf`, `FifoSpec`, `MCDllQueues`

`header` is `tCircBufHeader`, `circBuf` the memory byte by byte, `returned` what the last call
returned. `circbuf_writeData`, `circbuf_writeMultipleData`, `circbuf_readData`, `circbuf_reset` are
one step each because the code holds the lock. `FifoSpec` is the queue of whole messages, refused
with the code's return values.

`MCDllQueues` instantiates this module and `DllkCal`, whose queues are such buffers, and `MCLayers`
the two exchanges between kernel part and user part, `EventCal` and `PdoTripleBuf`. The two modules
of an instance share no state, so a behaviour is about one of them: `part` says which, the other
one stays in its initial state, and fairness is that of the one that runs.

### Event queues: `EventCal`, `MCLayers`

`queue` has the four circular buffers (kernel-internal, user to kernel, kernel to user,
user-internal), each holding the sinks of its events; `sem` the semaphores, which keep their value
over a restart, `pc` the place of each event thread. `postEvent` stores an event and `signalEvent`
posts the semaphore, as two steps, by event threads, the application and driver threads. The threads
wait, count the queue of higher priority, count the other, read, and run the handlers (`Loop`,
`CountHigh`, `CountLow`, `processEvent`, `HandlerPosts`, `HandlerDone`, `HandlerReturns`,
`HandlerFails`); `exit`, `exitDone` and `init` stop and start a layer. Handlers are abstract: they
may post further events, return, or fail, which posts an error event as `eventk.c` and `eventu.c`
do.

### NMT of a controlled node: `NmtkStates`, `NmtCn`

`NmtkStates` is the transition table of `nmtk.c` (`Target`), with the two flags of the transition
NMT_CT5 (`Agreement`, `NmtkStep`). In `NmtCn` `nmtk_process` works off an event of `kInt` (events of
the kernel part) or `uk` (events of the user part) and reports a change in `ku`; `UserThread` is
`nmtu_processEvent` and `nmtcnu.c`'s commands, with the answer to each reset state (`AnswerTo`,
`StateChange`), the timer of NOT_ACTIVE and the application, which may take an answer upon itself by
returning `kErrorReject` (`owed`, `ApplicationAnswers`). `KernelPosts`, `CommandArrives`,
`oplk_execNmtCommand` are frames and errors, commands of the managing node and of the application.
Each queued event carries its age, a history variable.

### Cycle of a controlled node: `DllkCn`, `CnCycle`

`DllkCn` is `dllkstatemachine.c` for the controlled node: next state, reported losses
(`NextDllState`, `ErrorsOf`, `Triggers`). `CnCycle` has the four slots of a cycle (`SocSlot`,
`PreqSlot`, `SoaSlot`, `AsndSlot`: a frame arrives, is lost, or its handler fails before
`dllk_changeState`: `FrameFails`), the frame timer (`FrameTimeout`) and the kernel thread, which
works off the queued events (`KernelThread`): NMT events, sets of errors to count (`HandleErrors`:
`errhndk_postError`), and the SoA that decrements the counters of what did not happen
(`errhndk_decrementCounters`). The frame timer is first started by a SoC, with the frame timeout in
nanoseconds, and then by its own callback with the cycle length in microseconds: while `short` is
TRUE it expires any number of times before the next SoC.

### Scheduling of asynchronous frames: `DllkCal`, `MCDllQueues`

`queue` has the two queues of controlled nodes with something to send and the queues of ident and
status requests, `count` is `aCnRequestCntGen` and `aCnRequestCntNmt`, `nextRequestQueue` the queue
that the next invitation tries first. `frames` and `flag2` are the controlled node: what it holds,
and what its response, built in the cycle before, announces.

| Action | Code |
|---|---|
| `CnQueues` | a controlled node gets a frame to send and announces it |
| `Report` | its response arrives: `dllkcal_setAsyncPendingRequests` |
| `IssueRequest` | `dllkcal_issueRequest` |
| `SendSoa` | `dllkcal_getSoaRequest`: up to six queues in turn, the first with an entry grants |
| `ClearAsyncQueues` | `dllkcal_clearAsyncQueues` at the start of a reduced cycle |

Left out: the queue of synchronisation requests (PRes chaining), and that the receive path of a
frame can interrupt the kernel thread inside `getSoaRequest`.

### Cycle of a managing node: `EdrvCyclic`, `MnCycle`

`EdrvCyclic` is `edrvcyclic.c` as operators on a record: two lists, the one that is sent, how far it
is, and the two timers. `MnCycle` adds what happens around it:

| State | Code |
|---|---|
| `nmt`, `startDue`, `dllState`, `reduced`, `cycleCount` | NMT state, the user part's start of the reduced cycle on its way, DLL state, timer and counter of the reduced cycle |
| `offset`, `soa` | `curTxBufferOffsetCycle`, the invitation in each of the two SoA buffers |
| `ring`, `curReq`, `syncReq` | `aLastReqServiceId` and node (`DLLK_SOAREQ_COUNT` of 3), `curLastSoaReq`, `syncLastSoaReq` |
| `kInt`, `build` | the kernel's event queue, and the place of the thread inside `processSyncMn` |
| `counter`, `seen` | threshold counters of `errhndk.c`, the errors of this cycle |
| `behind`, `halted` | history: this cycle was started while events waited for the kernel thread; the driver refused the last SoA of the reduced cycle and no timer runs |
| `tx`, `wire`, `open` | the frame in transmission, the request a node has not answered, the SoA it came with: the network, external |

`ReducedTimer`, `SoaTransmitted`, `CycleTick`, `SocTransmitted`, `SoaSlot`, `CrcError` are the
callbacks of timers and driver; `KernelEvent` works off one event; `Prepare`, `Check`, `Copy` are
`processSyncMn` and `edrvcyclic_setNextTxBufferList` in the three pieces between which a callback
can come; `Answer` is the response to a request; `StartReduced` and `EnterPreOp2` are the changes
of state. Abstractions: the change of the NMT state and the stop of the cyclic timer that goes with
it are one step; in the full cycle one answer belongs to one invitation; the reduced cycle starts
with no frame in transmission and is left only when its first SoAs are sent. The driver may refuse
any frame, and the full cycle starts whether events wait for the kernel thread or not; both cost one
of `MaxFaults`.

### Boot-up by the managing node: `NmtMn`, `MCNmtMn`

`mnu` is `nmtMnuInstance_g` with everything that the handlers of `nmtmnu.c` share: the two counters
`signal` (`signalSlaveCount`, the nodes not heard in this scan) and `mandatory`
(`mandatorySlaveCount`, the mandatory nodes not ready for the next state), `informed`
(`NMTMNU_F_APP_INFORMED`: the end of this state's boot step is announced), the outstanding ident and
status requests, the commands that wait in the asynchronous queue, and per node its boot state,
flags, expected and current state, and its timer with its kind. `mnu.od` has what the handlers read
from objects: whether all nodes are started at once (1F80), and whether there is a timeout for
READY_TO_OPERATE (1F89/4) and one for the check of the communication (1006); a timeout of 0 starts no
timer. A behaviour begins with one of the combinations in `Objects`. `cn[c]` is the controlled node
itself: its state and how it is linked into the isochronous phase.

The handlers are functions of that record, composed in the order of the calls in the code
(`CheckNmtState`, `BootCheck`, `Boot`, `IdentResponse`, `StatusResponse`, `NmtCmdSent`, the
`Timer..` operators, the start of each state). The actions are what calls them: `Ident` and `Status`
(a request is answered or not), `CmdSent`, `NodeAdded`, `Heartbeat`, `LossPres`, `StatReq` and
`Longer` (timers), `NodeCmd` (the configuration manager's report), `KernelEvent` (the boot step the
kernel was asked for, with the state change that the user part then handles), `TimerMsPreOp2`,
`NmtCycleError`, `CnMove`, `CnRestart`. `failed` is a history of what went wrong, by culprit: a node
that did not answer, missed a command, restarted or was too slow, or "MN" for a failed configuration
and a cycle error.

Assumptions: a controlled node restarts more slowly than the commands that wait at the managing
node leave it; its timers are long enough (`Settled`) unless a fault says otherwise; the kernel's
report that a node was added arrives before that node's next ident answer; callbacks accept; the
user part learns each state of the managing node at once. Asynchronous-only nodes are in the
operators, not in the run. Left out: resets by the user, stopped nodes, PRes chaining, the state
HALTED. A timer event that was queued before its timer was restarted is discarded by the code by
its counter, here by the node having one timer.

## 4. Runs

Sizes are those of a complete search; all constants are in the .cfg files.

| Run | Question | Bounds | States |
|---|---|---|---|
| `sdoseq_stream` | Do nine frames arrive once, in order and without a hole, is nothing forgotten, does waiting end, and does a handshake complete although the init frames cross? | history 2, numbers modulo 8, 1 retry, 5 frames under way; either 9 frames, 2 losses and late frames, or both nodes open up to twice | 16 878 |
| `sdoseq_faults` | Do timer, state, the command layer's view and the counters of the history stay together under every fault? | 2 data frames; either one each of duplicated, reordered, refused, restart, delete, timers that run out and late frames, or two connections one after the other and 2 exchanged frames | 1 212 248 |
| `sdoseq_full_history` | (violation) Do the free entries stay within the history? | 5 frames | |
| `timer_service` | Is the timer list a timer service, up to a second free or a wrap? | 3 entries, 3 clients, 2 timeouts, 3 ticks to a wrap, started at time 1, time to 2, 1 queued event | 452 674 |
| `layers_exchange` | Events: is every event processed? Process data: are PDOs never torn and an exchange never back by more than one? | 2 driver threads, the application, queues of 2, 4 posts, 1 restart; 6 PDOs | 207 075 |
| `dll_queues` | Buffer: is it a FIFO wherever it wraps? Scheduler: is a count never more than the requests it stands for, and is every announced frame and every request invited? | blocks of 2 bytes, 9 bytes asked for, messages of 0 to 4 bytes in one piece or two; 2 controlled nodes with 2 frames each, queues of 2, ident requests, 1 start of a reduced cycle | 277 220 |
| `nmtcn_reset` | Does the node agree with its user part, and does each reset complete? | 3 queued events, 2 resets | 342 551 |
| `cncycle_loss` | Is a frame reported exactly when it was lost, is silence noticed, and do the counters come down? | 2 losses, 2 commands, 1 event behind | 824 012 |
| `cncycle_once` | (violation) Is a lost SoC reported once per cycle? | the same | |
| `mncycle_cycle` | Does an answer count for the request it answers, is a frame never rewritten while it may be sent, and does the cycle go on? | 1 request, 1 start cycle, weight 1, threshold 2, 1 event behind, 1 fault | 2 869 892 |
| `nmtmn_boot` | Is the count of signals that of the nodes, is no mandatory node forgotten after a failure, and does the boot complete? | a mandatory node to be configured and an optional one, each of which may fail, counters modulo 8, 1 fault | 188 998 |
| `nmtmn_earned` | (violation) Is a boot step announced only when the mandatory nodes have done it? | the same, with all objects | |

### Why the bounds are enough

- `sdoseq_*`: a history of 2 is empty, partly full and full, and a stream of nine frames wraps both
  the ring and the numbers modulo 8. A threshold of 3 of 8 is in the proportion of the code (25 of
  64) and larger than the history, as it is there (5 entries). The faults are one of each kind so
  that they occur together in one behaviour; losses are in `sdoseq_stream`, where they meet full
  histories and retries. For `HistoryIndexOK` the second budget of `sdoseq_faults` lets an
  acknowledge of the first connection be overtaken by the handshake of the second and come when that
  has frames in its history. `InOrder`, `ImplementsStream`, `NothingLost`, `HistoryConsistent` and
  `HistoryIndexOK` are also proved without these bounds, as long as every data frame that gets a
  number is recorded; in `sdoseq_stream` each one is.
- `timer_service`: three entries are the first, the middle and the last of the list; deleting or
  restarting each of them is different code. Three clients with one entry each reach the empty free
  list. The run starts one tick into a period of three, so that the tick count wraps while timers
  run; it reaches the second free and the relative time that is cut. Its safety properties are
  proved without these bounds.
- `dll_queues`: messages end before, at and behind the end of the buffer, wrap behind their size
  word, inside the first and inside the second of two pieces, and just fill the buffer; proved for
  every size. Two nodes with one frame of each priority or two of one: a queue of two is full, and
  an announcement is refused, while the other node waits. Six queues are tried in turn, so one
  service stands for both. A second start of the reduced cycle adds nothing to the first. `Backed`
  is proved without the bounds.
- `layers_exchange`: with two events in a queue one is behind another, and a third is refused; two
  foreign threads and the thread itself may be between storing and signalling at once. Six PDOs use
  each of the three buffers twice. The proofs hold without these bounds.
- `nmtcn_reset`: three events make one that is processed, one that is stale behind it and one that
  arrives meanwhile; two resets let the second start inside the first. The run was also made with
  three resets, and simulated with six queued events and nine resets. Its invariants are
  proved without these bounds.
- `cncycle_loss`: Weight and Threshold of 2 and 3 instead of 8 and 15 let a threshold be reached by
  two losses and missed by one with decrements between. Two losses are a lost frame next to another,
  of the same or another kind; longer silence is `MnStops`. The short timer expires as often as the
  queue of the kernel thread has room. The invariants are proved without the bounds.
- `sdoseq_stream`: the two bounds are questions of their own, so no behaviour has both; the crossing
  handshakes need five frames under way.
- `mncycle_cycle`: two lists, two buffers and a ring of three entries are those of the code. A second
  request adds nothing (answers carry the request they are for), one event behind lets a callback
  come before the kernel thread has handled the last, a threshold of two is reached by an error and
  missed by one with a cycle without errors behind. The fault is a refused frame, a damaged one or a
  cycle started behind: all that `Attributed` excludes is reached, and without `~behind` TLC finds it
  violated. `Attributed` and `BufferStable` are proved without the bounds.
- `nmtmn_boot`: the two nodes are the two kinds the counters treat differently; one fault (a lost
  answer or command, a restart, a slow node, a configuration that fails, a cycle error) may come in
  any state of either. Counters modulo 8 would show one that is decremented too often as a 7. The run
  has nodes that are started one by one with a timeout for READY_TO_OPERATE, as `BootCompletes` needs
  it; `SignalExact` and `Watched` were also checked with all objects (985 911 states), and `Watched`
  with a waiting time, with two mandatory nodes and, without the broadcast StartNode, with
  asynchronous-only ones. What breaks `Watched`, `SignalExact` and `BootCompletes` beyond their
  conditions is in section 5. `SignalExact` is proved without the bounds for `Waits` = FALSE.

`dll_queues` also looks for deadlock. The other searches end in states without a successor when a
budget is used up, so they do not; that the parts go on is stated by the liveness properties.

### Fairness

- `SdoSeq`: the threads that receive frames and run the event loop are scheduled again and a running
  timer expires. The command layer is not fair: it need not send or close.
- `TimerGeneric`: `timeru_process` is called from the main loop again and again (or has its thread).
  Clients are not fair.
- `EventCal`: both event threads are scheduled, handlers return, and a caller that has stored an
  event signals it (the next statement). Callers need not post. `Drained` depends on finitely many
  posts: the kernel-internal queue has priority, and posting to it for ever starves the other.
- `NmtCn`: the kernel thread serves its internal queue first and the user part's when that is empty,
  the user thread runs. Timer, application and managing node are not fair, so `ResetCompletes` needs
  none of them: a reset goes on by the answers of the user part alone. The state change callback
  succeeds or rejects.
- `CnCycle`: time passes (slots), the frame timer expires when due, the kernel thread runs.
- `DllkCal`: each cycle sends a SoA and gets a response of each node. `SF` of `Heard`: now and then
  such a response meets a queue that is not full; without it other nodes could fill the queue before
  each response, and the code does not prevent that. Neither nodes nor the user part have to ask.
- `MnCycle`: timers expire, a frame that is sent leaves, the kernel thread runs, the user part starts
  the reduced cycle when the state asks for it. Nobody has to answer.
- `NmtMn`: the asynchronous slot comes round, the kernel thread and the polling timer run, and a node
  does everything else that it has begun (its `Fairness` lists the actions). Faults are not fair.
  `BootCompletes` depends on finitely many of them.

## 5. Findings and known behaviours

The runs that end in a violation, each a disagreement of the code with its own comment:

`sdoseq_full_history`, `user/sdo/sdo-sequ.c:1342`. WaitAck is entered because the history is full.
Any frame with rcon 2 leaves it, whether it acknowledges anything or not. The next frame then has no
history entry, the hole in the numbers stops `deleteAckedFrameFromHistory` before it stores
`ackIndex`, and freed entries are counted twice.

`cncycle_once`, `kernel/dll/dllk.c:990`. `dllk_cbCnTimer` starts its timer again with `cycleLen`, in
microseconds, where `hrestimer_modifyTimer` takes nanoseconds (`dllk.c:266` and `edrvcyclic.c:318`
multiply by 1000). The timer expires about a thousand times per cycle until the next SoC, and each
expiry reports a loss, against "The loss of SoC event shall only be reported once per cycle to the
error handler" (`dllkstatemachine.c:871`). What remains true is `SocLossReal`: a report means that the
SoC was lost, and a lost SoC is reported.

`nmtmn_earned`, `user/nmt/nmtmnu.c:3066`. A mandatory node is counted down as Configured, the last
one, and `AllMandatoryCNIdent` is posted; before the managing node enters PRE_OPERATIONAL_2 the
node's status shows an error and it is given up (Unknown). `startBootStep2` counts the nodes that are
still Configured (`:1931`), so this one is missing from the count, and `EnterReadyToOperate` is posted
where the comment says "all mandatory CNs are ReadyToOp" (`:3067`).

Disagreements that TLC shows in the modules with another property or other constants than the runs
have. Each item says what the property that is checked states instead:

- `user/sdo/sdo-sequ.c:564`: the handle of an outdated timer event is deleted a second time.
  `timeru_deleteTimer` puts it in the free list again, or takes it from the client that got it
  meanwhile. `timer_service` reaches that step; its properties speak of the states before it, and
  the model ends with it (section 3). A test for `"second free" \notin fault` fails at once.
- `user/timer/timer-generic.c:347`: the elapsed time and a new timer's time from the last start on
  are computed modulo the tick count, so a list from which no timer has expired for a whole period,
  or a long timeout near its end, is due at the wrong time. `timer_service` reaches it;
  `ImplementsTimers` and `DueExpires` hold up to it, `DeadlinesKept`, which is modulo the period,
  also behind it.
- `kernel/pdo/pdokcal-triplebufshm.c:215`: `newData` is set after the exchange; a consumer that
  fetched in between is told of new data again and gets the PDO before. `AtMostOneBack` says how
  far it goes.
- `kernel/dll/dllkcal.c:649`: the clearing of the request queues leaves `aCnRequestCntGen` and
  `aCnRequestCntNmt`, so a node that was counted before needs more announced frames than before to
  be put in a queue again: `CnServedAfterClear` of `DllkCal` is violated. `Backed` and `CnServed` speak
  of behaviours without a clearing.
- `kernel/dll/dllkevent.c:807`, with `dllkstatemachine.c:339`, against the comment at
  `dllkstatemachine.c:386`: the cycle starts although an event of the reduced cycle still waits, so a
  cycle is prepared twice, and from then on the answer to each request is taken for the one to its
  neighbour, until the reduced cycle starts again. `mncycle_cycle` contains such cycles (`behind`);
  `Attributed` and `BufferStable` speak of the others, `SoaGoesOn` of all.
- `kernel/dll/dllkstatemachine.c:298`: the error of a SoA that the driver refuses in the reduced
  cycle is dropped, and since only a sent SoA starts the timer again, no further SoA is sent until
  the user part starts anew. `mncycle_cycle` contains it (`halted`); `SoaGoesOn` says that nothing
  else has this end.
- `kernel/errhnd/errhndk.c:365`, against the comment at 359: the counter of exceeded cycles is
  decremented into the CRC counter and never comes down (`ExceedForgotten` of `MnCycle`).
- `user/nmt/nmtmnu.c:2565`, against the comment at 1910: a node has NMT_CMD_ISSUED while it may differ
  from the expected state, cleared by the timer STATE_MON. A status request outstanding since
  PRE_OPERATIONAL_1 replaces that timer by STATREQ, and the tolerance never ends.
- `user/nmt/nmtmnu.c:3005`: whatever an NMT command was, its end replaces the timer that would repeat
  the ident request, and a node whose boot state is Unknown gets one more status request whose end
  `checkNmtState` ignores (`:3159`). Nothing asks for the node any more. So an optional node that is not
  there is lost by the broadcast that starts the nodes, or by a command that was sent before it
  failed. `Watched` states what remains: a single failure, of any node and kind, never loses a
  mandatory node before the broadcast StartNode.
- `user/nmt/nmtmnu.c:3212`: a node that was given up and misses its reset command answers the next
  ident request in READY_TO_OPERATE. `checkNmtState` takes that for progress although the node is no
  longer in the isochronous phase, and after the check of its communication nothing asks for it any
  more. TLC finds it with two failures, also for a mandatory node; hence the condition of `Watched`.
- `kernel/nmt/nmtk.c:1119`: `fAllMandatoryCNIdent` outlives a cycle error, so with a waiting time
  (`Waits` = TRUE, in no run) the timer leaves PRE_OPERATIONAL_1 while nodes of it are still marked,
  and the new count starts without them (`SignalExact`).

Behaviours that the models contain or assume, no run's question:

- A timer event queued before a timer was restarted carries the current handle (`sdo-sequ.c:562`),
  so it closes the connection or retransmits although a frame has just arrived.
- An error response in WaitAck with a full history retransmits nothing, because full looks like
  empty to `readFromHistory` (`sdo-sequ.c:1384`, `:1857`). The timeout resolves it.
- A data frame that arrives in WaitAck is delivered without being recorded (`sdo-sequ.c:1348`), so
  its retransmission is delivered again; a send that the lower layer refuses leaves the number
  advanced (`sdo-sequ.c:1111`). `InOrder` and `Resolved` are therefore checked with data in one
  direction and without refused sends.
- An acknowledge left over from a first connection may free an entry of the second that the peer has
  not taken (`sdo-sequ.c:1686`): `NothingLost` does not hold from one connection to the next, and
  `sdoseq_faults` checks the counters only. Such a frame may also complete the handshake of the
  second connection.
- A connection whose `setTimer` was refused has no timer, and nothing ends it until a frame or a
  call of the command layer comes (`sdo-sequ.c:696`): `TimerArmed` says that there is no other way
  to get there.
- The timer thread of WIN32 reads the entry's argument after the critical section
  (`timer-generic.c:283`): a client that deletes and another that sets a timer in between make it
  post the event to the other client. `TimerGeneric` contains that order; whose event it is no
  property states.
- The named semaphores are not unlinked: their value outlives a restart of the stack, which
  `NoLostWakeup` takes into account (a surplus only costs an empty turn of the thread).
- Closing gives up on a thread that does not end within one second (`eventkcal-linux.c`) and frees
  its queues anyhow; `EventCal` leaves this out. A failing handler of the error event itself raises
  error events without end.
- `EnterReadyToOperate` of an earlier visit of PRE_OPERATIONAL_2 counts for the present one
  (`nmtk.c:727`); a cycle error and a new SoC must come between. `NoStaleMove` excepts it.
- After a node is switched off and on ahead of its user thread, answers to the earlier start are
  taken for answers to the present one, one after the other (`outrun`).
- A callback that returns another error than `kErrorReject`, or a full queue to the user part, ends
  the chain of a reset (`nmtu.c:257`, `nmtk.c:302`).
- STOPPED waits for a SoA after the SoC, so a node started again in that slot takes the PReq for a
  lost SoC (`dllkstatemachine.c:723`). The frame timeout does not count in PRE_OPERATIONAL_2, so a
  silent managing node is not noticed there; and a node can become ready without its frame timer
  when a cycle error and a SoC wait together in the kernel queue.
- The managing node's cycle: the entry 0 of the request ring is left from the time before a reduced
  cycle starts; `edrvcyclic_setNextTxBufferList` looks at the list and sets it without a lock, so a
  switch in between leaves a list that is not finished at each cycle until the threshold is
  reached, for ever if that is 0, and a frame that the driver refuses has the same end; two arguments
  are exchanged at `errhndk.c:732`.
- Boot-up: a mandatory node that fails after Configured in PRE_OPERATIONAL_1 is reset without being
  counted again (`nmtmnu.c:3270`), so the boot goes on without it (`nmtmn_earned`); two reset commands
  to a mandatory node are followed by two ident answers, each of which counts it, and so is one that
  restarts in READY_TO_OPERATE; a mandatory node that misses EnableReadyToOperate waits for ever in
  PRE_OPERATIONAL_2 when there is no timeout (object 1F89/4 is 0). `BootCompletes` therefore excepts
  failures of mandatory nodes. `fAllMandatoryCNIdent` and `fTimerMsPreOp2` of the kernel outlive a cycle
  error (`nmtk.c:1119` resets them at the first start only). When a reset command is lost,
  `dllk_addNodeIsochronous` finds the node already there and reports nothing, so the node is polled for
  ever; an asynchronous-only node configured in PRE_OPERATIONAL_1 may never be enabled
  (`nmtmnu.c:1979`, `:3195`); the monitoring timer replaces the one that would repeat an ident request
  (`nmtmnu.c:2971`).
- The UDP receive thread calls into the sequence layer beside the event thread without a lock
  (`sdo-udpu.c:350`); the event of an expired timer is lost when the queue is full
  (`timer-generic.c:291`).

## 6. Proofs

All modules follow the same argument: an invariant `Inv` with `Init => Inv` and `Inv /\ [Next]_vars
=> Inv'`, one step per action, and each theorem read off `Inv` by a temporal step. Assumptions
on constants are those that the modules name; a theorem with further hypotheses states them.

### `SdoSeqProofs`

- `Inv` = `TypeOK`, `ViewMatches`, `TimerArmed`, `WaitAckScon`. Lemmas give the type of each
  operation on the history and that every end of a handler (`Commit`, with each outcome of the timer
  that it starts) keeps the other three, so each action only shows what it passes to `Commit`.
  `TimerArmed` is that a connection which is not idle has a timer or was refused one. For every
  history size, number space, retry count, fault budget and number of nodes.
- History: `HistoryInv` adds that the entries in use lie without a hole and end at the connection's
  own number (`Sound`, `Consecutive`). The hypothesis `AllRecorded` says of every step that a data
  frame it sends is in the history afterwards. It excludes the refused frame and the frame sent with
  a full history: `sendFrame` advances the number all the same, which leaves the hole that the run
  `sdoseq_full_history` shows. So these are the only ways to break the history; network, peer,
  restarts and closes cannot.
- One-way stream: `StreamInv` adds what is under way. Sequence numbers are the frames' tags modulo
  `SeqMod`; the data frames to the receiver are less than a history older than what follows them;
  acknowledges come in order and are never further behind than the entries in use; a frame in the
  history carries the tag of its number. So a number stands for one tag only among the frames that
  can still be under way, and the modular comparison is right about each. The hypotheses are one
  direction, one opening, no exchanged frames (losing and repeating only thin or repeat a queue in
  order: `Thinner`), and a sender whose command layer sends no bare acknowledges, for a bare
  acknowledge carries the number of the last data frame and looks like it. With data in both
  directions `InOrder` does not hold (section 5). `StreamCorrect` is the refinement: `StreamInv`
  gives what is sent and taken before and after a step, and each lemma of a handler says that it
  moves one of the two by one or neither (`Onward`).

### `TimerGenericProofs`

- `Inv` = types and the pool (`PoolOK` with distinct elements instead of cardinalities, and that the
  entry a client holds has the client as its argument). What `Insert` and `Remove` do to the list are
  lemmas that need nothing of the times, which are sums over the list.
- Times: `Delta(Z)` says that the sums over the delta list are the deadlines but for a number of Z.
  With Z the multiples of the tick period this holds until a second free (`Sound`), which gives `PoolOK`
  and `DeadlinesKept`. With Z = {0} it holds until a time in the list is cut (`Exact`), over any number
  of wraps of the tick count itself, and gives that timers expire in order and not early: a step of
  `TimerGeneric` is a step of `TimerSpec` or none.
- For any number of entries, clients, timeouts and queued events, any tick period and start, and any
  order of calls between `Take` and `Post`; there are no further hypotheses. What happens behind a
  second free and a wrap is in section 5.

### `BufferProofs`

- `CircBuf`: `Inv` = offsets and the existence of a `Layout`: blocks of the messages one behind the
  other from `readOffset` to `writeOffset`, whose sizes add up to what `freeSize` says is used. A write
  copies its bytes behind the last block and touches no other (`Holds`), a read takes the first. So a
  step is one of `FifoSpec` on the messages (`content`), whichever way it wraps. For every buffer size,
  alignment and message.
- `PdoTripleBuf`: the invariant adds to the types and `Separate` that a buffer is complete once it is
  given away (`Complete`), what the consumer has copied (`CopyKnown`), that PDOs are written in
  order (`Ordered`) and what an exchange can fetch (`CleanKnown`). `NotTorn` follows from the first
  two, the action property `AtMostOneBack` from the last. For every number of PDOs.

### `EventCalProofs`

`NoLostWakeup` and `CountHolds` need each other, for a stale count would use up a wakeup for nothing;
both need that a queue is only freed when its reader has ended (`LifeCycle`) and that a handler has
something left to do (`TodoLeft`). For any finite sets of callers, any capacity, any number of posts
and restarts.

### `NmtCnProofs`

- `Inv` = `TypeOK`, `FlagsClean`, `Spoken`, `ReadyEarned`, `Follows`. `ReadyEarned` alone is not
  inductive: it does not know what a flag stands for. `Spoken` says it: a flag in PRE_OPERATIONAL_2
  was set in this visit, because (`FlagsClean`) no flag survives a way that leads back. For queues of
  any length, any number of resets and any `MayReject`.
- `NoStaleMove` needs which old events can still be under way in a state (`Late`, a table), and that
  answers are in the queue in the order of the states they answer, the present one's last. The
  hypothesis is that the application does not take the answer to a reset state upon itself
  (`MayReject` without those states): its late answer would be a stale event.

### `DllProofs`

- `CnCycle`: `SocLossReal` is not inductive, for a report depends on the DLL state and the flags.
  `Inv` adds that a frame is received in its slot only (`SlotsPassed`), that the flags of
  `lossSocStatus` remember what was reported in this cycle (`Flags`), and that DLL state, frame timer
  and reports follow from the frames received once the node is synchronised (`Synced`, `InStep`); an
  expiry of the short timer finds the loss reported and only adds to it. For any lag of the kernel
  thread, weights, thresholds, losses, failed handlers, commands and expiries.
- `DllkCal`: a count goes up only with an entry stored behind it and down only with one taken from the
  front, so what is to be shown of each queue operation is what it does to the set of a node's
  entries (`EntriesOf`). For any nodes, capacity and frames.

### `MnCycleProofs`

- `Inv` = `TypeOK` and that the slot timer runs only while a SoA is left to send (`SlotHasSoa`), the
  assumption under which `timerHdlSlotCb` reads the list without looking. For any requests, weights,
  thresholds and bounds.
- `CycleInv` = `Modes`, and in a cycle that runs and was not started behind: at most one preparation
  is outstanding (`OneBuild`); `syncReq` is ahead of `curReq` by the lists that are prepared and
  whose SoC has not left (`InStep`), which are at most two, so the three entries of the ring
  suffice; the buffer of the list to be sent holds its ring entry (`Invited`). `Attributed` and
  `BufferStable` follow, also for cycles that come after one started behind: the start of the
  reduced cycle brings the parts into step again. In a cycle started behind two preparations are
  outstanding, and both are false (section 5).

### `NmtMnProofs`

One lemma for each handler says that it keeps the types and takes as many nodes off the count as it
unmarks (`Keeps`). `SignalExact` alone is not inductive, for a new state counts its nodes without
looking at marks that are left. `Inv` adds that the end of a state is announced with a count of 0
only, and that the boot event in the queue is the last state's. Without a waiting time no timer
takes the managing node on, so it is there when the next state starts. For any sets of nodes,
`CountMod` above twice their number, any number of faults; the types also for `Waits` = TRUE.

### What is proved and not run, and what is only checked

The type invariants of `SdoSeq`, `PdoTripleBuf` (`PdoTypeOK`), `EventCal`, `NmtCn`, `CnCycle`,
`DllkCal` (`CalTypeOK`), `MnCycle` and `NmtMn`, and `Separate`, `WaitAckScon`, `FlagsClean` and
`SlotHasSoa`, are proved and not run again.

Only model-checked: all liveness properties (liveness under fairness and ENABLED are out of the
prover's reach) and `Watched` of `NmtMn`.

The library's induction theorems take an operator as a parameter, which the installed provers cannot
instantiate. Where a proof needs induction (the sums over the timer list, the message sizes in the
circular buffer, a least history index) it takes the least counterexample in a set by well-founded
order (`WFMin`). What a recursive definition computes for every input is not proved beyond that. No
module declares a RECURSIVE operator: recursion is written as recursive functions or folds, or
avoided.

## 7. Not modelled

What would make them correct is in the table of section 2 for the planned ones.

- SDO command layer, control modules, configuration manager, PDO modules, loss of PRes in the error
  handler: planned.
- SDO over UDP and ASnd: sockets and address tables. `SdoSeq` has the lossy link they form. Their
  receive thread beside the event thread without a lock is a data race inside a handler, which a
  model with whole handlers as steps does not show.
- Object dictionary: tables and pointer arithmetic in one thread. Correct when an access checks
  type, range and size and calls back in the documented order; unit tests reach that.
- Virtual Ethernet, LEDs, API, drivers, high-resolution timers, ami, other platforms' variants of
  event, timer and control layers: device access, conversion of bytes, and wrappers.
- Inside the modelled parts: the search in the SDO connection table and several connections at once;
  the WIN32 lock; the redundant managing node and the states of basic Ethernet in `nmtk.c`; sync
  requests (`syncu.c`), with PRes chaining; the node lists of extended commands (`checkNodeIdList`
  in `nmtcnu.c`), which only decide whether a command is for this node; multiplexed cycles and PRes
  chaining; contents of frames; the CRC errors, which no code of the controlled node raises; a frame
  that arrives between the change of the NMT state and the DLL's copy of it.
