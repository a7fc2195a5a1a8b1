------------------------------ MODULE CnCycle ------------------------------
(***************************************************************************)
(* The POWERLINK cycle on a controlled node: frames and the frame timer in *)
(* the context of the Ethernet driver (dllkframe.c, dllk.c), the kernel    *)
(* thread that works off their events (nmtk.c, dllkevent.c, errhndk.c) and *)
(* the managing node, which may lose frames and fall silent.               *)
(*                                                                         *)
(* A cycle has four slots: SoC, PReq, SoA and an asynchronous frame.  The  *)
(* frame timeout is the cycle length plus a tolerance below it, so it      *)
(* expires in each cycle without a SoC, anywhere in it.  The callback then *)
(* starts the timer with a number of microseconds where the timer module   *)
(* takes nanoseconds: until the next SoC it expires again and again.       *)
(*                                                                         *)
(* MaxLosses bounds the frames lost while the managing node is alive, on   *)
(* the way or by an error of their handler, MaxCommands its NMT commands,  *)
(* and Lag the events that wait for the kernel thread when a frame arrives *)
(* or the short timer expires.                                             *)
(***************************************************************************)
EXTENDS DllkCn, Integers, Sequences

CONSTANTS Weight,      \* what one error adds to a threshold counter: 8 in the code
          Threshold,   \* objects 1C0B/3 and 1C0D/3; 0 switches the counting off
          MaxLosses, MaxCommands, Lag

ASSUME BoundsAssumption ==
  Weight \in Nat \ {0} /\ Threshold \in Nat /\ MaxLosses \in Nat /\ MaxCommands \in Nat /\ Lag \in Nat

VARIABLES nmtk,       \* nmtkInstance_g and dllkInstance_g.nmtState
          dllk,       \* dllkInstance_g
          timerOn,    \* timerHdlCycle is running
          due,        \* it expires before the next SoC slot
          short,      \* it runs since its own callback, for a thousandth of the cycle
          kInt,       \* queue of the kernel thread: NMT events and sets of DLL errors
          lossSoc, lossPreq,  \* threshold counters of the error objects
          socErrorSeen,       \* DLL_ERR_CN_LOSS_SOC in instance_l.dllErrorEvents
          slot, silent, losses, commands,  \* managing node
          cycle       \* history of this cycle

node == <<nmtk, dllk, timerOn, kInt, lossSoc, lossPreq, socErrorSeen>>
mn == <<slot, silent, losses, commands>>
vars == <<node, due, short, mn, cycle>>

Posted(e) == [nmt |-> e, errors |-> {}]
Reported(errs) == [nmt |-> "none", errors |-> errs]

Steady == nmtk.state \in {"CsReadyToOperate", "CsOperational"}

Init ==
  /\ nmtk = Clear("CsNotActive")
  /\ dllk = [state |-> "GsInit", reported |-> FALSE, timeout |-> FALSE]
  /\ timerOn = FALSE /\ due = FALSE /\ short = FALSE
  /\ kInt = <<>>
  /\ lossSoc = 0 /\ lossPreq = 0 /\ socErrorSeen = FALSE
  /\ slot = "DllCeSoc" /\ silent = FALSE /\ losses = MaxLosses /\ commands = MaxCommands
  /\ cycle = [received |-> {}, socReports |-> 0, preqReports |-> 0, synced |-> FALSE, steady |-> FALSE]

-----------------------------------------------------------------------------
(* Driver context *)

(* The errors of dllk_changeState and the NMT event, in the order of their posts *)
PostedBy(e) ==
  LET errs == ErrorsOf(dllk, nmtk.state, e)
      interested == /\ e \notin {"DllCeAsnd", "FrameTimeout"}
                    /\ e # "DllCePres" \/ nmtk.state \in {"CsNotActive", "CsPreOperational1"}
  IN  (IF errs = {} THEN <<>> ELSE <<Reported(errs)>>) \o (IF interested THEN <<Posted(e)>> ELSE <<>>)

DllEvent(e) ==
  /\ dllk' = ChangeState(dllk, nmtk.state, e)
  /\ kInt' = kInt \o PostedBy(e)
  /\ UNCHANGED <<nmtk, lossSoc, lossPreq, socErrorSeen>>

(* What the history keeps of an event; 2 reports stand for more *)
Note(c, e) ==
  LET errs == ErrorsOf(dllk, nmtk.state, e)
  IN [c EXCEPT !.received = @ \union {e},
               !.socReports = IF "LossSoc" \in errs /\ @ < 2 THEN @ + 1 ELSE @,
               !.preqReports = @ + (IF "LossPreq" \in errs THEN 1 ELSE 0),
               !.synced = @ \/ (Steady /\ dllk.state = "CsWaitSoc" /\ e = "DllCeSoc")]

NewCycle == [received |-> {}, socReports |-> 0, preqReports |-> 0,
             synced |-> cycle.synced, steady |-> cycle.synced /\ Steady]

(* dllk_processFrameReceived; processReceivedSoc programs the timer *)
FrameReceived(e, c) ==
  IF nmtk.state \in Cs
  THEN /\ DllEvent(e)
       /\ timerOn' = (timerOn \/ e = "DllCeSoc")
       /\ short' = (short /\ e # "DllCeSoc")
       /\ cycle' = Note(c, e)
  ELSE UNCHANGED <<node, short>> /\ cycle' = c

(* An error of processReceivedPreq, processReceivedSoc (before it programs the timer) and the *)
(* others: no dllk_changeState, no NMT event.  For the node it is as if the frame was lost.   *)
FrameFails(c) == UNCHANGED <<node, short>> /\ cycle' = c

(* dllk_cbCnTimer, which starts the timer again with cycleLen nanoseconds *)
FrameTimeout ==
  /\ due \/ (short /\ Len(kInt) <= Lag)
  /\ due' = FALSE /\ short' = TRUE
  /\ DllEvent("FrameTimeout")
  /\ cycle' = Note(cycle, "FrameTimeout")
  /\ UNCHANGED <<timerOn, mn>>

-----------------------------------------------------------------------------
(* The managing node *)

(* A frame that nobody need have sent costs nothing: PReq to a node that takes no part, and ASnd *)
Lose(e) ==
  IF silent \/ e = "DllCeAsnd" \/ (e = "DllCePreq" /\ (nmtk.state \notin CsCyclic \/ nmtk.state = "CsStopped"))
  THEN losses' = losses
  ELSE losses > 0 /\ losses' = losses - 1

Slot(e, after, start) ==
  /\ slot = e /\ slot' = after
  /\ Len(kInt) <= Lag
  /\ \/ /\ ~silent
        /\ FrameReceived(e, start)
        /\ due' = (due /\ e # "DllCeSoc")
        /\ UNCHANGED losses
     \/ /\ Lose(e)
        /\ due' = (due \/ (e = "DllCeSoc" /\ timerOn))
        /\ FrameFails(start)
  /\ UNCHANGED <<silent, commands>>

SocSlot == ~due /\ Slot("DllCeSoc", "DllCePreq", NewCycle)
PreqSlot == Slot("DllCePreq", "DllCeSoa", cycle)
SoaSlot == Slot("DllCeSoa", "DllCeAsnd", cycle)
AsndSlot == Slot("DllCeAsnd", "DllCeSoc", cycle)
Slots == SocSlot \/ PreqSlot \/ SoaSlot \/ AsndSlot

MnStops == ~silent /\ silent' = TRUE /\ UNCHANGED <<node, due, short, slot, losses, commands, cycle>>

-----------------------------------------------------------------------------
(* The kernel thread *)

(* handleCnLossSoc, handleCnLossPreq: the counter, and whether it calls NMT *)
Count(cnt) == IF Threshold > 0 THEN cnt + Weight ELSE cnt
Exceeded(cnt) == Threshold > 0 /\ Count(cnt) >= Threshold

(* A bug that tests the properties: an off-by-one *)
BadLessStuck(cnt) == IF cnt > 1 THEN cnt - 1 ELSE cnt

(* handleCorrectPreq, decrementCnCounters: the counter after a frame or a cycle without the error *)
Less(cnt) == IF cnt > 0 THEN cnt - 1 ELSE cnt

(* errhndk_process.  A history entry that cannot be posted ends the handling of a lost PReq, *)
(* that of a lost SoC ignores it.                                                            *)
HandleErrors(errs) ==
  \E logged \in BOOLEAN :
    /\ lossSoc' = IF "LossSoc" \in errs THEN Count(lossSoc) ELSE lossSoc
    /\ lossPreq' = IF "LossPreq" \in errs THEN Count(lossPreq)
                   ELSE IF "RecvdPreq" \in errs THEN Less(lossPreq) ELSE lossPreq
    /\ socErrorSeen' = (socErrorSeen \/ ("LossSoc" \in errs /\ Threshold > 0))
    /\ kInt' = Tail(kInt)
         \o (IF "LossSoc" \in errs /\ Exceeded(lossSoc) THEN <<Posted("NmtCycleError")>> ELSE <<>>)
         \o (IF "LossPreq" \in errs /\ Exceeded(lossPreq) /\ logged THEN <<Posted("NmtCycleError")>> ELSE <<>>)
    /\ UNCHANGED <<nmtk, dllk, timerOn, due, short, cycle>>

(* processNmtStateChange and dllk_cleanupLocalNode stop the timer *)
StopsTimer(new) == new # nmtk.state /\ new \notin {"CsNotActive", "CsBasicEthernet"} \union CsCyclic

(* nmtk_process with dllk_process for a new state, then processCycleFinish for a SoA *)
NmtEvent(e) ==
  LET new == NmtkStep(nmtk, e)
      finish == e = "DllCeSoa"
  IN  /\ nmtk' = new
      /\ timerOn' = (timerOn /\ ~StopsTimer(new.state))
      /\ due' = (due /\ ~StopsTimer(new.state)) /\ short' = (short /\ ~StopsTimer(new.state))
      /\ cycle' = IF new.state \in {"CsReadyToOperate", "CsOperational"} THEN cycle
                  ELSE [cycle EXCEPT !.synced = FALSE, !.steady = FALSE]
      /\ lossSoc' = IF finish /\ ~socErrorSeen THEN Less(lossSoc) ELSE lossSoc
      /\ socErrorSeen' = (socErrorSeen /\ ~finish)
      /\ UNCHANGED <<dllk, lossPreq>>

KernelThread ==
  /\ kInt # <<>>
  /\ IF Head(kInt).nmt = "none" THEN HandleErrors(Head(kInt).errors)
     ELSE NmtEvent(Head(kInt).nmt) /\ kInt' = Tail(kInt)
  /\ UNCHANGED mn

(* Events of the user part (module NmtCn) *)
UserEvents == {"EnterReadyToOperate", "EnterCsNotActive", "TimerBasicEthernet"}
UserEvent == \E e \in UserEvents : NmtEvent(e) /\ UNCHANGED <<kInt, mn>>

(* A command of the managing node, which has come from it by way of the user part *)
Command ==
  /\ ~silent /\ commands > 0 /\ commands' = commands - 1
  /\ \E e \in MnCommands \union {"ResetConfig"} : NmtEvent(e)
  /\ UNCHANGED <<kInt, slot, silent, losses>>

Next == Slots \/ FrameTimeout \/ MnStops \/ KernelThread \/ UserEvent \/ Command

Spec == Init /\ [][Next]_vars

(* Time passes, the timer expires and the kernel thread runs *)
FairSpec == Spec /\ WF_vars(Slots) /\ WF_vars(FrameTimeout) /\ WF_vars(KernelThread)

-----------------------------------------------------------------------------
(* Types *)
TypeOK ==
  /\ nmtk \in Nmtk
  /\ dllk \in Dllk
  /\ timerOn \in BOOLEAN /\ due \in BOOLEAN /\ short \in BOOLEAN
  /\ kInt \in Seq([nmt : NmtEvents \union {"none"}, errors : SUBSET DllErrors])
  /\ lossSoc \in Nat /\ lossPreq \in Nat /\ socErrorSeen \in BOOLEAN
  /\ slot \in DllFrames /\ silent \in BOOLEAN /\ losses \in 0..MaxLosses /\ commands \in 0..MaxCommands
  /\ due \/ short => timerOn

CycleDone == slot = "DllCeSoc" /\ ~due /\ cycle.steady

(* "The loss of SoC event shall only be reported once per cycle to the error handler"             *)
(* (dllkstatemachine.c:871): at most one report between two SoC slots.  The code breaks it.       *)
LossOncePerCycle == cycle.socReports <= 1

(* In a steady node a SoC that was lost, or whose handler failed, is reported before the next slot *)
(* of a SoC, one loss after another, and a SoC that was taken up is never reported as lost.        *)
SocLossReal == CycleDone => (cycle.socReports = 0 <=> "DllCeSoc" \in cycle.received)

(* In a steady node a PReq that was lost, or whose handler failed, is reported when the SoC and   *)
(* the SoA around it are taken up, and a PReq that was taken up is never reported as lost.        *)
PreqLossReal ==
  CycleDone =>
    /\ "DllCePreq" \in cycle.received => cycle.preqReports = 0
    /\ {"DllCeSoc", "DllCeSoa"} \subseteq cycle.received /\ "DllCePreq" \notin cycle.received
         => cycle.preqReports = 1

(* A node that takes part in the cycle notices that the managing node is gone, and leaves it. *)
SilenceDetected == silent /\ timerOn /\ Steady ~> ~Steady

(* The counter of lost SoCs comes back to zero when the managing node is there for good: frames   *)
(* are lost and commands given finitely often only.                                               *)
CountersRecover == <>[](~silent /\ nmtk.state \in Cs) => <>[](lossSoc = 0)
=============================================================================
