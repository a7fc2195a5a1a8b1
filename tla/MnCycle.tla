------------------------------ MODULE MnCycle ------------------------------
(***************************************************************************)
(* The POWERLINK cycle of a managing node: the timers and the Ethernet     *)
(* driver (edrvcyclic.c, dllk.c, dllkframe.c, dllkstatemachine.c) and the  *)
(* kernel thread that prepares the next cycle and handles the errors of    *)
(* the last one (dllkevent.c, errhndk.c, nmtk.c).                          *)
(*                                                                         *)
(* In PRE_OPERATIONAL_1 ("PreOp1") a SoA follows the other, each sent when *)
(* the last one is answered or its time is over; in the states after it    *)
(* ("Full") a cycle timer sends a SoC and a slot timer the SoA.  A request *)
(* is an ident or status request, which must be answered; any other        *)
(* invitation and none are "No": nobody waits for an answer.               *)
(*                                                                         *)
(* StartCycles is the SoAs without invitation at the start; Lag bounds the *)
(* events that wait for the kernel thread when a timer expires, MaxFaults  *)
(* the frames that the driver refuses or finds damaged and the cycles that *)
(* are started before the kernel thread has done all events.               *)
(***************************************************************************)
EXTENDS EdrvCyclic, Sequences

CONSTANTS Req,             \* ident and status requests
          StartCycles,     \* C_DLL_PREOP1_START_CYCLES
          Weight,          \* what one error adds to a threshold counter: 8 in the code
          Threshold,       \* objects 1C00/3 and 1C02/3
          Lag, MaxFaults

ASSUME MnCycleAssumption ==
  /\ "No" \notin Req /\ StartCycles \in Nat
  /\ Weight \in Nat \ {0} /\ Threshold \in Nat
  /\ Lag \in Nat /\ MaxFaults \in Nat

VARIABLES nmt, startDue,     \* the NMT state; StartReducedCycle is on its way from the user part
          dllState, reduced, \* timerHdlCycle of the reduced cycle runs
          cycleCount,
          edrv, offset,      \* curTxBufferOffsetCycle
          soa,               \* the invitation in the two SoA buffers
          ring, curReq, syncReq,  \* aLastReqServiceId, curLastSoaReq, syncLastSoaReq
          tx, wire, open,    \* the frame in transmission, the request not answered yet, and the cycle of its SoA
          kInt, build,       \* queue of the kernel thread, and how far it is with processSyncMn
          counter, seen,     \* threshold counters, dllErrorEvents
          faults,
          behind,            \* events waited for the kernel thread when this cycle was started
          halted             \* the last SoA of the reduced cycle was refused and no timer runs

dll == <<dllState, reduced, cycleCount, edrv, offset, soa, ring, curReq, syncReq>>
wires == <<tx, wire, open>>
errs == <<counter, seen>>
history == <<behind, halted>>
vars == <<nmt, startDue, dll, wires, kInt, build, errs, faults, history>>

Requests == Req \cup {"No"}
Kinds == {"Exceed", "Crc"}
Events == {"CycleFinish", "Sync", "NmtCycleError"} \cup Kinds
Idle == [step |-> "idle"]
Cap == Threshold + Weight     \* a counter above it acts like one at it

Init ==
  /\ nmt = "PreOp1" /\ startDue = TRUE
  /\ dllState = "NonCyclic" /\ reduced = FALSE /\ cycleCount = 0
  /\ edrv = InitEdrv /\ offset = 0
  /\ soa = [o \in Offset |-> "No"]
  /\ ring = [i \in 0 .. 2 |-> "No"] /\ curReq = 0 /\ syncReq = 0
  /\ tx = "none" /\ wire = "No" /\ open = "no"
  /\ kInt = <<>> /\ build = Idle
  /\ counter = [k \in Kinds |-> 0] /\ seen = {}
  /\ faults = MaxFaults
  /\ behind = FALSE /\ halted = FALSE

-----------------------------------------------------------------------------
(* The reduced cycle, in the context of the driver *)

(* edrv_sendTxBuffer finds no free descriptor *)
Refused == faults > 0 /\ faults' = faults - 1

(* dllk_mnSendSoa.  The entry and the buffer are new even if the driver refuses this SoA, because the *)
(* last one is still in transmission or no descriptor is free; the caller drops the error.  Only a    *)
(* SoA that is sent sets the timer again.                                                             *)
SendSoa(entries) ==
  \E r \in IF cycleCount >= StartCycles THEN Requests ELSE {"No"} :
    /\ ring' = [entries EXCEPT ![curReq] = r]
    /\ soa' = [soa EXCEPT ![0] = r]
    /\ cycleCount' = IF cycleCount < StartCycles THEN cycleCount + 1 ELSE cycleCount
    /\ \/ tx = "none" /\ tx' = "soa" /\ wire' = r /\ open' = "reduced" /\ halted' = FALSE /\ UNCHANGED faults
       \/ tx = "none" /\ Refused /\ halted' = ~reduced' /\ UNCHANGED wires
       \/ tx # "none" /\ UNCHANGED <<wires, halted, faults>>

(* processNmtMsPreop1: after a cycle error nothing more is sent until StartReducedCycle *)
ReducedCycle(entries) ==
  IF dllState = "NonCyclic"
  THEN SendSoa(entries) /\ UNCHANGED <<dllState, edrv>>
  ELSE /\ dllState' = "NonCyclic" /\ edrv' = StopCycle(edrv)
       /\ ring' = entries /\ wire' = "No"
       /\ UNCHANGED <<soa, cycleCount, tx, open, halted, faults>>

(* dllk_cbMnTimerCycle; in the states after PRE_OPERATIONAL_1 it starts the cycle, whether the kernel *)
(* thread is done with the events of the reduced cycle or not                                          *)
ReducedTimer ==
  /\ reduced /\ reduced' = FALSE /\ Len(kInt) <= Lag
  /\ IF nmt = "PreOp1"
     THEN ReducedCycle(ring) /\ UNCHANGED <<syncReq, kInt, behind>>
     ELSE /\ dllState' = "WaitSocTrig"
          /\ edrv' = StartCycle(edrv)
          /\ syncReq' = curReq
          /\ kInt' = Append(kInt, "Sync")
          /\ \/ kInt = <<>> /\ build = Idle /\ behind' = FALSE /\ UNCHANGED faults
             \/ ~(kInt = <<>> /\ build = Idle) /\ behind' = TRUE /\ faults > 0 /\ faults' = faults - 1
          /\ UNCHANGED <<ring, soa, cycleCount, wires, halted>>
  /\ UNCHANGED <<nmt, startDue, offset, curReq, build, errs>>

(* dllk_processTransmittedSoa; in the full cycle it does nothing *)
SoaTransmitted ==
  /\ tx = "soa" /\ tx' = "none"
  /\ IF dllState = "NonCyclic"
     THEN reduced' = TRUE /\ kInt' = Append(kInt, "CycleFinish")
     ELSE UNCHANGED <<reduced, kInt>>
  /\ UNCHANGED <<nmt, startDue, dllState, cycleCount, edrv, offset, soa, ring, curReq, syncReq,
                 wire, open, build, errs, faults, history>>

-----------------------------------------------------------------------------
(* The full cycle, in the context of the driver *)

Mark(r) == IF ring[curReq] = r THEN [ring EXCEPT ![curReq] = "No"] ELSE ring

(* processReceivedAsnd: the node invited answers before the next SoC or SoA.  In PRE_OPERATIONAL_1 *)
(* any answer ends the reduced cycle.                                                              *)
Answer ==
  /\ open # "no" /\ tx = "none" /\ Len(kInt) <= Lag
  /\ UNCHANGED reduced
  /\ IF nmt = "PreOp1"
     THEN ReducedCycle(Mark(wire))
     ELSE /\ wire # "No" /\ wire' = "No"
          /\ ring' = Mark(wire)
          /\ UNCHANGED <<dllState, cycleCount, edrv, soa, tx, open, halted, faults>>
  /\ UNCHANGED <<nmt, startDue, offset, curReq, syncReq, kInt, build, errs, behind>>

(* timerHdlCycleCb with dllk_cbCyclicError and, when the lists were switched to one with frames, *)
(* dllk_cbMnSyncHandler                                                                          *)
CycleTick ==
  /\ edrv.cycleTimer /\ tx = "none" /\ Len(kInt) <= Lag
  /\ \/ /\ CycleError(edrv) # "none"
        /\ edrv' = IF Finished(edrv) THEN Switched(edrv) ELSE edrv
        /\ kInt' = Append(kInt, "Exceed")
        /\ UNCHANGED <<offset, tx, faults>>
     \/ /\ CycleError(edrv) = "none"
        /\ offset' = Other(offset)
        /\ \/ /\ edrv' = SocSent(Switched(edrv)) /\ tx' = "soc"
              /\ kInt' = Append(kInt, "CycleFinish")
              /\ UNCHANGED faults
           \/ /\ Refused
              /\ edrv' = Switched(edrv)
              /\ kInt' = kInt \o <<"Exceed", "CycleFinish">>
              /\ UNCHANGED tx
  /\ UNCHANGED <<nmt, startDue, dllState, reduced, cycleCount, soa, ring, curReq, syncReq, wire, open,
                 build, errs, history>>

BadNextReq(i) == (i + 1) % 2                           \* DLLK_SOAREQ_COUNT too small
NextReq(i) == (i + 1) % 3

(* dllk_processTransmittedSoc: an invitation not answered is reported, the ring advances *)
SocTransmitted ==
  /\ tx = "soc" /\ tx' = "none"
  /\ IF nmt = "Full"
     THEN curReq' = NextReq(curReq) /\ UNCHANGED <<dllState, edrv>>
     ELSE curReq' = curReq /\ dllState' = "NonCyclic"
          /\ edrv' = IF dllState = "NonCyclic" THEN edrv ELSE StopCycle(edrv)
  /\ wire' = "No" /\ open' = "no"
  /\ UNCHANGED <<nmt, startDue, reduced, cycleCount, offset, soa, ring, syncReq,
                 kInt, build, errs, faults, history>>

(* timerHdlSlotCb *)
SoaSlot ==
  /\ edrv.slotTimer /\ tx = "none"
  /\ \/ /\ edrv' = SoaSent(edrv)
        /\ tx' = "soa" /\ wire' = soa[edrv.list[edrv.cur]] /\ open' = "cycle"
        /\ UNCHANGED <<kInt, faults>>
     \/ /\ Refused
        /\ edrv' = SoaFailed(edrv)
        /\ kInt' = Append(kInt, "Exceed")
        /\ UNCHANGED wires
  /\ UNCHANGED <<nmt, startDue, dllState, reduced, cycleCount, offset, soa, ring, curReq, syncReq,
                 build, errs, history>>

(* The driver finds a frame with a bad checksum *)
CrcError ==
  /\ faults > 0 /\ faults' = faults - 1
  /\ kInt' = Append(kInt, "Crc")
  /\ UNCHANGED <<nmt, startDue, dll, wires, build, errs, history>>

-----------------------------------------------------------------------------
(* The kernel thread *)

Least(a, b) == IF a < b THEN a ELSE b
Less(n) == IF n > 0 THEN n - 1 ELSE 0

(* decrementMnCounters: the counter of exceeded cycles goes into that of the CRC errors *)
Decremented ==
  LET crc == IF "Crc" \in seen THEN counter["Crc"] ELSE Less(counter["Crc"])
  IN [counter EXCEPT !["Crc"] = IF "Exceed" \notin seen /\ counter["Exceed"] > 0
                                THEN counter["Exceed"] - 1 ELSE crc]

(* handleMnCrc and handleMnCycTimeExceed *)
BadCount(k) == IF Threshold > 0 THEN [counter EXCEPT ![k] = 1] ELSE counter
Count(k) == IF Threshold > 0 THEN [counter EXCEPT ![k] = Least(Cap, @ + Weight)] ELSE counter

HandleError(k) ==
  /\ k \in Kinds
  /\ counter' = Count(k)
  /\ seen' = IF Threshold > 0 THEN seen \cup {k} ELSE seen
  /\ kInt' = IF Threshold > 0 /\ counter'[k] >= Threshold
             THEN Append(Tail(kInt), "NmtCycleError") ELSE Tail(kInt)
  /\ UNCHANGED <<nmt, startDue, dll, wires, build>>

(* processCycleFinish, up to processSync *)
CycleFinish ==
  /\ counter' = Decremented
  /\ seen' = {}
  /\ build' = IF dllState = "NonCyclic" THEN Idle ELSE [step |-> "prepare"]
  /\ kInt' = Tail(kInt)
  /\ UNCHANGED <<nmt, startDue, dll, wires>>

Sync ==
  /\ build' = [step |-> "prepare"]
  /\ kInt' = Tail(kInt)
  /\ UNCHANGED <<nmt, startDue, dll, wires, errs>>

(* doStateMsOperational and the others, with processNmtStateChange; NMT_MT6 *)
NmtCycleError ==
  /\ kInt' = Tail(kInt)
  /\ IF nmt = "Full"
     THEN /\ nmt' = "PreOp1" /\ startDue' = TRUE
          /\ reduced' = FALSE /\ edrv' = StopCycle(edrv)
     ELSE UNCHANGED <<nmt, startDue, reduced, edrv>>
  /\ UNCHANGED <<dllState, cycleCount, offset, soa, ring, curReq, syncReq, wires, build, errs>>

KernelEvent ==
  /\ build = Idle /\ kInt # <<>>
  /\ \/ Head(kInt) = "CycleFinish" /\ CycleFinish
     \/ Head(kInt) = "Sync" /\ Sync
     \/ Head(kInt) = "NmtCycleError" /\ NmtCycleError
     \/ HandleError(Head(kInt))
  /\ UNCHANGED <<faults, history>>

(* processSyncMn: the SoA of the next cycle gets an invitation *)
BadPrepareOffset == 0                                  \* one buffer for all cycles
PrepareOffset == Other(offset)

Prepare ==
  /\ build.step = "prepare"
  /\ \E r \in Requests :
       LET next == NextReq(syncReq)
       IN /\ syncReq' = next
          /\ ring' = [ring EXCEPT ![next] = r]
          /\ soa' = [soa EXCEPT ![PrepareOffset] = r]
  /\ build' = [step |-> "check", offset |-> PrepareOffset]
  /\ UNCHANGED <<nmt, startDue, dllState, reduced, cycleCount, edrv, offset, curReq, wires, kInt,
                 errs, faults, history>>

(* edrvcyclic_setNextTxBufferList: the driver may switch lists between the check and the copy *)
Check ==
  /\ build.step = "check"
  /\ build' = IF edrv.list[NextList(edrv)] = Empty
              THEN [step |-> "copy", offset |-> build.offset, list |-> NextList(edrv)] ELSE Idle
  /\ UNCHANGED <<nmt, startDue, dll, wires, kInt, errs, faults, history>>

Copy ==
  /\ build.step = "copy" /\ build' = Idle
  /\ edrv' = Filled(edrv, build.list, build.offset)
  /\ UNCHANGED <<nmt, startDue, dllState, reduced, cycleCount, offset, soa, ring, curReq, syncReq,
                 wires, kInt, errs, faults, history>>

(* processStartReducedCycle: the user part starts PRE_OPERATIONAL_1 (the ring keeps its entries). *)
(* The last frame has left by then, and its answer is here or lost.                               *)
StartReduced ==
  /\ nmt = "PreOp1" /\ startDue /\ build = Idle /\ tx = "none"
  /\ startDue' = FALSE
  /\ dllState' = "NonCyclic" /\ reduced' = TRUE
  /\ cycleCount' = 0 /\ curReq' = 0 /\ offset' = 0
  /\ wire' = "No" /\ open' = "no"
  /\ behind' = FALSE /\ halted' = FALSE
  /\ UNCHANGED <<nmt, edrv, soa, ring, syncReq, tx, kInt, build, errs, faults>>

(* NMT_MT3: the nodes are identified, so that they have been invited, and the time is over *)
EnterPreOp2 ==
  /\ nmt = "PreOp1" /\ ~startDue /\ build = Idle /\ cycleCount = StartCycles
  /\ nmt' = "Full"
  /\ UNCHANGED <<startDue, dll, wires, kInt, build, errs, faults, history>>

Driver == ReducedTimer \/ SoaTransmitted \/ CycleTick \/ SocTransmitted \/ SoaSlot
Kernel == KernelEvent \/ Prepare \/ Check \/ Copy

Next == Driver \/ Kernel \/ Answer \/ CrcError \/ StartReduced \/ EnterPreOp2

(* Timers expire, frames leave the driver, the kernel thread works off its queue and the user *)
(* part starts the reduced cycle; nobody has to answer, and nobody has to be identified.      *)
Fairness ==
  /\ WF_vars(ReducedTimer) /\ WF_vars(SoaTransmitted) /\ WF_vars(CycleTick)
  /\ WF_vars(SocTransmitted) /\ WF_vars(SoaSlot) /\ WF_vars(Kernel) /\ WF_vars(StartReduced)

Spec == Init /\ [][Next]_vars /\ Fairness

-----------------------------------------------------------------------------
TypeOK ==
  /\ nmt \in {"PreOp1", "Full"} /\ startDue \in BOOLEAN
  /\ dllState \in {"NonCyclic", "WaitSocTrig"} /\ reduced \in BOOLEAN
  /\ cycleCount \in 0 .. StartCycles
  /\ edrv \in Edrv /\ offset \in Offset
  /\ soa \in [Offset -> Requests]
  /\ ring \in [0 .. 2 -> Requests] /\ curReq \in 0 .. 2 /\ syncReq \in 0 .. 2
  /\ tx \in {"none", "soa", "soc"} /\ wire \in Requests /\ open \in {"no", "reduced", "cycle"}
  /\ kInt \in Seq(Events)
  /\ build \in {Idle, [step |-> "prepare"]}
            \cup [step : {"check"}, offset : Offset]
            \cup [step : {"copy"}, offset : Offset, list : Offset]
  /\ counter \in [Kinds -> 0 .. Cap] /\ seen \subseteq Kinds
  /\ faults \in 0 .. MaxFaults
  /\ behind \in BOOLEAN /\ halted \in BOOLEAN

(* An answer is taken for the request that the last SoA sent: until the next SoC has left, the entry *)
(* of the ring it is compared with is that of the SoA on the wire, although the kernel thread has    *)
(* prepared the SoA of the next cycle already, or even the one after it.  It holds in every cycle    *)
(* that was started when no event waited for the kernel thread; in a cycle started behind it does    *)
(* not, and nothing in the code brings the ring into step again before the next start.               *)
Attributed ==
  nmt = "Full" /\ open = "cycle" /\ ~behind => ring[curReq] = wire

(* In such a cycle the kernel thread never rewrites the SoA of a list that is being sent either *)
BufferStable ==
  [][edrv.slotTimer /\ edrv'.slotTimer /\ ~behind =>
       soa'[edrv.list[edrv.cur]] = soa[edrv.list[edrv.cur]]]_vars

(* Whichever frame is lost or refused and whichever list is not ready, the network gets one SoA after *)
(* the other, behind or not: a stuck list ends in a cycle error, and a cycle error in the reduced     *)
(* cycle.  Two things stop it: a threshold of 0, which switches the cycle error off, and a SoA of the *)
(* reduced cycle that finds no descriptor, after which nothing sets the timer again.                  *)
SoaGoesOn == Threshold > 0 => []<>(tx = "soa" \/ halted)

(* A cycle without an exceeded cycle time takes one off the counter of exceeded cycles *)
ExceedForgotten ==
  [][/\ kInt # <<>> /\ Head(kInt) = "CycleFinish" /\ kInt' = Tail(kInt)
     /\ "Exceed" \notin seen /\ counter["Exceed"] > 0
     => counter'["Exceed"] = counter["Exceed"] - 1]_vars
=============================================================================
