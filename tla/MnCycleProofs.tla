--------------------------- MODULE MnCycleProofs ---------------------------
(***************************************************************************)
(* Proofs about MnCycle: types, and that the slot timer never runs without *)
(* a SoA to send, for any requests, thresholds, lags and faults; and, in   *)
(* every cycle that was not started behind, that answers are attributed to *)
(* the right request and no SoA is rewritten while it may be sent.         *)
(***************************************************************************)
EXTENDS MnCycle, TLAPS

(* The timers of the full cycle and that of the reduced cycle exclude each other, and the slot timer *)
(* runs only while a list has its SoC sent and its SoA not.                                          *)
SlotHasSoa == edrv.slotTimer => edrv.entry = 1 /\ edrv.list[edrv.cur] # Empty
Timers ==
  /\ reduced => dllState = "NonCyclic"
  /\ nmt = "PreOp1" \/ dllState = "NonCyclic" => ~edrv.cycleTimer /\ ~edrv.slotTimer
  /\ SlotHasSoa

Inv == TypeOK /\ Timers

-----------------------------------------------------------------------------
(* The operations of the driver *)

LEMMA OtherType == ASSUME NEW i \in Offset PROVE Other(i) \in Offset /\ Other(i) # i
BY DEF Offset, Other

LEMMA EdrvType ==
  ASSUME NEW e \in Edrv
  PROVE  /\ e.list \in [Offset -> Offset \cup {Empty}] /\ e.cur \in Offset /\ e.entry \in 0 .. 2
         /\ e.cycleTimer \in BOOLEAN /\ e.slotTimer \in BOOLEAN
BY DEF Edrv

LEMMA StartStopType ==
  ASSUME NEW e \in Edrv
  PROVE  /\ StartCycle(e) \in Edrv /\ StartCycle(e).slotTimer = e.slotTimer
         /\ StopCycle(e) \in Edrv /\ ~StopCycle(e).slotTimer /\ ~StopCycle(e).cycleTimer
<1>1. [i \in Offset |-> Empty] \in [Offset -> Offset \cup {Empty}] /\ 0 \in Offset /\ 0 \in 0 .. 2
  BY DEF Offset
<1>2. StartCycle(e) \in Edrv
  BY <1>1 DEF Edrv, StartCycle
<1>3. StartCycle(e).slotTimer = e.slotTimer
  BY DEF Edrv, StartCycle
<1>4. StopCycle(e) \in Edrv /\ ~StopCycle(e).slotTimer /\ ~StopCycle(e).cycleTimer
  BY DEF Edrv, StopCycle
<1> QED BY <1>2, <1>3, <1>4

LEMMA SwitchedType ==
  ASSUME NEW e \in Edrv
  PROVE  /\ Switched(e) \in Edrv
         /\ Switched(e).slotTimer = e.slotTimer /\ Switched(e).cycleTimer = e.cycleTimer
         /\ Switched(e).list[Switched(e).cur] = e.list[Other(e.cur)]
<1>1. Other(e.cur) \in Offset /\ Other(e.cur) # e.cur /\ e.cur \in Offset /\ 0 \in 0 .. 2
  BY OtherType DEF Edrv
<1>2. [e.list EXCEPT ![e.cur] = Empty] \in [Offset -> Offset \cup {Empty}]
  BY <1>1 DEF Edrv
<1>3. Switched(e) \in Edrv
  BY <1>1, <1>2 DEF Edrv, Switched
<1>4. Switched(e).slotTimer = e.slotTimer /\ Switched(e).cycleTimer = e.cycleTimer
      /\ Switched(e).cur = Other(e.cur) /\ Switched(e).list = [e.list EXCEPT ![e.cur] = Empty]
  BY DEF Edrv, Switched
<1>5. [e.list EXCEPT ![e.cur] = Empty][Other(e.cur)] = e.list[Other(e.cur)]
  BY <1>1 DEF Edrv
<1> QED BY <1>3, <1>4, <1>5

LEMMA SentType ==
  ASSUME NEW e \in Edrv
  PROVE  /\ SocSent(e) \in Edrv /\ SoaSent(e) \in Edrv /\ SoaFailed(e) \in Edrv
         /\ SocSent(e).entry = 1 /\ SocSent(e).list[SocSent(e).cur] = e.list[e.cur]
         /\ SocSent(e).cycleTimer = e.cycleTimer
         /\ ~SoaSent(e).slotTimer /\ SoaSent(e).cycleTimer = e.cycleTimer
         /\ ~SoaFailed(e).slotTimer /\ SoaFailed(e).cycleTimer = e.cycleTimer
<1>0. 1 \in 0 .. 2 /\ 2 \in 0 .. 2
  OBVIOUS
<1>1. SocSent(e) \in Edrv
  BY <1>0 DEF Edrv, SocSent
<1>2. SocSent(e).entry = 1 /\ SocSent(e).list = e.list /\ SocSent(e).cur = e.cur
      /\ SocSent(e).cycleTimer = e.cycleTimer
  BY DEF Edrv, SocSent
<1>3. SoaSent(e) \in Edrv
  BY <1>0 DEF Edrv, SoaSent
<1>4. ~SoaSent(e).slotTimer /\ SoaSent(e).cycleTimer = e.cycleTimer
  BY DEF Edrv, SoaSent
<1>5. SoaFailed(e) \in Edrv /\ ~SoaFailed(e).slotTimer /\ SoaFailed(e).cycleTimer = e.cycleTimer
  BY DEF Edrv, SoaFailed
<1> QED BY <1>1, <1>2, <1>3, <1>4, <1>5

LEMMA FilledType ==
  ASSUME NEW e \in Edrv, NEW i \in Offset, NEW o \in Offset
  PROVE  /\ Filled(e, i, o) \in Edrv
         /\ Filled(e, i, o).slotTimer = e.slotTimer /\ Filled(e, i, o).cycleTimer = e.cycleTimer
         /\ Filled(e, i, o).entry = e.entry /\ Filled(e, i, o).cur = e.cur
         /\ e.list[e.cur] # Empty => Filled(e, i, o).list[e.cur] # Empty
BY DEF Edrv, Filled, Offset, Empty

(* A list that the slot timer still works on is not finished. *)
LEMMA BusyNotFinished ==
  ASSUME edrv.slotTimer, SlotHasSoa
  PROVE  ~Finished(edrv)
BY DEF SlotHasSoa, Finished
-----------------------------------------------------------------------------
(* The queue of the kernel thread *)

LEMMA QueueType ==
  ASSUME NEW q \in Seq(Events)
  PROVE  /\ \A e \in Events : Append(q, e) \in Seq(Events)
         /\ q # <<>> => Tail(q) \in Seq(Events) /\ Head(q) \in Events
OBVIOUS

LEMMA InitInv == Init => Inv
<1> SUFFICES ASSUME Init PROVE Inv
  OBVIOUS
<1>1. nmt \in {"PreOp1", "Full"} /\ startDue \in BOOLEAN
  BY DEF Init
<1>2. edrv \in Edrv
  BY DEF Init, InitEdrv, Edrv, Offset, Empty
<1>3. dllState \in {"NonCyclic", "WaitSocTrig"} /\ reduced \in BOOLEAN
  BY DEF Init
<1>4. cycleCount \in 0 .. StartCycles /\ faults \in 0 .. MaxFaults /\ offset \in Offset /\ seen \subseteq Kinds
  BY MnCycleAssumption DEF Init, Offset
<1>5. soa \in [Offset -> Requests] /\ ring \in [0 .. 2 -> Requests] /\ wire \in Requests
      /\ curReq \in 0 .. 2 /\ syncReq \in 0 .. 2
  BY DEF Init, Requests
<1>6. tx \in {"none", "soa", "soc"} /\ open \in {"no", "reduced", "cycle"}
  BY DEF Init
<1>7. kInt \in Seq(Events) /\ build \in {Idle}
  BY DEF Init
<1>8. build \in {Idle, [step |-> "prepare"]}
            \cup [step : {"check"}, offset : Offset]
            \cup [step : {"copy"}, offset : Offset, list : Offset]
  BY <1>7
<1>9. counter \in [Kinds -> 0 .. Cap]
  BY MnCycleAssumption DEF Init, Cap
<1>10. behind \in BOOLEAN /\ halted \in BOOLEAN
  BY DEF Init
<1>11. TypeOK
  BY <1>1, <1>2, <1>3, <1>4, <1>5, <1>6, <1>7, <1>8, <1>9, <1>10 DEF TypeOK
<1>12. Timers
  BY DEF Init, InitEdrv, Timers, SlotHasSoa
<1> QED BY <1>11, <1>12 DEF Inv

(* The reduced cycle: a SoA, or none after a cycle error. *)
LEMMA ReducedInv ==
  ASSUME Inv, NEW entries \in [0 .. 2 -> Requests], ReducedCycle(entries)
  PROVE  /\ dllState' \in {"NonCyclic", "WaitSocTrig"} /\ dllState' = "NonCyclic"
         /\ cycleCount' \in 0 .. StartCycles
         /\ edrv' \in Edrv /\ soa' \in [Offset -> Requests] /\ ring' \in [0 .. 2 -> Requests]
         /\ tx' \in {"none", "soa", "soc"} /\ wire' \in Requests /\ open' \in {"no", "reduced", "cycle"}
         /\ ~edrv'.cycleTimer /\ ~edrv'.slotTimer
         /\ faults' \in 0 .. MaxFaults /\ halted' \in BOOLEAN
<1> USE DEF Inv, Timers
<1>0. edrv \in Edrv
  BY DEF TypeOK
<1>1. CASE dllState = "NonCyclic"
  <2>1. PICK r \in Requests :
          /\ ring' = [entries EXCEPT ![curReq] = r]
          /\ soa' = [soa EXCEPT ![0] = r]
          /\ cycleCount' = IF cycleCount < StartCycles THEN cycleCount + 1 ELSE cycleCount
          /\ (tx' = "soa" /\ wire' = r /\ open' = "reduced") \/ UNCHANGED wires
          /\ halted' = FALSE \/ halted' = ~reduced' \/ halted' = halted
          /\ faults' = faults \/ Refused
    BY <1>1 DEF ReducedCycle, SendSoa, Requests
  <2>2. cycleCount' \in 0 .. StartCycles
    BY <2>1, MnCycleAssumption DEF TypeOK
  <2>3. faults' \in 0 .. MaxFaults
    BY <2>1, MnCycleAssumption DEF TypeOK, Refused
  <2>4. halted' \in BOOLEAN
    BY <2>1 DEF TypeOK
  <2> QED BY <1>1, <2>1, <2>2, <2>3, <2>4 DEF ReducedCycle, TypeOK, wires, Offset
<1>2. CASE dllState # "NonCyclic"
  BY <1>0, <1>2, StartStopType DEF ReducedCycle, TypeOK, Requests
<1> QED BY <1>1, <1>2

-----------------------------------------------------------------------------
(* The steps in the context of the driver *)

NmtType == nmt \in {"PreOp1", "Full"} /\ startDue \in BOOLEAN
DllType ==
  /\ dllState \in {"NonCyclic", "WaitSocTrig"} /\ reduced \in BOOLEAN
  /\ cycleCount \in 0 .. StartCycles
  /\ edrv \in Edrv /\ offset \in Offset
  /\ soa \in [Offset -> Requests]
  /\ ring \in [0 .. 2 -> Requests] /\ curReq \in 0 .. 2 /\ syncReq \in 0 .. 2
WireType == tx \in {"none", "soa", "soc"} /\ wire \in Requests /\ open \in {"no", "reduced", "cycle"}
QueueOK == kInt \in Seq(Events)
BuildType ==
  build \in {Idle, [step |-> "prepare"]}
              \cup [step : {"check"}, offset : Offset]
              \cup [step : {"copy"}, offset : Offset, list : Offset]
ErrType ==
  /\ counter \in [Kinds -> 0 .. Cap] /\ seen \subseteq Kinds /\ faults \in 0 .. MaxFaults
  /\ behind \in BOOLEAN /\ halted \in BOOLEAN

LEMMA TypeParts == TypeOK <=> NmtType /\ DllType /\ WireType /\ QueueOK /\ BuildType /\ ErrType
BY DEF TypeOK, NmtType, DllType, WireType, QueueOK, BuildType, ErrType

LEMMA NextParts ==
  NmtType' /\ DllType' /\ WireType' /\ QueueOK' /\ BuildType' /\ ErrType' /\ Timers' => Inv'
BY DEF TypeOK, NmtType, DllType, WireType, QueueOK, BuildType, ErrType, Inv

LEMMA RefusedType == ASSUME ErrType, Refused PROVE faults' \in 0 .. MaxFaults
BY MnCycleAssumption DEF Refused, ErrType

LEMMA ReducedTimerInv == ASSUME Inv, ReducedTimer PROVE Inv'
<1>0. NmtType /\ DllType /\ WireType /\ QueueOK /\ BuildType /\ ErrType /\ Timers
  BY TypeParts DEF Inv
<1>1. NmtType' /\ BuildType' /\ UNCHANGED errs
  BY <1>0 DEF ReducedTimer, NmtType, BuildType
<1>2. CASE nmt = "PreOp1"
  <2>1. ReducedCycle(ring) /\ UNCHANGED <<syncReq, kInt, offset, curReq, nmt, behind>> /\ reduced' = FALSE
    BY <1>2 DEF ReducedTimer
  <2>2. ring \in [0 .. 2 -> Requests]
    BY <1>0 DEF DllType
  <2>3. DllType' /\ WireType' /\ QueueOK' /\ Timers'
    BY <1>0, <2>1, <2>2, ReducedInv DEF DllType, WireType, QueueOK, Timers, SlotHasSoa
  <2>4. ErrType'
    BY <1>0, <1>1, <2>1, <2>2, ReducedInv DEF ErrType, errs
  <2> QED BY <1>1, <2>3, <2>4, NextParts
<1>3. CASE nmt # "PreOp1"
  <2>1. /\ dllState' = "WaitSocTrig" /\ edrv' = StartCycle(edrv) /\ syncReq' = curReq
        /\ kInt' = Append(kInt, "Sync") /\ reduced' = FALSE /\ reduced
        /\ UNCHANGED <<ring, soa, cycleCount, tx, wire, open, offset, curReq, nmt, halted>>
        /\ (behind' = FALSE /\ faults' = faults) \/ (behind' = TRUE /\ Refused)
    BY <1>3 DEF ReducedTimer, wires, Refused
  <2>2. QueueOK'
    BY <1>0, <2>1, QueueType DEF QueueOK, Events
  <2>3. edrv' \in Edrv /\ edrv'.slotTimer = edrv.slotTimer
    BY <1>0, <2>1, StartStopType DEF DllType
  <2>4. DllType' /\ WireType'
    BY <1>0, <2>1, <2>3 DEF DllType, WireType
  <2>5. Timers'
    BY <1>0, <1>3, <2>1, <2>3 DEF Timers, SlotHasSoa
  <2>6. ErrType'
    BY <1>0, <1>1, <2>1, RefusedType DEF ErrType, errs
  <2> QED BY <1>1, <2>2, <2>4, <2>5, <2>6, NextParts
<1> QED BY <1>2, <1>3

LEMMA SoaTransmittedInv == ASSUME Inv, SoaTransmitted PROVE Inv'
<1>0. NmtType /\ DllType /\ WireType /\ QueueOK /\ BuildType /\ ErrType /\ Timers
  BY TypeParts DEF Inv
<1>1. NmtType' /\ BuildType' /\ ErrType' /\ WireType'
  BY <1>0 DEF SoaTransmitted, NmtType, BuildType, ErrType, WireType, errs, history
<1>2. QueueOK'
  BY <1>0, QueueType DEF SoaTransmitted, QueueOK, Events
<1>3. DllType' /\ Timers'
  BY <1>0 DEF SoaTransmitted, DllType, Timers, SlotHasSoa
<1> QED BY <1>1, <1>2, <1>3, NextParts

LEMMA CycleTickInv == ASSUME Inv, CycleTick PROVE Inv'
<1>0. NmtType /\ DllType /\ WireType /\ QueueOK /\ BuildType /\ ErrType /\ Timers
  BY TypeParts DEF Inv
<1>1. NmtType' /\ BuildType'
  BY <1>0 DEF CycleTick, NmtType, BuildType
<1>2. edrv \in Edrv /\ edrv.cycleTimer /\ nmt' = nmt /\ dllState' = dllState /\ reduced' = reduced
      /\ nmt # "PreOp1" /\ dllState # "NonCyclic"
  BY <1>0 DEF CycleTick, DllType, Timers
<1>3. UNCHANGED <<cycleCount, soa, ring, curReq, syncReq, wire, open, counter, seen, behind, halted>>
  BY DEF CycleTick, errs, history
<1>4. Finished(edrv) => ~edrv.slotTimer
  BY <1>0, BusyNotFinished DEF Timers
<1>5. Append(kInt, "Exceed") \in Seq(Events) /\ Append(kInt, "CycleFinish") \in Seq(Events)
      /\ kInt \o <<"Exceed", "CycleFinish">> \in Seq(Events)
  <2>1. <<"Exceed", "CycleFinish">> \in Seq(Events) /\ "Exceed" \in Events /\ "CycleFinish" \in Events
    BY DEF Events, Kinds
  <2> QED BY <1>0, <2>1 DEF QueueOK
<1>6. CASE CycleError(edrv) # "none" /\ edrv' = (IF Finished(edrv) THEN Switched(edrv) ELSE edrv)
           /\ kInt' = Append(kInt, "Exceed") /\ UNCHANGED <<offset, tx, faults>>
  <2>1. edrv' \in Edrv
    BY <1>2, <1>6, SwitchedType
  <2>2. CASE Finished(edrv)
    <3>1. ~edrv'.slotTimer
      BY <1>2, <1>4, <1>6, <2>2, SwitchedType
    <3>2. Timers'
      BY <1>0, <1>2, <3>1 DEF Timers, SlotHasSoa
    <3>9. DllType' /\ WireType' /\ QueueOK' /\ ErrType'
      BY <1>0, <1>1, <1>2, <1>3, <1>5, <1>6, <2>1, <3>2 DEF DllType, WireType, QueueOK, ErrType
    <3> QED BY <1>1, <3>9, <3>2, NextParts
  <2>3. CASE ~Finished(edrv)
    <3>1. Timers'
      BY <1>0, <1>2, <1>6, <2>3 DEF Timers, SlotHasSoa
    <3>9. DllType' /\ WireType' /\ QueueOK' /\ ErrType'
      BY <1>0, <1>1, <1>2, <1>3, <1>5, <1>6, <2>1, <3>1 DEF DllType, WireType, QueueOK, ErrType
    <3> QED BY <1>1, <3>9, <3>1, NextParts
  <2> QED BY <2>2, <2>3
<1>7. CASE CycleError(edrv) = "none" /\ offset' = Other(offset)
           /\ edrv' = SocSent(Switched(edrv)) /\ tx' = "soc" /\ kInt' = Append(kInt, "CycleFinish")
           /\ UNCHANGED faults
  <2>1. edrv.list[Other(edrv.cur)] # Empty
    BY <1>7 DEF CycleError
  <2>2. Switched(edrv) \in Edrv /\ Switched(edrv).list[Switched(edrv).cur] # Empty
    BY <1>2, <2>1, SwitchedType
  <2>3. edrv' \in Edrv /\ edrv'.entry = 1 /\ edrv'.list[edrv'.cur] # Empty
    BY <1>7, <2>2, SentType
  <2>4. offset' \in Offset
    BY <1>0, <1>7, OtherType DEF DllType
  <2>5. Timers'
    BY <1>0, <1>2, <2>3 DEF Timers, SlotHasSoa
  <2>9. DllType' /\ WireType' /\ QueueOK' /\ ErrType'
    BY <1>0, <1>1, <1>2, <1>3, <1>5, <1>7, <2>3, <2>4, <2>5 DEF DllType, WireType, QueueOK, ErrType
  <2> QED BY <1>1, <2>9, <2>5, NextParts
<1>8. CASE CycleError(edrv) = "none" /\ offset' = Other(offset)
           /\ Refused /\ edrv' = Switched(edrv) /\ kInt' = kInt \o <<"Exceed", "CycleFinish">> /\ UNCHANGED tx
  <2>1. Finished(edrv)
    BY <1>8 DEF CycleError
  <2>2. edrv' \in Edrv /\ ~edrv'.slotTimer
    BY <1>2, <1>4, <1>8, <2>1, SwitchedType
  <2>3. offset' \in Offset
    BY <1>0, <1>8, OtherType DEF DllType
  <2>4. Timers'
    BY <1>0, <1>2, <2>2 DEF Timers, SlotHasSoa
  <2>5. faults' \in 0 .. MaxFaults
    BY <1>0, <1>8, RefusedType
  <2>9. DllType' /\ WireType' /\ QueueOK' /\ ErrType'
    BY <1>0, <1>1, <1>2, <1>3, <1>5, <1>8, <2>2, <2>3, <2>4, <2>5 DEF DllType, WireType, QueueOK, ErrType
  <2> QED BY <1>1, <2>9, <2>4, NextParts
<1> QED BY <1>6, <1>7, <1>8 DEF CycleTick

LEMMA AnswerInv == ASSUME Inv, Answer PROVE Inv'
<1>0. NmtType /\ DllType /\ WireType /\ QueueOK /\ BuildType /\ ErrType /\ Timers
  BY TypeParts DEF Inv
<1>1. NmtType' /\ BuildType' /\ QueueOK' /\ UNCHANGED <<counter, seen, behind>>
  BY <1>0 DEF Answer, NmtType, BuildType, QueueOK, errs
<1>2. Mark(wire) \in [0 .. 2 -> Requests]
  BY <1>0 DEF Mark, DllType, Requests
<1>3. CASE nmt = "PreOp1"
  <2>1. ReducedCycle(Mark(wire)) /\ UNCHANGED <<reduced, offset, curReq, syncReq, nmt>>
    BY <1>3 DEF Answer
  <2>2. DllType' /\ WireType' /\ Timers'
    BY <1>0, <1>2, <2>1, ReducedInv DEF DllType, WireType, Timers, SlotHasSoa
  <2>3. ErrType'
    BY <1>0, <1>1, <1>2, <2>1, ReducedInv DEF ErrType
  <2> QED BY <1>1, <2>2, <2>3, NextParts
<1>4. CASE nmt # "PreOp1"
  <2>1. DllType' /\ WireType' /\ Timers'
    BY <1>0, <1>2, <1>4 DEF Answer, DllType, WireType, Timers, SlotHasSoa, Requests
  <2>2. ErrType'
    BY <1>0, <1>1, <1>4 DEF Answer, ErrType
  <2> QED BY <1>1, <2>1, <2>2, NextParts
<1> QED BY <1>3, <1>4

LEMMA SocTransmittedInv == ASSUME Inv, SocTransmitted PROVE Inv'
<1>0. NmtType /\ DllType /\ WireType /\ QueueOK /\ BuildType /\ ErrType /\ Timers
  BY TypeParts DEF Inv
<1>1. NmtType' /\ BuildType' /\ ErrType' /\ QueueOK' /\ WireType'
  BY <1>0 DEF SocTransmitted, NmtType, BuildType, ErrType, QueueOK, WireType, errs, history, Requests
<1>2. edrv \in Edrv /\ NextReq(curReq) \in 0 .. 2
  BY <1>0 DEF DllType, NextReq
<1>3. edrv' \in Edrv
  BY <1>2, StartStopType DEF SocTransmitted
<1>4. DllType'
  BY <1>0, <1>2, <1>3 DEF SocTransmitted, DllType
<1>5. Timers'
  BY <1>0, <1>2, StartStopType DEF SocTransmitted, Timers, SlotHasSoa
<1> QED BY <1>1, <1>4, <1>5, NextParts

LEMMA SoaSlotInv == ASSUME Inv, SoaSlot PROVE Inv'
<1>0. NmtType /\ DllType /\ WireType /\ QueueOK /\ BuildType /\ ErrType /\ Timers
  BY TypeParts DEF Inv
<1>1. NmtType' /\ BuildType'
  BY <1>0 DEF SoaSlot, NmtType, BuildType
<1>2. edrv.list[edrv.cur] \in Offset
  BY <1>0, EdrvType DEF SoaSlot, DllType, Timers, SlotHasSoa
<1>3. WireType'
  BY <1>0, <1>2 DEF SoaSlot, WireType, DllType, wires
<1>4. edrv' \in Edrv /\ ~edrv'.slotTimer /\ edrv'.cycleTimer = edrv.cycleTimer
  BY <1>0, SentType DEF SoaSlot, DllType
<1>5. DllType'
  BY <1>0, <1>4 DEF SoaSlot, DllType
<1>6. Timers'
  BY <1>0, <1>4 DEF SoaSlot, Timers, SlotHasSoa
<1>7. "Exceed" \in Events
  BY DEF Events, Kinds
<1>8. QueueOK'
  BY <1>0, <1>7, QueueType DEF SoaSlot, QueueOK
<1>9. ErrType'
  BY <1>0, RefusedType DEF SoaSlot, ErrType, errs, history
<1> QED BY <1>1, <1>3, <1>5, <1>6, <1>8, <1>9, NextParts

LEMMA CrcErrorInv == ASSUME Inv, CrcError PROVE Inv'
<1>0. NmtType /\ DllType /\ WireType /\ QueueOK /\ BuildType /\ ErrType /\ Timers
  BY TypeParts DEF Inv
<1>1. NmtType' /\ BuildType' /\ DllType' /\ WireType' /\ Timers'
  BY <1>0 DEF CrcError, NmtType, BuildType, DllType, WireType, Timers, SlotHasSoa, dll, wires
<1>2. "Crc" \in Events
  BY DEF Events, Kinds
<1>3. QueueOK'
  BY <1>0, <1>2, QueueType DEF CrcError, QueueOK
<1>4. ErrType'
  BY <1>0, MnCycleAssumption DEF CrcError, ErrType, errs, history
<1> QED BY <1>1, <1>3, <1>4, NextParts

-----------------------------------------------------------------------------
(* The steps of the kernel thread *)

LEMMA CountType ==
  ASSUME ErrType
  PROVE  /\ \A k \in Kinds : Count(k) \in [Kinds -> 0 .. Cap]
         /\ Decremented \in [Kinds -> 0 .. Cap]
<1>1. Cap \in Nat /\ Weight \in Nat
  BY MnCycleAssumption DEF Cap
<1>2. \A k \in Kinds : counter[k] \in 0 .. Cap
  BY DEF ErrType
<1>3. \A k \in Kinds : Least(Cap, counter[k] + Weight) \in 0 .. Cap
  BY <1>1, <1>2 DEF Least
<1>4. \A k \in Kinds : Count(k) \in [Kinds -> 0 .. Cap]
  BY <1>3 DEF Count, ErrType
<1>5. "Exceed" \in Kinds /\ "Crc" \in Kinds
  BY DEF Kinds
<1>6. Less(counter["Crc"]) \in 0 .. Cap /\ counter["Crc"] \in 0 .. Cap
      /\ (counter["Exceed"] > 0 => counter["Exceed"] - 1 \in 0 .. Cap)
  BY <1>1, <1>2, <1>5 DEF Less
<1>7. Decremented \in [Kinds -> 0 .. Cap]
  BY <1>6 DEF Decremented, ErrType
<1> QED BY <1>4, <1>7

LEMMA KernelEventInv == ASSUME Inv, KernelEvent PROVE Inv'
<1>0. NmtType /\ DllType /\ WireType /\ QueueOK /\ BuildType /\ ErrType /\ Timers
  BY TypeParts DEF Inv
<1>1. /\ UNCHANGED faults /\ faults' \in 0 .. MaxFaults /\ behind' \in BOOLEAN /\ halted' \in BOOLEAN
      /\ kInt # <<>> /\ Tail(kInt) \in Seq(Events)
  BY <1>0, QueueType DEF KernelEvent, ErrType, QueueOK, history
<1>2. CASE CycleFinish
  <2>1. NmtType' /\ DllType' /\ WireType' /\ Timers'
    BY <1>0, <1>2 DEF CycleFinish, NmtType, DllType, WireType, Timers, SlotHasSoa, dll, wires
  <2>2. QueueOK' /\ BuildType'
    BY <1>1, <1>2 DEF CycleFinish, QueueOK, BuildType
  <2>3. ErrType'
    BY <1>0, <1>1, <1>2, CountType DEF CycleFinish, ErrType
  <2> QED BY <2>1, <2>2, <2>3, NextParts
<1>3. CASE Sync
  <2>1. NmtType' /\ DllType' /\ WireType' /\ Timers'
    BY <1>0, <1>3 DEF Sync, NmtType, DllType, WireType, Timers, SlotHasSoa, dll, wires
  <2>2. QueueOK' /\ BuildType' /\ ErrType'
    BY <1>0, <1>1, <1>3 DEF Sync, QueueOK, BuildType, ErrType, errs, history
  <2> QED BY <2>1, <2>2, NextParts
<1>4. CASE NmtCycleError
  <2>1. NmtType' /\ WireType' /\ QueueOK' /\ BuildType' /\ ErrType'
    BY <1>0, <1>1, <1>4 DEF NmtCycleError, NmtType, WireType, QueueOK, BuildType, ErrType, wires, errs, history
  <2>2. DllType'
    BY <1>0, <1>4, StartStopType DEF NmtCycleError, DllType
  <2>3. Timers'
    BY <1>0, <1>4, StartStopType DEF NmtCycleError, DllType, NmtType, Timers, SlotHasSoa
  <2> QED BY <2>1, <2>2, <2>3, NextParts
<1>5. ASSUME NEW k \in Kinds, HandleError(k) PROVE Inv'
  <2>1. NmtType' /\ DllType' /\ WireType' /\ Timers' /\ BuildType'
    BY <1>0, <1>5 DEF HandleError, NmtType, DllType, WireType, Timers, SlotHasSoa, BuildType, dll, wires
  <2>2. "NmtCycleError" \in Events
    BY DEF Events
  <2>3. QueueOK'
    BY <1>1, <1>5, <2>2, QueueType DEF HandleError, QueueOK
  <2>4. ErrType'
    BY <1>0, <1>1, <1>5, CountType DEF HandleError, ErrType
  <2> QED BY <2>1, <2>3, <2>4, NextParts
<1> QED BY <1>2, <1>3, <1>4, <1>5 DEF KernelEvent, HandleError

LEMMA PrepareInv == ASSUME Inv, Prepare PROVE Inv'
<1>0. NmtType /\ DllType /\ WireType /\ QueueOK /\ BuildType /\ ErrType /\ Timers
  BY TypeParts DEF Inv
<1>1. NmtType' /\ WireType' /\ QueueOK' /\ ErrType'
  BY <1>0 DEF Prepare, NmtType, WireType, QueueOK, ErrType, wires, errs, history
<1>2. PrepareOffset \in Offset
  BY <1>0, OtherType DEF PrepareOffset, DllType
<1>3. PICK r \in Requests :
        /\ syncReq' = NextReq(syncReq)
        /\ ring' = [ring EXCEPT ![NextReq(syncReq)] = r]
        /\ soa' = [soa EXCEPT ![PrepareOffset] = r]
  BY DEF Prepare
<1>4. NextReq(syncReq) \in 0 .. 2
  BY <1>0 DEF NextReq, DllType
<1>5. UNCHANGED <<dllState, reduced, cycleCount, edrv, offset, curReq, nmt>>
  BY DEF Prepare
<1>6. DllType' /\ Timers'
  BY <1>0, <1>2, <1>3, <1>4, <1>5 DEF DllType, Timers, SlotHasSoa
<1>7. build' \in [step : {"check"}, offset : Offset]
  BY <1>2 DEF Prepare
<1>8. BuildType'
  BY <1>7 DEF BuildType
<1> QED BY <1>1, <1>6, <1>8, NextParts

LEMMA CheckInv == ASSUME Inv, Check PROVE Inv'
<1>0. NmtType /\ DllType /\ WireType /\ QueueOK /\ BuildType /\ ErrType /\ Timers
  BY TypeParts DEF Inv
<1>1. NmtType' /\ DllType' /\ WireType' /\ QueueOK' /\ ErrType' /\ Timers'
  BY <1>0 DEF Check, NmtType, DllType, WireType, QueueOK, ErrType, Timers, SlotHasSoa, dll, wires, errs, history
<1>2. build.offset \in Offset
  BY <1>0 DEF Check, BuildType, Idle
<1>3. NextList(edrv) \in Offset
  BY <1>0, EdrvType, OtherType DEF NextList, DllType
<1>4. build' = Idle \/ build' \in [step : {"copy"}, offset : Offset, list : Offset]
  BY <1>2, <1>3 DEF Check
<1>5. BuildType'
  BY <1>4 DEF BuildType
<1> QED BY <1>1, <1>5, NextParts

LEMMA CopyInv == ASSUME Inv, Copy PROVE Inv'
<1>0. NmtType /\ DllType /\ WireType /\ QueueOK /\ BuildType /\ ErrType /\ Timers
  BY TypeParts DEF Inv
<1>1. NmtType' /\ WireType' /\ QueueOK' /\ ErrType' /\ BuildType'
  BY <1>0 DEF Copy, NmtType, WireType, QueueOK, ErrType, BuildType, wires, errs, history
<1>2. build.offset \in Offset /\ build.list \in Offset
  BY <1>0 DEF Copy, BuildType, Idle
<1>3. edrv \in Edrv /\ edrv' = Filled(edrv, build.list, build.offset)
  BY <1>0 DEF Copy, DllType
<1>4. edrv' \in Edrv
  BY <1>2, <1>3, FilledType
<1>5. DllType'
  BY <1>0, <1>4 DEF Copy, DllType
<1>6. /\ edrv'.slotTimer = edrv.slotTimer /\ edrv'.cycleTimer = edrv.cycleTimer
      /\ edrv'.entry = edrv.entry /\ edrv'.cur = edrv.cur
      /\ edrv.list[edrv.cur] # Empty => edrv'.list[edrv.cur] # Empty
  BY <1>2, <1>3, FilledType
<1>7. Timers'
  BY <1>0, <1>6 DEF Copy, Timers, SlotHasSoa
<1> QED BY <1>1, <1>5, <1>7, NextParts

LEMMA ModeInv == ASSUME Inv, StartReduced \/ EnterPreOp2 PROVE Inv'
<1>0. NmtType /\ DllType /\ WireType /\ QueueOK /\ BuildType /\ ErrType /\ Timers
  BY TypeParts DEF Inv
<1>1. CASE StartReduced
  <2>1. NmtType' /\ WireType' /\ QueueOK' /\ ErrType' /\ BuildType'
    BY <1>0, <1>1 DEF StartReduced, NmtType, WireType, QueueOK, ErrType, BuildType, errs, history, Requests
  <2>2. DllType'
    BY <1>0, <1>1, MnCycleAssumption DEF StartReduced, DllType, Offset
  <2>3. Timers'
    BY <1>0, <1>1 DEF StartReduced, Timers, SlotHasSoa
  <2> QED BY <2>1, <2>2, <2>3, NextParts
<1>2. CASE EnterPreOp2
  <2>1. NmtType' /\ WireType' /\ QueueOK' /\ ErrType' /\ BuildType' /\ DllType'
    BY <1>0, <1>2 DEF EnterPreOp2, NmtType, DllType, WireType, QueueOK, ErrType, BuildType, dll, wires, errs, history
  <2>2. Timers'
    BY <1>0, <1>2 DEF EnterPreOp2, Timers, SlotHasSoa, dll
  <2> QED BY <2>1, <2>2, NextParts
<1> QED BY <1>1, <1>2

LEMMA StutterInv == ASSUME Inv, UNCHANGED vars PROVE Inv'
BY DEF Inv, TypeOK, Timers, SlotHasSoa, vars, dll, wires, errs, history

LEMMA StepInv == Inv /\ [Next]_vars => Inv'
BY ReducedTimerInv, SoaTransmittedInv, CycleTickInv, AnswerInv, SocTransmittedInv, SoaSlotInv, CrcErrorInv,
   KernelEventInv, PrepareInv, CheckInv, CopyInv, ModeInv, StutterInv
   DEF Next, Driver, Kernel

-----------------------------------------------------------------------------
(* Types: above all no index leaves the two lists, the two buffers and the ring, although the slot timer *)
(* indexes the list to send without a look at whether there is one.                                      *)
THEOREM TypeCorrect == Spec => []TypeOK
<1>1. Inv => TypeOK
  BY DEF Inv
<1> QED BY <1>1, InitInv, StepInv, PTL DEF Spec

(* The slot timer runs only while a list with its SoC sent and its SoA not is the one to send: it never *)
(* survives a stop, a start or a switch of the lists to send the SoA of another cycle.                  *)
THEOREM SlotTimerSends == Spec => []SlotHasSoa
<1>1. Inv => SlotHasSoa
  BY DEF Inv, Timers
<1> QED BY <1>1, InitInv, StepInv, PTL DEF Spec

-----------------------------------------------------------------------------
(* Which invitation an answer counts for, in a cycle that was started when no event waited.             *)
(*                                                                                                      *)
(* While it runs the list to send, the list to fill, the two buffers and the ring go round       *)
(* together: at most one cycle is to be prepared (OneBuild), and only while the list to fill is empty;   *)
(* syncReq is ahead of curReq by the lists that are prepared and whose SoC has not left (InStep); and   *)
(* the buffer of a list that is still to be sent has the invitation at its place in the ring (Invited). *)
Running == nmt = "Full" /\ dllState = "WaitSocTrig" /\ ~behind

Orders == {"Sync", "CycleFinish"}                      \* the events that prepare a cycle
AtMostOne(q) == \A i, j \in 1 .. Len(q) : q[i] \in Orders /\ q[j] \in Orders => i = j
NoOrder(q) == \A i \in 1 .. Len(q) : q[i] \notin Orders

Built == build.step \in {"check", "copy"}
Prepared == Built \/ edrv.list[Other(edrv.cur)] # Empty
Unsent == tx = "soc" \/ (edrv.list[edrv.cur] # Empty /\ edrv.entry = 0)
Ahead(b, c) == IF b THEN NextReq(c) ELSE c

Modes ==
  /\ nmt = "PreOp1" /\ ~startDue => dllState = "NonCyclic" /\ open # "cycle"
  /\ nmt = "Full" /\ dllState = "NonCyclic" => open # "cycle"
  /\ tx = "soc" => ~reduced /\ (nmt = "PreOp1" => startDue)
OneBuild ==
  /\ AtMostOne(kInt)
  /\ build # Idle => NoOrder(kInt)
  /\ build # Idle \/ ~NoOrder(kInt) => edrv.list[Other(edrv.cur)] = Empty
Lists ==
  /\ edrv.list[edrv.cur] = Empty => edrv.entry = 0
  /\ tx = "soc" => edrv.slotTimer
  /\ build.step = "copy" => edrv.list[build.list] = Empty
  /\ edrv.entry # 0 => edrv.list[edrv.cur] = offset
  /\ edrv.list[Other(edrv.cur)] # Empty => edrv.list[Other(edrv.cur)] = Other(offset)
  /\ Built => build.offset = Other(offset)
InStep == syncReq = Ahead(Prepared, Ahead(Unsent, curReq))
Invited ==
  /\ edrv.slotTimer => soa[offset] = ring[Ahead(tx = "soc", curReq)] /\ (tx = "soc" \/ open = "no")
  /\ Prepared => soa[Other(offset)] = ring[syncReq]
  /\ open = "cycle" => ring[curReq] = wire

CycleInv == Modes /\ (Running => OneBuild /\ Lists /\ InStep /\ Invited)

LEMMA QueueOrders ==
  ASSUME NEW q \in Seq(Events), NEW e \in Events
  PROVE  /\ e \notin Orders /\ AtMostOne(q) => AtMostOne(Append(q, e))
         /\ e \notin Orders => (NoOrder(q) <=> NoOrder(Append(q, e)))
         /\ NoOrder(q) => AtMostOne(Append(q, e))
<1>1. /\ Len(q) \in Nat /\ Len(Append(q, e)) = Len(q) + 1
      /\ Append(q, e)[Len(q) + 1] = e
      /\ \A i \in 1 .. Len(q) : Append(q, e)[i] = q[i]
  OBVIOUS
<1> HIDE DEF Events
<1>2. \A i \in 1 .. Len(Append(q, e)) : i \in 1 .. Len(q) \/ i = Len(q) + 1
  BY <1>1
<1>3. 1 .. Len(q) \subseteq 1 .. Len(Append(q, e)) /\ Len(q) + 1 \in 1 .. Len(Append(q, e))
  BY <1>1
<1>4. e \notin Orders /\ AtMostOne(q) => AtMostOne(Append(q, e))
  BY <1>1, <1>2 DEF AtMostOne
<1>5. e \notin Orders => (NoOrder(q) <=> NoOrder(Append(q, e)))
  BY <1>1, <1>2, <1>3 DEF NoOrder
<1>6. NoOrder(q) => AtMostOne(Append(q, e))
  BY <1>1, <1>2 DEF AtMostOne, NoOrder
<1> QED BY <1>4, <1>5, <1>6

LEMMA QueueServed ==
  ASSUME NEW q \in Seq(Events), q # <<>>
  PROVE  /\ AtMostOne(q) => AtMostOne(Tail(q))
         /\ NoOrder(q) => NoOrder(Tail(q)) /\ Head(q) \notin Orders
         /\ AtMostOne(q) /\ Head(q) \in Orders => NoOrder(Tail(q))
         /\ Head(q) \notin Orders /\ NoOrder(Tail(q)) => NoOrder(q)
<1>1. /\ Len(q) \in Nat \ {0} /\ Len(Tail(q)) = Len(q) - 1 /\ Head(q) = q[1]
      /\ \A i \in 1 .. Len(Tail(q)) : Tail(q)[i] = q[i + 1]
  OBVIOUS
<1>2. \A i \in 1 .. Len(Tail(q)) : i + 1 \in 1 .. Len(q) /\ i + 1 # 1
  BY <1>1
<1>3. 1 \in 1 .. Len(q) /\ \A i \in 1 .. Len(q) : i = 1 \/ (i - 1 \in 1 .. Len(Tail(q)) /\ (i - 1) + 1 = i)
  BY <1>1
<1>4. AtMostOne(q) => AtMostOne(Tail(q))
  <2> SUFFICES ASSUME AtMostOne(q), NEW i \in 1 .. Len(Tail(q)), NEW j \in 1 .. Len(Tail(q)),
                      Tail(q)[i] \in Orders, Tail(q)[j] \in Orders
               PROVE  i = j
    BY DEF AtMostOne
  <2>1. i + 1 = j + 1
    BY <1>1, <1>2 DEF AtMostOne
  <2> QED BY <2>1
<1>5. NoOrder(q) => NoOrder(Tail(q)) /\ Head(q) \notin Orders
  BY <1>1, <1>2, <1>3 DEF NoOrder
<1>6. AtMostOne(q) /\ Head(q) \in Orders => NoOrder(Tail(q))
  BY <1>1, <1>2, <1>3 DEF NoOrder, AtMostOne
<1>7. Head(q) \notin Orders /\ NoOrder(Tail(q)) => NoOrder(q)
  <2> SUFFICES ASSUME Head(q) \notin Orders, NoOrder(Tail(q)), NEW i \in 1 .. Len(q)
               PROVE  q[i] \notin Orders
    BY DEF NoOrder
  <2>1. CASE i = 1
    BY <1>1, <2>1
  <2>2. CASE i # 1
    <3>1. i - 1 \in 1 .. Len(Tail(q)) /\ (i - 1) + 1 = i
      BY <1>3, <2>2
    <3>2. Tail(q)[i - 1] = q[i]
      BY <1>1, <3>1
    <3> QED BY <3>1, <3>2 DEF NoOrder
  <2> QED BY <2>1, <2>2
<1> QED BY <1>4, <1>5, <1>6, <1>7

(* The three places of the ring *)
LEMMA RingGoesRound ==
  ASSUME NEW c \in 0 .. 2
  PROVE  /\ NextReq(c) \in 0 .. 2 /\ NextReq(NextReq(c)) \in 0 .. 2
         /\ NextReq(c) # c /\ NextReq(NextReq(c)) # c /\ NextReq(NextReq(c)) # NextReq(c)
<1>1. c = 0 \/ c = 1 \/ c = 2
  OBVIOUS
<1>2. NextReq(0) = 1 /\ NextReq(1) = 2 /\ NextReq(2) = 0
  BY DEF NextReq
<1> QED BY <1>1, <1>2

LEMMA SwitchedFields ==
  ASSUME NEW e \in Edrv
  PROVE  /\ Switched(e).cur = Other(e.cur) /\ Switched(e).entry = 0 /\ Switched(e).slotTimer = e.slotTimer
         /\ Switched(e).list[Switched(e).cur] = e.list[Other(e.cur)]
         /\ Switched(e).list[Other(Switched(e).cur)] = Empty
         /\ \A i \in Offset : Switched(e).list[i] = IF i = e.cur THEN Empty ELSE e.list[i]
<1>1. Switched(e).cur = Other(e.cur) /\ Switched(e).entry = 0 /\ Switched(e).slotTimer = e.slotTimer
      /\ Switched(e).list = [e.list EXCEPT ![e.cur] = Empty]
  BY DEF Edrv, Switched
<1>2. e.cur \in Offset /\ Other(e.cur) \in Offset /\ Other(Other(e.cur)) = e.cur /\ Other(e.cur) # e.cur
  BY DEF Edrv, Offset, Other
<1>3. \A i \in Offset : Switched(e).list[i] = IF i = e.cur THEN Empty ELSE e.list[i]
  BY <1>1 DEF Edrv
<1> QED BY <1>1, <1>2, <1>3

LEMMA SentFields ==
  ASSUME NEW e \in Edrv
  PROVE  /\ SocSent(e).cur = e.cur /\ SocSent(e).entry = 1 /\ SocSent(e).slotTimer /\ SocSent(e).list = e.list
         /\ SoaSent(e).cur = e.cur /\ SoaSent(e).entry = 2 /\ ~SoaSent(e).slotTimer /\ SoaSent(e).list = e.list
         /\ SoaFailed(e).cur = e.cur /\ SoaFailed(e).entry = e.entry /\ ~SoaFailed(e).slotTimer
         /\ SoaFailed(e).list = e.list
BY DEF Edrv, SocSent, SoaSent, SoaFailed

(* What the invariant says when only the queue is served or gets an error. *)
LEMMA QueueOnly ==
  ASSUME Inv, CycleInv, AtMostOne(kInt) => AtMostOne(kInt'), NoOrder(kInt) <=> NoOrder(kInt'),
         UNCHANGED <<nmt, startDue, dll, build, behind>>, UNCHANGED <<wire, open>>, tx' = "soc" <=> tx = "soc"
  PROVE  CycleInv'
<1>1. Modes'
  BY DEF CycleInv, Modes, Running, dll
<1>2. Running' => Running
  BY DEF Running, dll
<1>3. Running => OneBuild'
  BY DEF CycleInv, OneBuild, dll
<1>4. Running => Lists'
  BY DEF CycleInv, Lists, Built, dll
<1>5. Prepared' = Prepared /\ Unsent' = Unsent
  BY DEF Prepared, Unsent, Built, dll
<1>6. Running => InStep'
  BY <1>5 DEF CycleInv, InStep, Ahead, dll, NextReq
<1>7. Running => Invited'
  BY <1>5 DEF CycleInv, Invited, Ahead, dll, NextReq
<1> QED BY <1>1, <1>2, <1>3, <1>4, <1>6, <1>7 DEF CycleInv

LEMMA InitCycle == Init => CycleInv
BY DEF Init, CycleInv, Modes, Running

LEMMA Parts ==
  ASSUME Inv
  PROVE  NmtType /\ DllType /\ WireType /\ QueueOK /\ BuildType /\ ErrType /\ Timers
BY TypeParts DEF Inv

LEMMA CrcErrorCycle == ASSUME Inv, CycleInv, CrcError PROVE CycleInv'
<1>1. kInt \in Seq(Events) /\ "Crc" \in Events /\ "Crc" \notin Orders
  BY Parts DEF QueueOK, Events, Kinds, Orders
<1>2. /\ kInt' = Append(kInt, "Crc") /\ UNCHANGED <<nmt, startDue, dll, build, behind>>
      /\ UNCHANGED <<wire, open, tx>>
  BY DEF CrcError, wires, history
<1>3. /\ AtMostOne(kInt) => AtMostOne(kInt')
      /\ NoOrder(kInt) <=> NoOrder(kInt')
  BY <1>1, <1>2, QueueOrders
<1> QED BY <1>2, <1>3, QueueOnly

LEMMA SoaTransmittedCycle == ASSUME Inv, CycleInv, SoaTransmitted PROVE CycleInv'
<1>0. UNCHANGED <<nmt, startDue, dllState, edrv, offset, soa, ring, curReq, syncReq, wire, open, build, behind>>
      /\ tx = "soa" /\ tx' = "none"
  BY DEF SoaTransmitted, history
<1>1. CASE dllState = "NonCyclic"
  <2>1. ~Running'
    BY <1>0, <1>1 DEF Running
  <2>2. Modes'
    BY <1>0 DEF CycleInv, Modes
  <2> QED BY <2>1, <2>2 DEF CycleInv
<1>2. CASE dllState # "NonCyclic"
  <2>1. kInt' = kInt /\ reduced' = reduced /\ cycleCount' = cycleCount
    BY <1>2 DEF SoaTransmitted
  <2>2. UNCHANGED <<nmt, startDue, dll, build, behind>> /\ UNCHANGED <<wire, open>> /\ (tx' = "soc" <=> tx = "soc")
    BY <1>0, <2>1 DEF dll
  <2> QED BY <2>1, <2>2, QueueOnly
<1> QED BY <1>1, <1>2

(* The reduced cycle: nothing is said of it but that no SoA of the full cycle is open. *)
LEMMA ReducedCycleModes ==
  ASSUME Inv, CycleInv, nmt = "PreOp1", NEW entries, ReducedCycle(entries),
         UNCHANGED <<nmt, startDue>>, reduced' => reduced
  PROVE  CycleInv'
<1>1. dllState' = "NonCyclic"
  BY DEF ReducedCycle
<1>2. ~Running'
  BY DEF Running
<1>3. (open # "cycle" => open' # "cycle") /\ (tx' = "soc" => tx = "soc")
  BY DEF ReducedCycle, SendSoa, wires
<1>4. Modes'
  BY <1>1, <1>3 DEF CycleInv, Modes
<1> QED BY <1>2, <1>4 DEF CycleInv

LEMMA ReducedTimerCycle == ASSUME Inv, CycleInv, ReducedTimer PROVE CycleInv'
<1>0. UNCHANGED <<nmt, startDue, offset, curReq, build>> /\ reduced /\ ~reduced'
  BY DEF ReducedTimer
<1>1. CASE nmt = "PreOp1"
  <2>1. ReducedCycle(ring)
    BY <1>1 DEF ReducedTimer
  <2> QED BY <1>0, <1>1, <2>1, ReducedCycleModes
<1>2. CASE nmt # "PreOp1"
  <2>1. /\ dllState' = "WaitSocTrig" /\ edrv' = StartCycle(edrv) /\ syncReq' = curReq
        /\ kInt' = Append(kInt, "Sync")
        /\ UNCHANGED <<ring, soa, cycleCount, wires>>
        /\ behind' \/ (kInt = <<>> /\ build = Idle)
    BY <1>2 DEF ReducedTimer
  <2>2. nmt = "Full" /\ dllState = "NonCyclic" /\ ~edrv.slotTimer /\ edrv \in Edrv /\ kInt \in Seq(Events)
    BY <1>0, <1>2, Parts DEF NmtType, Timers, DllType, QueueOK
  <2>3. open # "cycle" /\ tx # "soc" /\ UNCHANGED <<tx, open>>
    BY <1>0, <2>1, <2>2 DEF CycleInv, Modes, wires
  <2>4. Modes'
    BY <1>0, <2>1, <2>2, <2>3 DEF Modes
  <2>5. ASSUME ~behind' PROVE OneBuild' /\ Lists' /\ InStep' /\ Invited'
    <3>0. kInt = <<>> /\ build = Idle
      BY <2>1, <2>5
    <3>1. build' = Idle /\ kInt' = <<"Sync">>
      BY <1>0, <2>1, <3>0
    <3>2. AtMostOne(kInt')
      BY <3>1 DEF AtMostOne
    <3>3. /\ edrv'.cur = 0 /\ edrv'.entry = 0 /\ ~edrv'.slotTimer
          /\ edrv'.list = [i \in Offset |-> Empty]
      BY <2>1, <2>2 DEF StartCycle, Edrv
    <3>4. edrv'.list[edrv'.cur] = Empty /\ edrv'.list[Other(edrv'.cur)] = Empty
      BY <3>3 DEF Offset, Other
    <3>5. ~Built' /\ ~(build'.step = "copy")
      BY <3>1 DEF Built, Idle
    <3>6. ~Prepared' /\ ~Unsent'
      BY <2>3, <3>4, <3>5 DEF Prepared, Unsent
    <3>7. OneBuild'
      BY <3>1, <3>2, <3>4 DEF OneBuild
    <3>8. Lists'
      BY <2>3, <3>3, <3>4, <3>5 DEF Lists
    <3>9. InStep'
      BY <1>0, <2>1, <3>6 DEF InStep, Ahead
    <3>10. Invited'
      BY <2>3, <3>3, <3>6 DEF Invited
    <3> QED BY <3>7, <3>8, <3>9, <3>10
  <2> QED BY <2>4, <2>5 DEF CycleInv, Running
<1> QED BY <1>1, <1>2

LEMMA AnswerCycle == ASSUME Inv, CycleInv, Answer PROVE CycleInv'
<1>0. UNCHANGED <<nmt, startDue, reduced, offset, curReq, syncReq, kInt, build, behind>> /\ open # "no" /\ tx = "none"
  BY DEF Answer
<1>1. CASE nmt = "PreOp1"
  BY <1>0, <1>1, ReducedCycleModes DEF Answer
<1>2. CASE nmt # "PreOp1"
  <2>1. /\ wire # "No" /\ wire' = "No" /\ ring' = Mark(wire)
        /\ UNCHANGED <<dllState, edrv, soa, tx, open>>
    BY <1>2 DEF Answer
  <2>2. Running' = Running
    BY <1>0, <2>1 DEF Running
  <2>3. Modes'
    BY <1>0, <2>1, <2>2 DEF CycleInv, Modes
  <2>4. ASSUME Running PROVE OneBuild' /\ Lists' /\ InStep' /\ Invited'
    <3>0. OneBuild /\ Lists /\ InStep /\ Invited
      BY <2>4 DEF CycleInv
    <3>1. OneBuild' /\ Lists'
      BY <1>0, <2>1, <3>0 DEF OneBuild, Lists, Built
    <3>2. Prepared' = Prepared /\ Unsent' = Unsent
      BY <1>0, <2>1 DEF Prepared, Unsent, Built
    <3>3. InStep'
      BY <1>0, <3>0, <3>2 DEF InStep, Ahead, NextReq
    <3>4. ~edrv.slotTimer
      BY <1>0, <3>0 DEF Invited
    <3>5. ring \in [0 .. 2 -> Requests] /\ curReq \in 0 .. 2
      BY Parts DEF DllType
    <3>6. \A i \in 0 .. 2 : i # curReq => ring'[i] = ring[i]
      BY <2>1, <3>5 DEF Mark
    <3>7. Prepared => syncReq # curReq /\ syncReq \in 0 .. 2
      BY <3>0, <3>5, RingGoesRound DEF InStep, Ahead
    <3>8. open = "cycle" => ring'[curReq] = "No"
      BY <2>1, <3>0, <3>5 DEF Invited, Mark
    <3> QED BY <1>0, <2>1, <3>0, <3>1, <3>2, <3>3, <3>4, <3>6, <3>7, <3>8 DEF Invited
  <2> QED BY <2>2, <2>3, <2>4 DEF CycleInv
<1> QED BY <1>1, <1>2

LEMMA SocTransmittedCycle == ASSUME Inv, CycleInv, SocTransmitted PROVE CycleInv'
<1>0. UNCHANGED <<nmt, startDue, offset, soa, ring, syncReq, kInt, build, behind>>
      /\ open' = "no" /\ tx = "soc" /\ tx' = "none"
  BY DEF SocTransmitted, history
<1>1. CASE nmt # "Full"
  <2>1. dllState' = "NonCyclic" /\ ~Running /\ ~Running' /\ nmt' # "Full"
    BY <1>0, <1>1 DEF SocTransmitted, Running
  <2>2. Modes'
    BY <1>0, <2>1 DEF CycleInv, Modes
  <2> QED BY <2>1, <2>2 DEF CycleInv
<1>2. CASE nmt = "Full"
  <2>1. curReq' = NextReq(curReq) /\ UNCHANGED <<dllState, edrv>>
    BY <1>2 DEF SocTransmitted
  <2>2. Running' = Running
    BY <1>0, <2>1 DEF Running
  <2>3. Modes'
    BY <1>0, <2>1, <2>2 DEF CycleInv, Modes
  <2>4. ASSUME Running PROVE OneBuild' /\ Lists' /\ InStep' /\ Invited'
    <3>0. OneBuild /\ Lists /\ InStep /\ Invited
      BY <2>4 DEF CycleInv
    <3>1. OneBuild' /\ Lists'
      BY <1>0, <2>1, <3>0 DEF OneBuild, Lists, Built
    <3>2. edrv.slotTimer /\ edrv.entry = 1
      BY <1>0, <3>0, Parts DEF Lists, Timers, SlotHasSoa
    <3>3. Prepared' = Prepared /\ Unsent /\ ~Unsent'
      BY <1>0, <2>1, <3>2 DEF Prepared, Unsent, Built
    <3>4. InStep'
      BY <1>0, <2>1, <3>0, <3>3 DEF InStep, Ahead, NextReq
    <3>5. Invited'
      BY <1>0, <2>1, <3>0, <3>3 DEF Invited, Ahead
    <3> QED BY <3>1, <3>4, <3>5
  <2> QED BY <2>2, <2>3, <2>4 DEF CycleInv
<1> QED BY <1>1, <1>2

LEMMA SoaSlotCycle == ASSUME Inv, CycleInv, SoaSlot PROVE CycleInv'
<1>0. /\ UNCHANGED <<nmt, startDue, dllState, reduced, offset, soa, ring, curReq, syncReq, build, behind>>
      /\ edrv.slotTimer /\ tx = "none" /\ edrv.entry = 1 /\ edrv \in Edrv /\ kInt \in Seq(Events)
      /\ edrv.list[edrv.cur] # Empty
  BY Parts DEF SoaSlot, Timers, SlotHasSoa, DllType, QueueOK, history
<1>a. nmt = "Full" /\ dllState = "WaitSocTrig" /\ tx' # "soc"
  BY <1>0, Parts DEF Timers, NmtType, DllType, SoaSlot, wires
<1>b. Modes'
  BY <1>0, <1>a DEF Modes
<1> SUFFICES ASSUME ~behind PROVE CycleInv'
  BY <1>0, <1>b DEF CycleInv, Running
<1>1. Running /\ Running'
  BY <1>0, <1>a DEF Running
<1>2. Modes /\ OneBuild /\ Lists /\ InStep /\ Invited
  BY <1>1 DEF CycleInv
<1>3. edrv.list[edrv.cur] = offset /\ soa[offset] = ring[curReq]
  BY <1>0, <1>2 DEF Lists, Invited, Ahead
<1>4. /\ edrv'.cur = edrv.cur /\ edrv'.list = edrv.list /\ edrv'.entry # 0 /\ ~edrv'.slotTimer
      /\ tx' \in {"none", "soa"} /\ (open' = "cycle" => wire' = ring[curReq])
      /\ (kInt' = kInt \/ kInt' = Append(kInt, "Exceed"))
  <2>1. CASE edrv' = SoaSent(edrv) /\ tx' = "soa" /\ wire' = soa[edrv.list[edrv.cur]] /\ open' = "cycle"
             /\ UNCHANGED <<kInt, faults>>
    BY <1>0, <1>3, <2>1, SentFields
  <2>2. CASE Refused /\ edrv' = SoaFailed(edrv) /\ kInt' = Append(kInt, "Exceed") /\ UNCHANGED wires
    <3>1. open = "no"
      BY <1>0, <1>2 DEF Invited
    <3> QED BY <1>0, <2>2, <3>1, SentFields DEF wires
  <2> QED BY <2>1, <2>2 DEF SoaSlot
<1>5. "Exceed" \in Events /\ "Exceed" \notin Orders
  BY DEF Events, Kinds, Orders
<1>6. AtMostOne(kInt') /\ (NoOrder(kInt') <=> NoOrder(kInt))
  <2>1. AtMostOne(kInt)
    BY <1>2 DEF OneBuild
  <2>2. CASE kInt' = kInt
    BY <2>1, <2>2
  <2>3. CASE kInt' = Append(kInt, "Exceed")
    BY <1>0, <1>5, <2>1, <2>3, QueueOrders
  <2> QED BY <1>4, <2>2, <2>3
<1>8. OneBuild'
  BY <1>0, <1>2, <1>4, <1>6 DEF OneBuild
<1>9. Lists'
  BY <1>0, <1>2, <1>4 DEF Lists, Built
<1>10. Prepared' = Prepared /\ ~Unsent /\ ~Unsent'
  BY <1>0, <1>4 DEF Prepared, Unsent, Built
<1>11. InStep'
  BY <1>0, <1>2, <1>10 DEF InStep, Ahead
<1>12. Invited'
  BY <1>0, <1>2, <1>4, <1>10 DEF Invited
<1> QED BY <1>b, <1>8, <1>9, <1>11, <1>12 DEF CycleInv

(* The cycle timer: an error leaves the list to fill and what is prepared; otherwise the list that was    *)
(* filled is the one to send, its buffer is that of the new offset, and the next cycle is to be prepared. *)
LEMMA CycleTickCycle == ASSUME Inv, CycleInv, CycleTick PROVE CycleInv'
<1>0. /\ UNCHANGED <<nmt, startDue, dllState, reduced, soa, ring, curReq, syncReq, wire, open, build, behind>>
      /\ edrv.cycleTimer /\ tx = "none" /\ edrv \in Edrv /\ kInt \in Seq(Events) /\ offset \in Offset
  BY Parts DEF CycleTick, DllType, QueueOK, history
<1>a. nmt = "Full" /\ dllState = "WaitSocTrig" /\ ~reduced
  BY <1>0, Parts DEF Timers, NmtType, DllType
<1>b. Modes'
  BY <1>0, <1>a DEF Modes
<1> SUFFICES ASSUME ~behind PROVE CycleInv'
  BY <1>0, <1>b DEF CycleInv, Running
<1>1. Running /\ Running'
  BY <1>0, <1>a DEF Running
<1>2. Modes /\ OneBuild /\ Lists /\ InStep /\ Invited
  BY <1>1 DEF CycleInv
<1>3. "Exceed" \in Events /\ "Exceed" \notin Orders /\ "CycleFinish" \in Events /\ "Exceed" # "Sync"
  BY DEF Events, Kinds, Orders
<1>4. AtMostOne(kInt)
  BY <1>2 DEF OneBuild
<1>5. /\ edrv.cur \in Offset /\ Other(edrv.cur) \in Offset /\ Other(Other(edrv.cur)) = edrv.cur
      /\ Other(Other(offset)) = offset
  BY <1>0 DEF Edrv, Offset, Other
<1>6. Finished(edrv) => ~edrv.slotTimer /\ ~Unsent
  BY <1>0, BusyNotFinished, Parts DEF Timers, Finished, Unsent
<1>7. Built => build # Idle
  BY DEF Built, Idle
<1>8. CASE CycleError(edrv) # "none" /\ edrv' = (IF Finished(edrv) THEN Switched(edrv) ELSE edrv)
           /\ kInt' = Append(kInt, "Exceed") /\ UNCHANGED <<offset, tx, faults>>
  <2>1. AtMostOne(kInt') /\ (NoOrder(kInt') <=> NoOrder(kInt))
    BY <1>0, <1>3, <1>4, <1>8, QueueOrders
  <2>3. CASE Finished(edrv)
    <3>1. edrv' = Switched(edrv) /\ edrv.list[Other(edrv.cur)] = Empty
      BY <1>8, <2>3 DEF CycleError
    <3>2. /\ edrv'.cur = Other(edrv.cur) /\ edrv'.entry = 0 /\ edrv'.slotTimer = edrv.slotTimer
          /\ edrv'.list[edrv'.cur] = Empty /\ edrv'.list[Other(edrv'.cur)] = Empty
          /\ \A i \in Offset : edrv'.list[i] = IF i = edrv.cur THEN Empty ELSE edrv.list[i]
      BY <1>0, <3>1, SwitchedFields
    <3>3. OneBuild'
      BY <1>0, <1>2, <2>1, <3>2 DEF OneBuild
    <3>4. build.step = "copy" => build.list \in Offset
      BY Parts DEF BuildType, Idle
    <3>5. Lists'
      BY <1>0, <1>2, <1>8, <3>2, <3>4 DEF Lists, Built
    <3>6. Prepared' = Prepared /\ ~Unsent /\ ~Unsent'
      BY <1>0, <1>6, <1>8, <2>3, <3>1, <3>2 DEF Prepared, Unsent, Built
    <3>7. InStep'
      BY <1>0, <1>2, <3>6 DEF InStep, Ahead
    <3>8. Invited'
      BY <1>0, <1>2, <1>6, <1>8, <2>3, <3>2, <3>6 DEF Invited
    <3> QED BY <1>b, <3>3, <3>5, <3>7, <3>8 DEF CycleInv
  <2>4. CASE ~Finished(edrv)
    <3>1. edrv' = edrv /\ offset' = offset /\ tx' = tx
      BY <1>8, <2>4
    <3>2. OneBuild' /\ Lists'
      BY <1>0, <1>2, <2>1, <3>1 DEF OneBuild, Lists, Built
    <3>3. Prepared' = Prepared /\ Unsent' = Unsent
      BY <1>0, <3>1 DEF Prepared, Unsent, Built
    <3>4. InStep' /\ Invited'
      BY <1>0, <1>2, <3>1, <3>3 DEF InStep, Invited, Ahead, NextReq
    <3> QED BY <1>b, <3>2, <3>4 DEF CycleInv
  <2> QED BY <2>3, <2>4
<1>9. CASE /\ CycleError(edrv) = "none" /\ offset' = Other(offset)
           /\ \/ edrv' = SocSent(Switched(edrv)) /\ tx' = "soc" /\ kInt' = Append(kInt, "CycleFinish")
              \/ edrv' = Switched(edrv) /\ tx' = tx /\ kInt' = kInt \o <<"Exceed", "CycleFinish">>
  <2>1. Finished(edrv) /\ edrv.list[Other(edrv.cur)] # Empty
    BY <1>9 DEF CycleError
  <2>2. ~edrv.slotTimer /\ ~Unsent /\ build = Idle /\ ~Built /\ NoOrder(kInt) /\ Prepared
    BY <1>2, <1>6, <1>7, <2>1 DEF OneBuild, Prepared
  <2>3. Switched(edrv) \in Edrv
    BY <1>0, SwitchedType
  <2>4. /\ edrv'.cur = Other(edrv.cur)
        /\ edrv'.list[edrv'.cur] = edrv.list[Other(edrv.cur)] /\ edrv'.list[Other(edrv'.cur)] = Empty
        /\ \/ edrv'.entry = 1 /\ edrv'.slotTimer /\ tx' = "soc"
           \/ edrv'.entry = 0 /\ ~edrv'.slotTimer /\ tx' = "none"
    BY <1>0, <1>9, <2>2, <2>3, SwitchedFields, SentFields
  <2>5. edrv'.list[edrv'.cur] = offset' /\ edrv'.list[edrv'.cur] # Empty
    BY <1>2, <1>9, <2>1, <2>4 DEF Lists
  <2>6. AtMostOne(kInt')
    <3>1. CASE kInt' = Append(kInt, "CycleFinish")
      BY <1>0, <1>3, <1>4, <2>2, <3>1, QueueOrders
    <3>2. CASE kInt' = kInt \o <<"Exceed", "CycleFinish">>
      <4>1. Append(kInt, "Exceed") \in Seq(Events) /\ kInt' = Append(Append(kInt, "Exceed"), "CycleFinish")
        BY <1>0, <1>3, <3>2
      <4>2. NoOrder(Append(kInt, "Exceed"))
        BY <1>0, <1>3, <1>4, <2>2, QueueOrders
      <4> QED BY <1>3, <4>1, <4>2, QueueOrders
    <3> QED BY <1>9, <3>1, <3>2
  <2>8. OneBuild'
    BY <1>0, <2>2, <2>4, <2>6 DEF OneBuild
  <2>9. ~Built' /\ ~(build'.step = "copy")
    BY <1>0, <2>2 DEF Built, Idle
  <2>10. Lists'
    BY <2>4, <2>5, <2>9 DEF Lists
  <2>11. ~Prepared' /\ Unsent'
    BY <2>4, <2>5, <2>9 DEF Prepared, Unsent
  <2>12. InStep'
    BY <1>0, <1>2, <2>2, <2>11 DEF InStep, Ahead
  <2>13. syncReq = NextReq(curReq)'
    BY <1>0, <1>2, <2>2, <2>11, <2>12 DEF InStep, Ahead
  <2>14. soa'[offset'] = ring'[NextReq(curReq)']
    BY <1>0, <1>2, <1>9, <2>2, <2>13 DEF Invited
  <2>15. Invited'
    BY <1>0, <1>2, <2>4, <2>11, <2>14 DEF Invited, Ahead
  <2> QED BY <1>b, <2>8, <2>10, <2>12, <2>15 DEF CycleInv
<1> QED BY <1>8, <1>9 DEF CycleTick

LEMMA KernelEventCycle == ASSUME Inv, CycleInv, KernelEvent PROVE CycleInv'
<1>0. build = Idle /\ kInt \in Seq(Events) /\ kInt # <<>> /\ Head(kInt) \in Events /\ behind' = behind
  BY Parts, QueueType DEF KernelEvent, QueueOK, history
<1>1. Tail(kInt) \in Seq(Events)
  BY <1>0, QueueType
<1>2. CASE (Head(kInt) = "CycleFinish" /\ CycleFinish) \/ (Head(kInt) = "Sync" /\ Sync)
  <2>0. kInt' = Tail(kInt) /\ UNCHANGED <<nmt, startDue, dll, wires>>
        /\ (build' = Idle \/ build' = [step |-> "prepare"])
    BY <1>2 DEF CycleFinish, Sync
  <2>6. Head(kInt) \in Orders
    BY <1>2 DEF Orders
  <2>2. Running' = Running
    BY <1>0, <2>0 DEF Running, dll
  <2>4. Modes'
    BY <2>0 DEF CycleInv, Modes, dll, wires
  <2>5. ASSUME Running PROVE OneBuild' /\ Lists' /\ InStep' /\ Invited'
    <3>0. OneBuild /\ Lists /\ InStep /\ Invited
      BY <2>5 DEF CycleInv
    <3>1. NoOrder(kInt') /\ AtMostOne(kInt') /\ ~NoOrder(kInt)
      BY <1>0, <2>0, <2>6, <3>0, QueueServed DEF OneBuild
    <3>2. OneBuild'
      BY <2>0, <3>0, <3>1 DEF OneBuild, dll
    <3>3. ~Built /\ ~Built' /\ build'.step # "copy"
      BY <1>0, <2>0 DEF Built, Idle
    <3>4. Lists'
      BY <2>0, <3>0, <3>3 DEF Lists, dll, wires
    <3>5. Prepared' = Prepared /\ Unsent' = Unsent
      BY <2>0, <3>3 DEF Prepared, Unsent, dll, wires
    <3>6. InStep' /\ Invited'
      BY <2>0, <3>0, <3>5 DEF InStep, Invited, Ahead, NextReq, dll, wires
    <3> QED BY <3>2, <3>4, <3>6
  <2> QED BY <2>2, <2>4, <2>5 DEF CycleInv
<1>3. CASE NmtCycleError /\ Head(kInt) = "NmtCycleError"
  <2>1. UNCHANGED <<dllState, open, tx>> /\ (reduced' => reduced)
    BY <1>3 DEF NmtCycleError, wires
  <2>2. CASE nmt = "Full"
    <3>1. nmt' = "PreOp1" /\ startDue' = TRUE
      BY <1>3, <2>2 DEF NmtCycleError
    <3> QED BY <2>1, <3>1 DEF CycleInv, Modes, Running
  <2>3. CASE nmt # "Full"
    <3>1. UNCHANGED <<nmt, startDue>>
      BY <1>3, <2>3 DEF NmtCycleError
    <3> QED BY <2>1, <2>3, <3>1 DEF CycleInv, Modes, Running
  <2> QED BY <2>2, <2>3
<1>4. CASE HandleError(Head(kInt))
  <2>1. /\ Head(kInt) \in Kinds /\ UNCHANGED <<nmt, startDue, dll, wires, build>>
        /\ (kInt' = Tail(kInt) \/ kInt' = Append(Tail(kInt), "NmtCycleError"))
    BY <1>4 DEF HandleError
  <2>2. Head(kInt) \notin Orders /\ "NmtCycleError" \in Events /\ "NmtCycleError" \notin Orders
    BY <2>1 DEF Kinds, Orders, Events
  <2>3. (AtMostOne(kInt) => AtMostOne(Tail(kInt))) /\ (NoOrder(kInt) <=> NoOrder(Tail(kInt)))
    BY <1>0, <2>2, QueueServed
  <2>4. CASE kInt' = Tail(kInt)
    BY <1>0, <2>1, <2>3, <2>4, QueueOnly DEF wires
  <2>5. CASE kInt' = Append(Tail(kInt), "NmtCycleError")
    <3>1. /\ AtMostOne(Tail(kInt)) => AtMostOne(kInt')
          /\ NoOrder(Tail(kInt)) <=> NoOrder(kInt')
      BY <1>1, <2>2, <2>5, QueueOrders
    <3> QED BY <1>0, <2>1, <2>3, <3>1, QueueOnly DEF wires
  <2> QED BY <2>1, <2>4, <2>5
<1> QED BY <1>2, <1>3, <1>4 DEF KernelEvent, Orders

LEMMA PrepareCycle == ASSUME Inv, CycleInv, Prepare PROVE CycleInv'
<1>0. PICK r \in Requests :
        /\ syncReq' = NextReq(syncReq)
        /\ ring' = [ring EXCEPT ![NextReq(syncReq)] = r]
        /\ soa' = [soa EXCEPT ![PrepareOffset] = r]
  BY DEF Prepare
<1>1. /\ UNCHANGED <<nmt, startDue, dllState, reduced, edrv, offset, curReq, kInt, behind>> /\ UNCHANGED wires
      /\ build.step = "prepare" /\ build' = [step |-> "check", offset |-> Other(offset)]
  BY DEF Prepare, PrepareOffset, history
<1>2. Running' = Running /\ build # Idle
  BY <1>1 DEF Running, Idle
<1>3. Modes'
  BY <1>1, <1>2 DEF CycleInv, Modes, wires
<1>4. ASSUME Running PROVE OneBuild' /\ Lists' /\ InStep' /\ Invited'
  <2>0. OneBuild /\ Lists /\ InStep /\ Invited
    BY <1>4 DEF CycleInv
  <2>1. OneBuild'
    BY <1>1, <1>2, <2>0 DEF OneBuild, Idle
  <2>2. build'.step = "check" /\ build'.offset = Other(offset) /\ Built' /\ ~Built
    BY <1>1 DEF Built
  <2>3. Lists'
    BY <1>1, <2>0, <2>2 DEF Lists, wires
  <2>4. ~Prepared /\ Prepared' /\ Unsent' = Unsent
    BY <1>1, <1>2, <2>0, <2>2 DEF Prepared, Unsent, OneBuild, wires
  <2>5. InStep'
    BY <1>0, <1>1, <2>0, <2>4 DEF InStep, Ahead, NextReq
  <2>6. /\ ring \in [0 .. 2 -> Requests] /\ curReq \in 0 .. 2 /\ soa \in [Offset -> Requests]
        /\ offset \in Offset /\ Other(offset) \in Offset /\ Other(offset) # offset
    BY Parts, OtherType DEF DllType
  <2>7. tx = "soc" => Unsent
    BY DEF Unsent
  <2>8. /\ NextReq(syncReq) \in 0 .. 2 /\ NextReq(syncReq) # curReq
        /\ NextReq(syncReq) # Ahead(tx = "soc", curReq) /\ Ahead(tx = "soc", curReq) \in 0 .. 2
    BY <2>0, <2>4, <2>6, <2>7, RingGoesRound DEF InStep, Ahead
  <2>9. /\ ring'[curReq] = ring[curReq] /\ ring'[Ahead(tx = "soc", curReq)] = ring[Ahead(tx = "soc", curReq)]
        /\ ring'[NextReq(syncReq)] = r
    BY <1>0, <2>6, <2>8
  <2>10. soa'[offset] = soa[offset] /\ soa'[Other(offset)] = r
    BY <1>0, <2>6 DEF PrepareOffset
  <2>11. Ahead(tx = "soc", curReq)' = Ahead(tx = "soc", curReq)
    BY <1>1 DEF Ahead, NextReq, wires
  <2>12. Invited'
    BY <1>0, <1>1, <2>0, <2>9, <2>10, <2>11 DEF Invited, wires
  <2> QED BY <2>1, <2>3, <2>5, <2>12
<1> QED BY <1>2, <1>3, <1>4 DEF CycleInv

LEMMA CheckCycle == ASSUME Inv, CycleInv, Check PROVE CycleInv'
<1>1. UNCHANGED <<nmt, startDue, dll, wires, kInt, behind>> /\ build.step = "check" /\ build # Idle
  BY DEF Check, Idle, history
<1>2. Running' = Running
  BY <1>1 DEF Running, dll
<1>3. Modes'
  BY <1>1, <1>2 DEF CycleInv, Modes, dll, wires
<1>4. ASSUME Running PROVE OneBuild' /\ Lists' /\ InStep' /\ Invited'
  <2>0. OneBuild /\ Lists /\ InStep /\ Invited
    BY <1>4 DEF CycleInv
  <2>1. edrv.list[Other(edrv.cur)] = Empty /\ NoOrder(kInt)
    BY <1>1, <2>0 DEF OneBuild
  <2>2. build' = [step |-> "copy", offset |-> build.offset, list |-> Other(edrv.cur)]
    BY <2>1 DEF Check, NextList
  <2>3. OneBuild'
    BY <1>1, <2>0, <2>1 DEF OneBuild, dll
  <2>4. build'.step = "copy" /\ build'.offset = build.offset /\ build'.list = Other(edrv.cur) /\ Built /\ Built'
    BY <1>1, <2>2 DEF Built
  <2>5. Lists'
    BY <1>1, <2>0, <2>1, <2>4 DEF Lists, dll, wires
  <2>6. Prepared' = Prepared /\ Unsent' = Unsent
    BY <1>1, <2>4 DEF Prepared, Unsent, dll, wires
  <2>7. InStep' /\ Invited'
    BY <1>1, <2>0, <2>6 DEF InStep, Invited, Ahead, NextReq, dll, wires
  <2> QED BY <2>3, <2>5, <2>7
<1> QED BY <1>2, <1>3, <1>4 DEF CycleInv

(* The list found free is still free when it is filled: it is the one to fill, or, when the driver has *)
(* switched to it meanwhile, the one to send, which then is never finished.                             *)
LEMMA CopyCycle == ASSUME Inv, CycleInv, Copy PROVE CycleInv'
<1>0. /\ UNCHANGED <<nmt, startDue, dllState, reduced, offset, soa, ring, curReq, syncReq, wires, kInt, behind>>
      /\ build.step = "copy" /\ build' = Idle /\ edrv' = Filled(edrv, build.list, build.offset)
      /\ edrv \in Edrv /\ build.list \in Offset /\ build.offset \in Offset
  BY Parts DEF Copy, DllType, BuildType, Idle, history
<1>1. Running' = Running /\ build # Idle
  BY <1>0 DEF Running, Idle
<1>2. Modes'
  BY <1>0, <1>1 DEF CycleInv, Modes, wires
<1>3. ASSUME Running PROVE OneBuild' /\ Lists' /\ InStep' /\ Invited'
  <2>0. OneBuild /\ Lists /\ InStep /\ Invited
    BY <1>3 DEF CycleInv
  <2>1. Built /\ ~Built' /\ build'.step # "copy" /\ build.offset = Other(offset)
        /\ edrv.list[Other(edrv.cur)] = Empty /\ edrv.list[build.list] = Empty /\ NoOrder(kInt) /\ Prepared
    BY <1>0, <1>1, <2>0 DEF Built, Idle, Lists, OneBuild, Prepared
  <2>2. /\ edrv'.cur = edrv.cur /\ edrv'.entry = edrv.entry /\ edrv'.slotTimer = edrv.slotTimer
        /\ \A i \in Offset : edrv'.list[i] = IF i = build.list THEN build.offset ELSE edrv.list[i]
    BY <1>0 DEF Filled, Edrv
  <2>3. edrv.cur \in Offset /\ Other(edrv.cur) \in Offset /\ Other(edrv.cur) # edrv.cur /\ build.offset # Empty
        /\ (build.list = edrv.cur \/ build.list = Other(edrv.cur))
    BY <1>0 DEF Edrv, Offset, Other, Empty
  <2>4. OneBuild'
    BY <1>0, <2>0, <2>1 DEF OneBuild
  <2>5. CASE build.list = Other(edrv.cur)
    <3>1. edrv'.list[edrv.cur] = edrv.list[edrv.cur] /\ edrv'.list[Other(edrv.cur)] = Other(offset)
      BY <2>1, <2>2, <2>3, <2>5
    <3>2. Lists'
      BY <1>0, <2>0, <2>1, <2>2, <3>1 DEF Lists, wires
    <3>3. Prepared' /\ Unsent' = Unsent
      BY <1>0, <2>1, <2>2, <2>3, <3>1 DEF Prepared, Unsent, wires
    <3>4. InStep' /\ Invited'
      BY <1>0, <2>0, <2>1, <2>2, <3>3 DEF InStep, Invited, Ahead, NextReq, wires
    <3> QED BY <2>4, <3>2, <3>4
  <2>6. CASE build.list = edrv.cur
    <3>1. edrv'.list[edrv.cur] = Other(offset) /\ edrv'.list[Other(edrv.cur)] = Empty
      BY <2>1, <2>2, <2>3, <2>6
    <3>2. edrv.list[edrv.cur] = Empty /\ edrv.entry = 0 /\ ~edrv.slotTimer /\ tx # "soc"
      BY <2>0, <2>1, <2>6, Parts DEF Lists, Timers, SlotHasSoa
    <3>3. Lists'
      BY <1>0, <2>0, <2>1, <2>2, <2>3, <3>1, <3>2 DEF Lists, wires
    <3>4. ~Prepared' /\ Unsent' /\ ~Unsent
      BY <1>0, <2>1, <2>2, <2>3, <3>1, <3>2 DEF Prepared, Unsent, wires
    <3>5. InStep' /\ Invited'
      BY <1>0, <2>0, <2>1, <2>2, <3>2, <3>4 DEF InStep, Invited, Ahead, NextReq, wires
    <3> QED BY <2>4, <3>3, <3>5
  <2> QED BY <2>3, <2>5, <2>6
<1> QED BY <1>1, <1>2, <1>3 DEF CycleInv

LEMMA ModeCycle == ASSUME Inv, CycleInv, StartReduced \/ EnterPreOp2 PROVE CycleInv'
<1>1. CASE StartReduced
  BY <1>1 DEF StartReduced, CycleInv, Modes, Running
<1>2. CASE EnterPreOp2
  BY <1>2 DEF EnterPreOp2, CycleInv, Modes, Running, dll, wires
<1> QED BY <1>1, <1>2

LEMMA StepCycle == Inv /\ CycleInv /\ [Next]_vars => CycleInv'
<1>1. ASSUME Inv, CycleInv, UNCHANGED vars PROVE CycleInv'
  <2>1. kInt' = kInt /\ UNCHANGED <<nmt, startDue, dll, build, behind>> /\ UNCHANGED <<wire, open, tx>>
    BY <1>1 DEF vars, wires, history
  <2> QED BY <1>1, <2>1, QueueOnly
<1> QED BY <1>1, ReducedTimerCycle, SoaTransmittedCycle, CycleTickCycle, AnswerCycle, SocTransmittedCycle,
           SoaSlotCycle, CrcErrorCycle, KernelEventCycle, PrepareCycle, CheckCycle, CopyCycle, ModeCycle
        DEF Next, Driver, Kernel

(* An answer is taken for the request that the last SoA sent (Attributed), in every cycle that was        *)
(* started when no event waited for the kernel thread, whatever happened in the cycles before: the ring   *)
(* has places enough although a cycle is prepared, or two, in between.                                    *)
THEOREM AnswerAttributed == Spec => []Attributed
<1>1. Inv /\ CycleInv => Attributed
  <2> SUFFICES ASSUME Inv, CycleInv, nmt = "Full", open = "cycle", ~behind
           PROVE  ring[curReq] = wire
    BY DEF Attributed
  <2>1. Running
    BY Parts DEF CycleInv, Modes, Running, DllType
  <2> QED BY <2>1 DEF CycleInv, Invited
<1>2. Inv /\ CycleInv /\ [Next]_vars => Inv' /\ CycleInv'
  BY StepInv, StepCycle
<1> QED BY <1>1, <1>2, InitInv, InitCycle, PTL DEF Spec

LEMMA StepStable ==
  ASSUME Inv, CycleInv, [Next]_vars, edrv.slotTimer, edrv'.slotTimer, ~behind
  PROVE  soa'[edrv.list[edrv.cur]] = soa[edrv.list[edrv.cur]]
<1>1. nmt # "PreOp1" /\ dllState # "NonCyclic" /\ ~reduced /\ edrv.entry = 1 /\ edrv \in Edrv
      /\ soa \in [Offset -> Requests] /\ offset \in Offset
  BY Parts DEF Timers, SlotHasSoa, DllType
<1>2. Running
  BY <1>1, Parts DEF Running, NmtType, DllType
<1>3. edrv.list[edrv.cur] = offset
  BY <1>1, <1>2 DEF CycleInv, Lists
<1>4. CASE Prepare
  <2>1. PICK r \in Requests : soa' = [soa EXCEPT ![Other(offset)] = r]
    BY <1>4 DEF Prepare, PrepareOffset
  <2> QED BY <1>1, <1>3, <2>1, OtherType
<1>5. CASE ~Prepare
  <2>1. soa' = soa
    BY <1>1, <1>5 DEF Next, Driver, Kernel, ReducedTimer, SoaTransmitted, CycleTick, SocTransmitted, SoaSlot,
          KernelEvent, CycleFinish, Sync, NmtCycleError, HandleError, Check, Copy, Answer, CrcError, StartReduced,
          EnterPreOp2, vars, dll
  <2> QED BY <2>1
<1> QED BY <1>4, <1>5

(* In such a cycle the buffer of a SoA does not change from the moment its SoC is sent until it is sent   *)
(* itself (BufferStable): the thread prepares the next cycle in the other one.                            *)
THEOREM BufferStableCorrect == Spec => BufferStable
<1>1. Inv /\ CycleInv /\ [Next]_vars
      => [edrv.slotTimer /\ edrv'.slotTimer /\ ~behind
            => soa'[edrv.list[edrv.cur]] = soa[edrv.list[edrv.cur]]]_vars
  BY StepStable
<1>2. Inv /\ CycleInv /\ [Next]_vars => Inv' /\ CycleInv'
  BY StepInv, StepCycle
<1> QED BY <1>1, <1>2, InitInv, InitCycle, PTL DEF Spec, BufferStable
=============================================================================
