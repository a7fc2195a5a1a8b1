---------------------------- MODULE EdrvCyclic ----------------------------
(***************************************************************************)
(* The cyclic Ethernet driver of the managing node (edrvcyclic.c): two     *)
(* lists of frames, one that the timers send and one that the kernel       *)
(* thread fills for the next cycle.                                        *)
(*                                                                         *)
(* A list is known by the buffer offset of its frames, 0 or 1; it is a     *)
(* SoC, which the cycle timer sends, and a SoA behind the slot timer.      *)
(***************************************************************************)
EXTENDS Naturals

Offset == {0, 1}
Other(i) == 1 - i
Empty == 2                                             \* NULL

(* ppTxBufferList, curTxBufferList, curTxBufferEntry (the frames sent), timerHdlCycle and timerHdlSlot *)
Edrv == [list : [Offset -> Offset \cup {Empty}], cur : Offset, entry : 0 .. 2,
         cycleTimer : BOOLEAN, slotTimer : BOOLEAN]

InitEdrv == [list |-> [i \in Offset |-> Empty], cur |-> 0, entry |-> 0,
             cycleTimer |-> FALSE, slotTimer |-> FALSE]

StartCycle(e) == [e EXCEPT !.list = [i \in Offset |-> Empty], !.cur = 0, !.entry = 0, !.cycleTimer = TRUE]
StopCycle(e) == [e EXCEPT !.cycleTimer = FALSE, !.slotTimer = FALSE]

(* The list to send has no frame left *)
Finished(e) == e.list[e.cur] = Empty \/ e.entry = 2

(* timerHdlCycleCb: the list sent is empty now, and the other one is sent next *)
Switched(e) == [e EXCEPT !.list[e.cur] = Empty, !.cur = Other(e.cur), !.entry = 0]

CycleError(e) ==
  IF ~Finished(e) THEN "TxListNotFinishedYet"
  ELSE IF e.list[Other(e.cur)] = Empty THEN "CurTxListEmpty"
  ELSE "none"

(* processTxBufferList: the SoC is sent and the slot timer started *)
SocSent(e) == [e EXCEPT !.entry = 1, !.slotTimer = TRUE]
(* timerHdlSlotCb *)
SoaSent(e) == [e EXCEPT !.entry = 2, !.slotTimer = FALSE]
SoaFailed(e) == [e EXCEPT !.slotTimer = FALSE]

(* edrvcyclic_setNextTxBufferList, in two steps: the list that is free now, and the copy *)
NextList(e) == Other(e.cur)
Filled(e, i, offset) == [e EXCEPT !.list[i] = offset]
=============================================================================
