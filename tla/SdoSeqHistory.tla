--------------------------- MODULE SdoSeqHistory ---------------------------
(***************************************************************************)
(* The retransmission history of one SDO sequence layer connection         *)
(* (tSdoSeqConHistory in stack/src/user/sdo/sdo-sequ.c): a ring of         *)
(* HistorySize data frames that were sent and not acknowledged yet.        *)
(*                                                                         *)
(* A sequence number byte of the wire protocol holds a 6 bit number and    *)
(* two connection bits.  The model keeps the two apart: a frame has        *)
(*   sSeq, sCon - sendSeqNumCon, the sender's number and scon bits         *)
(*   rSeq, rCon - recvSeqNumCon, the acknowledged number and rcon bits     *)
(*   data       - a tag of the payload, 0 for a frame without payload      *)
(* SeqMod is 64 and Threshold 25 in the code (100 in steps of 4).          *)
(***************************************************************************)
EXTENDS Integers, Sequences

CONSTANTS HistorySize,  \* SDO_HISTORY_SIZE
          SeqMod,       \* how many sequence numbers SEQ_NUM_MASK leaves
          Threshold     \* SDO_SEQ_NUM_THRESHOLD in units of one number

ASSUME HistoryAssumption ==
    /\ HistorySize \in Nat \ {0}
    /\ SeqMod \in Nat /\ Threshold \in Nat
    /\ HistorySize < Threshold /\ 2 * Threshold <= SeqMod

SeqNum == 0 .. SeqMod - 1
ConBits == 0 .. 3
Index == 0 .. HistorySize - 1

Frame == [sSeq : SeqNum, sCon : ConBits, rSeq : SeqNum, rCon : ConBits, data : Nat]
NoFrame == [sSeq |-> 0, sCon |-> 0, rSeq |-> 0, rCon |-> 0, data |-> 0]

\* Definitions named Bad... are faulty variants of the definition that follows them.
\* Nothing refers to them: put in its place, each shows that a property can fail.

\* The next sequence number, and the distance (a - b) & SEQ_NUM_MASK.
NextSeq(a) == IF a + 1 = SeqMod THEN 0 ELSE a + 1
Dist(a, b) == IF a >= b THEN a - b ELSE a - b + SeqMod

\* `sized` is the set of slots whose aFrameSize is not 0.
History == [freeEntries : Nat, writeIndex : Index, ackIndex : Index,
            frame : [Index -> Frame], sized : SUBSET Index]

NextIndex(i) == IF i + 1 = HistorySize THEN 0 ELSE i + 1
\* The slot k places after index i.
Offset(i, k) == IF i + k >= HistorySize THEN i + k - HistorySize ELSE i + k

UnackedCount(h) == HistorySize - h.freeEntries

\* The connection table entry as memset leaves it at start-up and after a delete.
ZeroHistory(free) ==
    [freeEntries |-> free, writeIndex |-> 0, ackIndex |-> 0,
     frame |-> [i \in Index |-> NoFrame], sized |-> {}]

initHistory(h) == [h EXCEPT !.freeEntries = HistorySize, !.ackIndex = 0, !.writeIndex = 0]

addFrameToHistory(h, f) ==
    IF h.freeEntries > 0
    THEN [h EXCEPT !.freeEntries = @ - 1,
                   !.frame[h.writeIndex] = f,
                   !.sized = @ \cup {h.writeIndex},
                   !.writeIndex = NextIndex(@)]
    ELSE h                                     \* kErrorSdoSeqNoFreeHistory

(***************************************************************************)
(* deleteAckedFrameFromHistory walks from ackIndex over the frames that r  *)
(* acknowledges.  It stops behind the frame whose number is r and at the   *)
(* write index, and then stores the new ackIndex; it stops in front of a   *)
(* frame that r does not cover, and then leaves ackIndex as it was.        *)
(***************************************************************************)
AckDist(h, r, k) == Dist(r, h.frame[Offset(h.ackIndex, k)].sSeq)
BadCovered(h, r, k) == AckDist(h, r, k) \in SeqNum          \* no threshold
Covered(h, r, k) == AckDist(h, r, k) < Threshold
BadStopsAt(h, r, k) ==                                     \* walks past the acked number
    ~Covered(h, r, k) \/ Offset(h.ackIndex, k + 1) = h.writeIndex
StopsAt(h, r, k) ==
    \/ ~Covered(h, r, k)
    \/ AckDist(h, r, k) = 0
    \/ Offset(h.ackIndex, k + 1) = h.writeIndex
LastStep(h, r) ==
    CHOOSE k \in Index : StopsAt(h, r, k) /\ \A j \in 0 .. k - 1 : ~StopsAt(h, r, j)

deleteAckedFrameFromHistory(h, r) ==
    IF h.freeEntries >= HistorySize THEN h
    ELSE LET k     == LastStep(h, r)
             freed == IF Covered(h, r, k) THEN k + 1 ELSE k
         IN  [h EXCEPT !.freeEntries = @ + freed,
                       !.sized = @ \ {Offset(h.ackIndex, j) : j \in 0 .. freed - 1},
                       !.ackIndex = IF Covered(h, r, k) THEN Offset(@, freed) ELSE @]

(***************************************************************************)
(* The frames one run of readFromHistory calls returns, the first call     *)
(* with fInitRead: from ackIndex up to the write index, or up to a slot    *)
(* of size 0 where the caller's loop ends.  A full ring has writeIndex =   *)
(* ackIndex and yields nothing.                                            *)
(***************************************************************************)
ReadCount(h) ==
    LET ends(k) == \/ Offset(h.ackIndex, k) = h.writeIndex
                   \/ Offset(h.ackIndex, k) \notin h.sized
    IN  IF h.freeEntries >= HistorySize THEN 0
        ELSE CHOOSE k \in Index : ends(k) /\ \A j \in 0 .. k - 1 : ~ends(j)

readFromHistory(h) ==
    [k \in 1 .. ReadCount(h) |-> h.frame[Offset(h.ackIndex, k - 1)]]

=============================================================================
