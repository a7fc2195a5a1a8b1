---------------------------- MODULE SdoSeqProofs ----------------------------
(***************************************************************************)
(* Proofs about SdoSeq, for any history size, number range and budgets:    *)
(* type correctness, that in every reachable state the command layer's     *)
(* view, the timer and the acknowledge request fit the connection's state, *)
(* that nothing but a frame sent without being recorded can break the      *)
(* retransmission history, and that data that flows one way arrives in     *)
(* order, is not given up before it has arrived, and is the stream that    *)
(* SdoStream promises.                                                     *)
(***************************************************************************)
EXTENDS SdoSeq, SequenceTheorems, WellFoundedInduction, TLAPS

-----------------------------------------------------------------------------
(* The history's helpers return what their names say.                      *)

\* A non-empty set of slots has a first one.
LEMMA LeastIndex ==
    ASSUME NEW S \in SUBSET Index, S # {}
    PROVE  \E k \in S : \A j \in S : k <= j
<1> DEFINE R == {ss \in Nat \X Nat : ss[1] < ss[2]}
<1>1. S \subseteq Nat BY HistoryAssumption DEF Index
<1>2. IsWellFoundedOn(R, Nat) BY NatLessThanWellFounded DEF OpToRel
<1>3. \A x, y \in Nat : y < x => <<y, x>> \in R OBVIOUS
<1> HIDE DEF R
<1>4. PICK x \in S : \A y \in S : ~(<<y, x>> \in R) BY <1>1, <1>2, WFMin
<1>5. \A y \in S : ~(y < x) BY <1>1, <1>3, <1>4, Zenon
<1>6. \A y \in S : x \in Nat /\ y \in Nat BY <1>1
<1>7. \A y \in S : x <= y BY <1>5, <1>6
<1> QED BY <1>7

LEMMA OffsetType ==
    ASSUME NEW i \in Index, NEW k \in 0 .. HistorySize
    PROVE  Offset(i, k) \in Index
BY HistoryAssumption DEF Index, Offset

\* A walk of at most one turn from one slot reaches any other.
LEMMA OffsetReaches ==
    ASSUME NEW i \in Index, NEW w \in Index
    PROVE  /\ \E k \in Index : Offset(i, k) = w
           /\ \E k \in Index : Offset(i, k + 1) = w
<1>1. \E k \in Index : Offset(i, k) = w
  <2>1. CASE w >= i
    <3>1. w - i \in Index /\ Offset(i, w - i) = w
      BY <2>1, HistoryAssumption DEF Index, Offset
    <3> QED BY <3>1
  <2>2. CASE w < i
    <3>1. w - i + HistorySize \in Index /\ Offset(i, w - i + HistorySize) = w
      BY <2>2, HistoryAssumption DEF Index, Offset
    <3> QED BY <3>1
  <2> QED BY <2>1, <2>2, HistoryAssumption DEF Index
<1>2. \E k \in Index : Offset(i, k + 1) = w
  <2>1. CASE w > i
    <3>1. w - i - 1 \in Index /\ Offset(i, (w - i - 1) + 1) = w
      BY <2>1, HistoryAssumption DEF Index, Offset
    <3> QED BY <3>1
  <2>2. CASE w <= i
    <3>1. w - i - 1 + HistorySize \in Index /\ Offset(i, (w - i - 1 + HistorySize) + 1) = w
      BY <2>2, HistoryAssumption DEF Index, Offset
    <3> QED BY <3>1
  <2> QED BY <2>1, <2>2, HistoryAssumption DEF Index
<1> QED BY <1>1, <1>2

\* The walk over acknowledged frames ends within one turn of the ring.
LEMMA LastStepType ==
    ASSUME NEW h \in History, NEW r \in SeqNum
    PROVE  LastStep(h, r) \in Index
<1> DEFINE S == {k \in Index : StopsAt(h, r, k)}
<1>1. S # {}
  <2>1. PICK k \in Index : Offset(h.ackIndex, k + 1) = h.writeIndex
    BY OffsetReaches DEF History
  <2> QED BY <2>1 DEF StopsAt
<1>2. PICK k \in S : \A j \in S : k <= j
  BY <1>1, LeastIndex
<1>3. \A j \in 0 .. k - 1 : ~StopsAt(h, r, j)
  BY <1>2, HistoryAssumption DEF Index
<1>4. \E n \in Index : StopsAt(h, r, n) /\ \A j \in 0 .. n - 1 : ~StopsAt(h, r, j)
  BY <1>2, <1>3
<1> QED BY <1>4 DEF LastStep

LEMMA deleteAckedType ==
    ASSUME NEW h \in History, NEW r \in SeqNum
    PROVE  deleteAckedFrameFromHistory(h, r) \in History
<1> DEFINE k     == LastStep(h, r)
           freed == IF Covered(h, r, k) THEN k + 1 ELSE k
<1>1. k \in Index BY LastStepType
<1>2. freed \in 0 .. HistorySize BY <1>1, HistoryAssumption DEF Index
<1>3. Offset(h.ackIndex, freed) \in Index BY <1>2, OffsetType DEF History
<1>4. h.freeEntries + freed \in Nat BY <1>2, HistoryAssumption DEF History
<1> HIDE DEF k, freed
<1>5. [h EXCEPT !.freeEntries = @ + freed,
                !.sized = @ \ {Offset(h.ackIndex, j) : j \in 0 .. freed - 1},
                !.ackIndex = IF Covered(h, r, k) THEN Offset(@, freed) ELSE @] \in History
  BY <1>3, <1>4 DEF History
<1> QED BY <1>5 DEF deleteAckedFrameFromHistory, k, freed

LEMMA addFrameType ==
    ASSUME NEW h \in History, NEW f \in Frame
    PROVE  addFrameToHistory(h, f) \in History
<1>1. NextIndex(h.writeIndex) \in Index
  BY HistoryAssumption DEF History, Index, NextIndex
<1>2. CASE h.freeEntries > 0
  <2>1. h.freeEntries - 1 \in Nat BY <1>2 DEF History
  <2> QED BY <1>1, <1>2, <2>1 DEF History, addFrameToHistory
<1>3. CASE ~(h.freeEntries > 0)
  BY <1>3 DEF addFrameToHistory
<1> QED BY <1>2, <1>3

LEMMA initHistoryType ==
    ASSUME NEW h \in History
    PROVE  initHistory(h) \in History
<1>1. HistorySize \in Nat /\ 0 \in Index BY HistoryAssumption DEF Index
<1> QED BY <1>1 DEF initHistory, History

LEMMA readFromHistoryType ==
    ASSUME NEW h \in History
    PROVE  readFromHistory(h) \in Seq(Frame)
<1> DEFINE Ends(k) == \/ Offset(h.ackIndex, k) = h.writeIndex
                      \/ Offset(h.ackIndex, k) \notin h.sized
           S == {k \in Index : Ends(k)}
<1>1. S # {}
  <2>1. PICK k \in Index : Offset(h.ackIndex, k) = h.writeIndex
    BY OffsetReaches DEF History
  <2> QED BY <2>1
<1>2. PICK k \in S : \A j \in S : k <= j
  BY <1>1, LeastIndex
<1>3. \A j \in 0 .. k - 1 : ~Ends(j)
  BY <1>2, HistoryAssumption DEF Index
<1>4. \E n \in Index : Ends(n) /\ \A j \in 0 .. n - 1 : ~Ends(j)
  BY <1>2, <1>3
<1>5. ReadCount(h) \in Index
  BY <1>4, HistoryAssumption DEF ReadCount, Index
<1>6. \A i \in 1 .. ReadCount(h) : h.frame[Offset(h.ackIndex, i - 1)] \in Frame
  <2> SUFFICES ASSUME NEW i \in 1 .. ReadCount(h)
               PROVE  h.frame[Offset(h.ackIndex, i - 1)] \in Frame
    OBVIOUS
  <2>1. i - 1 \in 0 .. HistorySize BY <1>5, HistoryAssumption DEF Index
  <2>2. Offset(h.ackIndex, i - 1) \in Index BY <2>1, OffsetType DEF History
  <2> QED BY <2>2 DEF History
<1>7. readFromHistory(h) \in [1 .. ReadCount(h) -> Frame]
  BY <1>6 DEF readFromHistory
<1>8. ReadCount(h) \in Nat BY <1>5, HistoryAssumption DEF Index
<1> QED BY <1>7, <1>8, SeqDef

-----------------------------------------------------------------------------
(* Steps.  A step of node p is an effect record that Commit writes back;   *)
(* an effect is good when it has its type and fits the state it leads to.  *)

Timer == {"off", "running", "fired", "refused"}

Good(e) ==
    /\ e.c \in Con /\ e.out \in Seq(Frame) /\ e.timer \in Timer
    /\ e.up \in BOOLEAN /\ e.data \in Nat
    /\ e.up <=> Established(e.c)
    /\ e.c.sdoSeqState # "Idle" => e.timer # "off"
    /\ e.c.sdoSeqState = "WaitAck" => e.c.recvCon = 2

\* The inductive invariant, and the part of it that Commit is responsible for.
Inv == TypeOK /\ ViewMatches /\ TimerArmed /\ WaitAckScon
Committed ==
    /\ con \in [Node -> Con] /\ timer \in [Node -> Timer] /\ chan \in [Node -> Seq(Frame)]
    /\ up \in [Node -> BOOLEAN] /\ got \in [Node -> [last : Nat, again : BOOLEAN]]
    /\ ViewMatches /\ TimerArmed /\ WaitAckScon

LEMMA OtherType == \A p \in Node : Other(p) \in Node
BY SdoSeqAssumption DEF Other

LEMMA CarryType ==
    ASSUME NEW q \in Seq(Frame)
    PROVE  Carry(q) \in Seq(Frame)
<1> DEFINE n == IF Len(q) > ChanCap THEN ChanCap ELSE Len(q)
<1>1. n \in Nat /\ n <= Len(q) BY SdoSeqAssumption
<1> HIDE DEF n
<1>2. \A i \in 1 .. n : q[i] \in Frame BY <1>1, ElementOfSeq
<1>3. SubSeq(q, 1, n) \in Seq(Frame) BY <1>1, <1>2, SubSeqProperties
<1> QED BY <1>3 DEF Carry, n

LEMMA CommitGood ==
    ASSUME Committed, NEW p \in Node, NEW net \in [Node -> Seq(Frame)],
           NEW e, Good(e), Commit(p, net, e)
    PROVE  Committed'
<1>1. con' \in [Node -> Con] BY DEF Committed, Good, Commit
<1> PICK t \in TimerOutcome(e.timer) : timer' = [timer EXCEPT ![p] = t] BY DEF Commit
<1>9. t \in Timer /\ (e.timer # "off" => t # "off") BY DEF TimerOutcome, Good, Timer
<1>2. timer' \in [Node -> Timer] BY <1>9 DEF Committed
<1>3. chan' \in [Node -> Seq(Frame)]
  <2>1. net[Other(p)] \o e.out \in Seq(Frame) BY OtherType, ConcatProperties DEF Good
  <2>2. Carry(net[Other(p)] \o e.out) \in Seq(Frame) BY <2>1, CarryType
  <2> QED BY <2>2 DEF Commit
<1>4. up' \in [Node -> BOOLEAN] BY DEF Committed, Good, Commit
<1>5. got' \in [Node -> [last : Nat, again : BOOLEAN]]
  BY DEF Committed, Good, Commit, Deliver
<1>6. ViewMatches'
  <2> SUFFICES ASSUME NEW q \in Node PROVE up'[q] <=> Established(con'[q])
    BY DEF ViewMatches
  <2>1. CASE q = p BY <2>1 DEF Committed, Good, Commit
  <2>2. CASE q # p
    <3>1. up'[q] = up[q] /\ con'[q] = con[q] BY <2>2 DEF Committed, Commit
    <3> QED BY <3>1 DEF Committed, ViewMatches
  <2> QED BY <2>1, <2>2
<1>7. TimerArmed' BY <1>9 DEF TimerArmed, Committed, Good, Commit
<1>8. WaitAckScon' BY DEF WaitAckScon, Committed, Good, Commit
<1> QED BY <1>1, <1>2, <1>3, <1>4, <1>5, <1>6, <1>7, <1>8 DEF Committed

\* Building blocks of the effects.
LEMMA HeaderFrameType ==
    ASSUME NEW c \in Con, NEW tag \in Nat
    PROVE  HeaderFrame(c, tag) \in Frame
BY DEF HeaderFrame, Frame, Con

LEMMA AdoptType ==
    ASSUME NEW c \in Con, NEW f \in Frame
    PROVE  Adopt(c, f) \in Con
BY DEF Adopt, Frame, Con

LEMMA OneFrame ==
    ASSUME NEW f \in Frame
    PROVE  <<f>> \in Seq(Frame)
OBVIOUS

LEMMA ZeroConType == ASSUME NEW n \in Nat PROVE ZeroCon(n) \in Con
<1>1. NoFrame \in Frame
  BY HistoryAssumption DEF NoFrame, Frame, SeqNum, ConBits
<1>2. ZeroHistory(n) \in History
  BY <1>1, HistoryAssumption DEF ZeroHistory, History, Index
<1> QED
  BY <1>2, HistoryAssumption, SdoSeqAssumption DEF ZeroCon, Con, State, SeqNum, ConBits

LEMMA ClosedGood ==
    ASSUME NEW out \in Seq(Frame)
    PROVE  Good(Closed(out))
<1>1. ZeroCon(HistorySize) \in Con BY ZeroConType, HistoryAssumption
<1> QED BY <1>1 DEF Good, Closed, Timer, Established, ZeroCon

LEMMA CloseFrameType ==
    ASSUME NEW c \in Con
    PROVE  <<CloseFrame(c)>> \in Seq(Frame)
BY DEF CloseFrame, HeaderFrame, Frame, Con, ConBits

LEMMA AdvanceType ==
    ASSUME NEW c \in Con
    PROVE  Advance(c) \in Con
<1>1. NextSeq(c.recvSeq) \in SeqNum BY HistoryAssumption DEF Con, NextSeq, SeqNum
<1>2. (IF c.history.freeEntries <= 1 THEN 3 ELSE c.recvCon) \in ConBits BY DEF Con, ConBits
<1> QED BY <1>1, <1>2 DEF Advance, Con

\* A frame sent in state Connected leaves an established connection.
LEMMA AfterSendType ==
    ASSUME NEW c \in Con, c.sdoSeqState = "Connected", NEW tag \in Nat
    PROVE  /\ AfterSend(c, tag) \in Con /\ Established(AfterSend(c, tag))
           /\ AfterSend(c, tag).sdoSeqState = "WaitAck" => AfterSend(c, tag).recvCon = 2
<1> DEFINE a == Advance(c)
           h == addFrameToHistory(a.history, HeaderFrame(a, tag))
           scon == IF a.recvCon = 3 THEN 2 ELSE a.recvCon
           st == IF c.history.freeEntries <= 1 THEN "WaitAck" ELSE a.sdoSeqState
<1>1. a \in Con BY AdvanceType
<1>2. h \in History BY <1>1, HeaderFrameType, addFrameType DEF Con
<1>3. scon \in ConBits BY <1>1 DEF Con, ConBits
<1>4. st \in {"Connected", "WaitAck"} BY DEF Advance, Con
<1>5. st = "WaitAck" => scon = 2
  <2>1. c.history.freeEntries <= 1 => a.recvCon = 3 BY DEF Advance, Con
  <2>2. ~(c.history.freeEntries <= 1) => st = "Connected" BY DEF Advance, Con
  <2> QED BY <2>1, <2>2
<1>6. AfterSend(c, tag) = [a EXCEPT !.recvCon = scon, !.history = h, !.sdoSeqState = st]
  BY <1>1 DEF AfterSend, Con
<1> HIDE DEF a, h, scon, st
<1> QED BY <1>1, <1>2, <1>3, <1>4, <1>5, <1>6 DEF Con, State, Established

-----------------------------------------------------------------------------
(* One lemma per handler.                                                  *)

LEMMA InvCommitted == Inv => Committed /\ budget \in Budget
BY DEF Inv, TypeOK, Committed, Budget, Timer

LEMMA SpendSendType ==
    ASSUME budget \in Budget, NEW ok \in SendOutcome, SpendSend(ok)
    PROVE  budget' \in Budget
<1>1. CASE ok = TRUE BY <1>1 DEF SpendSend
<1>2. CASE ok = FALSE
  <2>1. budget.sendFail > 0 BY <1>2 DEF SendOutcome
  <2>2. budget.sendFail - 1 \in Nat BY <2>1 DEF Budget
  <2> QED BY <1>2, <2>2 DEF SpendSend, Budget
<1> QED BY <1>1, <1>2 DEF SendOutcome

LEMMA ReceivedType ==
    ASSUME Inv, NEW p \in Node, chan[p] # <<>>
    PROVE  /\ Head(chan[p]) \in Frame
           /\ [chan EXCEPT ![p] = Tail(@)] \in [Node -> Seq(Frame)]
<1>1. chan[p] \in Seq(Frame) BY InvCommitted DEF Committed
<1>2. Head(chan[p]) \in Frame /\ Tail(chan[p]) \in Seq(Frame) BY <1>1, HeadTailProperties
<1> QED BY <1>2, InvCommitted DEF Committed

LEMMA AnswerStep ==
    ASSUME Inv, NEW p \in Node, chan[p] # <<>>, NEW c \in Con, NEW f \in Frame,
           NEW next \in {"Init2", "Init3", "Connected"}, f.rCon \in {0, 1},
           c.sdoSeqState \in {"Idle", "Init1", "Init2", "Init3"},
           c.sdoSeqState # "Idle" => timer[p] # "off",
           Answer(p, c, f, next)
    PROVE  Committed' /\ budget' \in Budget
<1> DEFINE a == [Adopt(c, f) EXCEPT !.recvCon = @ + 1]
           b == [a EXCEPT !.sdoSeqState = next,
                          !.history = IF next = "Connected" THEN initHistory(@) ELSE @]
           net == [chan EXCEPT ![p] = Tail(@)]
           yes == [c |-> b, out |-> <<HeaderFrame(a, 0)>>, timer |-> "running",
                   up |-> next = "Connected", data |-> 0]
           no  == [c |-> a, out |-> <<>>,
                   timer |-> IF c.sdoSeqState = "Idle" THEN "off" ELSE timer[p],
                   up |-> FALSE, data |-> 0]
<1>1. a \in Con /\ a.sdoSeqState = c.sdoSeqState
  <2>1. f.rCon + 1 \in ConBits BY DEF ConBits
  <2> QED BY <2>1, AdoptType DEF Adopt, Con
<1>2. b \in Con /\ b.sdoSeqState = next
  <2>1. initHistory(a.history) \in History
    BY <1>1, initHistoryType DEF Con
  <2> HIDE DEF a
  <2> QED BY <1>1, <2>1 DEF Con, State
<1>3. <<HeaderFrame(a, 0)>> \in Seq(Frame) BY <1>1, HeaderFrameType, OneFrame
<1>4. timer[p] \in Timer BY InvCommitted DEF Committed
<1>5. Good(yes) BY <1>2, <1>3 DEF Good, Timer, Established
<1>6. Good(no) BY <1>1, <1>4, EmptySeq DEF Good, Timer, Established
<1>7. net \in [Node -> Seq(Frame)] BY ReceivedType
<1>8. PICK ok \in SendOutcome : SpendSend(ok) /\ Commit(p, net, IF ok THEN yes ELSE no)
  BY DEF Answer
<1> HIDE DEF net, yes, no
<1>9. Committed' BY <1>5, <1>6, <1>7, <1>8, InvCommitted, CommitGood
<1> QED BY <1>8, <1>9, InvCommitted, SpendSendType

LEMMA RejectStep ==
    ASSUME Inv, NEW p \in Node, chan[p] # <<>>, NEW c \in Con, NEW f \in Frame,
           RejectInit(p, c, f)
    PROVE  Committed' /\ budget' \in Budget
<1> DEFINE out == IF f.rCon = 0 /\ f.sCon = 0 THEN <<>> ELSE <<CloseFrame(Adopt(c, f))>>
           net == [chan EXCEPT ![p] = Tail(@)]
<1>1. out \in Seq(Frame) BY AdoptType, CloseFrameType
<1>2. net \in [Node -> Seq(Frame)] BY ReceivedType
<1>3. Commit(p, net, Closed(out)) /\ budget' = budget BY DEF RejectInit
<1> HIDE DEF out, net
<1> QED BY <1>1, <1>2, <1>3, ClosedGood, InvCommitted, CommitGood

LEMMA RecvIdleStep ==
    ASSUME Inv, NEW p \in Node, chan[p] # <<>>, NEW c \in Con, NEW f \in Frame,
           c.sdoSeqState = "Idle", RecvIdle(p, c, f)
    PROVE  Committed' /\ budget' \in Budget
<1>1. CASE IsInit(f) /\ Answer(p, c, f, "Init2") BY <1>1, AnswerStep DEF IsInit
<1>2. CASE ~IsInit(f) /\ RejectInit(p, c, f) BY <1>2, RejectStep
<1> QED BY <1>1, <1>2 DEF RecvIdle

LEMMA RecvInit1Step ==
    ASSUME Inv, NEW p \in Node, chan[p] # <<>>, NEW c \in Con, NEW f \in Frame,
           c.sdoSeqState = "Init1", timer[p] # "off", RecvInit1(p, c, f)
    PROVE  Committed' /\ budget' \in Budget
<1>1. CASE f.rCon = 1 /\ Answer(p, c, f, "Init3") BY <1>1, AnswerStep
<1>2. CASE IsInit(f) /\ Answer(p, c, f, "Init2") BY <1>2, AnswerStep DEF IsInit
<1>3. CASE RejectInit(p, c, f) BY <1>3, RejectStep
<1> QED BY <1>1, <1>2, <1>3 DEF RecvInit1

LEMMA RecvInit2Step ==
    ASSUME Inv, NEW p \in Node, chan[p] # <<>>, NEW c \in Con, NEW f \in Frame,
           c.sdoSeqState = "Init2", timer[p] # "off", RecvInit2(p, c, f)
    PROVE  Committed' /\ budget' \in Budget
<1>1. CASE f.rCon = 1 /\ Answer(p, c, f, "Connected") BY <1>1, AnswerStep
<1>2. CASE f.rCon = 1 /\ Answer(p, c, f, "Init3") BY <1>2, AnswerStep
<1>3. CASE RejectInit(p, c, f) BY <1>3, RejectStep
<1> QED BY <1>1, <1>2, <1>3 DEF RecvInit2

LEMMA RecvInit3Step ==
    ASSUME Inv, NEW p \in Node, chan[p] # <<>>, NEW c \in Con, NEW f \in Frame,
           c.sdoSeqState = "Init3", timer[p] # "off", RecvInit3(p, c, f)
    PROVE  Committed' /\ budget' \in Budget
<1> DEFINE net == [chan EXCEPT ![p] = Tail(@)]
           d == [Adopt(c, f) EXCEPT !.sdoSeqState = "Connected", !.history = initHistory(@)]
           e == [c |-> d, out |-> <<>>, timer |-> "running", up |-> TRUE, data |-> 0]
<1>1. CASE Commit(p, net, e) /\ UNCHANGED budget
  <2>1. initHistory(Adopt(c, f).history) \in History
    BY AdoptType, initHistoryType DEF Con
  <2>2. d \in Con /\ d.sdoSeqState = "Connected" BY <2>1, AdoptType DEF Con, State
  <2>3. Good(e) BY <2>2, EmptySeq DEF Good, Timer, Established
  <2>4. net \in [Node -> Seq(Frame)] BY ReceivedType
  <2> HIDE DEF net, e
  <2> QED BY <1>1, <2>3, <2>4, InvCommitted, CommitGood
<1>2. CASE f.rCon = 1 /\ Answer(p, c, f, "Connected") BY <1>2, AnswerStep
<1>3. CASE RejectInit(p, c, f) BY <1>3, RejectStep
<1> QED BY <1>1, <1>2, <1>3 DEF RecvInit3

LEMMA ReinitStep ==
    ASSUME Inv, NEW p \in Node, chan[p] # <<>>, NEW c \in Con, NEW f \in Frame,
           Reinit(p, c, f)
    PROVE  Committed' /\ budget' \in Budget
<1> DEFINE d == [c EXCEPT !.sdoSeqState = "Idle",
                          !.history = deleteAckedFrameFromHistory(@, f.rSeq)]
<1>1. deleteAckedFrameFromHistory(c.history, f.rSeq) \in History
  BY deleteAckedType DEF Con, Frame
<1>2. d \in Con /\ d.sdoSeqState = "Idle" BY <1>1 DEF Con, State
<1>3. RecvIdle(p, d, f) BY DEF Reinit
<1> HIDE DEF d
<1> QED BY <1>2, <1>3, RecvIdleStep

\* Resending the history leaves the connection as it is.
LEMMA ResendStep ==
    ASSUME Inv, NEW p \in Node, chan[p] # <<>>, NEW c \in Con, NEW f \in Frame,
           Established(c), up[p], c.sdoSeqState = "WaitAck" => c.recvCon = 2,
           ResendFails(p, c, f)
    PROVE  Committed' /\ budget' \in Budget /\ sent' = sent
<1> DEFINE net == [chan EXCEPT ![p] = Tail(@)]
           frames == readFromHistory(c.history)
           e(k) == [c |-> c, out |-> SubSeq(frames, 1, k), timer |-> "running",
                    up |-> up[p], data |-> 0]
<1>1. frames \in Seq(Frame) BY readFromHistoryType DEF Con
<1> HIDE DEF frames
<1>2. PICK k \in 0 .. Len(frames) - 1 : Commit(p, net, e(k)) BY DEF ResendFails, frames
<1>3. SubSeq(frames, 1, k) \in Seq(Frame)
  <2>1. k \in Int /\ \A i \in 1 .. k : frames[i] \in Frame BY <1>1, ElementOfSeq
  <2> QED BY <2>1, SubSeqProperties
<1>4. Good(e(k)) BY <1>3 DEF Good, Timer, Established
<1>5. net \in [Node -> Seq(Frame)] BY ReceivedType
<1>6. budget' \in Budget
  <2>1. budget.sendFail - 1 \in Nat BY InvCommitted DEF ResendFails, Budget
  <2> QED BY <2>1, InvCommitted DEF ResendFails, Budget
<1> HIDE DEF net, e
<1> QED BY <1>2, <1>4, <1>5, <1>6, InvCommitted, CommitGood DEF ResendFails

\* The entry after a callback that may have sent a frame.
LEMMA ReplyType ==
    ASSUME Inv, NEW p \in Node, NEW c \in Con, Established(c),
           c.sdoSeqState = "WaitAck" => c.recvCon = 2, NEW tag \in Replies(p, c)
    PROVE  LET b == IF tag = 0 THEN c ELSE AfterSend(c, tag)
               reply == IF tag = 0 THEN <<>> ELSE <<HeaderFrame(Advance(c), tag)>>
           IN  /\ b \in Con /\ Established(b) /\ (b.sdoSeqState = "WaitAck" => b.recvCon = 2)
               /\ reply \in Seq(Frame)
               /\ tag # 0 => [sent EXCEPT ![p] = tag] \in [Node -> Nat]
<1>1. sent \in [Node -> Nat] BY DEF Inv, TypeOK
<1>2. CASE tag = 0 BY <1>2, EmptySeq
<1>3. CASE tag # 0
  <2>1. tag = sent[p] + 1 /\ c.sdoSeqState = "Connected" BY <1>3 DEF Replies
  <2>2. tag \in Nat BY <1>1, <2>1
  <2>3. <<HeaderFrame(Advance(c), tag)>> \in Seq(Frame)
    BY <2>2, AdvanceType, HeaderFrameType, OneFrame
  <2> QED BY <1>1, <1>3, <2>1, <2>2, <2>3, AfterSendType
<1> QED BY <1>2, <1>3

LEMMA RecvDataStep ==
    ASSUME Inv, NEW p \in Node, chan[p] # <<>>, NEW c \in Con, NEW f \in Frame,
           c.sdoSeqState = "Connected", up[p], RecvData(p, c, f)
    PROVE  Committed' /\ budget' \in Budget /\ sent' \in [Node -> Nat]
<1> DEFINE net == [chan EXCEPT ![p] = Tail(@)]
           resent == IF f.rCon = 3 THEN readFromHistory(c.history) ELSE <<>>
           ack(d) == IF f.sCon = 3 THEN <<HeaderFrame(d, 0)>> ELSE <<>>
<1>1. net \in [Node -> Seq(Frame)] BY ReceivedType
<1>2. resent \in Seq(Frame) BY readFromHistoryType, EmptySeq DEF Con
<1>3. \A d \in Con : ack(d) \in Seq(Frame) BY HeaderFrameType, OneFrame, EmptySeq
<1>4. sent \in [Node -> Nat] BY DEF Inv, TypeOK
<1>5. f.data \in Nat BY DEF Frame
<1> HIDE DEF net, resent
<1>6. budget' = budget BY DEF RecvData
<1>7. CASE InSequence(c, f)
  <2> DEFINE a == [c EXCEPT !.sendSeq = f.sSeq, !.sendCon = 2]
             b(tag) == IF tag = 0 THEN a ELSE AfterSend(a, tag)
             reply(tag) == IF tag = 0 THEN <<>> ELSE <<HeaderFrame(Advance(a), tag)>>
             e(tag) == [c |-> b(tag), out |-> resent \o reply(tag) \o ack(b(tag)),
                        timer |-> "running", up |-> up[p], data |-> f.data]
  <2>1. a \in Con /\ a.sdoSeqState = "Connected"
    <3>1. f.sSeq \in SeqNum /\ 2 \in ConBits BY DEF Frame, ConBits
    <3> QED BY <3>1 DEF Con
  <2>2. PICK tag \in Replies(p, a) :
            /\ Commit(p, net, e(tag))
            /\ sent' = IF tag = 0 THEN sent ELSE [sent EXCEPT ![p] = tag]
    BY <1>7 DEF RecvData, net, resent
  <2>3. /\ b(tag) \in Con /\ Established(b(tag))
        /\ b(tag).sdoSeqState = "WaitAck" => b(tag).recvCon = 2
        /\ reply(tag) \in Seq(Frame)
        /\ tag # 0 => [sent EXCEPT ![p] = tag] \in [Node -> Nat]
    BY <2>1, ReplyType DEF Established
  <2> HIDE DEF b, reply
  <2>4. resent \o reply(tag) \o ack(b(tag)) \in Seq(Frame)
    <3>1. resent \o reply(tag) \in Seq(Frame) BY <1>2, <2>3, ConcatProperties
    <3>2. ack(b(tag)) \in Seq(Frame) BY <1>3, <2>3
    <3> QED BY <3>1, <3>2, ConcatProperties
  <2>5. Good(e(tag)) BY <1>5, <2>3, <2>4 DEF Good, Timer, Established
  <2> HIDE DEF e
  <2> QED BY <1>1, <1>4, <1>6, <2>2, <2>3, <2>5, InvCommitted, CommitGood
<1>8. CASE ~InSequence(c, f) /\ IsGap(c, f)
  <2> DEFINE d == [c EXCEPT !.sendCon = 2]
             nack == <<HeaderFrame([c EXCEPT !.sendCon = 3], 0)>>
             e == [c |-> d, out |-> resent \o nack, timer |-> "running", up |-> up[p], data |-> 0]
  <2>1. Commit(p, net, e) /\ sent' = sent BY <1>8 DEF RecvData, net, resent
  <2>2. d \in Con /\ d.sdoSeqState = "Connected" BY DEF Con, ConBits
  <2>3. [c EXCEPT !.sendCon = 3] \in Con BY DEF Con, ConBits
  <2>4. nack \in Seq(Frame) BY <2>3, HeaderFrameType, OneFrame
  <2>5. resent \o nack \in Seq(Frame) BY <1>2, <2>4, ConcatProperties
  <2>6. Good(e) BY <2>2, <2>5 DEF Good, Timer, Established
  <2> HIDE DEF e
  <2> QED BY <1>1, <1>4, <1>6, <2>1, <2>6, InvCommitted, CommitGood
<1>9. CASE ~InSequence(c, f) /\ ~IsGap(c, f)
  <2> DEFINE e == [c |-> c, out |-> resent \o ack(c), timer |-> "running", up |-> up[p], data |-> 0]
  <2>1. Commit(p, net, e) /\ sent' = sent BY <1>9 DEF RecvData, net, resent
  <2>2. ack(c) \in Seq(Frame) BY <1>3
  <2>3. resent \o ack(c) \in Seq(Frame) BY <1>2, <2>2, ConcatProperties
  <2>4. Good(e) BY <2>3 DEF Good, Timer, Established
  <2> HIDE DEF e
  <2> QED BY <1>1, <1>4, <1>6, <2>1, <2>4, InvCommitted, CommitGood
<1> QED BY <1>7, <1>8, <1>9

LEMMA RecvConnectedStep ==
    ASSUME Inv, NEW p \in Node, chan[p] # <<>>, NEW c \in Con, NEW f \in Frame,
           c.sdoSeqState = "Connected", up[p], RecvConnected(p, c, f)
    PROVE  Committed' /\ budget' \in Budget /\ sent' \in [Node -> Nat]
<1>1. sent \in [Node -> Nat] BY DEF Inv, TypeOK
<1>2. CASE Commit(p, [chan EXCEPT ![p] = Tail(@)], Closed(<<>>)) /\ UNCHANGED <<sent, budget>>
  <2>1. Good(Closed(<<>>)) BY ClosedGood, EmptySeq
  <2> QED BY <1>1, <1>2, <2>1, ReceivedType, InvCommitted, CommitGood
<1>3. CASE Reinit(p, c, f) /\ UNCHANGED sent BY <1>1, <1>3, ReinitStep
<1>4. CASE RecvData(p, c, f) BY <1>4, RecvDataStep
<1>5. CASE ResendFails(p, c, f) BY <1>1, <1>5, ResendStep DEF Established
<1> QED BY <1>2, <1>3, <1>4, <1>5 DEF RecvConnected

LEMMA RecvWaitAckStep ==
    ASSUME Inv, NEW p \in Node, chan[p] # <<>>, NEW c \in Con, NEW f \in Frame,
           c.sdoSeqState = "WaitAck", c.recvCon = 2, up[p], RecvWaitAck(p, c, f)
    PROVE  Committed' /\ budget' \in Budget /\ sent' \in [Node -> Nat]
<1> DEFINE net == [chan EXCEPT ![p] = Tail(@)]
<1>1. sent \in [Node -> Nat] BY DEF Inv, TypeOK
<1>2. net \in [Node -> Seq(Frame)] BY ReceivedType
<1>3. f.data \in Nat BY DEF Frame
<1>4. CASE Commit(p, net, Closed(<<>>)) /\ UNCHANGED <<sent, budget>>
  <2>1. Good(Closed(<<>>)) BY ClosedGood, EmptySeq
  <2> HIDE DEF net
  <2> QED BY <1>1, <1>2, <1>4, <2>1, InvCommitted, CommitGood
<1>5. CASE Reinit(p, c, f) /\ UNCHANGED sent BY <1>1, <1>5, ReinitStep
<1> DEFINE a == [c EXCEPT !.sdoSeqState = "Connected"]
           b(tag) == IF tag = 0 THEN a ELSE AfterSend(a, tag)
           reply(tag) == IF tag = 0 THEN <<>> ELSE <<HeaderFrame(Advance(a), tag)>>
           e(tag) == [c |-> b(tag), out |-> reply(tag), timer |-> "running",
                      up |-> up[p], data |-> f.data]
<1>6. CASE /\ budget' = budget
           /\ \E tag \in Replies(p, a) : /\ Commit(p, net, e(tag))
                                         /\ sent' = IF tag = 0 THEN sent ELSE [sent EXCEPT ![p] = tag]
  <2>1. a \in Con /\ a.sdoSeqState = "Connected" BY DEF Con, State
  <2>2. PICK tag \in Replies(p, a) : /\ Commit(p, net, e(tag))
                                     /\ sent' = IF tag = 0 THEN sent ELSE [sent EXCEPT ![p] = tag]
    BY <1>6
  <2>3. /\ b(tag) \in Con /\ Established(b(tag))
        /\ b(tag).sdoSeqState = "WaitAck" => b(tag).recvCon = 2
        /\ reply(tag) \in Seq(Frame)
        /\ tag # 0 => [sent EXCEPT ![p] = tag] \in [Node -> Nat]
    BY <2>1, ReplyType DEF Established
  <2> HIDE DEF net, b, reply
  <2>4. Good(e(tag)) BY <1>3, <2>3 DEF Good, Timer, Established
  <2> HIDE DEF e
  <2> QED BY <1>1, <1>2, <1>6, <2>2, <2>3, <2>4, InvCommitted, CommitGood
<1> DEFINE again == [c |-> c, out |-> readFromHistory(c.history), timer |-> "running",
                     up |-> TRUE, data |-> 0]
<1>7. CASE /\ f.rCon = 3 /\ UNCHANGED <<sent, budget>>
           /\ Commit(p, net, IF <<f.rSeq, f.rCon>> = <<c.recvSeq, c.recvCon>>
                             THEN AcceptAck(c, f) ELSE again)
  <2>1. Commit(p, net, again) BY <1>7
  <2>2. readFromHistory(c.history) \in Seq(Frame) BY readFromHistoryType DEF Con
  <2>3. Good(again) BY <2>2 DEF Good, Timer, Established
  <2> HIDE DEF net, again
  <2> QED BY <1>1, <1>2, <1>7, <2>1, <2>3, InvCommitted, CommitGood
<1>8. CASE ResendFails(p, c, f) BY <1>1, <1>8, ResendStep DEF Established
<1> HIDE DEF e, again
<1> QED BY <1>4, <1>5, <1>6, <1>7, <1>8 DEF RecvWaitAck, e, b, reply, again

LEMMA receiveCbStep ==
    ASSUME Inv, NEW p \in Node, receiveCb(p)
    PROVE  Inv'
<1> DEFINE f == Head(chan[p])
           c == [con[p] EXCEPT !.conHandle = TRUE,
                               !.history = deleteAckedFrameFromHistory(@, f.rSeq)]
<1>1. chan[p] # <<>> BY DEF receiveCb
<1>2. f \in Frame BY <1>1, ReceivedType
<1>3. con[p] \in Con /\ sent \in [Node -> Nat] BY DEF Inv, TypeOK
<1>4. deleteAckedFrameFromHistory(con[p].history, f.rSeq) \in History
  BY <1>2, <1>3, deleteAckedType DEF Con, Frame
<1>5. c \in Con /\ c.sdoSeqState = con[p].sdoSeqState /\ c.recvCon = con[p].recvCon
  BY <1>3, <1>4 DEF Con
<1>6. c.sdoSeqState # "Idle" => timer[p] # "off" BY <1>5 DEF Inv, TimerArmed
<1>7. Established(c) => up[p] BY <1>5 DEF Inv, ViewMatches, Established
<1>8. c.sdoSeqState = "WaitAck" => c.recvCon = 2 BY <1>5 DEF Inv, WaitAckScon
<1>9. \/ c.sdoSeqState = "Idle"  /\ RecvIdle(p, c, f) /\ UNCHANGED sent
      \/ c.sdoSeqState = "Init1" /\ RecvInit1(p, c, f) /\ UNCHANGED sent
      \/ c.sdoSeqState = "Init2" /\ RecvInit2(p, c, f) /\ UNCHANGED sent
      \/ c.sdoSeqState = "Init3" /\ RecvInit3(p, c, f) /\ UNCHANGED sent
      \/ c.sdoSeqState = "Connected" /\ RecvConnected(p, c, f)
      \/ c.sdoSeqState = "WaitAck"   /\ RecvWaitAck(p, c, f)
  BY DEF receiveCb
<1>10. timerEvent' \in [Node -> BOOLEAN] BY DEF receiveCb, Inv, TypeOK
<1> HIDE DEF f, c
<1>11. Committed' /\ budget' \in Budget /\ sent' \in [Node -> Nat]
  <2>1. CASE c.sdoSeqState = "Idle"  /\ RecvIdle(p, c, f) /\ UNCHANGED sent
    BY <1>1, <1>2, <1>3, <1>5, <2>1, RecvIdleStep
  <2>2. CASE c.sdoSeqState = "Init1" /\ RecvInit1(p, c, f) /\ UNCHANGED sent
    BY <1>1, <1>2, <1>3, <1>5, <1>6, <2>2, RecvInit1Step
  <2>3. CASE c.sdoSeqState = "Init2" /\ RecvInit2(p, c, f) /\ UNCHANGED sent
    BY <1>1, <1>2, <1>3, <1>5, <1>6, <2>3, RecvInit2Step
  <2>4. CASE c.sdoSeqState = "Init3" /\ RecvInit3(p, c, f) /\ UNCHANGED sent
    BY <1>1, <1>2, <1>3, <1>5, <1>6, <2>4, RecvInit3Step
  <2>5. CASE c.sdoSeqState = "Connected" /\ RecvConnected(p, c, f)
    BY <1>1, <1>2, <1>5, <1>7, <2>5, RecvConnectedStep DEF Established
  <2>6. CASE c.sdoSeqState = "WaitAck"   /\ RecvWaitAck(p, c, f)
    BY <1>1, <1>2, <1>5, <1>7, <1>8, <2>6, RecvWaitAckStep DEF Established
  <2> QED BY <1>9, <2>1, <2>2, <2>3, <2>4, <2>5, <2>6
<1> QED BY <1>10, <1>11 DEF Inv, TypeOK, Committed, Budget, Timer

-----------------------------------------------------------------------------
(* The command layer's calls, the timer and the environment.               *)

LEMMA initConStep ==
    ASSUME Inv, NEW p \in Node, sdoseq_initCon(p)
    PROVE  Inv'
<1> DEFINE c == [con[p] EXCEPT !.conHandle = TRUE, !.recvSeq = 0, !.recvCon = 1,
                               !.sendSeq = 0, !.sendCon = 0]
           yes == [c |-> [c EXCEPT !.sdoSeqState = "Init1"], out |-> <<HeaderFrame(c, 0)>>,
                   timer |-> "running", up |-> FALSE, data |-> 0]
           no == [c |-> c, out |-> <<>>, timer |-> timer[p], up |-> FALSE, data |-> 0]
<1>1. con[p] \in Con /\ con[p].sdoSeqState = "Idle" /\ timer[p] \in Timer
  BY DEF sdoseq_initCon, Inv, TypeOK, Timer
<1>2. c \in Con /\ c.sdoSeqState = "Idle"
  <2>1. 0 \in SeqNum /\ {0, 1} \subseteq ConBits BY HistoryAssumption DEF SeqNum, ConBits
  <2> QED BY <1>1, <2>1 DEF Con
<1>3. [c EXCEPT !.sdoSeqState = "Init1"] \in Con BY <1>2 DEF Con, State
<1>4. <<HeaderFrame(c, 0)>> \in Seq(Frame) BY <1>2, HeaderFrameType, OneFrame
<1>5. PICK ok \in SendOutcome :
         /\ budget' = [budget EXCEPT !.open[p] = @ - 1, !.sendFail = IF ok THEN @ ELSE @ - 1]
         /\ Commit(p, chan, IF ok THEN yes ELSE no)
  BY DEF sdoseq_initCon
<1> HIDE DEF c
<1>6. Good(yes) BY <1>2, <1>3, <1>4 DEF Good, Timer, Established, Con
<1>7. Good(no) BY <1>1, <1>2, EmptySeq DEF Good, Timer, Established
<1> HIDE DEF yes, no
<1>8. Committed'
  <2>1. chan \in [Node -> Seq(Frame)] BY InvCommitted DEF Committed
  <2>2. Good(IF ok THEN yes ELSE no) BY <1>6, <1>7
  <2> QED BY <1>5, <2>1, <2>2, InvCommitted, CommitGood
<1>9. budget' \in Budget
  <2>1. budget.open[p] - 1 \in Nat BY InvCommitted DEF sdoseq_initCon, Budget
  <2>2. (IF ok THEN budget.sendFail ELSE budget.sendFail - 1) \in Nat
    <3>1. budget.sendFail \in Nat BY InvCommitted DEF Budget
    <3>2. CASE ok = TRUE BY <3>1, <3>2
    <3>3. CASE ok = FALSE
      <4>1. budget.sendFail > 0 BY <3>3 DEF SendOutcome
      <4> QED BY <3>1, <3>3, <4>1
    <3> QED BY <3>2, <3>3 DEF SendOutcome
  <2> QED BY <1>5, <2>1, <2>2, InvCommitted DEF Budget
<1>10. timerEvent' \in [Node -> BOOLEAN] /\ sent' \in [Node -> Nat]
  BY DEF sdoseq_initCon, Inv, TypeOK
<1> QED BY <1>8, <1>9, <1>10 DEF Inv, TypeOK, Committed, Budget, Timer

LEMMA sendDataStep ==
    ASSUME Inv, NEW p \in Node, sdoseq_sendData(p)
    PROVE  Inv'
<1> DEFINE c == con[p]
           tag == sent[p] + 1
           e(ok) == [c |-> IF ok THEN AfterSend(c, tag) ELSE Advance(c),
                     out |-> IF ok THEN <<HeaderFrame(Advance(c), tag)>> ELSE <<>>,
                     timer |-> "running", up |-> up[p], data |-> 0]
<1>1. c \in Con /\ c.sdoSeqState = "Connected" /\ sent \in [Node -> Nat] /\ tag \in Nat
  BY DEF sdoseq_sendData, Inv, TypeOK
<1>2. up[p] = TRUE BY <1>1 DEF Inv, TypeOK, ViewMatches, Established
<1>3. PICK ok \in SendOutcome : SpendSend(ok) /\ Commit(p, chan, e(ok))
  BY DEF sdoseq_sendData
<1>4. sent' = [sent EXCEPT ![p] = tag] /\ timerEvent' = timerEvent BY DEF sdoseq_sendData
<1> HIDE DEF c, tag
<1>5. Good(e(TRUE))
  <2>1. <<HeaderFrame(Advance(c), tag)>> \in Seq(Frame)
    BY <1>1, AdvanceType, HeaderFrameType, OneFrame
  <2> QED BY <1>1, <1>2, <2>1, AfterSendType DEF Good, Timer, Established
<1>6. Good(e(FALSE))
  <2>1. Advance(c) \in Con /\ Advance(c).sdoSeqState = "Connected"
    BY <1>1, AdvanceType DEF Advance, Con
  <2> QED BY <1>2, <2>1, EmptySeq DEF Good, Timer, Established
<1> HIDE DEF e
<1>7. Committed'
  <2>1. chan \in [Node -> Seq(Frame)] BY InvCommitted DEF Committed
  <2> QED BY <1>3, <1>5, <1>6, <2>1, InvCommitted, CommitGood DEF SendOutcome
<1>8. budget' \in Budget BY <1>3, InvCommitted, SpendSendType
<1>9. timerEvent' \in [Node -> BOOLEAN] /\ sent' \in [Node -> Nat]
  BY <1>1, <1>4 DEF Inv, TypeOK
<1> QED BY <1>7, <1>8, <1>9 DEF Inv, TypeOK, Committed, Budget, Timer

LEMMA sendAckStep ==
    ASSUME Inv, NEW p \in Node, sdoseq_sendAck(p)
    PROVE  Inv'
<1> DEFINE e == [c |-> con[p], out |-> <<HeaderFrame(con[p], 0)>>,
                 timer |-> "running", up |-> up[p], data |-> 0]
<1>1. con[p] \in Con /\ con[p].sdoSeqState = "Connected" BY DEF sdoseq_sendAck, Inv, TypeOK
<1>2. up[p] = TRUE BY <1>1 DEF Inv, TypeOK, ViewMatches, Established
<1>3. <<HeaderFrame(con[p], 0)>> \in Seq(Frame) BY <1>1, HeaderFrameType, OneFrame
<1>4. Good(e) BY <1>1, <1>2, <1>3 DEF Good, Timer, Established
<1>5. Commit(p, chan, e) BY DEF sdoseq_sendAck
<1> HIDE DEF e
<1>6. Committed'
  BY <1>4, <1>5, InvCommitted, CommitGood DEF Committed
<1> QED BY <1>6 DEF Inv, TypeOK, Committed, Timer, sdoseq_sendAck

LEMMA deleteConStep ==
    ASSUME Inv, NEW p \in Node, sdoseq_deleteCon(p)
    PROVE  Inv'
<1> DEFINE out == IF con[p].sdoSeqState = "Connected" THEN <<CloseFrame(con[p])>> ELSE <<>>
<1>1. con[p] \in Con BY DEF Inv, TypeOK
<1>2. out \in Seq(Frame) BY <1>1, CloseFrameType, EmptySeq
<1>3. Commit(p, chan, Closed(out)) BY DEF sdoseq_deleteCon
<1> HIDE DEF out
<1>4. Committed'
  <2>1. chan \in [Node -> Seq(Frame)] BY InvCommitted DEF Committed
  <2> QED BY <1>2, <1>3, <2>1, ClosedGood, InvCommitted, CommitGood
<1>5. budget' \in Budget
  <2>1. budget.delete - 1 \in Nat BY InvCommitted DEF sdoseq_deleteCon, Budget
  <2> QED BY <2>1, InvCommitted DEF sdoseq_deleteCon, Budget
<1> QED BY <1>4, <1>5 DEF Inv, TypeOK, Committed, Budget, Timer, sdoseq_deleteCon

LEMMA RetryFirstStep ==
    ASSUME Inv, NEW p \in Node, con[p].sdoSeqState = "Connected",
           con[p].retryCount < RetryCount, RetryFirst(p, con[p])
    PROVE  Committed'
<1> DEFINE c == con[p]
           frames == readFromHistory(c.history)
           request == [frames[1] EXCEPT !.sCon = 3]
           d == [c EXCEPT !.retryCount = @ + 1]
           g == [c EXCEPT !.retryCount = @ + 1,
                          !.history.frame[c.history.ackIndex] = request]
           none == [c |-> d, out |-> <<>>, timer |-> "running", up |-> up[p], data |-> 0]
           some == [c |-> g, out |-> <<request>>, timer |-> "running", up |-> up[p], data |-> 0]
<1>1. c \in Con /\ c.sdoSeqState = "Connected" BY DEF Inv, TypeOK
<1>2. up[p] = TRUE BY <1>1 DEF Inv, TypeOK, ViewMatches, Established
<1>3. c.retryCount + 1 \in 0 .. RetryCount BY <1>1, SdoSeqAssumption DEF Con
<1>4. frames \in Seq(Frame) BY <1>1, readFromHistoryType DEF Con
<1>5. Commit(p, chan, IF frames = <<>> THEN none ELSE some) BY DEF RetryFirst
<1>6. chan \in [Node -> Seq(Frame)] BY InvCommitted DEF Committed
<1>7. CASE frames = <<>>
  <2>1. d \in Con /\ d.sdoSeqState = "Connected" BY <1>1, <1>3 DEF Con
  <2>2. Good(none) BY <1>2, <2>1, EmptySeq DEF Good, Timer, Established
  <2> HIDE DEF frames, none, some
  <2> QED BY <1>5, <1>6, <1>7, <2>2, InvCommitted, CommitGood
<1>8. CASE frames # <<>>
  <2>1. frames[1] \in Frame BY <1>4, <1>8, ElementOfSeq
  <2>2. request \in Frame BY <2>1 DEF Frame, ConBits
  <2>3. <<request>> \in Seq(Frame) BY <2>2, OneFrame
  <2> HIDE DEF frames, request
  <2>4. [c.history EXCEPT !.frame[c.history.ackIndex] = request] \in History
    BY <1>1, <2>2 DEF Con, History
  <2>5. g = [c EXCEPT !.retryCount = @ + 1,
                      !.history = [c.history EXCEPT !.frame[c.history.ackIndex] = request]]
    BY <1>1 DEF Con
  <2>6. g \in Con /\ g.sdoSeqState = "Connected" BY <1>1, <1>3, <2>4, <2>5 DEF Con
  <2> HIDE DEF g
  <2>7. Good(some) BY <1>2, <2>3, <2>6 DEF Good, Timer, Established
  <2> HIDE DEF none, some
  <2> QED BY <1>5, <1>6, <1>8, <2>7, InvCommitted, CommitGood
<1> QED BY <1>7, <1>8

LEMMA processEventStep ==
    ASSUME Inv, NEW p \in Node, sdoseq_processEvent(p)
    PROVE  Inv'
<1>1. con[p] \in Con /\ chan \in [Node -> Seq(Frame)] BY DEF Inv, TypeOK
<1>2. ASSUME con[p].sdoSeqState = "Connected", con[p].retryCount < RetryCount,
             RetryFirst(p, con[p])
      PROVE  Committed'
  BY <1>2, RetryFirstStep
<1>3. ASSUME Commit(p, chan, Closed(<<CloseFrame(con[p])>>))
      PROVE  Committed'
  BY <1>1, <1>3, CloseFrameType, ClosedGood, InvCommitted, CommitGood
<1>4. Committed' BY <1>2, <1>3 DEF sdoseq_processEvent
<1> QED BY <1>4 DEF Inv, TypeOK, Committed, Timer, sdoseq_processEvent

LEMMA TimerExpiresStep == ASSUME Inv, NEW p \in Node, TimerExpires(p) PROVE Inv'
<1>1. /\ timer' \in [Node -> Timer] /\ timerEvent' \in [Node -> BOOLEAN]
      /\ UNCHANGED <<con, chan, up, sent, got, budget>>
  BY DEF TimerExpires, Inv, TypeOK, Timer
<1>2. TimerArmed' BY DEF TimerExpires, TimerArmed, Inv, TypeOK
<1> QED BY <1>1, <1>2 DEF Inv, TypeOK, ViewMatches, WaitAckScon, Established, Timer

LEMMA StaleEventStep == ASSUME Inv, NEW p \in Node, StaleEvent(p) PROVE Inv'
BY DEF StaleEvent, Inv, TypeOK, TimerArmed, ViewMatches, WaitAckScon, Established

\* The network only touches the queues and the budget.
LEMMA NetworkStep ==
    ASSUME Inv, chan' \in [Node -> Seq(Frame)], budget' \in Budget,
           UNCHANGED <<con, timer, timerEvent, up, sent, got>>
    PROVE  Inv'
BY DEF Inv, TypeOK, TimerArmed, ViewMatches, WaitAckScon, Established, Budget

\* A part of a queue is a queue of frames.
LEMMA PartType ==
    ASSUME NEW q \in Seq(Frame), NEW i \in Nat, NEW j \in Nat, 1 <= i, j <= Len(q)
    PROVE  SubSeq(q, i, j) \in Seq(Frame)
<1>1. \A k \in i .. j : q[k] \in Frame BY ElementOfSeq
<1> QED BY <1>1, SubSeqProperties

LEMMA LoseStep == ASSUME Inv, NEW p \in Node, Lose(p) PROVE Inv'
<1>1. chan[p] \in Seq(Frame) BY InvCommitted DEF Committed
<1>2. PICK i \in 1 .. Len(chan[p]) :
         chan' = [chan EXCEPT ![p] = SubSeq(@, 1, i - 1) \o SubSeq(@, i + 1, Len(@))]
  BY DEF Lose
<1>3. SubSeq(chan[p], 1, i - 1) \in Seq(Frame) BY <1>1, PartType
<1>4. SubSeq(chan[p], i + 1, Len(chan[p])) \in Seq(Frame) BY <1>1, PartType
<1>5. SubSeq(chan[p], 1, i - 1) \o SubSeq(chan[p], i + 1, Len(chan[p])) \in Seq(Frame)
  BY <1>3, <1>4, ConcatProperties
<1>6. chan' \in [Node -> Seq(Frame)] BY <1>2, <1>5, InvCommitted DEF Committed
<1>7. budget' \in Budget
  <2>1. budget \in Budget BY InvCommitted
  <2>2. budget.loss \in Nat /\ budget.loss > 0 BY <2>1 DEF Lose, Budget
  <2>3. budget.loss - 1 \in Nat BY <2>2
  <2>4. budget' = [budget EXCEPT !.loss = budget.loss - 1] BY DEF Lose
  <2> QED BY <2>1, <2>3, <2>4 DEF Budget
<1> QED BY <1>6, <1>7, NetworkStep DEF Lose

LEMMA DuplicateStep == ASSUME Inv, NEW p \in Node, Duplicate(p) PROVE Inv'
<1>1. chan[p] \in Seq(Frame) BY InvCommitted DEF Committed
<1>2. PICK i \in 1 .. Len(chan[p]) :
         chan' = [chan EXCEPT ![p] = SubSeq(@, 1, i) \o SubSeq(@, i, Len(@))]
  BY DEF Duplicate
<1>3. SubSeq(chan[p], 1, i) \in Seq(Frame) BY <1>1, PartType
<1>4. SubSeq(chan[p], i, Len(chan[p])) \in Seq(Frame) BY <1>1, PartType
<1>5. SubSeq(chan[p], 1, i) \o SubSeq(chan[p], i, Len(chan[p])) \in Seq(Frame)
  BY <1>3, <1>4, ConcatProperties
<1>6. chan' \in [Node -> Seq(Frame)] BY <1>2, <1>5, InvCommitted DEF Committed
<1>7. budget' \in Budget
  <2>1. budget \in Budget BY InvCommitted
  <2>2. budget.dup \in Nat /\ budget.dup > 0 BY <2>1 DEF Duplicate, Budget
  <2>3. budget.dup - 1 \in Nat BY <2>2
  <2>4. budget' = [budget EXCEPT !.dup = budget.dup - 1] BY DEF Duplicate
  <2> QED BY <2>1, <2>3, <2>4 DEF Budget
<1> QED BY <1>6, <1>7, NetworkStep DEF Duplicate

LEMMA SwapStep == ASSUME Inv, NEW p \in Node, Swap(p) PROVE Inv'
<1> DEFINE q == chan[p]
<1>1. q \in Seq(Frame) BY InvCommitted DEF Committed
<1>2. PICK i \in 1 .. Len(q) - 1 :
         chan' = [chan EXCEPT ![p][i] = chan[p][i + 1], ![p][i + 1] = chan[p][i]]
  BY DEF Swap
<1> DEFINE r == [q EXCEPT ![i] = q[i + 1]]
<1>3. chan' = [chan EXCEPT ![p] = [r EXCEPT ![i + 1] = q[i]]]
  BY <1>2, InvCommitted DEF Committed
<1>4. q[i] \in Frame /\ q[i + 1] \in Frame BY <1>1, ElementOfSeq
<1>5. r \in Seq(Frame) /\ Len(r) = Len(q) BY <1>1, <1>4, ExceptSeq
<1>6. [r EXCEPT ![i + 1] = q[i]] \in Seq(Frame) BY <1>1, <1>4, <1>5, ExceptSeq
<1>7. chan' \in [Node -> Seq(Frame)] BY <1>3, <1>6, InvCommitted DEF Committed
<1>8. budget' \in Budget
  <2>1. budget \in Budget BY InvCommitted
  <2>2. budget.swap \in Nat /\ budget.swap > 0 BY <2>1 DEF Swap, Budget
  <2>3. budget.swap - 1 \in Nat BY <2>2
  <2>4. budget' = [budget EXCEPT !.swap = budget.swap - 1] BY DEF Swap
  <2> QED BY <2>1, <2>3, <2>4 DEF Budget
<1> QED BY <1>7, <1>8, NetworkStep DEF Swap

LEMMA RestartStep == ASSUME Inv, NEW p \in Node, Restart(p) PROVE Inv'
<1>1. con' \in [Node -> Con] /\ timer' \in [Node -> Timer] /\ timerEvent' \in [Node -> BOOLEAN]
  BY ZeroConType DEF Restart, Inv, TypeOK, Timer
<1>2. up' \in [Node -> BOOLEAN] /\ UNCHANGED <<chan, sent, got>> BY DEF Restart, Inv, TypeOK
<1>3. budget' \in Budget
  <2>1. budget.restart - 1 \in Nat BY InvCommitted DEF Restart, Budget
  <2> QED BY <2>1, InvCommitted DEF Restart, Budget
<1>4. ZeroCon(0).sdoSeqState = "Idle" BY DEF ZeroCon
<1>5. \A q \in Node : \/ con'[q] = ZeroCon(0) /\ ~up'[q]
                      \/ con'[q] = con[q] /\ up'[q] = up[q] /\ timer'[q] = timer[q]
  BY DEF Restart, Inv, TypeOK
<1>6. ViewMatches' /\ TimerArmed' /\ WaitAckScon'
  BY <1>4, <1>5 DEF ViewMatches, TimerArmed, WaitAckScon, Established, Inv
<1> QED BY <1>1, <1>2, <1>3, <1>6 DEF Inv, TypeOK, Budget, Timer

LEMMA InitInv == Init => Inv
<1> SUFFICES ASSUME Init PROVE Inv
  OBVIOUS
<1>1. con \in [Node -> Con] /\ ZeroCon(0).sdoSeqState = "Idle"
  BY ZeroConType DEF Init, ZeroCon
<1>2. chan \in [Node -> Seq(Frame)] BY EmptySeq DEF Init
<1>3. budget \in Budget BY SdoSeqAssumption DEF Init
<1>4. TypeOK BY <1>1, <1>2, <1>3 DEF Init, TypeOK, Budget
<1>5. ViewMatches /\ TimerArmed /\ WaitAckScon
  BY <1>1 DEF Init, ViewMatches, TimerArmed, WaitAckScon, Established
<1> QED BY <1>4, <1>5 DEF Inv

LEMMA InvStep == Inv /\ [Next]_vars => Inv'
<1> SUFFICES ASSUME Inv, [Next]_vars PROVE Inv'
  OBVIOUS
<1>1. CASE UNCHANGED vars
  BY <1>1 DEF vars, Inv, TypeOK, ViewMatches, TimerArmed, WaitAckScon, Established
<1>2. ASSUME NEW p \in Node, CommandLayer(p) PROVE Inv'
  BY <1>2, initConStep, sendDataStep, sendAckStep, deleteConStep DEF CommandLayer
<1>3. ASSUME NEW p \in Node, EventLoop(p) PROVE Inv'
  BY <1>3, receiveCbStep, TimerExpiresStep, StaleEventStep, processEventStep DEF EventLoop
<1>4. ASSUME NEW p \in Node, Environment(p) PROVE Inv'
  BY <1>4, LoseStep, DuplicateStep, SwapStep, RestartStep DEF Environment
<1> QED BY <1>1, <1>2, <1>3, <1>4 DEF Next

-----------------------------------------------------------------------------
THEOREM Invariance == Spec => []Inv
BY InitInv, InvStep, PTL DEF Spec

\* Every variable keeps its type: no sequence number, history index or retry counter of
\* sdo-sequ.c leaves its range, whatever the network does.
THEOREM TypeCorrect == Spec => []TypeOK
<1>1. Inv => TypeOK BY DEF Inv
<1> QED BY <1>1, Invariance, PTL

\* The command layer believes the connection to be up exactly when sdo-sequ.c is in
\* Connected or WaitAck: every way in and out calls its callback.
THEOREM ViewCorrect == Spec => []ViewMatches
<1>1. Inv => ViewMatches BY DEF Inv
<1> QED BY <1>1, Invariance, PTL

\* A connection that is not idle has a timer, or the last setTimer was refused: no way
\* through the state machine drops the timer or leaves a connection unwatched by itself.
THEOREM TimerCorrect == Spec => []TimerArmed
<1>1. Inv => TimerArmed BY DEF Inv
<1> QED BY <1>1, Invariance, PTL

\* In WaitAck the own scon bits are 2: the branch of processStateWaitAck that accepts a
\* frame with rcon 3 as the acknowledge is dead code.
THEOREM WaitAckSconCorrect == Spec => []WaitAckScon
<1>1. Inv => WaitAckScon BY DEF Inv
<1> QED BY <1>1, Invariance, PTL

-----------------------------------------------------------------------------
(* The history.  Its slots in use hold the last frames sent, without a     *)
(* hole: the numbers count up by one and end at the connection's own.      *)

Consecutive(h, s) ==
    LET n == UnackedCount(h)
    IN  /\ n \in 0 .. HistorySize
        /\ h.writeIndex = IF n = HistorySize THEN h.ackIndex ELSE Offset(h.ackIndex, n)
        /\ {Offset(h.ackIndex, k) : k \in 0 .. n - 1} \subseteq h.sized
        /\ \A k \in 0 .. n - 1 : Dist(s, h.frame[Offset(h.ackIndex, k)].sSeq) = n - 1 - k

\* Walking round the ring: a whole turn, two walks in a row, two slots on one walk.
LEMMA OffsetTurn ==
    ASSUME NEW i \in Index
    PROVE  Offset(i, HistorySize) = i /\ Offset(i, 0) = i
BY HistoryAssumption DEF Index, Offset

LEMMA OffsetAdd ==
    ASSUME NEW i \in Index, NEW a \in Nat, NEW b \in Nat, a + b <= HistorySize
    PROVE  Offset(Offset(i, a), b) = Offset(i, a + b)
BY HistoryAssumption DEF Index, Offset

LEMMA OffsetNext ==
    ASSUME NEW i \in Index, NEW k \in Index
    PROVE  NextIndex(Offset(i, k)) = Offset(i, k + 1)
BY HistoryAssumption DEF Index, Offset, NextIndex

LEMMA OffsetDiffers ==
    ASSUME NEW i \in Index, NEW j \in Nat, NEW k \in Nat, j < k, k - j < HistorySize,
           k <= HistorySize
    PROVE  Offset(i, j) # Offset(i, k)
BY HistoryAssumption DEF Index, Offset

LEMMA OffsetNat == \A i \in Index, k \in 0 .. HistorySize : Offset(i, k) \in Index
BY OffsetType

\* Distances between sequence numbers: the own number moves on by one, and a frame k
\* numbers further on is k nearer to any number that does not lie between the two.
LEMMA DistNext ==
    ASSUME NEW s \in SeqNum, NEW x \in SeqNum, Dist(s, x) + 1 < SeqMod
    PROVE  Dist(NextSeq(s), x) = Dist(s, x) + 1
BY HistoryAssumption DEF SeqNum, Dist, NextSeq

LEMMA DistNearer ==
    ASSUME NEW s \in SeqNum, NEW r \in SeqNum, NEW x \in SeqNum, NEW y \in SeqNum,
           NEW k \in Nat, Dist(s, y) = Dist(s, x) - k, k <= Dist(r, x)
    PROVE  Dist(r, y) = Dist(r, x) - k
BY HistoryAssumption DEF SeqNum, Dist

LEMMA DistType ==
    ASSUME NEW a \in SeqNum, NEW b \in SeqNum
    PROVE  Dist(a, b) \in SeqNum
BY HistoryAssumption DEF SeqNum, Dist

\* addFrameToHistory: a frame that finds a free slot and has the next number.
LEMMA addFrameKeeps ==
    ASSUME NEW h \in History, NEW s \in SeqNum, NEW f \in Frame, Consecutive(h, s),
           h.freeEntries > 0, f.sSeq = NextSeq(s)
    PROVE  Consecutive(addFrameToHistory(h, f), NextSeq(s))
<1> DEFINE n == UnackedCount(h)
           g == addFrameToHistory(h, f)
<1>1. n \in Index /\ n + 1 = UnackedCount(g) /\ n + 1 \in 0 .. HistorySize
  BY HistoryAssumption DEF Consecutive, UnackedCount, addFrameToHistory, History, Index
<1>2. h.ackIndex \in Index /\ h.writeIndex \in Index BY DEF History
<1>3. h.writeIndex = Offset(h.ackIndex, n) BY <1>1, HistoryAssumption DEF Consecutive, Index
<1>4. /\ g.ackIndex = h.ackIndex /\ g.writeIndex = NextIndex(h.writeIndex)
      /\ g.frame = [h.frame EXCEPT ![h.writeIndex] = f]
      /\ g.sized = h.sized \cup {h.writeIndex}
  BY DEF addFrameToHistory, History
<1>5. g.writeIndex = Offset(g.ackIndex, n + 1) BY <1>1, <1>2, <1>3, <1>4, OffsetNext
<1>6. n + 1 = HistorySize => Offset(g.ackIndex, n + 1) = g.ackIndex BY <1>2, <1>4, OffsetTurn
<1>7. \A k \in 0 .. n - 1 : /\ Offset(h.ackIndex, k) \in Index
                            /\ Offset(h.ackIndex, k) # h.writeIndex
                            /\ Offset(h.ackIndex, k) \in h.sized
                            /\ Dist(s, h.frame[Offset(h.ackIndex, k)].sSeq) = n - 1 - k
  <2> TAKE k \in 0 .. n - 1
  <2>1. k \in 0 .. HistorySize /\ k \in Nat /\ k < n /\ n - k < HistorySize /\ n <= HistorySize
        /\ n \in Nat
    BY <1>1, HistoryAssumption DEF Index
  <2>2. Offset(h.ackIndex, k) \in Index BY <1>2, <2>1, OffsetType
  <2>3. Offset(h.ackIndex, k) # h.writeIndex BY <1>2, <1>3, <2>1, OffsetDiffers
  <2> QED BY <2>2, <2>3 DEF Consecutive
<1>8. NextSeq(s) \in SeqNum /\ Dist(NextSeq(s), NextSeq(s)) = 0
  BY HistoryAssumption DEF NextSeq, SeqNum, Dist
<1>9. \A k \in 0 .. n : /\ Offset(g.ackIndex, k) \in g.sized
                        /\ Dist(NextSeq(s), g.frame[Offset(g.ackIndex, k)].sSeq) = n - k
  <2> TAKE k \in 0 .. n
  <2>1. CASE k = n
    <3>1. g.frame[h.writeIndex] = f BY <1>2, <1>4 DEF History
    <3> QED BY <1>1, <1>3, <1>4, <1>8, <2>1, <3>1 DEF Index
  <2>2. CASE k # n
    <3>1. k \in 0 .. n - 1 BY <1>1, <2>2, HistoryAssumption DEF Index
    <3> DEFINE x == h.frame[Offset(h.ackIndex, k)].sSeq
    <3>2. x \in SeqNum BY <1>7, <3>1 DEF History, Frame
    <3>3. Dist(s, x) = n - 1 - k BY <1>7, <3>1
    <3>4. Dist(s, x) + 1 < SeqMod BY <1>1, <3>1, <3>3, HistoryAssumption DEF Index
    <3>5. Dist(NextSeq(s), x) = n - k BY <1>1, <3>1, <3>2, <3>3, <3>4, DistNext DEF Index
    <3>6. g.frame[Offset(g.ackIndex, k)] = h.frame[Offset(h.ackIndex, k)]
      BY <1>4, <1>7, <3>1 DEF History
    <3> QED BY <1>4, <1>7, <3>1, <3>5, <3>6
  <2> QED BY <2>1, <2>2
<1> HIDE DEF n, g
<1>10. \A k \in 0 .. UnackedCount(g) - 1 :
          /\ Offset(g.ackIndex, k) \in g.sized
          /\ Dist(NextSeq(s), g.frame[Offset(g.ackIndex, k)].sSeq) = UnackedCount(g) - 1 - k
  BY <1>1, <1>9 DEF Index
<1> QED BY <1>1, <1>5, <1>6, <1>10 DEF Consecutive, g

\* Where the walk over acknowledged frames stops is determined.
LEMMA LastStepIs ==
    ASSUME NEW h \in History, NEW r \in SeqNum, NEW m \in Index, StopsAt(h, r, m),
           \A j \in 0 .. m - 1 : ~StopsAt(h, r, j)
    PROVE  LastStep(h, r) = m
<1> DEFINE P(k) == StopsAt(h, r, k) /\ \A j \in 0 .. k - 1 : ~StopsAt(h, r, j)
<1>1. \A k \in Index : P(k) => k = m
  <2> SUFFICES ASSUME NEW k \in Index, P(k), k # m PROVE FALSE
    OBVIOUS
  <2>1. k < m \/ m < k BY HistoryAssumption DEF Index
  <2>2. k < m => k \in 0 .. m - 1 BY HistoryAssumption DEF Index
  <2>3. m < k => m \in 0 .. k - 1 BY HistoryAssumption DEF Index
  <2> QED BY <2>1, <2>2, <2>3
<1> HIDE DEF P
<1>2. P(m) BY DEF P
<1>3. LastStep(h, r) = CHOOSE k \in Index : P(k) BY DEF LastStep, P
<1> QED BY <1>1, <1>2, <1>3

\* What an acknowledge frees, of a history without a hole: nothing when it does not cover
\* the oldest frame, and otherwise the frames up to the one it names, or all of them.
LEMMA FreedIs ==
    ASSUME NEW h \in History, NEW s \in SeqNum, NEW r \in SeqNum, Consecutive(h, s),
           UnackedCount(h) > 0
    PROVE  \/ LastStep(h, r) = 0 /\ ~Covered(h, r, 0)
           \/ LastStep(h, r) \in 0 .. UnackedCount(h) - 1 /\ Covered(h, r, LastStep(h, r))
<1> DEFINE n == UnackedCount(h)
           d == AckDist(h, r, 0)
           x(k) == h.frame[Offset(h.ackIndex, k)].sSeq
<1>1. n \in Nat /\ n > 0 /\ n <= HistorySize BY DEF Consecutive
<1>2. h.ackIndex \in Index BY DEF History
<1>3. \A k \in 0 .. n - 1 : x(k) \in SeqNum
  <2> TAKE k \in 0 .. n - 1
  <2>1. k \in 0 .. HistorySize BY <1>1, HistoryAssumption
  <2>2. Offset(h.ackIndex, k) \in Index BY <1>2, <2>1, OffsetType
  <2> QED BY <2>2 DEF History, Frame
<1>4. d \in Nat
  <2>1. x(0) \in SeqNum BY <1>1, <1>3
  <2>2. Dist(r, x(0)) \in SeqNum BY <2>1, DistType
  <2> QED BY <2>2 DEF AckDist, SeqNum
<1>5. \A k \in 0 .. n - 1 : k <= d => AckDist(h, r, k) = d - k
  <2> SUFFICES ASSUME NEW k \in 0 .. n - 1, k <= d PROVE AckDist(h, r, k) = d - k
    OBVIOUS
  <2>1. Dist(s, x(k)) = n - 1 - k /\ Dist(s, x(0)) = n - 1 - 0 BY <1>1 DEF Consecutive
  <2>2. Dist(s, x(k)) = Dist(s, x(0)) - k BY <1>1, <2>1
  <2>3. x(k) \in SeqNum /\ x(0) \in SeqNum BY <1>1, <1>3
  <2>4. k <= Dist(r, x(0)) BY DEF AckDist
  <2>5. k \in Nat OBVIOUS
  <2> HIDE DEF x
  <2>6. Dist(r, x(k)) = Dist(r, x(0)) - k BY <2>2, <2>3, <2>4, <2>5, DistNearer
  <2> QED BY <2>6 DEF AckDist, x
<1>6. CASE ~Covered(h, r, 0)
  <2>1. StopsAt(h, r, 0) BY <1>6 DEF StopsAt
  <2>2. 0 \in Index /\ \A j \in 0 .. 0 - 1 : FALSE BY HistoryAssumption DEF Index
  <2>3. LastStep(h, r) = 0 BY <2>1, <2>2, LastStepIs
  <2> QED BY <1>6, <2>3
<1>7. CASE Covered(h, r, 0)
  <2>1. d < Threshold BY <1>7 DEF Covered
  <2>2. PICK m \in 0 .. n - 1 : m <= d /\ (m = d \/ m = n - 1)
    <3>1. CASE d <= n - 1 BY <1>1, <1>4, <3>1
    <3>2. CASE d > n - 1
      <4>1. n - 1 \in 0 .. n - 1 /\ n - 1 <= d BY <1>1, <1>4, <3>2
      <4> QED BY <4>1
    <3> QED BY <1>1, <1>4, <3>1, <3>2
  <2>3. m \in Index BY <1>1, <2>2, HistoryAssumption DEF Index
  <2>4. \A j \in 0 .. m : j \in 0 .. n - 1 /\ AckDist(h, r, j) = d - j /\ Covered(h, r, j)
    <3> TAKE j \in 0 .. m
    <3>1. j \in 0 .. n - 1 /\ j <= d BY <1>1, <1>4, <2>2
    <3>2. AckDist(h, r, j) = d - j BY <1>5, <3>1
    <3>3. d - j < Threshold BY <1>4, <2>1, <3>1, HistoryAssumption
    <3> QED BY <3>1, <3>2, <3>3 DEF Covered
  <2>5. h.writeIndex = Offset(h.ackIndex, n)
    BY <1>1, <1>2, OffsetTurn DEF Consecutive
  <2>6. StopsAt(h, r, m)
    <3>1. CASE m = d
      <4>1. AckDist(h, r, m) = 0 BY <1>4, <2>2, <2>4, <3>1
      <4> QED BY <4>1 DEF StopsAt
    <3>2. CASE m = n - 1
      <4>1. m + 1 = n BY <1>1, <3>2
      <4> QED BY <2>5, <4>1 DEF StopsAt
    <3> QED BY <2>2, <3>1, <3>2
  <2>7. \A j \in 0 .. m - 1 : ~StopsAt(h, r, j)
    <3> TAKE j \in 0 .. m - 1
    <3>1. j \in 0 .. m BY <2>2
    <3>2. AckDist(h, r, j) # 0 BY <1>4, <2>2, <2>4, <3>1
    <3>3. j + 1 \in Nat /\ j + 1 < n /\ n - (j + 1) < HistorySize /\ n <= HistorySize
      BY <1>1, <2>2, HistoryAssumption
    <3>4. Offset(h.ackIndex, j + 1) # Offset(h.ackIndex, n) BY <1>1, <1>2, <3>3, OffsetDiffers
    <3> QED BY <2>4, <2>5, <3>1, <3>2, <3>4 DEF StopsAt
  <2>8. LastStep(h, r) = m BY <2>3, <2>6, <2>7, LastStepIs
  <2> QED BY <2>2, <2>4, <2>8
<1> QED BY <1>6, <1>7

\* deleteAckedFrameFromHistory, whatever number the peer acknowledges.
LEMMA deleteAckedKeeps ==
    ASSUME NEW h \in History, NEW s \in SeqNum, NEW r \in SeqNum, Consecutive(h, s)
    PROVE  Consecutive(deleteAckedFrameFromHistory(h, r), s)
<1> DEFINE n == UnackedCount(h)
           g == deleteAckedFrameFromHistory(h, r)
           m == LastStep(h, r)
<1>1. n \in Nat /\ n <= HistorySize /\ h.ackIndex \in Index /\ h.freeEntries \in Nat
  BY DEF Consecutive, History
<1>2. CASE n = 0
  <2>1. h.freeEntries >= HistorySize BY <1>1, <1>2, HistoryAssumption DEF UnackedCount
  <2> QED BY <2>1 DEF deleteAckedFrameFromHistory
<1>3. CASE n > 0
  <2>1. ~(h.freeEntries >= HistorySize) BY <1>1, <1>3, HistoryAssumption DEF UnackedCount
  <2>2. CASE m = 0 /\ ~Covered(h, r, 0)
    <3>1. {Offset(h.ackIndex, j) : j \in 0 .. 0 - 1} = {} OBVIOUS
    <3>2. g = [h EXCEPT !.freeEntries = @ + 0, !.sized = @ \ {}, !.ackIndex = @]
      BY <2>1, <2>2, <3>1 DEF deleteAckedFrameFromHistory
    <3>3. h.freeEntries + 0 = h.freeEntries /\ h.sized \ {} = h.sized BY <1>1
    <3>4. g = [h EXCEPT !.freeEntries = h.freeEntries, !.sized = h.sized, !.ackIndex = h.ackIndex]
      BY <3>2, <3>3
    <3> HIDE DEF g
    <3>5. g = h BY <3>4 DEF History
    <3> QED BY <3>5 DEF g
  <2>3. CASE m \in 0 .. n - 1 /\ Covered(h, r, m)
    <3>1. PICK q \in 1 .. n : q = m + 1 BY <1>1, <2>3
    <3>2. /\ g.freeEntries = h.freeEntries + q
          /\ g.sized = h.sized \ {Offset(h.ackIndex, j) : j \in 0 .. q - 1}
          /\ g.ackIndex = Offset(h.ackIndex, q)
          /\ g.frame = h.frame /\ g.writeIndex = h.writeIndex
      BY <2>1, <2>3, <3>1 DEF deleteAckedFrameFromHistory, History
    <3>3. UnackedCount(g) = n - q /\ n - q \in 0 .. HistorySize
      BY <1>1, <3>1, <3>2, HistoryAssumption DEF UnackedCount
    <3>4. h.writeIndex = Offset(h.ackIndex, n) BY <1>1, OffsetTurn DEF Consecutive
    <3>5. \A j \in 0 .. n - q : Offset(g.ackIndex, j) = Offset(h.ackIndex, q + j)
      <4> TAKE j \in 0 .. n - q
      <4>1. q \in Nat /\ j \in Nat /\ q + j <= HistorySize BY <1>1, <3>1, HistoryAssumption
      <4> QED BY <1>1, <3>2, <4>1, OffsetAdd
    <3>6. g.writeIndex = Offset(g.ackIndex, n - q)
      <4>1. n - q \in 0 .. n - q /\ q + (n - q) = n BY <1>1, <3>1
      <4> QED BY <3>2, <3>4, <3>5, <4>1
    <3>7. n - q # HistorySize BY <1>1, <3>1, HistoryAssumption
    <3>8. \A j \in 0 .. n - q - 1 :
             /\ Offset(g.ackIndex, j) \in g.sized
             /\ Dist(s, g.frame[Offset(g.ackIndex, j)].sSeq) = n - q - 1 - j
      <4> TAKE j \in 0 .. n - q - 1
      <4>1. Offset(g.ackIndex, j) = Offset(h.ackIndex, q + j) BY <1>1, <3>1, <3>5
      <4>2. q + j \in 0 .. n - 1 BY <1>1, <3>1
      <4>3. /\ Offset(h.ackIndex, q + j) \in h.sized
            /\ Dist(s, h.frame[Offset(h.ackIndex, q + j)].sSeq) = n - 1 - (q + j)
        BY <4>2 DEF Consecutive
      <4>4. \A i \in 0 .. q - 1 : Offset(h.ackIndex, i) # Offset(h.ackIndex, q + j)
        <5> TAKE i \in 0 .. q - 1
        <5>1. /\ i \in Nat /\ q + j \in Nat /\ i < q + j /\ (q + j) - i < HistorySize
              /\ q + j <= HistorySize
          BY <1>1, <3>1, <4>2, HistoryAssumption
        <5> QED BY <1>1, <5>1, OffsetDiffers
      <4>5. n - 1 - (q + j) = n - q - 1 - j BY <1>1, <3>1
      <4> HIDE DEF g, n
      <4> QED BY <3>2, <4>1, <4>3, <4>4, <4>5
    <3> HIDE DEF g, n
    <3> QED BY <3>3, <3>6, <3>7, <3>8 DEF Consecutive, g
  <2> QED BY <1>3, <2>2, <2>3, FreedIs
<1> QED BY <1>1, <1>2, <1>3

\* initHistory: the empty history is without a hole, whatever number comes next.
LEMMA initHistoryKeeps ==
    ASSUME NEW h \in History, NEW s \in SeqNum
    PROVE  Consecutive(initHistory(h), s)
<1>1. UnackedCount(initHistory(h)) = 0 BY HistoryAssumption DEF UnackedCount, initHistory, History
<1>2. initHistory(h).ackIndex = 0 /\ initHistory(h).writeIndex = 0 BY DEF initHistory, History
<1>3. 0 \in Index BY HistoryAssumption DEF Index
<1>4. Offset(0, 0) = 0 BY <1>3, OffsetTurn
<1> QED BY <1>1, <1>2, <1>4, HistoryAssumption DEF Consecutive

\* An entry is sound when its history has no hole while it is established, and holds no
\* frame that its command layer, which has sent the tags 1..t, did not send.
Sound(c, t) ==
    /\ \A i \in Index : c.history.frame[i].data <= t
    /\ Established(c) => Consecutive(c.history, c.recvSeq)

\* A data frame that the command layer sends in a step is in the history after the step.
\* It is not when the lower layer refused it or when no entry of the history was free:
\* sendFrame advances the number of the connection all the same.
AllRecorded ==
    \A p \in Node : sent'[p] # sent[p] =>
        \E i \in Index : con'[p].history.frame[i].data = sent'[p]

\* The inductive invariant, and what a step of node p owes.
HistoryInv == Inv /\ \A p \in Node : Sound(con[p], sent[p])
SoundStep(p) ==
    /\ Sound(con'[p], sent'[p])
    /\ \A q \in Node \ {p} : con'[q] = con[q] /\ sent'[q] = sent[q]

LEMMA CommitSound ==
    ASSUME Inv, NEW p \in Node, NEW net, NEW e, Commit(p, net, e), NEW t,
           Sound(e.c, t), sent' = [sent EXCEPT ![p] = t]
    PROVE  SoundStep(p)
<1>1. con' = [con EXCEPT ![p] = e.c] BY DEF Commit
<1>2. con'[p] = e.c /\ sent'[p] = t BY <1>1 DEF Inv, TypeOK
<1>3. \A q \in Node \ {p} : con'[q] = con[q] /\ sent'[q] = sent[q] BY <1>1 DEF Inv, TypeOK
<1> QED BY <1>2, <1>3 DEF SoundStep

\* The steps that send no data.
LEMMA QuietSound ==
    ASSUME Inv, NEW p \in Node, NEW net, NEW e, Commit(p, net, e), Sound(e.c, sent[p]),
           sent' = sent
    PROVE  SoundStep(p)
<1>1. sent' = [sent EXCEPT ![p] = sent[p]] BY DEF Inv, TypeOK
<1> QED BY <1>1, CommitSound

LEMMA ClosedSound ==
    ASSUME NEW t \in Nat, NEW out
    PROVE  Sound(Closed(out).c, t) /\ Sound(ZeroCon(0), t)
BY DEF Sound, Closed, ZeroCon, ZeroHistory, NoFrame, Established

\* Acknowledging frames and changing anything but the state, the number and the history
\* leaves an entry sound.
LEMMA AckedSound ==
    ASSUME NEW c \in Con, NEW r \in SeqNum, NEW t \in Nat, Sound(c, t)
    PROVE  /\ Sound([c EXCEPT !.conHandle = TRUE,
                              !.history = deleteAckedFrameFromHistory(@, r)], t)
           /\ deleteAckedFrameFromHistory(c.history, r).frame = c.history.frame
<1> DEFINE g == deleteAckedFrameFromHistory(c.history, r)
           d == [c EXCEPT !.conHandle = TRUE, !.history = g]
<1>1. c.history \in History /\ c.recvSeq \in SeqNum BY DEF Con
<1>2. g.frame = c.history.frame BY <1>1 DEF deleteAckedFrameFromHistory, History
<1>3. Consecutive(c.history, c.recvSeq) => Consecutive(g, c.recvSeq) BY <1>1, deleteAckedKeeps
<1> HIDE DEF g
<1>4. d.history = g /\ d.recvSeq = c.recvSeq /\ d.sdoSeqState = c.sdoSeqState BY DEF Con
<1> HIDE DEF d
<1>5. Sound(d, t) BY <1>2, <1>3, <1>4 DEF Sound, Established
<1> QED BY <1>2, <1>5 DEF d, g

\* The handshake: an entry that is not established, or starts with an empty history.
LEMMA HandshakeSound ==
    ASSUME NEW c, NEW d, NEW t, \A i \in Index : c.history.frame[i].data <= t,
           \/ d.history = c.history /\ ~Established(d)
           \/ d.history = initHistory(c.history) /\ c.history \in History /\ d.recvSeq \in SeqNum
    PROVE  Sound(d, t)
<1>1. CASE d.history = c.history /\ ~Established(d) BY <1>1 DEF Sound
<1>2. CASE d.history = initHistory(c.history) /\ c.history \in History /\ d.recvSeq \in SeqNum
  <2>1. Consecutive(d.history, d.recvSeq) BY <1>2, initHistoryKeeps
  <2>2. d.history.frame = c.history.frame BY <1>2 DEF initHistory, History
  <2> QED BY <2>1, <2>2 DEF Sound
<1> QED BY <1>1, <1>2

\* A frame sent in state Connected that is recorded.
LEMMA AfterSendSound ==
    ASSUME NEW c \in Con, c.sdoSeqState = "Connected", NEW t \in Nat, Sound(c, t),
           \E i \in Index : AfterSend(c, t + 1).history.frame[i].data = t + 1
    PROVE  Sound(AfterSend(c, t + 1), t + 1)
<1> DEFINE b == AfterSend(c, t + 1)
           f == HeaderFrame(Advance(c), t + 1)
           h == c.history
<1>1. h \in History /\ c.recvSeq \in SeqNum BY DEF Con
<1>2. b.history = addFrameToHistory(h, f) /\ b.recvSeq = NextSeq(c.recvSeq)
  BY DEF AfterSend, Advance, Con
<1>3. f.sSeq = NextSeq(c.recvSeq) /\ f.data = t + 1 BY DEF HeaderFrame, Advance, Con
<1>4. f \in Frame BY AdvanceType, HeaderFrameType
<1>5. \A i \in Index : h.frame[i].data <= t /\ h.frame[i].data \in Nat
  BY <1>1 DEF Sound, History, Frame
<1>6. Consecutive(h, c.recvSeq) BY DEF Sound, Established
<1> HIDE DEF b, f, h
<1>7. h.freeEntries > 0
  <2> SUFFICES ASSUME ~(h.freeEntries > 0) PROVE FALSE
    OBVIOUS
  <2>1. b.history = h BY <1>2 DEF addFrameToHistory
  <2> QED BY <1>5, <2>1 DEF b
<1>8. Consecutive(b.history, b.recvSeq) BY <1>1, <1>2, <1>3, <1>4, <1>6, <1>7, addFrameKeeps
<1>9. b.history.frame = [h.frame EXCEPT ![h.writeIndex] = f]
  BY <1>1, <1>2, <1>7 DEF addFrameToHistory, History
<1>10. \A i \in Index : b.history.frame[i] = f \/ b.history.frame[i] = h.frame[i]
  BY <1>1, <1>9 DEF History
<1>11. \A i \in Index : b.history.frame[i].data <= t + 1 BY <1>3, <1>5, <1>10
<1> QED BY <1>8, <1>11 DEF Sound, b

LEMMA AnswerSound ==
    ASSUME Inv, NEW p \in Node, NEW c \in Con, NEW f \in Frame,
           NEW next \in {"Init2", "Init3", "Connected"},
           \A i \in Index : c.history.frame[i].data <= sent[p],
           c.sdoSeqState \in {"Idle", "Init1", "Init2", "Init3"},
           Answer(p, c, f, next), sent' = sent
    PROVE  SoundStep(p)
<1> DEFINE a == [Adopt(c, f) EXCEPT !.recvCon = @ + 1]
           b == [a EXCEPT !.sdoSeqState = next,
                          !.history = IF next = "Connected" THEN initHistory(@) ELSE @]
           net == [chan EXCEPT ![p] = Tail(@)]
           yes == [c |-> b, out |-> <<HeaderFrame(a, 0)>>, timer |-> "running",
                   up |-> next = "Connected", data |-> 0]
           no  == [c |-> a, out |-> <<>>,
                   timer |-> IF c.sdoSeqState = "Idle" THEN "off" ELSE timer[p],
                   up |-> FALSE, data |-> 0]
<1>1. PICK ok \in SendOutcome : Commit(p, net, IF ok THEN yes ELSE no) BY DEF Answer
<1>2. a.history = c.history /\ a.sdoSeqState = c.sdoSeqState /\ a.recvSeq = f.rSeq
  BY DEF Adopt, Con
<1>3. /\ b.history = IF next = "Connected" THEN initHistory(c.history) ELSE c.history
      /\ b.sdoSeqState = next /\ b.recvSeq = f.rSeq
  BY DEF Adopt, Con
<1>4. c.history \in History /\ f.rSeq \in SeqNum BY DEF Con, Frame
<1>5. yes.c = b /\ no.c = a OBVIOUS
<1> HIDE DEF a, b, net, yes, no
<1>6. Sound(a, sent[p]) BY <1>2, HandshakeSound DEF Established
<1>7. Sound(b, sent[p]) BY <1>3, <1>4, HandshakeSound DEF Established
<1>8. Sound((IF ok THEN yes ELSE no).c, sent[p]) BY <1>5, <1>6, <1>7
<1> QED BY <1>1, <1>8, QuietSound

LEMMA ClosedStep ==
    ASSUME Inv, NEW p \in Node, NEW net, NEW out, Commit(p, net, Closed(out)), sent' = sent
    PROVE  SoundStep(p)
<1>1. sent[p] \in Nat BY DEF Inv, TypeOK
<1>2. Sound(Closed(out).c, sent[p]) BY <1>1, ClosedSound
<1> QED BY <1>2, QuietSound

LEMMA RecvIdleSound ==
    ASSUME Inv, NEW p \in Node, NEW c \in Con, NEW f \in Frame,
           \A i \in Index : c.history.frame[i].data <= sent[p],
           c.sdoSeqState = "Idle", RecvIdle(p, c, f), sent' = sent
    PROVE  SoundStep(p)
<1>1. CASE Answer(p, c, f, "Init2") BY <1>1, AnswerSound
<1>2. CASE RejectInit(p, c, f) BY <1>2, ClosedStep DEF RejectInit
<1> QED BY <1>1, <1>2 DEF RecvIdle

LEMMA RecvInitSound ==
    ASSUME Inv, NEW p \in Node, NEW c \in Con, NEW f \in Frame,
           \A i \in Index : c.history.frame[i].data <= sent[p], sent' = sent,
           \/ c.sdoSeqState = "Init1" /\ RecvInit1(p, c, f)
           \/ c.sdoSeqState = "Init2" /\ RecvInit2(p, c, f)
           \/ c.sdoSeqState = "Init3" /\ RecvInit3(p, c, f)
    PROVE  SoundStep(p)
<1>1. c.sdoSeqState \in {"Idle", "Init1", "Init2", "Init3"} OBVIOUS
<1>2. ASSUME NEW next \in {"Init2", "Init3", "Connected"}, Answer(p, c, f, next)
      PROVE  SoundStep(p)
  BY <1>1, <1>2, AnswerSound
<1>3. ASSUME RejectInit(p, c, f) PROVE SoundStep(p)
  BY <1>3, ClosedStep DEF RejectInit
<1> DEFINE net == [chan EXCEPT ![p] = Tail(@)]
           d == [Adopt(c, f) EXCEPT !.sdoSeqState = "Connected", !.history = initHistory(@)]
           e == [c |-> d, out |-> <<>>, timer |-> "running", up |-> TRUE, data |-> 0]
<1>4. ASSUME Commit(p, net, e) PROVE SoundStep(p)
  <2>1. d.history = initHistory(c.history) /\ d.recvSeq = f.rSeq /\ e.c = d BY DEF Adopt, Con
  <2>2. c.history \in History /\ f.rSeq \in SeqNum BY DEF Con, Frame
  <2> HIDE DEF d, e, net
  <2>3. Sound(e.c, sent[p]) BY <2>1, <2>2, HandshakeSound
  <2> QED BY <1>4, <2>3, QuietSound
<1>5. CASE RecvInit1(p, c, f) BY <1>2, <1>3, <1>5 DEF RecvInit1
<1>6. CASE RecvInit2(p, c, f) BY <1>2, <1>3, <1>6 DEF RecvInit2
<1>7. CASE RecvInit3(p, c, f) BY <1>2, <1>3, <1>4, <1>7 DEF RecvInit3
<1> QED BY <1>5, <1>6, <1>7

LEMMA ReinitSound ==
    ASSUME Inv, NEW p \in Node, NEW c \in Con, NEW f \in Frame, Sound(c, sent[p]),
           Reinit(p, c, f), sent' = sent
    PROVE  SoundStep(p)
<1> DEFINE d == [c EXCEPT !.sdoSeqState = "Idle",
                          !.history = deleteAckedFrameFromHistory(@, f.rSeq)]
<1>1. f.rSeq \in SeqNum /\ sent[p] \in Nat BY DEF Frame, Inv, TypeOK
<1>2. deleteAckedFrameFromHistory(c.history, f.rSeq) \in History
  BY <1>1, deleteAckedType DEF Con
<1>3. d \in Con /\ d.sdoSeqState = "Idle"
      /\ d.history = deleteAckedFrameFromHistory(c.history, f.rSeq)
  BY <1>2 DEF Con, State
<1>4. deleteAckedFrameFromHistory(c.history, f.rSeq).frame = c.history.frame
  BY <1>1, AckedSound
<1>5. RecvIdle(p, d, f) BY DEF Reinit
<1> HIDE DEF d
<1>6. \A i \in Index : d.history.frame[i].data <= sent[p] BY <1>3, <1>4 DEF Sound
<1> QED BY <1>3, <1>5, <1>6, RecvIdleSound

\* Resending frames leaves the entry as it is.
LEMMA ResendSound ==
    ASSUME Inv, NEW p \in Node, NEW c \in Con, NEW f \in Frame, Sound(c, sent[p]),
           ResendFails(p, c, f)
    PROVE  SoundStep(p)
<1> DEFINE e(k) == [c |-> c, out |-> SubSeq(readFromHistory(c.history), 1, k),
                    timer |-> "running", up |-> up[p], data |-> 0]
<1>1. PICK k : Commit(p, [chan EXCEPT ![p] = Tail(@)], e(k)) BY DEF ResendFails
<1>2. sent' = sent BY DEF ResendFails
<1>3. e(k).c = c OBVIOUS
<1> HIDE DEF e
<1> QED BY <1>1, <1>2, <1>3, QuietSound

\* The entry after a callback that may have sent a frame, and recorded it.
LEMMA ReplySound ==
    ASSUME Inv, AllRecorded, NEW p \in Node, NEW c \in Con, Sound(c, sent[p]),
           NEW tag \in Replies(p, c), NEW net, NEW e,
           e.c = IF tag = 0 THEN c ELSE AfterSend(c, tag), Commit(p, net, e),
           sent' = IF tag = 0 THEN sent ELSE [sent EXCEPT ![p] = tag]
    PROVE  SoundStep(p)
<1>1. CASE tag = 0 BY <1>1, QuietSound
<1>2. CASE tag # 0
  <2>1. tag = sent[p] + 1 /\ c.sdoSeqState = "Connected" BY <1>2 DEF Replies
  <2>2. sent \in [Node -> Nat] /\ con \in [Node -> Con] BY DEF Inv, TypeOK
  <2>3. sent[p] \in Nat BY <2>2
  <2>4. sent'[p] = tag /\ con'[p] = AfterSend(c, tag) BY <1>2, <2>2 DEF Commit
  <2>5. sent'[p] # sent[p] BY <2>1, <2>3, <2>4
  <2>6. \E i \in Index : AfterSend(c, tag).history.frame[i].data = tag
    BY <2>4, <2>5 DEF AllRecorded
  <2>7. Sound(AfterSend(c, tag), tag) BY <2>1, <2>3, <2>6, AfterSendSound
  <2> QED BY <1>2, <2>7, CommitSound
<1> QED BY <1>1, <1>2

LEMMA RecvDataSound ==
    ASSUME Inv, AllRecorded, NEW p \in Node, NEW c \in Con, NEW f \in Frame, Sound(c, sent[p]),
           RecvData(p, c, f)
    PROVE  SoundStep(p)
<1> DEFINE net == [chan EXCEPT ![p] = Tail(@)]
           resent == IF f.rCon = 3 THEN readFromHistory(c.history) ELSE <<>>
           ack(d) == IF f.sCon = 3 THEN <<HeaderFrame(d, 0)>> ELSE <<>>
<1>1. ASSUME NEW d \in Con, NEW out, d.history = c.history, d.recvSeq = c.recvSeq,
             d.sdoSeqState = c.sdoSeqState, sent' = sent,
             Commit(p, net, [c |-> d, out |-> out, timer |-> "running", up |-> up[p], data |-> 0])
      PROVE  SoundStep(p)
  <2>1. Sound(d, sent[p]) BY <1>1 DEF Sound, Established
  <2> HIDE DEF net
  <2> QED BY <1>1, <2>1, QuietSound
<1>2. CASE InSequence(c, f)
  <2> DEFINE a == [c EXCEPT !.sendSeq = f.sSeq, !.sendCon = 2]
             b(tag) == IF tag = 0 THEN a ELSE AfterSend(a, tag)
             reply(tag) == IF tag = 0 THEN <<>> ELSE <<HeaderFrame(Advance(a), tag)>>
             e(tag) == [c |-> b(tag), out |-> resent \o reply(tag) \o ack(b(tag)),
                        timer |-> "running", up |-> up[p], data |-> f.data]
  <2>1. f.sSeq \in SeqNum /\ 2 \in ConBits BY DEF Frame, ConBits
  <2>2. /\ a \in Con /\ a.history = c.history /\ a.recvSeq = c.recvSeq
        /\ a.sdoSeqState = c.sdoSeqState
    BY <2>1 DEF Con
  <2>3. PICK tag \in Replies(p, a) :
            /\ Commit(p, net, e(tag))
            /\ sent' = IF tag = 0 THEN sent ELSE [sent EXCEPT ![p] = tag]
    BY <1>2 DEF RecvData
  <2>4. e(tag).c = IF tag = 0 THEN a ELSE AfterSend(a, tag) OBVIOUS
  <2> HIDE DEF a, e, net
  <2>5. Sound(a, sent[p]) BY <2>2 DEF Sound, Established
  <2> QED BY <2>2, <2>3, <2>4, <2>5, ReplySound
<1>3. CASE ~InSequence(c, f) /\ IsGap(c, f)
  <2> DEFINE d == [c EXCEPT !.sendCon = 2]
  <2>1. /\ d \in Con /\ d.history = c.history /\ d.recvSeq = c.recvSeq
        /\ d.sdoSeqState = c.sdoSeqState
    BY DEF Con, ConBits
  <2>2. PICK out : /\ sent' = sent
                   /\ Commit(p, net, [c |-> d, out |-> out, timer |-> "running",
                                      up |-> up[p], data |-> 0])
    BY <1>3 DEF RecvData
  <2> HIDE DEF d, net
  <2> QED BY <1>1, <2>1, <2>2
<1>4. CASE ~InSequence(c, f) /\ ~IsGap(c, f)
  <2>1. PICK out : /\ sent' = sent
                   /\ Commit(p, net, [c |-> c, out |-> out, timer |-> "running",
                                      up |-> up[p], data |-> 0])
    BY <1>4 DEF RecvData
  <2> HIDE DEF net
  <2> QED BY <1>1, <2>1
<1> QED BY <1>2, <1>3, <1>4

LEMMA RecvConnectedSound ==
    ASSUME Inv, AllRecorded, NEW p \in Node, NEW c \in Con, NEW f \in Frame, Sound(c, sent[p]),
           RecvConnected(p, c, f)
    PROVE  SoundStep(p)
<1>1. CASE Commit(p, [chan EXCEPT ![p] = Tail(@)], Closed(<<>>)) /\ UNCHANGED <<sent, budget>>
  BY <1>1, ClosedStep
<1>2. CASE Reinit(p, c, f) /\ UNCHANGED sent BY <1>2, ReinitSound
<1>3. CASE RecvData(p, c, f) BY <1>3, RecvDataSound
<1>4. CASE ResendFails(p, c, f) BY <1>4, ResendSound
<1> QED BY <1>1, <1>2, <1>3, <1>4 DEF RecvConnected

LEMMA RecvWaitAckSound ==
    ASSUME Inv, AllRecorded, NEW p \in Node, NEW c \in Con, NEW f \in Frame, Sound(c, sent[p]),
           c.sdoSeqState = "WaitAck", c.recvCon = 2, RecvWaitAck(p, c, f)
    PROVE  SoundStep(p)
<1> DEFINE net == [chan EXCEPT ![p] = Tail(@)]
           a == [c EXCEPT !.sdoSeqState = "Connected"]
           e(tag) == [c |-> IF tag = 0 THEN a ELSE AfterSend(a, tag),
                      out |-> IF tag = 0 THEN <<>> ELSE <<HeaderFrame(Advance(a), tag)>>,
                      timer |-> "running", up |-> up[p], data |-> f.data]
           again == [c |-> c, out |-> readFromHistory(c.history), timer |-> "running",
                     up |-> TRUE, data |-> 0]
<1>1. CASE Commit(p, net, Closed(<<>>)) /\ UNCHANGED <<sent, budget>>
  BY <1>1, ClosedStep
<1>2. CASE Reinit(p, c, f) /\ UNCHANGED sent BY <1>2, ReinitSound
<1>3. CASE \E tag \in Replies(p, a) : /\ Commit(p, net, e(tag))
                                      /\ sent' = IF tag = 0 THEN sent ELSE [sent EXCEPT ![p] = tag]
  <2>1. PICK tag \in Replies(p, a) : /\ Commit(p, net, e(tag))
                                     /\ sent' = IF tag = 0 THEN sent ELSE [sent EXCEPT ![p] = tag]
    BY <1>3
  <2>2. a \in Con /\ a.history = c.history /\ a.recvSeq = c.recvSeq BY DEF Con, State
  <2>3. e(tag).c = IF tag = 0 THEN a ELSE AfterSend(a, tag) OBVIOUS
  <2> HIDE DEF a, e, net
  <2>4. Sound(a, sent[p]) BY <2>2 DEF Sound, Established
  <2> QED BY <2>1, <2>2, <2>3, <2>4, ReplySound
<1>4. CASE /\ f.rCon = 3 /\ UNCHANGED <<sent, budget>>
           /\ Commit(p, net, IF <<f.rSeq, f.rCon>> = <<c.recvSeq, c.recvCon>>
                             THEN AcceptAck(c, f) ELSE again)
  <2>1. Commit(p, net, again) BY <1>4
  <2>2. again.c = c OBVIOUS
  <2> HIDE DEF again, net
  <2> QED BY <1>4, <2>1, <2>2, QuietSound
<1>5. CASE ResendFails(p, c, f) BY <1>5, ResendSound
<1> QED BY <1>1, <1>2, <1>3, <1>4, <1>5 DEF RecvWaitAck

LEMMA receiveCbSound ==
    ASSUME HistoryInv, AllRecorded, NEW p \in Node, receiveCb(p)
    PROVE  SoundStep(p)
<1> DEFINE f == Head(chan[p])
           c == [con[p] EXCEPT !.conHandle = TRUE,
                               !.history = deleteAckedFrameFromHistory(@, f.rSeq)]
<1>1. Inv /\ chan[p] # <<>> BY DEF receiveCb, HistoryInv
<1>2. f \in Frame BY <1>1, ReceivedType
<1>3. con[p] \in Con /\ sent[p] \in Nat /\ f.rSeq \in SeqNum BY <1>1, <1>2 DEF Inv, TypeOK, Frame
<1>4. deleteAckedFrameFromHistory(con[p].history, f.rSeq) \in History
  BY <1>3, deleteAckedType DEF Con
<1>5. c \in Con /\ c.sdoSeqState = con[p].sdoSeqState /\ c.recvCon = con[p].recvCon
  BY <1>3, <1>4 DEF Con
<1>6. Sound(c, sent[p])
  <2>1. Sound(con[p], sent[p]) BY DEF HistoryInv
  <2> QED BY <1>3, <2>1, AckedSound
<1>7. c.sdoSeqState = "WaitAck" => c.recvCon = 2 BY <1>1, <1>5 DEF Inv, WaitAckScon
<1>8. \/ c.sdoSeqState = "Idle"  /\ RecvIdle(p, c, f) /\ UNCHANGED sent
      \/ c.sdoSeqState = "Init1" /\ RecvInit1(p, c, f) /\ UNCHANGED sent
      \/ c.sdoSeqState = "Init2" /\ RecvInit2(p, c, f) /\ UNCHANGED sent
      \/ c.sdoSeqState = "Init3" /\ RecvInit3(p, c, f) /\ UNCHANGED sent
      \/ c.sdoSeqState = "Connected" /\ RecvConnected(p, c, f)
      \/ c.sdoSeqState = "WaitAck"   /\ RecvWaitAck(p, c, f)
  BY DEF receiveCb
<1> HIDE DEF f, c
<1>9. \A i \in Index : c.history.frame[i].data <= sent[p] BY <1>6 DEF Sound
<1>10. CASE c.sdoSeqState = "Idle" /\ RecvIdle(p, c, f) /\ UNCHANGED sent
  BY <1>1, <1>2, <1>5, <1>9, <1>10, RecvIdleSound
<1>11. CASE c.sdoSeqState = "Connected" /\ RecvConnected(p, c, f)
  BY <1>1, <1>2, <1>5, <1>6, <1>11, RecvConnectedSound
<1>12. CASE c.sdoSeqState = "WaitAck" /\ RecvWaitAck(p, c, f)
  BY <1>1, <1>2, <1>5, <1>6, <1>7, <1>12, RecvWaitAckSound
<1>13. CASE /\ UNCHANGED sent
            /\ \/ c.sdoSeqState = "Init1" /\ RecvInit1(p, c, f)
               \/ c.sdoSeqState = "Init2" /\ RecvInit2(p, c, f)
               \/ c.sdoSeqState = "Init3" /\ RecvInit3(p, c, f)
  BY <1>1, <1>2, <1>5, <1>9, <1>13, RecvInitSound
<1> QED BY <1>8, <1>10, <1>11, <1>12, <1>13

\* The command layer's calls.
LEMMA CommandLayerSound ==
    ASSUME HistoryInv, AllRecorded, NEW p \in Node, CommandLayer(p)
    PROVE  SoundStep(p)
<1>1. Inv /\ con[p] \in Con /\ sent[p] \in Nat /\ Sound(con[p], sent[p])
  BY DEF HistoryInv, Inv, TypeOK
<1>2. CASE sdoseq_initCon(p)
  <2> DEFINE c == [con[p] EXCEPT !.conHandle = TRUE, !.recvSeq = 0, !.recvCon = 1,
                                 !.sendSeq = 0, !.sendCon = 0]
             yes == [c |-> [c EXCEPT !.sdoSeqState = "Init1"], out |-> <<HeaderFrame(c, 0)>>,
                     timer |-> "running", up |-> FALSE, data |-> 0]
             no == [c |-> c, out |-> <<>>, timer |-> timer[p], up |-> FALSE, data |-> 0]
  <2>1. PICK ok \in SendOutcome : Commit(p, chan, IF ok THEN yes ELSE no)
    BY <1>2 DEF sdoseq_initCon
  <2>2. sent' = sent /\ con[p].sdoSeqState = "Idle" BY <1>2 DEF sdoseq_initCon
  <2>3. c.history = con[p].history /\ c.sdoSeqState = "Idle" BY <1>1, <2>2 DEF Con
  <2>4. /\ [c EXCEPT !.sdoSeqState = "Init1"].history = con[p].history
        /\ [c EXCEPT !.sdoSeqState = "Init1"].sdoSeqState = "Init1"
    BY <1>1 DEF Con
  <2>5. yes.c = [c EXCEPT !.sdoSeqState = "Init1"] /\ no.c = c OBVIOUS
  <2> HIDE DEF c, yes, no
  <2>6. Sound(yes.c, sent[p]) /\ Sound(no.c, sent[p])
    BY <1>1, <2>3, <2>4, <2>5 DEF Sound, Established
  <2> QED BY <1>1, <2>1, <2>2, <2>6, QuietSound
<1>3. CASE sdoseq_sendData(p)
  <2> DEFINE c == con[p]
             tag == sent[p] + 1
             e(ok) == [c |-> IF ok THEN AfterSend(c, tag) ELSE Advance(c),
                       out |-> IF ok THEN <<HeaderFrame(Advance(c), tag)>> ELSE <<>>,
                       timer |-> "running", up |-> up[p], data |-> 0]
  <2>1. PICK ok \in SendOutcome : Commit(p, chan, e(ok)) BY <1>3 DEF sdoseq_sendData
  <2>2. sent' = [sent EXCEPT ![p] = tag] /\ c.sdoSeqState = "Connected"
    BY <1>3 DEF sdoseq_sendData
  <2>3. con'[p] = e(ok).c /\ sent'[p] = tag
    BY <1>1, <2>1, <2>2 DEF Commit, Inv, TypeOK
  <2>4. PICK i \in Index : con'[p].history.frame[i].data = tag
    BY <1>1, <2>3 DEF AllRecorded
  <2>5. CASE ok
    <3>1. e(ok).c = AfterSend(c, tag) BY <2>5
    <3> HIDE DEF c, tag, e
    <3>2. \E j \in Index : AfterSend(c, tag).history.frame[j].data = tag
      BY <2>3, <2>4, <3>1
    <3>3. Sound(AfterSend(c, tag), tag)
      BY <1>1, <2>2, <3>2, AfterSendSound DEF c, tag
    <3> QED BY <1>1, <2>1, <2>2, <3>1, <3>3, CommitSound
  <2>6. CASE ~ok
    <3>1. e(ok).c = Advance(c) BY <2>6
    <3>2. Advance(c).history = c.history BY <1>1 DEF Advance, Con
    <3> HIDE DEF e
    <3>3. c.history.frame[i].data = tag BY <2>3, <2>4, <3>1, <3>2
    <3>4. c.history.frame[i].data <= sent[p] BY <1>1 DEF Sound
    <3> QED BY <1>1, <3>3, <3>4
  <2> QED BY <2>5, <2>6
<1>4. CASE sdoseq_sendAck(p)
  <2> DEFINE e == [c |-> con[p], out |-> <<HeaderFrame(con[p], 0)>>,
                   timer |-> "running", up |-> up[p], data |-> 0]
  <2>1. Commit(p, chan, e) /\ sent' = sent /\ e.c = con[p] BY <1>4 DEF sdoseq_sendAck
  <2> HIDE DEF e
  <2> QED BY <1>1, <2>1, QuietSound
<1>5. CASE sdoseq_deleteCon(p)
  BY <1>1, <1>5, ClosedStep DEF sdoseq_deleteCon
<1> QED BY <1>2, <1>3, <1>4, <1>5 DEF CommandLayer

\* A retransmission marks the oldest frame and keeps its number and payload.
LEMMA RetryFirstSound ==
    ASSUME HistoryInv, NEW p \in Node, RetryFirst(p, con[p]), sent' = sent
    PROVE  SoundStep(p)
<1> DEFINE c == con[p]
           h == c.history
           frames == readFromHistory(h)
           request == [frames[1] EXCEPT !.sCon = 3]
           d == [c EXCEPT !.retryCount = @ + 1]
           g == [c EXCEPT !.retryCount = @ + 1, !.history.frame[h.ackIndex] = request]
           none == [c |-> d, out |-> <<>>, timer |-> "running", up |-> up[p], data |-> 0]
           some == [c |-> g, out |-> <<request>>, timer |-> "running", up |-> up[p], data |-> 0]
<1>1. Inv /\ c \in Con /\ Sound(c, sent[p]) BY DEF HistoryInv, Inv, TypeOK
<1>2. h \in History /\ h.ackIndex \in Index BY <1>1 DEF Con, History
<1>3. Commit(p, chan, IF frames = <<>> THEN none ELSE some) BY DEF RetryFirst
<1>4. none.c = d /\ some.c = g OBVIOUS
<1>5. CASE frames = <<>>
  <2>1. d.history = h /\ d.recvSeq = c.recvSeq /\ d.sdoSeqState = c.sdoSeqState
    BY <1>1 DEF Con
  <2> HIDE DEF c, h, frames, d, none, some
  <2>2. Sound(none.c, sent[p]) BY <1>1, <1>4, <2>1 DEF Sound, Established, h
  <2> QED BY <1>1, <1>3, <1>5, <2>2, QuietSound
<1>6. CASE frames # <<>>
  <2>1. frames[1] = h.frame[h.ackIndex]
    <3>1. frames \in Seq(Frame) BY <1>2, readFromHistoryType
    <3>2. 1 \in DOMAIN frames BY <1>6, <3>1
    <3>3. frames[1] = h.frame[Offset(h.ackIndex, 1 - 1)] BY <3>2 DEF readFromHistory
    <3> QED BY <1>2, <3>3, OffsetTurn
  <2>2. frames[1] \in Frame BY <1>2, <2>1 DEF History
  <2> HIDE DEF frames
  <2>3. request.sSeq = h.frame[h.ackIndex].sSeq /\ request.data = h.frame[h.ackIndex].data
    BY <2>1, <2>2 DEF Frame
  <2> HIDE DEF request
  <2>4. /\ g.history = [h EXCEPT !.frame[h.ackIndex] = request]
        /\ g.recvSeq = c.recvSeq /\ g.sdoSeqState = c.sdoSeqState
    BY <1>1 DEF Con
  <2> HIDE DEF c, h, g, d, none, some
  <2>5. /\ g.history.freeEntries = h.freeEntries /\ g.history.writeIndex = h.writeIndex
        /\ g.history.ackIndex = h.ackIndex /\ g.history.sized = h.sized
        /\ g.history.frame = [h.frame EXCEPT ![h.ackIndex] = request]
    BY <1>2, <2>4 DEF History
  <2>6. \A i \in Index : /\ g.history.frame[i].sSeq = h.frame[i].sSeq
                         /\ g.history.frame[i].data = h.frame[i].data
    BY <1>2, <2>3, <2>5 DEF History
  <2>7. Consecutive(h, c.recvSeq) => Consecutive(g.history, g.recvSeq)
    <3> SUFFICES ASSUME Consecutive(h, c.recvSeq) PROVE Consecutive(g.history, c.recvSeq)
      BY <2>4
    <3>1. UnackedCount(g.history) = UnackedCount(h) BY <2>5 DEF UnackedCount
    <3>2. \A k \in 0 .. UnackedCount(h) - 1 : Offset(h.ackIndex, k) \in Index
      <4> TAKE k \in 0 .. UnackedCount(h) - 1
      <4>1. k \in 0 .. HistorySize BY HistoryAssumption DEF Consecutive
      <4> QED BY <1>2, <4>1, OffsetType
    <3>3. \A k \in 0 .. UnackedCount(h) - 1 :
             g.history.frame[Offset(h.ackIndex, k)].sSeq = h.frame[Offset(h.ackIndex, k)].sSeq
      BY <2>6, <3>2
    <3> QED BY <2>5, <3>1, <3>3 DEF Consecutive
  <2>8. Sound(some.c, sent[p]) BY <1>1, <1>4, <2>4, <2>6, <2>7 DEF Sound, Established, h
  <2> QED BY <1>1, <1>3, <1>6, <2>8, QuietSound
<1> QED BY <1>5, <1>6

LEMMA processEventSound ==
    ASSUME HistoryInv, NEW p \in Node, sdoseq_processEvent(p)
    PROVE  SoundStep(p)
<1>1. Inv /\ sent' = sent BY DEF HistoryInv, sdoseq_processEvent
<1>2. CASE RetryFirst(p, con[p]) BY <1>1, <1>2, RetryFirstSound
<1>3. CASE Commit(p, chan, Closed(<<CloseFrame(con[p])>>)) BY <1>1, <1>3, ClosedStep
<1> QED BY <1>2, <1>3 DEF sdoseq_processEvent

LEMMA HistoryInvStep == HistoryInv /\ [Next]_vars /\ [AllRecorded]_vars => HistoryInv'
<1> SUFFICES ASSUME HistoryInv, [Next]_vars, [AllRecorded]_vars PROVE HistoryInv'
  OBVIOUS
<1>1. Inv' BY InvStep DEF HistoryInv
<1>2. CASE con' = con /\ sent' = sent BY <1>1, <1>2 DEF HistoryInv
<1>3. ASSUME NEW p \in Node, SoundStep(p) PROVE HistoryInv'
  <2>1. \A q \in Node : Sound(con'[q], sent'[q])
    <3> TAKE q \in Node
    <3>1. CASE q = p BY <1>3, <3>1 DEF SoundStep
    <3>2. CASE q # p
      <4>1. con'[q] = con[q] /\ sent'[q] = sent[q] BY <1>3, <3>2 DEF SoundStep
      <4> QED BY <4>1 DEF HistoryInv
    <3> QED BY <3>1, <3>2
  <2> QED BY <1>1, <2>1 DEF HistoryInv
<1>4. CASE UNCHANGED vars BY <1>2, <1>4 DEF vars
<1>5. ASSUME NEW p \in Node, AllRecorded, CommandLayer(p) \/ EventLoop(p) \/ Environment(p)
      PROVE  HistoryInv'
  <2>1. CASE CommandLayer(p) BY <1>3, <1>5, <2>1, CommandLayerSound
  <2>2. CASE receiveCb(p) BY <1>3, <1>5, <2>2, receiveCbSound
  <2>3. CASE sdoseq_processEvent(p) BY <1>3, <2>3, processEventSound
  <2>4. CASE TimerExpires(p) \/ StaleEvent(p)
    BY <1>2, <2>4 DEF TimerExpires, StaleEvent
  <2>5. CASE Lose(p) \/ Duplicate(p) \/ Swap(p)
    BY <1>2, <2>5 DEF Lose, Duplicate, Swap
  <2>6. CASE Restart(p)
    <3>1. sent[p] \in Nat /\ sent' = sent /\ con' = [con EXCEPT ![p] = ZeroCon(0)]
      BY <2>6 DEF HistoryInv, Inv, TypeOK, Restart
    <3>2. Sound(ZeroCon(0), sent[p]) BY <3>1, ClosedSound
    <3>3. SoundStep(p) BY <3>1, <3>2 DEF SoundStep, HistoryInv, Inv, TypeOK
    <3> QED BY <1>3, <3>3
  <2> QED BY <1>5, <2>1, <2>2, <2>3, <2>4, <2>5, <2>6 DEF EventLoop, Environment
<1> QED BY <1>4, <1>5 DEF Next

LEMMA InitHistoryInv == Init => HistoryInv
<1> SUFFICES ASSUME Init PROVE HistoryInv
  OBVIOUS
<1>1. Inv BY InitInv
<1>2. \A p \in Node : con[p] = ZeroCon(0) /\ sent[p] = 0 BY DEF Init
<1>3. Sound(ZeroCon(0), 0) BY ClosedSound
<1> QED BY <1>1, <1>2, <1>3 DEF HistoryInv

LEMMA HistoryInvariance == Spec /\ [][AllRecorded]_vars => []HistoryInv
BY InitHistoryInv, HistoryInvStep, PTL DEF Spec

\* The history never has a hole and its counters always agree, whatever the network loses,
\* repeats, reorders or delays, whoever restarts or closes and whatever the peer
\* acknowledges, as long as every data frame that was given a number was recorded: the
\* frames that sendFrame numbers without recording them are the only way to break it.
THEOREM HistoryCorrect == Spec /\ [][AllRecorded]_vars => []HistoryConsistent
<1>1. HistoryInv => HistoryConsistent
  <2> SUFFICES ASSUME HistoryInv PROVE HistoryConsistent
    OBVIOUS
  <2>1. \A p \in Node : Established(con[p]) => Consecutive(con[p].history, con[p].recvSeq)
    BY DEF HistoryInv, Sound
  <2> QED BY <2>1 DEF HistoryConsistent, HistoryIndexOK, Unacked, Consecutive
<1> QED BY <1>1, HistoryInvariance, PTL

\* The number of free entries then stays within the history, and the slots in use are the
\* ones between the two indices: the defect that lets the counter leave its range needs an
\* unrecorded frame.
THEOREM IndexCorrect ==
    Spec /\ [][AllRecorded]_vars => [](HistoryIndexOK /\ FreeEntriesInRange)
<1>1. HistoryInv => HistoryIndexOK /\ FreeEntriesInRange
  <2> SUFFICES ASSUME HistoryInv PROVE HistoryIndexOK /\ FreeEntriesInRange
    OBVIOUS
  <2>1. \A p \in Node : Established(con[p]) => Consecutive(con[p].history, con[p].recvSeq)
    BY DEF HistoryInv, Sound
  <2>2. HistoryIndexOK BY <2>1 DEF HistoryIndexOK, Unacked, Consecutive
  <2>3. \A p \in Node : con[p].history.freeEntries \in Nat
    BY DEF HistoryInv, Inv, TypeOK, Con, History
  <2>4. FreeEntriesInRange
    BY <2>1, <2>3, HistoryAssumption DEF FreeEntriesInRange, Consecutive, UnackedCount
  <2> QED BY <2>2, <2>4
<1> QED BY <1>1, HistoryInvariance, PTL

-----------------------------------------------------------------------------
(* One direction: node s opens once and sends, node r takes and            *)
(* acknowledges.  A number stands for all tags that differ from it by a    *)
(* multiple of SeqMod.                                                     *)

Multiples == {k * SeqMod : k \in Int}
Numbered(t, x) == t - x \in Multiples

LEMMA MultiplesClosed ==
    /\ 0 \in Multiples /\ SeqMod \in Multiples /\ Multiples \subseteq Int
    /\ \A m, n \in Multiples : m + n \in Multiples /\ m - n \in Multiples
<1> PICK M \in Nat \ {0} : M = SeqMod BY HistoryAssumption
<1>1. 0 \in Multiples /\ SeqMod \in Multiples
  <2>1. 0 = 0 * M /\ M = 1 * M OBVIOUS
  <2> QED BY <2>1 DEF Multiples
<1>2. ASSUME NEW m \in Multiples, NEW n \in Multiples
      PROVE  m + n \in Multiples /\ m - n \in Multiples
  <2>1. PICK p \in Int, q \in Int : m = p * M /\ n = q * M BY <1>2 DEF Multiples
  <2>2. m + n = (p + q) * M /\ m - n = (p - q) * M /\ p + q \in Int /\ p - q \in Int BY <2>1
  <2> QED BY <2>2 DEF Multiples
<1>3. Multiples \subseteq Int BY DEF Multiples
<1> QED BY <1>1, <1>2, <1>3

LEMMA MultiplesSpread ==
    ASSUME NEW m \in Multiples, m < SeqMod, -m < SeqMod
    PROVE  m = 0
<1> PICK M \in Nat \ {0} : M = SeqMod BY HistoryAssumption
<1>1. PICK q \in Int : m = q * M BY DEF Multiples
<1>2. CASE q >= 1
  <2>1. q * M >= M BY <1>2
  <2> QED BY <1>1, <2>1
<1>3. CASE q <= -1
  <2>1. (-q) * M >= M BY <1>3
  <2>2. -(q * M) = (-q) * M OBVIOUS
  <2> QED BY <1>1, <2>1, <2>2
<1> QED BY <1>1, <1>2, <1>3

LEMMA NumberedStart == Numbered(0, 0) /\ \A x \in SeqNum : Numbered(0, x) => x = 0
<1>1. Numbered(0, 0) BY MultiplesClosed DEF Numbered
<1>2. ASSUME NEW x \in SeqNum, Numbered(0, x) PROVE x = 0
  <2>1. 0 - x \in Multiples /\ 0 - x < SeqMod /\ -(0 - x) < SeqMod
    BY <1>2, HistoryAssumption DEF Numbered, SeqNum
  <2>2. 0 - x = 0 BY <2>1, MultiplesSpread
  <2> QED BY <2>2 DEF SeqNum
<1> QED BY <1>1, <1>2

LEMMA NumberedNext ==
    ASSUME NEW t \in Nat, NEW x \in SeqNum, Numbered(t, x)
    PROVE  Numbered(t + 1, NextSeq(x))
<1>1. t - x \in Multiples /\ (t - x) + SeqMod \in Multiples BY MultiplesClosed DEF Numbered
<1>2. (t + 1) - NextSeq(x) = t - x \/ (t + 1) - NextSeq(x) = (t - x) + SeqMod
  BY HistoryAssumption DEF NextSeq, SeqNum
<1> QED BY <1>1, <1>2 DEF Numbered

\* The distance of two numbers is that of the tags, when these are near enough.
LEMMA NumberedDist ==
    ASSUME NEW n \in Nat, NEW t \in Nat, NEW x \in SeqNum, NEW y \in SeqNum,
           Numbered(n, x), Numbered(t, y), t <= n, n - t < SeqMod
    PROVE  Dist(x, y) = n - t
<1> DEFINE d == Dist(x, y)
<1>1. d \in SeqNum /\ (d = x - y \/ d = (x - y) + SeqMod)
  BY HistoryAssumption DEF Dist, SeqNum
<1>2. /\ n - x \in Multiples /\ t - y \in Multiples
      /\ (n - x) - (t - y) \in Multiples /\ ((n - x) - (t - y)) - SeqMod \in Multiples
  BY MultiplesClosed DEF Numbered
<1>3. (n - t) - d = (n - x) - (t - y) \/ (n - t) - d = ((n - x) - (t - y)) - SeqMod
  BY <1>1, HistoryAssumption DEF SeqNum
<1>4. (n - t) - d < SeqMod /\ -((n - t) - d) < SeqMod /\ (n - t) - d \in Multiples
  BY <1>1, <1>2, <1>3, HistoryAssumption DEF SeqNum
<1> HIDE DEF d
<1>5. (n - t) - d = 0 BY <1>4, MultiplesSpread
<1>6. d \in Int BY <1>1, HistoryAssumption DEF SeqNum
<1>7. d = n - t BY <1>5, <1>6
<1> QED BY <1>7 DEF d

\* The tag that a number so far behind stands for.
LEMMA NumberedBehind ==
    ASSUME NEW n \in Nat, NEW x \in SeqNum, NEW y \in SeqNum, Numbered(n, x)
    PROVE  Numbered(n - Dist(x, y), y)
<1> DEFINE d == Dist(x, y)
<1>1. d = x - y \/ d = (x - y) + SeqMod BY DEF Dist, SeqNum
<1>2. n - x \in Multiples /\ (n - x) - SeqMod \in Multiples BY MultiplesClosed DEF Numbered
<1>3. (n - d) - y = n - x \/ (n - d) - y = (n - x) - SeqMod
  BY <1>1, HistoryAssumption DEF SeqNum
<1> HIDE DEF d
<1>4. Numbered(n - d, y) BY <1>2, <1>3 DEF Numbered
<1> QED BY <1>4 DEF d

\* Two tags of the same number, neither a whole round ahead of the other.
LEMMA NumberedSame ==
    ASSUME NEW t \in Nat, NEW u \in Nat, NEW x \in SeqNum, Numbered(t, x), Numbered(u, x),
           t - u < SeqMod, u - t < SeqMod
    PROVE  t = u
<1>1. t - x \in Multiples /\ u - x \in Multiples /\ (t - x) - (u - x) \in Multiples
  BY MultiplesClosed DEF Numbered
<1>2. (t - x) - (u - x) = t - u BY DEF SeqNum
<1>3. t - u \in Multiples /\ -(t - u) < SeqMod BY <1>1, <1>2
<1>4. t - u = 0 BY <1>3, MultiplesSpread
<1> QED BY <1>4

-----------------------------------------------------------------------------
(* Queues.  What is left of a queue, in its order, possibly repeated.      *)

Thinner(qq, q) ==
    \A i, j \in DOMAIN qq : i <= j =>
        \E a, b \in DOMAIN q : a <= b /\ qq[i] = q[a] /\ qq[j] = q[b]

LEMMA ThinnerPrefix ==
    ASSUME NEW q \in Seq(Frame), NEW n \in 0 .. Len(q)
    PROVE  Thinner(SubSeq(q, 1, n), q)
<1>1. /\ DOMAIN SubSeq(q, 1, n) = 1 .. n
      /\ \A i \in 1 .. n : SubSeq(q, 1, n)[i] = q[i] /\ i \in DOMAIN q
  BY SubSeqProperties
<1> QED BY <1>1 DEF Thinner

LEMMA ThinnerTail ==
    ASSUME NEW q \in Seq(Frame), q # <<>>
    PROVE  /\ Thinner(Tail(q), q) /\ 1 \in DOMAIN q /\ Head(q) = q[1]
           /\ \A j \in DOMAIN Tail(q) : Tail(q)[j] = q[j + 1] /\ j + 1 \in DOMAIN q /\ 1 <= j + 1
<1>1. /\ Len(Tail(q)) = Len(q) - 1 /\ Tail(q) \in Seq(Frame) /\ 1 \in DOMAIN q
      /\ \A i \in 1 .. Len(q) - 1 : Tail(q)[i] = q[i + 1] /\ i + 1 \in DOMAIN q
  BY HeadTailProperties
<1>2. Head(q) = q[1] OBVIOUS
<1>3. DOMAIN Tail(q) = 1 .. Len(q) - 1 BY <1>1
<1>4. ASSUME NEW i \in 1 .. Len(q) - 1, NEW j \in 1 .. Len(q) - 1, i <= j
      PROVE  \E a, b \in DOMAIN q : a <= b /\ Tail(q)[i] = q[a] /\ Tail(q)[j] = q[b]
  <2>1. i + 1 <= j + 1 BY <1>4
  <2> QED BY <1>1, <2>1
<1> QED BY <1>1, <1>2, <1>3, <1>4 DEF Thinner

LEMMA ThinnerLost ==
    ASSUME NEW q \in Seq(Frame), NEW k \in 1 .. Len(q)
    PROVE  Thinner(SubSeq(q, 1, k - 1) \o SubSeq(q, k + 1, Len(q)), q)
<1> DEFINE u == SubSeq(q, 1, k - 1)
           v == SubSeq(q, k + 1, Len(q))
           at(i) == IF i < k THEN i ELSE i + 1
<1>1. u \in Seq(Frame) /\ Len(u) = k - 1 /\ \A i \in 1 .. k - 1 : u[i] = q[i]
  BY SubSeqProperties
<1>2. v \in Seq(Frame) /\ Len(v) = Len(q) - k /\ \A i \in 1 .. Len(q) - k : v[i] = q[k + i]
  <2>1. k + 1 \in 1 .. Len(q) + 1 OBVIOUS
  <2> QED BY <2>1, SubSeqProperties
<1>3. DOMAIN (u \o v) = 1 .. Len(q) - 1 BY <1>1, <1>2
<1> HIDE DEF u, v
<1>4. \A i \in 1 .. Len(q) - 1 : (u \o v)[i] = q[at(i)] /\ at(i) \in DOMAIN q
  <2> TAKE i \in 1 .. Len(q) - 1
  <2>1. CASE i < k
    <3>1. (u \o v)[i] = u[i] BY <1>1, <1>2, <2>1
    <3> QED BY <1>1, <2>1, <3>1
  <2>2. CASE i >= k
    <3>1. (u \o v)[i] = v[i - (k - 1)] BY <1>1, <1>2, <1>3, <2>2
    <3>2. i - (k - 1) \in 1 .. Len(q) - k /\ k + (i - (k - 1)) = i + 1 BY <2>2
    <3>3. at(i) = i + 1 /\ i + 1 \in DOMAIN q BY <2>2
    <3> HIDE DEF at
    <3> QED BY <1>2, <3>1, <3>2, <3>3
  <2>3. i < k \/ i >= k OBVIOUS
  <2> QED BY <2>1, <2>2, <2>3
<1>5. \A i, j \in 1 .. Len(q) - 1 : i <= j => at(i) <= at(j) OBVIOUS
<1> HIDE DEF at
<1>6. Thinner(u \o v, q) BY <1>3, <1>4, <1>5 DEF Thinner
<1> QED BY <1>6 DEF u, v

LEMMA ThinnerRepeated ==
    ASSUME NEW q \in Seq(Frame), NEW k \in 1 .. Len(q)
    PROVE  Thinner(SubSeq(q, 1, k) \o SubSeq(q, k, Len(q)), q)
<1> DEFINE u == SubSeq(q, 1, k)
           v == SubSeq(q, k, Len(q))
           at(i) == IF i <= k THEN i ELSE i - 1
<1>1. u \in Seq(Frame) /\ Len(u) = k /\ \A i \in 1 .. k : u[i] = q[i]
  BY SubSeqProperties
<1>2. /\ v \in Seq(Frame) /\ Len(v) = (Len(q) - k) + 1
      /\ \A i \in 1 .. (Len(q) - k) + 1 : v[i] = q[(k + i) - 1]
  BY SubSeqProperties
<1>3. DOMAIN (u \o v) = 1 .. Len(q) + 1 BY <1>1, <1>2
<1>4. \A i \in 1 .. Len(q) + 1 : (u \o v)[i] = q[at(i)] /\ at(i) \in DOMAIN q
  <2> TAKE i \in 1 .. Len(q) + 1
  <2>1. CASE i <= k
    <3>1. (u \o v)[i] = u[i] BY <1>1, <1>2, <2>1
    <3> QED BY <1>1, <2>1, <3>1
  <2>2. CASE i > k
    <3>1. (u \o v)[i] = v[i - k] BY <1>1, <1>2, <2>2
    <3>2. i - k \in 1 .. (Len(q) - k) + 1 /\ (k + (i - k)) - 1 = i - 1 BY <2>2
    <3> QED BY <1>2, <2>2, <3>1, <3>2
  <2> QED BY <2>1, <2>2
<1>5. \A i, j \in 1 .. Len(q) + 1 : i <= j => at(i) <= at(j) OBVIOUS
<1> HIDE DEF u, v, at
<1>6. Thinner(u \o v, q) BY <1>3, <1>4, <1>5 DEF Thinner
<1> QED BY <1>6 DEF u, v

\* Handing frames to the lower layer: what is in the queue then was there or is new.
LEMMA CarryThinner ==
    ASSUME NEW q \in Seq(Frame)
    PROVE  Carry(q) \in Seq(Frame) /\ Thinner(Carry(q), q)
<1> DEFINE n == IF Len(q) > ChanCap THEN ChanCap ELSE Len(q)
<1>1. n \in 0 .. Len(q) BY SdoSeqAssumption
<1> HIDE DEF n
<1>2. Thinner(SubSeq(q, 1, n), q) BY <1>1, ThinnerPrefix
<1> QED BY <1>2, CarryType DEF Carry, n

LEMMA Appended ==
    ASSUME NEW q \in Seq(Frame), NEW out \in Seq(Frame)
    PROVE  /\ q \o out \in Seq(Frame)
           /\ \A i \in DOMAIN (q \o out) :
                \/ i \in DOMAIN q /\ (q \o out)[i] = q[i]
                \/ /\ i > Len(q) /\ i - Len(q) \in DOMAIN out
                   /\ (q \o out)[i] = out[i - Len(q)]
OBVIOUS

-----------------------------------------------------------------------------
(* The frames under way.                                                   *)

IsClose(f) == f.sCon = 0 /\ f.rCon = 0 /\ f.data = 0

\* To the receiver: s opens, confirms the answer, sends data it has numbered, or closes.
IsOpening(f) ==
    /\ f.data = 0 /\ f.sSeq = 0 /\ f.rSeq = 0
    /\ (f.sCon = 1 /\ f.rCon = 0) \/ (f.sCon = 2 /\ f.rCon = 1)
IsData(f) == f.data > 0 /\ f.sCon \in {2, 3} /\ f.rCon = 2 /\ Numbered(f.data, f.sSeq)
Outgoing(f, n) == IsClose(f) \/ IsOpening(f) \/ (IsData(f) /\ f.data <= n)

\* What may come behind tag t: data that is less than a history older than t, and the
\* handshake only while there was no data.
Follows(t, f) ==
    /\ f.data > 0 => t < f.data + HistorySize
    /\ t > 0 => ~IsOpening(f)

ToReceiver(q, n, last) ==
    /\ \A i \in DOMAIN q : Outgoing(q[i], n) /\ Follows(last, q[i])
    /\ \A i, j \in DOMAIN q : i <= j => Follows(q[i].data, q[j])

\* A frame that s may send when it has sent the tags 1..n.
Fresh(f, n) == /\ Outgoing(f, n)
               /\ f.data > 0 => n < f.data + HistorySize
               /\ IsOpening(f) => n = 0

\* To the sender: r answers the init frame, acknowledges, or closes.
IsAnswer(f) == f.data = 0 /\ f.sSeq = 0 /\ f.rSeq = 0 /\ f.sCon = 1 /\ f.rCon = 1
IsAck(f) == f.data = 0 /\ f.sSeq = 0 /\ f.sCon = 2 /\ f.rCon \in {2, 3}
Incoming(f, n) == /\ IsClose(f) \/ IsAnswer(f) \/ IsAck(f)
                  /\ n = 0 /\ IsAck(f) => f.rSeq = 0

\* The acknowledges name numbers that r had reached, in the order it reached them, and
\* none that s has given up.
InUse(c) == UnackedCount(c.history)
Behind(c, f) == Dist(c.recvSeq, f.rSeq)
ToSender(q, c, n, last) ==
    /\ \A i \in DOMAIN q : Incoming(q[i], n)
    /\ Established(c) =>
          /\ \A i \in DOMAIN q : IsAck(q[i]) => Behind(c, q[i]) \in n - last .. InUse(c)
          /\ \A i, j \in DOMAIN q : i <= j /\ IsAck(q[i]) /\ IsAck(q[j]) =>
                Behind(c, q[j]) <= Behind(c, q[i])

\* An acknowledge that r sends when tag `last` is the last it took.
FreshAck(f, c, n, last) == /\ Incoming(f, n)
                           /\ Established(c) /\ IsAck(f) => Behind(c, f) = n - last

LEMMA ThinnerEach ==
    ASSUME NEW q, NEW qq \in Seq(Frame), Thinner(qq, q), NEW i \in DOMAIN qq
    PROVE  \E a \in DOMAIN q : qq[i] = q[a]
<1>1. i <= i OBVIOUS
<1> QED BY <1>1 DEF Thinner

LEMMA ToReceiverThinner ==
    ASSUME NEW q, NEW qq \in Seq(Frame), NEW n, NEW last, ToReceiver(q, n, last),
           Thinner(qq, q)
    PROVE  ToReceiver(qq, n, last)
<1>1. ASSUME NEW i \in DOMAIN qq, NEW j \in DOMAIN qq, i <= j
      PROVE  Follows(qq[i].data, qq[j])
  <2>1. PICK a \in DOMAIN q, b \in DOMAIN q : a <= b /\ qq[i] = q[a] /\ qq[j] = q[b]
    BY <1>1 DEF Thinner
  <2> QED BY <2>1 DEF ToReceiver
<1>2. ASSUME NEW i \in DOMAIN qq PROVE Outgoing(qq[i], n) /\ Follows(last, qq[i])
  <2>1. PICK a \in DOMAIN q : qq[i] = q[a] BY ThinnerEach
  <2> QED BY <2>1 DEF ToReceiver
<1> QED BY <1>1, <1>2 DEF ToReceiver

LEMMA ToSenderThinner ==
    ASSUME NEW q, NEW qq \in Seq(Frame), NEW c, NEW n, NEW last, ToSender(q, c, n, last),
           Thinner(qq, q)
    PROVE  ToSender(qq, c, n, last)
<1>1. ASSUME NEW i \in DOMAIN qq, NEW j \in DOMAIN qq, i <= j, IsAck(qq[i]), IsAck(qq[j]),
             Established(c)
      PROVE  Behind(c, qq[j]) <= Behind(c, qq[i])
  <2>1. PICK a \in DOMAIN q, b \in DOMAIN q : a <= b /\ qq[i] = q[a] /\ qq[j] = q[b]
    BY <1>1 DEF Thinner
  <2> QED BY <1>1, <2>1 DEF ToSender
<1>2. ASSUME NEW i \in DOMAIN qq
      PROVE  /\ Incoming(qq[i], n)
             /\ Established(c) /\ IsAck(qq[i]) => Behind(c, qq[i]) \in n - last .. InUse(c)
  <2>1. PICK a \in DOMAIN q : qq[i] = q[a] BY ThinnerEach
  <2> QED BY <2>1 DEF ToSender
<1> QED BY <1>1, <1>2 DEF ToSender

\* The sender's frames, behind those that are under way.
LEMMA FreshFollows ==
    ASSUME NEW f \in Frame, NEW t \in Nat, NEW n \in Nat, t <= n, Fresh(f, n)
    PROVE  Follows(t, f)
<1>1. f.data \in Nat BY DEF Frame
<1> QED BY <1>1, HistoryAssumption DEF Fresh, Follows

LEMMA OutgoingData ==
    ASSUME NEW f \in Frame, NEW n \in Nat, NEW m \in Nat, n <= m, Outgoing(f, n)
    PROVE  f.data \in Nat /\ f.data <= n /\ Outgoing(f, m)
BY DEF Frame, Outgoing, IsClose, IsOpening

LEMMA ToReceiverSent ==
    ASSUME NEW q \in Seq(Frame), NEW out \in Seq(Frame), NEW n \in Nat, NEW m \in Nat,
           NEW last \in Nat, n <= m, last <= n, ToReceiver(q, n, last),
           \A k \in DOMAIN out : Fresh(out[k], m)
    PROVE  ToReceiver(Carry(q \o out), m, last)
<1> DEFINE w == q \o out
<1>1. w \in Seq(Frame) /\ \A i \in DOMAIN w : \/ i \in DOMAIN q /\ w[i] = q[i]
                                              \/ /\ i > Len(q) /\ i - Len(q) \in DOMAIN out
                                                 /\ w[i] = out[i - Len(q)]
  BY Appended
<1>2. /\ \A i \in DOMAIN q : q[i] \in Frame /\ i <= Len(q)
      /\ \A k \in DOMAIN out : out[k] \in Frame
  OBVIOUS
<1> HIDE DEF w
<1>3. \A i \in DOMAIN w : \/ i \in DOMAIN q /\ w[i] = q[i]
                          \/ i > Len(q) /\ w[i] \in Frame /\ Fresh(w[i], m)
  BY <1>1, <1>2
<1>4. \A i \in DOMAIN w : w[i] \in Frame /\ i \in Nat BY <1>1
<1>5. ASSUME NEW i \in DOMAIN w PROVE /\ Outgoing(w[i], m) /\ Follows(last, w[i])
                                      /\ w[i].data \in Nat /\ w[i].data <= m
  <2>1. CASE i \in DOMAIN q /\ w[i] = q[i]
    <3>1. Outgoing(w[i], n) /\ Follows(last, w[i]) BY <2>1 DEF ToReceiver
    <3>2. w[i].data \in Nat /\ w[i].data <= n /\ Outgoing(w[i], m) BY <1>4, <3>1, OutgoingData
    <3> QED BY <3>1, <3>2
  <2>2. CASE w[i] \in Frame /\ Fresh(w[i], m)
    <3>1. Outgoing(w[i], m) /\ last <= m BY <2>2 DEF Fresh
    <3>2. Follows(last, w[i]) BY <2>2, <3>1, FreshFollows
    <3>3. m <= m OBVIOUS
    <3>4. w[i].data \in Nat /\ w[i].data <= m BY <2>2, <3>1, <3>3, OutgoingData
    <3> QED BY <3>1, <3>2, <3>4
  <2> QED BY <1>3, <2>1, <2>2
<1>6. ASSUME NEW i \in DOMAIN w, NEW j \in DOMAIN w, i <= j
      PROVE  Follows(w[i].data, w[j])
  <2>1. CASE j \in DOMAIN q /\ w[j] = q[j]
    <3>1. ~(i > Len(q)) BY <1>2, <1>4, <1>6, <2>1
    <3>2. i \in DOMAIN q /\ w[i] = q[i] BY <1>3, <3>1
    <3> QED BY <1>6, <2>1, <3>2 DEF ToReceiver
  <2>2. CASE w[j] \in Frame /\ Fresh(w[j], m)
    <3>1. w[i].data \in Nat /\ w[i].data <= m BY <1>5
    <3> QED BY <2>2, <3>1, FreshFollows
  <2> QED BY <1>3, <2>1, <2>2
<1>7. ToReceiver(w, m, last) BY <1>5, <1>6 DEF ToReceiver
<1>8. Carry(w) \in Seq(Frame) /\ Thinner(Carry(w), w) BY <1>1, CarryThinner
<1>9. ToReceiver(Carry(w), m, last) BY <1>7, <1>8, ToReceiverThinner
<1> QED BY <1>9 DEF w

\* The receiver takes a frame off the queue, and with it the data if it likes.
LEMMA ToReceiverTaken ==
    ASSUME NEW q \in Seq(Frame), q # <<>>, NEW n, NEW last, ToReceiver(q, n, last)
    PROVE  /\ ToReceiver(Tail(q), n, last)
           /\ ToReceiver(Tail(q), n, Head(q).data)
           /\ Outgoing(Head(q), n) /\ Follows(last, Head(q))
<1>1. /\ Thinner(Tail(q), q) /\ 1 \in DOMAIN q /\ Head(q) = q[1]
      /\ \A j \in DOMAIN Tail(q) : Tail(q)[j] = q[j + 1] /\ j + 1 \in DOMAIN q /\ 1 <= j + 1
  BY ThinnerTail
<1>2. Tail(q) \in Seq(Frame) OBVIOUS
<1>3. ToReceiver(Tail(q), n, last) BY <1>1, <1>2, ToReceiverThinner
<1>4. \A j \in DOMAIN Tail(q) : Follows(Head(q).data, Tail(q)[j]) BY <1>1 DEF ToReceiver
<1>5. Outgoing(Head(q), n) /\ Follows(last, Head(q)) BY <1>1 DEF ToReceiver
<1> QED BY <1>3, <1>4, <1>5 DEF ToReceiver

\* The receiver's frames.
LEMMA ToSenderSent ==
    ASSUME NEW q \in Seq(Frame), NEW out \in Seq(Frame), NEW c \in Con, NEW n \in Nat,
           NEW last \in Nat, ToSender(q, c, n, last),
           Established(c) => n - last <= InUse(c),
           \A k \in DOMAIN out : FreshAck(out[k], c, n, last)
    PROVE  ToSender(Carry(q \o out), c, n, last)
<1> DEFINE w == q \o out
<1>1. w \in Seq(Frame) /\ \A i \in DOMAIN w : \/ i \in DOMAIN q /\ w[i] = q[i]
                                              \/ /\ i > Len(q) /\ i - Len(q) \in DOMAIN out
                                                 /\ w[i] = out[i - Len(q)]
  BY Appended
<1>2. \A i \in DOMAIN q : i <= Len(q) OBVIOUS
<1> HIDE DEF w
<1>3. \A i \in DOMAIN w : \/ i \in DOMAIN q /\ w[i] = q[i]
                          \/ i > Len(q) /\ FreshAck(w[i], c, n, last)
  BY <1>1
<1>4. \A i \in DOMAIN w : i \in Nat BY <1>1
<1>5. InUse(c) \in Int BY HistoryAssumption DEF InUse, UnackedCount, Con, History
<1>6. ASSUME NEW i \in DOMAIN w
      PROVE  /\ Incoming(w[i], n)
             /\ Established(c) /\ IsAck(w[i]) => Behind(c, w[i]) \in n - last .. InUse(c)
  <2>1. CASE i \in DOMAIN q /\ w[i] = q[i] BY <2>1 DEF ToSender
  <2>2. CASE FreshAck(w[i], c, n, last)
    <3>1. Established(c) /\ IsAck(w[i]) => Behind(c, w[i]) = n - last BY <2>2 DEF FreshAck
    <3>2. Established(c) => n - last \in n - last .. InUse(c) BY <1>5
    <3> QED BY <2>2, <3>1, <3>2 DEF FreshAck
  <2> QED BY <1>3, <2>1, <2>2
<1>7. ASSUME NEW i \in DOMAIN w, NEW j \in DOMAIN w, i <= j, IsAck(w[i]), IsAck(w[j]),
             Established(c)
      PROVE  Behind(c, w[j]) <= Behind(c, w[i])
  <2>1. CASE j \in DOMAIN q /\ w[j] = q[j]
    <3>1. ~(i > Len(q)) BY <1>2, <1>4, <1>7, <2>1
    <3>2. i \in DOMAIN q /\ w[i] = q[i] BY <1>3, <3>1
    <3> QED BY <1>7, <2>1, <3>2 DEF ToSender
  <2>2. CASE FreshAck(w[j], c, n, last)
    <3>1. Behind(c, w[j]) = n - last BY <1>7, <2>2 DEF FreshAck
    <3>2. Behind(c, w[i]) \in n - last .. InUse(c) BY <1>6, <1>7
    <3> QED BY <1>5, <3>1, <3>2
  <2> QED BY <1>3, <2>1, <2>2
<1>8. ToSender(w, c, n, last) BY <1>6, <1>7 DEF ToSender
<1>9. Carry(w) \in Seq(Frame) /\ Thinner(Carry(w), w) BY <1>1, CarryThinner
<1>10. ToSender(Carry(w), c, n, last) BY <1>8, <1>9, ToSenderThinner
<1> QED BY <1>10 DEF w

\* The receiver gets further, the sender gives up its connection, opens it, or sends.
LEMMA ToSenderFurther ==
    ASSUME NEW q, NEW c \in Con, NEW n \in Nat, NEW l \in Nat, NEW m \in Nat, l <= m,
           ToSender(q, c, n, l)
    PROVE  ToSender(q, c, n, m)
<1>1. InUse(c) \in Int BY HistoryAssumption DEF InUse, UnackedCount, Con, History
<1>2. n - l .. InUse(c) \subseteq n - m .. InUse(c) BY <1>1
<1> QED BY <1>2 DEF ToSender

LEMMA ToSenderGivenUp ==
    ASSUME NEW q, NEW c, NEW d, NEW n, NEW last, ToSender(q, c, n, last), ~Established(d)
    PROVE  ToSender(q, d, n, last)
BY DEF ToSender

LEMMA ToSenderOpened ==
    ASSUME NEW q \in Seq(Frame), NEW c, NEW d, NEW last, ToSender(q, c, 0, last), last = 0,
           d.recvSeq = 0, InUse(d) = 0
    PROVE  ToSender(q, d, 0, last)
<1>1. \A i \in DOMAIN q : Incoming(q[i], 0) BY DEF ToSender
<1>2. Dist(0, 0) = 0 BY DEF Dist
<1>3. \A i \in DOMAIN q : IsAck(q[i]) => Behind(d, q[i]) = 0
  BY <1>1, <1>2 DEF Incoming, Behind
<1>4. 0 \in 0 - last .. InUse(d) /\ 0 <= 0 OBVIOUS
<1> QED BY <1>1, <1>3, <1>4 DEF ToSender

LEMMA ToSenderAnother ==
    ASSUME NEW q \in Seq(Frame), NEW c \in Con, NEW d \in Con, NEW n \in Nat, NEW last \in Nat,
           ToSender(q, c, n, last), Established(c), InUse(c) < HistorySize,
           d.recvSeq = NextSeq(c.recvSeq), InUse(d) = InUse(c) + 1
    PROVE  ToSender(q, d, n + 1, last)
<1>1. InUse(c) \in Int BY HistoryAssumption DEF InUse, UnackedCount, Con, History
<1>2. ASSUME NEW i \in DOMAIN q, IsAck(q[i])
      PROVE  /\ Behind(c, q[i]) \in n - last .. InUse(c)
             /\ Behind(d, q[i]) = Behind(c, q[i]) + 1
  <2>0. q[i] \in Frame OBVIOUS
  <2>1. q[i].rSeq \in SeqNum /\ c.recvSeq \in SeqNum BY <2>0 DEF Frame, Con
  <2>2. Behind(c, q[i]) \in n - last .. InUse(c) BY <1>2 DEF ToSender
  <2>3. Behind(c, q[i]) \in SeqNum BY <2>1, DistType DEF Behind
  <2>4. Dist(c.recvSeq, q[i].rSeq) + 1 < SeqMod
    BY <1>1, <2>2, <2>3, HistoryAssumption DEF Behind, SeqNum
  <2> QED BY <2>1, <2>2, <2>4, DistNext DEF Behind
<1>3. ASSUME NEW i \in DOMAIN q, IsAck(q[i])
      PROVE  Behind(d, q[i]) \in (n + 1) - last .. InUse(d)
  BY <1>1, <1>2, <1>3
<1>4. ASSUME NEW i \in DOMAIN q, NEW j \in DOMAIN q, i <= j, IsAck(q[i]), IsAck(q[j])
      PROVE  Behind(d, q[j]) <= Behind(d, q[i])
  <2>1. Behind(c, q[j]) <= Behind(c, q[i]) BY <1>4 DEF ToSender
  <2>2. Behind(c, q[j]) \in Int /\ Behind(c, q[i]) \in Int BY <1>1, <1>2, <1>4
  <2> QED BY <1>2, <1>4, <2>1, <2>2
<1>5. \A i \in DOMAIN q : Incoming(q[i], n + 1) BY DEF ToSender, Incoming
<1> QED BY <1>3, <1>4, <1>5 DEF ToSender

\* The sender takes a frame off the queue: an acknowledge leaves in use what it is behind.
LEMMA ToSenderTaken ==
    ASSUME NEW q \in Seq(Frame), q # <<>>, NEW c, NEW n, NEW last, ToSender(q, c, n, last)
    PROVE  ToSender(Tail(q), c, n, last) /\ Incoming(Head(q), n)
<1>1. Thinner(Tail(q), q) /\ 1 \in DOMAIN q /\ Head(q) = q[1] BY ThinnerTail
<1>2. Tail(q) \in Seq(Frame) OBVIOUS
<1>3. ToSender(Tail(q), c, n, last) BY <1>1, <1>2, ToSenderThinner
<1> QED BY <1>1, <1>3 DEF ToSender

LEMMA ToSenderAcked ==
    ASSUME NEW q \in Seq(Frame), q # <<>>, NEW c \in Con, NEW d, NEW n \in Nat,
           NEW last \in Nat, ToSender(q, c, n, last), Established(c), IsAck(Head(q)),
           d.recvSeq = c.recvSeq, InUse(d) = Behind(c, Head(q))
    PROVE  ToSender(Tail(q), d, n, last) /\ n - last <= InUse(d)
<1>1. /\ 1 \in DOMAIN q /\ Head(q) = q[1]
      /\ \A j \in DOMAIN Tail(q) : Tail(q)[j] = q[j + 1] /\ j + 1 \in DOMAIN q /\ 1 <= j + 1
  BY ThinnerTail
<1>2. ToSender(Tail(q), c, n, last) BY ToSenderTaken
<1>3. InUse(c) \in Int BY HistoryAssumption DEF InUse, UnackedCount, Con, History
<1>4. InUse(d) \in n - last .. InUse(c) BY <1>1 DEF ToSender
<1>5. ASSUME NEW j \in DOMAIN Tail(q), IsAck(Tail(q)[j])
      PROVE  Behind(d, Tail(q)[j]) \in n - last .. InUse(d)
  <2>1. Behind(c, Tail(q)[j]) <= Behind(c, Head(q)) BY <1>1, <1>5 DEF ToSender
  <2>2. Behind(c, Tail(q)[j]) \in n - last .. InUse(c) BY <1>2, <1>5 DEF ToSender
  <2>3. Behind(d, Tail(q)[j]) = Behind(c, Tail(q)[j]) BY DEF Behind
  <2> QED BY <1>3, <1>4, <2>1, <2>2, <2>3
<1>6. \A i, j \in DOMAIN Tail(q) : i <= j /\ IsAck(Tail(q)[i]) /\ IsAck(Tail(q)[j]) =>
         Behind(d, Tail(q)[j]) <= Behind(d, Tail(q)[i])
  BY <1>2 DEF ToSender, Behind
<1>7. \A i \in DOMAIN Tail(q) : Incoming(Tail(q)[i], n) BY <1>2 DEF ToSender
<1> QED BY <1>3, <1>4, <1>5, <1>6, <1>7 DEF ToSender

-----------------------------------------------------------------------------
(* The history of the sender: each frame in it carries the tag that its    *)
(* number stands for.                                                      *)

Used(h) == {Offset(h.ackIndex, k) : k \in 0 .. UnackedCount(h) - 1}
Filed(f, n, x) == IsData(f) /\ f.data = n - Dist(x, f.sSeq)
Archive(h, n, x) == \A i \in Used(h) : Filed(h.frame[i], n, x)

LEMMA UsedFacts ==
    ASSUME NEW h \in History, NEW s \in SeqNum, Consecutive(h, s)
    PROVE  /\ UnackedCount(h) \in 0 .. HistorySize /\ Used(h) \subseteq Index
           /\ \A i \in Used(h) : /\ h.frame[i] \in Frame
                                 /\ Dist(s, h.frame[i].sSeq) \in 0 .. UnackedCount(h) - 1
<1> DEFINE n == UnackedCount(h)
<1>1. n \in 0 .. HistorySize BY DEF Consecutive
<1>2. ASSUME NEW k \in 0 .. n - 1
      PROVE  /\ Offset(h.ackIndex, k) \in Index
             /\ h.frame[Offset(h.ackIndex, k)] \in Frame
             /\ Dist(s, h.frame[Offset(h.ackIndex, k)].sSeq) \in 0 .. n - 1
  <2>1. k \in 0 .. HistorySize BY <1>1, HistoryAssumption
  <2>2. Offset(h.ackIndex, k) \in Index BY <2>1, OffsetType DEF History
  <2>3. h.frame[Offset(h.ackIndex, k)] \in Frame BY <2>2 DEF History
  <2>4. Dist(s, h.frame[Offset(h.ackIndex, k)].sSeq) = n - 1 - k BY DEF Consecutive
  <2>5. n - 1 - k \in 0 .. n - 1 BY <1>1, HistoryAssumption
  <2> QED BY <2>2, <2>3, <2>4, <2>5
<1> HIDE DEF n
<1>3. Used(h) = {Offset(h.ackIndex, k) : k \in 0 .. n - 1} BY DEF Used, n
<1>4. \A i \in Used(h) : /\ i \in Index /\ h.frame[i] \in Frame
                         /\ Dist(s, h.frame[i].sSeq) \in 0 .. n - 1
  BY <1>2, <1>3
<1> QED BY <1>1, <1>4 DEF n

\* An acknowledge that names a number at most as old as the history leaves as many frames
\* in use as it is behind.
LEMMA AckedUnacked ==
    ASSUME NEW h \in History, NEW s \in SeqNum, NEW r \in SeqNum, Consecutive(h, s),
           Dist(s, r) <= UnackedCount(h)
    PROVE  UnackedCount(deleteAckedFrameFromHistory(h, r)) = Dist(s, r)
<1> DEFINE n == UnackedCount(h)
           g == deleteAckedFrameFromHistory(h, r)
           e == Dist(s, r)
<1>1. n \in Nat /\ n <= HistorySize /\ h.ackIndex \in Index /\ h.freeEntries \in Nat
  BY DEF Consecutive, History
<1>2. e \in Nat /\ e < SeqMod /\ e <= n BY DistType, HistoryAssumption DEF SeqNum
<1>3. CASE n = 0
  <2>1. h.freeEntries >= HistorySize BY <1>1, <1>3, HistoryAssumption DEF UnackedCount
  <2>2. g = h BY <2>1 DEF deleteAckedFrameFromHistory
  <2> HIDE DEF g
  <2> QED BY <1>2, <1>3, <2>2 DEF g
<1>4. CASE n > 0
  <2> DEFINE x(k) == h.frame[Offset(h.ackIndex, k)].sSeq
             m == LastStep(h, r)
  <2>1. \A k \in 0 .. n - 1 : x(k) \in SeqNum /\ Dist(s, x(k)) = n - 1 - k
    <3> TAKE k \in 0 .. n - 1
    <3>1. k \in 0 .. HistorySize BY <1>1, HistoryAssumption
    <3>2. Offset(h.ackIndex, k) \in Index BY <1>1, <3>1, OffsetType
    <3>3. x(k) \in SeqNum BY <3>2 DEF History, Frame
    <3> QED BY <3>3 DEF Consecutive
  <2>2. \A k \in 0 .. n - 1 :
           AckDist(h, r, k) = IF k <= n - 1 - e THEN n - 1 - k - e ELSE (n - 1 - k - e) + SeqMod
    <3> TAKE k \in 0 .. n - 1
    <3>1. x(k) \in SeqNum /\ Dist(s, x(k)) = n - 1 - k BY <2>1
    <3> HIDE DEF x
    <3>2. Dist(r, x(k)) = IF k <= n - 1 - e THEN n - 1 - k - e ELSE (n - 1 - k - e) + SeqMod
      BY <1>1, <1>2, <3>1, HistoryAssumption DEF Dist, SeqNum, e
    <3> QED BY <3>2 DEF AckDist, x
  <2>3. \A k \in 0 .. n - 1 : Covered(h, r, k) <=> k <= n - 1 - e
    <3> TAKE k \in 0 .. n - 1
    <3>1. CASE k <= n - 1 - e
      <4>1. AckDist(h, r, k) = n - 1 - k - e BY <2>2, <3>1
      <4> HIDE DEF n, e
      <4> QED BY <1>1, <1>2, <3>1, <4>1, HistoryAssumption DEF Covered
    <3>2. CASE ~(k <= n - 1 - e)
      <4>1. AckDist(h, r, k) = (n - 1 - k - e) + SeqMod BY <2>2, <3>2
      <4> HIDE DEF n, e
      <4> QED BY <1>1, <1>2, <3>2, <4>1, HistoryAssumption DEF Covered
    <3> QED BY <3>1, <3>2
  <2>4. ~(h.freeEntries >= HistorySize) BY <1>1, <1>4, HistoryAssumption DEF UnackedCount
  <2>5. CASE e = n
    <3>1. ~Covered(h, r, 0) BY <1>1, <1>4, <2>3, <2>5
    <3>0. \A k \in 0 .. n - 1 : ~Covered(h, r, k) BY <1>1, <1>2, <2>3, <2>5
    <3>2. m = 0 BY <1>4, <3>0, FreedIs
    <3>3. g.freeEntries = h.freeEntries + 0
      BY <2>4, <3>1, <3>2 DEF deleteAckedFrameFromHistory, History
    <3> HIDE DEF g
    <3> QED BY <1>1, <2>5, <3>3, HistoryAssumption DEF UnackedCount, g
  <2>6. CASE e < n
    <3>1. Covered(h, r, 0) BY <1>1, <1>2, <1>4, <2>3, <2>6
    <3>2. PICK t \in 0 .. n - 1 : t = n - 1 - e BY <1>1, <1>2, <2>6
    <3>3. AckDist(h, r, t) = 0 BY <1>1, <1>2, <2>2, <3>2
    <3>4. t \in Index BY <1>1, <3>2, HistoryAssumption DEF Index
    <3>5. StopsAt(h, r, t) BY <3>3 DEF StopsAt
    <3>6. h.writeIndex = Offset(h.ackIndex, n) BY <1>1, OffsetTurn DEF Consecutive
    <3>7. \A j \in 0 .. t - 1 : ~StopsAt(h, r, j)
      <4> TAKE j \in 0 .. t - 1
      <4>1. j \in 0 .. n - 1 /\ j <= n - 1 - e /\ n - 1 - j - e # 0 BY <1>1, <1>2, <3>2
      <4>2. Covered(h, r, j) /\ AckDist(h, r, j) # 0 BY <2>2, <2>3, <4>1
      <4>3. j + 1 \in Nat /\ j + 1 < n /\ n - (j + 1) < HistorySize /\ n <= HistorySize
        BY <1>1, <1>2, <3>2, HistoryAssumption
      <4>4. Offset(h.ackIndex, j + 1) # Offset(h.ackIndex, n) BY <1>1, <4>3, OffsetDiffers
      <4> QED BY <3>6, <4>2, <4>4 DEF StopsAt
    <3>8. m = t BY <3>4, <3>5, <3>7, LastStepIs
    <3>9. Covered(h, r, t) BY <2>3, <3>2
    <3>10. g.freeEntries = h.freeEntries + (t + 1)
      BY <2>4, <3>8, <3>9 DEF deleteAckedFrameFromHistory, History
    <3> HIDE DEF g
    <3> QED BY <1>1, <1>2, <3>2, <3>10, HistoryAssumption DEF UnackedCount, g
  <2>7. e = n \/ e < n BY <1>1, <1>2
  <2> QED BY <2>5, <2>6, <2>7
<1> QED BY <1>1, <1>3, <1>4

\* Acknowledging takes slots out of use and no frame out of its slot.
LEMMA AckedUsed ==
    ASSUME NEW h \in History, NEW s \in SeqNum, NEW r \in SeqNum, Consecutive(h, s)
    PROVE  /\ Used(deleteAckedFrameFromHistory(h, r)) \subseteq Used(h)
           /\ deleteAckedFrameFromHistory(h, r).frame = h.frame
<1> DEFINE n == UnackedCount(h)
           g == deleteAckedFrameFromHistory(h, r)
           m == LastStep(h, r)
<1>1. n \in Nat /\ n <= HistorySize /\ h.ackIndex \in Index /\ h.freeEntries \in Nat
  BY DEF Consecutive, History
<1>2. CASE n = 0
  <2>1. h.freeEntries >= HistorySize BY <1>1, <1>2, HistoryAssumption DEF UnackedCount
  <2>2. g = h BY <2>1 DEF deleteAckedFrameFromHistory
  <2> HIDE DEF g
  <2> QED BY <2>2 DEF g
<1>3. CASE n > 0
  <2>1. ~(h.freeEntries >= HistorySize) BY <1>1, <1>3, HistoryAssumption DEF UnackedCount
  <2>2. g.frame = h.frame BY <2>1 DEF deleteAckedFrameFromHistory, History
  <2>3. CASE m = 0 /\ ~Covered(h, r, 0)
    <3>1. g.freeEntries = h.freeEntries + 0 /\ g.ackIndex = h.ackIndex
      BY <2>1, <2>3 DEF deleteAckedFrameFromHistory, History
    <3> HIDE DEF g
    <3>2. UnackedCount(g) = n BY <1>1, <3>1 DEF UnackedCount
    <3> QED BY <2>2, <3>1, <3>2 DEF Used, g
  <2>4. CASE m \in 0 .. n - 1 /\ Covered(h, r, m)
    <3>1. PICK q \in 1 .. n : q = m + 1 BY <1>1, <2>4
    <3>2. g.freeEntries = h.freeEntries + q /\ g.ackIndex = Offset(h.ackIndex, q)
      BY <2>1, <2>4, <3>1 DEF deleteAckedFrameFromHistory, History
    <3> HIDE DEF g, m
    <3>3. UnackedCount(g) = n - q BY <1>1, <3>1, <3>2, HistoryAssumption DEF UnackedCount
    <3> HIDE DEF n
    <3>4. \A j \in 0 .. n - q - 1 : /\ Offset(g.ackIndex, j) = Offset(h.ackIndex, q + j)
                                    /\ q + j \in 0 .. n - 1
      <4> TAKE j \in 0 .. n - q - 1
      <4>1. q \in Nat /\ j \in Nat /\ q + j <= HistorySize /\ q + j \in 0 .. n - 1
        BY <1>1, <3>1, HistoryAssumption
      <4> QED BY <1>1, <3>2, <4>1, OffsetAdd
    <3>5. Used(g) \subseteq Used(h) BY <3>3, <3>4 DEF Used, n
    <3> QED BY <2>2, <3>5 DEF g
  <2> QED BY <1>3, <2>3, <2>4, FreedIs
<1> QED BY <1>1, <1>2, <1>3

LEMMA ArchiveAcked ==
    ASSUME NEW h \in History, NEW s \in SeqNum, NEW r \in SeqNum, Consecutive(h, s), NEW n,
           Archive(h, n, s)
    PROVE  Archive(deleteAckedFrameFromHistory(h, r), n, s)
<1>1. /\ Used(deleteAckedFrameFromHistory(h, r)) \subseteq Used(h)
      /\ deleteAckedFrameFromHistory(h, r).frame = h.frame
  BY AckedUsed
<1> QED BY <1>1 DEF Archive

LEMMA ArchiveEmpty ==
    ASSUME NEW h, UnackedCount(h) = 0, NEW n, NEW s
    PROVE  Archive(h, n, s)
<1>1. Used(h) = {} BY DEF Used
<1> QED BY <1>1 DEF Archive

\* The next frame.
LEMMA ArchiveAnother ==
    ASSUME NEW h \in History, NEW s \in SeqNum, NEW f \in Frame, Consecutive(h, s),
           h.freeEntries > 0, f.sSeq = NextSeq(s), NEW n \in Nat, Archive(h, n, s),
           IsData(f), f.data = n + 1
    PROVE  Archive(addFrameToHistory(h, f), n + 1, NextSeq(s))
<1> DEFINE u == UnackedCount(h)
           g == addFrameToHistory(h, f)
<1>1. u \in Index /\ u + 1 = UnackedCount(g)
  BY HistoryAssumption DEF Consecutive, UnackedCount, addFrameToHistory, History, Index
<1>2. h.ackIndex \in Index /\ h.writeIndex \in Index BY DEF History
<1>3. h.writeIndex = Offset(h.ackIndex, u) BY <1>1, HistoryAssumption DEF Consecutive, Index
<1>4. g.ackIndex = h.ackIndex /\ g.frame = [h.frame EXCEPT ![h.writeIndex] = f]
  BY DEF addFrameToHistory, History
<1>5. \A k \in 0 .. u - 1 : Offset(h.ackIndex, k) # h.writeIndex
  <2> TAKE k \in 0 .. u - 1
  <2>1. k \in Nat /\ u \in Nat /\ k < u /\ u - k < HistorySize /\ u <= HistorySize
    BY <1>1, HistoryAssumption DEF Index
  <2> QED BY <1>2, <1>3, <2>1, OffsetDiffers
<1>6. NextSeq(s) \in SeqNum /\ Dist(NextSeq(s), NextSeq(s)) = 0
  BY HistoryAssumption DEF NextSeq, SeqNum, Dist
<1>7. Filed(f, n + 1, NextSeq(s)) BY <1>6 DEF Filed
<1>8. ASSUME NEW i \in Used(h) PROVE Filed(h.frame[i], n + 1, NextSeq(s))
  <2>1. Filed(h.frame[i], n, s) BY DEF Archive
  <2>2. h.frame[i].sSeq \in SeqNum /\ Dist(s, h.frame[i].sSeq) \in 0 .. u - 1
    BY UsedFacts DEF Frame
  <2>3. Dist(s, h.frame[i].sSeq) + 1 < SeqMod BY <1>1, <2>2, HistoryAssumption DEF Index
  <2>4. Dist(NextSeq(s), h.frame[i].sSeq) = Dist(s, h.frame[i].sSeq) + 1
    BY <2>2, <2>3, DistNext
  <2>5. (n + 1) - (Dist(s, h.frame[i].sSeq) + 1) = n - Dist(s, h.frame[i].sSeq)
    BY <2>2
  <2> QED BY <2>1, <2>4, <2>5 DEF Filed
<1>9. Used(h) \subseteq Index BY UsedFacts
<1> HIDE DEF g, u
<1>10. \A k \in 0 .. u : Offset(h.ackIndex, k) = h.writeIndex \/ Offset(h.ackIndex, k) \in Used(h)
  <2> TAKE k \in 0 .. u
  <2>1. k = u \/ k \in 0 .. u - 1 BY <1>1, HistoryAssumption DEF Index
  <2> QED BY <1>3, <2>1 DEF Used, u
<1>11. \A i \in Used(h) : i # h.writeIndex BY <1>5 DEF Used, u
<1>12. g.frame[h.writeIndex] = f /\ \A i \in Used(h) : g.frame[i] = h.frame[i]
  BY <1>2, <1>4, <1>9, <1>11 DEF History
<1>13. \A k \in 0 .. u : Filed(g.frame[Offset(h.ackIndex, k)], n + 1, NextSeq(s))
  BY <1>7, <1>8, <1>10, <1>12
<1>14. Used(g) = {Offset(h.ackIndex, k) : k \in 0 .. u}
  BY <1>1, <1>4 DEF Used, Index
<1>15. Archive(g, n + 1, NextSeq(s)) BY <1>13, <1>14 DEF Archive
<1> QED BY <1>15 DEF g

\* A frame of the history may be sent again.
LEMMA FiledFresh ==
    ASSUME NEW f \in Frame, NEW n \in Nat, NEW s \in SeqNum, Filed(f, n, s),
           Dist(s, f.sSeq) < HistorySize
    PROVE  Fresh(f, n)
<1>1. Dist(s, f.sSeq) \in Nat BY DistType, HistoryAssumption DEF Frame, SeqNum
<1>2. f.data \in Nat /\ f.data = n - Dist(s, f.sSeq) /\ f.data > 0 BY DEF Frame, Filed, IsData
<1>3. f.data <= n /\ n < f.data + HistorySize BY <1>1, <1>2, HistoryAssumption
<1>4. Outgoing(f, n) BY <1>3 DEF Outgoing, Filed
<1>5. ~IsOpening(f) BY <1>2 DEF IsOpening
<1> QED BY <1>3, <1>4, <1>5 DEF Fresh

\* What readFromHistory returns is in use.
LEMMA ReadUsed ==
    ASSUME NEW h \in History, NEW s \in SeqNum, Consecutive(h, s),
           NEW k \in DOMAIN readFromHistory(h)
    PROVE  \E i \in Used(h) : readFromHistory(h)[k] = h.frame[i]
<1> DEFINE n == UnackedCount(h)
           Ends(j) == \/ Offset(h.ackIndex, j) = h.writeIndex
                      \/ Offset(h.ackIndex, j) \notin h.sized
           P(c) == Ends(c) /\ \A j \in 0 .. c - 1 : ~Ends(j)
<1>1. n \in 0 .. HistorySize /\ h.ackIndex \in Index BY DEF Consecutive, History
<1>2. h.writeIndex = IF n = HistorySize THEN h.ackIndex ELSE Offset(h.ackIndex, n)
  BY DEF Consecutive
<1>3. \E c \in Index : Ends(c)
  <2>1. PICK c \in Index : Offset(h.ackIndex, c) = h.writeIndex
    BY OffsetReaches DEF History
  <2> QED BY <2>1
<1>4. \E c \in Index : P(c)
  <2> DEFINE S == {c \in Index : Ends(c)}
  <2>1. PICK c \in S : \A j \in S : c <= j BY <1>3, LeastIndex
  <2>2. \A j \in 0 .. c - 1 : ~Ends(j) BY <2>1, HistoryAssumption DEF Index
  <2> QED BY <2>1, <2>2
<1>5. ReadCount(h) <= n /\ ReadCount(h) \in Nat
  <2>1. CASE h.freeEntries >= HistorySize
    <3>1. ReadCount(h) = 0 BY <2>1 DEF ReadCount
    <3> QED BY <1>1, <3>1
  <2>2. CASE ~(h.freeEntries >= HistorySize)
    <3> DEFINE c == CHOOSE j \in Index : P(j)
    <3>1. ReadCount(h) = c BY <2>2 DEF ReadCount
    <3>2. c \in Index /\ P(c) BY <1>4
    <3> HIDE DEF c, P
    <3>3. \A j \in 0 .. c - 1 : ~Ends(j) BY <3>2 DEF P
    <3>4. CASE n = HistorySize
      <4>1. Ends(0) BY <1>1, <1>2, <3>4, OffsetTurn
      <4>2. ~(0 \in 0 .. c - 1) BY <3>3, <4>1
      <4>3. c = 0 BY <3>2, <4>2, HistoryAssumption DEF Index
      <4> QED BY <1>1, <3>1, <4>3
    <3>5. CASE n # HistorySize
      <4>1. Ends(n) BY <1>2, <3>5
      <4>2. ~(n \in 0 .. c - 1) BY <3>3, <4>1
      <4>3. c <= n BY <1>1, <3>2, <4>2, HistoryAssumption DEF Index
      <4> QED BY <3>1, <3>2, <4>3, HistoryAssumption DEF Index
    <3> QED BY <3>4, <3>5
  <2> QED BY <2>1, <2>2
<1>6. DOMAIN readFromHistory(h) = 1 .. ReadCount(h) BY DEF readFromHistory
<1>7. k - 1 \in 0 .. n - 1 BY <1>1, <1>5, <1>6, HistoryAssumption
<1>8. readFromHistory(h)[k] = h.frame[Offset(h.ackIndex, k - 1)] BY DEF readFromHistory
<1> QED BY <1>7, <1>8 DEF Used

\* All frames sent from the history.
LEMMA ReadFresh ==
    ASSUME NEW h \in History, NEW s \in SeqNum, Consecutive(h, s), NEW n \in Nat,
           Archive(h, n, s)
    PROVE  \A k \in DOMAIN readFromHistory(h) : Fresh(readFromHistory(h)[k], n)
<1> TAKE k \in DOMAIN readFromHistory(h)
<1>1. PICK i \in Used(h) : readFromHistory(h)[k] = h.frame[i] BY ReadUsed
<1>2. h.frame[i] \in Frame /\ Dist(s, h.frame[i].sSeq) < HistorySize
  <2>1. /\ h.frame[i] \in Frame /\ UnackedCount(h) \in 0 .. HistorySize
        /\ Dist(s, h.frame[i].sSeq) \in 0 .. UnackedCount(h) - 1
    BY UsedFacts
  <2> QED BY <2>1, HistoryAssumption
<1>3. Filed(h.frame[i], n, s) BY DEF Archive
<1> QED BY <1>1, <1>2, <1>3, FiledFresh

-----------------------------------------------------------------------------
(* The two ends, and what a step of either owes.                           *)

Pair(s, r) == s \in Node /\ r \in Node /\ s # r /\ Node = {s, r}

Sending(c, n, last) ==
    /\ c.sdoSeqState # "Init2"
    /\ c.sdoSeqState \in {"Init1", "Init3"} => n = 0
    /\ Established(c) => /\ c.sendSeq = 0 /\ c.sendCon = 2 /\ c.recvCon = 2
                         /\ Numbered(n, c.recvSeq) /\ Archive(c.history, n, c.recvSeq)
                         /\ n - last <= InUse(c)

Taking(c, last) ==
    /\ c.sdoSeqState \in {"Idle", "Init2", "Connected"}
    /\ c.sdoSeqState = "Connected" =>
          /\ c.recvSeq = 0 /\ c.recvCon = 2 /\ c.sendCon = 2
          /\ Numbered(last, c.sendSeq) /\ c.history.freeEntries = HistorySize

Streaming(s, r) ==
    /\ Sending(con[s], sent[s], got[r].last)
    /\ Taking(con[r], got[r].last)
    /\ ToReceiver(chan[r], sent[s], got[r].last)
    /\ ToSender(chan[s], con[s], sent[s], got[r].last)
    /\ got[r].last <= sent[s] /\ sent[s] - got[r].last <= HistorySize
    /\ ~got[r].again /\ sent[r] = 0
    /\ got[s].last = 0 /\ ~got[s].again

\* s opens once and r neither opens nor sends; the network keeps the order of frames.
OneWay(b, s, r) == b.swap = 0 /\ b.open[r] = 0 /\ b.data[r] = 0 /\ b.open[s] <= 1
Allowed(s, r) ==
    /\ OneWay(budget, s, r)
    /\ budget.open[s] > 0 => con[s].sdoSeqState = "Idle" /\ sent[s] = 0

StreamInv(s, r) == HistoryInv /\ Streaming(s, r) /\ Allowed(s, r)

SenderOwes(q, c, out, m, last) ==
    /\ Sending(c, m, last) /\ ToSender(q, c, m, last)
    /\ out \in Seq(Frame) /\ \A k \in DOMAIN out : Fresh(out[k], m)
ReceiverOwes(q, c, out, n, last, d) ==
    /\ Taking(c, last) /\ ToReceiver(q, n, last) /\ last <= n
    /\ out \in Seq(Frame) /\ \A k \in DOMAIN out : FreshAck(out[k], d, n, last)

\* An idle sender stays so unless its command layer opens.
StaysIdle(s) == con[s].sdoSeqState = "Idle" =>
                    con'[s].sdoSeqState = "Idle" /\ sent'[s] = sent[s]

\* One more frame is sent, or one more is taken, or neither.
Onward(s, r) ==
    \/ sent'[s] = sent[s] /\ got'[r].last \in {got[r].last, got[r].last + 1}
    \/ sent'[s] = sent[s] + 1 /\ got'[r].last = got[r].last

Step(s, r) == Streaming(s, r)' /\ StaysIdle(s) /\ Onward(s, r)

LEMMA PairFacts ==
    ASSUME NEW s, NEW r, Pair(s, r)
    PROVE  Other(s) = r /\ Other(r) = s
<1>1. \A q \in Node : q # s <=> q = r BY DEF Pair
<1>2. \A q \in Node : q # r <=> q = s BY DEF Pair
<1> QED BY <1>1, <1>2 DEF Other, Pair

LEMMA TypeFacts ==
    ASSUME Inv, NEW p \in Node
    PROVE  /\ con[p] \in Con /\ chan[p] \in Seq(Frame) /\ sent[p] \in Nat
           /\ got[p] \in [last : Nat, again : BOOLEAN]
           /\ budget.swap \in Nat /\ budget.open[p] \in Nat /\ budget.data[p] \in Nat
BY DEF Inv, TypeOK, Budget

LEMMA InUseType == \A c \in Con : InUse(c) \in Int /\ InUse(c) <= HistorySize
BY HistoryAssumption DEF InUse, UnackedCount, Con, History

LEMMA SenderStreams ==
    ASSUME NEW s, NEW r, Pair(s, r), StreamInv(s, r), NEW q \in Seq(Frame), NEW e,
           NEW m \in Nat,
           m = sent[s] \/ (m = sent[s] + 1 /\ m - got[r].last <= HistorySize),
           Commit(s, [chan EXCEPT ![s] = q], e), sent' = [sent EXCEPT ![s] = m],
           e.data = 0, SenderOwes(q, e.c, e.out, m, got[r].last)
    PROVE  Streaming(s, r)' /\ con'[s] = e.c /\ sent'[s] = m /\ Onward(s, r)
<1>1. Inv /\ Streaming(s, r) /\ s \in Node /\ r \in Node /\ s # r
  BY DEF StreamInv, HistoryInv, Pair
<1>2. /\ con \in [Node -> Con] /\ chan \in [Node -> Seq(Frame)] /\ sent \in [Node -> Nat]
      /\ got \in [Node -> [last : Nat, again : BOOLEAN]]
  BY <1>1 DEF Inv, TypeOK
<1>3. con'[s] = e.c /\ con'[r] = con[r] BY <1>1, <1>2 DEF Commit
<1>4. chan'[s] = q /\ chan'[r] = Carry(chan[r] \o e.out)
  BY <1>1, <1>2, PairFacts DEF Commit
<1>5. sent'[s] = m /\ sent'[r] = sent[r] BY <1>1, <1>2
<1>6. got'[s] = got[s] /\ got'[r] = got[r] BY <1>1, <1>2 DEF Commit, Deliver
<1>7. got[r].last \in Nat /\ sent[s] \in Nat /\ chan[r] \in Seq(Frame) /\ got[r].last <= sent[s]
  BY <1>1, <1>2 DEF Streaming
<1>8. ToReceiver(chan'[r], m, got[r].last)
  <2>1. ToReceiver(chan[r], sent[s], got[r].last) BY <1>1 DEF Streaming
  <2>2. e.out \in Seq(Frame) /\ \A k \in DOMAIN e.out : Fresh(e.out[k], m) BY DEF SenderOwes
  <2>3. sent[s] <= m BY <1>7
  <2> QED BY <1>4, <1>7, <2>1, <2>2, <2>3, ToReceiverSent
<1>9. Sending(con'[s], m, got[r].last) /\ ToSender(chan'[s], con'[s], m, got[r].last)
  BY <1>3, <1>4 DEF SenderOwes
<1>10. got[r].last <= m /\ m - got[r].last <= HistorySize
  <2>1. got[r].last <= m BY <1>7
  <2>2. CASE m = sent[s] BY <1>1, <2>2 DEF Streaming
  <2> QED BY <2>1, <2>2
<1>11. Streaming(s, r)' BY <1>1, <1>3, <1>5, <1>6, <1>8, <1>9, <1>10 DEF Streaming
<1>12. Onward(s, r) BY <1>5, <1>6 DEF Onward
<1> QED BY <1>3, <1>5, <1>11, <1>12

LEMMA SenderCommit ==
    ASSUME NEW s, NEW r, Pair(s, r), StreamInv(s, r), NEW q \in Seq(Frame), NEW e,
           NEW m \in Nat,
           m = sent[s] \/ (m = sent[s] + 1 /\ m - got[r].last <= HistorySize),
           Commit(s, [chan EXCEPT ![s] = q], e), sent' = [sent EXCEPT ![s] = m],
           e.data = 0, SenderOwes(q, e.c, e.out, m, got[r].last),
           con[s].sdoSeqState = "Idle" => e.c.sdoSeqState = "Idle" /\ m = sent[s]
    PROVE  Step(s, r)
<1>1. Streaming(s, r)' /\ con'[s] = e.c /\ sent'[s] = m /\ Onward(s, r) BY SenderStreams
<1>2. StaysIdle(s) BY <1>1 DEF StaysIdle
<1> QED BY <1>1, <1>2 DEF Step

LEMMA ReceiverCommit ==
    ASSUME NEW s, NEW r, Pair(s, r), StreamInv(s, r), NEW q \in Seq(Frame), NEW e,
           NEW last \in Nat,
           \/ e.data = 0 /\ last = got[r].last
           \/ e.data = last /\ last = got[r].last + 1,
           Commit(r, [chan EXCEPT ![r] = q], e), sent' = sent,
           ReceiverOwes(q, e.c, e.out, sent[s], last, con[s])
    PROVE  Step(s, r)
<1>1. Inv /\ Streaming(s, r) /\ s \in Node /\ r \in Node /\ s # r
  BY DEF StreamInv, HistoryInv, Pair
<1>2. /\ con \in [Node -> Con] /\ chan \in [Node -> Seq(Frame)] /\ sent \in [Node -> Nat]
      /\ got \in [Node -> [last : Nat, again : BOOLEAN]]
  BY <1>1 DEF Inv, TypeOK
<1>3. con'[r] = e.c /\ con'[s] = con[s] BY <1>1, <1>2 DEF Commit
<1>4. chan'[r] = q /\ chan'[s] = Carry(chan[s] \o e.out)
  BY <1>1, <1>2, PairFacts DEF Commit
<1>5. got'[s] = got[s] /\ got'[r] = Deliver(got[r], e.data)
  BY <1>1, <1>2 DEF Commit
<1>6. got[r].last \in Nat /\ sent[s] \in Nat /\ chan[s] \in Seq(Frame) /\ con[s] \in Con
  BY <1>1, <1>2
<1>7. got'[r].last = last /\ ~got'[r].again
  <2>1. ~got[r].again BY <1>1 DEF Streaming
  <2>2. CASE e.data = 0 /\ last = got[r].last BY <1>5, <2>1, <2>2 DEF Deliver
  <2>3. CASE e.data = last /\ last = got[r].last + 1
    <3>1. e.data # 0 /\ ~(e.data <= got[r].last) BY <1>6, <2>3
    <3> DEFINE x == got[r].again \/ e.data <= got[r].last
    <3>2. got'[r] = [last |-> e.data, again |-> x] BY <1>5, <3>1 DEF Deliver
    <3>3. ~x BY <2>1, <3>1
    <3> HIDE DEF x
    <3>4. got'[r].last = e.data /\ got'[r].again = x BY <3>2
    <3> QED BY <2>3, <3>3, <3>4
  <2> QED BY <2>2, <2>3
<1>8. got[r].last <= last BY <1>6
<1>9. Sending(con[s], sent[s], last)
  <2>1. Sending(con[s], sent[s], got[r].last) BY <1>1 DEF Streaming
  <2>2. sent[s] - got[r].last <= InUse(con[s]) => sent[s] - last <= InUse(con[s])
    BY <1>6, <1>8, InUseType
  <2> QED BY <2>1, <2>2 DEF Sending
<1>10. ToSender(chan'[s], con[s], sent[s], last)
  <2>1. ToSender(chan[s], con[s], sent[s], last)
    BY <1>1, <1>6, <1>8, ToSenderFurther DEF Streaming
  <2>2. Established(con[s]) => sent[s] - last <= InUse(con[s]) BY <1>9 DEF Sending
  <2>3. e.out \in Seq(Frame) /\ \A k \in DOMAIN e.out : FreshAck(e.out[k], con[s], sent[s], last)
    BY DEF ReceiverOwes
  <2> QED BY <1>4, <1>6, <2>1, <2>2, <2>3, ToSenderSent
<1>11. Taking(con'[r], last) /\ ToReceiver(chan'[r], sent[s], last) /\ last <= sent[s]
  BY <1>3, <1>4 DEF ReceiverOwes
<1>14. sent[s] - last <= HistorySize
  <2>1. sent[s] - got[r].last <= HistorySize BY <1>1 DEF Streaming
  <2> QED BY <1>6, <1>8, <2>1, HistoryAssumption
<1>12. Streaming(s, r)' BY <1>1, <1>3, <1>5, <1>7, <1>9, <1>10, <1>11, <1>14 DEF Streaming
<1>13. StaysIdle(s) BY <1>3 DEF StaysIdle
<1>15. Onward(s, r) BY <1>7 DEF Onward
<1> QED BY <1>12, <1>13, <1>15 DEF Step

-----------------------------------------------------------------------------
(* Steps of the sender.                                                    *)

LEMMA CloseFrameIs ==
    ASSUME NEW c \in Con
    PROVE  /\ <<CloseFrame(c)>> \in Seq(Frame)
           /\ \A k \in DOMAIN <<CloseFrame(c)>> : IsClose(<<CloseFrame(c)>>[k])
<1>1. CloseFrame(c).sCon = 0 /\ CloseFrame(c).rCon = 0 /\ CloseFrame(c).data = 0
  BY DEF CloseFrame, HeaderFrame, Con
<1>2. IsClose(CloseFrame(c)) BY <1>1 DEF IsClose
<1> QED BY <1>2, CloseFrameType

LEMMA CloseFresh ==
    ASSUME NEW f, IsClose(f), NEW n \in Nat
    PROVE  Fresh(f, n) /\ \A c, last : FreshAck(f, c, n, last)
BY DEF IsClose, Fresh, Outgoing, IsOpening, FreshAck, Incoming, IsAck

LEMMA SenderCloses ==
    ASSUME NEW s, NEW r, Pair(s, r), StreamInv(s, r), NEW q \in Seq(Frame),
           ToSender(q, con[s], sent[s], got[r].last), NEW out \in Seq(Frame),
           \A k \in DOMAIN out : IsClose(out[k]),
           Commit(s, [chan EXCEPT ![s] = q], Closed(out)), sent' = sent
    PROVE  Step(s, r)
<1> DEFINE e == Closed(out)
<1>1. Inv /\ s \in Node /\ sent \in [Node -> Nat] BY DEF StreamInv, HistoryInv, Pair, Inv, TypeOK
<1>2. e.c.sdoSeqState = "Idle" /\ ~Established(e.c) /\ e.out = out /\ e.data = 0
  BY DEF Closed, ZeroCon, Established
<1>3. sent' = [sent EXCEPT ![s] = sent[s]] /\ sent[s] \in Nat BY <1>1
<1> HIDE DEF e
<1>4. Sending(e.c, sent[s], got[r].last) BY <1>2 DEF Sending
<1>5. ToSender(q, e.c, sent[s], got[r].last) BY <1>2, ToSenderGivenUp
<1>6. \A k \in DOMAIN out : Fresh(out[k], sent[s]) BY <1>3, CloseFresh
<1>7. SenderOwes(q, e.c, e.out, sent[s], got[r].last) BY <1>2, <1>4, <1>5, <1>6 DEF SenderOwes
<1> QED BY <1>2, <1>3, <1>7, SenderCommit DEF e

\* A frame that the sender's handshake does not expect.
LEMMA SenderRejects ==
    ASSUME NEW s, NEW r, Pair(s, r), StreamInv(s, r), chan[s] # <<>>,
           NEW c \in Con, NEW f \in Frame, RejectInit(s, c, f), sent' = sent
    PROVE  Step(s, r)
<1>1. PICK out : /\ Commit(s, [chan EXCEPT ![s] = Tail(@)], Closed(out))
                 /\ out = <<>> \/ out = <<CloseFrame(Adopt(c, f))>>
  BY DEF RejectInit
<1>2. Adopt(c, f) \in Con BY AdoptType
<1>3. out \in Seq(Frame) /\ \A k \in DOMAIN out : IsClose(out[k])
  <2>1. CASE out = <<>> BY <2>1
  <2>2. CASE out = <<CloseFrame(Adopt(c, f))>> BY <1>2, <2>2, CloseFrameIs
  <2> QED BY <1>1, <2>1, <2>2
<1>4. Inv /\ s \in Node BY DEF StreamInv, HistoryInv, Pair
<1>5. chan[s] \in Seq(Frame) BY <1>4, TypeFacts
<1>6. Tail(chan[s]) \in Seq(Frame) BY <1>5
<1>7. ToSender(chan[s], con[s], sent[s], got[r].last) BY DEF StreamInv, Streaming
<1>8. ToSender(Tail(chan[s]), con[s], sent[s], got[r].last) BY <1>5, <1>7, ToSenderTaken
<1> QED BY <1>1, <1>3, <1>6, <1>8, SenderCloses

\* The next data frame.
LEMMA AnotherSent ==
    ASSUME NEW c \in Con, c.sdoSeqState = "Connected", NEW n \in Nat, NEW last \in Nat,
           Sending(c, n, last), NEW q \in Seq(Frame), ToSender(q, c, n, last),
           Consecutive(c.history, c.recvSeq), c.history.freeEntries > 0
    PROVE  SenderOwes(q, AfterSend(c, n + 1), <<HeaderFrame(Advance(c), n + 1)>>, n + 1, last)
<1> DEFINE a == Advance(c)
           f == HeaderFrame(a, n + 1)
           b == AfterSend(c, n + 1)
<1>1. c.history \in History /\ c.recvSeq \in SeqNum BY DEF Con
<1>2. Established(c) BY DEF Established
<1>3. /\ c.sendSeq = 0 /\ c.sendCon = 2 /\ c.recvCon = 2
      /\ Numbered(n, c.recvSeq) /\ Archive(c.history, n, c.recvSeq) /\ n - last <= InUse(c)
  BY <1>2 DEF Sending
<1>4. a \in Con /\ f \in Frame BY AdvanceType, HeaderFrameType
<1>5. /\ a.recvSeq = NextSeq(c.recvSeq) /\ a.recvCon \in {2, 3} /\ a.sendSeq = c.sendSeq
      /\ a.sendCon = c.sendCon /\ a.history = c.history
  BY <1>3 DEF Advance, Con
<1>6. /\ f.sSeq = NextSeq(c.recvSeq) /\ f.sCon \in {2, 3} /\ f.rCon = 2 /\ f.data = n + 1
  BY <1>3, <1>5 DEF HeaderFrame
<1>7. /\ b.history = addFrameToHistory(c.history, f) /\ b.recvSeq = NextSeq(c.recvSeq)
      /\ b.recvCon = 2 /\ b.sendSeq = 0 /\ b.sendCon = 2
  BY <1>3, <1>5 DEF AfterSend, Advance, Con
<1>8. b \in Con /\ Established(b) BY AfterSendType
<1> HIDE DEF a, f, b
<1>9. Numbered(n + 1, NextSeq(c.recvSeq)) BY <1>1, <1>3, NumberedNext
<1>10. IsData(f) /\ f.data = n + 1 BY <1>6, <1>9 DEF IsData
<1>11. Archive(b.history, n + 1, b.recvSeq)
  BY <1>1, <1>3, <1>4, <1>6, <1>7, <1>10, ArchiveAnother
<1>12. InUse(b) = InUse(c) + 1 /\ InUse(c) < HistorySize /\ InUse(c) \in Int
  <2>1. b.history.freeEntries = c.history.freeEntries - 1
    BY <1>1, <1>7 DEF addFrameToHistory, History
  <2>2. c.history.freeEntries \in Nat BY <1>1 DEF History
  <2> QED BY <2>1, <2>2, HistoryAssumption DEF InUse, UnackedCount
<1>13. (n + 1) - last <= InUse(b) BY <1>3, <1>12
<1>14. Sending(b, n + 1, last)
  <2>1. b.sdoSeqState \in {"Connected", "WaitAck"} BY <1>8 DEF Established
  <2> QED BY <1>7, <1>9, <1>11, <1>13, <2>1 DEF Sending
<1>15. ToSender(q, b, n + 1, last) BY <1>2, <1>7, <1>8, <1>12, ToSenderAnother
<1>16. Fresh(f, n + 1)
  <2>1. Outgoing(f, n + 1) BY <1>10 DEF Outgoing
  <2>2. ~IsOpening(f) BY <1>6 DEF IsOpening
  <2>3. n + 1 < f.data + HistorySize BY <1>10, HistoryAssumption
  <2> QED BY <2>1, <2>2, <2>3 DEF Fresh
<1>17. <<f>> \in Seq(Frame) /\ \A k \in DOMAIN <<f>> : Fresh(<<f>>[k], n + 1) BY <1>4, <1>16
<1> QED BY <1>14, <1>15, <1>17 DEF SenderOwes, a, f, b

\* A frame that is recorded had a free slot.
LEMMA RecordedFree ==
    ASSUME NEW c \in Con, NEW t \in Nat, Sound(c, t),
           \E i \in Index : AfterSend(c, t + 1).history.frame[i].data = t + 1
    PROVE  c.history.freeEntries > 0
<1> DEFINE b == AfterSend(c, t + 1)
           f == HeaderFrame(Advance(c), t + 1)
           h == c.history
<1>1. h \in History BY DEF Con
<1>2. b.history = addFrameToHistory(h, f) BY DEF AfterSend, Advance, Con
<1>3. \A i \in Index : h.frame[i].data <= t /\ h.frame[i].data \in Nat
  BY <1>1 DEF Sound, History, Frame
<1> HIDE DEF b, f, h
<1>4. SUFFICES ASSUME ~(h.freeEntries > 0) PROVE FALSE
  BY DEF h
<1>5. b.history = h BY <1>2, <1>4 DEF addFrameToHistory
<1> QED BY <1>3, <1>5 DEF b

\* The entry after an acknowledge, before the frame goes through the state machine.
Acked(p, f) == [con[p] EXCEPT !.conHandle = TRUE,
                              !.history = deleteAckedFrameFromHistory(@, f.rSeq)]

LEMMA AckedEntry ==
    ASSUME HistoryInv, NEW p \in Node, NEW f \in Frame
    PROVE  /\ Acked(p, f) \in Con /\ Acked(p, f).sdoSeqState = con[p].sdoSeqState
           /\ Acked(p, f).recvSeq = con[p].recvSeq /\ Acked(p, f).recvCon = con[p].recvCon
           /\ Acked(p, f).sendSeq = con[p].sendSeq /\ Acked(p, f).sendCon = con[p].sendCon
           /\ Acked(p, f).history = deleteAckedFrameFromHistory(con[p].history, f.rSeq)
           /\ Sound(Acked(p, f), sent[p])
<1>1. con[p] \in Con /\ sent[p] \in Nat /\ Sound(con[p], sent[p])
  BY TypeFacts DEF HistoryInv
<1>2. f.rSeq \in SeqNum BY DEF Frame
<1>3. deleteAckedFrameFromHistory(con[p].history, f.rSeq) \in History
  BY <1>1, <1>2, deleteAckedType DEF Con
<1>4. Sound(Acked(p, f), sent[p]) BY <1>1, <1>2, AckedSound DEF Acked
<1> QED BY <1>1, <1>3, <1>4 DEF Acked, Con

\* An established sender takes an acknowledge.
LEMMA SenderAcked ==
    ASSUME NEW s, NEW r, Pair(s, r), StreamInv(s, r), chan[s] # <<>>, NEW f \in Frame,
           f = Head(chan[s]), Established(con[s]), IsAck(f)
    PROVE  /\ Sending(Acked(s, f), sent[s], got[r].last)
           /\ ToSender(Tail(chan[s]), Acked(s, f), sent[s], got[r].last)
           /\ Consecutive(Acked(s, f).history, Acked(s, f).recvSeq)
<1> DEFINE c == Acked(s, f)
           o == con[s]
           h == o.history
<1>1. HistoryInv /\ Inv /\ Streaming(s, r) /\ s \in Node /\ r \in Node
  BY DEF StreamInv, HistoryInv, Pair
<1>2. /\ o \in Con /\ chan[s] \in Seq(Frame) /\ sent[s] \in Nat /\ got[r].last \in Nat
      /\ Sound(o, sent[s])
  BY <1>1, TypeFacts DEF HistoryInv
<1>3. /\ c \in Con /\ c.sdoSeqState = o.sdoSeqState /\ c.recvSeq = o.recvSeq
      /\ c.recvCon = o.recvCon /\ c.sendSeq = o.sendSeq /\ c.sendCon = o.sendCon
      /\ c.history = deleteAckedFrameFromHistory(h, f.rSeq) /\ Sound(c, sent[s])
  BY <1>1, AckedEntry
<1>4. h \in History /\ o.recvSeq \in SeqNum /\ f.rSeq \in SeqNum BY <1>2 DEF Con, Frame
<1>5. Consecutive(h, o.recvSeq) BY <1>2 DEF Sound
<1>6. ToSender(chan[s], o, sent[s], got[r].last) BY <1>1 DEF Streaming
<1>7. Sending(o, sent[s], got[r].last) BY <1>1 DEF Streaming
<1> HIDE DEF c, o
<1>8. Established(o) BY DEF o
<1>9. Behind(o, f) <= InUse(o)
  <2>1. 1 \in DOMAIN chan[s] /\ f = chan[s][1] BY <1>2, ThinnerTail
  <2>2. Behind(o, f) \in sent[s] - got[r].last .. InUse(o) BY <1>6, <1>8, <2>1 DEF ToSender
  <2>3. InUse(o) \in Int BY <1>2, InUseType
  <2> QED BY <1>2, <2>2, <2>3
<1>10. InUse(c) = Behind(o, f)
  BY <1>3, <1>4, <1>5, <1>9, AckedUnacked DEF InUse, Behind
<1>11. ToSender(Tail(chan[s]), c, sent[s], got[r].last) /\ sent[s] - got[r].last <= InUse(c)
  BY <1>2, <1>3, <1>6, <1>8, <1>10, ToSenderAcked
<1>12. Archive(c.history, sent[s], c.recvSeq)
  BY <1>3, <1>4, <1>5, <1>7, <1>8, ArchiveAcked DEF Sending
<1>13. Established(c) BY <1>3, <1>8 DEF Established
<1>14. Sending(c, sent[s], got[r].last)
  BY <1>3, <1>7, <1>8, <1>11, <1>12 DEF Sending
<1>15. Consecutive(c.history, c.recvSeq) BY <1>3, <1>13 DEF Sound
<1> QED BY <1>11, <1>14, <1>15 DEF c

\* It resends frames of its history, or none, and may leave WaitAck.
LEMMA SenderResends ==
    ASSUME NEW s, NEW r, Pair(s, r), StreamInv(s, r), con[s].sdoSeqState # "Idle",
           NEW q \in Seq(Frame), NEW c \in Con, Sending(c, sent[s], got[r].last),
           ToSender(q, c, sent[s], got[r].last), Established(c),
           Consecutive(c.history, c.recvSeq), NEW e, e.c = c, e.data = 0, NEW k \in Nat,
           k <= Len(readFromHistory(c.history)),
           e.out = SubSeq(readFromHistory(c.history), 1, k),
           Commit(s, [chan EXCEPT ![s] = q], e), sent' = sent
    PROVE  Step(s, r)
<1> DEFINE frames == readFromHistory(c.history)
<1>1. Inv /\ s \in Node BY DEF StreamInv, HistoryInv, Pair
<1>2. sent[s] \in Nat /\ sent' = [sent EXCEPT ![s] = sent[s]] BY <1>1 DEF Inv, TypeOK
<1>3. c.history \in History /\ c.recvSeq \in SeqNum BY DEF Con
<1>4. Archive(c.history, sent[s], c.recvSeq) BY DEF Sending
<1>5. frames \in Seq(Frame) BY <1>3, readFromHistoryType
<1>6. \A j \in DOMAIN frames : Fresh(frames[j], sent[s]) BY <1>2, <1>3, <1>4, ReadFresh
<1>7. e.out \in Seq(Frame) /\ \A j \in DOMAIN e.out : Fresh(e.out[j], sent[s])
  <2> HIDE DEF frames
  <2>1. e.out = SubSeq(frames, 1, k) /\ k \in 0 .. Len(frames) BY DEF frames
  <2>2. /\ e.out \in Seq(Frame) /\ DOMAIN e.out = 1 .. k
        /\ \A j \in 1 .. k : e.out[j] = frames[j] /\ j \in DOMAIN frames
    BY <1>5, <2>1, SubSeqProperties
  <2> QED BY <1>6, <2>2
<1>8. SenderOwes(q, e.c, e.out, sent[s], got[r].last) BY <1>7 DEF SenderOwes
<1> QED BY <1>2, <1>8, SenderCommit

\* It may send the next frame from within the callback.
LEMMA SenderReplies ==
    ASSUME NEW s, NEW r, Pair(s, r), StreamInv(s, r), AllRecorded,
           con[s].sdoSeqState # "Idle", NEW q \in Seq(Frame),
           NEW c \in Con, Sending(c, sent[s], got[r].last), Sound(c, sent[s]),
           ToSender(q, c, sent[s], got[r].last), c.sdoSeqState = "Connected",
           NEW tag, tag # 0 => tag = sent[s] + 1, NEW e, e.data = 0,
           e.c = IF tag = 0 THEN c ELSE AfterSend(c, tag),
           e.out = IF tag = 0 THEN <<>> ELSE <<HeaderFrame(Advance(c), tag)>>,
           Commit(s, [chan EXCEPT ![s] = q], e),
           sent' = IF tag = 0 THEN sent ELSE [sent EXCEPT ![s] = tag]
    PROVE  Step(s, r)
<1>1. Inv /\ s \in Node /\ r \in Node BY DEF StreamInv, HistoryInv, Pair
<1>2. sent[s] \in Nat /\ sent \in [Node -> Nat] /\ con \in [Node -> Con] /\ got[r].last \in Nat
  BY <1>1, TypeFacts DEF Inv, TypeOK
<1>3. CASE tag = 0
  <2>1. SenderOwes(q, e.c, e.out, sent[s], got[r].last) BY <1>3 DEF SenderOwes
  <2>2. sent' = [sent EXCEPT ![s] = sent[s]] BY <1>2, <1>3
  <2> QED BY <1>2, <2>1, <2>2, SenderCommit
<1>4. CASE tag # 0
  <2>1. sent'[s] = sent[s] + 1 /\ con'[s] = AfterSend(c, sent[s] + 1)
    BY <1>1, <1>2, <1>4 DEF Commit
  <2>2. \E i \in Index : AfterSend(c, sent[s] + 1).history.frame[i].data = sent[s] + 1
    BY <1>1, <1>2, <2>1 DEF AllRecorded
  <2>3. c.history.freeEntries > 0 BY <1>2, <2>2, RecordedFree
  <2>4. Consecutive(c.history, c.recvSeq) BY DEF Sound, Established
  <2>5. SenderOwes(q, AfterSend(c, sent[s] + 1), <<HeaderFrame(Advance(c), sent[s] + 1)>>,
                   sent[s] + 1, got[r].last)
    BY <1>2, <2>3, <2>4, AnotherSent
  <2>6. SenderOwes(q, e.c, e.out, sent[s] + 1, got[r].last) BY <1>4, <2>5
  <2>7. sent' = [sent EXCEPT ![s] = tag] /\ tag = sent[s] + 1 BY <1>4
  <2>8. sent' = [sent EXCEPT ![s] = sent[s] + 1] BY <2>7
  <2>9. sent[s] + 1 \in Nat BY <1>2
  <2>10. (sent[s] + 1) - got[r].last <= HistorySize
    <3> DEFINE d == AfterSend(c, sent[s] + 1)
    <3>1. d \in Con /\ Established(d) BY <1>2, <2>4, AfterSendType DEF Established
    <3> HIDE DEF d
    <3>2. Sending(d, sent[s] + 1, got[r].last) BY <2>5 DEF SenderOwes, d
    <3>3. (sent[s] + 1) - got[r].last <= InUse(d) BY <3>1, <3>2 DEF Sending
    <3> QED BY <1>2, <3>1, <3>3, InUseType, HistoryAssumption
  <2> QED BY <2>6, <2>8, <2>9, <2>10, SenderCommit
<1> QED BY <1>3, <1>4

\* The handshake of the sender.
LEMMA SenderAnswers ==
    ASSUME NEW s, NEW r, Pair(s, r), StreamInv(s, r), chan[s] # <<>>, NEW c \in Con,
           NEW f \in Frame, IsAnswer(f), c.sdoSeqState = "Init1", sent[s] = 0,
           con[s].sdoSeqState # "Idle", Answer(s, c, f, "Init3"), sent' = sent
    PROVE  Step(s, r)
<1> DEFINE a == [Adopt(c, f) EXCEPT !.recvCon = @ + 1]
           b == [a EXCEPT !.sdoSeqState = "Init3", !.history = @]
           net == [chan EXCEPT ![s] = Tail(@)]
           yes == [c |-> b, out |-> <<HeaderFrame(a, 0)>>, timer |-> "running",
                   up |-> FALSE, data |-> 0]
           no  == [c |-> a, out |-> <<>>, timer |-> timer[s], up |-> FALSE, data |-> 0]
<1>1. Inv /\ s \in Node /\ sent \in [Node -> Nat] BY DEF StreamInv, HistoryInv, Pair, Inv, TypeOK
<1>2. PICK ok \in SendOutcome : Commit(s, net, IF ok THEN yes ELSE no)
  BY DEF Answer
<1>3. /\ a.recvSeq = 0 /\ a.recvCon = 2 /\ a.sendSeq = 0 /\ a.sendCon = 1
      /\ a.sdoSeqState = "Init1" /\ a \in Con
  <2>1. f.rSeq = 0 /\ f.rCon = 1 /\ f.sSeq = 0 /\ f.sCon = 1 BY DEF IsAnswer
  <2>2. Adopt(c, f) \in Con BY AdoptType
  <2>3. 1 + 1 \in ConBits /\ 1 + 1 = 2 BY DEF ConBits
  <2>4. /\ Adopt(c, f).recvSeq = 0 /\ Adopt(c, f).recvCon = 1 /\ Adopt(c, f).sendSeq = 0
        /\ Adopt(c, f).sendCon = 1 /\ Adopt(c, f).sdoSeqState = "Init1"
    BY <2>1 DEF Adopt, Con
  <2> HIDE DEF a
  <2>5. a = [Adopt(c, f) EXCEPT !.recvCon = 2] BY <2>3, <2>4 DEF a
  <2> QED BY <2>2, <2>3, <2>4, <2>5 DEF Con
<1>4. b.sdoSeqState = "Init3" BY DEF Adopt, Con
<1>5. yes.c = b /\ yes.out = <<HeaderFrame(a, 0)>> /\ yes.data = 0
      /\ no.c = a /\ no.out = <<>> /\ no.data = 0
  OBVIOUS
<1>6. HeaderFrame(a, 0) \in Frame BY <1>3, HeaderFrameType
<1>7. IsOpening(HeaderFrame(a, 0)) BY <1>3 DEF IsOpening, HeaderFrame
<1> HIDE DEF a, b, yes, no
<1>8. Fresh(HeaderFrame(a, 0), 0) BY <1>7 DEF Fresh, Outgoing, IsOpening
<1>9. chan[s] \in Seq(Frame) BY <1>1, TypeFacts
<1>10. Tail(chan[s]) \in Seq(Frame) BY <1>9
<1>11. ToSender(Tail(chan[s]), con[s], 0, got[r].last)
  <2>1. ToSender(chan[s], con[s], 0, got[r].last) BY DEF StreamInv, Streaming
  <2> QED BY <1>9, <2>1, ToSenderTaken
<1>12. SenderOwes(Tail(chan[s]), yes.c, yes.out, 0, got[r].last)
  <2>1. Sending(b, 0, got[r].last) /\ ~Established(b) BY <1>4 DEF Sending, Established
  <2>2. ToSender(Tail(chan[s]), b, 0, got[r].last) BY <1>11, <2>1, ToSenderGivenUp
  <2>3. yes.out \in Seq(Frame) /\ \A k \in DOMAIN yes.out : Fresh(yes.out[k], 0)
    BY <1>5, <1>6, <1>8
  <2> QED BY <1>5, <2>1, <2>2, <2>3 DEF SenderOwes
<1>13. SenderOwes(Tail(chan[s]), no.c, no.out, 0, got[r].last)
  <2>1. Sending(a, 0, got[r].last) /\ ~Established(a) BY <1>3 DEF Sending, Established
  <2>2. ToSender(Tail(chan[s]), a, 0, got[r].last) BY <1>11, <2>1, ToSenderGivenUp
  <2> QED BY <1>5, <2>1, <2>2 DEF SenderOwes
<1>14. sent' = [sent EXCEPT ![s] = 0] /\ 0 \in Nat /\ 0 = sent[s] BY <1>1
<1> DEFINE q == Tail(chan[s])
<1>17. q \in Seq(Frame) /\ net = [chan EXCEPT ![s] = q] BY <1>10
<1>18. /\ SenderOwes(q, yes.c, yes.out, 0, got[r].last)
       /\ SenderOwes(q, no.c, no.out, 0, got[r].last)
  BY <1>12, <1>13
<1> HIDE DEF q, net
<1>15. CASE ok = TRUE
  <2>1. Commit(s, [chan EXCEPT ![s] = q], yes) BY <1>2, <1>15, <1>17
  <2> QED BY <1>5, <1>14, <1>17, <1>18, <2>1, SenderCommit
<1>16. CASE ok = FALSE
  <2>1. Commit(s, [chan EXCEPT ![s] = q], no) BY <1>2, <1>16, <1>17
  <2> QED BY <1>5, <1>14, <1>17, <1>18, <2>1, SenderCommit
<1> QED BY <1>2, <1>15, <1>16 DEF SendOutcome

IsFirstAck(f) == IsAck(f) /\ f.rSeq = 0 /\ f.rCon = 2

\* The last frame of the handshake (processStateInit3).
ConnectedBy(c, f) ==
    [c |-> [Adopt(c, f) EXCEPT !.sdoSeqState = "Connected", !.history = initHistory(@)],
     out |-> <<>>, timer |-> "running", up |-> TRUE, data |-> 0]

LEMMA SenderConnects ==
    ASSUME NEW s, NEW r, Pair(s, r), StreamInv(s, r), chan[s] # <<>>, NEW c \in Con,
           NEW f \in Frame, IsFirstAck(f), sent[s] = 0,
           con[s].sdoSeqState # "Idle", sent' = sent,
           Commit(s, [chan EXCEPT ![s] = Tail(@)], ConnectedBy(c, f))
    PROVE  Step(s, r)
<1> DEFINE d == [Adopt(c, f) EXCEPT !.sdoSeqState = "Connected", !.history = initHistory(@)]
           e == ConnectedBy(c, f)
<1>1. Inv /\ s \in Node /\ r \in Node /\ sent \in [Node -> Nat] /\ Streaming(s, r)
  BY DEF StreamInv, HistoryInv, Pair, Inv, TypeOK
<1>2. /\ d.recvSeq = 0 /\ d.recvCon = 2 /\ d.sendSeq = 0 /\ d.sendCon = 2
      /\ d.sdoSeqState = "Connected" /\ d.history = initHistory(c.history)
  BY DEF Adopt, Con, IsAck, IsFirstAck
<1>13. e.c = d /\ e.out = <<>> /\ e.data = 0 BY DEF ConnectedBy
<1>11. Commit(s, [chan EXCEPT ![s] = Tail(chan[s])], e) OBVIOUS
<1> HIDE DEF d, e
<1>3. InUse(d) = 0 /\ UnackedCount(d.history) = 0
  <2>1. c.history \in History BY DEF Con
  <2>2. d.history.freeEntries = HistorySize BY <1>2, <2>1 DEF initHistory, History
  <2> QED BY <2>2, HistoryAssumption DEF InUse, UnackedCount
<1>4. chan[s] \in Seq(Frame) /\ got[r].last \in Nat BY <1>1, TypeFacts
<1>5. Tail(chan[s]) \in Seq(Frame) BY <1>4
<1>6. got[r].last = 0 BY <1>1, <1>4 DEF Streaming
<1>7. ToSender(Tail(chan[s]), d, 0, got[r].last)
  <2>1. ToSender(chan[s], con[s], 0, got[r].last) BY <1>1 DEF Streaming
  <2>2. ToSender(Tail(chan[s]), con[s], 0, got[r].last) BY <1>4, <2>1, ToSenderTaken
  <2> QED BY <1>2, <1>3, <1>5, <1>6, <2>2, ToSenderOpened
<1>8. Sending(d, 0, got[r].last)
  <2>1. Archive(d.history, 0, d.recvSeq) BY <1>3, ArchiveEmpty
  <2>2. Numbered(0, d.recvSeq) BY <1>2, NumberedStart
  <2> QED BY <1>2, <1>3, <1>6, <2>1, <2>2 DEF Sending
<1>9. SenderOwes(Tail(chan[s]), e.c, e.out, sent[s], got[r].last)
  BY <1>7, <1>8, <1>13 DEF SenderOwes
<1>10. sent' = [sent EXCEPT ![s] = sent[s]] /\ sent[s] \in Nat BY <1>1
<1> QED
  <2> HIDE DEF d, e
  <2> DEFINE q == Tail(chan[s])
  <2>1. Commit(s, [chan EXCEPT ![s] = q], e) BY <1>11
  <2>2. SenderOwes(q, e.c, e.out, sent[s], got[r].last) /\ q \in Seq(Frame) BY <1>5, <1>9
  <2> HIDE DEF q
  <2>3. e.data = 0 BY <1>13
  <2> QED BY <1>10, <2>1, <2>2, <2>3, SenderCommit

\* A frame with the number 0 is a repeated one for an end that took none but 0.
LEMMA FirstRepeated ==
    ASSUME NEW c, NEW f, c.sendSeq = 0, f.sSeq = 0
    PROVE  ~InSequence(c, f) /\ ~IsGap(c, f)
<1>1. NextSeq(0) = 1 BY HistoryAssumption DEF NextSeq
<1>2. Dist(0, 1) = SeqMod - 1 BY HistoryAssumption DEF Dist
<1>3. ~(Dist(0, 1) < Threshold) BY <1>2, HistoryAssumption
<1> QED BY <1>1, <1>3 DEF InSequence, IsGap

LEMMA NoInit ==
    ASSUME NEW f, NEW n, Incoming(f, n)
    PROVE  ~IsInit(f)
BY DEF Incoming, IsInit, IsClose, IsAnswer, IsAck

LEMMA SenderReinit ==
    ASSUME NEW s, NEW r, Pair(s, r), StreamInv(s, r), chan[s] # <<>>,
           NEW c \in Con, NEW f \in Frame, Incoming(f, sent[s]), Reinit(s, c, f), sent' = sent
    PROVE  Step(s, r)
<1> DEFINE d == [c EXCEPT !.sdoSeqState = "Idle",
                          !.history = deleteAckedFrameFromHistory(@, f.rSeq)]
<1>1. deleteAckedFrameFromHistory(c.history, f.rSeq) \in History
  BY deleteAckedType DEF Con, Frame
<1>2. d \in Con BY <1>1 DEF Con, State
<1>3. RecvIdle(s, d, f) BY DEF Reinit
<1> HIDE DEF d
<1>4. RejectInit(s, d, f) BY <1>3, NoInit DEF RecvIdle
<1> QED BY <1>2, <1>4, SenderRejects

\* The sender in Connected: an acknowledge is a repeated frame.
LEMMA SenderConnected ==
    ASSUME NEW s, NEW r, Pair(s, r), StreamInv(s, r), chan[s] # <<>>, NEW f \in Frame,
           f = Head(chan[s]), con[s].sdoSeqState = "Connected", Incoming(f, sent[s]),
           RecvConnected(s, Acked(s, f), f)
    PROVE  Step(s, r)
<1> DEFINE c == Acked(s, f)
           net == [chan EXCEPT ![s] = Tail(@)]
           frames == readFromHistory(c.history)
<1>1. HistoryInv /\ Inv /\ s \in Node /\ Streaming(s, r) BY DEF StreamInv, HistoryInv, Pair
<1>2. chan[s] \in Seq(Frame) /\ Tail(chan[s]) \in Seq(Frame)
  <2>1. chan[s] \in Seq(Frame) BY <1>1, TypeFacts
  <2> QED BY <2>1
<1>3. c \in Con /\ c.sdoSeqState = "Connected" BY <1>1, AckedEntry
<1>4. frames \in Seq(Frame) BY <1>3, readFromHistoryType DEF Con
<1> HIDE DEF c
<1>5. ToSender(Tail(chan[s]), con[s], sent[s], got[r].last)
  BY <1>1, <1>2, ToSenderTaken DEF Streaming
<1>6. CASE f.sCon = 0 /\ Commit(s, net, Closed(<<>>)) /\ UNCHANGED <<sent, budget>>
  <2>1. <<>> \in Seq(Frame) /\ \A k \in DOMAIN <<>> : IsClose(<<>>[k]) OBVIOUS
  <2> QED BY <1>2, <1>5, <1>6, <2>1, SenderCloses
<1>7. CASE f.sCon = 1 /\ Reinit(s, c, f) /\ UNCHANGED sent BY <1>3, <1>7, SenderReinit
<1>8. ASSUME f.sCon \in {2, 3}, NEW e, e.c = c, e.data = 0, NEW k \in Nat, k <= Len(frames),
             e.out = SubSeq(frames, 1, k), Commit(s, net, e), sent' = sent
      PROVE  Step(s, r)
  <2>1. IsAck(f) BY <1>8 DEF Incoming, IsClose, IsAnswer
  <2>2. Established(con[s]) /\ Established(c) BY <1>3 DEF Established
  <2>3. /\ Sending(c, sent[s], got[r].last)
        /\ ToSender(Tail(chan[s]), c, sent[s], got[r].last)
        /\ Consecutive(c.history, c.recvSeq)
    BY <2>1, <2>2, SenderAcked DEF c
  <2>4. con[s].sdoSeqState # "Idle" OBVIOUS
  <2>5. Commit(s, [chan EXCEPT ![s] = Tail(chan[s])], e) BY <1>8
  <2> HIDE DEF frames, net
  <2>6. k <= Len(readFromHistory(c.history)) /\ e.out = SubSeq(readFromHistory(c.history), 1, k)
    BY <1>8 DEF frames
  <2> QED BY <1>2, <1>3, <1>8, <2>2, <2>3, <2>4, <2>5, <2>6, SenderResends
<1>9. CASE f.sCon \in {2, 3} /\ RecvData(s, c, f)
  <2> DEFINE resent == IF f.rCon = 3 THEN frames ELSE <<>>
             ack == IF f.sCon = 3 THEN <<HeaderFrame(c, 0)>> ELSE <<>>
             e == [c |-> c, out |-> resent \o ack, timer |-> "running", up |-> up[s], data |-> 0]
  <2>1. IsAck(f) BY <1>9 DEF Incoming, IsClose, IsAnswer
  <2>2. Established(con[s]) /\ Established(c) BY <1>3 DEF Established
  <2>3. Sending(c, sent[s], got[r].last) BY <2>1, <2>2, SenderAcked DEF c
  <2>4. c.sendSeq = 0 /\ f.sSeq = 0 /\ f.sCon = 2 BY <2>1, <2>2, <2>3 DEF Sending, IsAck
  <2>5. ~InSequence(c, f) /\ ~IsGap(c, f) BY <2>4, FirstRepeated
  <2>6. Commit(s, net, e) /\ sent' = sent BY <1>9, <2>5 DEF RecvData
  <2>7. e.out = resent
    <3>1. ack = <<>> BY <2>4
    <3>2. resent \in Seq(Frame) BY <1>4
    <3> HIDE DEF frames, resent, ack
    <3>3. resent \o <<>> = resent BY <3>2
    <3>4. e.out = resent \o ack OBVIOUS
    <3> QED BY <3>1, <3>3, <3>4
  <2>8. PICK k \in Nat : k <= Len(frames) /\ e.out = SubSeq(frames, 1, k)
    <3>1. SubSeq(frames, 1, 0) = <<>> /\ SubSeq(frames, 1, Len(frames)) = frames
          /\ 0 <= Len(frames) /\ Len(frames) \in Nat
      <4> HIDE DEF frames
      <4> QED BY <1>4
    <3> HIDE DEF frames, e
    <3> QED BY <2>7, <3>1
  <2>9. e.c = c /\ e.data = 0 OBVIOUS
  <2> HIDE DEF e, frames, net
  <2> QED BY <1>8, <1>9, <2>6, <2>8, <2>9
<1>10. CASE f.sCon \in {2, 3} /\ ResendFails(s, c, f)
  <2> DEFINE e(k) == [c |-> c, out |-> SubSeq(frames, 1, k), timer |-> "running",
                      up |-> up[s], data |-> 0]
  <2>1. PICK k \in 0 .. Len(frames) - 1 : Commit(s, net, e(k)) BY <1>10 DEF ResendFails
  <2>2. sent' = sent BY <1>10 DEF ResendFails
  <2>3. k \in Nat /\ k <= Len(frames)
    <3> HIDE DEF frames
    <3> QED BY <1>4
  <2>4. e(k).c = c /\ e(k).data = 0 /\ e(k).out = SubSeq(frames, 1, k) OBVIOUS
  <2> HIDE DEF e, frames, net
  <2> QED BY <1>8, <1>10, <2>1, <2>2, <2>3, <2>4
<1> HIDE DEF net, frames
<1>11. RecvConnected(s, c, f) BY DEF c
<1> QED BY <1>6, <1>7, <1>9, <1>10, <1>11 DEF RecvConnected, net

\* The sender in WaitAck.
LEMMA SenderWaits ==
    ASSUME NEW s, NEW r, Pair(s, r), StreamInv(s, r), AllRecorded, chan[s] # <<>>,
           NEW f \in Frame, f = Head(chan[s]), con[s].sdoSeqState = "WaitAck",
           Incoming(f, sent[s]), RecvWaitAck(s, Acked(s, f), f)
    PROVE  Step(s, r)
<1> DEFINE c == Acked(s, f)
           net == [chan EXCEPT ![s] = Tail(@)]
           frames == readFromHistory(c.history)
           a == [c EXCEPT !.sdoSeqState = "Connected"]
           reply(tag) == [c |-> IF tag = 0 THEN a ELSE AfterSend(a, tag),
                          out |-> IF tag = 0 THEN <<>> ELSE <<HeaderFrame(Advance(a), tag)>>,
                          timer |-> "running", up |-> up[s], data |-> f.data]
           again == [c |-> c, out |-> frames, timer |-> "running", up |-> TRUE, data |-> 0]
<1>1. HistoryInv /\ Inv /\ s \in Node /\ Streaming(s, r) BY DEF StreamInv, HistoryInv, Pair
<1>2. chan[s] \in Seq(Frame) /\ Tail(chan[s]) \in Seq(Frame)
  <2>1. chan[s] \in Seq(Frame) BY <1>1, TypeFacts
  <2> QED BY <2>1
<1>3. c \in Con /\ c.sdoSeqState = "WaitAck" /\ Sound(c, sent[s]) BY <1>1, AckedEntry
<1>4. frames \in Seq(Frame) BY <1>3, readFromHistoryType DEF Con
<1> HIDE DEF c
<1>5. ToSender(Tail(chan[s]), con[s], sent[s], got[r].last)
  BY <1>1, <1>2, ToSenderTaken DEF Streaming
<1>6. Established(con[s]) /\ Established(c) BY <1>3 DEF Established
<1>7. IsAck(f) => /\ Sending(c, sent[s], got[r].last)
                  /\ ToSender(Tail(chan[s]), c, sent[s], got[r].last)
                  /\ Consecutive(c.history, c.recvSeq)
  BY <1>6, SenderAcked DEF c
<1>8. f.rCon \in {2, 3} => IsAck(f) BY DEF Incoming, IsClose, IsAnswer
<1>9. CASE f.rCon = 0 /\ Commit(s, net, Closed(<<>>)) /\ UNCHANGED <<sent, budget>>
  <2>1. <<>> \in Seq(Frame) /\ \A k \in DOMAIN <<>> : IsClose(<<>>[k]) OBVIOUS
  <2> QED BY <1>2, <1>5, <1>9, <2>1, SenderCloses
<1>10. CASE f.rCon = 1 /\ Reinit(s, c, f) /\ UNCHANGED sent BY <1>3, <1>10, SenderReinit
<1>11. CASE /\ f.rCon = 2
            /\ \E tag \in Replies(s, a) :
                  /\ Commit(s, net, reply(tag))
                  /\ sent' = IF tag = 0 THEN sent ELSE [sent EXCEPT ![s] = tag]
  <2>1. PICK tag \in Replies(s, a) :
            /\ Commit(s, net, reply(tag))
            /\ sent' = IF tag = 0 THEN sent ELSE [sent EXCEPT ![s] = tag]
    BY <1>11
  <2>2. tag # 0 => tag = sent[s] + 1 BY DEF Replies
  <2>3. /\ a \in Con /\ a.sdoSeqState = "Connected" /\ a.history = c.history
        /\ a.recvSeq = c.recvSeq /\ a.recvCon = c.recvCon /\ a.sendSeq = c.sendSeq
        /\ a.sendCon = c.sendCon
    BY <1>3 DEF Con, State
  <2>4. f.data = 0 BY <1>8, <1>11 DEF IsAck
  <2>5. /\ reply(tag).c = IF tag = 0 THEN a ELSE AfterSend(a, tag)
        /\ reply(tag).out = IF tag = 0 THEN <<>> ELSE <<HeaderFrame(Advance(a), tag)>>
        /\ reply(tag).data = 0
    BY <2>4
  <2> HIDE DEF a, reply, frames, again
  <2>6. Established(a) BY <2>3 DEF Established
  <2>7. Sending(a, sent[s], got[r].last)
    BY <1>6, <1>7, <1>8, <1>11, <2>3, <2>6 DEF Sending, InUse
  <2>8. ToSender(Tail(chan[s]), a, sent[s], got[r].last)
    BY <1>6, <1>7, <1>8, <1>11, <2>3, <2>6 DEF ToSender, InUse, Behind
  <2>9. Sound(a, sent[s]) BY <1>3, <1>6, <2>3 DEF Sound
  <2>10. con[s].sdoSeqState # "Idle" OBVIOUS
  <2>11. Commit(s, [chan EXCEPT ![s] = Tail(chan[s])], reply(tag)) BY <2>1
  <2> HIDE DEF net
  <2> QED BY <1>2, <2>1, <2>2, <2>3, <2>5, <2>7, <2>8, <2>9, <2>10, <2>11, SenderReplies
<1>12. ASSUME f.rCon = 3, NEW e, e.c = c, e.data = 0, NEW k \in Nat, k <= Len(frames),
              e.out = SubSeq(frames, 1, k), Commit(s, net, e), sent' = sent
       PROVE  Step(s, r)
  <2>1. /\ Sending(c, sent[s], got[r].last)
        /\ ToSender(Tail(chan[s]), c, sent[s], got[r].last)
        /\ Consecutive(c.history, c.recvSeq)
    BY <1>7, <1>8, <1>12
  <2>2. con[s].sdoSeqState # "Idle" OBVIOUS
  <2>3. Commit(s, [chan EXCEPT ![s] = Tail(chan[s])], e) BY <1>12
  <2> HIDE DEF frames, net, a, reply, again
  <2>4. k <= Len(readFromHistory(c.history)) /\ e.out = SubSeq(readFromHistory(c.history), 1, k)
    BY <1>12 DEF frames
  <2> QED BY <1>2, <1>3, <1>6, <1>12, <2>1, <2>2, <2>3, <2>4, SenderResends
<1>13. CASE /\ f.rCon = 3 /\ UNCHANGED <<sent, budget>>
            /\ Commit(s, net, IF <<f.rSeq, f.rCon>> = <<c.recvSeq, c.recvCon>>
                              THEN AcceptAck(c, f) ELSE again)
  <2>1. c.recvCon = 2 BY <1>6, <1>7, <1>8, <1>13 DEF Sending
  <2>2. Commit(s, net, again) BY <1>13, <2>1
  <2>3. /\ SubSeq(frames, 1, Len(frames)) = frames /\ Len(frames) \in Nat
        /\ Len(frames) <= Len(frames)
    <3> HIDE DEF frames
    <3> QED BY <1>4
  <2>4. again.c = c /\ again.data = 0 /\ again.out = frames OBVIOUS
  <2> HIDE DEF again, frames, net
  <2> QED BY <1>12, <1>13, <2>2, <2>3, <2>4
<1>14. CASE ResendFails(s, c, f)
  <2> DEFINE e(k) == [c |-> c, out |-> SubSeq(frames, 1, k), timer |-> "running",
                      up |-> up[s], data |-> 0]
  <2>1. PICK k \in 0 .. Len(frames) - 1 : Commit(s, net, e(k)) BY <1>14 DEF ResendFails
  <2>2. sent' = sent /\ f.rCon = 3 BY <1>14 DEF ResendFails
  <2>3. k \in Nat /\ k <= Len(frames)
    <3> HIDE DEF frames
    <3> QED BY <1>4
  <2>4. e(k).c = c /\ e(k).data = 0 /\ e(k).out = SubSeq(frames, 1, k) OBVIOUS
  <2> HIDE DEF e, frames, net
  <2> QED BY <1>12, <2>1, <2>2, <2>3, <2>4
<1>15. RecvWaitAck(s, c, f) BY DEF c
<1> QED BY <1>9, <1>10, <1>11, <1>13, <1>14, <1>15 DEF RecvWaitAck

LEMMA SenderReceives ==
    ASSUME NEW s, NEW r, Pair(s, r), StreamInv(s, r), AllRecorded, receiveCb(s)
    PROVE  Step(s, r)
<1> DEFINE f == Head(chan[s])
           c == Acked(s, f)
<1>1. /\ HistoryInv /\ Inv /\ s \in Node /\ r \in Node /\ Streaming(s, r) /\ chan[s] # <<>>
  BY DEF StreamInv, HistoryInv, Pair, receiveCb
<1>2. f \in Frame /\ chan[s] \in Seq(Frame) BY <1>1, ReceivedType, TypeFacts
<1>3. Incoming(f, sent[s]) BY <1>1, <1>2, ToSenderTaken DEF Streaming
<1>4. c \in Con /\ c.sdoSeqState = con[s].sdoSeqState BY <1>1, <1>2, AckedEntry
<1>5. \/ c.sdoSeqState = "Idle"  /\ RecvIdle(s, c, f) /\ UNCHANGED sent
      \/ c.sdoSeqState = "Init1" /\ RecvInit1(s, c, f) /\ UNCHANGED sent
      \/ c.sdoSeqState = "Init2" /\ RecvInit2(s, c, f) /\ UNCHANGED sent
      \/ c.sdoSeqState = "Init3" /\ RecvInit3(s, c, f) /\ UNCHANGED sent
      \/ c.sdoSeqState = "Connected" /\ RecvConnected(s, c, f)
      \/ c.sdoSeqState = "WaitAck"   /\ RecvWaitAck(s, c, f)
  BY DEF receiveCb, Acked
<1>6. PICK g \in Frame : g = f BY <1>2
<1>7. /\ con[s].sdoSeqState # "Init2"
      /\ con[s].sdoSeqState \in {"Init1", "Init3"} => sent[s] = 0
  BY <1>1 DEF Streaming, Sending
<1> HIDE DEF c
<1>8. ~IsInit(f) BY <1>3, NoInit
<1>9. ASSUME RejectInit(s, c, f), sent' = sent PROVE Step(s, r)
  BY <1>1, <1>2, <1>4, <1>9, SenderRejects
<1>10. CASE c.sdoSeqState = "Idle" /\ RecvIdle(s, c, f) /\ UNCHANGED sent
  BY <1>8, <1>9, <1>10 DEF RecvIdle
<1>11. CASE c.sdoSeqState = "Init1" /\ RecvInit1(s, c, f) /\ UNCHANGED sent
  <2>1. CASE f.rCon = 1 /\ f.sCon = 1 /\ Answer(s, c, f, "Init3")
    <3>1. IsAnswer(f) BY <1>3, <2>1 DEF Incoming, IsClose, IsAck
    <3>2. sent[s] = 0 /\ con[s].sdoSeqState # "Idle" BY <1>4, <1>7, <1>11
    <3> QED BY <1>1, <1>2, <1>4, <1>11, <2>1, <3>1, <3>2, SenderAnswers
  <2> QED BY <1>8, <1>9, <1>11, <2>1 DEF RecvInit1
<1>12. CASE c.sdoSeqState = "Init3" /\ RecvInit3(s, c, f) /\ UNCHANGED sent
  <2>1. sent[s] = 0 /\ con[s].sdoSeqState # "Idle" BY <1>4, <1>7, <1>12
  <2>2. ~(f.rCon = 1 /\ f.sCon = 2) BY <1>3 DEF Incoming, IsClose, IsAnswer, IsAck
  <2>3. CASE /\ f.rCon = 2 /\ f.sCon = 2 /\ UNCHANGED budget
             /\ Commit(s, [chan EXCEPT ![s] = Tail(@)], ConnectedBy(c, f))
    <3>1. IsFirstAck(f) BY <1>3, <2>1, <2>3 DEF Incoming, IsClose, IsAnswer, IsFirstAck
    <3> QED BY <1>1, <1>2, <1>4, <1>12, <2>1, <2>3, <3>1, SenderConnects
  <2> QED BY <1>9, <1>12, <2>2, <2>3 DEF RecvInit3, ConnectedBy
<1>13. CASE c.sdoSeqState = "Connected" /\ RecvConnected(s, c, f)
  BY <1>1, <1>2, <1>3, <1>4, <1>13, SenderConnected DEF c
<1>14. CASE c.sdoSeqState = "WaitAck" /\ RecvWaitAck(s, c, f)
  BY <1>1, <1>2, <1>3, <1>4, <1>14, SenderWaits DEF c
<1> QED BY <1>4, <1>5, <1>7, <1>10, <1>11, <1>12, <1>13, <1>14

\* The sender's command layer opens.
LEMMA SenderOpens ==
    ASSUME NEW s, NEW r, Pair(s, r), StreamInv(s, r), sdoseq_initCon(s)
    PROVE  Streaming(s, r)' /\ Onward(s, r)
<1> DEFINE c == [con[s] EXCEPT !.conHandle = TRUE, !.recvSeq = 0, !.recvCon = 1,
                               !.sendSeq = 0, !.sendCon = 0]
           f == HeaderFrame(c, 0)
           q == chan[s]
           yes == [c |-> [c EXCEPT !.sdoSeqState = "Init1"], out |-> <<f>>,
                   timer |-> "running", up |-> FALSE, data |-> 0]
           no == [c |-> c, out |-> <<>>, timer |-> timer[s], up |-> FALSE, data |-> 0]
<1>1. /\ Inv /\ s \in Node /\ Streaming(s, r) /\ sent \in [Node -> Nat]
      /\ chan \in [Node -> Seq(Frame)]
  BY DEF StreamInv, HistoryInv, Pair, Inv, TypeOK
<1>2. PICK ok \in SendOutcome : Commit(s, chan, IF ok THEN yes ELSE no)
  BY DEF sdoseq_initCon
<1>3. sent' = sent /\ con[s].sdoSeqState = "Idle" /\ sent[s] = 0
  <2>1. budget.open[s] > 0 BY DEF sdoseq_initCon
  <2> QED BY <2>1 DEF sdoseq_initCon, StreamInv, Allowed
<1>4. con[s] \in Con BY <1>1, TypeFacts
<1>5. /\ c \in Con /\ c.sdoSeqState = "Idle" /\ c.recvSeq = 0 /\ c.recvCon = 1
      /\ c.sendSeq = 0 /\ c.sendCon = 0
  <2>1. 0 \in SeqNum /\ 0 \in ConBits /\ 1 \in ConBits
    BY HistoryAssumption DEF SeqNum, ConBits
  <2> QED BY <1>3, <1>4, <2>1 DEF Con
<1>6. [c EXCEPT !.sdoSeqState = "Init1"].sdoSeqState = "Init1" BY <1>4 DEF Con
<1>7. /\ yes.c.sdoSeqState = "Init1" /\ yes.out = <<f>> /\ yes.data = 0
      /\ no.c.sdoSeqState = "Idle" /\ no.out = <<>> /\ no.data = 0
  BY <1>5, <1>6
<1>8. f \in Frame /\ IsOpening(f)
  <2> HIDE DEF c
  <2>1. f \in Frame BY <1>5, HeaderFrameType
  <2>2. f.sSeq = 0 /\ f.sCon = 1 /\ f.rSeq = 0 /\ f.rCon = 0 /\ f.data = 0
    BY <1>5 DEF HeaderFrame
  <2> HIDE DEF f
  <2> QED BY <2>1, <2>2 DEF IsOpening
<1> HIDE DEF c, f, yes, no
<1>9. Fresh(f, 0) BY <1>8 DEF Fresh, Outgoing, IsOpening
<1>10. q \in Seq(Frame) /\ [chan EXCEPT ![s] = q] = chan BY <1>1
<1>11. ToSender(q, con[s], 0, got[r].last) BY <1>1, <1>3 DEF Streaming
<1>12. ASSUME NEW e, e.c.sdoSeqState \in {"Idle", "Init1"}, e.out = <<>> \/ e.out = <<f>>
       PROVE  SenderOwes(q, e.c, e.out, 0, got[r].last)
  <2>1. Sending(e.c, 0, got[r].last) /\ ~Established(e.c) BY <1>12 DEF Sending, Established
  <2>2. ToSender(q, e.c, 0, got[r].last) BY <1>11, <2>1, ToSenderGivenUp
  <2>3. e.out \in Seq(Frame) /\ \A k \in DOMAIN e.out : Fresh(e.out[k], 0)
    <3>1. CASE e.out = <<>> BY <3>1
    <3>2. CASE e.out = <<f>> BY <1>8, <1>9, <3>2
    <3> QED BY <1>12, <3>1, <3>2
  <2> QED BY <2>1, <2>2, <2>3 DEF SenderOwes
<1>13. SenderOwes(q, yes.c, yes.out, 0, got[r].last) BY <1>7, <1>12
<1>14. SenderOwes(q, no.c, no.out, 0, got[r].last) BY <1>7, <1>12
<1>15. sent' = [sent EXCEPT ![s] = 0] /\ 0 \in Nat /\ 0 = sent[s] BY <1>1, <1>3
<1> HIDE DEF q
<1>16. CASE ok = TRUE
  <2>1. Commit(s, [chan EXCEPT ![s] = q], yes) BY <1>2, <1>10, <1>16
  <2> QED BY <1>7, <1>10, <1>13, <1>15, <2>1, SenderStreams
<1>17. CASE ok = FALSE
  <2>1. Commit(s, [chan EXCEPT ![s] = q], no) BY <1>2, <1>10, <1>17
  <2> QED BY <1>7, <1>10, <1>14, <1>15, <2>1, SenderStreams
<1> QED BY <1>2, <1>16, <1>17 DEF SendOutcome

\* It sends data.
LEMMA SenderSends ==
    ASSUME NEW s, NEW r, Pair(s, r), StreamInv(s, r), AllRecorded, sdoseq_sendData(s)
    PROVE  Step(s, r)
<1> DEFINE c == con[s]
           q == chan[s]
           tag == sent[s] + 1
           e(ok) == [c |-> IF ok THEN AfterSend(c, tag) ELSE Advance(c),
                     out |-> IF ok THEN <<HeaderFrame(Advance(c), tag)>> ELSE <<>>,
                     timer |-> "running", up |-> up[s], data |-> 0]
<1>1. /\ Inv /\ s \in Node /\ Streaming(s, r) /\ sent \in [Node -> Nat]
      /\ chan \in [Node -> Seq(Frame)] /\ con \in [Node -> Con] /\ Sound(c, sent[s])
  BY DEF StreamInv, HistoryInv, Pair, Inv, TypeOK
<1>2. PICK ok \in SendOutcome : Commit(s, chan, e(ok)) BY DEF sdoseq_sendData
<1>3. sent' = [sent EXCEPT ![s] = tag] /\ c.sdoSeqState = "Connected" BY DEF sdoseq_sendData
<1>4. sent[s] \in Nat /\ c \in Con /\ q \in Seq(Frame) /\ [chan EXCEPT ![s] = q] = chan
  BY <1>1
<1>5. con'[s] = e(ok).c /\ sent'[s] = tag BY <1>1, <1>2, <1>3 DEF Commit
<1>6. PICK i \in Index : con'[s].history.frame[i].data = tag
  <2> HIDE DEF c, q, e
  <2>1. sent'[s] # sent[s] BY <1>4, <1>5
  <2> QED BY <1>1, <1>5, <2>1 DEF AllRecorded
<1>7. ok
  <2> SUFFICES ASSUME ~ok PROVE FALSE
    OBVIOUS
  <2>1. e(ok).c = Advance(c) OBVIOUS
  <2>2. Advance(c).history = c.history BY <1>4 DEF Advance, Con
  <2> HIDE DEF e
  <2>3. c.history.frame[i].data = tag BY <1>5, <1>6, <2>1, <2>2
  <2>4. c.history.frame[i].data <= sent[s] BY <1>1 DEF Sound
  <2> QED BY <1>4, <2>3, <2>4
<1>8. /\ e(ok).c = AfterSend(c, tag) /\ e(ok).out = <<HeaderFrame(Advance(c), tag)>>
      /\ e(ok).data = 0
  BY <1>7
<1>9. Sending(c, sent[s], got[r].last) /\ ToSender(q, c, sent[s], got[r].last)
  BY <1>1 DEF Streaming
<1> HIDE DEF c, q, e
<1>10. con[s].sdoSeqState # "Idle" BY <1>3 DEF c
<1>11. Commit(s, [chan EXCEPT ![s] = q], e(ok)) BY <1>2, <1>4
<1>12. tag # 0 BY <1>4
<1> HIDE DEF tag
<1> DEFINE x == e(ok)
<1>13. /\ x.data = 0
       /\ x.c = IF tag = 0 THEN c ELSE AfterSend(c, tag)
       /\ x.out = IF tag = 0 THEN <<>> ELSE <<HeaderFrame(Advance(c), tag)>>
       /\ Commit(s, [chan EXCEPT ![s] = q], x)
       /\ sent' = IF tag = 0 THEN sent ELSE [sent EXCEPT ![s] = tag]
  BY <1>3, <1>8, <1>11, <1>12
<1> HIDE DEF x
<1>14. tag = sent[s] + 1 BY DEF tag
<1>15. c \in Con /\ q \in Seq(Frame) /\ Sound(c, sent[s]) BY <1>1, <1>4
<1>16. c.sdoSeqState = "Connected" BY <1>3
<1> QED BY <1>9, <1>10, <1>13, <1>14, <1>15, <1>16, SenderReplies

\* It resends the oldest frame, marked.
LEMMA SenderRetries ==
    ASSUME NEW s, NEW r, Pair(s, r), StreamInv(s, r), RetryFirst(s, con[s]), sent' = sent,
           con[s].sdoSeqState = "Connected", con[s].history.freeEntries < HistorySize
    PROVE  Step(s, r)
<1> DEFINE c == con[s]
           h == c.history
           frames == readFromHistory(h)
           request == [frames[1] EXCEPT !.sCon = 3]
           d == [c EXCEPT !.retryCount = @ + 1]
           g == [c EXCEPT !.retryCount = @ + 1, !.history.frame[h.ackIndex] = request]
           none == [c |-> d, out |-> <<>>, timer |-> "running", up |-> up[s], data |-> 0]
           some == [c |-> g, out |-> <<request>>, timer |-> "running", up |-> up[s], data |-> 0]
           n == sent[s]
           last == got[r].last
           q == chan[s]
<1>1. /\ Inv /\ s \in Node /\ Streaming(s, r) /\ sent \in [Node -> Nat] /\ n \in Nat
      /\ chan \in [Node -> Seq(Frame)] /\ con \in [Node -> Con] /\ Sound(c, n)
  BY DEF StreamInv, HistoryInv, Pair, Inv, TypeOK
<1>2. c \in Con /\ h \in History /\ h.ackIndex \in Index /\ c.recvSeq \in SeqNum
  BY <1>1 DEF Con, History
<1>3. Commit(s, chan, IF frames = <<>> THEN none ELSE some) BY DEF RetryFirst
<1>4. /\ none.c = d /\ none.out = <<>> /\ none.data = 0
      /\ some.c = g /\ some.out = <<request>> /\ some.data = 0
  OBVIOUS
<1>5. q \in Seq(Frame) /\ [chan EXCEPT ![s] = q] = chan /\ sent' = [sent EXCEPT ![s] = n]
  BY <1>1
<1>6. Sending(c, n, last) /\ ToSender(q, c, n, last) BY <1>1 DEF Streaming
<1>7. Established(c) /\ Consecutive(h, c.recvSeq) BY <1>1 DEF Sound, Established
<1>8. Archive(h, n, c.recvSeq) BY <1>6, <1>7 DEF Sending
<1>9. ASSUME frames = <<>> PROVE Step(s, r)
  <2>1. /\ d.history = h /\ d.recvSeq = c.recvSeq /\ d.sdoSeqState = c.sdoSeqState
        /\ d.sendSeq = c.sendSeq /\ d.sendCon = c.sendCon /\ d.recvCon = c.recvCon
    BY <1>2 DEF Con
  <2>2. con[s].sdoSeqState # "Idle" OBVIOUS
  <2> HIDE DEF c, h, frames, d, none, some, n, last, q
  <2>3. Sending(d, n, last) BY <1>6, <2>1 DEF Sending, Established, InUse, h
  <2>4. ToSender(q, d, n, last) BY <1>6, <2>1 DEF ToSender, Established, InUse, Behind, h
  <2>5. SenderOwes(q, none.c, none.out, n, last) BY <1>4, <2>3, <2>4 DEF SenderOwes
  <2>6. Commit(s, [chan EXCEPT ![s] = q], none) BY <1>3, <1>5, <1>9
  <2>7. SenderOwes(q, none.c, none.out, n, got[r].last) /\ n = sent[s]
    BY <2>5 DEF last, n
  <2>19. /\ none.data = 0 /\ q \in Seq(Frame) /\ sent[s] \in Nat
         /\ sent' = [sent EXCEPT ![s] = sent[s]]
    BY <1>1, <1>4, <1>5 DEF n
  <2>20. SenderOwes(q, none.c, none.out, sent[s], got[r].last) BY <2>7
  <2> QED BY <2>2, <2>6, <2>19, <2>20, SenderCommit
<1>10. ASSUME frames # <<>> PROVE Step(s, r)
  <2>1. frames[1] = h.frame[h.ackIndex]
    <3>1. frames \in Seq(Frame) BY <1>2, readFromHistoryType
    <3>2. 1 \in DOMAIN frames BY <1>10, <3>1
    <3>3. frames[1] = h.frame[Offset(h.ackIndex, 1 - 1)] BY <3>2 DEF readFromHistory
    <3> QED BY <1>2, <3>3, OffsetTurn
  <2>2. frames[1] \in Frame BY <1>2, <2>1 DEF History
  <2>3. h.ackIndex \in Used(h)
    <3>1. UnackedCount(h) > 0 BY <1>2, HistoryAssumption DEF UnackedCount, History
    <3>2. 0 \in 0 .. UnackedCount(h) - 1 BY <1>2, <3>1, HistoryAssumption DEF UnackedCount, History
    <3>3. Offset(h.ackIndex, 0) = h.ackIndex BY <1>2, OffsetTurn
    <3> QED BY <3>2, <3>3 DEF Used
  <2>4. /\ Filed(frames[1], n, c.recvSeq)
        /\ Dist(c.recvSeq, frames[1].sSeq) \in 0 .. UnackedCount(h) - 1
        /\ UnackedCount(h) \in 0 .. HistorySize
    <3> HIDE DEF c, h, frames, n
    <3> QED BY <1>2, <1>7, <1>8, <2>1, <2>3, UsedFacts DEF Archive
  <2> HIDE DEF frames
  <2>5. /\ request \in Frame /\ request.sSeq = frames[1].sSeq /\ request.sCon = 3
        /\ request.rCon = frames[1].rCon /\ request.data = frames[1].data
    BY <2>2 DEF Frame, ConBits
  <2> HIDE DEF request
  <2>6. Filed(request, n, c.recvSeq) BY <2>4, <2>5 DEF Filed, IsData
  <2>7. Fresh(request, n)
    <3>1. Dist(c.recvSeq, request.sSeq) < HistorySize
      BY <2>4, <2>5, HistoryAssumption
    <3> HIDE DEF c, n
    <3> QED BY <1>1, <1>2, <2>5, <2>6, <3>1, FiledFresh
  <2>8. /\ g.history = [h EXCEPT !.frame[h.ackIndex] = request]
        /\ g.recvSeq = c.recvSeq /\ g.sdoSeqState = c.sdoSeqState
        /\ g.sendSeq = c.sendSeq /\ g.sendCon = c.sendCon /\ g.recvCon = c.recvCon
    BY <1>2 DEF Con
  <2>9. con[s].sdoSeqState # "Idle" OBVIOUS
  <2> HIDE DEF c, h, g, d, none, some, n, last, q
  <2>10. /\ g.history.freeEntries = h.freeEntries /\ g.history.ackIndex = h.ackIndex
         /\ g.history.frame = [h.frame EXCEPT ![h.ackIndex] = request]
    BY <1>2, <2>8 DEF History
  <2>11. UnackedCount(g.history) = UnackedCount(h) /\ Used(g.history) = Used(h)
         /\ InUse(g) = InUse(c)
    BY <2>10 DEF UnackedCount, Used, InUse, h
  <2>12. Archive(g.history, n, g.recvSeq)
    <3> SUFFICES ASSUME NEW i \in Used(h) PROVE Filed(g.history.frame[i], n, c.recvSeq)
      BY <2>8, <2>11 DEF Archive
    <3>1. i \in Index BY <1>2, <1>7, UsedFacts
    <3>2. g.history.frame[i] = IF i = h.ackIndex THEN request ELSE h.frame[i]
      BY <1>2, <2>10, <3>1 DEF History
    <3>3. Filed(h.frame[i], n, c.recvSeq) BY <1>8 DEF Archive
    <3> QED BY <2>6, <3>2, <3>3
  <2>13. Sending(g, n, last) BY <1>6, <1>7, <2>8, <2>11, <2>12 DEF Sending, Established
  <2>14. ToSender(q, g, n, last) BY <1>6, <2>8, <2>11 DEF ToSender, Established, Behind
  <2>15. <<request>> \in Seq(Frame) /\ \A k \in DOMAIN <<request>> : Fresh(<<request>>[k], n)
    BY <2>5, <2>7
  <2>16. SenderOwes(q, some.c, some.out, n, last) BY <1>4, <2>13, <2>14, <2>15 DEF SenderOwes
  <2>17. Commit(s, [chan EXCEPT ![s] = q], some) BY <1>3, <1>5, <1>10
  <2>18. SenderOwes(q, some.c, some.out, n, got[r].last) /\ n = sent[s]
    BY <2>16 DEF last, n
  <2>19. /\ some.data = 0 /\ q \in Seq(Frame) /\ sent[s] \in Nat
         /\ sent' = [sent EXCEPT ![s] = sent[s]]
    BY <1>1, <1>4, <1>5 DEF n
  <2>20. SenderOwes(q, some.c, some.out, sent[s], got[r].last) BY <2>18
  <2> QED BY <2>9, <2>17, <2>19, <2>20, SenderCommit
<1> QED BY <1>9, <1>10

\* It closes by itself, or starts again.
LEMMA SenderGivesUp ==
    ASSUME NEW s, NEW r, Pair(s, r), StreamInv(s, r),
           sdoseq_deleteCon(s) \/ sdoseq_processEvent(s) \/ Restart(s)
    PROVE  Step(s, r)
<1> DEFINE q == chan[s]
           note == <<CloseFrame(con[s])>>
<1>1. /\ Inv /\ s \in Node /\ Streaming(s, r) /\ sent \in [Node -> Nat]
      /\ chan \in [Node -> Seq(Frame)] /\ con \in [Node -> Con]
      /\ r \in Node /\ s # r /\ got \in [Node -> [last : Nat, again : BOOLEAN]]
  BY DEF StreamInv, HistoryInv, Pair, Inv, TypeOK
<1>2. q \in Seq(Frame) /\ [chan EXCEPT ![s] = q] = chan /\ con[s] \in Con BY <1>1
<1>3. ToSender(q, con[s], sent[s], got[r].last) BY <1>1 DEF Streaming
<1>4. note \in Seq(Frame) /\ \A k \in DOMAIN note : IsClose(note[k]) BY <1>2, CloseFrameIs
<1>5. <<>> \in Seq(Frame) /\ \A k \in DOMAIN <<>> : IsClose(<<>>[k]) OBVIOUS
<1> HIDE DEF q, note
<1>6. ASSUME NEW out, out = <<>> \/ out = note, Commit(s, chan, Closed(out)), sent' = sent
      PROVE  Step(s, r)
  <2>1. out \in Seq(Frame) /\ \A k \in DOMAIN out : IsClose(out[k]) BY <1>4, <1>5, <1>6
  <2>2. Commit(s, [chan EXCEPT ![s] = q], Closed(out)) BY <1>2, <1>6
  <2> QED BY <1>2, <1>3, <1>6, <2>1, <2>2, SenderCloses
<1>7. CASE sdoseq_deleteCon(s) BY <1>6, <1>7 DEF sdoseq_deleteCon, note
<1>8. CASE sdoseq_processEvent(s)
  <2>1. sent' = sent BY <1>8 DEF sdoseq_processEvent
  <2>2. CASE /\ con[s].sdoSeqState = "Connected" /\ con[s].history.freeEntries < HistorySize
             /\ RetryFirst(s, con[s])
    BY <2>1, <2>2, SenderRetries
  <2>3. CASE Commit(s, chan, Closed(<<CloseFrame(con[s])>>)) BY <1>6, <2>1, <2>3 DEF note
  <2> QED BY <1>8, <2>2, <2>3 DEF sdoseq_processEvent
<1>9. CASE Restart(s)
  <2> DEFINE z == ZeroCon(0)
  <2>1. /\ con' = [con EXCEPT ![s] = z] /\ UNCHANGED <<chan, sent, got>>
    BY <1>9 DEF Restart
  <2>2. z.sdoSeqState = "Idle" /\ ~Established(z) BY DEF ZeroCon, Established
  <2> HIDE DEF z
  <2>3. con'[s] = z /\ con'[r] = con[r] BY <1>1, <2>1
  <2>4. Sending(z, sent[s], got[r].last) BY <2>2 DEF Sending
  <2>5. ToSender(q, z, sent[s], got[r].last) BY <1>3, <2>2, ToSenderGivenUp
  <2>6. Streaming(s, r)' BY <1>1, <2>1, <2>3, <2>4, <2>5 DEF Streaming, q
  <2>7. StaysIdle(s) BY <2>1, <2>2, <2>3 DEF StaysIdle
  <2>8. Onward(s, r) BY <2>1 DEF Onward
  <2> QED BY <2>6, <2>7, <2>8 DEF Step
<1> QED BY <1>7, <1>8, <1>9

-----------------------------------------------------------------------------
(* Steps of the receiver.                                                  *)

\* The facts that its steps start from.
LEMMA ReceiverFacts ==
    ASSUME NEW s, NEW r, Pair(s, r), StreamInv(s, r)
    PROVE  /\ HistoryInv /\ Inv /\ s \in Node /\ r \in Node
           /\ con[s] \in Con /\ con[r] \in Con /\ chan[r] \in Seq(Frame)
           /\ sent[s] \in Nat /\ got[r].last \in Nat /\ got[r].last <= sent[s]
           /\ sent[s] - got[r].last <= HistorySize /\ [chan EXCEPT ![r] = chan[r]] = chan
           /\ Taking(con[r], got[r].last) /\ Sending(con[s], sent[s], got[r].last)
           /\ ToReceiver(chan[r], sent[s], got[r].last)
<1>1. HistoryInv /\ Inv /\ s \in Node /\ r \in Node /\ Streaming(s, r)
  BY DEF StreamInv, HistoryInv, Pair
<1>2. /\ con[s] \in Con /\ con[r] \in Con /\ chan[r] \in Seq(Frame)
      /\ sent[s] \in Nat /\ got[r] \in [last : Nat, again : BOOLEAN]
  BY <1>1, TypeFacts
<1>3. [chan EXCEPT ![r] = chan[r]] = chan BY <1>1 DEF Inv, TypeOK
<1>4. got[r].last \in Nat BY <1>2
<1> QED BY <1>1, <1>2, <1>3, <1>4 DEF Streaming

LEMMA ReceiverCloses ==
    ASSUME NEW s, NEW r, Pair(s, r), StreamInv(s, r), NEW q \in Seq(Frame),
           ToReceiver(q, sent[s], got[r].last), NEW out \in Seq(Frame),
           \A k \in DOMAIN out : IsClose(out[k]),
           Commit(r, [chan EXCEPT ![r] = q], Closed(out)), sent' = sent
    PROVE  Step(s, r)
<1> DEFINE e == Closed(out)
<1>1. e.c.sdoSeqState = "Idle" /\ e.out = out /\ e.data = 0 BY DEF Closed, ZeroCon
<1>2. sent[s] \in Nat /\ got[r].last \in Nat /\ got[r].last <= sent[s] BY ReceiverFacts
<1> HIDE DEF e
<1>3. Taking(e.c, got[r].last) BY <1>1 DEF Taking
<1>4. \A k \in DOMAIN out : FreshAck(out[k], con[s], sent[s], got[r].last)
  BY <1>2, CloseFresh
<1>5. ReceiverOwes(q, e.c, e.out, sent[s], got[r].last, con[s])
  BY <1>1, <1>2, <1>3, <1>4 DEF ReceiverOwes
<1> QED BY <1>1, <1>2, <1>5, ReceiverCommit DEF e

LEMMA ReceiverRejects ==
    ASSUME NEW s, NEW r, Pair(s, r), StreamInv(s, r), chan[r] # <<>>,
           NEW c \in Con, NEW f \in Frame, RejectInit(r, c, f), sent' = sent
    PROVE  Step(s, r)
<1>1. PICK out : /\ Commit(r, [chan EXCEPT ![r] = Tail(@)], Closed(out))
                 /\ out = <<>> \/ out = <<CloseFrame(Adopt(c, f))>>
  BY DEF RejectInit
<1>2. Adopt(c, f) \in Con BY AdoptType
<1>3. out \in Seq(Frame) /\ \A k \in DOMAIN out : IsClose(out[k])
  <2>1. CASE out = <<>> BY <2>1
  <2>2. CASE out = <<CloseFrame(Adopt(c, f))>> BY <1>2, <2>2, CloseFrameIs
  <2> QED BY <1>1, <2>1, <2>2
<1>4. chan[r] \in Seq(Frame) /\ ToReceiver(chan[r], sent[s], got[r].last) BY ReceiverFacts
<1>5. Tail(chan[r]) \in Seq(Frame) BY <1>4
<1>6. ToReceiver(Tail(chan[r]), sent[s], got[r].last) BY <1>4, ToReceiverTaken
<1> QED BY <1>1, <1>3, <1>5, <1>6, ReceiverCloses

\* A bare acknowledge of a receiver whose number stands for the tag l.
IsAcker(c) == c.recvSeq = 0 /\ c.recvCon = 2 /\ c.sendCon \in {2, 3}

LEMMA AckFresh ==
    ASSUME NEW c \in Con, IsAcker(c), NEW d \in Con, NEW n \in Nat, NEW l \in Nat, l <= n,
           Numbered(l, c.sendSeq), Sending(d, n, l)
    PROVE  /\ <<HeaderFrame(c, 0)>> \in Seq(Frame)
           /\ \A k \in DOMAIN <<HeaderFrame(c, 0)>> :
                 FreshAck(<<HeaderFrame(c, 0)>>[k], d, n, l)
<1> DEFINE f == HeaderFrame(c, 0)
<1>1. f \in Frame BY HeaderFrameType
<1>2. /\ f.sSeq = 0 /\ f.sCon = 2 /\ f.rSeq = c.sendSeq /\ f.rCon \in {2, 3} /\ f.data = 0
  BY DEF HeaderFrame, IsAcker
<1> HIDE DEF f
<1>3. IsAck(f) BY <1>2 DEF IsAck
<1>4. c.sendSeq \in SeqNum /\ d.recvSeq \in SeqNum BY DEF Con
<1>5. n = 0 => f.rSeq = 0
  <2>1. l = 0 => c.sendSeq = 0 BY <1>4, NumberedStart
  <2> QED BY <1>2, <2>1
<1>6. Incoming(f, n) BY <1>3, <1>5 DEF Incoming
<1>7. Established(d) => Behind(d, f) = n - l
  <2> SUFFICES ASSUME Established(d) PROVE Behind(d, f) = n - l
    OBVIOUS
  <2>1. Numbered(n, d.recvSeq) /\ n - l <= InUse(d) BY DEF Sending
  <2>2. n - l < SeqMod BY <2>1, InUseType, HistoryAssumption
  <2>3. Dist(d.recvSeq, c.sendSeq) = n - l BY <1>4, <2>1, <2>2, NumberedDist
  <2> QED BY <1>2, <2>3 DEF Behind
<1>8. FreshAck(f, d, n, l) BY <1>6, <1>7 DEF FreshAck
<1>9. <<f>> \in Seq(Frame) /\ \A k \in DOMAIN <<f>> : FreshAck(<<f>>[k], d, n, l)
  BY <1>1, <1>8
<1> QED BY <1>9 DEF f

\* The handshake of the receiver: it answers the init frame.
LEMMA ReceiverAnswers ==
    ASSUME NEW s, NEW r, Pair(s, r), StreamInv(s, r), chan[r] # <<>>, NEW c \in Con,
           NEW f \in Frame, IsOpening(f), f.rCon = 0, c.sdoSeqState = "Idle",
           Answer(r, c, f, "Init2"), sent' = sent
    PROVE  Step(s, r)
<1> DEFINE a == [Adopt(c, f) EXCEPT !.recvCon = @ + 1]
           b == [a EXCEPT !.sdoSeqState = "Init2", !.history = @]
           g == HeaderFrame(a, 0)
           q == Tail(chan[r])
           yes == [c |-> b, out |-> <<g>>, timer |-> "running", up |-> FALSE, data |-> 0]
           no  == [c |-> a, out |-> <<>>, timer |-> "off", up |-> FALSE, data |-> 0]
<1>1. PICK ok \in SendOutcome : Commit(r, [chan EXCEPT ![r] = q], IF ok THEN yes ELSE no)
  BY DEF Answer
<1>2. f.rSeq = 0 /\ f.sSeq = 0 /\ f.sCon = 1 BY DEF IsOpening
<1>3. /\ Adopt(c, f).recvSeq = 0 /\ Adopt(c, f).recvCon = 0 /\ Adopt(c, f).sendSeq = 0
      /\ Adopt(c, f).sendCon = 1 /\ Adopt(c, f).sdoSeqState = "Idle" /\ Adopt(c, f) \in Con
  BY <1>2, AdoptType DEF Adopt, Con
<1>4. a = [Adopt(c, f) EXCEPT !.recvCon = 1] BY <1>3 DEF Con
<1> HIDE DEF a
<1>5. /\ a.recvSeq = 0 /\ a.recvCon = 1 /\ a.sendSeq = 0 /\ a.sendCon = 1
      /\ a.sdoSeqState = "Idle" /\ a \in Con
  BY <1>3, <1>4 DEF Con, ConBits
<1>6. b.sdoSeqState = "Init2" BY <1>5 DEF Con
<1>7. g \in Frame BY <1>5, HeaderFrameType
<1>8. g.sSeq = 0 /\ g.sCon = 1 /\ g.rSeq = 0 /\ g.rCon = 1 /\ g.data = 0
  BY <1>5 DEF HeaderFrame
<1>9. /\ yes.c.sdoSeqState = "Init2" /\ yes.out = <<g>> /\ yes.data = 0
      /\ no.c.sdoSeqState = "Idle" /\ no.out = <<>> /\ no.data = 0
  BY <1>5, <1>6
<1> HIDE DEF b, g, q, yes, no
<1>10. FreshAck(g, con[s], sent[s], got[r].last)
  BY <1>8 DEF FreshAck, Incoming, IsAnswer, IsAck
<1>11. /\ got[r].last \in Nat /\ got[r].last <= sent[s] /\ chan[r] \in Seq(Frame)
       /\ ToReceiver(chan[r], sent[s], got[r].last)
  BY ReceiverFacts
<1>12. q \in Seq(Frame) /\ ToReceiver(q, sent[s], got[r].last)
  BY <1>11, ToReceiverTaken DEF q
<1>13. ASSUME NEW e, e.c.sdoSeqState \in {"Idle", "Init2"}, e.out = <<>> \/ e.out = <<g>>
       PROVE  ReceiverOwes(q, e.c, e.out, sent[s], got[r].last, con[s])
  <2>1. Taking(e.c, got[r].last) BY <1>13 DEF Taking
  <2>2. /\ e.out \in Seq(Frame)
        /\ \A k \in DOMAIN e.out : FreshAck(e.out[k], con[s], sent[s], got[r].last)
    <3>1. CASE e.out = <<>> BY <3>1
    <3>2. CASE e.out = <<g>> BY <1>7, <1>10, <3>2
    <3> QED BY <1>13, <3>1, <3>2
  <2> QED BY <1>11, <1>12, <2>1, <2>2 DEF ReceiverOwes
<1>14. /\ ReceiverOwes(q, yes.c, yes.out, sent[s], got[r].last, con[s])
       /\ ReceiverOwes(q, no.c, no.out, sent[s], got[r].last, con[s])
  BY <1>9, <1>13
<1>15. CASE ok = TRUE
  <2>1. Commit(r, [chan EXCEPT ![r] = q], yes) BY <1>1, <1>15
  <2> QED BY <1>9, <1>11, <1>12, <1>14, <2>1, ReceiverCommit
<1>16. CASE ok = FALSE
  <2>1. Commit(r, [chan EXCEPT ![r] = q], no) BY <1>1, <1>16
  <2> QED BY <1>9, <1>11, <1>12, <1>14, <2>1, ReceiverCommit
<1> QED BY <1>1, <1>15, <1>16 DEF SendOutcome

\* It confirms the end of the handshake and is connected.
LEMMA ReceiverConnects ==
    ASSUME NEW s, NEW r, Pair(s, r), StreamInv(s, r), chan[r] # <<>>, NEW c \in Con,
           NEW f \in Frame, IsOpening(f), f.rCon = 1, c.sdoSeqState = "Init2",
           Follows(got[r].last, f), Answer(r, c, f, "Connected"), sent' = sent
    PROVE  Step(s, r)
<1> DEFINE a == [Adopt(c, f) EXCEPT !.recvCon = @ + 1]
           b == [a EXCEPT !.sdoSeqState = "Connected", !.history = initHistory(@)]
           g == HeaderFrame(a, 0)
           q == Tail(chan[r])
           yes == [c |-> b, out |-> <<g>>, timer |-> "running", up |-> TRUE, data |-> 0]
           no  == [c |-> a, out |-> <<>>, timer |-> timer[r], up |-> FALSE, data |-> 0]
<1>1. PICK ok \in SendOutcome : Commit(r, [chan EXCEPT ![r] = q], IF ok THEN yes ELSE no)
  BY DEF Answer
<1>2. f.rSeq = 0 /\ f.sSeq = 0 /\ f.sCon = 2 BY DEF IsOpening
<1>3. /\ Adopt(c, f).recvSeq = 0 /\ Adopt(c, f).recvCon = 1 /\ Adopt(c, f).sendSeq = 0
      /\ Adopt(c, f).sendCon = 2 /\ Adopt(c, f).sdoSeqState = "Init2" /\ Adopt(c, f) \in Con
  BY <1>2, AdoptType DEF Adopt, Con
<1>4. a = [Adopt(c, f) EXCEPT !.recvCon = 2]
  <2>1. 1 + 1 = 2 OBVIOUS
  <2> QED BY <1>3, <2>1 DEF Con
<1> HIDE DEF a
<1>5. /\ a.recvSeq = 0 /\ a.recvCon = 2 /\ a.sendSeq = 0 /\ a.sendCon = 2
      /\ a.sdoSeqState = "Init2" /\ a \in Con
  BY <1>3, <1>4 DEF Con, ConBits
<1>6. /\ b.sdoSeqState = "Connected" /\ b.recvSeq = 0 /\ b.recvCon = 2 /\ b.sendSeq = 0
      /\ b.sendCon = 2 /\ b.history.freeEntries = HistorySize
  <2>1. initHistory(a.history).freeEntries = HistorySize
    BY <1>5 DEF initHistory, Con, History
  <2> QED BY <1>5, <2>1 DEF Con
<1>7. /\ yes.c = b /\ yes.out = <<g>> /\ yes.data = 0
      /\ no.c = a /\ no.out = <<>> /\ no.data = 0
  OBVIOUS
<1>8. /\ got[r].last \in Nat /\ got[r].last <= sent[s] /\ chan[r] \in Seq(Frame)
      /\ ToReceiver(chan[r], sent[s], got[r].last) /\ sent[s] \in Nat /\ con[s] \in Con
      /\ Sending(con[s], sent[s], got[r].last)
  BY ReceiverFacts
<1>9. got[r].last = 0 BY <1>8 DEF Follows
<1>10. Numbered(0, 0) BY NumberedStart
<1>11. <<g>> \in Seq(Frame) /\ \A k \in DOMAIN <<g>> : FreshAck(<<g>>[k], con[s], sent[s], 0)
  <2>1. IsAcker(a) BY <1>5 DEF IsAcker
  <2>2. Numbered(0, a.sendSeq) BY <1>5, <1>10
  <2>3. Sending(con[s], sent[s], 0) /\ 0 <= sent[s] /\ 0 \in Nat BY <1>8, <1>9
  <2> QED BY <1>5, <1>8, <2>1, <2>2, <2>3, AckFresh
<1> HIDE DEF b, g, q, yes, no
<1>12. q \in Seq(Frame) /\ ToReceiver(q, sent[s], 0)
  BY <1>8, <1>9, ToReceiverTaken DEF q
<1>13. Taking(a, 0) BY <1>5 DEF Taking
<1>14. Taking(b, 0) BY <1>6, <1>10 DEF Taking
<1>15. ReceiverOwes(q, yes.c, yes.out, sent[s], 0, con[s])
  BY <1>7, <1>8, <1>11, <1>12, <1>14 DEF ReceiverOwes
<1>16. ReceiverOwes(q, no.c, no.out, sent[s], 0, con[s])
  BY <1>7, <1>8, <1>12, <1>13 DEF ReceiverOwes
<1>17. CASE ok = TRUE
  <2>1. Commit(r, [chan EXCEPT ![r] = q], yes) BY <1>1, <1>17
  <2> QED BY <1>7, <1>9, <1>12, <1>15, <2>1, ReceiverCommit
<1>18. CASE ok = FALSE
  <2>1. Commit(r, [chan EXCEPT ![r] = q], no) BY <1>1, <1>18
  <2> QED BY <1>7, <1>9, <1>12, <1>16, <2>1, ReceiverCommit
<1> QED BY <1>1, <1>17, <1>18 DEF SendOutcome

\* Data in sequence is the tag that comes next.
LEMMA DataInSequence ==
    ASSUME NEW c \in Con, NEW f \in Frame, NEW last \in Nat, NEW n \in Nat,
           Numbered(last, c.sendSeq), Outgoing(f, n), Follows(last, f), f.sCon \in {2, 3},
           n - last <= HistorySize, InSequence(c, f)
    PROVE  f.data = last + 1 /\ f.data <= n /\ f.rCon = 2
<1>1. ~IsClose(f) BY DEF IsClose
<1>2. ~IsOpening(f)
  <2> SUFFICES ASSUME IsOpening(f) PROVE FALSE
    OBVIOUS
  <2>1. f.sSeq = 0 BY DEF IsOpening
  <2>2. last = 0 BY DEF Follows
  <2>3. c.sendSeq = 0 BY <2>2, NumberedStart DEF Con
  <2> QED BY <2>1, <2>3, FirstRepeated
<1>3. IsData(f) /\ f.data <= n BY <1>1, <1>2 DEF Outgoing
<1>4. f.data \in Nat /\ f.data > 0 /\ Numbered(f.data, f.sSeq) /\ f.rCon = 2
  BY <1>3 DEF IsData, Frame
<1>5. last < f.data + HistorySize BY <1>4 DEF Follows
<1>6. Numbered(last + 1, NextSeq(c.sendSeq)) BY NumberedNext DEF Con
<1>7. f.sSeq = NextSeq(c.sendSeq) /\ f.sSeq \in SeqNum BY DEF InSequence, Frame
<1>8. f.data - (last + 1) < SeqMod /\ (last + 1) - f.data < SeqMod
  BY <1>3, <1>4, <1>5, HistoryAssumption
<1>9. f.data = last + 1 BY <1>4, <1>6, <1>7, <1>8, NumberedSame
<1> QED BY <1>3, <1>4, <1>9

\* Taking data, asking for what is missing, or ignoring what came again.
LEMMA ReceiverTakes ==
    ASSUME NEW s, NEW r, Pair(s, r), StreamInv(s, r), chan[r] # <<>>, NEW c \in Con,
           NEW f \in Frame, f = Head(chan[r]), c.sdoSeqState = "Connected",
           Taking(c, got[r].last), f.sCon \in {2, 3}, RecvData(r, c, f)
    PROVE  Step(s, r)
<1> DEFINE n == sent[s]
           last == got[r].last
           q == Tail(chan[r])
           net == [chan EXCEPT ![r] = q]
           resent == IF f.rCon = 3 THEN readFromHistory(c.history) ELSE <<>>
           ack(d) == IF f.sCon = 3 THEN <<HeaderFrame(d, 0)>> ELSE <<>>
           a == [c EXCEPT !.sendSeq = f.sSeq, !.sendCon = 2]
           gap == [c EXCEPT !.sendCon = 3]
           Result(d, out, t) ==
               [c |-> d, out |-> out, timer |-> "running", up |-> up[r], data |-> t]
<1>1. /\ con[s] \in Con /\ chan[r] \in Seq(Frame) /\ n \in Nat /\ last \in Nat /\ last <= n
      /\ n - last <= HistorySize /\ Sending(con[s], n, last) /\ ToReceiver(chan[r], n, last)
      /\ r \in Node /\ Streaming(s, r) /\ Allowed(s, r) /\ r \in Node
  <2>1. Streaming(s, r) /\ Allowed(s, r) BY DEF StreamInv
  <2> QED BY <2>1, ReceiverFacts
<1>2. /\ q \in Seq(Frame) /\ ToReceiver(q, n, last) /\ ToReceiver(q, n, f.data)
      /\ Outgoing(f, n) /\ Follows(last, f)
  <2>1. q \in Seq(Frame) BY <1>1
  <2> HIDE DEF n, last
  <2> QED BY <1>1, <2>1, ToReceiverTaken
<1>3. f.rCon \in {0, 1, 2} BY <1>2 DEF Outgoing, IsClose, IsOpening, IsData
<1>4. resent = <<>> BY <1>3
<1>5. /\ c.recvSeq = 0 /\ c.recvCon = 2 /\ c.sendCon = 2 /\ Numbered(last, c.sendSeq)
      /\ c.history.freeEntries = HistorySize
  BY DEF Taking
<1>6. /\ a \in Con /\ a.recvSeq = 0 /\ a.recvCon = 2 /\ a.sendCon = 2 /\ a.sendSeq = f.sSeq
      /\ a.history = c.history /\ a.sdoSeqState = "Connected"
  BY <1>5 DEF Con, Frame, ConBits
<1>7. /\ gap \in Con /\ gap.recvSeq = 0 /\ gap.recvCon = 2 /\ gap.sendCon = 3
      /\ gap.sendSeq = c.sendSeq
  BY <1>5 DEF Con, ConBits
<1>8. [c EXCEPT !.sendCon = 2] = c BY <1>5 DEF Con
<1>9. ASSUME NEW d \in Con, IsAcker(d), NEW l \in Nat, l <= n, Numbered(l, d.sendSeq),
             Sending(con[s], n, l)
      PROVE  /\ <<HeaderFrame(d, 0)>> \in Seq(Frame)
             /\ \A k \in DOMAIN <<HeaderFrame(d, 0)>> :
                   FreshAck(<<HeaderFrame(d, 0)>>[k], con[s], n, l)
             /\ ack(d) \in Seq(Frame)
             /\ \A k \in DOMAIN ack(d) : FreshAck(ack(d)[k], con[s], n, l)
  <2> HIDE DEF n
  <2>1. /\ <<HeaderFrame(d, 0)>> \in Seq(Frame)
        /\ \A k \in DOMAIN <<HeaderFrame(d, 0)>> :
              FreshAck(<<HeaderFrame(d, 0)>>[k], con[s], n, l)
    BY <1>1, <1>9, AckFresh
  <2>2. CASE f.sCon = 3 BY <2>1, <2>2
  <2>3. CASE f.sCon # 3 BY <2>1, <2>3
  <2> QED BY <2>2, <2>3
<1>10. ASSUME NEW d, NEW out, NEW t, NEW l \in Nat, l <= n, Taking(d, l), ToReceiver(q, n, l),
              out \in Seq(Frame), \A k \in DOMAIN out : FreshAck(out[k], con[s], n, l),
              (t = 0 /\ l = last) \/ (t = l /\ l = last + 1),
              Commit(r, net, Result(d, out, t)), sent' = sent
       PROVE  Step(s, r)
  <2> DEFINE e == Result(d, out, t)
  <2>1. e.c = d /\ e.out = out /\ e.data = t OBVIOUS
  <2>2. Commit(r, [chan EXCEPT ![r] = q], e) BY <1>10
  <2> HIDE DEF e, q, net, Result
  <2>3. ReceiverOwes(q, e.c, e.out, sent[s], l, con[s])
    BY <1>10, <2>1 DEF ReceiverOwes
  <2>4. (e.data = 0 /\ l = got[r].last) \/ (e.data = l /\ l = got[r].last + 1)
    BY <1>10, <2>1
  <2> QED BY <1>2, <1>10, <2>2, <2>3, <2>4, ReceiverCommit
<1>11. CASE /\ InSequence(c, f)
            /\ \E tag \in Replies(r, a) :
                 LET b == IF tag = 0 THEN a ELSE AfterSend(a, tag)
                     reply == IF tag = 0 THEN <<>> ELSE <<HeaderFrame(Advance(a), tag)>>
                 IN  /\ Commit(r, net, Result(b, resent \o reply \o ack(b), f.data))
                     /\ sent' = IF tag = 0 THEN sent ELSE [sent EXCEPT ![r] = tag]
  <2>1. f.data = last + 1 /\ f.data <= n /\ f.sSeq = NextSeq(c.sendSeq)
    <3> HIDE DEF n, last
    <3>1. f.data = last + 1 /\ f.data <= n
      BY <1>1, <1>2, <1>5, <1>11, DataInSequence
    <3> QED BY <1>11, <3>1 DEF InSequence
  <2>2. Replies(r, a) = {0}
    <3>1. sent[r] = 0 /\ budget.data[r] = 0 BY <1>1 DEF Streaming, Allowed, OneWay
    <3> QED BY <3>1 DEF Replies
  <2>3. ack(a) \in Seq(Frame) /\ <<>> \o <<>> \o ack(a) = ack(a)
    <3>1. <<HeaderFrame(a, 0)>> \in Seq(Frame) BY <1>6, HeaderFrameType
    <3>2. ack(a) \in Seq(Frame) BY <3>1
    <3> HIDE DEF ack
    <3> QED BY <3>2
  <2>4. Commit(r, net, Result(a, ack(a), f.data)) /\ sent' = sent
    <3> HIDE DEF ack, a, Result, net
    <3> QED BY <1>4, <1>11, <2>2, <2>3
  <2>5. last + 1 \in Nat /\ last + 1 <= n BY <1>1, <2>1
  <2>6. Numbered(last + 1, a.sendSeq) BY <1>1, <1>5, <1>6, <2>1, NumberedNext DEF Con
  <2>7. Taking(a, last + 1) BY <1>5, <1>6, <2>6 DEF Taking
  <2>8. Sending(con[s], n, last + 1)
    <3>1. n - last <= InUse(con[s]) => n - (last + 1) <= InUse(con[s]) BY <1>1, InUseType
    <3> HIDE DEF n, last
    <3> QED BY <1>1, <3>1 DEF Sending
  <2>9. IsAcker(a) BY <1>6 DEF IsAcker
  <2>10. /\ ack(a) \in Seq(Frame)
         /\ \A k \in DOMAIN ack(a) : FreshAck(ack(a)[k], con[s], n, last + 1)
    <3> HIDE DEF ack, a, n, last
    <3> QED BY <1>6, <1>9, <2>5, <2>6, <2>8, <2>9
  <2> HIDE DEF ack, a, n, last, q, net, Result
  <2>11. ToReceiver(q, n, last + 1) BY <1>2, <2>1
  <2> QED BY <1>10, <2>1, <2>4, <2>5, <2>7, <2>10, <2>11
<1>12. CASE /\ ~InSequence(c, f) /\ IsGap(c, f) /\ UNCHANGED sent
            /\ Commit(r, net, Result([c EXCEPT !.sendCon = 2],
                                     resent \o <<HeaderFrame(gap, 0)>>, 0))
  <2>1. IsAcker(gap) /\ Numbered(last, gap.sendSeq) BY <1>5, <1>7 DEF IsAcker
  <2> DEFINE out == <<HeaderFrame(gap, 0)>>
  <2>2. out \in Seq(Frame) /\ \A k \in DOMAIN out : FreshAck(out[k], con[s], n, last)
    <3> HIDE DEF gap, n, last, ack
    <3> QED BY <1>1, <1>7, <1>9, <2>1
  <2>3. <<>> \o out = out
    <3> HIDE DEF out
    <3> QED BY <2>2
  <2>4. Commit(r, net, Result(c, out, 0))
    <3> HIDE DEF gap, out, Result, net
    <3> QED BY <1>4, <1>8, <1>12, <2>3 DEF out
  <2>5. Taking(c, last) OBVIOUS
  <2> HIDE DEF gap, out, n, last, q, net, Result
  <2> QED BY <1>1, <1>2, <1>10, <1>12, <2>2, <2>4, <2>5
<1>13. CASE /\ ~InSequence(c, f) /\ ~IsGap(c, f) /\ UNCHANGED sent
            /\ Commit(r, net, Result(c, resent \o ack(c), 0))
  <2>1. IsAcker(c) BY <1>5 DEF IsAcker
  <2>2. ack(c) \in Seq(Frame) /\ \A k \in DOMAIN ack(c) : FreshAck(ack(c)[k], con[s], n, last)
    <3> HIDE DEF n, last, ack
    <3> QED BY <1>1, <1>5, <1>9, <2>1
  <2>3. <<>> \o ack(c) = ack(c)
    <3> HIDE DEF ack
    <3> QED BY <2>2
  <2>4. Commit(r, net, Result(c, ack(c), 0))
    <3> HIDE DEF ack, Result, net
    <3> QED BY <1>4, <1>13, <2>3
  <2>5. Taking(c, last) OBVIOUS
  <2> HIDE DEF ack, n, last, q, net, Result
  <2> QED BY <1>1, <1>2, <1>10, <1>13, <2>2, <2>4, <2>5
<1> QED
  <2> HIDE DEF Step
  <2> QED BY <1>11, <1>12, <1>13 DEF RecvData

\* It has no frame of its own under way: an acknowledge changes nothing.
LEMMA ReceiverUnacked ==
    ASSUME NEW p \in Node, NEW f, con[p].history.freeEntries = HistorySize
    PROVE  deleteAckedFrameFromHistory(con[p].history, f.rSeq) = con[p].history
<1> DEFINE h == con[p].history
<1>1. h.freeEntries >= HistorySize BY HistoryAssumption
<1> HIDE DEF h
<1>2. deleteAckedFrameFromHistory(h, f.rSeq) = h BY <1>1 DEF deleteAckedFrameFromHistory
<1> QED BY <1>2 DEF h

LEMMA ReceiverIdles ==
    ASSUME NEW s, NEW r, Pair(s, r), StreamInv(s, r), chan[r] # <<>>,
           NEW c \in Con, NEW f \in Frame, Outgoing(f, sent[s]), c.sdoSeqState = "Idle",
           RecvIdle(r, c, f), sent' = sent
    PROVE  Step(s, r)
<1>1. CASE IsInit(f) /\ Answer(r, c, f, "Init2")
  <2>1. IsOpening(f) /\ f.rCon = 0 BY <1>1 DEF Outgoing, IsClose, IsData, IsInit
  <2> QED BY <1>1, <2>1, ReceiverAnswers
<1>2. CASE RejectInit(r, c, f) BY <1>2, ReceiverRejects
<1> QED BY <1>1, <1>2 DEF RecvIdle

LEMMA ReceiverReceives ==
    ASSUME NEW s, NEW r, Pair(s, r), StreamInv(s, r), receiveCb(r)
    PROVE  Step(s, r)
<1> DEFINE f == Head(chan[r])
           c == Acked(r, f)
           q == Tail(chan[r])
<1>1. /\ HistoryInv /\ Inv /\ s \in Node /\ r \in Node /\ chan[r] # <<>>
      /\ chan[r] \in Seq(Frame) /\ Taking(con[r], got[r].last)
      /\ ToReceiver(chan[r], sent[s], got[r].last)
  <2>1. chan[r] # <<>> BY DEF receiveCb
  <2> QED BY <2>1, ReceiverFacts
<1>2. f \in Frame /\ q \in Seq(Frame) BY <1>1, ReceivedType
<1>3. /\ Outgoing(f, sent[s]) /\ Follows(got[r].last, f)
      /\ ToReceiver(q, sent[s], got[r].last)
  BY <1>1, ToReceiverTaken
<1>4. /\ c \in Con /\ c.sdoSeqState = con[r].sdoSeqState
      /\ c.recvSeq = con[r].recvSeq /\ c.recvCon = con[r].recvCon
      /\ c.sendSeq = con[r].sendSeq /\ c.sendCon = con[r].sendCon
      /\ c.history = deleteAckedFrameFromHistory(con[r].history, f.rSeq)
  BY <1>1, <1>2, AckedEntry
<1>5. \/ c.sdoSeqState = "Idle"  /\ RecvIdle(r, c, f) /\ UNCHANGED sent
      \/ c.sdoSeqState = "Init1" /\ RecvInit1(r, c, f) /\ UNCHANGED sent
      \/ c.sdoSeqState = "Init2" /\ RecvInit2(r, c, f) /\ UNCHANGED sent
      \/ c.sdoSeqState = "Init3" /\ RecvInit3(r, c, f) /\ UNCHANGED sent
      \/ c.sdoSeqState = "Connected" /\ RecvConnected(r, c, f)
      \/ c.sdoSeqState = "WaitAck"   /\ RecvWaitAck(r, c, f)
  BY DEF receiveCb, Acked
<1>6. con[r].sdoSeqState \in {"Idle", "Init2", "Connected"} BY <1>1 DEF Taking
<1> HIDE DEF c
<1>7. CASE c.sdoSeqState = "Idle" /\ RecvIdle(r, c, f) /\ UNCHANGED sent
  BY <1>1, <1>2, <1>3, <1>4, <1>7, ReceiverIdles
<1>8. CASE c.sdoSeqState = "Init2" /\ RecvInit2(r, c, f) /\ UNCHANGED sent
  <2>1. CASE f.rCon = 1 /\ f.sCon = 2 /\ Answer(r, c, f, "Connected")
    <3>1. IsOpening(f) BY <1>3, <2>1 DEF Outgoing, IsClose, IsData
    <3> QED BY <1>1, <1>2, <1>3, <1>4, <1>8, <2>1, <3>1, ReceiverConnects
  <2>2. ~(f.rCon = 1 /\ f.sCon = 1) BY <1>3 DEF Outgoing, IsClose, IsOpening, IsData
  <2>3. CASE RejectInit(r, c, f) BY <1>1, <1>2, <1>4, <1>8, <2>3, ReceiverRejects
  <2> QED BY <1>8, <2>1, <2>2, <2>3 DEF RecvInit2
<1>9. CASE c.sdoSeqState = "Connected" /\ RecvConnected(r, c, f)
  <2>1. c.history = con[r].history /\ c.history.freeEntries = HistorySize
    <3>1. con[r].history.freeEntries = HistorySize BY <1>1, <1>4, <1>9 DEF Taking
    <3> QED BY <1>1, <1>4, <3>1, ReceiverUnacked
  <2>2. Taking(c, got[r].last) BY <1>1, <1>4, <2>1 DEF Taking
  <2>3. CASE /\ f.sCon = 0 /\ UNCHANGED <<sent, budget>>
             /\ Commit(r, [chan EXCEPT ![r] = Tail(@)], Closed(<<>>))
    <3>1. <<>> \in Seq(Frame) /\ \A k \in DOMAIN <<>> : IsClose(<<>>[k]) OBVIOUS
    <3>2. Commit(r, [chan EXCEPT ![r] = q], Closed(<<>>)) BY <2>3
    <3> HIDE DEF q
    <3> QED BY <1>2, <1>3, <2>3, <3>1, <3>2, ReceiverCloses
  <2>4. CASE Reinit(r, c, f) /\ UNCHANGED sent
    <3> DEFINE d == [c EXCEPT !.sdoSeqState = "Idle",
                              !.history = deleteAckedFrameFromHistory(@, f.rSeq)]
    <3>1. deleteAckedFrameFromHistory(c.history, f.rSeq) \in History
      BY <1>2, <1>4, deleteAckedType DEF Con, Frame
    <3>2. d \in Con /\ d.sdoSeqState = "Idle" BY <1>4, <3>1 DEF Con, State
    <3>3. RecvIdle(r, d, f) BY <2>4 DEF Reinit
    <3> HIDE DEF d
    <3> QED BY <1>1, <1>2, <1>3, <2>4, <3>2, <3>3, ReceiverIdles
  <2>5. CASE f.sCon \in {2, 3} /\ RecvData(r, c, f)
    BY <1>1, <1>2, <1>4, <1>9, <2>2, <2>5, ReceiverTakes
  <2>6. ~ResendFails(r, c, f)
    BY <1>3 DEF Outgoing, IsClose, IsOpening, IsData, ResendFails
  <2> QED BY <1>9, <2>3, <2>4, <2>5, <2>6 DEF RecvConnected
<1> QED BY <1>4, <1>5, <1>6, <1>7, <1>8, <1>9

\* It acknowledges, closes by itself, or starts again.
LEMMA ReceiverGivesUp ==
    ASSUME NEW s, NEW r, Pair(s, r), StreamInv(s, r),
           \/ sdoseq_sendAck(r) \/ sdoseq_deleteCon(r)
           \/ sdoseq_processEvent(r) \/ Restart(r)
    PROVE  Step(s, r)
<1> DEFINE q == chan[r]
           note == <<CloseFrame(con[r])>>
           n == sent[s]
           last == got[r].last
<1>1. /\ Inv /\ s \in Node /\ r \in Node /\ con[s] \in Con /\ con[r] \in Con
      /\ q \in Seq(Frame) /\ n \in Nat /\ last \in Nat /\ last <= n
      /\ [chan EXCEPT ![r] = q] = chan /\ Taking(con[r], last)
      /\ Sending(con[s], n, last) /\ ToReceiver(q, n, last)
  BY ReceiverFacts
<1>2. /\ Streaming(s, r) /\ s # r /\ con \in [Node -> Con] /\ chan \in [Node -> Seq(Frame)]
  BY <1>1 DEF StreamInv, Inv, TypeOK, Pair
<1>3. note \in Seq(Frame) /\ \A k \in DOMAIN note : IsClose(note[k]) BY <1>1, CloseFrameIs
<1>4. <<>> \in Seq(Frame) /\ \A k \in DOMAIN <<>> : IsClose(<<>>[k]) OBVIOUS
<1>5. ASSUME NEW out, out = <<>> \/ out = note, Commit(r, chan, Closed(out)), sent' = sent
      PROVE  Step(s, r)
  <2> HIDE DEF q, note
  <2>1. out \in Seq(Frame) /\ \A k \in DOMAIN out : IsClose(out[k]) BY <1>3, <1>4, <1>5
  <2>2. Commit(r, [chan EXCEPT ![r] = q], Closed(out)) BY <1>1, <1>5
  <2> QED BY <1>1, <1>5, <2>1, <2>2, ReceiverCloses
<1>6. CASE sdoseq_deleteCon(r) BY <1>5, <1>6 DEF sdoseq_deleteCon
<1>7. CASE sdoseq_processEvent(r)
  <2>1. ~(con[r].sdoSeqState = "Connected" /\ con[r].history.freeEntries < HistorySize)
    BY <1>1, HistoryAssumption DEF Taking
  <2>2. sent' = sent /\ Commit(r, chan, Closed(note)) BY <1>7, <2>1 DEF sdoseq_processEvent
  <2> HIDE DEF note
  <2> QED BY <1>5, <2>2
<1>8. CASE sdoseq_sendAck(r)
  <2> DEFINE e == [c |-> con[r], out |-> <<HeaderFrame(con[r], 0)>>,
                   timer |-> "running", up |-> up[r], data |-> 0]
  <2>1. Commit(r, chan, e) /\ sent' = sent /\ con[r].sdoSeqState = "Connected"
    BY <1>8 DEF sdoseq_sendAck
  <2>2. e.c = con[r] /\ e.out = <<HeaderFrame(con[r], 0)>> /\ e.data = 0 OBVIOUS
  <2>3. IsAcker(con[r]) /\ Numbered(last, con[r].sendSeq)
    BY <1>1, <2>1 DEF Taking, IsAcker
  <2> HIDE DEF e, q, n, last
  <2>4. /\ <<HeaderFrame(con[r], 0)>> \in Seq(Frame)
        /\ \A k \in DOMAIN <<HeaderFrame(con[r], 0)>> :
              FreshAck(<<HeaderFrame(con[r], 0)>>[k], con[s], n, last)
    BY <1>1, <2>3, AckFresh
  <2>5. ReceiverOwes(q, e.c, e.out, n, last, con[s]) BY <1>1, <2>2, <2>4 DEF ReceiverOwes
  <2>6. Commit(r, [chan EXCEPT ![r] = q], e) BY <1>1, <2>1
  <2>7. ReceiverOwes(q, e.c, e.out, sent[s], last, con[s]) /\ last = got[r].last
    BY <2>5 DEF n, last
  <2> QED BY <1>1, <2>1, <2>2, <2>6, <2>7, ReceiverCommit
<1>9. CASE Restart(r)
  <2> DEFINE z == ZeroCon(0)
  <2>1. con' = [con EXCEPT ![r] = z] /\ UNCHANGED <<chan, sent, got>> BY <1>9 DEF Restart
  <2>2. z.sdoSeqState = "Idle" BY DEF ZeroCon
  <2> HIDE DEF z
  <2>3. con'[r] = z /\ con'[s] = con[s] BY <1>1, <1>2, <2>1
  <2>4. Taking(z, got[r].last) BY <2>2 DEF Taking
  <2>5. Streaming(s, r)' BY <1>2, <2>1, <2>3, <2>4 DEF Streaming
  <2>6. StaysIdle(s) BY <2>1, <2>3 DEF StaysIdle
  <2>7. Onward(s, r) BY <2>1 DEF Onward
  <2> QED BY <2>5, <2>6, <2>7 DEF Step
<1> QED BY <1>6, <1>7, <1>8, <1>9

-----------------------------------------------------------------------------
(* The network, and the whole step.                                        *)

LEMMA NetworkThins ==
    ASSUME NEW s, NEW r, Pair(s, r), StreamInv(s, r), NEW p \in Node, NEW q \in Seq(Frame),
           Thinner(q, chan[p]), chan' = [chan EXCEPT ![p] = q],
           UNCHANGED <<con, sent, got>>
    PROVE  Step(s, r)
<1>1. /\ Streaming(s, r) /\ s \in Node /\ r \in Node /\ s # r /\ p \in {s, r}
      /\ chan \in [Node -> Seq(Frame)]
  BY DEF StreamInv, HistoryInv, Inv, TypeOK, Pair
<1>2. chan'[p] = q /\ \A x \in Node : x # p => chan'[x] = chan[x] BY <1>1
<1>3. ToReceiver(chan'[r], sent[s], got[r].last)
  <2>1. ToReceiver(chan[r], sent[s], got[r].last) BY <1>1 DEF Streaming
  <2>2. CASE p = r BY <1>2, <2>1, <2>2, ToReceiverThinner
  <2>3. CASE p # r BY <1>1, <1>2, <2>1, <2>3
  <2> QED BY <2>2, <2>3
<1>4. ToSender(chan'[s], con[s], sent[s], got[r].last)
  <2>1. ToSender(chan[s], con[s], sent[s], got[r].last) BY <1>1 DEF Streaming
  <2>2. CASE p = s BY <1>2, <2>1, <2>2, ToSenderThinner
  <2>3. CASE p # s BY <1>1, <1>2, <2>1, <2>3
  <2> QED BY <2>2, <2>3
<1>5. Streaming(s, r)' BY <1>1, <1>3, <1>4 DEF Streaming
<1>6. StaysIdle(s) BY DEF StaysIdle
<1>7. Onward(s, r) BY DEF Onward
<1> QED BY <1>5, <1>6, <1>7 DEF Step

LEMMA NetworkStreams ==
    ASSUME NEW s, NEW r, Pair(s, r), StreamInv(s, r), NEW p \in Node, Lose(p) \/ Duplicate(p)
    PROVE  Step(s, r)
<1>1. chan[p] \in Seq(Frame) /\ Inv BY TypeFacts DEF StreamInv, HistoryInv
<1>2. UNCHANGED <<con, sent, got>> BY DEF Lose, Duplicate
<1>3. CASE Lose(p)
  <2> DEFINE part(i) == SubSeq(chan[p], 1, i - 1) \o SubSeq(chan[p], i + 1, Len(chan[p]))
  <2>1. PICK i \in 1 .. Len(chan[p]) : chan' = [chan EXCEPT ![p] = part(i)]
    BY <1>3 DEF Lose
  <2>2. part(i) \in Seq(Frame)
    <3>1. SubSeq(chan[p], 1, i - 1) \in Seq(Frame) BY <1>1, <2>1, PartType
    <3>2. SubSeq(chan[p], i + 1, Len(chan[p])) \in Seq(Frame) BY <1>1, <2>1, PartType
    <3> QED BY <3>1, <3>2
  <2>3. Thinner(part(i), chan[p]) BY <1>1, <2>1, ThinnerLost
  <2> HIDE DEF part
  <2> QED BY <1>2, <2>1, <2>2, <2>3, NetworkThins
<1>4. CASE Duplicate(p)
  <2> DEFINE part(i) == SubSeq(chan[p], 1, i) \o SubSeq(chan[p], i, Len(chan[p]))
  <2>1. PICK i \in 1 .. Len(chan[p]) : chan' = [chan EXCEPT ![p] = part(i)]
    BY <1>4 DEF Duplicate
  <2>2. part(i) \in Seq(Frame)
    <3>1. SubSeq(chan[p], 1, i) \in Seq(Frame) BY <1>1, <2>1, PartType
    <3>2. SubSeq(chan[p], i, Len(chan[p])) \in Seq(Frame) BY <1>1, <2>1, PartType
    <3> QED BY <3>1, <3>2
  <2>3. Thinner(part(i), chan[p]) BY <1>1, <2>1, ThinnerRepeated
  <2> HIDE DEF part
  <2> QED BY <1>2, <2>1, <2>2, <2>3, NetworkThins
<1> QED BY <1>3, <1>4

\* No step but an opening touches the bounds that the direction rests on.
Kept == /\ budget'.swap = budget.swap /\ budget'.open = budget.open
        /\ budget'.data = budget.data

LEMMA SpendSendKeeps == ASSUME NEW ok, Inv, SpendSend(ok) PROVE Kept
BY DEF SpendSend, Kept, Inv, TypeOK, Budget

LEMMA ReceiveKeeps == ASSUME Inv, NEW p \in Node, receiveCb(p) PROVE Kept
<1>1. budget' = budget => Kept BY DEF Kept
<1>2. ASSUME NEW c, NEW f, NEW next, Answer(p, c, f, next) PROVE Kept
  BY <1>2, SpendSendKeeps DEF Answer
<1>3. ASSUME NEW c, NEW f, RejectInit(p, c, f) PROVE Kept BY <1>1, <1>3 DEF RejectInit
<1>4. ASSUME NEW c, NEW f, RecvIdle(p, c, f) PROVE Kept BY <1>2, <1>3, <1>4 DEF RecvIdle
<1>5. ASSUME NEW c, NEW f, RecvInit1(p, c, f) \/ RecvInit2(p, c, f) PROVE Kept
  BY <1>2, <1>3, <1>5 DEF RecvInit1, RecvInit2
<1>6. ASSUME NEW c, NEW f, RecvInit3(p, c, f) PROVE Kept
  BY <1>1, <1>2, <1>3, <1>6 DEF RecvInit3
<1>7. ASSUME NEW c, NEW f, ResendFails(p, c, f) PROVE Kept
  BY <1>7 DEF ResendFails, Kept, Inv, TypeOK, Budget
<1>8. ASSUME NEW c, NEW f, Reinit(p, c, f) PROVE Kept BY <1>4, <1>8 DEF Reinit
<1>9. ASSUME NEW c, NEW f, RecvConnected(p, c, f) PROVE Kept
  BY <1>1, <1>7, <1>8, <1>9 DEF RecvConnected, RecvData
<1>10. ASSUME NEW c, NEW f, RecvWaitAck(p, c, f) PROVE Kept
  BY <1>1, <1>7, <1>8, <1>10 DEF RecvWaitAck
<1> QED BY <1>4, <1>5, <1>6, <1>9, <1>10 DEF receiveCb

LEMMA StepKeeps ==
    ASSUME Inv, NEW p \in Node, CommandLayer(p) \/ EventLoop(p) \/ Environment(p),
           ~sdoseq_initCon(p), ~Swap(p)
    PROVE  Kept
<1>1. budget' = budget => Kept BY DEF Kept
<1>2. budget \in Budget BY DEF Inv, TypeOK
<1>3. CASE sdoseq_sendData(p) BY <1>3, SpendSendKeeps DEF sdoseq_sendData
<1>4. CASE sdoseq_sendAck(p) \/ sdoseq_processEvent(p) \/ TimerExpires(p) \/ StaleEvent(p)
  BY <1>1, <1>4 DEF sdoseq_sendAck, sdoseq_processEvent, TimerExpires, StaleEvent
<1>5. CASE sdoseq_deleteCon(p) BY <1>2, <1>5 DEF sdoseq_deleteCon, Kept, Budget
<1>6. CASE receiveCb(p) BY <1>6, ReceiveKeeps
<1>7. CASE Lose(p) BY <1>2, <1>7 DEF Lose, Kept, Budget
<1>8. CASE Duplicate(p) BY <1>2, <1>8 DEF Duplicate, Kept, Budget
<1>9. CASE Restart(p) BY <1>2, <1>9 DEF Restart, Kept, Budget
<1> QED BY <1>3, <1>4, <1>5, <1>6, <1>7, <1>8, <1>9 DEF CommandLayer, EventLoop, Environment

LEMMA AllowedKept ==
    ASSUME NEW s, NEW r, Allowed(s, r), Kept, StaysIdle(s)
    PROVE  Allowed(s, r)'
BY DEF Allowed, OneWay, Kept, StaysIdle

LEMMA StreamInvStep ==
    ASSUME NEW s, NEW r, Pair(s, r), s \notin Acker, StreamInv(s, r), [Next]_vars,
           [AllRecorded]_vars
    PROVE  StreamInv(s, r)' /\ Onward(s, r)
<1>1. /\ HistoryInv /\ Inv /\ Streaming(s, r) /\ Allowed(s, r) /\ s \in Node /\ r \in Node
      /\ \A p \in Node : p = s \/ p = r
  BY DEF StreamInv, HistoryInv, Pair
<1>2. HistoryInv' BY <1>1, HistoryInvStep
<1>3. CASE UNCHANGED vars
  <2>1. Streaming(s, r)' /\ Allowed(s, r)'
    BY <1>1, <1>3 DEF vars, Streaming, Allowed, OneWay
  <2>2. Onward(s, r) BY <1>3 DEF vars, Onward
  <2> QED BY <1>2, <2>1, <2>2 DEF StreamInv
<1>4. ASSUME AllRecorded, NEW p \in Node,
             CommandLayer(p) \/ EventLoop(p) \/ Environment(p)
      PROVE  StreamInv(s, r)' /\ Onward(s, r)
  <2>1. ~Swap(p) BY <1>1 DEF Swap, Allowed, OneWay
  <2>2. ASSUME Step(s, r), ~sdoseq_initCon(p) PROVE StreamInv(s, r)' /\ Onward(s, r)
    <3>1. Kept BY <1>1, <1>4, <2>1, <2>2, StepKeeps
    <3>2. Allowed(s, r)' BY <1>1, <2>2, <3>1, AllowedKept DEF Step
    <3> QED BY <1>2, <2>2, <3>2 DEF StreamInv, Step
  <2>3. CASE sdoseq_initCon(p)
    <3>1. budget.open[p] > 0 /\ budget \in Budget
      BY <1>1, <2>3 DEF sdoseq_initCon, Inv, TypeOK
    <3>2. budget.open[r] = 0 /\ budget.open[s] <= 1 /\ s # r
      BY <1>1 DEF Allowed, OneWay, Pair
    <3>3. p = s BY <1>1, <3>1, <3>2
    <3>4. budget.open \in [Node -> Nat] /\ budget.open[s] = 1
      BY <1>1, <3>1, <3>2, <3>3 DEF Budget
    <3>5. PICK ok \in SendOutcome :
             budget' = [budget EXCEPT !.open[s] = @ - 1,
                                      !.sendFail = IF ok THEN @ ELSE @ - 1]
      BY <2>3, <3>3 DEF sdoseq_initCon
    <3>6. /\ budget'.swap = budget.swap /\ budget'.data = budget.data
          /\ budget'.open = [budget.open EXCEPT ![s] = budget.open[s] - 1]
      BY <3>1, <3>5 DEF Budget
    <3>7. budget'.open[s] = 0 /\ budget'.open[r] = 0 BY <1>1, <3>2, <3>4, <3>6
    <3>8. Allowed(s, r)' BY <1>1, <3>6, <3>7 DEF Allowed, OneWay
    <3>9. Streaming(s, r)' /\ Onward(s, r) BY <2>3, <3>3, SenderOpens
    <3> QED BY <1>2, <3>8, <3>9 DEF StreamInv
  <2>4. CASE Lose(p) \/ Duplicate(p)
    <3>1. Step(s, r) BY <2>4, NetworkStreams
    <3>2. CASE sdoseq_initCon(p) BY <2>3, <3>2
    <3> QED BY <2>2, <3>1, <3>2
  <2>5. CASE TimerExpires(p) \/ StaleEvent(p)
    <3>1. UNCHANGED <<con, chan, sent, got>> BY <2>5 DEF TimerExpires, StaleEvent
    <3>2. Step(s, r) BY <1>1, <3>1 DEF Step, StaysIdle, Onward, Streaming
    <3>3. CASE sdoseq_initCon(p) BY <2>3, <3>3
    <3> QED BY <2>2, <3>2, <3>3
  <2>6. CASE /\ p = s /\ ~sdoseq_initCon(s)
             /\ \/ receiveCb(s) \/ sdoseq_sendData(s) \/ sdoseq_deleteCon(s)
                \/ sdoseq_processEvent(s) \/ Restart(s)
    <3>1. CASE receiveCb(s) BY <1>4, <2>2, <2>6, <3>1, SenderReceives
    <3>2. CASE sdoseq_sendData(s) BY <1>4, <2>2, <2>6, <3>2, SenderSends
    <3>3. CASE sdoseq_deleteCon(s) \/ sdoseq_processEvent(s) \/ Restart(s)
      BY <2>2, <2>6, <3>3, SenderGivesUp
    <3> QED BY <2>6, <3>1, <3>2, <3>3
  <2>7. CASE /\ p = r /\ ~sdoseq_initCon(r)
             /\ \/ receiveCb(r) \/ sdoseq_sendAck(r) \/ sdoseq_deleteCon(r)
                \/ sdoseq_processEvent(r) \/ Restart(r)
    <3>1. CASE receiveCb(r) BY <2>2, <2>7, <3>1, ReceiverReceives
    <3>2. CASE \/ sdoseq_sendAck(r) \/ sdoseq_deleteCon(r)
               \/ sdoseq_processEvent(r) \/ Restart(r)
      BY <2>2, <2>7, <3>2, ReceiverGivesUp
    <3> QED BY <2>7, <3>1, <3>2
  <2>8. ~sdoseq_sendAck(s) BY DEF sdoseq_sendAck
  <2>9. ~sdoseq_sendData(r)
    <3>1. sent[r] = 0 /\ budget.data[r] = 0 BY <1>1 DEF Streaming, Allowed, OneWay
    <3> QED BY <3>1 DEF sdoseq_sendData
  <2>10. p = s \/ p = r BY <1>1
  <2> QED BY <1>4, <2>1, <2>3, <2>4, <2>5, <2>6, <2>7, <2>8, <2>9, <2>10
             DEF CommandLayer, EventLoop, Environment
<1> QED BY <1>3, <1>4 DEF Next

LEMMA InitStreamInv ==
    ASSUME NEW s, NEW r, Pair(s, r), \A b \in Budgets : OneWay(b, s, r), Init
    PROVE  StreamInv(s, r)
<1>1. HistoryInv BY InitHistoryInv
<1>2. s \in Node /\ r \in Node BY DEF Pair
<1>3. /\ con[s] = ZeroCon(0) /\ con[r] = ZeroCon(0) /\ chan[s] = <<>> /\ chan[r] = <<>>
      /\ sent[s] = 0 /\ sent[r] = 0
      /\ got[s] = [last |-> 0, again |-> FALSE] /\ got[r] = [last |-> 0, again |-> FALSE]
      /\ budget \in Budgets
  BY <1>2 DEF Init
<1>4. ZeroCon(0).sdoSeqState = "Idle" BY DEF ZeroCon
<1>5. got[s].last = 0 /\ ~got[s].again /\ got[r].last = 0 /\ ~got[r].again BY <1>3
<1>6. Sending(con[s], 0, 0) /\ Taking(con[r], 0)
  BY <1>3, <1>4 DEF Sending, Taking, Established
<1>7. ToReceiver(chan[r], 0, 0) BY <1>3 DEF ToReceiver
<1>8. ToSender(chan[s], con[s], 0, 0) BY <1>3 DEF ToSender
<1>9. Streaming(s, r)
  BY <1>3, <1>5, <1>6, <1>7, <1>8, HistoryAssumption DEF Streaming
<1>10. Allowed(s, r) BY <1>3, <1>4 DEF Allowed
<1> QED BY <1>1, <1>9, <1>10 DEF StreamInv

LEMMA StreamInvariance ==
    ASSUME NEW s \in Node, NEW r \in Node, Node = {s, r}, s # r, s \notin Acker,
           \A b \in Budgets : OneWay(b, s, r)
    PROVE  Spec /\ [][AllRecorded]_vars => []StreamInv(s, r)
<1>1. Pair(s, r) BY DEF Pair
<1>2. Init => StreamInv(s, r) BY <1>1, InitStreamInv
<1>3. StreamInv(s, r) /\ [Next]_vars /\ [AllRecorded]_vars => StreamInv(s, r)'
  BY <1>1, StreamInvStep
<1> QED BY <1>2, <1>3, PTL DEF Spec

\* Data that flows one way over a network that keeps the order of frames, however many it
\* loses or repeats and however late they come, whoever restarts or closes, reaches the
\* command layer in the order it was sent, each frame once: a number stands for one tag
\* only among the frames that can still be under way.
THEOREM InOrderCorrect ==
    ASSUME NEW s \in Node, NEW r \in Node, Node = {s, r}, s # r, s \notin Acker,
           \A b \in Budgets : OneWay(b, s, r)
    PROVE  Spec /\ [][AllRecorded]_vars => []InOrder
<1>1. StreamInv(s, r) => InOrder BY DEF StreamInv, Streaming, InOrder
<1> QED BY <1>1, StreamInvariance, PTL

\* And what the receiver has not taken the sender still holds: no acknowledge, however old,
\* makes it give up a frame that was not received.
THEOREM NothingLostCorrect ==
    ASSUME NEW s \in Node, NEW r \in Node, Node = {s, r}, s # r, s \notin Acker,
           \A b \in Budgets : OneWay(b, s, r)
    PROVE  Spec /\ [][AllRecorded]_vars => []NothingLost
<1>1. StreamInv(s, r) => NothingLost
  <2> SUFFICES ASSUME StreamInv(s, r), Established(con[s]), Established(con[r])
               PROVE  /\ Dist(con[s].recvSeq, con[r].sendSeq) <= Unacked(s)
                      /\ Dist(con[r].recvSeq, con[s].sendSeq) <= Unacked(r)
    BY PairFacts DEF NothingLost, Pair
  <2>1. Pair(s, r) BY DEF Pair
  <2>2. /\ con[s] \in Con /\ con[r] \in Con /\ sent[s] \in Nat /\ got[r].last \in Nat
        /\ got[r].last <= sent[s] /\ Taking(con[r], got[r].last)
        /\ Sending(con[s], sent[s], got[r].last)
    BY <2>1, ReceiverFacts
  <2>3. con[r].sdoSeqState = "Connected" BY <2>2 DEF Established, Taking
  <2>4. /\ con[r].recvSeq = 0 /\ Numbered(got[r].last, con[r].sendSeq)
        /\ con[r].history.freeEntries = HistorySize
    BY <2>2, <2>3 DEF Taking
  <2>5. /\ con[s].sendSeq = 0 /\ Numbered(sent[s], con[s].recvSeq)
        /\ sent[s] - got[r].last <= InUse(con[s])
    BY <2>2 DEF Sending
  <2>6. sent[s] - got[r].last < SeqMod BY <2>2, <2>5, InUseType, HistoryAssumption
  <2>7. con[s].recvSeq \in SeqNum /\ con[r].sendSeq \in SeqNum BY <2>2 DEF Con
  <2>8. Dist(con[s].recvSeq, con[r].sendSeq) = sent[s] - got[r].last
    BY <2>2, <2>4, <2>5, <2>6, <2>7, NumberedDist
  <2>9. Dist(0, 0) = 0 BY DEF Dist
  <2>10. Unacked(r) = 0 BY <2>4, HistoryAssumption DEF Unacked, UnackedCount
  <2> QED BY <2>4, <2>5, <2>8, <2>9, <2>10 DEF Unacked, InUse
<1> QED BY <1>1, StreamInvariance, PTL

\* Nothing is sent at first.
LEMMA InitStream ==
    ASSUME NEW s, NEW r, Pair(s, r), Init PROVE Promised!Init
<1>1. \A p \in Node : Other(p) \in Node BY PairFacts DEF Pair
<1>2. \A p \in Node : Taken(p) = 0 BY <1>1 DEF Init, Taken
<1> QED BY <1>2 DEF Init, Promised!Init

\* Each step sends a frame while the window is open, takes the one that comes next, or neither.
LEMMA StreamStep ==
    ASSUME NEW s, NEW r, Pair(s, r), StreamInv(s, r), StreamInv(s, r)', Onward(s, r)
    PROVE  [Promised!Next]_(Promised!vars)
<1> DEFINE t == [p \in Node |-> Taken(p)]
<1>1. /\ s \in Node /\ r \in Node /\ s # r /\ Node = {s, r} /\ Other(s) = r /\ Other(r) = s
  BY PairFacts DEF Pair
<1>2. /\ sent \in [Node -> Nat] /\ sent' \in [Node -> Nat]
      /\ sent[r] = 0 /\ sent'[r] = 0 /\ got[s].last = 0 /\ got'[s].last = 0
      /\ got'[r].last <= sent'[s] /\ sent'[s] - got'[r].last <= HistorySize
      /\ got[r].last \in Nat /\ got'[r].last \in Nat
  <2>1. Inv /\ Inv' /\ Streaming(s, r) /\ Streaming(s, r)' BY DEF StreamInv, HistoryInv
  <2> QED BY <1>1, <2>1 DEF Inv, TypeOK, Streaming
<1>3. /\ t = [p \in Node |-> IF p = s THEN got[r].last ELSE 0]
      /\ t' = [p \in Node |-> IF p = s THEN got'[r].last ELSE 0]
  BY <1>1, <1>2 DEF Taken
<1> HIDE DEF t
<1>4. /\ t \in [Node -> Nat] /\ t' \in [Node -> Nat] /\ t[s] = got[r].last
      /\ t'[s] = got'[r].last /\ t[r] = 0 /\ t'[r] = 0
  BY <1>1, <1>2, <1>3
<1>5. CASE sent'[s] = sent[s] /\ got'[r].last = got[r].last
  <2>1. sent' = sent /\ t' = t BY <1>1, <1>2, <1>4, <1>5
  <2> QED BY <2>1 DEF Promised!vars, t
<1>6. CASE sent'[s] = sent[s] /\ got'[r].last = got[r].last + 1
  <2>1. sent' = sent /\ t' = [t EXCEPT ![s] = t[s] + 1] BY <1>1, <1>2, <1>4, <1>6
  <2>2. t[s] < sent[s] BY <1>1, <1>2, <1>4, <1>6
  <2>3. Promised!Take(s) BY <2>1, <2>2 DEF Promised!Take, Promised!More, t
  <2> QED BY <1>1, <2>3 DEF Promised!Next
<1>7. CASE sent'[s] = sent[s] + 1 /\ got'[r].last = got[r].last
  <2>1. t' = t /\ sent' = [sent EXCEPT ![s] = sent[s] + 1] BY <1>1, <1>2, <1>4, <1>7
  <2>2. sent[s] - t[s] < HistorySize BY <1>1, <1>2, <1>4, <1>7, HistoryAssumption
  <2>3. Promised!Send(s) BY <2>1, <2>2 DEF Promised!Send, Promised!More, t
  <2> QED BY <1>1, <2>3 DEF Promised!Next
<1> QED BY <1>5, <1>6, <1>7 DEF Onward

\* Such a connection implements the stream of SdoStream: whatever is lost, repeated, late or resent,
\* the command layer gets the next frame or none, and the sender is ahead by a history at most.
THEOREM StreamCorrect ==
    ASSUME NEW s \in Node, NEW r \in Node, Node = {s, r}, s # r, s \notin Acker,
           \A b \in Budgets : OneWay(b, s, r)
    PROVE  Spec /\ [][AllRecorded]_vars => ImplementsStream
<1>1. Pair(s, r) BY DEF Pair
<1>2. Init => Promised!Init BY <1>1, InitStream
<1>3. StreamInv(s, r) /\ [Next]_vars /\ [AllRecorded]_vars => [Promised!Next]_(Promised!vars)
  <2> SUFFICES ASSUME StreamInv(s, r), [Next]_vars, [AllRecorded]_vars
               PROVE  [Promised!Next]_(Promised!vars)
    OBVIOUS
  <2>1. StreamInv(s, r)' /\ Onward(s, r) BY <1>1, StreamInvStep
  <2> QED BY <1>1, <2>1, StreamStep
<1> QED BY <1>2, <1>3, StreamInvariance, PTL DEF Spec, ImplementsStream, Promised!Spec
=============================================================================
