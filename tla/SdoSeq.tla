------------------------------- MODULE SdoSeq -------------------------------
(***************************************************************************)
(* The SDO sequence layer (stack/src/user/sdo/sdo-sequ.c) between two      *)
(* nodes: a four-way handshake, sequence numbers with piggybacked          *)
(* acknowledges, retransmission out of a bounded history, and a timer.     *)
(* Each node has one entry of aSdoSeqCon, its connection to the other.     *)
(*                                                                         *)
(* The frames travel over a lower layer that is not modelled in detail     *)
(* (SDO/ASnd or SDO/UDP): a queue per direction that may lose, duplicate   *)
(* and reorder frames, within the bounds that the constants name.  The     *)
(* command layer is modelled by what sdo-comu.c does with the layer: it    *)
(* opens, sends, acknowledges and closes when it likes, it may answer a    *)
(* frame from within the receive callback, and when it is told that the    *)
(* connection is gone it deletes the connection from within that callback. *)
(***************************************************************************)
EXTENDS SdoSeqHistory, FiniteSets

CONSTANTS Node,         \* the two nodes
          RetryCount,   \* SDO_SEQ_RETRY_COUNT
          Acker,        \* nodes whose command layer sends bare acknowledges
          ChanCap,      \* frames in transit per direction; more are dropped
          Budgets       \* the bounds a behaviour may start with

\* The bounds: how many frames are lost, duplicated, swapped and refused, how often nodes
\* restart and delete a connection outside of a callback, what each node opens and sends.
\* `late`: may a frame be on its way longer than the timeout?
\* `noTimer`: may the timer module run out of timers?
Budget == [loss : Nat, dup : Nat, swap : Nat, sendFail : Nat, restart : Nat, delete : Nat,
           open : [Node -> Nat], data : [Node -> Nat], late : BOOLEAN, noTimer : BOOLEAN]

ASSUME SdoSeqAssumption ==
    /\ IsFiniteSet(Node) /\ \A p \in Node : \E q \in Node : q # p
    /\ RetryCount \in Nat /\ ChanCap \in Nat /\ Acker \subseteq Node
    /\ Budgets \subseteq Budget

VARIABLES
    con,        \* con[p]: p's entry of aSdoSeqCon
    timer,      \* timer[p]: off (handle 0), running, fired (handle not yet deleted), or
                \*           refused (handle 0, the last setTimer returned an error)
    timerEvent, \* timerEvent[p]: a timer event for p waits in the event queue
    chan,       \* chan[p]: the frames on their way to p
    up,         \* up[p]: p's command layer was told that the connection is up
    sent,       \* sent[p]: data frames p's command layer has sent, their tags are 1..sent[p]
    got,        \* got[p]: the tag delivered last, and whether a tag came late or twice
    budget      \* what is left of the bounds on faults, opens and deletes

vars == <<con, timer, timerEvent, chan, up, sent, got, budget>>

Other(p) == CHOOSE q \in Node : q # p

State == {"Idle", "Init1", "Init2", "Init3", "Connected", "WaitAck"}
Established(c) == c.sdoSeqState \in {"Connected", "WaitAck"}

Con == [conHandle : BOOLEAN, sdoSeqState : State,
        recvSeq : SeqNum, recvCon : ConBits,   \* recvSeqNum: own number and scon
        sendSeq : SeqNum, sendCon : ConBits,   \* sendSeqNum: peer's number and own rcon
        history : History, retryCount : 0 .. RetryCount]

ZeroCon(free) ==
    [conHandle |-> FALSE, sdoSeqState |-> "Idle",
     recvSeq |-> 0, recvCon |-> 0, sendSeq |-> 0, sendCon |-> 0,
     history |-> ZeroHistory(free), retryCount |-> 0]

Init ==
    /\ con = [p \in Node |-> ZeroCon(0)]
    /\ timer = [p \in Node |-> "off"]
    /\ timerEvent = [p \in Node |-> FALSE]
    /\ chan = [p \in Node |-> <<>>]
    /\ up = [p \in Node |-> FALSE]
    /\ sent = [p \in Node |-> 0]
    /\ got = [p \in Node |-> [last |-> 0, again |-> FALSE]]
    /\ budget \in Budgets

-----------------------------------------------------------------------------
(* What a step of node p does, collected in a record `e`:                  *)
(* the new entry c, the frames out it hands to the lower layer, the timer, *)
(* the command layer's view up, and the tag data it delivers (0: none).    *)

Carry(queue) == SubSeq(queue, 1, IF Len(queue) > ChanCap THEN ChanCap ELSE Len(queue))

Deliver(g, tag) ==
    IF tag = 0 THEN g ELSE [last |-> tag, again |-> g.again \/ tag <= g.last]

\* setTimer may return kErrorTimerNoTimerCreated; the caller goes on all the same.
TimerOutcome(t) == {t} \cup {x \in {"refused"} : t = "running" /\ budget.noTimer}
HasTimer(p) == timer[p] \in {"running", "fired"}

Commit(p, net, e) ==
    /\ con' = [con EXCEPT ![p] = e.c]
    /\ \E t \in TimerOutcome(e.timer) : timer' = [timer EXCEPT ![p] = t]
    /\ chan' = [net EXCEPT ![Other(p)] = Carry(@ \o e.out)]
    /\ up' = [up EXCEPT ![p] = e.up]
    /\ got' = [got EXCEPT ![p] = Deliver(@, e.data)]

\* The lower layer may refuse a frame (full asynchronous queue, socket error).
SendOutcome == {TRUE} \cup {ok \in {FALSE} : budget.sendFail > 0}
SpendSend(ok) == budget' = IF ok THEN budget ELSE [budget EXCEPT !.sendFail = @ - 1]

\* sendFrame without history: the header is filled from the entry.
HeaderFrame(c, tag) ==
    [sSeq |-> c.recvSeq, sCon |-> c.recvCon, rSeq |-> c.sendSeq, rCon |-> c.sendCon, data |-> tag]
CloseFrame(c) == HeaderFrame([c EXCEPT !.recvCon = 0, !.sendCon = 0], 0)

\* The entry adopts the numbers of a received frame, seen from the other side.
Adopt(c, f) ==
    [c EXCEPT !.recvSeq = f.rSeq, !.recvCon = f.rCon, !.sendSeq = f.sSeq, !.sendCon = f.sCon]

(***************************************************************************)
(* ConClosed, InitError and Timeout: the command layer's callback calls    *)
(* sdoseq_deleteCon, which finds the state Idle, deletes the timer and     *)
(* clears the entry.                                                       *)
(***************************************************************************)
BadClosed(out) ==                                          \* the command layer is not told
    [c |-> ZeroCon(HistorySize), out |-> out, timer |-> "off", up |-> TRUE, data |-> 0]
Closed(out) ==
    [c |-> ZeroCon(HistorySize), out |-> out, timer |-> "off", up |-> FALSE, data |-> 0]

(***************************************************************************)
(* sendFrame(.., fFrameInHistory = TRUE) in state Connected, after         *)
(* processStateConnected advanced the number: with at most one free entry  *)
(* the frame requests an acknowledge and the state becomes WaitAck.  When  *)
(* the lower layer refuses the frame the advanced number stays.            *)
(***************************************************************************)
Advance(c) ==
    [c EXCEPT !.recvSeq = NextSeq(@),
              !.recvCon = IF c.history.freeEntries <= 1 THEN 3 ELSE @]

AfterSend(c, tag) ==
    LET a == Advance(c)
    IN  [a EXCEPT !.recvCon = IF @ = 3 THEN 2 ELSE @,
                  !.history = addFrameToHistory(@, HeaderFrame(a, tag)),
                  !.sdoSeqState = IF c.history.freeEntries <= 1 THEN "WaitAck" ELSE @]

-----------------------------------------------------------------------------
(* The command layer's calls.                                              *)

sdoseq_initCon(p) ==
    LET c == [con[p] EXCEPT !.conHandle = TRUE, !.recvSeq = 0, !.recvCon = 1,
                            !.sendSeq = 0, !.sendCon = 0]
    IN  /\ con[p].sdoSeqState = "Idle"
        /\ budget.open[p] > 0
        /\ \E ok \in SendOutcome :
              /\ budget' = [budget EXCEPT !.open[p] = @ - 1,
                                          !.sendFail = IF ok THEN @ ELSE @ - 1]
              /\ Commit(p, chan,
                   IF ok THEN [c |-> [c EXCEPT !.sdoSeqState = "Init1"],
                               out |-> <<HeaderFrame(c, 0)>>,
                               timer |-> "running", up |-> FALSE, data |-> 0]
                   ELSE [c |-> c, out |-> <<>>, timer |-> timer[p], up |-> FALSE, data |-> 0])
        /\ UNCHANGED <<timerEvent, sent>>

\* The command layer's send loop stops at an error: a refused frame is its own loss.
sdoseq_sendData(p) ==
    LET c == con[p]
        tag == sent[p] + 1
    IN  /\ c.sdoSeqState = "Connected"
        /\ sent[p] < budget.data[p]
        /\ sent' = [sent EXCEPT ![p] = tag]
        /\ \E ok \in SendOutcome :
              /\ SpendSend(ok)
              /\ Commit(p, chan,
                   [c |-> IF ok THEN AfterSend(c, tag) ELSE Advance(c),
                    out |-> IF ok THEN <<HeaderFrame(Advance(c), tag)>> ELSE <<>>,
                    timer |-> "running", up |-> up[p], data |-> 0])
        /\ UNCHANGED timerEvent

\* sdoseq_sendData with a null pointer: a bare acknowledge.
sdoseq_sendAck(p) ==
    /\ p \in Acker
    /\ con[p].sdoSeqState = "Connected"
    /\ Len(chan[Other(p)]) < ChanCap
    /\ Commit(p, chan, [c |-> con[p], out |-> <<HeaderFrame(con[p], 0)>>,
                        timer |-> "running", up |-> up[p], data |-> 0])
    /\ UNCHANGED <<timerEvent, sent, budget>>

\* Only state Connected tells the peer: the other states ignore the close event.
sdoseq_deleteCon(p) ==
    /\ con[p].conHandle
    /\ budget.delete > 0
    /\ budget' = [budget EXCEPT !.delete = @ - 1]
    /\ Commit(p, chan, Closed(IF con[p].sdoSeqState = "Connected"
                              THEN <<CloseFrame(con[p])>> ELSE <<>>))
    /\ UNCHANGED <<timerEvent, sent>>

-----------------------------------------------------------------------------
(* receiveCb: the history is acknowledged first, then the frame goes       *)
(* through the state machine.                                              *)

IsInit(f) == f.rCon = 0 /\ f.sCon = 1

\* Answer a handshake frame with one's own rcon or scon advanced, and move on.
Answer(p, c, f, next) ==
    LET a == [Adopt(c, f) EXCEPT !.recvCon = @ + 1]
    IN  \E ok \in SendOutcome :
           /\ SpendSend(ok)
           /\ Commit(p, [chan EXCEPT ![p] = Tail(@)],
                IF ok THEN [c |-> [a EXCEPT !.sdoSeqState = next,
                                            !.history = IF next = "Connected"
                                                        THEN initHistory(@) ELSE @],
                            out |-> <<HeaderFrame(a, 0)>>, timer |-> "running",
                            up |-> next = "Connected", data |-> 0]
                ELSE [c |-> a, out |-> <<>>,
                      timer |-> IF c.sdoSeqState = "Idle" THEN "off" ELSE timer[p],
                      up |-> FALSE, data |-> 0])

\* A frame the handshake does not expect: close, and say so unless it was a close frame.
RejectInit(p, c, f) ==
    /\ Commit(p, [chan EXCEPT ![p] = Tail(@)],
              Closed(IF f.rCon = 0 /\ f.sCon = 0 THEN <<>> ELSE <<CloseFrame(Adopt(c, f))>>))
    /\ UNCHANGED budget

RecvIdle(p, c, f) ==
    \/ IsInit(f) /\ Answer(p, c, f, "Init2")
    \/ ~IsInit(f) /\ RejectInit(p, c, f)

RecvInit1(p, c, f) ==
    \/ f.rCon = 1 /\ f.sCon = 1 /\ Answer(p, c, f, "Init3")
    \/ IsInit(f) /\ Answer(p, c, f, "Init2")
    \/ ~(f.rCon = 1 /\ f.sCon = 1) /\ ~IsInit(f) /\ RejectInit(p, c, f)

BadRecvInit2(p, c, f) ==                                   \* no crossing of init frames
    \/ f.rCon = 1 /\ f.sCon = 2 /\ Answer(p, c, f, "Connected")
    \/ ~(f.rCon = 1 /\ f.sCon = 2) /\ RejectInit(p, c, f)
RecvInit2(p, c, f) ==
    \/ f.rCon = 1 /\ f.sCon = 2 /\ Answer(p, c, f, "Connected")
    \/ f.rCon = 1 /\ f.sCon = 1 /\ Answer(p, c, f, "Init3")
    \/ ~(f.rCon = 1 /\ f.sCon \in {1, 2}) /\ RejectInit(p, c, f)

RecvInit3(p, c, f) ==
    \/ /\ f.rCon = 2 /\ f.sCon = 2
       /\ Commit(p, [chan EXCEPT ![p] = Tail(@)],
                 [c |-> [Adopt(c, f) EXCEPT !.sdoSeqState = "Connected",
                                            !.history = initHistory(@)],
                  out |-> <<>>, timer |-> "running", up |-> TRUE, data |-> 0])
       /\ UNCHANGED budget
    \/ f.rCon = 1 /\ f.sCon = 2 /\ Answer(p, c, f, "Connected")
    \/ ~(f.rCon \in {1, 2} /\ f.sCon = 2) /\ RejectInit(p, c, f)

\* TransferAbort: back to Idle, and receiveCb runs the same frame again (kErrorRetry).
Reinit(p, c, f) ==
    RecvIdle(p, [c EXCEPT !.sdoSeqState = "Idle",
                          !.history = deleteAckedFrameFromHistory(@, f.rSeq)], f)

\* What the command layer sends from within a callback of this step, at most one frame: a
\* longer burst differs from this step and calls of sdoseq_sendData only in that a
\* requested acknowledge travels behind the burst.
Replies(p, c) == {0} \cup {tag \in {sent[p] + 1} :
                              tag <= budget.data[p] /\ c.sdoSeqState = "Connected"}

\* A node that gets no further than its resent frames: the lower layer refused one.
ResendFails(p, c, f) ==
    /\ f.rCon = 3 /\ budget.sendFail > 0
    /\ budget' = [budget EXCEPT !.sendFail = @ - 1]
    /\ \E k \in 0 .. Len(readFromHistory(c.history)) - 1 :
          Commit(p, [chan EXCEPT ![p] = Tail(@)],
                 [c |-> c, out |-> SubSeq(readFromHistory(c.history), 1, k),
                  timer |-> "running", up |-> up[p], data |-> 0])
    /\ UNCHANGED sent

BadInSequence(c, f) == Dist(f.sSeq, c.sendSeq) \in {0, 1}   \* takes a repeated frame
BadSkipping(c, f) == Dist(f.sSeq, c.sendSeq) \in {1, 2}    \* takes the frame after a lost one
InSequence(c, f) == f.sSeq = NextSeq(c.sendSeq)
IsGap(c, f) == Dist(f.sSeq, NextSeq(c.sendSeq)) < Threshold

\* A frame with scon 2 or 3 in state Connected.
RecvData(p, c, f) ==
    LET resent == IF f.rCon = 3 THEN readFromHistory(c.history) ELSE <<>>
        net    == [chan EXCEPT ![p] = Tail(@)]
        ack(d) == IF f.sCon = 3 THEN <<HeaderFrame(d, 0)>> ELSE <<>>
    IN  /\ UNCHANGED budget
        /\ \/ /\ InSequence(c, f)
              /\ LET a == [c EXCEPT !.sendSeq = f.sSeq, !.sendCon = 2]
                 IN  \E tag \in Replies(p, a) :
                       LET b == IF tag = 0 THEN a ELSE AfterSend(a, tag)
                           reply == IF tag = 0 THEN <<>> ELSE <<HeaderFrame(Advance(a), tag)>>
                       IN  /\ Commit(p, net, [c |-> b, out |-> resent \o reply \o ack(b),
                                              timer |-> "running", up |-> up[p], data |-> f.data])
                           /\ sent' = IF tag = 0 THEN sent ELSE [sent EXCEPT ![p] = tag]
           \/ /\ ~InSequence(c, f) /\ IsGap(c, f)        \* ask for a retransmission
              /\ Commit(p, net, [c |-> [c EXCEPT !.sendCon = 2],
                                 out |-> resent \o <<HeaderFrame([c EXCEPT !.sendCon = 3], 0)>>,
                                 timer |-> "running", up |-> up[p], data |-> 0])
              /\ UNCHANGED sent
           \/ /\ ~InSequence(c, f) /\ ~IsGap(c, f)       \* a repeated frame
              /\ Commit(p, net, [c |-> c, out |-> resent \o ack(c),
                                 timer |-> "running", up |-> up[p], data |-> 0])
              /\ UNCHANGED sent

RecvConnected(p, c, f) ==
    \/ /\ f.sCon = 0
       /\ Commit(p, [chan EXCEPT ![p] = Tail(@)], Closed(<<>>))
       /\ UNCHANGED <<sent, budget>>
    \/ f.sCon = 1 /\ Reinit(p, c, f) /\ UNCHANGED sent
    \/ f.sCon \in {2, 3} /\ RecvData(p, c, f)
    \/ f.sCon \in {2, 3} /\ ResendFails(p, c, f)

\* A frame with rcon 3 that names the number sent last, scon bits included.
AcceptAck(c, f) ==
    LET a == [Adopt(c, f) EXCEPT !.recvCon = @ - 1, !.sdoSeqState = "Connected"]
    IN  [c |-> a, out |-> IF f.data = 0 THEN <<HeaderFrame(a, 0)>> ELSE <<>>,
         timer |-> "running", up |-> TRUE, data |-> f.data]

\* WaitAck looks at the rcon bits only; it neither checks nor stores the number.
RecvWaitAck(p, c, f) ==
    LET net == [chan EXCEPT ![p] = Tail(@)]
    IN  \/ /\ f.rCon = 0
           /\ Commit(p, net, Closed(<<>>))
           /\ UNCHANGED <<sent, budget>>
        \/ f.rCon = 1 /\ Reinit(p, c, f) /\ UNCHANGED sent
        \/ /\ f.rCon = 2
           /\ LET a == [c EXCEPT !.sdoSeqState = "Connected"]
              IN  \E tag \in Replies(p, a) :
                    /\ Commit(p, net,
                         [c |-> IF tag = 0 THEN a ELSE AfterSend(a, tag),
                          out |-> IF tag = 0 THEN <<>> ELSE <<HeaderFrame(Advance(a), tag)>>,
                          timer |-> "running", up |-> up[p], data |-> f.data])
                    /\ sent' = IF tag = 0 THEN sent ELSE [sent EXCEPT ![p] = tag]
           /\ UNCHANGED budget
        \/ /\ f.rCon = 3
           /\ Commit(p, net,
                IF <<f.rSeq, f.rCon>> = <<c.recvSeq, c.recvCon>>
                THEN AcceptAck(c, f)
                ELSE [c |-> c, out |-> readFromHistory(c.history), timer |-> "running",
                      up |-> TRUE, data |-> 0])
           /\ UNCHANGED <<sent, budget>>
        \/ ResendFails(p, c, f)

receiveCb(p) ==
    /\ chan[p] # <<>>
    /\ LET f == Head(chan[p])
           c == [con[p] EXCEPT !.conHandle = TRUE,
                               !.history = deleteAckedFrameFromHistory(@, f.rSeq)]
       IN  \/ c.sdoSeqState = "Idle"  /\ RecvIdle(p, c, f) /\ UNCHANGED sent
           \/ c.sdoSeqState = "Init1" /\ RecvInit1(p, c, f) /\ UNCHANGED sent
           \/ c.sdoSeqState = "Init2" /\ RecvInit2(p, c, f) /\ UNCHANGED sent
           \/ c.sdoSeqState = "Init3" /\ RecvInit3(p, c, f) /\ UNCHANGED sent
           \/ c.sdoSeqState = "Connected" /\ RecvConnected(p, c, f)
           \/ c.sdoSeqState = "WaitAck"   /\ RecvWaitAck(p, c, f)
    /\ UNCHANGED timerEvent

-----------------------------------------------------------------------------
(* The timer.  An expiry posts an event with the timer handle.  Restarting *)
(* a timer keeps the handle (timer-linuxuser.c reprograms the same object, *)
(* timer-generic.c frees the entry and takes it again from the head of the *)
(* free list), so sdoseq_processEvent can tell an event of an earlier      *)
(* period only when the handle is 0 by then.                               *)

TimerExpires(p) ==
    /\ timer[p] = "running"
    /\ ~timerEvent[p]
    /\ budget.late \/ \A q \in Node : chan[q] = <<>>
    /\ timer' = [timer EXCEPT ![p] = "fired"]
    /\ timerEvent' = [timerEvent EXCEPT ![p] = TRUE]
    /\ UNCHANGED <<con, chan, up, sent, got, budget>>

StaleEvent(p) ==
    /\ timerEvent[p] /\ ~HasTimer(p)
    /\ timerEvent' = [timerEvent EXCEPT ![p] = FALSE]
    /\ UNCHANGED <<con, timer, chan, up, sent, got, budget>>

\* Unacknowledged frames and retries left: resend the oldest and request an acknowledge.
BadRetryFirst(p, c) ==                                     \* the timer is not set again
    Commit(p, chan, [c |-> [c EXCEPT !.retryCount = @ + 1],
                     out |-> readFromHistory(c.history), timer |-> "off", up |-> up[p], data |-> 0])
RetryFirst(p, c) ==
    LET frames  == readFromHistory(c.history)
        request == [frames[1] EXCEPT !.sCon = 3]
    IN  Commit(p, chan,
          IF frames = <<>>
          THEN [c |-> [c EXCEPT !.retryCount = @ + 1], out |-> <<>>,
                timer |-> "running", up |-> up[p], data |-> 0]
          ELSE [c |-> [c EXCEPT !.retryCount = @ + 1,
                                !.history.frame[c.history.ackIndex] = request],
                out |-> <<request>>, timer |-> "running", up |-> up[p], data |-> 0])

sdoseq_processEvent(p) ==
    LET c == con[p]
    IN  /\ timerEvent[p] /\ HasTimer(p)
        /\ timerEvent' = [timerEvent EXCEPT ![p] = FALSE]
        /\ \/ /\ c.sdoSeqState = "Connected"
              /\ c.history.freeEntries < HistorySize /\ c.retryCount < RetryCount
              /\ RetryFirst(p, c)
           \/ /\ c.sdoSeqState = "Connected"
              /\ c.history.freeEntries >= HistorySize \/ c.retryCount = RetryCount
              /\ Commit(p, chan, Closed(<<CloseFrame(c)>>))
           \/ /\ c.sdoSeqState \in {"Init1", "Init2", "Init3", "WaitAck"}
              /\ Commit(p, chan, Closed(<<CloseFrame(c)>>))
        /\ UNCHANGED <<sent, budget>>

-----------------------------------------------------------------------------
(* The environment: the network, and a node that starts again.             *)

Lose(p) ==
    /\ budget.loss > 0
    /\ \E i \in 1 .. Len(chan[p]) :
          chan' = [chan EXCEPT ![p] = SubSeq(@, 1, i - 1) \o SubSeq(@, i + 1, Len(@))]
    /\ budget' = [budget EXCEPT !.loss = @ - 1]
    /\ UNCHANGED <<con, timer, timerEvent, up, sent, got>>

Duplicate(p) ==
    /\ budget.dup > 0 /\ Len(chan[p]) < ChanCap
    /\ \E i \in 1 .. Len(chan[p]) :
          chan' = [chan EXCEPT ![p] = SubSeq(@, 1, i) \o SubSeq(@, i, Len(@))]
    /\ budget' = [budget EXCEPT !.dup = @ - 1]
    /\ UNCHANGED <<con, timer, timerEvent, up, sent, got>>

Swap(p) ==
    /\ budget.swap > 0
    /\ \E i \in 1 .. Len(chan[p]) - 1 :
          chan' = [chan EXCEPT ![p][i] = chan[p][i + 1], ![p][i + 1] = chan[p][i]]
    /\ budget' = [budget EXCEPT !.swap = @ - 1]
    /\ UNCHANGED <<con, timer, timerEvent, up, sent, got>>

\* sdoseq_addInstance after a restart of the node.
Restart(p) ==
    /\ budget.restart > 0
    /\ budget' = [budget EXCEPT !.restart = @ - 1]
    /\ con' = [con EXCEPT ![p] = ZeroCon(0)]
    /\ timer' = [timer EXCEPT ![p] = "off"]
    /\ timerEvent' = [timerEvent EXCEPT ![p] = FALSE]
    /\ up' = [up EXCEPT ![p] = FALSE]
    /\ UNCHANGED <<chan, sent, got>>

CommandLayer(p) ==
    \/ sdoseq_initCon(p) \/ sdoseq_sendData(p) \/ sdoseq_sendAck(p) \/ sdoseq_deleteCon(p)
EventLoop(p) == receiveCb(p) \/ TimerExpires(p) \/ StaleEvent(p) \/ sdoseq_processEvent(p)
Environment(p) == Lose(p) \/ Duplicate(p) \/ Swap(p) \/ Restart(p)

Next == \E p \in Node : CommandLayer(p) \/ EventLoop(p) \/ Environment(p)

Spec == Init /\ [][Next]_vars

(***************************************************************************)
(* Fairness of the event loop only: the threads that run it are always     *)
(* scheduled again, frames that are neither lost nor delayed arrive and a  *)
(* running timer expires.  The command layer owes nothing.                 *)
(***************************************************************************)
Fairness ==
    \A p \in Node : /\ WF_vars(receiveCb(p)) /\ WF_vars(TimerExpires(p))
                    /\ WF_vars(StaleEvent(p)) /\ WF_vars(sdoseq_processEvent(p))

FairSpec == Spec /\ Fairness

-----------------------------------------------------------------------------
(* Properties.                                                             *)

Unacked(p) == UnackedCount(con[p].history)

\* The type invariant.
TypeOK ==
    /\ con \in [Node -> Con]
    /\ timer \in [Node -> {"off", "running", "fired", "refused"}]
    /\ timerEvent \in [Node -> BOOLEAN]
    /\ chan \in [Node -> Seq(Frame)]
    /\ up \in [Node -> BOOLEAN]
    /\ sent \in [Node -> Nat]
    /\ got \in [Node -> [last : Nat, again : BOOLEAN]]
    /\ budget \in Budget

(***************************************************************************)
(* The three counters of the history agree: writeIndex is as many slots    *)
(* behind ackIndex as there are entries in use, and each slot in use holds *)
(* a frame that a retransmission will find.  addFrameToHistory,            *)
(* deleteAckedFrameFromHistory and initHistory keep them one by one.       *)
(***************************************************************************)
HistoryIndexOK ==
    \A p \in Node : Established(con[p]) =>
        LET h == con[p].history
            n == Unacked(p)
        IN  /\ n \in 0 .. HistorySize
            /\ h.writeIndex = IF n = HistorySize THEN h.ackIndex ELSE Offset(h.ackIndex, n)
            /\ {Offset(h.ackIndex, k) : k \in 0 .. n - 1} \subseteq h.sized

(***************************************************************************)
(* The history holds exactly the last frames sent, without a hole: its     *)
(* numbers count up by one and end at the connection's own number.         *)
(***************************************************************************)
HistoryConsistent ==
    /\ HistoryIndexOK
    /\ \A p \in Node : Established(con[p]) =>
        \A k \in 0 .. Unacked(p) - 1 :
            LET h == con[p].history
            IN  Dist(con[p].recvSeq, h.frame[Offset(h.ackIndex, k)].sSeq) = Unacked(p) - 1 - k

(***************************************************************************)
(* What the peer has not taken in sequence is still in the history: a      *)
(* sender never gives up a frame on the strength of an acknowledge that    *)
(* the peer did not mean.                                                  *)
(***************************************************************************)
NothingLost ==
    \A p \in Node : Established(con[p]) /\ Established(con[Other(p)]) =>
        Dist(con[p].recvSeq, con[Other(p)].sendSeq) <= Unacked(p)

\* The command layer gets the peer's data in the order it was sent, each frame once
\* ("else, ignore repeated frame" in processStateConnected).
InOrder == \A p \in Node : ~got[p].again

(***************************************************************************)
(* A connection is a stream of SdoStream: the command layer never gets a   *)
(* frame twice, late, or with one before it left out, whatever is lost and *)
(* resent, and no acknowledge lets the sender run ahead of what the peer   *)
(* has taken by more than the history.                                     *)
(***************************************************************************)
Taken(p) == got[Other(p)].last
Promised == INSTANCE SdoStream WITH Window <- HistorySize, taken <- [p \in Node |-> Taken(p)]
ImplementsStream == Promised!Spec

(***************************************************************************)
(* A connection that is not idle has a timer that will wake it, or the     *)
(* timer module refused the one it asked for last: no way through the      *)
(* state machine takes the timer away or forgets to ask for one.           *)
(***************************************************************************)
TimerArmed == \A p \in Node : con[p].sdoSeqState # "Idle" => timer[p] # "off"

\* The callbacks keep the command layer informed: it believes the connection to be up
\* exactly when it is, so every way out of Connected and WaitAck reports it.
ViewMatches == \A p \in Node : up[p] <=> Established(con[p])

(***************************************************************************)
(* A node that waits for an acknowledge has cleared its own request again  *)
(* (scon 2, not 3).  processStateWaitAck compares whole number bytes, so a *)
(* frame with rcon 3 never names the frame sent last: the branch that      *)
(* takes such a frame for the acknowledge (AcceptAck) is never reached.    *)
(***************************************************************************)
WaitAckScon == \A p \in Node : con[p].sdoSeqState = "WaitAck" => con[p].recvCon = 2

\* "Number of free history entries" never exceeds the size of the history.
FreeEntriesInRange ==
    \A p \in Node : Established(con[p]) => con[p].history.freeEntries <= HistorySize

\* Frames in the history do not stay there for ever: they are acknowledged, or the
\* retries run out and the connection is closed ("max. Timeout 30 sec").
Resolved ==
    \A p \in Node : (Established(con[p]) /\ Unacked(p) > 0) ~>
                    (Unacked(p) = 0 \/ ~Established(con[p]))

(***************************************************************************)
(* An opened connection is established, also when both nodes open at the   *)
(* same time and their init frames cross.  It starts with nothing left of  *)
(* an earlier connection: no peer that believes it is still up, no frame   *)
(* on its way but the init frames, and no timer event waiting in a queue.  *)
(* Frames may cross, but none is lost or comes later than the timeout.     *)
(***************************************************************************)
Opening ==
    /\ budget.loss = 0 /\ ~budget.late
    /\ \A q \in Node :
           /\ ~timerEvent[q]
           /\ \/ con[q].sdoSeqState = "Idle" /\ chan[Other(q)] = <<>>
              \/ /\ con[q].sdoSeqState = "Init1" /\ Len(chan[Other(q)]) = 1
                 /\ IsInit(Head(chan[Other(q)]))
HandshakeCompletes ==
    \A p \in Node : (con[p].sdoSeqState = "Init1" /\ Opening) ~> Established(con[p])
=============================================================================
