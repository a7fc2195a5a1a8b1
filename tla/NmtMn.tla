------------------------------- MODULE NmtMn -------------------------------
(***************************************************************************)
(* The boot-up that a managing node (MN) does with its controlled nodes    *)
(* (CN): user/nmt/nmtmnu.c, with the part of the kernel's NMT state        *)
(* machine (nmtk.c) that it drives, the nodes of the isochronous phase     *)
(* (dllk.c, dllkframe.c, errhndk.c) and what a CN does with the commands.  *)
(*                                                                         *)
(* The handlers of nmtmnu.c are functions of the record mnu, composed in   *)
(* the order of the calls.  The events of a frame are handled when the     *)
(* frame arrives: the user queue keeps their order.                        *)
(*                                                                         *)
(* failed remembers what has gone wrong, at most MaxFaults times: "MN" for *)
(* a cycle error of the MN or a configuration that fails, a CN of Flaky    *)
(* for an answer or a command lost, a restart, or being slower than a      *)
(* timer.                                                                  *)
(* CountMod is the range of the two counters.                              *)
(***************************************************************************)
EXTENDS Naturals, SequencesExt

CONSTANTS Cn, Mandatory, AsyncOnly,  \* object 1F81
          ToConfigure,               \* CNs whose configuration is not up to date
          Waits,                     \* MNWaitPreOp1 of object 1F89 is not 0
          Objects,                   \* what objects 1F80, 1F89/4 and 1006 may ask for
          Flaky, CountMod, MaxFaults

ASSUME NmtMnAssumption ==
  /\ IsFiniteSet(Cn) /\ Mandatory \subseteq Cn /\ AsyncOnly \subseteq Cn
  /\ ToConfigure \subseteq Cn /\ Flaky \subseteq Cn /\ Waits \in BOOLEAN
  /\ Objects \subseteq [startAll : BOOLEAN, timeoutReadyToOp : BOOLEAN, timeoutCheckCom : BOOLEAN]
  /\ CountMod \in Nat /\ CountMod > 2 * Cardinality(Cn)
  /\ MaxFaults \in Nat

VARIABLES mn,             \* NMT state of the MN
          fTimerMsPreOp2, fAllMandatoryCNIdent,
          residence,      \* the timer of PRE_OPERATIONAL_1 runs
          mnu,            \* nmtMnuInstance_g with its timers, requests, commands and nodes
          cn,             \* the CNs
          failed          \* what has gone wrong: the CNs that failed, and "MN" for the rest

vars == <<mn, fTimerMsPreOp2, fAllMandatoryCNIdent, residence, mnu, cn, failed>>

FullCycle(m) == m # "PreOp1"
CnStates == {"NotActive", "PreOp1", "PreOp2", "ReadyToOp", "Operational"}
NodeStates == {"Unknown", "Identified", "ConfRestored", "ResetConf", "Configured", "ReadyToOp", "ComChecked", "Operational"}
Flags == {"isochron", "notScanned", "cmdIssued", "preop2Reached"}
TimerKinds == {"none", "IdentReq", "StatReq", "StateMon"}
Commands == {"EnableReadyToOperate", "StartNode", "ResetNode", "ResetConfiguration"}

(* A node of the isochronous phase: not in it, on its way into it (and out again), or the state last reported *)
Links == {"out", "adding", "gone"} \cup CnStates

Less(n) == (n + CountMod - 1) % CountMod

-----------------------------------------------------------------------------
(* Pieces of the handlers: s is the record mnu, m the state of the MN, c the node *)

HasFlag(s, c, f) == f \in s.node[c].flags
SetFlag(s, c, f) == [s EXCEPT !.node[c].flags = @ \cup {f}]
Clear(s, c, fs) == [s EXCEPT !.node[c].flags = @ \ fs]
Start(s, c, kind) == [s EXCEPT !.node[c].timer = kind]
Tolerate(s, c) == Start(SetFlag(s, c, "cmdIssued"), c, "StateMon")

\* Mutant: the node stays marked.
BadScanned(s, c) == IF HasFlag(s, c, "notScanned") THEN [s EXCEPT !.signal = Less(@)] ELSE s

Scanned(s, c) == IF HasFlag(s, c, "notScanned") THEN [Clear(s, c, {"notScanned"}) EXCEPT !.signal = Less(@)] ELSE s
Done(s, c) == IF c \in Mandatory THEN [s EXCEPT !.mandatory = Less(@)] ELSE s

RequestIdent(s, c) == [s EXCEPT !.ident = @ \cup {c}]
RequestStatus(s, c) == [s EXCEPT !.status = @ \cup {c}]

(* dllk_deleteNode after the events that are already on their way to the kernel part *)
Removed(l) == IF l \in {"adding", "gone"} THEN "gone" ELSE "out"

(* nmtmnu_sendNmtCommandEx *)
Send(s, to, cmd) ==
  [s EXCEPT !.cmds = Append(@, [to |-> to, cmd |-> cmd]),
            !.link = [c \in Cn |-> IF c \in to /\ cmd \in {"ResetNode", "ResetConfiguration"} THEN Removed(@[c]) ELSE @[c]]]

(* Configured timeouts: object 1F89/4, and for the nodes of the cycle object 1006 *)
Timed(s, c) == c \notin AsyncOnly /\ s.od.timeoutCheckCom

NodeBootStep2(s, c) ==
  IF IF c \in AsyncOnly THEN s.node[c].curr = "PreOp2" ELSE HasFlag(s, c, "isochron")
  THEN [Send(s, {c}, "EnableReadyToOperate") EXCEPT !.node[c].longer = @ \/ s.od.timeoutReadyToOp]
  ELSE s

NodeCheckCom(s, c) ==
  IF Timed(s, c) THEN [s EXCEPT !.node[c].longer = TRUE] ELSE [s EXCEPT !.node[c].state = "ComChecked"]

(* checkNmtState: what it leaves and whether it returns kErrorOk.  The state reported (object 1F8E) is *)
(* read again for an async-only node only.                                                            *)
Accept(s) == [s |-> s, ok |-> TRUE]
Reject(s) == [s |-> s, ok |-> FALSE]
Update(r, c, st) == IF c \in AsyncOnly THEN [r EXCEPT !.s.node[c].curr = st] ELSE r

ReachedPreOp2(s, m, c) ==
  IF HasFlag(s, c, "preop2Reached") THEN s
  ELSE LET t == SetFlag(s, c, "preop2Reached")
       IN IF c \notin AsyncOnly THEN [t EXCEPT !.link[c] = IF @ = "out" THEN "adding" ELSE @]
          ELSE IF t.node[c].state = "Configured" /\ FullCycle(m) THEN NodeBootStep2(t, c) ELSE t

ReachedReadyToOp(s, m, c) ==
  LET t == Done([s EXCEPT !.node[c].longer = FALSE, !.node[c].state = "ReadyToOp", !.node[c].exp = "ReadyToOp"], c)
  IN IF m \notin {"ReadyToOp", "Operational"} THEN Accept(t)
     ELSE IF Timed(s, c) THEN Reject(NodeCheckCom(t, c))
     ELSE Accept(IF m = "Operational" THEN Send(NodeCheckCom(t, c), {c}, "StartNode") ELSE NodeCheckCom(t, c))

\* Mutant: the node is given up without the command that brings it back.
BadWrongState(s, c) == [Scanned(s, c) EXCEPT !.node[c].state = "Unknown"]

WrongState(s, c) == Send([Scanned(s, c) EXCEPT !.node[c].state = "Unknown"], {c}, "ResetNode")

CheckNmtState(s, m, c, st, error) ==
  LET exp == s.node[c].exp
  IN IF s.node[c].state = "Unknown" \/ exp = "NotActive" THEN Update(Reject(s), c, st)
     ELSE IF exp = "PreOp2" /\ st = "PreOp2" THEN Update(Accept(ReachedPreOp2(s, m, c)), c, st)
     ELSE IF exp = "PreOp2" /\ st = "ReadyToOp" THEN Update(ReachedReadyToOp(s, m, c), c, st)
     ELSE IF s.node[c].state = "ComChecked" /\ st = "Operational"
          THEN Update(Accept(Done([s EXCEPT !.node[c].state = "Operational"], c)), c, st)
     ELSE IF exp = st THEN Update(Accept(s), c, st)
     ELSE IF ~error /\ HasFlag(s, c, "cmdIssued") THEN Accept(s)
     ELSE Update(Reject(WrongState(s, c)), c, st)

(* The end of processInternalEvent: informed once per state of the MN, the event goes to the kernel part *)
BootEvent == [PreOp1 |-> "AllMandatoryCNIdent", PreOp2 |-> "EnterReadyToOperate", ReadyToOp |-> "EnterMsOperational"]

BootCheck(s, m) ==
  IF s.informed \/ s.signal # 0 \/ s.mandatory # 0 THEN s
  ELSE [s EXCEPT !.informed = TRUE, !.boot = IF m \in DOMAIN BootEvent THEN Append(@, BootEvent[m]) ELSE @]

-----------------------------------------------------------------------------
(* The handlers of the internal node events *)

Configured(s, m, c) ==
  IF s.node[c].state \notin {"Identified", "ConfRestored", "ResetConf"} THEN s
  ELSE LET t == [s EXCEPT !.node[c].state = "Configured"]
       IN IF m = "PreOp1" THEN Done(t, c) ELSE NodeBootStep2(t, c)

(* The configuration manager takes over when the configuration is not up to date or was restored *)
Boot(s, m, c) ==
  IF \/ s.node[c].state = "Identified" /\ s.conf[c] # "done"
     \/ s.node[c].state = "ConfRestored"
  THEN [s EXCEPT !.conf[c] = "running"]
  ELSE Configured(s, m, c)

IdentResponse(s, m, c, st) ==
  LET known == s.node[c].state \in {"ResetConf", "ConfRestored"}
      found == Clear([s EXCEPT !.node[c].state = IF known THEN @ ELSE "Identified"],
                     c, {"isochron", "cmdIssued", "preop2Reached"})
      expecting == IF m = "PreOp1" THEN [Scanned(found, c) EXCEPT !.node[c].exp = "PreOp1"]
                   ELSE [IF st = "PreOp1" THEN Tolerate(found, c) ELSE found EXCEPT !.node[c].exp = "PreOp2"]
      r == CheckNmtState(expecting, m, c, st, FALSE)
  IN IF ~r.ok THEN r.s
     ELSE Boot(IF HasFlag(r.s, c, "cmdIssued") THEN r.s ELSE RequestStatus(r.s, c), m, c)

NoIdentResponse(s, m, c) ==
  LET scanned == IF m = "PreOp1" THEN Scanned(s, c) ELSE s
      known == s.node[c].state \in {"ResetConf", "ConfRestored"}
      r == CheckNmtState([scanned EXCEPT !.node[c].state = IF known THEN @ ELSE "Unknown"], m, c, "NotActive", FALSE)
  IN IF FullCycle(m) THEN Start(r.s, c, "IdentReq") ELSE RequestIdent(r.s, c)

StatusResponse(s, m, c, st) ==
  LET r == CheckNmtState(IF FullCycle(m) THEN Scanned(s, c) ELSE s, m, c, st, FALSE)
  IN IF ~r.ok THEN r.s
     ELSE IF m = "PreOp1" THEN RequestStatus(r.s, c)
     ELSE IF HasFlag(r.s, c, "isochron") THEN r.s ELSE Start(r.s, c, "StatReq")

(* NoStatusResponse, Heartbeat and Error only check the state of the CN *)
OnlyCheck(s, m, c, st, error) == CheckNmtState(s, m, c, st, error).s

(* For a reset the next thing is an IdentRequest; otherwise wrong states are ignored until StateMon expires *)
NmtCmdSent(s, to, cmd) ==
  LET reset == cmd \in {"ResetNode", "ResetConfiguration"}
      Sent(n) == IF reset THEN [n EXCEPT !.exp = "NotActive", !.timer = "IdentReq"]
                 ELSE [n EXCEPT !.exp = IF cmd = "StartNode" THEN "Operational" ELSE "PreOp2",
                                !.timer = "StateMon", !.flags = @ \cup {"cmdIssued"}]
  IN [s EXCEPT !.node = [c \in Cn |-> IF c \in to THEN Sent(@[c]) ELSE @[c]]]

TimerLonger(s, m, c) ==
  CASE s.node[c].state = "Configured" -> OnlyCheck(s, m, c, "NotActive", TRUE)
    [] s.node[c].state = "ReadyToOp" ->
         LET t == Done(Scanned([s EXCEPT !.node[c].state = "ComChecked"], c), c)
         IN IF m = "ReadyToOp" THEN t ELSE Send(t, {c}, "StartNode")
    [] OTHER -> s

TimerStatReq(s, c) ==
  CASE s.node[c].timer = "IdentReq" -> RequestIdent(s, c)
    [] s.node[c].timer = "StatReq" -> RequestStatus(s, c)
    [] OTHER -> RequestStatus(Clear(s, c, {"cmdIssued"}), c)
-----------------------------------------------------------------------------
(* nmtmnu_cbNmtStateChange: what entering a state starts *)

(* The nodes of counted are waited for, those of mandatory among them once more *)
\* Mutant: what has been told of the state before counts for this one.
BadAwait(s, counted, mandatory) ==
  [s EXCEPT !.signal = Cardinality(counted), !.mandatory = Cardinality(mandatory),
            !.node = [c \in Cn |-> IF c \in counted THEN [s.node[c] EXCEPT !.flags = @ \cup {"notScanned"}] ELSE s.node[c]]]

Await(s, counted, mandatory) ==
  [s EXCEPT !.informed = FALSE, !.signal = Cardinality(counted), !.mandatory = Cardinality(mandatory),
            !.node = [c \in Cn |-> IF c \in counted THEN [s.node[c] EXCEPT !.flags = @ \cup {"notScanned"}] ELSE s.node[c]]]

InState(s, st) == {c \in Cn : s.node[c].state = st}

(* doPreop1 with startBootStep1; the timer events of late are in the queue already *)
DoPreop1(s, late) ==
  LET r == Send([s EXCEPT !.ident = {}, !.status = {},
                          !.link = [c \in Cn |-> Removed(@[c])],
                          !.node = [c \in Cn |-> [s.node[c] EXCEPT !.state = "Unknown", !.longer = FALSE,
                                                             !.flags = @ \ {"isochron"},
                                                             !.timer = IF c \in late THEN @ ELSE "none"]]],
                Cn, "ResetNode")
  IN Await(r, Cn, Mandatory)

StartBootStep2(s) ==
  LET expecting == {c \in Cn : s.node[c].exp = "PreOp1"}
      boot == expecting \cap InState(s, "Configured")
      r == [s EXCEPT !.node = [c \in Cn |-> IF c \notin expecting THEN s.node[c]
                                            ELSE [s.node[c] EXCEPT !.exp = "PreOp2", !.timer = "StateMon",
                                                              !.flags = @ \cup {"cmdIssued"}]]]
  IN Await(r, boot, boot \cap Mandatory)

StartCheckCom(s) ==
  LET ready == InState(s, "ReadyToOp")
      timed == {c \in ready : Timed(s, c)}
      r == [s EXCEPT !.node = [c \in Cn |-> IF c \in timed THEN [s.node[c] EXCEPT !.longer = TRUE]
                                            ELSE IF c \in ready THEN [s.node[c] EXCEPT !.state = "ComChecked"]
                                            ELSE s.node[c]]]
  IN Await(r, ready, timed \cap Mandatory)

StartNodes(s) ==
  LET checked == InState(s, "ComChecked")
      start == IF s.od.startAll THEN {Cn} ELSE {{c} : c \in checked}
      r == [s EXCEPT !.cmds = @ \o SetToSeq({[to |-> to, cmd |-> "StartNode"] : to \in start})]
  IN Await(r, checked, checked \cap Mandatory)

-----------------------------------------------------------------------------
(* A CN: what it reports, and where the frames of the MN take it; "Enabled" waits for its application *)

Reported(st) == IF st = "Enabled" THEN "PreOp2" ELSE st

CnNext(c) ==
  CASE cn[c] = "NotActive" -> "PreOp1"
    [] cn[c] = "PreOp1" /\ FullCycle(mn) -> "PreOp2"
    [] cn[c] \notin {"NotActive", "PreOp1"} /\ ~FullCycle(mn) -> "PreOp1"
    [] cn[c] = "Enabled" /\ FullCycle(mn) -> "ReadyToOp"
    [] OTHER -> cn[c]

Obey(st, cmd) ==
  CASE cmd \in {"ResetNode", "ResetConfiguration"} -> "NotActive"
    [] cmd = "EnableReadyToOperate" /\ st = "PreOp2" -> "Enabled"
    [] cmd = "StartNode" /\ st = "ReadyToOp" -> "Operational"
    [] OTHER -> st

(* A command for the CN waits for the asynchronous slot *)
Waiting(c) == \E i \in DOMAIN mnu.cmds : c \in mnu.cmds[i].to

(* A CN that has done what it was told, with nothing left to report: a timer that expires then is not too short *)
Settled(c) ==
  /\ CnNext(c) = cn[c]
  /\ mnu.link[c] \notin {"adding", "gone"}
  /\ mnu.link[c] \in CnStates => mnu.link[c] = cn[c]
  /\ ~Waiting(c)

Fault(of) == Len(failed) < MaxFaults /\ failed' = Append(failed, of)
FaultOf(c) == c \in Flaky /\ Fault(c)

Steady == UNCHANGED <<mn, fTimerMsPreOp2, fAllMandatoryCNIdent, residence>>

Handle(s) == mnu' = BootCheck(s, mn)

-----------------------------------------------------------------------------
(* Actions *)

NewNode == [state |-> "Unknown", flags |-> {}, exp |-> "NotActive", curr |-> "NotActive", timer |-> "none", longer |-> FALSE]

Init ==
  /\ mn = "PreOp1" /\ residence = TRUE
  /\ fTimerMsPreOp2 = FALSE /\ fAllMandatoryCNIdent = FALSE
  /\ \E od \in Objects :
       mnu = DoPreop1([node |-> [c \in Cn |-> NewNode], signal |-> 0, mandatory |-> 0, informed |-> FALSE,
                       ident |-> {}, status |-> {}, cmds |-> <<>>, boot |-> <<>>,
                       link |-> [c \in Cn |-> "out"],
                       conf |-> [c \in Cn |-> IF c \in ToConfigure THEN "stale" ELSE "done"],
                       od |-> od], {})
  /\ cn = [c \in Cn |-> "NotActive"]
  /\ failed = <<>>

(* An ident or a status request is over: answered, or not because the CN is not there.  What the kernel *)
(* part reports of a node arrives before the answer to the IdentRequest that follows its reset.         *)
Ident(c) ==
  LET s == [mnu EXCEPT !.ident = @ \ {c}]
  IN /\ c \in mnu.ident /\ mnu.link[c] \notin {"adding", "gone"}
     /\ \/ cn[c] # "NotActive" /\ Handle(IdentResponse(s, mn, c, Reported(cn[c]))) /\ UNCHANGED failed
        \/ cn[c] = "NotActive" /\ Handle(NoIdentResponse(s, mn, c)) /\ UNCHANGED failed
        \/ cn[c] # "NotActive" /\ Handle(NoIdentResponse(s, mn, c)) /\ FaultOf(c)
     /\ Steady /\ UNCHANGED cn

Status(c) ==
  LET s == [mnu EXCEPT !.status = @ \ {c}]
      none == OnlyCheck(s, mn, c, "NotActive", TRUE)
  IN /\ c \in mnu.status
     /\ \/ cn[c] # "NotActive" /\ Handle(StatusResponse(s, mn, c, Reported(cn[c]))) /\ UNCHANGED failed
        \/ cn[c] = "NotActive" /\ Handle(none) /\ UNCHANGED failed
        \/ cn[c] # "NotActive" /\ Handle(none) /\ FaultOf(c)
     /\ Steady /\ UNCHANGED cn

(* The MN has sent an NMT command; a flaky CN may miss it *)
CmdSent ==
  /\ mnu.cmds # <<>> /\ (residence => Waits)
  /\ LET e == Head(mnu.cmds)
         To(hearing) == cn' = [c \in Cn |-> IF c \in e.to \cap hearing THEN Obey(cn[c], e.cmd) ELSE cn[c]]
     IN /\ mnu' = NmtCmdSent([mnu EXCEPT !.cmds = Tail(@)], e.to, e.cmd)
        /\ \/ To(Cn) /\ UNCHANGED failed
           \/ \E c \in e.to : FaultOf(c) /\ To(Cn \ {c})
  /\ Steady

(* The kernel part has put the node into the isochronous phase and the user part hears of it: cbNodeAdded *)
NodeAdded(c) ==
  LET s == SetFlag([mnu EXCEPT !.link[c] = IF @ = "adding" THEN "NotActive" ELSE "out"], c, "isochron")
  IN /\ mnu.link[c] \in {"adding", "gone"}
     /\ mnu' = IF s.node[c].state = "Configured" /\ FullCycle(mn) THEN NodeBootStep2(s, c) ELSE s
     /\ Steady /\ UNCHANGED <<cn, failed>>

(* updateNode: a PRes with another state than the last *)
Heartbeat(c) ==
  /\ FullCycle(mn) /\ mnu.link[c] \in CnStates
  /\ cn[c] # "NotActive" /\ Reported(cn[c]) # mnu.link[c]
  /\ Handle(OnlyCheck([mnu EXCEPT !.link[c] = Reported(cn[c])], mn, c, Reported(cn[c]), FALSE))
  /\ Steady /\ UNCHANGED <<cn, failed>>

(* handleMnCnLossPres at the threshold *)
LossPres(c) ==
  /\ FullCycle(mn) /\ mnu.link[c] \in CnStates
  /\ Handle(OnlyCheck([mnu EXCEPT !.link[c] = "out"], mn, c, "NotActive", TRUE))
  /\ IF cn[c] = "NotActive" THEN UNCHANGED failed ELSE FaultOf(c)
  /\ Steady /\ UNCHANGED cn

(* The timers of a node.  Those that judge a CN are long enough unless the CN is slow. *)
StatReq(c) ==
  LET kind == mnu.node[c].timer
  IN /\ kind # "none"
     /\ IF kind = "StateMon" /\ ~Settled(c) THEN FaultOf(c) ELSE UNCHANGED failed
     /\ Handle([TimerStatReq(mnu, c) EXCEPT !.node[c].timer = "none"])
     /\ Steady /\ UNCHANGED cn

Longer(c) ==
  /\ mnu.node[c].longer
  /\ IF mnu.node[c].state = "Configured" /\ ~Settled(c) THEN FaultOf(c) ELSE UNCHANGED failed
  /\ Handle(TimerLonger([mnu EXCEPT !.node[c].longer = FALSE], mn, c))
  /\ Steady /\ UNCHANGED cn

(* kEventTypeNmtMnuNodeCmd with the result of the configuration manager *)
NodeCmd(c) ==
  LET s == [mnu EXCEPT !.conf[c] = "done"]
      state == mnu.node[c].state
      ResetCn(st, cmd) == Send([s EXCEPT !.node[c].state = st], {c}, cmd)
  IN /\ mnu.conf[c] = "running"
     /\ \/ Handle(Configured(s, mn, c)) /\ UNCHANGED failed
        \/ /\ Handle(IF state \in {"Identified", "ConfRestored"} THEN ResetCn("ResetConf", "ResetConfiguration") ELSE s)
           /\ UNCHANGED failed
        \/ /\ Handle(IF state = "Identified" THEN ResetCn("ConfRestored", "ResetNode") ELSE s)
           /\ Fault("MN")
        \/ /\ LET t == [mnu EXCEPT !.conf[c] = "stale"]
              IN Handle(IF state \in {"Identified", "ConfRestored"} THEN OnlyCheck(t, mn, c, "NotActive", TRUE) ELSE t)
           /\ Fault("MN")
     /\ Steady /\ UNCHANGED cn

(* The kernel part takes a boot event; entering the next state calls nmtmnu_cbNmtStateChange.  Without *)
(* a waiting time the timer event of PRE_OPERATIONAL_1 is the first of its events.                     *)
Enter(m, s) ==
  /\ mn' = m
  /\ mnu' = CASE m = "PreOp2" -> StartBootStep2(s)
              [] m = "ReadyToOp" -> StartCheckCom(s)
              [] m = "Operational" -> StartNodes(s)

KernelEvent ==
  /\ mnu.boot # <<>> /\ (residence => Waits)
  /\ LET e == Head(mnu.boot)
         s == [mnu EXCEPT !.boot = Tail(@)]
     IN CASE e = "AllMandatoryCNIdent" /\ mn = "PreOp1" ->
               IF fTimerMsPreOp2 THEN Enter("PreOp2", s) /\ UNCHANGED fAllMandatoryCNIdent
               ELSE fAllMandatoryCNIdent' = TRUE /\ mnu' = s /\ UNCHANGED mn
          [] e = "EnterReadyToOperate" /\ mn = "PreOp2" -> Enter("ReadyToOp", s) /\ UNCHANGED fAllMandatoryCNIdent
          [] e = "EnterMsOperational" /\ mn = "ReadyToOp" -> Enter("Operational", s) /\ UNCHANGED fAllMandatoryCNIdent
          [] OTHER -> mnu' = s /\ UNCHANGED <<mn, fAllMandatoryCNIdent>>
  /\ UNCHANGED <<fTimerMsPreOp2, residence, cn, failed>>

TimerMsPreOp2 ==
  /\ residence /\ residence' = FALSE
  /\ IF mn # "PreOp1" THEN UNCHANGED <<mn, mnu, fTimerMsPreOp2>>
     ELSE IF fAllMandatoryCNIdent THEN Enter("PreOp2", mnu) /\ UNCHANGED fTimerMsPreOp2
     ELSE fTimerMsPreOp2' = TRUE /\ UNCHANGED <<mn, mnu>>
  /\ UNCHANGED <<fAllMandatoryCNIdent, cn, failed>>

(* NMT_MT6: back to PRE_OPERATIONAL_1; the two flags keep their values *)
NmtCycleError ==
  /\ FullCycle(mn) /\ Fault("MN")
  /\ mn' = "PreOp1" /\ residence' = TRUE
  /\ \E late \in SUBSET {c \in Cn : mnu.node[c].timer # "none"} : mnu' = DoPreop1(mnu, late)
  /\ UNCHANGED <<fTimerMsPreOp2, fAllMandatoryCNIdent, cn>>

(* A restart takes longer than the commands that wait at the MN *)
CnMove(c) ==
  /\ CnNext(c) # cn[c] /\ (cn[c] = "NotActive" => ~Waiting(c))
  /\ cn' = [cn EXCEPT ![c] = CnNext(c)]
  /\ Steady /\ UNCHANGED <<mnu, failed>>

CnRestart(c) ==
  /\ cn[c] # "NotActive" /\ FaultOf(c)
  /\ cn' = [cn EXCEPT ![c] = "NotActive"]
  /\ Steady /\ UNCHANGED mnu

NodeStep(c) ==
  Ident(c) \/ Status(c) \/ NodeAdded(c) \/ Heartbeat(c) \/ LossPres(c) \/ StatReq(c) \/ Longer(c) \/ NodeCmd(c)
    \/ CnMove(c) \/ CnRestart(c)

Next == CmdSent \/ KernelEvent \/ TimerMsPreOp2 \/ NmtCycleError \/ \E c \in Cn : NodeStep(c)

Spec == Init /\ [][Next]_vars

(* The asynchronous slot, the kernel part, the timer that polls a node and all the rest of what concerns *)
(* a node go on; faults and errors need not happen.                                                      *)
Fairness ==
  /\ WF_vars(CmdSent) /\ WF_vars(KernelEvent \/ TimerMsPreOp2)
  /\ \A c \in Cn :
       /\ WF_vars(Ident(c) \/ Status(c))
       /\ WF_vars(StatReq(c) /\ failed' = failed)
       /\ WF_vars(\/ NodeAdded(c) \/ Heartbeat(c) \/ NodeCmd(c) \/ CnMove(c)
                  \/ LossPres(c) /\ cn[c] = "NotActive"
                  \/ Longer(c) /\ failed' = failed)

FairSpec == Spec /\ Fairness

-----------------------------------------------------------------------------
(* Properties *)

(* Types: what nmtmnuInstance_g, the links of the kernel part and the CNs can hold. *)
TypeOK ==
  /\ mn \in {"PreOp1", "PreOp2", "ReadyToOp", "Operational"}
  /\ fTimerMsPreOp2 \in BOOLEAN /\ fAllMandatoryCNIdent \in BOOLEAN /\ residence \in BOOLEAN
  /\ mnu.node \in [Cn -> [state : NodeStates, flags : SUBSET Flags, exp : CnStates, curr : CnStates,
                          timer : TimerKinds, longer : BOOLEAN]]
  /\ mnu.signal \in 0 .. CountMod - 1 /\ mnu.mandatory \in 0 .. CountMod - 1
  /\ mnu.link \in [Cn -> Links]
  /\ cn \in [Cn -> CnStates \cup {"Enabled"}]

(* signalSlaveCount is the number of nodes still marked NOT_SCANNED, whatever order answers, timers, losses *)
(* and state changes of the MN come in: one decrement too many wraps and the boot-up never goes on.         *)
SignalExact == mnu.signal = Cardinality({c \in Cn : HasFlag(mnu, c, "notScanned")})

(* The MN looks after a CN: it has a request, a timer or a command under way for it, hears its PRes in the *)
(* isochronous phase, or waits for its configuration.  One path of nmtmnu.c that ends with nothing leaves  *)
(* the node out until the next reset of the MN.                                                            *)
WatchedNode(c) ==
  \/ c \in mnu.ident \cup mnu.status
  \/ mnu.node[c].timer # "none" \/ mnu.node[c].longer
  \/ Waiting(c)
  \/ mnu.link[c] \in CnStates
  \/ mnu.conf[c] = "running"

(* One failure, of any kind and of any CN, never makes the MN forget a mandatory CN.  Two can, and so can a *)
(* StartNode to all nodes, whose end overtakes the search for a CN that is not there.                       *)
Watched ==
  Len(failed) <= 1 /\ (mnu.od.startAll => mn # "Operational") => \A c \in Mandatory : WatchedNode(c)

(* "All mandatory CNs are ReadyToOp", "all CNs checked for errorless communication", "all mandatory CNs are  *)
(* OPERATIONAL" say the comments where the event that takes the MN on is posted.  Only counters are looked   *)
(* at there: a mandatory CN that was lost before it was counted down for this state, or after, breaks it.    *)
Goal == [PreOp2 |-> "ReadyToOp", ReadyToOp |-> "ComChecked", Operational |-> "Operational"]
Earned ==
  [][mn # "PreOp1" /\ ~mnu.informed /\ mnu'.informed => \A c \in Mandatory : mnu'.node[c].state = Goal[mn]]_vars

(* Once nothing goes wrong any more, the MN and the mandatory CNs become OPERATIONAL and stay so, also after *)
(* a cycle error has thrown the boot-up back and while an optional CN comes and goes.  A mandatory CN that   *)
(* fails itself may stop the boot-up: a decrement too many, or no timeout for READY_TO_OPERATE.              *)
MandatoryFailed == \E i \in DOMAIN failed : failed[i] \in Mandatory
BootCompletes == <>[](MandatoryFailed \/ (mn = "Operational" /\ \A c \in Mandatory : cn[c] = "Operational"))
=============================================================================
