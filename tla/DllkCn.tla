------------------------------- MODULE DllkCn -------------------------------
(***************************************************************************)
(* The cycle state machine of a controlled node (dllkstatemachine.c): what *)
(* one frame, or the frame timeout, does to the DLL state and to the two   *)
(* flags of lossSocStatus, and which errors go to the error handler.       *)
(*                                                                         *)
(* The cycle is not multiplexed (cycleCount is 0).  DLL_ERR_CN_LOSS_SOA is *)
(* left out: the error handler does not read it.                           *)
(***************************************************************************)
EXTENDS NmtkStates

DllFrames == Frames \union {"DllCeAsnd"}
DllStates == {"GsInit", "CsWaitPreq", "CsWaitSoc", "CsWaitSoa"}

(* dllkInstance_g: state, fLossReported, fTimeoutOccurred *)
Dllk == [state : DllStates, reported : BOOLEAN, timeout : BOOLEAN]
DllErrors == {"LossSoc", "LossPreq", "RecvdPreq"}

(* The tables pfnProcessCsFullCycle_g and pfnProcessCsStopped_g, and the states without a table *)
NextDllState(d, s, e) ==
  LET stopped == s = "CsStopped"
  IN CASE s \in {"CsNotActive", "CsPreOperational1"} -> IF e = "DllCeSoc" THEN "CsWaitPreq" ELSE "GsInit"
       [] s \notin CsCyclic -> "GsInit"
       [] s \in CsCyclic /\ d = "GsInit" -> IF stopped THEN "CsWaitSoa" ELSE "CsWaitPreq"
       [] s \in CsCyclic /\ d # "GsInit" /\ e = "FrameTimeout" ->
            IF s = "CsPreOperational2" THEN d ELSE "CsWaitSoc"
       [] s \in CsCyclic /\ d # "GsInit" /\ e = "DllCeSoa" -> "CsWaitSoc"
       [] s \in CsCyclic /\ d = "CsWaitPreq" /\ e = "DllCePreq" -> "CsWaitSoa"
       [] s \in CsCyclic /\ d = "CsWaitSoa" /\ e = "DllCePreq" -> IF stopped THEN d ELSE "CsWaitSoc"
       [] s \in CsCyclic /\ d # "GsInit" /\ e = "DllCeSoc" ->
            IF ~stopped THEN "CsWaitPreq" ELSE IF d = "CsWaitSoc" THEN "CsWaitSoa" ELSE d
       [] OTHER -> d

(* A frame that proves a SoC lost, and a timeout that counts (not in PRE_OPERATIONAL_2) *)
SocMissed(d, s, e) ==
  /\ s \in CsCyclic
  /\ \/ d = "CsWaitSoc" /\ e \in {"DllCePreq", "DllCeSoa"}
     \/ d = "CsWaitSoa" /\ e = "DllCePreq" /\ s # "CsStopped"
TimedOut(d, s, e) == s \in CsCyclic \ {"CsPreOperational2"} /\ d # "GsInit" /\ e = "FrameTimeout"

(* A bug that tests the properties: a second timeout is not reported *)
BadTriggersOnce(d, s, e) == (SocMissed(d.state, s, e) \/ TimedOut(d.state, s, e)) /\ ~d.reported

(* triggerLossOfSocEvent, triggerLossOfSocEventOnFrameTimeout *)
Triggers(d, s, e) ==
  \/ SocMissed(d.state, s, e) /\ ~d.reported
  \/ TimedOut(d.state, s, e) /\ (~d.reported \/ d.timeout)

(* dllk_changeState: the instance afterwards *)
ChangeState(d, s, e) ==
  LET valid == s \in CsCyclic \ {"CsStopped"} /\ d.state = "CsWaitSoc" /\ e = "DllCeSoc"
  IN  [state |-> NextDllState(d.state, s, e),
       reported |-> ~valid /\ (d.reported \/ SocMissed(d.state, s, e) \/ TimedOut(d.state, s, e)),
       timeout |-> ~valid /\ (d.timeout \/ TimedOut(d.state, s, e))]

(* A bug that tests the properties: any SoA without a PReq expected counts *)
BadErrorsOf(d, s, e) ==
  {x \in DllErrors :
     \/ x = "LossSoc" /\ Triggers(d, s, e)
     \/ x = "LossPreq" /\ s \in {"CsReadyToOperate", "CsOperational"} /\ e = "DllCeSoa"
     \/ x = "RecvdPreq" /\ s \in CsCyclic \ {"CsStopped"} /\ d.state = "CsWaitPreq" /\ e = "DllCePreq"}

(* dllk_changeState: the errors posted *)
ErrorsOf(d, s, e) ==
  {x \in DllErrors :
     \/ x = "LossSoc" /\ Triggers(d, s, e)
     \/ x = "LossPreq" /\ s \in {"CsReadyToOperate", "CsOperational"}
                       /\ d.state = "CsWaitPreq" /\ e = "DllCeSoa"
     \/ x = "RecvdPreq" /\ s \in CsCyclic \ {"CsStopped"} /\ d.state = "CsWaitPreq" /\ e = "DllCePreq"}
=============================================================================
