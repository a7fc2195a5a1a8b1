----------------------------- MODULE NmtkStates -----------------------------
(***************************************************************************)
(* The NMT kernel state machine of a controlled node (CN): the state table *)
(* of kernel/nmt/nmtk.c and what one event does to the state and the two   *)
(* flags of PRE_OPERATIONAL_2.  A node id other than 240 is assumed, so    *)
(* the MN states and fFrozen, which only they read, are left out.          *)
(***************************************************************************)

GsReset == {"GsInitialising", "GsResetApplication", "GsResetCommunication", "GsResetConfiguration"}
CsCyclic == {"CsStopped", "CsPreOperational2", "CsReadyToOperate", "CsOperational"}
Cs == CsCyclic \union {"CsNotActive", "CsPreOperational1", "CsBasicEthernet"}
NmtStates == {"GsOff"} \union GsReset \union Cs

MnCommands == {"StartNode", "StopNode", "EnterPreOperational2", "EnableReadyToOperate"}
Resets == {"SwReset", "ResetNode", "ResetCom", "ResetConfig"}
Answers == {"EnterResetApp", "EnterResetCom", "EnterResetConfig", "EnterCsNotActive", "EnterReadyToOperate"}
Frames == {"DllCeSoc", "DllCePreq", "DllCePres", "DllCeSoa"}
Faults == {"NmtCycleError", "InternComError"}
NmtEvents == MnCommands \union Resets \union Answers \union Frames \union Faults
               \union {"SwitchOff", "CriticalError", "TimerBasicEthernet"}

(* Where event e leads from state s when no flag matters *)
Target(s, e) ==
  CASE e \in {"SwitchOff", "CriticalError"} -> "GsOff"
    [] e = "SwReset" -> "GsInitialising"
    [] e = "ResetNode" /\ s \in Cs \union {"GsResetCommunication", "GsResetConfiguration"} -> "GsResetApplication"
    [] e = "ResetCom" /\ s \in Cs \union {"GsResetConfiguration"} -> "GsResetCommunication"
    [] e = "InternComError" /\ s \in Cs -> "GsResetCommunication"
    [] e = "ResetConfig" /\ s \in Cs -> "GsResetConfiguration"
    [] e = "EnterResetApp" /\ s = "GsInitialising" -> "GsResetApplication"
    [] e = "EnterResetCom" /\ s = "GsResetApplication" -> "GsResetCommunication"
    [] e = "EnterResetConfig" /\ s = "GsResetCommunication" -> "GsResetConfiguration"
    [] e = "EnterCsNotActive" /\ s = "GsResetConfiguration" -> "CsNotActive"
    [] e \in {"DllCeSoc", "DllCeSoa"} /\ s = "CsNotActive" -> "CsPreOperational1"
    [] e = "TimerBasicEthernet" /\ s = "CsNotActive" -> "CsBasicEthernet"
    [] e \in Frames /\ s = "CsBasicEthernet" -> "CsPreOperational1"
    [] e = "DllCeSoc" /\ s = "CsPreOperational1" -> "CsPreOperational2"
    [] e = "NmtCycleError" /\ s \in CsCyclic -> "CsPreOperational1"
    [] e = "StopNode" /\ s \in CsCyclic -> "CsStopped"
    [] e = "EnterPreOperational2" /\ s \in {"CsOperational", "CsStopped"} -> "CsPreOperational2"
    [] e = "StartNode" /\ s = "CsReadyToOperate" -> "CsOperational"
    [] OTHER -> s

(* The kernel's instance: state, MN allows ReadyToOperate, application is ready *)
Nmtk == [state : NmtStates, enable : BOOLEAN, ready : BOOLEAN]

Clear(s) == [state |-> s, enable |-> FALSE, ready |-> FALSE]

(* doStateCsPreOperational2: the two halves of NMT_CT5 and NMT_CT6 *)
Agreement(k, e) ==
  IF (k.enable /\ e = "EnterReadyToOperate") \/ (k.ready /\ e = "EnableReadyToOperate")
  THEN Clear("CsReadyToOperate")
  ELSE IF e = "EnterReadyToOperate" THEN [k EXCEPT !.ready = TRUE] ELSE [k EXCEPT !.enable = TRUE]

(* A bug that tests the properties: PRE_OPERATIONAL_2 is left with a flag still set *)
BadNmtkStep(k, e) ==
  IF k.state = "CsPreOperational2" /\ e \in {"EnterReadyToOperate", "EnableReadyToOperate"} THEN Agreement(k, e)
  ELSE [k EXCEPT !.state = Target(k.state, e)]

(* One event in the state machine *)
NmtkStep(k, e) ==
  CASE k.state = "CsPreOperational2" /\ e \in {"EnterReadyToOperate", "EnableReadyToOperate"} -> Agreement(k, e)
    [] k.state = "CsPreOperational2" /\ e \in {"StopNode", "NmtCycleError"} -> Clear(Target(k.state, e))
    [] k.state = "GsResetConfiguration" -> Clear(Target(k.state, e))
    [] OTHER -> [k EXCEPT !.state = Target(k.state, e)]
=============================================================================
