------------------------------- MODULE NmtCn -------------------------------
(***************************************************************************)
(* NMT of a controlled node: the kernel state machine (kernel/nmt/nmtk.c), *)
(* the user module that follows it and answers (user/nmt/nmtu.c), the      *)
(* commands of the managing node (user/nmt/nmtcnu.c) and the application,  *)
(* over the event queues of module EventCal and a timer of module          *)
(* TimerGeneric.                                                           *)
(*                                                                         *)
(* Every queued event carries a history variable, its age: since its cause *)
(* the kernel has kept its state (new), has changed it (old), or has been  *)
(* in OFF (dead).  No code reads it.                                       *)
(*                                                                         *)
(* QueueMax bounds all queued events together.  Only the environment obeys *)
(* it: an event that is processed causes at most one other, so the modules *)
(* always find room.  MaxResets bounds reset commands and internal errors. *)
(***************************************************************************)
EXTENDS NmtkStates, Integers, Sequences

CONSTANTS QueueMax, MaxResets,
          MayReject     \* the states whose answer the application may take upon itself

ASSUME BoundsAssumption == QueueMax \in Nat /\ MaxResets \in Nat /\ MayReject \subseteq NmtStates

VARIABLES nmtk,           \* nmtkInstance_g; dllkInstance_g.nmtState is equal between events
          kInt,           \* events from the kernel part to the kernel thread
          uk,             \* events from the user part to the kernel thread
          ku,             \* state changes and commands for the user thread
          localNmtState,  \* nmtuInstance_g.localNmtState
          timer,          \* nmtuInstance_g.timerHdl: off, or the age of the state it was set for
          owed,           \* answers that the application still has to give
          resets,         \* reset commands and internal errors that may still come
          agreed,         \* history: who has spoken in this visit of PRE_OPERATIONAL_2
          outrun          \* history: the kernel has taken an answer that was not for its state

vars == <<nmtk, kInt, uk, ku, localNmtState, timer, owed, resets, agreed, outrun>>

Ages == {"new", "old", "dead"}
Queued(What) == [what : What, age : Ages]
New(what) == [what |-> what, age |-> "new"]

(* What the kernel's move to state s does to an age *)
Older(a, s) == IF s = "GsOff" \/ a = "dead" THEN "dead" ELSE "old"
Age(q, s) == [i \in DOMAIN q |-> [q[i] EXCEPT !.age = Older(@, s)]]

Room == Len(kInt) + Len(uk) + Len(ku) + Len(owed) + (IF timer = "off" THEN 0 ELSE 1) < QueueMax

Init ==
  /\ nmtk = Clear("GsOff")
  /\ kInt = <<>> /\ uk = <<>> /\ ku = <<>>
  /\ localNmtState = "GsOff"
  /\ timer = "off"
  /\ owed = <<>>
  /\ resets = MaxResets
  /\ agreed = {}
  /\ outrun = FALSE

-----------------------------------------------------------------------------
(* The kernel thread *)

Both == {"EnterReadyToOperate", "EnableReadyToOperate"}
ResetAnswers == Answers \ {"EnterReadyToOperate"}

(* nmtk_process: a new state is announced to the user part *)
nmtk_process(e, kIntRest, ukRest) ==
  LET next == NmtkStep(nmtk, e.what)
      moved == next.state # nmtk.state
      Aged(q) == IF moved THEN Age(q, next.state) ELSE q
  IN  /\ nmtk' = next
      /\ kInt' = Aged(kIntRest)
      /\ uk' = Aged(ukRest)
      /\ ku' = IF moved THEN Append(Aged(ku), New(next.state)) ELSE ku
      /\ owed' = Aged(owed)
      /\ timer' = IF moved /\ timer # "off" THEN Older(timer, next.state) ELSE timer
      /\ agreed' = IF next.state \in {"CsReadyToOperate", "CsOperational"} \/ ~moved
                   THEN agreed \union ({e.what} \intersect Both) ELSE {}
      /\ outrun' = (outrun \/ (moved /\ e.what \in ResetAnswers /\ e.age # "new"))
      /\ UNCHANGED <<localNmtState, resets>>

KernelInternal == kInt # <<>> /\ nmtk_process(Head(kInt), Tail(kInt), uk)
KernelUser == uk # <<>> /\ nmtk_process(Head(uk), kInt, Tail(uk))

-----------------------------------------------------------------------------
(* The user thread *)

(* A bug that tests the properties: RESET_COMMUNICATION is not answered *)
BadAnswerTo(s) ==
  CASE s = "GsInitialising" -> "EnterResetApp"
    [] s = "GsResetApplication" -> "EnterResetCom"
    [] s = "GsResetConfiguration" -> "EnterCsNotActive"
    [] s = "CsPreOperational2" -> "EnterReadyToOperate"
    [] OTHER -> "none"

AnswerTo(s) ==
  CASE s = "GsInitialising" -> "EnterResetApp"
    [] s = "GsResetApplication" -> "EnterResetCom"
    [] s = "GsResetCommunication" -> "EnterResetConfig"
    [] s = "GsResetConfiguration" -> "EnterCsNotActive"
    [] s = "CsPreOperational2" -> "EnterReadyToOperate"
    [] OTHER -> "none"

(* processGeneralStateChange and processCnStateChange: the event posted *)
Post(q, c) == IF AnswerTo(c.what) = "none" THEN q
              ELSE Append(q, [what |-> AnswerTo(c.what), age |-> c.age])

(* A bug that tests the properties: the timer survives a state change *)
BadTimerAfter(c) == IF c.what # "CsNotActive" THEN timer ELSE c.age

(* timeru_modifyTimer of processCnStateChange, after the timeru_deleteTimer of every change *)
TimerAfter(c) == IF c.what # "CsNotActive" THEN "off" ELSE c.age

(* A bug that tests the properties: the local state is stored after the callback, if at all *)
BadStateChange(c) ==
  /\ c.what \in NmtStates
  /\ \/ uk' = Post(uk, c) /\ timer' = TimerAfter(c) /\ owed' = owed /\ localNmtState' = c.what
     \/ c.what \in MayReject /\ uk' = uk /\ timer' = "off" /\ owed' = Post(owed, c) /\ localNmtState' = localNmtState

(* nmtu_processEvent: pfnNmtChangeCb leaves the rest to the module, or keeps it for itself *)
StateChange(c) ==
  /\ c.what \in NmtStates
  /\ localNmtState' = c.what
  /\ \/ uk' = Post(uk, c) /\ timer' = TimerAfter(c) /\ owed' = owed
     \/ c.what \in MayReject /\ uk' = uk /\ timer' = "off" /\ owed' = Post(owed, c)

(* commandCb of nmtcnu.c: a command that cbCnCheckEvent rejects is dropped *)
commandCb(c) ==
  /\ c.what \notin NmtStates
  /\ uk' = Append(uk, c) \/ uk' = uk
  /\ UNCHANGED <<localNmtState, timer, owed>>

UserThread ==
  /\ ku # <<>>
  /\ StateChange(Head(ku)) \/ commandCb(Head(ku))
  /\ ku' = Tail(ku)
  /\ UNCHANGED <<nmtk, kInt, resets, agreed, outrun>>

(* The timer expires; its event goes to the kernel without passing the user thread *)
TimerExpires ==
  /\ timer # "off"
  /\ uk' = Append(uk, [what |-> "TimerBasicEthernet", age |-> timer])
  /\ timer' = "off"
  /\ UNCHANGED <<nmtk, kInt, ku, localNmtState, owed, resets, agreed, outrun>>

(* The application gives the answer it has kept *)
ApplicationAnswers ==
  /\ owed # <<>>
  /\ uk' = Append(uk, Head(owed)) /\ owed' = Tail(owed)
  /\ UNCHANGED <<nmtk, kInt, ku, localNmtState, timer, resets, agreed, outrun>>

-----------------------------------------------------------------------------
(* The environment *)

Spend(e) == IF e \in Resets \union {"InternComError"} THEN resets > 0 /\ resets' = resets - 1 ELSE resets' = resets

(* dllk_processFrameReceived: PRes frames interest NMT up to PRE_OPERATIONAL_1 only *)
FramesOf(s) == IF s \in {"CsNotActive", "CsPreOperational1"} THEN Frames
               ELSE IF s \in Cs THEN Frames \ {"DllCePres"} ELSE {}

(* Frames and the faults that the error handler announces *)
KernelPosts(e) ==
  /\ Room
  /\ e \in FramesOf(nmtk.state) \union (IF nmtk.state \in Cs THEN Faults ELSE {})
  /\ Spend(e)
  /\ kInt' = Append(kInt, New(e))
  /\ UNCHANGED <<nmtk, uk, ku, localNmtState, timer, owed, agreed, outrun>>

(* An NMT command of the managing node *)
CommandArrives(e) ==
  /\ Room
  /\ nmtk.state \in Cs /\ e \in MnCommands \union Resets
  /\ Spend(e)
  /\ ku' = Append(ku, New(e))
  /\ UNCHANGED <<nmtk, kInt, uk, localNmtState, timer, owed, agreed, outrun>>

(* oplk_execNmtCommand *)
oplk_execNmtCommand(e) ==
  /\ Room
  /\ e \in Resets \union {"SwitchOff"}
  /\ Spend(e)
  /\ uk' = Append(uk, New(e))
  /\ UNCHANGED <<nmtk, kInt, ku, localNmtState, timer, owed, agreed, outrun>>

Environment == \E e \in NmtEvents : KernelPosts(e) \/ CommandArrives(e) \/ oplk_execNmtCommand(e)

Next == KernelInternal \/ KernelUser \/ UserThread \/ TimerExpires \/ ApplicationAnswers \/ Environment

Spec == Init /\ [][Next]_vars

(* The kernel thread takes events of the user part when it has none of its own; both threads run *)
FairSpec == Spec /\ WF_vars(KernelInternal) /\ WF_vars(kInt = <<>> /\ KernelUser) /\ WF_vars(UserThread)

-----------------------------------------------------------------------------
(* Types *)
TypeOK ==
  /\ nmtk \in Nmtk
  /\ kInt \in Seq(Queued(NmtEvents))
  /\ uk \in Seq(Queued(NmtEvents))
  /\ ku \in Seq(Queued(NmtStates \union NmtEvents))
  /\ localNmtState \in NmtStates
  /\ timer \in Ages \union {"off"}
  /\ owed \in Seq(Queued(Answers))
  /\ resets \in 0..MaxResets
  /\ agreed \subseteq Both
  /\ outrun \in BOOLEAN

(* The flags of PRE_OPERATIONAL_2 do not survive it on any way out that leads back to it: outside *)
(* of that state only the reset states may still hold one, and RESET_CONFIGURATION clears it.     *)
FlagsClean == nmtk.enable \/ nmtk.ready => nmtk.state \in {"CsPreOperational2", "GsOff"} \union GsReset

(* The node is ready only after the managing node and the user part have both spoken since it     *)
(* entered PRE_OPERATIONAL_2 the last time (NMT_CT5, NMT_CT6).                                    *)
ReadyEarned == nmtk.state \in {"CsReadyToOperate", "CsOperational"} => agreed = Both

(* The user part is never left behind: it has the state of the kernel, or will be told of it by   *)
(* the last state change in its queue.                                                            *)
Changes == {i \in DOMAIN ku : ku[i].what \in NmtStates}
Follows ==
  IF Changes = {} THEN localNmtState = nmtk.state
  ELSE \E i \in Changes : ku[i].what = nmtk.state /\ \A j \in Changes : j <= i

(* nmtk_process cannot tell an answer or a timer event from one for an earlier visit of the same  *)
(* state, yet only a node that is switched off and on again ahead of its user part can take one:  *)
(* before that no old event moves the kernel.  Excepted is EnterReadyToOperate, and assumed that  *)
(* the application keeps no other answer for itself (MayReject).                                  *)
NoStaleMove ==
  uk # <<>> /\ Head(uk).age = "old" /\ ~outrun
    /\ Head(uk).what \in ResetAnswers \union {"TimerBasicEthernet"}
    => NmtkStep(nmtk, Head(uk).what).state = nmtk.state

(* A reset always completes: kernel and user part answer each other until the node is active or   *)
(* off.                                                                                           *)
ResetCompletes == nmtk.state \in GsReset ~> nmtk.state \in Cs \union {"GsOff"}
=============================================================================
