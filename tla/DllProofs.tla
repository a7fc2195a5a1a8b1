----------------------------- MODULE DllProofs -----------------------------
(***************************************************************************)
(* Proofs about the data link layer: the cycle of a controlled node        *)
(* (CnCycle) and the scheduler of asynchronous requests of a managing node *)
(* (DllkCal).                                                              *)
(***************************************************************************)
EXTENDS CnCycle, DllkCal, FiniteSetTheorems, TLAPS

-----------------------------------------------------------------------------
(* The tables. *)

LEMMA TargetType ==
  ASSUME NEW s \in NmtStates, NEW e \in NmtEvents
  PROVE  Target(s, e) \in NmtStates
BY DEF Target, NmtStates, GsReset, Cs, CsCyclic

LEMMA StepType ==
  ASSUME NEW k \in Nmtk, NEW e \in NmtEvents
  PROVE  NmtkStep(k, e) \in Nmtk
<1>1. Target(k.state, e) \in NmtStates
  BY TargetType DEF Nmtk
<1>2. Clear(Target(k.state, e)) \in Nmtk
  BY <1>1 DEF Clear, Nmtk
<1>3. Clear("CsReadyToOperate") \in Nmtk
  BY DEF Clear, Nmtk, NmtStates, Cs, CsCyclic
<1>4. Agreement(k, e) \in Nmtk
  BY <1>3 DEF Agreement, Nmtk
<1>5. [k EXCEPT !.state = Target(k.state, e)] \in Nmtk
  BY <1>1 DEF Nmtk
<1> QED BY <1>2, <1>4, <1>5 DEF NmtkStep

LEMMA DllType ==
  ASSUME NEW d \in Dllk, NEW s \in NmtStates, NEW e \in DllFrames \union {"FrameTimeout"}
  PROVE  ChangeState(d, s, e) \in Dllk /\ ErrorsOf(d, s, e) \subseteq DllErrors
<1>1. NextDllState(d.state, s, e) \in DllStates
  BY DEF NextDllState, Dllk, DllStates, NmtStates, Cs, CsCyclic
<1>2. /\ SocMissed(d.state, s, e) \in BOOLEAN /\ TimedOut(d.state, s, e) \in BOOLEAN
      /\ d.reported \in BOOLEAN /\ d.timeout \in BOOLEAN
  BY DEF Dllk, SocMissed, TimedOut
<1> HIDE DEF NextDllState
<1>3. ChangeState(d, s, e) \in Dllk
  BY <1>1, <1>2 DEF ChangeState, Dllk
<1> QED BY <1>3 DEF ErrorsOf

Ready == {"CsReadyToOperate", "CsOperational"}
Waiting == {"CsWaitPreq", "CsWaitSoc", "CsWaitSoa"}

(* The table of a full cycle. *)
LEMMA FullCycle ==
  ASSUME NEW s \in Ready, NEW d \in Waiting
  PROVE  /\ NextDllState(d, s, "DllCeSoc") = "CsWaitPreq"
         /\ NextDllState(d, s, "DllCePreq") = IF d = "CsWaitPreq" THEN "CsWaitSoa" ELSE "CsWaitSoc"
         /\ NextDllState(d, s, "DllCeSoa") = "CsWaitSoc"
         /\ NextDllState(d, s, "DllCeAsnd") = d
         /\ NextDllState(d, s, "FrameTimeout") = "CsWaitSoc"
         /\ TimedOut(d, s, "FrameTimeout")
BY DEF Ready, Waiting, NextDllState, TimedOut, CsCyclic

-----------------------------------------------------------------------------
(* The invariant. *)

CycleType ==
  cycle \in [received : SUBSET (DllFrames \union {"FrameTimeout"}), socReports : Nat, preqReports : Nat,
             synced : BOOLEAN, steady : BOOLEAN]

(* A frame is only received in its slot. *)
SlotsPassed ==
  /\ slot = "DllCePreq" => "DllCePreq" \notin cycle.received
  /\ slot \in {"DllCePreq", "DllCeSoa"} => "DllCeSoa" \notin cycle.received /\ cycle.preqReports = 0

(* The flags of lossSocStatus remember the reports of this cycle. *)
Flags ==
  /\ dllk.timeout => dllk.reported
  /\ cycle.socReports > 0 => dllk.reported

(* What a node that has been in step with the managing node knows of this cycle. *)
InStep ==
  /\ nmtk.state \in Ready /\ timerOn /\ dllk.state \in Waiting
  /\ dllk.reported /\ ~dllk.timeout => due /\ cycle.socReports > 0
  /\ "DllCeSoc" \in cycle.received => ~due /\ ~short /\ cycle.socReports = 0
  /\ "DllCeSoc" \notin cycle.received => due \/ cycle.socReports > 0
  /\ "DllCeSoc" \in cycle.received =>
       /\ slot = "DllCePreq" => dllk.state = "CsWaitPreq"
       /\ slot = "DllCeSoa" =>
            dllk.state = IF "DllCePreq" \in cycle.received THEN "CsWaitSoa" ELSE "CsWaitPreq"
  /\ slot = "DllCeSoa" /\ "DllCePreq" \in cycle.received => dllk.state # "CsWaitPreq"
  /\ slot \in {"DllCeAsnd", "DllCeSoc"} =>
       /\ "DllCePreq" \in cycle.received => cycle.preqReports = 0
       /\ {"DllCeSoc", "DllCeSoa"} \subseteq cycle.received /\ "DllCePreq" \notin cycle.received
            => cycle.preqReports = 1

Synced == (cycle.steady => cycle.synced) /\ (cycle.synced => InStep)

Inv == TypeOK /\ CycleType /\ SlotsPassed /\ Flags /\ Synced

LEMMA InvImplies == Inv => SocLossReal /\ PreqLossReal
BY DEF Inv, Flags, Synced, InStep, SocLossReal, PreqLossReal, CycleDone, CycleType

-----------------------------------------------------------------------------
LEMMA InitInv == Init => Inv
<1> SUFFICES ASSUME Init PROVE Inv
  OBVIOUS
<1>1. nmtk \in Nmtk
  BY DEF Init, Clear, Nmtk, NmtStates, Cs
<1>2. dllk \in Dllk
  BY DEF Init, Dllk, DllStates
<1>3. losses \in 0..MaxLosses /\ commands \in 0..MaxCommands
  BY BoundsAssumption DEF Init
<1>4. kInt \in Seq([nmt : NmtEvents \union {"none"}, errors : SUBSET DllErrors])
  BY DEF Init
<1>5. TypeOK
  BY <1>1, <1>2, <1>3, <1>4 DEF Init, TypeOK, DllFrames, Frames
<1>6. CycleType /\ SlotsPassed /\ Flags /\ Synced
  BY DEF Init, CycleType, SlotsPassed, Flags, Synced
<1> QED BY <1>5, <1>6 DEF Inv

(* One event in driver context. *)
LEMMA DllEventType ==
  ASSUME TypeOK, CycleType, NEW e \in DllFrames \union {"FrameTimeout"}, DllEvent(e)
  PROVE  /\ dllk' \in Dllk
         /\ kInt' \in Seq([nmt : NmtEvents \union {"none"}, errors : SUBSET DllErrors])
<1> DEFINE Entry == [nmt : NmtEvents \union {"none"}, errors : SUBSET DllErrors]
           errs == ErrorsOf(dllk, nmtk.state, e)
           a == IF errs = {} THEN <<>> ELSE <<Reported(errs)>>
<1>1. dllk \in Dllk /\ nmtk.state \in NmtStates /\ kInt \in Seq(Entry)
  BY DEF TypeOK, Nmtk
<1>2. dllk' \in Dllk /\ errs \subseteq DllErrors
  BY <1>1, DllType DEF DllEvent
<1> HIDE DEF errs
<1>3. a \in Seq(Entry)
  <2>1. Reported(errs) \in Entry
    BY <1>2 DEF Reported
  <2>2. <<>> \in Seq(Entry) /\ <<Reported(errs)>> \in Seq(Entry)
    BY <2>1
  <2> QED BY <2>2
<1>4. e \notin {"DllCeAsnd", "FrameTimeout"} => Posted(e) \in Entry
  BY DEF Posted, DllFrames, Frames, NmtEvents
<1>5. PICK b \in Seq(Entry) : PostedBy(e) = a \o b
  <2>1. CASE PostedBy(e) = a \o <<>>
    <3>1. <<>> \in Seq(Entry)
      OBVIOUS
    <3> QED BY <2>1, <3>1
  <2>2. CASE PostedBy(e) = a \o <<Posted(e)>> /\ e \notin {"DllCeAsnd", "FrameTimeout"}
    <3>1. <<Posted(e)>> \in Seq(Entry)
      BY <1>4, <2>2
    <3> QED BY <2>2, <3>1
  <2> QED BY <2>1, <2>2 DEF PostedBy, errs
<1> HIDE DEF a, Entry
<1>6. a \o b \in Seq(Entry)
  BY <1>3, <1>5
<1>7. kInt \o (a \o b) \in Seq(Entry)
  BY <1>1, <1>6
<1> QED BY <1>2, <1>5, <1>7 DEF DllEvent, Entry

(* What the history of the cycle keeps of an event. *)
LEMMA NoteType ==
  ASSUME NEW c \in [received : SUBSET (DllFrames \union {"FrameTimeout"}), socReports : Nat, preqReports : Nat,
                    synced : BOOLEAN, steady : BOOLEAN],
         NEW e \in DllFrames \union {"FrameTimeout"}
  PROVE  /\ Note(c, e) \in [received : SUBSET (DllFrames \union {"FrameTimeout"}), socReports : Nat,
                            preqReports : Nat, synced : BOOLEAN, steady : BOOLEAN]
         /\ Note(c, e).received = c.received \union {e}
         /\ Note(c, e).socReports =
              c.socReports + (IF Triggers(dllk, nmtk.state, e) /\ c.socReports < 2 THEN 1 ELSE 0)
         /\ Note(c, e).preqReports = c.preqReports
              + (IF nmtk.state \in Ready /\ dllk.state = "CsWaitPreq" /\ e = "DllCeSoa" THEN 1 ELSE 0)
         /\ Note(c, e).synced = (c.synced \/ (nmtk.state \in Ready /\ dllk.state = "CsWaitSoc" /\ e = "DllCeSoc"))
         /\ Note(c, e).steady = c.steady
<1>1. /\ "LossSoc" \in ErrorsOf(dllk, nmtk.state, e) <=> Triggers(dllk, nmtk.state, e)
      /\ "LossPreq" \in ErrorsOf(dllk, nmtk.state, e)
           <=> nmtk.state \in Ready /\ dllk.state = "CsWaitPreq" /\ e = "DllCeSoa"
  BY DEF ErrorsOf, DllErrors, Ready
<1> DEFINE soc == IF "LossSoc" \in ErrorsOf(dllk, nmtk.state, e) /\ c.socReports < 2 THEN 1 ELSE 0
           preq == IF "LossPreq" \in ErrorsOf(dllk, nmtk.state, e) THEN 1 ELSE 0
           sync == nmtk.state \in Ready /\ dllk.state = "CsWaitSoc" /\ e = "DllCeSoc"
<1>2. Note(c, e) = [c EXCEPT !.received = @ \union {e}, !.socReports = @ + soc,
                             !.preqReports = @ + preq, !.synced = @ \/ sync]
  <2>1. c.socReports + soc = IF "LossSoc" \in ErrorsOf(dllk, nmtk.state, e) /\ c.socReports < 2
                             THEN c.socReports + 1 ELSE c.socReports
    OBVIOUS
  <2> QED BY <2>1 DEF Note, Steady, Ready
<1>3. soc \in Nat /\ preq \in Nat /\ sync \in BOOLEAN
  OBVIOUS
<1>4. /\ soc = IF Triggers(dllk, nmtk.state, e) /\ c.socReports < 2 THEN 1 ELSE 0
      /\ preq = IF nmtk.state \in Ready /\ dllk.state = "CsWaitPreq" /\ e = "DllCeSoa" THEN 1 ELSE 0
  BY <1>1
<1> HIDE DEF soc, preq, sync
<1>5. /\ Note(c, e).received = c.received \union {e}
      /\ Note(c, e).socReports = c.socReports + soc
      /\ Note(c, e).preqReports = c.preqReports + preq
      /\ Note(c, e).synced = (c.synced \/ sync)
      /\ Note(c, e).steady = c.steady
  BY <1>2
<1>6. Note(c, e) \in [received : SUBSET (DllFrames \union {"FrameTimeout"}), socReports : Nat,
                      preqReports : Nat, synced : BOOLEAN, steady : BOOLEAN]
  <2>1. (c.synced \/ sync) \in BOOLEAN /\ c.socReports + soc \in Nat /\ c.preqReports + preq \in Nat
        /\ c.received \union {e} \in SUBSET (DllFrames \union {"FrameTimeout"})
    BY <1>3
  <2> QED BY <1>2, <2>1
<1> QED BY <1>4, <1>5, <1>6 DEF sync

(* What one event does to the flags: a SoC where it is expected clears them, a frame out of order sets *)
(* the first, a timeout both.                                                                           *)
LEMMA EventFlags ==
  ASSUME TypeOK, NEW e \in DllFrames \union {"FrameTimeout"}, DllEvent(e)
  PROVE  LET missed == SocMissed(dllk.state, nmtk.state, e)
             timed == TimedOut(dllk.state, nmtk.state, e)
             valid == nmtk.state \in CsCyclic \ {"CsStopped"} /\ dllk.state = "CsWaitSoc" /\ e = "DllCeSoc"
         IN  /\ dllk'.state = NextDllState(dllk.state, nmtk.state, e)
             /\ dllk'.reported = (~valid /\ (dllk.reported \/ missed \/ timed))
             /\ dllk'.timeout = (~valid /\ (dllk.timeout \/ timed))
             /\ Triggers(dllk, nmtk.state, e)
                  = ((missed /\ ~dllk.reported) \/ (timed /\ (~dllk.reported \/ dllk.timeout)))
             /\ dllk.reported \in BOOLEAN /\ dllk.timeout \in BOOLEAN
             /\ missed \in BOOLEAN /\ timed \in BOOLEAN
             /\ e = "DllCeSoc" => ~missed /\ ~timed
             /\ e # "FrameTimeout" => ~timed
             /\ e = "FrameTimeout" => ~missed
BY DEF DllEvent, ChangeState, Triggers, SocMissed, TimedOut, TypeOK, Dllk

(* The slot behind each, and the history that a slot begins with. *)
Behind == [DllCeSoc |-> "DllCePreq", DllCePreq |-> "DllCeSoa", DllCeSoa |-> "DllCeAsnd",
           DllCeAsnd |-> "DllCeSoc"]
Begun(e) == IF e = "DllCeSoc" THEN NewCycle ELSE cycle

LEMMA SlotsAre ==
  Slots <=> \E e \in DllFrames \ {"DllCePres"} : (e = "DllCeSoc" => ~due) /\ Slot(e, Behind[e], Begun(e))
BY DEF Slots, SocSlot, PreqSlot, SoaSlot, AsndSlot, Behind, Begun, DllFrames, Frames

LEMMA BegunType ==
  ASSUME Inv, NEW e
  PROVE  /\ Begun(e) \in [received : SUBSET (DllFrames \union {"FrameTimeout"}), socReports : Nat,
                          preqReports : Nat, synced : BOOLEAN, steady : BOOLEAN]
         /\ Begun(e).synced = cycle.synced
         /\ Begun(e).steady => cycle.synced
         /\ e = "DllCeSoc" => Begun(e).received = {} /\ Begun(e).socReports = 0 /\ Begun(e).preqReports = 0
         /\ e # "DllCeSoc" => Begun(e) = cycle
<1>1. CASE e = "DllCeSoc"
  <2>1. cycle.synced \in BOOLEAN /\ Steady \in BOOLEAN
    BY DEF Inv, CycleType, Steady
  <2> QED BY <1>1, <2>1 DEF Begun, NewCycle
<1>2. CASE e # "DllCeSoc"
  BY <1>2 DEF Begun, Inv, CycleType, Synced
<1> QED BY <1>1, <1>2

(* A frame arrives at a node whose DLL processes it. *)
LEMMA ReceiveInv ==
  ASSUME Inv, NEW e \in DllFrames \ {"DllCePres"}, e = "DllCeSoc" => ~due,
         slot = e, slot' = Behind[e], nmtk.state \in Cs, FrameReceived(e, Begun(e)),
         due' = (due /\ e # "DllCeSoc"), UNCHANGED <<losses, silent, commands>>
  PROVE  Inv'
<1> DEFINE c == Begun(e)
           s == nmtk.state
<1>1. DllEvent(e) /\ timerOn' = (timerOn \/ e = "DllCeSoc") /\ cycle' = Note(c, e)
      /\ short' = (short /\ e # "DllCeSoc")
      /\ UNCHANGED <<nmtk, lossSoc, lossPreq, socErrorSeen>>
  BY DEF FrameReceived, DllEvent
<1>2. e \in DllFrames \union {"FrameTimeout"} /\ e # "FrameTimeout"
      /\ e \in {"DllCeSoc", "DllCePreq", "DllCeSoa", "DllCeAsnd"}
  BY DEF DllFrames, Frames
<1>3. TypeOK'
  <2>1. /\ dllk' \in Dllk
        /\ kInt' \in Seq([nmt : NmtEvents \union {"none"}, errors : SUBSET DllErrors])
    BY <1>1, <1>2, DllEventType DEF Inv
  <2>2. slot' \in DllFrames
    BY <1>2 DEF Behind, DllFrames, Frames
  <2> QED BY <1>1, <2>1, <2>2 DEF Inv, TypeOK
<1>4. /\ CycleType'
      /\ cycle'.received = c.received \union {e}
      /\ cycle'.socReports = c.socReports + (IF Triggers(dllk, s, e) /\ c.socReports < 2 THEN 1 ELSE 0)
      /\ cycle'.preqReports = c.preqReports
           + (IF s \in Ready /\ dllk.state = "CsWaitPreq" /\ e = "DllCeSoa" THEN 1 ELSE 0)
      /\ cycle'.synced = (c.synced \/ (s \in Ready /\ dllk.state = "CsWaitSoc" /\ e = "DllCeSoc"))
      /\ cycle'.steady = c.steady
  BY <1>1, <1>2, BegunType, NoteType DEF CycleType
<1>c. /\ c.synced = cycle.synced /\ (c.steady => cycle.synced) /\ c.socReports \in Nat /\ c.preqReports \in Nat
      /\ e = "DllCeSoc" => c.received = {} /\ c.socReports = 0 /\ c.preqReports = 0
      /\ e # "DllCeSoc" => c = cycle
  BY BegunType
<1> HIDE DEF c
<1>5. SlotsPassed'
  BY <1>2, <1>4, <1>c DEF SlotsPassed, Inv, Behind
<1>6. Flags'
  <2>1. CASE e = "DllCeSoc"
    BY <1>1, <1>2, <1>4, <1>c, <2>1, EventFlags DEF Inv, Flags
  <2>2. CASE e # "DllCeSoc"
    BY <1>1, <1>2, <1>4, <1>c, <2>2, EventFlags DEF Inv, Flags
  <2> QED BY <2>1, <2>2
<1>7. Synced'
  <2>1. cycle'.steady => cycle'.synced
    BY <1>4, <1>c
  <2>2. ASSUME cycle'.synced PROVE InStep'
    <3>1. s \in Ready /\ dllk.state \in Waiting /\ timerOn'
      BY <1>1, <1>4, <1>c, <2>2 DEF Inv, Synced, InStep, Waiting
    <3>2. dllk'.state \in Waiting /\ nmtk'.state \in Ready
      BY <1>1, <1>2, <3>1, FullCycle, EventFlags DEF Inv, Waiting
    <3>3. CASE e = "DllCeSoc"
      <4>1. ~(dllk'.reported /\ ~dllk'.timeout)
        BY <1>1, <1>2, <1>4, <1>c, <2>2, <3>1, <3>3, EventFlags DEF Inv, Synced, InStep, Ready, CsCyclic
      <4>2. ~due' /\ ~short' /\ cycle'.socReports = 0 /\ cycle'.received = {"DllCeSoc"} /\ slot' = "DllCePreq"
        BY <1>1, <1>2, <1>4, <1>c, <3>3, EventFlags DEF Inv, Behind
      <4>3. dllk'.state = "CsWaitPreq"
        BY <1>1, <1>2, <3>1, <3>3, FullCycle, EventFlags DEF Inv
      <4> QED BY <3>1, <3>2, <4>1, <4>2, <4>3 DEF InStep
    <3>4. CASE e # "DllCeSoc"
      <4>0. cycle.synced /\ c = cycle
        BY <1>4, <1>c, <2>2, <3>4
      <4>1. InStep /\ c = cycle /\ due' = due /\ short' = short
        <5>1. InStep
          BY <4>0 DEF Inv, Synced
        <5>2. /\ due \in BOOLEAN /\ due' = (due /\ e # "DllCeSoc")
              /\ short \in BOOLEAN /\ short' = (short /\ e # "DllCeSoc")
          BY <1>1 DEF Inv, TypeOK
        <5>3. due' = due /\ short' = short
          BY <3>4, <5>2
        <5> QED BY <4>0, <5>1, <5>3
      <4>2. /\ dllk'.reported = (dllk.reported \/ SocMissed(dllk.state, s, e))
            /\ dllk'.timeout = dllk.timeout
            /\ Triggers(dllk, s, e) = (SocMissed(dllk.state, s, e) /\ ~dllk.reported)
            /\ dllk.reported \in BOOLEAN /\ dllk.timeout \in BOOLEAN
            /\ SocMissed(dllk.state, s, e) \in BOOLEAN
            /\ dllk'.state = NextDllState(dllk.state, s, e)
        BY <1>1, <1>2, <3>4, EventFlags DEF Inv
      <4>3. SocMissed(dllk.state, s, e) => "DllCeSoc" \notin cycle.received
        BY <1>2, <3>1, <3>4, <4>1 DEF SocMissed, InStep
      <4>4. dllk'.reported /\ ~dllk'.timeout => due' /\ cycle'.socReports > 0
        <5>1. cycle.socReports > 0 => cycle'.socReports > 0
          BY <1>4, <4>1 DEF Inv, CycleType
        <5>2. CASE dllk.reported
          BY <4>1, <4>2, <5>1, <5>2 DEF InStep
        <5>3. CASE ~dllk.reported
          <6>1. cycle.socReports = 0
            BY <5>3 DEF Inv, Flags, CycleType
          <6>2. dllk'.reported => SocMissed(dllk.state, s, e) /\ cycle'.socReports > 0
            BY <1>4, <4>1, <4>2, <5>3, <6>1
          <6>3. "DllCeSoc" \notin cycle.received => due
            BY <4>1, <6>1 DEF InStep
          <6> QED BY <4>1, <4>3, <6>2, <6>3
        <5> QED BY <4>2, <5>2, <5>3
      <4>5. "DllCeSoc" \in cycle'.received => ~due' /\ ~short' /\ cycle'.socReports = 0
        BY <1>4, <3>4, <4>1, <4>2, <4>3 DEF InStep
      <4>6. "DllCeSoc" \notin cycle'.received => due' \/ cycle'.socReports > 0
        <5>1. cycle.socReports > 0 => cycle'.socReports > 0
          BY <1>4, <4>1 DEF Inv, CycleType
        <5>2. "DllCeSoc" \notin cycle.received => due \/ cycle.socReports > 0
          BY <4>1 DEF InStep
        <5>3. "DllCeSoc" \notin cycle'.received => "DllCeSoc" \notin cycle.received
          BY <1>4, <4>1
        <5> QED BY <4>1, <5>1, <5>2, <5>3
      <4>7. CASE e = "DllCePreq"
        <5>1. dllk'.state = IF dllk.state = "CsWaitPreq" THEN "CsWaitSoa" ELSE "CsWaitSoc"
          BY <3>1, <4>2, <4>7, FullCycle
        <5>2. slot' = "DllCeSoa" /\ cycle'.received = cycle.received \union {"DllCePreq"}
          BY <1>4, <4>1, <4>7 DEF Behind
        <5> QED BY <3>1, <3>2, <4>1, <4>4, <4>5, <4>6, <4>7, <5>1, <5>2 DEF InStep
      <4>8. CASE e = "DllCeSoa"
        <5>1. slot' = "DllCeAsnd" /\ cycle'.received = cycle.received \union {"DllCeSoa"}
          BY <1>4, <4>1, <4>8 DEF Behind
        <5>2. cycle'.preqReports = IF dllk.state = "CsWaitPreq" THEN 1 ELSE 0
          BY <1>4, <3>1, <4>1, <4>8 DEF Inv, SlotsPassed
        <5> QED BY <3>1, <3>2, <4>1, <4>4, <4>5, <4>6, <4>8, <5>1, <5>2 DEF InStep
      <4>9. CASE e = "DllCeAsnd"
        <5>1. slot' = "DllCeSoc" /\ cycle'.received = cycle.received \union {"DllCeAsnd"}
              /\ cycle'.preqReports = cycle.preqReports
          BY <1>4, <4>1, <4>9 DEF Behind, Inv, CycleType
        <5> QED BY <3>1, <3>2, <4>1, <4>4, <4>5, <4>6, <4>9, <5>1 DEF InStep
      <4> QED BY <1>2, <3>4, <4>7, <4>8, <4>9
    <3> QED BY <3>3, <3>4
  <2> QED BY <2>1, <2>2 DEF Synced
<1> QED BY <1>3, <1>4, <1>5, <1>6, <1>7 DEF Inv

(* The frame is lost, not sent, or the node's DLL does not process it. *)
LEMMA MissInv ==
  ASSUME Inv, NEW e \in DllFrames \ {"DllCePres"}, e = "DllCeSoc" => ~due,
         slot = e, slot' = Behind[e], cycle' = Begun(e), losses' \in 0..MaxLosses,
         \/ due' = (due \/ (e = "DllCeSoc" /\ timerOn))
         \/ ~cycle.synced /\ due' = (due /\ e # "DllCeSoc"),
         UNCHANGED <<node, short, silent, commands>>
  PROVE  Inv'
<1> DEFINE c == Begun(e)
<1>1. /\ e \in {"DllCeSoc", "DllCePreq", "DllCeSoa", "DllCeAsnd"} /\ cycle' = c
      /\ nmtk' = nmtk /\ dllk' = dllk /\ timerOn' = timerOn /\ kInt' = kInt
      /\ lossSoc' = lossSoc /\ lossPreq' = lossPreq /\ socErrorSeen' = socErrorSeen /\ short' = short
  BY DEF DllFrames, Frames, node
<1>c. /\ c.synced = cycle.synced /\ (c.steady => cycle.synced)
      /\ c \in [received : SUBSET (DllFrames \union {"FrameTimeout"}), socReports : Nat,
                preqReports : Nat, synced : BOOLEAN, steady : BOOLEAN]
      /\ e = "DllCeSoc" => c.received = {} /\ c.socReports = 0 /\ c.preqReports = 0
      /\ e # "DllCeSoc" => c = cycle
  BY BegunType
<1> HIDE DEF c
<1>2. TypeOK'
  <2>1. slot' \in DllFrames
    BY <1>1 DEF Behind, DllFrames, Frames
  <2>2. due' \in BOOLEAN /\ (due' \/ short => timerOn)
    BY DEF Inv, TypeOK
  <2> QED BY <1>1, <2>1, <2>2 DEF Inv, TypeOK
<1>3. CycleType'
  BY <1>1, <1>c DEF CycleType
<1>4. SlotsPassed'
  BY <1>1, <1>c DEF Inv, SlotsPassed, Behind
<1>5. Flags'
  BY <1>1, <1>c DEF Inv, Flags, TypeOK, Dllk
<1>6. Synced'
  <2>1. cycle'.steady => cycle'.synced
    BY <1>1, <1>c
  <2>2. ASSUME cycle'.synced PROVE InStep'
    <3>1. InStep /\ due' = (due \/ e = "DllCeSoc")
      BY <1>1, <1>c, <2>2 DEF Inv, Synced, InStep
    <3>2. CASE e = "DllCeSoc"
      BY <1>1, <1>c, <3>1, <3>2 DEF InStep, Behind
    <3>3. CASE e # "DllCeSoc"
      BY <1>1, <1>c, <3>1, <3>3 DEF InStep, Behind, Inv, SlotsPassed, TypeOK
    <3> QED BY <3>2, <3>3
  <2> QED BY <2>1, <2>2 DEF Synced
<1> QED BY <1>2, <1>3, <1>4, <1>5, <1>6 DEF Inv

LEMMA LosesType ==
  ASSUME TypeOK, NEW e, Lose(e)
  PROVE  losses' \in 0..MaxLosses
BY BoundsAssumption DEF TypeOK, Lose

(* A slot of the managing node *)
LEMMA SlotsInv == Inv /\ Slots => Inv'
<1> SUFFICES ASSUME Inv, Slots PROVE Inv'
  OBVIOUS
<1>1. PICK e \in DllFrames \ {"DllCePres"} : (e = "DllCeSoc" => ~due) /\ Slot(e, Behind[e], Begun(e))
  BY SlotsAre
<1>2. /\ slot = e /\ slot' = Behind[e] /\ UNCHANGED <<silent, commands>>
      /\ e = "DllCeSoc" => ~due
  BY <1>1 DEF Slot
<1>3. losses \in 0..MaxLosses
  BY DEF Inv, TypeOK
<1>4. CASE FrameReceived(e, Begun(e)) /\ due' = (due /\ e # "DllCeSoc") /\ UNCHANGED losses /\ nmtk.state \in Cs
  <2>1. FrameReceived(e, Begun(e)) /\ due' = (due /\ e # "DllCeSoc") /\ UNCHANGED <<losses, silent, commands>>
    BY <1>2, <1>4
  <2> QED BY <1>2, <1>4, <2>1, ReceiveInv
<1>5. CASE FrameReceived(e, Begun(e)) /\ due' = (due /\ e # "DllCeSoc") /\ UNCHANGED losses /\ nmtk.state \notin Cs
  <2>1. UNCHANGED <<node, short>> /\ cycle' = Begun(e)
    BY <1>5 DEF FrameReceived
  <2>2. ~cycle.synced
    BY <1>5 DEF Inv, Synced, InStep, Ready, Cs, CsCyclic
  <2>3. UNCHANGED <<node, short, silent, commands>> /\ losses' \in 0..MaxLosses
    BY <1>2, <1>3, <1>5, <2>1
  <2> QED BY <1>2, <1>5, <2>1, <2>2, <2>3, MissInv
<1>6. CASE Lose(e) /\ due' = (due \/ (e = "DllCeSoc" /\ timerOn)) /\ FrameFails(Begun(e))
  <2>1. losses' \in 0..MaxLosses
    BY <1>6, LosesType DEF Inv
  <2>2. UNCHANGED <<node, short, silent, commands>> /\ cycle' = Begun(e)
    BY <1>2, <1>6 DEF FrameFails
  <2> QED BY <1>2, <1>6, <2>1, <2>2, MissInv
<1> QED BY <1>1, <1>4, <1>5, <1>6 DEF Slot

-----------------------------------------------------------------------------
(* The frame timer: in a steady node it expires only in a cycle without a SoC, and then it reports *)
(* the loss unless a frame out of order already has.                                               *)
LEMMA TimeoutInv == Inv /\ FrameTimeout => Inv'
<1> SUFFICES ASSUME Inv, FrameTimeout PROVE Inv'
  OBVIOUS
<1> DEFINE e == "FrameTimeout"
           s == nmtk.state
           missed == SocMissed(dllk.state, s, e)
           timed == TimedOut(dllk.state, s, e)
<1>1. /\ due \/ short
      /\ due' = FALSE /\ short' = TRUE /\ DllEvent(e) /\ cycle' = Note(cycle, e)
      /\ UNCHANGED <<timerOn, nmtk, lossSoc, lossPreq, socErrorSeen, slot, silent, losses, commands>>
  BY DEF FrameTimeout, DllEvent, mn
<1>2. e \in DllFrames \union {"FrameTimeout"}
  OBVIOUS
<1>3. TypeOK'
  <2>1. /\ dllk' \in Dllk
        /\ kInt' \in Seq([nmt : NmtEvents \union {"none"}, errors : SUBSET DllErrors])
    BY <1>1, <1>2, DllEventType DEF Inv
  <2> QED BY <1>1, <2>1 DEF Inv, TypeOK
<1>4. /\ CycleType'
      /\ cycle'.received = cycle.received \union {e}
      /\ cycle'.socReports = cycle.socReports + (IF Triggers(dllk, s, e) /\ cycle.socReports < 2 THEN 1 ELSE 0)
      /\ cycle'.preqReports = cycle.preqReports
      /\ cycle'.synced = cycle.synced
      /\ cycle'.steady = cycle.steady
  BY <1>1, <1>2, NoteType DEF CycleType, Inv
<1>5. /\ dllk'.state = NextDllState(dllk.state, s, e)
      /\ dllk'.reported = (dllk.reported \/ timed)
      /\ dllk'.timeout = (dllk.timeout \/ timed)
      /\ Triggers(dllk, s, e) = (timed /\ (~dllk.reported \/ dllk.timeout))
      /\ dllk.reported \in BOOLEAN /\ dllk.timeout \in BOOLEAN /\ timed \in BOOLEAN
  <2>1. /\ dllk'.state = NextDllState(dllk.state, s, e)
        /\ dllk'.reported = (dllk.reported \/ missed \/ timed)
        /\ dllk'.timeout = (dllk.timeout \/ timed)
        /\ Triggers(dllk, s, e) = ((missed /\ ~dllk.reported) \/ (timed /\ (~dllk.reported \/ dllk.timeout)))
        /\ dllk.reported \in BOOLEAN /\ dllk.timeout \in BOOLEAN
        /\ missed \in BOOLEAN /\ timed \in BOOLEAN /\ ~missed
    BY <1>1, <1>2, EventFlags DEF Inv
  <2> HIDE DEF missed, timed
  <2> QED BY <2>1
<1>6. SlotsPassed'
  BY <1>1, <1>4 DEF Inv, SlotsPassed
<1>7. Flags'
  <2> HIDE DEF timed
  <2>1. dllk.timeout => dllk.reported
    BY DEF Inv, Flags
  <2>2. cycle.socReports \in Nat /\ (cycle.socReports > 0 => dllk.reported)
    BY DEF Inv, Flags, CycleType
  <2>3. cycle'.socReports > 0 => dllk'.reported
    <3>1. CASE Triggers(dllk, s, e)
      BY <1>5, <3>1
    <3>2. CASE ~Triggers(dllk, s, e)
      BY <1>4, <1>5, <2>2, <3>2
    <3> QED BY <3>1, <3>2
  <2> QED BY <1>5, <2>1, <2>3 DEF Flags
<1>8. Synced'
  <2>1. cycle'.steady => cycle'.synced
    BY <1>4 DEF Inv, Synced
  <2>2. ASSUME cycle'.synced PROVE InStep'
    <3>1. InStep
      BY <1>4, <2>2 DEF Inv, Synced
    <3>2. timed /\ dllk'.state = "CsWaitSoc"
      BY <1>5, <3>1, FullCycle DEF InStep
    <3>3. dllk'.reported /\ dllk'.timeout
      BY <1>5, <3>2
    <3>4. cycle'.socReports > 0
      <4>1. cycle.socReports = 0 => Triggers(dllk, s, e)
        BY <1>5, <3>1, <3>2 DEF InStep
      <4>2. cycle.socReports \in Nat
        BY DEF Inv, CycleType
      <4> QED BY <1>4, <4>1, <4>2
    <3>5. "DllCeSoc" \notin cycle'.received
      BY <1>1, <1>4, <3>1 DEF InStep
    <3>6. /\ "DllCePreq" \in cycle'.received <=> "DllCePreq" \in cycle.received
          /\ nmtk' = nmtk /\ timerOn' = timerOn /\ slot' = slot
      BY <1>1, <1>4
    <3> QED BY <1>1, <1>4, <3>1, <3>2, <3>3, <3>4, <3>5, <3>6 DEF InStep, Waiting
  <2> QED BY <2>1, <2>2 DEF Synced
<1> QED BY <1>3, <1>4, <1>6, <1>7, <1>8 DEF Inv

LEMMA StopsInv == Inv /\ MnStops => Inv'
<1> SUFFICES ASSUME Inv, MnStops PROVE Inv'
  OBVIOUS
<1>1. silent' = TRUE /\ UNCHANGED <<nmtk, dllk, timerOn, kInt, lossSoc, lossPreq, socErrorSeen,
                                    due, short, slot, losses, commands, cycle>>
  BY DEF MnStops, node
<1>2. TypeOK'
  BY <1>1 DEF Inv, TypeOK
<1> QED BY <1>1, <1>2 DEF Inv, CycleType, SlotsPassed, Flags, Synced, InStep

-----------------------------------------------------------------------------
(* The kernel thread *)

LEMMA HandleErrorsInv ==
  ASSUME Inv, kInt # <<>>, NEW errs, HandleErrors(errs), UNCHANGED mn
  PROVE  Inv'
<1> DEFINE Entry == [nmt : NmtEvents \union {"none"}, errors : SUBSET DllErrors]
<1>1. PICK logged \in BOOLEAN :
        /\ lossSoc' = (IF "LossSoc" \in errs THEN Count(lossSoc) ELSE lossSoc)
        /\ lossPreq' = (IF "LossPreq" \in errs THEN Count(lossPreq)
                        ELSE IF "RecvdPreq" \in errs THEN Less(lossPreq) ELSE lossPreq)
        /\ socErrorSeen' = (socErrorSeen \/ ("LossSoc" \in errs /\ Threshold > 0))
        /\ kInt' = Tail(kInt)
             \o (IF "LossSoc" \in errs /\ Exceeded(lossSoc) THEN <<Posted("NmtCycleError")>> ELSE <<>>)
             \o (IF "LossPreq" \in errs /\ Exceeded(lossPreq) /\ logged THEN <<Posted("NmtCycleError")>> ELSE <<>>)
        /\ UNCHANGED <<nmtk, dllk, timerOn, due, short, cycle>>
  BY DEF HandleErrors
<1>2. UNCHANGED <<slot, silent, losses, commands>>
  BY DEF mn
<1>3. lossSoc' \in Nat /\ lossPreq' \in Nat /\ socErrorSeen' \in BOOLEAN
  BY <1>1, BoundsAssumption DEF Count, Less, Inv, TypeOK
<1>4. kInt' \in Seq(Entry)
  <2>1. kInt \in Seq(Entry)
    BY DEF Inv, TypeOK
  <2>2. Posted("NmtCycleError") \in Entry
    BY DEF Posted, NmtEvents, Faults
  <2> HIDE DEF Entry
  <2>3. <<Posted("NmtCycleError")>> \in Seq(Entry) /\ <<>> \in Seq(Entry) /\ Tail(kInt) \in Seq(Entry)
    BY <2>1, <2>2
  <2>4. PICK a \in Seq(Entry), b \in Seq(Entry) : kInt' = Tail(kInt) \o a \o b
    BY <1>1, <2>3
  <2> QED BY <2>3, <2>4
<1>5. TypeOK'
  BY <1>1, <1>2, <1>3, <1>4 DEF Inv, TypeOK
<1> QED BY <1>1, <1>2, <1>5 DEF Inv, CycleType, SlotsPassed, Flags, Synced, InStep

(* A new NMT state: a node that stays ready keeps its timer and what it knows of the cycle. *)
LEMMA NmtEventInv ==
  ASSUME Inv, NEW e \in NmtEvents, NmtEvent(e), UNCHANGED slot, UNCHANGED silent,
         losses' \in 0..MaxLosses, commands' \in 0..MaxCommands,
         kInt' \in Seq([nmt : NmtEvents \union {"none"}, errors : SUBSET DllErrors])
  PROVE  Inv'
<1> DEFINE new == NmtkStep(nmtk, e)
           stops == StopsTimer(new.state)
<1>1. /\ nmtk' = new
      /\ timerOn' = (timerOn /\ ~stops)
      /\ due' = (due /\ ~stops) /\ short' = (short /\ ~stops)
      /\ cycle' = (IF new.state \in Ready THEN cycle ELSE [cycle EXCEPT !.synced = FALSE, !.steady = FALSE])
      /\ lossSoc' = (IF e = "DllCeSoa" /\ ~socErrorSeen THEN Less(lossSoc) ELSE lossSoc)
      /\ socErrorSeen' = (socErrorSeen /\ e # "DllCeSoa")
      /\ dllk' = dllk /\ lossPreq' = lossPreq
  BY DEF NmtEvent, Ready
<1>2. new \in Nmtk
  BY StepType DEF Inv, TypeOK
<1>3. stops \in BOOLEAN /\ (new.state \in Ready => ~stops)
  BY DEF StopsTimer, Ready, CsCyclic
<1> HIDE DEF new, stops
<1>4. TypeOK'
  <2>1. lossSoc' \in Nat /\ socErrorSeen' \in BOOLEAN
    BY <1>1 DEF Less, Inv, TypeOK
  <2>2. timerOn' \in BOOLEAN /\ due' \in BOOLEAN /\ short' \in BOOLEAN /\ (due' \/ short' => timerOn')
    BY <1>1, <1>3 DEF Inv, TypeOK
  <2> QED BY <1>1, <1>2, <2>1, <2>2 DEF Inv, TypeOK
<1>5. /\ CycleType' /\ cycle'.received = cycle.received /\ cycle'.socReports = cycle.socReports
      /\ cycle'.preqReports = cycle.preqReports
      /\ cycle'.synced => cycle.synced /\ new.state \in Ready
      /\ cycle'.steady => cycle.steady /\ new.state \in Ready /\ cycle'.synced = cycle.synced
  BY <1>1 DEF Inv, CycleType
<1>6. SlotsPassed'
  BY <1>5 DEF Inv, SlotsPassed
<1>7. Flags'
  BY <1>1, <1>5 DEF Inv, Flags
<1>8. Synced'
  <2>1. cycle'.steady => cycle'.synced
    BY <1>5 DEF Inv, Synced
  <2>2. ASSUME cycle'.synced PROVE InStep'
    <3>1. InStep /\ nmtk'.state \in Ready /\ timerOn' /\ due' = due /\ short' = short
      BY <1>1, <1>3, <1>5, <2>2 DEF Inv, Synced, InStep, TypeOK
    <3> QED BY <1>1, <1>5, <3>1 DEF InStep
  <2> QED BY <2>1, <2>2 DEF Synced
<1> QED BY <1>4, <1>5, <1>6, <1>7, <1>8 DEF Inv

LEMMA KernelInv == Inv /\ KernelThread => Inv'
<1> SUFFICES ASSUME Inv, KernelThread PROVE Inv'
  OBVIOUS
<1> DEFINE Entry == [nmt : NmtEvents \union {"none"}, errors : SUBSET DllErrors]
<1>1. kInt \in Seq(Entry) /\ kInt # <<>> /\ UNCHANGED mn /\ losses \in 0..MaxLosses /\ commands \in 0..MaxCommands
  BY DEF KernelThread, Inv, TypeOK
<1>2. CASE HandleErrors(Head(kInt).errors)
  BY <1>1, <1>2, HandleErrorsInv
<1>3. CASE Head(kInt).nmt # "none" /\ NmtEvent(Head(kInt).nmt) /\ kInt' = Tail(kInt)
  <2>1. Head(kInt) \in Entry
    <3> HIDE DEF Entry
    <3> QED BY <1>1
  <2>2. Head(kInt).nmt \in NmtEvents
    BY <1>3, <2>1
  <2> HIDE DEF Entry
  <2>3. kInt' \in Seq(Entry)
    BY <1>1, <1>3
  <2>4. UNCHANGED slot /\ UNCHANGED silent /\ losses' \in 0..MaxLosses /\ commands' \in 0..MaxCommands
    BY <1>1 DEF mn
  <2> QED BY <1>3, <2>2, <2>3, <2>4, NmtEventInv DEF Entry
<1> QED BY <1>2, <1>3 DEF KernelThread

LEMMA UserInv == Inv /\ (UserEvent \/ Command) => Inv'
<1> SUFFICES ASSUME Inv, UserEvent \/ Command PROVE Inv'
  OBVIOUS
<1>1. PICK e \in UserEvents \union MnCommands \union {"ResetConfig"} : NmtEvent(e)
  BY DEF UserEvent, Command
<1>2. e \in NmtEvents
  BY DEF UserEvents, NmtEvents, Answers, Resets
<1>3. UNCHANGED slot /\ UNCHANGED silent /\ kInt' = kInt
  BY DEF UserEvent, Command, mn
<1>4. losses' \in 0..MaxLosses /\ commands' \in 0..MaxCommands
  BY BoundsAssumption DEF UserEvent, Command, mn, Inv, TypeOK
<1>5. kInt' \in Seq([nmt : NmtEvents \union {"none"}, errors : SUBSET DllErrors])
  BY <1>3 DEF Inv, TypeOK
<1> QED BY <1>1, <1>2, <1>3, <1>4, <1>5, NmtEventInv

LEMMA StutterInv == Inv /\ UNCHANGED vars => Inv'
<1> SUFFICES ASSUME Inv, UNCHANGED vars PROVE Inv'
  OBVIOUS
<1>1. UNCHANGED <<nmtk, dllk, timerOn, kInt, lossSoc, lossPreq, socErrorSeen, due, short, slot, silent, losses,
                  commands, cycle>>
  BY DEF vars, node, mn
<1>2. TypeOK'
  BY <1>1 DEF Inv, TypeOK
<1> QED BY <1>1, <1>2 DEF Inv, CycleType, SlotsPassed, Flags, Synced, InStep

(***************************************************************************)
(* The loss flags of the DLL and the frame timer tell the same story as    *)
(* the frames of the cycle, since a SoC found the node waiting for it: a   *)
(* loss is reported or the timer is due, and nothing expires in a cycle    *)
(* with its SoC (Synced).                                                  *)
(***************************************************************************)
THEOREM CycleInvariant == Spec => []Inv
<1>1. Inv /\ [Next]_vars => Inv'
  BY SlotsInv, TimeoutInv, StopsInv, KernelInv, UserInv, StutterInv DEF Next
<1> QED BY <1>1, InitInv, PTL DEF Spec

(* Types: the threshold counters do not fall below 0, and the timer is only due while it runs. *)
THEOREM CycleTypeCorrect == Spec => []TypeOK
<1>1. Inv => TypeOK
  BY DEF Inv
<1> QED BY <1>1, CycleInvariant, PTL

(* In a steady node each SoC that was lost or failed is reported in its cycle, however late the frame *)
(* timer expires, however often, and whichever frames come out of order; and none that was taken up.  *)
THEOREM LossReported == Spec => []SocLossReal
BY CycleInvariant, InvImplies, PTL

(* A PReq lost between a SoC and a SoA that arrive is reported, one that arrived is not. *)
THEOREM PreqReported == Spec => []PreqLossReal
BY CycleInvariant, InvImplies, PTL

-----------------------------------------------------------------------------
(* DllkCal: types, and that what is counted for a node is in the queue, for any nodes and any *)
(* capacity of the queues.                                                                    *)

(* The entries of node n in a queue s *)
At(s, n) == {i \in DOMAIN s : s[i] = n}

(* The entries of a node in a queue are finitely many. *)
LEMMA AtFinite ==
  ASSUME NEW s \in Seq(Cn), NEW n
  PROVE  IsFiniteSet(At(s, n)) /\ Cardinality(At(s, n)) \in Nat
<1>1. IsFiniteSet(1 .. Len(s))
  BY FS_Interval
<1>2. At(s, n) \in SUBSET (1 .. Len(s))
  BY DEF At
<1> QED BY <1>1, <1>2, FS_Subset, FS_CardinalityType

(* A request appended is one entry more for its node and changes nothing for the others. *)
LEMMA AtAppend ==
  ASSUME NEW s \in Seq(Cn), NEW m \in Cn, NEW n \in Cn
  PROVE  Cardinality(At(Append(s, m), n)) = Cardinality(At(s, n)) + IF m = n THEN 1 ELSE 0
<1> DEFINE last == Len(s) + 1
<1>1. last \notin At(s, n)
  BY DEF At
<1>2. CASE m = n
  <2>1. At(Append(s, m), n) = At(s, n) \cup {last}
    BY <1>2 DEF At
  <2> QED BY <1>1, <1>2, <2>1, AtFinite, FS_AddElement
<1>3. CASE m # n
  <2>1. At(Append(s, m), n) = At(s, n)
    BY <1>3 DEF At
  <2> QED BY <1>3, <2>1, AtFinite
<1> QED BY <1>2, <1>3

(* The head taken from a queue is one entry less for its node and changes nothing for the others. *)
LEMMA AtTail ==
  ASSUME NEW s \in Seq(Cn), s # <<>>, NEW n \in Cn
  PROVE  Cardinality(At(s, n)) = Cardinality(At(Tail(s), n)) + IF Head(s) = n THEN 1 ELSE 0
<1> DEFINE f == [i \in At(s, n) \ {1} |-> i - 1]
<1>0. Tail(s) \in Seq(Cn) /\ Len(Tail(s)) = Len(s) - 1 /\ Head(s) = s[1] /\ 1 \in DOMAIN s
      /\ \A i \in DOMAIN Tail(s) : Tail(s)[i] = s[i + 1]
  OBVIOUS
<1>1. f \in Bijection(At(s, n) \ {1}, At(Tail(s), n))
  <2>1. \A i \in At(s, n) \ {1} : i - 1 \in At(Tail(s), n)
    BY <1>0 DEF At
  <2>2. \A j \in At(Tail(s), n) : j + 1 \in At(s, n) \ {1} /\ f[j + 1] = j
    BY <1>0 DEF At
  <2>3. \A i, j \in At(s, n) \ {1} : f[i] = f[j] => i = j
    BY DEF At
  <2> QED BY <2>1, <2>2, <2>3 DEF Bijection, Injection, Surjection, IsInjective
<1>2. Cardinality(At(Tail(s), n)) = Cardinality(At(s, n) \ {1})
  <2>1. IsFiniteSet(At(s, n) \ {1})
    BY AtFinite, FS_RemoveElement
  <2>2. ExistsBijection(At(s, n) \ {1}, At(Tail(s), n))
    BY <1>1 DEF ExistsBijection
  <2> QED BY <2>1, <2>2, FS_Bijection
<1>3. 1 \in At(s, n) <=> Head(s) = n
  BY <1>0 DEF At
<1>4. Cardinality(At(s, n) \ {1}) = IF Head(s) = n THEN Cardinality(At(s, n)) - 1 ELSE Cardinality(At(s, n))
  BY <1>3, AtFinite, FS_RemoveElement
<1> QED BY <1>2, <1>4, AtFinite

-----------------------------------------------------------------------------
(* A request counted for a node has an entry *)
BackedIn(s, k) == \A n \in Cn : k[n] <= Cardinality(At(s, n))

(* An entry that is lost with nothing counted for its node leaves all others backed. *)
LEMMA RestBacked ==
  ASSUME NEW s \in Seq(Cn), NEW k \in [Cn -> Nat], BackedIn(s, k),
         s # <<>> => k[Head(s)] = 0
  PROVE  BackedIn(Rest(s), k)
<1>1. CASE s = <<>>
  BY <1>1 DEF Rest
<1>2. CASE s # <<>>
  <2> SUFFICES ASSUME NEW n \in Cn PROVE k[n] <= Cardinality(At(Tail(s), n))
    BY <1>2 DEF Rest, BackedIn
  <2>1. Tail(s) \in Seq(Cn)
    BY <1>2
  <2>3. Cardinality(At(Tail(s), n)) \in Nat
    BY <2>1, AtFinite
  <2>2. k[n] <= Cardinality(At(s, n))
    BY DEF BackedIn
  <2> QED BY <1>2, <2>1, <2>2, <2>3, AtTail
<1> QED BY <1>1, <1>2

(* An entry that is granted takes a request off the count of its node. *)
LEMMA GrantBacked ==
  ASSUME NEW s \in Seq(Cn), NEW k \in [Cn -> Nat], BackedIn(s, k), s # <<>>, k[Head(s)] > 0
  PROVE  BackedIn(Tail(s), [k EXCEPT ![Head(s)] = @ - 1])
<1> SUFFICES ASSUME NEW n \in Cn
             PROVE  [k EXCEPT ![Head(s)] = @ - 1][n] <= Cardinality(At(Tail(s), n))
  BY DEF BackedIn
<1>1. Tail(s) \in Seq(Cn)
  OBVIOUS
<1>3. Cardinality(At(Tail(s), n)) \in Nat
  BY <1>1, AtFinite
<1>2. k[n] <= Cardinality(At(s, n))
  BY DEF BackedIn
<1> QED BY <1>1, <1>2, <1>3, AtTail

(* A new entry backs one more request of its node. *)
LEMMA AppendBacked ==
  ASSUME NEW s \in Seq(Cn), NEW k \in [Cn -> Nat], BackedIn(s, k), NEW m \in Cn
  PROVE  BackedIn(Append(s, m), [k EXCEPT ![m] = @ + 1])
<1> SUFFICES ASSUME NEW n \in Cn
             PROVE  [k EXCEPT ![m] = @ + 1][n] <= Cardinality(At(Append(s, m), n))
  BY DEF BackedIn
<1>1. k[n] <= Cardinality(At(s, n)) /\ Cardinality(At(s, n)) \in Nat
  BY AtFinite DEF BackedIn
<1> QED BY <1>1, AtAppend

-----------------------------------------------------------------------------
(* Type correctness *)

LEMMA SetAsyncType ==
  ASSUME CalTypeOK, NEW n \in Cn, NEW p \in Prio, NEW c \in Nat, SetAsyncPendingRequests(n, p, c)
  PROVE  /\ queue' \in [Queues -> Seq(Cn)] /\ \A q \in Queues : Len(queue'[q]) <= Capacity
         /\ count' \in [Prio -> [Cn -> Nat]]
<1>1. CASE count[p][n] < c /\ Len(queue[p]) < Capacity
  <2>1. queue' = [queue EXCEPT ![p] = Append(@, n)] /\ count' = [count EXCEPT ![p][n] = @ + 1]
    BY <1>1 DEF SetAsyncPendingRequests
  <2>2. p \in Queues /\ queue[p] \in Seq(Cn)
    BY DEF CalTypeOK, Queues
  <2>3. Append(queue[p], n) \in Seq(Cn) /\ Len(Append(queue[p], n)) = Len(queue[p]) + 1
    BY <2>2
  <2>4. Len(queue[p]) + 1 <= Capacity
    BY <1>1, <2>2, DllkCalAssumption
  <2> QED BY <2>1, <2>2, <2>3, <2>4 DEF CalTypeOK
<1>2. CASE ~(count[p][n] < c /\ Len(queue[p]) < Capacity)
  <2>1. UNCHANGED queue
    BY <1>2 DEF SetAsyncPendingRequests
  <2>2. count' = [count EXCEPT ![p][n] = c] \/ UNCHANGED count
    BY <1>2 DEF SetAsyncPendingRequests
  <2>3. count \in [Prio -> [Cn -> Nat]]
    BY DEF CalTypeOK
  <2>4. count' \in [Prio -> [Cn -> Nat]]
    BY <2>2, <2>3
  <2> QED BY <2>1, <2>4 DEF CalTypeOK
<1> QED BY <1>1, <1>2

LEMMA SoaType ==
  ASSUME CalTypeOK, NEW own \in BOOLEAN, NEW last \in 0 .. 5, GetSoaRequest(own, last)
  PROVE  /\ queue' \in [Queues -> Seq(Cn)] /\ \A q \in Queues : Len(queue'[q]) <= Capacity
         /\ count' \in [Prio -> [Cn -> Nat]]
         /\ nextRequestQueue' \in 0 .. 5
<1>1. \A s \in Seq(Cn) : Rest(s) \in Seq(Cn) /\ Len(Rest(s)) <= Len(s)
  BY DEF Rest
<1>2. queue' \in [Queues -> Seq(Cn)] /\ \A q \in Queues : Len(queue'[q]) <= Len(queue[q])
  BY <1>1 DEF GetSoaRequest, CalTypeOK
<1>3. \A q \in Queues : Len(queue'[q]) <= Capacity
  BY <1>2, DllkCalAssumption DEF CalTypeOK
<1>4. count' \in [Prio -> [Cn -> Nat]]
  <2>1. CASE Tried(last) \in Granting(own) \cap Prio
    <3> DEFINE p == Tried(last)  h == Head(queue[p])
    <3>1. p \in Prio /\ p \in Queues
      BY <2>1 DEF Queues
    <3>2. queue[p] # <<>> /\ count[p][h] > 0
      BY <2>1, <3>1, DllkCalAssumption DEF Granting, Prio
    <3>3. h \in Cn
      BY <3>1, <3>2 DEF CalTypeOK
    <3>4. count' = [count EXCEPT ![p][h] = @ - 1]
      BY <2>1 DEF GetSoaRequest, Granted
    <3> HIDE DEF p, h
    <3>5. count \in [Prio -> [Cn -> Nat]]
      BY DEF CalTypeOK
    <3>6. count[p][h] \in Nat
      BY <3>1, <3>3, <3>5
    <3>7. count[p][h] - 1 \in Nat
      BY <3>2, <3>6
    <3> QED BY <3>1, <3>3, <3>4, <3>5, <3>7
  <2>2. CASE Tried(last) \notin Granting(own) \cap Prio
    BY <2>2 DEF GetSoaRequest, CalTypeOK
  <2> QED BY <2>1, <2>2
<1>5. nextRequestQueue' \in 0 .. 5
  BY DEF GetSoaRequest, NextQueue, CalTypeOK
<1> QED BY <1>2, <1>3, <1>4, <1>5

LEMMA Flag2Type ==
  ASSUME CalTypeOK, NEW n \in Cn
  PROVE  Flag2Of(n) \in [prio : Prio, count : Nat]
BY DEF CalTypeOK, Flag2Of, NoRequest, Prio

LEMMA CalInitType == CalInit => CalTypeOK
<1> SUFFICES ASSUME CalInit PROVE CalTypeOK
  OBVIOUS
<1>1. queue \in [Queues -> Seq(Cn)] /\ \A q \in Queues : Len(queue[q]) <= Capacity
  BY DllkCalAssumption DEF CalInit
<1> QED BY <1>1, DllkCalAssumption DEF CalInit, CalTypeOK, NoRequest, Prio

LEMMA CalStepTypes == CalTypeOK /\ [CalNext]_calVars => CalTypeOK'
<1> SUFFICES ASSUME CalTypeOK, [CalNext]_calVars PROVE CalTypeOK'
  OBVIOUS
<1>1. ASSUME NEW n \in Cn, Report(n) PROVE CalTypeOK'
  <2>1. flag2[n].prio \in Prio /\ flag2[n].count \in Nat
    BY DEF CalTypeOK
  <2>2. /\ queue' \in [Queues -> Seq(Cn)] /\ \A q \in Queues : Len(queue'[q]) <= Capacity
        /\ count' \in [Prio -> [Cn -> Nat]]
    BY <1>1, <2>1, SetAsyncType DEF Report
  <2>3. flag2' \in [Cn -> [prio : Prio, count : Nat]]
    BY <1>1, Flag2Type DEF Report, CalTypeOK
  <2> QED BY <1>1, <2>2, <2>3 DEF Report, CalTypeOK
<1>2. ASSUME NEW n \in Cn, NEW p \in Prio, CnQueues(n, p) PROVE CalTypeOK'
  BY <1>2 DEF CnQueues, CalTypeOK
<1>3. ASSUME NEW s \in Service, NEW n \in Cn, IssueRequest(s, n) PROVE CalTypeOK'
  <2>1. s \in Queues /\ queue[s] \in Seq(Cn) /\ Len(queue[s]) < Capacity
    BY <1>3 DEF IssueRequest, Queues, CalTypeOK
  <2>2. Append(queue[s], n) \in Seq(Cn) /\ Len(Append(queue[s], n)) = Len(queue[s]) + 1
    BY <2>1
  <2>3. Len(queue[s]) + 1 <= Capacity
    BY <2>1, DllkCalAssumption
  <2>4. queue' = [queue EXCEPT ![s] = Append(@, n)]
    BY <1>3 DEF IssueRequest
  <2>5. queue' \in [Queues -> Seq(Cn)] /\ \A q \in Queues : Len(queue'[q]) <= Capacity
    BY <2>1, <2>2, <2>3, <2>4 DEF CalTypeOK
  <2> QED BY <1>3, <2>5 DEF IssueRequest, CalTypeOK
<1>4. ASSUME NEW own \in BOOLEAN, NEW last \in 0 .. 5, Invite(own, last) PROVE CalTypeOK'
  <2>1. /\ queue' \in [Queues -> Seq(Cn)] /\ \A q \in Queues : Len(queue'[q]) <= Capacity
        /\ count' \in [Prio -> [Cn -> Nat]] /\ nextRequestQueue' \in 0 .. 5
    BY <1>4, SoaType DEF Invite
  <2> DEFINE p == Tried(last)  h == Head(queue[p])
  <2>2. frames' \in [Prio -> [Cn -> Nat]]
    <3>1. CASE p \in Granting(own) \cap Prio /\ frames[p][h] > 0
      <4>1. p \in Prio /\ p \in Queues
        BY <3>1 DEF Queues
      <4>2. queue[p] # <<>>
        BY <3>1, <4>1, DllkCalAssumption DEF Granting, Prio
      <4>3. h \in Cn
        BY <4>1, <4>2 DEF CalTypeOK
      <4>4. frames' = [frames EXCEPT ![p][h] = @ - 1]
        BY <1>4, <3>1 DEF Invite
      <4>5. frames[p][h] > 0
        BY <3>1
      <4> HIDE DEF p, h
      <4> QED BY <4>1, <4>3, <4>4, <4>5 DEF CalTypeOK
    <3>2. CASE ~(p \in Granting(own) \cap Prio /\ frames[p][h] > 0)
      BY <1>4, <3>2 DEF Invite, CalTypeOK
    <3> QED BY <3>1, <3>2
  <2> QED BY <1>4, <2>1, <2>2 DEF Invite, CalTypeOK
<1>5. CASE ClearAsyncQueues
  <2>1. clears' \in 0 .. MaxClears
    BY <1>5, DllkCalAssumption DEF ClearAsyncQueues, CalTypeOK
  <2>2. queue' \in [Queues -> Seq(Cn)] /\ \A q \in Queues : Len(queue'[q]) <= Capacity
    BY <1>5, DllkCalAssumption DEF ClearAsyncQueues
  <2> QED BY <1>5, <2>1, <2>2 DEF ClearAsyncQueues, CalTypeOK
<1>6. CASE UNCHANGED calVars
  BY <1>6 DEF calVars, CalTypeOK
<1> QED BY <1>1, <1>2, <1>3, <1>4, <1>5, <1>6 DEF CalNext, Cns, User, SendSoa

(* Types: no queue holds more than its capacity, no count goes below 0. *)
THEOREM CalTypeCorrect == CalSpec => []CalTypeOK
BY CalInitType, CalStepTypes, PTL DEF CalSpec

-----------------------------------------------------------------------------
(* Backed *)

BackedAll == \A p \in Prio : BackedIn(queue[p], count[p])

LEMMA BackedMeans == Backed <=> (clears = 0 => BackedAll)
BY DEF Backed, BackedAll, BackedIn, EntriesOf, At

LEMMA SetAsyncBacked ==
  ASSUME CalTypeOK, BackedAll, NEW n \in Cn, NEW p \in Prio, NEW c \in Nat, SetAsyncPendingRequests(n, p, c)
  PROVE  BackedAll'
<1> SUFFICES ASSUME NEW q \in Prio PROVE BackedIn(queue'[q], count'[q])
  BY DEF BackedAll
<1>1. /\ queue[q] \in Seq(Cn) /\ count \in [Prio -> [Cn -> Nat]] /\ count[q] \in [Cn -> Nat]
      /\ queue \in [Queues -> Seq(Cn)] /\ q \in Queues /\ p \in Queues
      /\ BackedIn(queue[q], count[q])
  BY DEF CalTypeOK, Queues, BackedAll
<1>2. CASE count[p][n] < c /\ Len(queue[p]) < Capacity
  <2>1. queue' = [queue EXCEPT ![p] = Append(@, n)] /\ count' = [count EXCEPT ![p][n] = @ + 1]
    BY <1>2 DEF SetAsyncPendingRequests
  <2>2. CASE q = p
    <3>1. queue'[q] = Append(queue[q], n) /\ count'[q] = [count[q] EXCEPT ![n] = @ + 1]
      BY <1>1, <2>1, <2>2
    <3>2. BackedIn(Append(queue[q], n), [count[q] EXCEPT ![n] = @ + 1])
      BY <1>1, AppendBacked
    <3> QED BY <3>1, <3>2, Zenon
  <2>3. CASE q # p
    BY <1>1, <2>1, <2>3
  <2> QED BY <2>2, <2>3
<1>3. CASE ~(count[p][n] < c /\ Len(queue[p]) < Capacity)
  <2>1. queue' = queue
    BY <1>3 DEF SetAsyncPendingRequests
  <2>2. CASE count' = count
    BY <1>1, <2>1, <2>2
  <2>3. CASE count' = [count EXCEPT ![p][n] = c] /\ ~(count[p][n] < c)
    <3>1. \A m \in Cn : count'[q][m] <= count[q][m]
      BY <1>1, <2>3
    <3>2. \A m \in Cn : count'[q][m] \in Nat
      BY <1>1, <2>3
    <3> SUFFICES ASSUME NEW m \in Cn PROVE count'[q][m] <= Cardinality(At(queue[q], m))
      BY <2>1 DEF BackedIn
    <3>3. count[q][m] <= Cardinality(At(queue[q], m)) /\ Cardinality(At(queue[q], m)) \in Nat
      BY <1>1, AtFinite DEF BackedIn
    <3>4. count[q][m] \in Nat
      BY <1>1
    <3> QED BY <3>1, <3>2, <3>3, <3>4
  <2> QED BY <1>3, <2>2, <2>3 DEF SetAsyncPendingRequests
<1> QED BY <1>2, <1>3

(* An entry lost on the way to the queue that grants has nothing counted for its node. *)
LEMMA SoaBacked ==
  ASSUME CalTypeOK, BackedAll, NEW own \in BOOLEAN, NEW last \in 0 .. 5, GetSoaRequest(own, last)
  PROVE  BackedAll'
<1> SUFFICES ASSUME NEW q \in Prio PROVE BackedIn(queue'[q], count'[q])
  BY DEF BackedAll
<1>1. /\ queue[q] \in Seq(Cn) /\ count \in [Prio -> [Cn -> Nat]] /\ count[q] \in [Cn -> Nat] /\ q \in Queues
      /\ BackedIn(queue[q], count[q])
  BY DEF CalTypeOK, Queues, BackedAll
<1>2. queue'[q] = IF \E k \in 0 .. last : Tried(k) = q THEN Rest(queue[q]) ELSE queue[q]
  BY <1>1 DEF GetSoaRequest
<1>3. q \in Granting(own) <=> queue[q] # <<>> /\ count[q][Head(queue[q])] > 0
  BY DllkCalAssumption DEF Granting, Prio
<1>4. CASE Tried(last) = q /\ q \in Granting(own)
  <2>1. queue'[q] = Tail(queue[q])
    BY <1>2, <1>3, <1>4 DEF Rest
  <2>2. count' = [count EXCEPT ![q][Head(queue[q])] = @ - 1]
    BY <1>4 DEF GetSoaRequest, Granted
  <2>3. count'[q] = [count[q] EXCEPT ![Head(queue[q])] = @ - 1]
    BY <1>1, <2>2
  <2>4. BackedIn(Tail(queue[q]), [count[q] EXCEPT ![Head(queue[q])] = @ - 1])
    BY <1>1, <1>3, <1>4, GrantBacked
  <2> QED BY <2>1, <2>3, <2>4, Zenon
<1>5. CASE ~(Tried(last) = q /\ q \in Granting(own))
  <2>1. count'[q] = count[q]
    BY <1>1, <1>5 DEF GetSoaRequest, Granted
  <2>2. CASE \E k \in 0 .. last : Tried(k) = q
    <3>1. q \notin Granting(own)
      BY <1>5, <2>2 DEF GetSoaRequest
    <3>2. queue[q] # <<>> => count[q][Head(queue[q])] = 0
      BY <1>1, <1>3, <3>1
    <3> QED BY <1>1, <1>2, <2>1, <2>2, <3>2, RestBacked
  <2>3. CASE ~\E k \in 0 .. last : Tried(k) = q
    BY <1>1, <1>2, <2>1, <2>3
  <2> QED BY <2>2, <2>3
<1> QED BY <1>4, <1>5

LEMMA InitBacked == CalInit => (clears = 0 => BackedAll)
<1> SUFFICES ASSUME CalInit, NEW p \in Prio, NEW n \in Cn PROVE count[p][n] <= Cardinality(At(queue[p], n))
  BY DEF BackedAll, BackedIn
<1>1. queue[p] = <<>> /\ count[p][n] = 0
  BY DEF CalInit, Queues
<1>2. <<>> \in Seq(Cn)
  OBVIOUS
<1>3. Cardinality(At(<<>>, n)) \in Nat
  BY <1>2, AtFinite
<1> QED BY <1>1, <1>3

LEMMA StepBacked ==
  CalTypeOK /\ (clears = 0 => BackedAll) /\ [CalNext]_calVars => (clears = 0 => BackedAll)'
<1> SUFFICES ASSUME CalTypeOK, clears = 0 => BackedAll, [CalNext]_calVars, clears' = 0 PROVE BackedAll'
  OBVIOUS
<1>1. ASSUME NEW n \in Cn, Report(n) PROVE BackedAll'
  <2>1. flag2[n].prio \in Prio /\ flag2[n].count \in Nat
    BY DEF CalTypeOK
  <2>2. BackedAll /\ SetAsyncPendingRequests(n, flag2[n].prio, flag2[n].count)
    BY <1>1 DEF Report
  <2> QED BY <2>1, <2>2, SetAsyncBacked
<1>2. ASSUME NEW n \in Cn, NEW p \in Prio, CnQueues(n, p) PROVE BackedAll'
  BY <1>2 DEF CnQueues, BackedAll
<1>3. ASSUME NEW s \in Service, NEW n \in Cn, IssueRequest(s, n) PROVE BackedAll'
  <2>1. s \notin Prio
    BY DllkCalAssumption DEF Prio
  <2>2. \A q \in Prio : queue'[q] = queue[q]
    BY <1>3, <2>1 DEF IssueRequest, CalTypeOK, Queues
  <2> QED BY <1>3, <2>2 DEF IssueRequest, BackedAll
<1>4. ASSUME NEW own \in BOOLEAN, NEW last \in 0 .. 5, Invite(own, last) PROVE BackedAll'
  BY <1>4, SoaBacked DEF Invite
<1>5. CASE ClearAsyncQueues
  BY <1>5 DEF ClearAsyncQueues, CalTypeOK
<1>6. CASE UNCHANGED calVars
  BY <1>6 DEF calVars, BackedAll
<1> QED BY <1>1, <1>2, <1>3, <1>4, <1>5, <1>6 DEF CalNext, Cns, User, SendSoa

(* Until a reduced cycle clears the queues, each request counted for a node has its entry: the lookups *)
(* that drop entries whose requests are gone never drop one that is needed.                            *)
THEOREM RequestsBacked == CalSpec => []Backed
<1>1. CalInit => CalTypeOK /\ (clears = 0 => BackedAll)
  BY CalInitType, InitBacked
<1>2. CalTypeOK /\ (clears = 0 => BackedAll) /\ [CalNext]_calVars => CalTypeOK' /\ (clears = 0 => BackedAll)'
  BY CalStepTypes, StepBacked
<1> QED BY <1>1, <1>2, BackedMeans, PTL DEF CalSpec
=============================================================================
