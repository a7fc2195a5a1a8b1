----------------------------- MODULE NmtCnProofs -----------------------------
(***************************************************************************)
(* Proofs about NmtCn: types, the flags of PRE_OPERATIONAL_2, the          *)
(* agreement that makes a node ready, and the user part that follows the   *)
(* kernel, for queues of any length and any number of resets.              *)
(***************************************************************************)
EXTENDS NmtCn, TLAPS

-----------------------------------------------------------------------------
(* The state table *)

(* Every entry of the table leads to a state. *)
LEMMA TargetType ==
  ASSUME NEW s \in NmtStates, NEW e \in NmtEvents
  PROVE  Target(s, e) \in NmtStates
BY DEF Target, NmtStates, GsReset, Cs, CsCyclic

(* Outside of PRE_OPERATIONAL_2 only StartNode leads between the two ready states, and nothing *)
(* leads into them from elsewhere.                                                            *)
LEMMA TargetReady ==
  ASSUME NEW s \in NmtStates, NEW e \in NmtEvents, Target(s, e) \in {"CsReadyToOperate", "CsOperational"}
  PROVE  s \in {"CsReadyToOperate", "CsOperational"}
BY DEF Target, NmtStates, GsReset, Cs, CsCyclic

(* The ways out of the states that may hold a flag, into those that may not. *)
LEMMA TargetClean ==
  ASSUME NEW s \in {"CsPreOperational2", "GsOff"} \union GsReset, NEW e \in NmtEvents,
         Target(s, e) \notin {"CsPreOperational2", "GsOff"} \union GsReset
  PROVE  \/ s = "GsResetConfiguration"
         \/ s = "CsPreOperational2" /\ e \in {"StopNode", "NmtCycleError"}
BY DEF Target, GsReset, Cs, CsCyclic

(* PRE_OPERATIONAL_2 is not entered from OFF or a reset state. *)
LEMMA TargetPreOp2 ==
  ASSUME NEW s \in {"GsOff"} \union GsReset, NEW e \in NmtEvents
  PROVE  Target(s, e) # "CsPreOperational2"
BY DEF Target, GsReset, Cs, CsCyclic

HasFlag(k) == k.enable \/ k.ready
Keeps == {"CsPreOperational2", "GsOff"} \union GsReset

(* nmtk.c keeps its instance well typed. *)
LEMMA StepType ==
  ASSUME NEW k \in Nmtk, NEW e \in NmtEvents
  PROVE  NmtkStep(k, e) \in Nmtk
<1>1. Target(k.state, e) \in NmtStates
  BY TargetType DEF Nmtk
<1>2. Clear(Target(k.state, e)) \in Nmtk
  BY <1>1 DEF Clear, Nmtk
<1>3. Clear("CsReadyToOperate") \in Nmtk
  BY DEF Clear, Nmtk, NmtStates, Cs, CsCyclic
<1>4. Agreement(k, e) \in Nmtk
  BY <1>3 DEF Agreement, Nmtk
<1>5. [k EXCEPT !.state = Target(k.state, e)] \in Nmtk
  BY <1>1 DEF Nmtk
<1> QED BY <1>2, <1>4, <1>5 DEF NmtkStep

(* No flag leaves the states that may hold one. *)
LEMMA StepClean ==
  ASSUME NEW k \in Nmtk, NEW e \in NmtEvents,
         HasFlag(k) => k.state \in Keeps
  PROVE  HasFlag(NmtkStep(k, e)) => NmtkStep(k, e).state \in Keeps
<1>1. CASE k.state = "CsPreOperational2" /\ e \in {"EnterReadyToOperate", "EnableReadyToOperate"}
  BY <1>1 DEF NmtkStep, Agreement, Clear, HasFlag, Keeps, Nmtk
<1>2. CASE k.state = "CsPreOperational2" /\ e \in {"StopNode", "NmtCycleError"}
  BY <1>2 DEF NmtkStep, Clear, HasFlag
<1>3. CASE k.state = "GsResetConfiguration"
  BY <1>3 DEF NmtkStep, Clear, HasFlag
<1>4. CASE ~HasFlag(k) /\ ~(k.state = "CsPreOperational2" /\ e \in {"EnterReadyToOperate", "EnableReadyToOperate"})
  BY <1>4 DEF NmtkStep, Clear, HasFlag, Nmtk
<1>5. CASE /\ HasFlag(k) /\ k.state # "GsResetConfiguration"
           /\ ~(k.state = "CsPreOperational2" /\ e \in {"EnterReadyToOperate", "EnableReadyToOperate", "StopNode", "NmtCycleError"})
  <2>1. NmtkStep(k, e) = [k EXCEPT !.state = Target(k.state, e)]
    BY <1>5 DEF NmtkStep
  <2>2. Target(k.state, e) \in Keeps
    BY <1>5, TargetClean DEF Keeps
  <2> QED BY <2>1, <2>2 DEF Nmtk
<1> QED BY <1>1, <1>2, <1>3, <1>4, <1>5

(* A node becomes ready by the second of the two events, with the flag of the first. *)
LEMMA StepReady ==
  ASSUME NEW k \in Nmtk, NEW e \in NmtEvents,
         NmtkStep(k, e).state \in {"CsReadyToOperate", "CsOperational"}
  PROVE  \/ k.state \in {"CsReadyToOperate", "CsOperational"}
         \/ /\ k.state = "CsPreOperational2"
            /\ \/ k.enable /\ e = "EnterReadyToOperate"
               \/ k.ready /\ e = "EnableReadyToOperate"
<1>1. CASE k.state = "CsPreOperational2" /\ e \in {"EnterReadyToOperate", "EnableReadyToOperate"}
  BY <1>1 DEF NmtkStep, Agreement, Clear, Nmtk
<1>2. CASE ~(k.state = "CsPreOperational2" /\ e \in {"EnterReadyToOperate", "EnableReadyToOperate"})
  <2>1. NmtkStep(k, e).state = Target(k.state, e)
    BY <1>2 DEF NmtkStep, Clear, Nmtk
  <2>2. k.state \in NmtStates
    BY DEF Nmtk
  <2> QED BY <2>1, <2>2, TargetReady
<1> QED BY <1>1, <1>2

(* In PRE_OPERATIONAL_2 a flag is set by its event only, and is clear on entry. *)
LEMMA StepSpoken ==
  ASSUME NEW k \in Nmtk, NEW e \in NmtEvents,
         HasFlag(k) => k.state \in Keeps,
         NmtkStep(k, e).state = "CsPreOperational2"
  PROVE  /\ NmtkStep(k, e).enable => k.state = "CsPreOperational2" /\ (k.enable \/ e = "EnableReadyToOperate")
         /\ NmtkStep(k, e).ready => k.state = "CsPreOperational2" /\ (k.ready \/ e = "EnterReadyToOperate")
<1>1. CASE k.state = "CsPreOperational2" /\ e \in {"EnterReadyToOperate", "EnableReadyToOperate"}
  BY <1>1 DEF NmtkStep, Agreement, Clear, Nmtk
<1>2. CASE k.state = "CsPreOperational2" /\ e \notin {"EnterReadyToOperate", "EnableReadyToOperate"}
  BY <1>2 DEF NmtkStep, Clear, Nmtk
<1>3. CASE k.state # "CsPreOperational2"
  <2>1. NmtkStep(k, e).state = Target(k.state, e)
    BY <1>3 DEF NmtkStep, Clear, Nmtk
  <2>2. k.state \notin {"GsOff"} \union GsReset
    BY <2>1, TargetPreOp2
  <2>3. ~HasFlag(k)
    BY <1>3, <2>2 DEF Keeps
  <2> QED BY <1>3, <2>3 DEF NmtkStep, Clear, HasFlag, Nmtk
<1> QED BY <1>1, <1>2, <1>3

-----------------------------------------------------------------------------
(* The invariant *)

(* A flag in PRE_OPERATIONAL_2 stands for an event of this visit *)
Spoken ==
  nmtk.state = "CsPreOperational2" =>
    /\ nmtk.enable => "EnableReadyToOperate" \in agreed
    /\ nmtk.ready => "EnterReadyToOperate" \in agreed

Control == FlagsClean /\ Spoken /\ ReadyEarned
Inv == TypeOK /\ Control /\ Follows

(* Ageing changes neither the events of a queue nor their order. *)
LEMMA AgeType ==
  ASSUME NEW W, NEW q \in Seq(Queued(W)), NEW s
  PROVE  /\ Age(q, s) \in Seq(Queued(W))
         /\ DOMAIN Age(q, s) = DOMAIN q
         /\ \A i \in DOMAIN q : Age(q, s)[i].what = q[i].what
<1>1. \A i \in DOMAIN q : q[i] \in Queued(W)
  OBVIOUS
<1>2. \A i \in DOMAIN q : Age(q, s)[i] \in Queued(W) /\ Age(q, s)[i].what = q[i].what
  BY <1>1 DEF Age, Older, Queued, Ages
<1>3. DOMAIN Age(q, s) = 1..Len(q)
  BY DEF Age
<1> QED BY <1>2, <1>3 DEF Age

(* What a thread finds in its queue, and what is left. *)
LEMMA HeadTail ==
  ASSUME NEW W, NEW q \in Seq(Queued(W)), q # <<>>
  PROVE  Head(q) \in Queued(W) /\ Tail(q) \in Seq(Queued(W))
OBVIOUS

(* An event is never taken for a state change. *)
LEMMA Disjoint == NmtEvents \intersect NmtStates = {}
BY DEF NmtEvents, NmtStates, MnCommands, Resets, Answers, Frames, Faults, GsReset, Cs, CsCyclic

(* The answers of the user part are events. *)
LEMMA PostType ==
  ASSUME NEW c \in Queued(NmtStates), NEW q \in Seq(Queued(NmtEvents))
  PROVE  Post(q, c) \in Seq(Queued(NmtEvents))
<1>1. AnswerTo(c.what) \in Answers \union {"none"}
  BY DEF AnswerTo, Answers
<1>2. Answers \subseteq NmtEvents
  BY DEF NmtEvents
<1>3. CASE AnswerTo(c.what) # "none"
  <2>1. [what |-> AnswerTo(c.what), age |-> c.age] \in Queued(NmtEvents)
    BY <1>1, <1>2, <1>3 DEF Queued
  <2> QED BY <1>3, <2>1 DEF Post
<1> QED BY <1>3 DEF Post

(* So are those that the application has kept. *)
LEMMA OwedType ==
  ASSUME NEW c \in Queued(NmtStates), NEW q \in Seq(Queued(Answers))
  PROVE  Post(q, c) \in Seq(Queued(Answers))
<1>1. AnswerTo(c.what) \in Answers \union {"none"}
  BY DEF AnswerTo, Answers
<1>2. CASE AnswerTo(c.what) # "none"
  <2>1. [what |-> AnswerTo(c.what), age |-> c.age] \in Queued(Answers)
    BY <1>1, <1>2 DEF Queued
  <2> QED BY <1>2, <2>1 DEF Post
<1> QED BY <1>2 DEF Post

-----------------------------------------------------------------------------
(* The user part follows *)

Told(q, local, s) ==
  LET C == {i \in DOMAIN q : q[i].what \in NmtStates}
  IN IF C = {} THEN local = s ELSE \E i \in C : q[i].what = s /\ \A j \in C : j <= i

LEMMA FollowsIsTold == Follows <=> Told(ku, localNmtState, nmtk.state)
BY DEF Follows, Changes, Told

(* A state change that is announced last tells the user part. *)
LEMMA ToldOfMove ==
  ASSUME NEW W, NEW q \in Seq(W), NEW x, x.what \in NmtStates, NEW local
  PROVE  Told(Append(q, x), local, x.what)
<1> DEFINE r == Append(q, x)
<1>1. DOMAIN r = 1..(Len(q) + 1) /\ r[Len(q) + 1] = x /\ Len(q) \in Nat
  OBVIOUS
<1>2. Len(q) + 1 \in {i \in DOMAIN r : r[i].what \in NmtStates}
  BY <1>1
<1>3. \A j \in {i \in DOMAIN r : r[i].what \in NmtStates} : j <= Len(q) + 1
  BY <1>1
<1> QED BY <1>1, <1>2, <1>3 DEF Told

(* A command behind the state changes does not hide them. *)
LEMMA ToldBehind ==
  ASSUME NEW W, NEW q \in Seq(W), NEW x, x.what \notin NmtStates, NEW local, NEW s,
         Told(q, local, s)
  PROVE  Told(Append(q, x), local, s)
<1> DEFINE r == Append(q, x)
<1>1. /\ DOMAIN r = 1..(Len(q) + 1) /\ DOMAIN q = 1..Len(q) /\ Len(q) \in Nat
      /\ r[Len(q) + 1] = x /\ \A i \in DOMAIN q : r[i] = q[i]
  OBVIOUS
<1>2. {i \in DOMAIN r : r[i].what \in NmtStates} = {i \in DOMAIN q : q[i].what \in NmtStates}
  BY <1>1
<1> QED BY <1>1, <1>2 DEF Told

(* Taking the first entry: a state change sets the local state, a command leaves it. *)
LEMMA ToldAfterHead ==
  ASSUME NEW W, NEW q \in Seq(W), q # <<>>, NEW local, NEW s, Told(q, local, s),
         NEW after, after = IF Head(q).what \in NmtStates THEN Head(q).what ELSE local
  PROVE  Told(Tail(q), after, s)
<1> DEFINE r == Tail(q)
           n == Len(q)
           C == {i \in DOMAIN q : q[i].what \in NmtStates}
           D == {i \in DOMAIN r : r[i].what \in NmtStates}
<1>1. n \in Nat /\ n >= 1 /\ DOMAIN q = 1..n /\ DOMAIN r = 1..(n - 1) /\ Head(q) = q[1]
      /\ \A i \in 1..(n - 1) : r[i] = q[i + 1]
  OBVIOUS
<1> HIDE DEF n, r
<1>2. \A i \in D : i + 1 \in C
  BY <1>1
<1>3. \A i \in C : i # 1 => i - 1 \in D
  <2> TAKE i \in C
  <2> HAVE i # 1
  <2>1. i - 1 \in 1..(n - 1) /\ (i - 1) + 1 = i
    BY <1>1
  <2> QED BY <1>1, <2>1
<1>4. CASE D = {}
  <2>1. C \subseteq {1}
    BY <1>3, <1>4
  <2>2. CASE C = {}
    <3>1. Head(q).what \notin NmtStates
      BY <1>1, <2>2
    <3>2. local = s
      BY <2>2 DEF Told
    <3> QED BY <1>4, <3>1, <3>2 DEF Told, r
  <2>3. CASE C = {1}
    <3>1. q[1].what = s /\ q[1].what \in NmtStates
      BY <2>3 DEF Told
    <3> QED BY <1>1, <1>4, <3>1 DEF Told, r
  <2> QED BY <2>1, <2>2, <2>3
<1>5. CASE D # {}
  <2>1. C # {}
    BY <1>2, <1>5
  <2>2. PICK i \in C : q[i].what = s /\ \A j \in C : j <= i
    BY <2>1 DEF Told
  <2>3. i # 1
    <3>1. PICK j \in D : TRUE
      BY <1>5
    <3>2. j + 1 \in C /\ j \in Nat /\ j >= 1
      BY <1>1, <1>2, <3>1
    <3> QED BY <2>2, <3>2
  <2>4. i - 1 \in D
    BY <1>3, <2>3
  <2>5. r[i - 1].what = s
    BY <1>1, <2>2, <2>4
  <2>6. \A j \in D : j <= i - 1
    <3> TAKE j \in D
    <3>1. j + 1 <= i
      BY <1>2, <2>2
    <3> QED BY <1>1, <3>1
  <2> QED BY <1>5, <2>4, <2>5, <2>6 DEF Told, r
<1> QED BY <1>4, <1>5

-----------------------------------------------------------------------------
(* The steps *)

(* The kernel works off one event, whichever queue it comes from. *)
LEMMA ProcessTypes ==
  ASSUME TypeOK, NEW e \in Queued(NmtEvents),
         NEW k \in Seq(Queued(NmtEvents)), NEW u \in Seq(Queued(NmtEvents)), nmtk_process(e, k, u)
  PROVE  TypeOK'
<1> DEFINE next == NmtkStep(nmtk, e.what)
           moved == next.state # nmtk.state
<1>1. e.what \in NmtEvents /\ e.age \in Ages
  BY DEF Queued
<1>2. next \in Nmtk /\ next.state \in NmtStates
  BY <1>1, StepType DEF TypeOK, Nmtk
<1>3. nmtk' \in Nmtk
  BY <1>2 DEF nmtk_process
<1>4. kInt' \in Seq(Queued(NmtEvents)) /\ uk' \in Seq(Queued(NmtEvents)) /\ owed' \in Seq(Queued(Answers))
  <2>1. owed \in Seq(Queued(Answers))
    BY DEF TypeOK
  <2> QED BY <2>1, AgeType DEF nmtk_process
<1>5. ku' \in Seq(Queued(NmtStates \union NmtEvents))
  <2>1. ku \in Seq(Queued(NmtStates \union NmtEvents))
    BY DEF TypeOK
  <2>2. Age(ku, next.state) \in Seq(Queued(NmtStates \union NmtEvents))
    BY <2>1, AgeType
  <2>3. New(next.state) \in Queued(NmtStates \union NmtEvents)
    BY <1>2 DEF New, Queued, Ages
  <2>4. CASE moved
    BY <2>2, <2>3, <2>4 DEF nmtk_process
  <2>5. CASE ~moved
    BY <2>1, <2>5 DEF nmtk_process
  <2> QED BY <2>4, <2>5
<1>6. timer' \in Ages \union {"off"}
  BY DEF nmtk_process, TypeOK, Older, Ages
<1>7. agreed' \subseteq Both
  <2>1. agreed \subseteq Both
    BY DEF TypeOK
  <2> QED BY <2>1 DEF nmtk_process
<1>8. outrun' \in BOOLEAN
  BY DEF nmtk_process, TypeOK
<1>9. localNmtState' \in NmtStates /\ resets' \in 0..MaxResets
  BY DEF nmtk_process, TypeOK
<1> QED BY <1>3, <1>4, <1>5, <1>6, <1>7, <1>8, <1>9 DEF TypeOK

LEMMA ProcessControl ==
  ASSUME TypeOK, Control, NEW e \in Queued(NmtEvents), NEW k, NEW u, nmtk_process(e, k, u)
  PROVE  Control'
<1> DEFINE next == NmtkStep(nmtk, e.what)
           Ready == {"CsReadyToOperate", "CsOperational"}
<1>1. /\ nmtk \in Nmtk /\ e.what \in NmtEvents /\ nmtk' = next
      /\ HasFlag(nmtk) => nmtk.state \in Keeps
  BY DEF TypeOK, Queued, nmtk_process, Control, FlagsClean, HasFlag, Keeps
<1>2. agreed' = IF next.state \in Ready \/ next.state = nmtk.state
                THEN agreed \union ({e.what} \intersect Both) ELSE {}
  BY DEF nmtk_process
<1> HIDE DEF next
<1>3. FlagsClean'
  BY <1>1, StepClean DEF FlagsClean, HasFlag, Keeps, next
<1>4. Spoken'
  <2> SUFFICES ASSUME next.state = "CsPreOperational2"
               PROVE  /\ next.enable => "EnableReadyToOperate" \in agreed'
                      /\ next.ready => "EnterReadyToOperate" \in agreed'
    BY <1>1 DEF Spoken
  <2>1. /\ next.enable => nmtk.state = "CsPreOperational2" /\ (nmtk.enable \/ e.what = "EnableReadyToOperate")
        /\ next.ready => nmtk.state = "CsPreOperational2" /\ (nmtk.ready \/ e.what = "EnterReadyToOperate")
    BY <1>1, StepSpoken DEF next
  <2> QED BY <1>2, <2>1 DEF Control, Spoken, Both
<1>5. ReadyEarned'
  <2> SUFFICES ASSUME next.state \in Ready PROVE agreed' = Both
    BY <1>1 DEF ReadyEarned
  <2>1. agreed' = agreed \union ({e.what} \intersect Both)
    BY <1>2
  <2>2. agreed \subseteq Both
    BY DEF TypeOK
  <2>3. CASE nmtk.state \in Ready
    BY <2>1, <2>3 DEF Control, ReadyEarned
  <2>4. CASE /\ nmtk.state = "CsPreOperational2"
             /\ \/ nmtk.enable /\ e.what = "EnterReadyToOperate"
                \/ nmtk.ready /\ e.what = "EnableReadyToOperate"
    BY <2>1, <2>2, <2>4 DEF Control, Spoken, Both
  <2> QED BY <1>1, <2>3, <2>4, StepReady DEF next
<1> QED BY <1>3, <1>4, <1>5 DEF Control

LEMMA ProcessFollows ==
  ASSUME TypeOK, Follows, NEW e \in Queued(NmtEvents), NEW k, NEW u, nmtk_process(e, k, u)
  PROVE  Follows'
<1> DEFINE next == NmtkStep(nmtk, e.what)
<1>1. nmtk' = next /\ localNmtState' = localNmtState
  BY DEF nmtk_process
<1>2. CASE next.state # nmtk.state
  <2>1. ku' = Append(Age(ku, next.state), New(next.state))
    BY <1>2 DEF nmtk_process
  <2>2. Age(ku, next.state) \in Seq(Queued(NmtStates \union NmtEvents))
    BY AgeType DEF TypeOK
  <2>3. next.state \in NmtStates /\ New(next.state).what = next.state
    BY StepType DEF TypeOK, Queued, Nmtk, New
  <2>4. Told(ku', localNmtState', nmtk'.state)
    BY <1>1, <2>1, <2>2, <2>3, ToldOfMove
  <2> QED BY <2>4 DEF Follows, Changes, Told
<1>3. CASE next.state = nmtk.state
  BY <1>1, <1>3 DEF Follows, Changes, nmtk_process
<1> QED BY <1>2, <1>3

(* Steps that leave the kernel and the queue of state changes alone. *)
LEMMA OthersControl ==
  ASSUME Control, UNCHANGED <<nmtk, agreed>>
  PROVE  Control'
BY DEF Control, FlagsClean, Spoken, ReadyEarned

LEMMA OthersFollow ==
  ASSUME Follows, UNCHANGED <<nmtk, ku, localNmtState>>
  PROVE  Follows'
BY DEF Follows, Changes

LEMMA UserThreadSafe ==
  ASSUME Inv, UserThread
  PROVE  Inv'
<1> DEFINE c == Head(ku)
<1>1. ku \in Seq(Queued(NmtStates \union NmtEvents)) /\ ku # <<>> /\ ku' = Tail(ku)
  BY DEF Inv, TypeOK, UserThread
<1>2. c \in Queued(NmtStates \union NmtEvents) /\ ku' \in Seq(Queued(NmtStates \union NmtEvents))
  BY <1>1, HeadTail
<1>3. c.age \in Ages /\ c.what \in NmtStates \union NmtEvents
  BY <1>2 DEF Queued
<1>4. uk \in Seq(Queued(NmtEvents)) /\ owed \in Seq(Queued(Answers)) /\ timer \in Ages \union {"off"}
      /\ localNmtState \in NmtStates
  BY DEF Inv, TypeOK
<1>5. CASE StateChange(c)
  <2>1. c \in Queued(NmtStates)
    BY <1>2, <1>5 DEF StateChange, Queued
  <2>2. /\ uk' \in Seq(Queued(NmtEvents)) /\ owed' \in Seq(Queued(Answers))
        /\ timer' \in Ages \union {"off"} /\ localNmtState' \in NmtStates
    BY <1>3, <1>4, <1>5, <2>1, PostType, OwedType DEF StateChange, TimerAfter
  <2>3. localNmtState' = IF c.what \in NmtStates THEN c.what ELSE localNmtState
    BY <1>5 DEF StateChange
  <2> QED
    <3>1. TypeOK'
      BY <1>2, <2>2, <1>1 DEF Inv, TypeOK, UserThread
    <3>2. Control'
      BY OthersControl DEF Inv, UserThread
    <3>3. Told(ku, localNmtState, nmtk.state)
      BY FollowsIsTold DEF Inv
    <3>4. Told(ku', localNmtState', nmtk'.state)
      BY <1>1, <2>3, <3>3, ToldAfterHead DEF UserThread
    <3>5. Follows'
      BY <3>4 DEF Follows, Changes, Told
    <3> QED BY <3>1, <3>2, <3>5 DEF Inv
<1>6. CASE commandCb(c)
  <2>1. c \in Queued(NmtEvents)
    BY <1>2, <1>6 DEF commandCb, Queued
  <2>2. uk' \in Seq(Queued(NmtEvents))
    BY <1>4, <1>6, <2>1 DEF commandCb
  <2>3. localNmtState' = IF c.what \in NmtStates THEN c.what ELSE localNmtState
    BY <1>6 DEF commandCb
  <2>4. TypeOK'
    BY <1>2, <1>6, <2>2, <1>1 DEF Inv, TypeOK, UserThread, commandCb
  <2>5. Control'
    BY OthersControl DEF Inv, UserThread
  <2>6. Told(ku, localNmtState, nmtk.state)
    BY FollowsIsTold DEF Inv
  <2>7. Told(ku', localNmtState', nmtk'.state)
    BY <1>1, <2>3, <2>6, ToldAfterHead DEF UserThread
  <2>8. Follows'
    BY <2>7 DEF Follows, Changes, Told
  <2> QED BY <2>4, <2>5, <2>8 DEF Inv
<1> QED BY <1>5, <1>6 DEF UserThread

LEMMA EnvironmentSafe ==
  ASSUME Inv, NEW e \in NmtEvents, KernelPosts(e) \/ CommandArrives(e) \/ oplk_execNmtCommand(e)
  PROVE  Inv'
<1>1. New(e) \in Queued(NmtEvents) /\ New(e) \in Queued(NmtStates \union NmtEvents) /\ New(e).what = e
  BY DEF New, Queued, Ages
<1>2. resets' \in 0..MaxResets
  BY BoundsAssumption DEF Inv, TypeOK, KernelPosts, CommandArrives, oplk_execNmtCommand, Spend
<1>3. Control'
  BY OthersControl DEF Inv, KernelPosts, CommandArrives, oplk_execNmtCommand
<1>4. CASE KernelPosts(e)
  <2>1. TypeOK'
    BY <1>1, <1>2, <1>4 DEF Inv, TypeOK, KernelPosts
  <2>2. Follows'
    BY <1>4, OthersFollow DEF Inv, KernelPosts
  <2> QED BY <1>3, <2>1, <2>2 DEF Inv
<1>5. CASE oplk_execNmtCommand(e)
  <2>1. TypeOK'
    BY <1>1, <1>2, <1>5 DEF Inv, TypeOK, oplk_execNmtCommand
  <2>2. Follows'
    BY <1>5, OthersFollow DEF Inv, oplk_execNmtCommand
  <2> QED BY <1>3, <2>1, <2>2 DEF Inv
<1>6. CASE CommandArrives(e)
  <2>1. TypeOK'
    BY <1>1, <1>2, <1>6 DEF Inv, TypeOK, CommandArrives
  <2>2. New(e).what \notin NmtStates
    BY <1>1, Disjoint
  <2>3. Told(ku, localNmtState, nmtk.state) /\ ku \in Seq(Queued(NmtStates \union NmtEvents))
    BY FollowsIsTold DEF Inv, TypeOK
  <2>4. Told(Append(ku, New(e)), localNmtState, nmtk.state)
    BY <2>2, <2>3, ToldBehind
  <2>5. Follows'
    BY <1>6, <2>4 DEF CommandArrives, Follows, Changes, Told
  <2> QED BY <1>3, <2>1, <2>5 DEF Inv
<1> QED BY <1>4, <1>5, <1>6

LEMMA InvInit == Init => Inv
<1> SUFFICES ASSUME Init PROVE Inv
  OBVIOUS
<1>1. nmtk = Clear("GsOff") /\ "GsOff" \in NmtStates /\ Clear("GsOff") \in Nmtk
  BY DEF Init, Clear, Nmtk, NmtStates
<1>2. MaxResets \in Nat
  BY BoundsAssumption
<1>3. TypeOK
  <2>1. \A S : <<>> \in Seq(S)
    OBVIOUS
  <2>2. kInt = <<>> /\ uk = <<>> /\ ku = <<>> /\ owed = <<>>
    BY DEF Init
  <2>3. timer = "off" /\ agreed = {} /\ outrun = FALSE /\ localNmtState = "GsOff"
    BY DEF Init
  <2>4. resets \in 0..MaxResets
    BY <1>2 DEF Init
  <2> QED BY <1>1, <2>1, <2>2, <2>3, <2>4 DEF TypeOK
<1>4. Control
  BY <1>1 DEF Control, FlagsClean, Spoken, ReadyEarned, Clear
<1>5. Follows
  BY DEF Init, Follows, Changes, Clear
<1> QED BY <1>3, <1>4, <1>5 DEF Inv

LEMMA InvStep == Inv /\ [Next]_vars => Inv'
<1> SUFFICES ASSUME Inv, [Next]_vars PROVE Inv'
  OBVIOUS
<1>1. CASE KernelInternal
  <2>1. Head(kInt) \in Queued(NmtEvents) /\ Tail(kInt) \in Seq(Queued(NmtEvents)) /\ uk \in Seq(Queued(NmtEvents))
    BY <1>1, HeadTail DEF Inv, TypeOK, KernelInternal
  <2> QED BY <1>1, <2>1, ProcessTypes, ProcessControl, ProcessFollows DEF Inv, KernelInternal
<1>2. CASE KernelUser
  <2>1. Head(uk) \in Queued(NmtEvents) /\ Tail(uk) \in Seq(Queued(NmtEvents)) /\ kInt \in Seq(Queued(NmtEvents))
    BY <1>2, HeadTail DEF Inv, TypeOK, KernelUser
  <2> QED BY <1>2, <2>1, ProcessTypes, ProcessControl, ProcessFollows DEF Inv, KernelUser
<1>3. CASE UserThread
  BY <1>3, UserThreadSafe
<1>4. CASE TimerExpires
  <2>1. [what |-> "TimerBasicEthernet", age |-> timer] \in Queued(NmtEvents)
    BY <1>4 DEF Inv, TypeOK, TimerExpires, Queued, NmtEvents
  <2>2. TypeOK'
    BY <1>4, <2>1 DEF Inv, TypeOK, TimerExpires
  <2> QED BY <1>4, <2>2, OthersControl, OthersFollow DEF Inv, TimerExpires
<1>5. CASE ApplicationAnswers
  <2>1. Head(owed) \in Queued(Answers) /\ Tail(owed) \in Seq(Queued(Answers))
    BY <1>5, HeadTail DEF Inv, TypeOK, ApplicationAnswers
  <2>2. Head(owed) \in Queued(NmtEvents)
    BY <2>1 DEF Queued, NmtEvents
  <2>3. TypeOK'
    BY <1>5, <2>1, <2>2 DEF Inv, TypeOK, ApplicationAnswers
  <2> QED BY <1>5, <2>3, OthersControl, OthersFollow DEF Inv, ApplicationAnswers
<1>6. CASE Environment
  BY <1>6, EnvironmentSafe DEF Environment
<1>7. CASE UNCHANGED vars
  <2>1. TypeOK'
    BY <1>7 DEF Inv, TypeOK, vars
  <2> QED BY <1>7, <2>1, OthersControl, OthersFollow DEF Inv, vars
<1> QED BY <1>1, <1>2, <1>3, <1>4, <1>5, <1>6, <1>7 DEF Next

(* The four parts of the invariant hold in every state. *)
THEOREM InvCorrect == Spec => []Inv
BY InvInit, InvStep, PTL DEF Spec

(* The queues carry events and state changes of the right kind, whatever their length. *)
THEOREM TypeCorrect == Spec => []TypeOK
<1>1. Inv => TypeOK
  BY DEF Inv
<1> QED BY <1>1, InvCorrect, PTL

(* nmtk.c: the flags of NMT_CT5 do not survive PRE_OPERATIONAL_2 on a way back to it. *)
THEOREM FlagsCleanCorrect == Spec => []FlagsClean
<1>1. Inv => FlagsClean
  BY DEF Inv, Control
<1> QED BY <1>1, InvCorrect, PTL

(* nmtk.c: a ready node has heard the managing node and its own user part in this visit. *)
THEOREM ReadyEarnedCorrect == Spec => []ReadyEarned
<1>1. Inv => ReadyEarned
  BY DEF Inv, Control
<1> QED BY <1>1, InvCorrect, PTL

(* nmtu.c: the user part has the kernel's state or will be told of it last. *)
THEOREM FollowsCorrect == Spec => []Follows
<1>1. Inv => Follows
  BY DEF Inv
<1> QED BY <1>1, InvCorrect, PTL

-----------------------------------------------------------------------------
(***************************************************************************)
(* NoStaleMove, when the application keeps no answer of a reset state.     *)
(*                                                                         *)
(* The answers of the user part and the events of its timer come to the    *)
(* kernel in the order of the state changes they react to.  So when the    *)
(* answer to the present state arrives, all earlier ones have come, and    *)
(* what is late in a state can only be what an interrupted reset has left: *)
(* the reactions to states that lie behind the present one (Late).         *)
(***************************************************************************)

Timer == "TimerBasicEthernet"
Awaited == ResetAnswers \union {Timer}

(* What the user part makes of a state, by its answer or its timer *)
Reaction(s) == IF s = "CsNotActive" THEN Timer ELSE AnswerTo(s)

(* Old events that may still be under way in state s.  None of them moves the kernel. *)
Late(s) ==
  CASE s \in {"GsOff", "CsNotActive"} -> {}
    [] s = "GsInitialising" -> Awaited \ {"EnterResetApp"}
    [] s = "GsResetApplication" -> {"EnterResetConfig", "EnterCsNotActive", Timer}
    [] s = "GsResetCommunication" -> {"EnterCsNotActive", Timer}
    [] OTHER -> {Timer}

ChangesOf(q) == {i \in DOMAIN q : q[i].what \in NmtStates}

(* Old events, and the reactions to old state changes, are late in the present state *)
OnlyLate(s, u, q, t) ==
  /\ \A i \in DOMAIN u : u[i].age = "old" /\ u[i].what \in Awaited => u[i].what \in Late(s)
  /\ \A i \in ChangesOf(q) :
       q[i].age = "old" /\ Reaction(q[i].what) \in Awaited => Reaction(q[i].what) \in Late(s)
  /\ t = "old" => Timer \in Late(s)

(* There is one new state change, or one reaction to it, and everything else comes before it *)
NewestLast(s, u, q, t) ==
  /\ \A i \in ChangesOf(q) : q[i].age = "new" =>
       /\ q[i].what = s /\ \A j \in ChangesOf(q) : j <= i
       /\ t # "new"
       /\ \A j \in DOMAIN u : u[j].age = "new" => u[j].what \notin Awaited
  /\ t = "new" => s = "CsNotActive"
  /\ \A i \in DOMAIN u : u[i].age = "new" /\ u[i].what \in Awaited => u[i].what = Reaction(s)
  /\ \A i \in DOMAIN u : u[i].age = "new" /\ u[i].what \in ResetAnswers =>
       /\ ChangesOf(q) = {} /\ t = "off"
       /\ \A j \in DOMAIN u : j > i /\ u[j].what \in Awaited => u[j].age = "dead"

(* Nobody else sends what the user part is awaited to send *)
Without(q) == \A i \in DOMAIN q : q[i].what \notin Awaited

Fresh == outrun \/ (OnlyLate(nmtk.state, uk, ku, timer) /\ NewestLast(nmtk.state, uk, ku, timer))
Senders == Without(kInt) /\ Without(ku) /\ Without(owed)

-----------------------------------------------------------------------------
(* The table *)

(* No late event moves the kernel. *)
LEMMA LateStays ==
  ASSUME NEW k \in Nmtk, NEW e \in Late(k.state)
  PROVE  NmtkStep(k, e).state = k.state
<1>1. e \in Awaited /\ e \notin {"EnterReadyToOperate", "EnableReadyToOperate", "StopNode", "NmtCycleError"}
  BY DEF Late, Awaited, ResetAnswers, Answers, Timer
<1>2. Target(k.state, e) = k.state
  BY <1>1 DEF Late, Awaited, ResetAnswers, Answers, Timer, Target, MnCommands, Frames, Cs, CsCyclic
<1> QED BY <1>1, <1>2 DEF NmtkStep, Clear, Nmtk

(* A state entered otherwise than by an answer lets everything be late that the state before has left *)
LEMMA StepLate ==
  ASSUME NEW k \in Nmtk, NEW e \in NmtEvents \ ResetAnswers,
         NmtkStep(k, e).state # k.state, NmtkStep(k, e).state # "GsOff"
  PROVE  Late(k.state) \union ({Reaction(k.state)} \intersect Awaited) \subseteq Late(NmtkStep(k, e).state)
<1> DEFINE s == k.state
           t == NmtkStep(k, e).state
<1>1. s \in NmtStates
  BY DEF Nmtk
<1>2. CASE s = "CsPreOperational2" /\ e \in {"EnterReadyToOperate", "EnableReadyToOperate"}
  <2>1. t = "CsReadyToOperate"
    BY <1>2 DEF NmtkStep, Agreement, Clear, Nmtk
  <2>2. Reaction(s) \notin Awaited /\ Late(s) = {Timer} /\ Late(t) = {Timer}
    BY <1>2, <2>1 DEF Reaction, AnswerTo, Awaited, ResetAnswers, Timer, Late
  <2> QED BY <2>2
<1>3. CASE ~(s = "CsPreOperational2" /\ e \in {"EnterReadyToOperate", "EnableReadyToOperate"})
  <2>1. t = Target(s, e)
    BY <1>3 DEF NmtkStep, Clear, Nmtk
  <2>2. CASE s \in Cs
    <3>1. t \in (Cs \union GsReset) \ {"CsNotActive"}
      BY <1>1, <2>1, <2>2 DEF Target, NmtStates, Cs, CsCyclic, GsReset, ResetAnswers, Answers
    <3>2. Timer \in Late(t)
      BY <3>1 DEF Late, Cs, CsCyclic, GsReset, Awaited, ResetAnswers, Answers, Timer
    <3>3. Late(s) \union ({Reaction(s)} \intersect Awaited) \subseteq {Timer}
      BY <2>2 DEF Late, Reaction, AnswerTo, Cs, CsCyclic, Awaited, ResetAnswers, Answers, Timer
    <3> QED BY <3>2, <3>3
  <2>3. CASE s \in GsReset
    <3>1. \/ t = "GsInitialising" /\ s # "GsInitialising"
          \/ t = "GsResetApplication" /\ s \in {"GsResetCommunication", "GsResetConfiguration"}
          \/ t = "GsResetCommunication" /\ s = "GsResetConfiguration"
      BY <2>1, <2>3 DEF Target, Cs, CsCyclic, GsReset, ResetAnswers, Answers, Frames
    <3> QED BY <2>3, <3>1 DEF Late, Reaction, AnswerTo, GsReset, Awaited, ResetAnswers, Answers, Timer
  <2>4. CASE s = "GsOff"
    <3>1. Late(s) = {} /\ Reaction(s) \notin Awaited
      BY <2>4 DEF Late, Reaction, AnswerTo, Awaited, ResetAnswers, Answers, Timer
    <3> QED BY <3>1
  <2> QED BY <1>1, <2>2, <2>3, <2>4 DEF NmtStates
<1> QED BY <1>2, <1>3

-----------------------------------------------------------------------------
(* The queues *)

(* Ageing leaves nothing new, and all dead when the state is OFF. *)
LEMMA AgeAges ==
  ASSUME NEW W, NEW q \in Seq(Queued(W)), NEW s, NEW i \in DOMAIN q
  PROVE  /\ Age(q, s)[i].what = q[i].what /\ q[i] \in Queued(W)
         /\ Age(q, s)[i].age \in {"old", "dead"}
         /\ Age(q, s)[i].age = "old" => q[i].age \in {"old", "new"} /\ s # "GsOff"
         /\ q[i].age = "dead" => Age(q, s)[i].age = "dead"
<1>1. q[i] \in Queued(W)
  OBVIOUS
<1>2. Age(q, s)[i] = [q[i] EXCEPT !.age = Older(@, s)]
  BY DEF Age
<1>3. Age(q, s)[i].what = q[i].what /\ Age(q, s)[i].age = Older(q[i].age, s)
  BY <1>1, <1>2 DEF Queued
<1> QED BY <1>1, <1>3 DEF Older, Queued, Ages

LEMMA Indices ==
  ASSUME NEW W, NEW q \in Seq(W)
  PROVE  /\ DOMAIN q = 1..Len(q) /\ Len(q) \in Nat
         /\ q # <<>> => /\ 1 \in DOMAIN q /\ Head(q) = q[1]
                        /\ \A i \in DOMAIN Tail(q) : i + 1 \in DOMAIN q /\ Tail(q)[i] = q[i + 1]
                        /\ \A i \in DOMAIN q : i # 1 => i - 1 \in DOMAIN Tail(q) /\ Tail(q)[i - 1] = q[i]
         /\ \A x : /\ DOMAIN Append(q, x) = 1..(Len(q) + 1)
                   /\ Append(q, x)[Len(q) + 1] = x
                   /\ \A i \in DOMAIN q : Append(q, x)[i] = q[i]
OBVIOUS

(* The kernel moves to a state that lets everything be late that was awaited before. *)
LEMMA MoveFresh ==
  ASSUME NEW s, NEW u \in Seq(Queued(NmtEvents)), NEW q \in Seq(Queued(NmtStates \union NmtEvents)),
         NEW t \in Ages \union {"off"}, NEW to \in NmtStates,
         OnlyLate(s, u, q, t), NewestLast(s, u, q, t),
         to = "GsOff" \/ Late(s) \union ({Reaction(s)} \intersect Awaited) \subseteq Late(to),
         NEW t2, t2 = IF t # "off" THEN Older(t, to) ELSE t
  PROVE  /\ OnlyLate(to, Age(u, to), Append(Age(q, to), New(to)), t2)
         /\ NewestLast(to, Age(u, to), Append(Age(q, to), New(to)), t2)
<1> DEFINE u2 == Age(u, to)
           q1 == Age(q, to)
           n == Len(q1)
           q2 == Append(q1, New(to))
<1>1. DOMAIN u2 = DOMAIN u /\ DOMAIN q1 = DOMAIN q /\ q1 \in Seq(Queued(NmtStates \union NmtEvents))
  BY AgeType
<1>2. /\ DOMAIN q1 = 1..n /\ n \in Nat /\ DOMAIN q2 = 1..(n + 1) /\ q2[n + 1] = New(to)
      /\ \A i \in DOMAIN q1 : q2[i] = q1[i]
  BY <1>1, Indices
<1>3. \A i \in DOMAIN u : /\ u2[i].what = u[i].what /\ u2[i].age # "new"
                          /\ u2[i].age = "old" => u[i].age \in {"old", "new"} /\ to # "GsOff"
  BY AgeAges
<1>4. \A i \in DOMAIN q : /\ q1[i].what = q[i].what /\ q1[i].age # "new"
                          /\ q1[i].age = "old" => q[i].age \in {"old", "new"} /\ to # "GsOff"
  BY AgeAges
<1>5. t2 # "new" /\ (t2 = "old" => t \in {"old", "new"} /\ to # "GsOff")
  BY DEF Older, Ages
<1>6. New(to).what = to /\ New(to).age = "new"
  BY DEF New
<1> HIDE DEF u2, q1, q2, n
<1>7. n + 1 \in ChangesOf(q2) /\ \A i \in ChangesOf(q2) : i # n + 1 => i \in ChangesOf(q) /\ i \in DOMAIN q1
  BY <1>1, <1>2, <1>4, <1>6 DEF ChangesOf
<1>8. \A i \in DOMAIN u2 : u2[i].age = "old" /\ u2[i].what \in Awaited => u2[i].what \in Late(to)
  BY <1>1, <1>3 DEF OnlyLate, NewestLast
<1>9. \A i \in ChangesOf(q2) :
        q2[i].age = "old" /\ Reaction(q2[i].what) \in Awaited => Reaction(q2[i].what) \in Late(to)
  BY <1>2, <1>4, <1>6, <1>7 DEF OnlyLate, NewestLast, ChangesOf
<1>10. t2 = "old" => Timer \in Late(to)
  BY <1>5 DEF OnlyLate, NewestLast, Reaction, Awaited
<1>11. \A i \in ChangesOf(q2) : q2[i].age = "new" =>
         /\ q2[i].what = to /\ \A j \in ChangesOf(q2) : j <= i
         /\ t2 # "new"
         /\ \A j \in DOMAIN u2 : u2[j].age = "new" => u2[j].what \notin Awaited
  BY <1>1, <1>2, <1>3, <1>4, <1>5, <1>6, <1>7 DEF ChangesOf
<1>12. \A i \in DOMAIN u2 : u2[i].age # "new"
  BY <1>1, <1>3
<1>13. OnlyLate(to, u2, q2, t2)
  BY <1>8, <1>9, <1>10 DEF OnlyLate
<1>14. NewestLast(to, u2, q2, t2)
  BY <1>5, <1>11, <1>12 DEF NewestLast
<1> QED BY <1>13, <1>14 DEF u2, q2, q1

(* The event that the kernel takes leaves what is said of the others. *)
LEMMA TailFresh ==
  ASSUME NEW s, NEW u \in Seq(Queued(NmtEvents)), u # <<>>, NEW q, NEW t,
         OnlyLate(s, u, q, t), NewestLast(s, u, q, t)
  PROVE  OnlyLate(s, Tail(u), q, t) /\ NewestLast(s, Tail(u), q, t)
<1>1. \A i \in DOMAIN Tail(u) : i + 1 \in DOMAIN u /\ Tail(u)[i] = u[i + 1] /\ i \in Nat
  BY Indices, HeadTail
<1>2. OnlyLate(s, Tail(u), q, t)
  BY <1>1 DEF OnlyLate
<1>3. \A i \in ChangesOf(q) : q[i].age = "new" =>
         /\ q[i].what = s /\ \A j \in ChangesOf(q) : j <= i
         /\ t # "new"
         /\ \A j \in DOMAIN Tail(u) : Tail(u)[j].age = "new" => Tail(u)[j].what \notin Awaited
  BY <1>1 DEF NewestLast
<1>4. \A i \in DOMAIN Tail(u) : Tail(u)[i].age = "new" /\ Tail(u)[i].what \in Awaited
                                  => Tail(u)[i].what = Reaction(s)
  BY <1>1 DEF NewestLast
<1>5. \A i \in DOMAIN Tail(u) : Tail(u)[i].age = "new" /\ Tail(u)[i].what \in ResetAnswers =>
         /\ ChangesOf(q) = {} /\ t = "off"
         /\ \A j \in DOMAIN Tail(u) : j > i /\ Tail(u)[j].what \in Awaited => Tail(u)[j].age = "dead"
  <2> SUFFICES ASSUME NEW i \in DOMAIN Tail(u), Tail(u)[i].age = "new", Tail(u)[i].what \in ResetAnswers
               PROVE  /\ ChangesOf(q) = {} /\ t = "off"
                      /\ \A j \in DOMAIN Tail(u) : j > i /\ Tail(u)[j].what \in Awaited => Tail(u)[j].age = "dead"
    OBVIOUS
  <2>1. /\ ChangesOf(q) = {} /\ t = "off"
        /\ \A j \in DOMAIN u : j > i + 1 /\ u[j].what \in Awaited => u[j].age = "dead"
    BY <1>1 DEF NewestLast
  <2> QED BY <1>1, <2>1
<1>6. t = "new" => s = "CsNotActive"
  BY DEF NewestLast
<1>7. NewestLast(s, Tail(u), q, t)
  BY <1>3, <1>4, <1>5, <1>6 DEF NewestLast
<1> QED BY <1>2, <1>7

(* When the answer to the present state is taken, nothing that is awaited is left. *)
LEMMA AnswerFresh ==
  ASSUME NEW s, NEW u \in Seq(Queued(NmtEvents)), u # <<>>,
         NEW q \in Seq(Queued(NmtStates \union NmtEvents)), NEW t,
         NewestLast(s, u, q, t), Head(u).age = "new", Head(u).what \in ResetAnswers, NEW to \in NmtStates
  PROVE  /\ t = "off"
         /\ OnlyLate(to, Age(Tail(u), to), Append(Age(q, to), New(to)), t)
         /\ NewestLast(to, Age(Tail(u), to), Append(Age(q, to), New(to)), t)
<1> DEFINE u2 == Age(Tail(u), to)
           q1 == Age(q, to)
           n == Len(q1)
           q2 == Append(q1, New(to))
<1>1. /\ DOMAIN u2 = DOMAIN Tail(u) /\ DOMAIN q1 = DOMAIN q /\ q1 \in Seq(Queued(NmtStates \union NmtEvents))
      /\ Tail(u) \in Seq(Queued(NmtEvents))
  BY AgeType, HeadTail
<1>2. /\ DOMAIN q1 = 1..n /\ n \in Nat /\ DOMAIN q2 = 1..(n + 1) /\ q2[n + 1] = New(to)
      /\ \A i \in DOMAIN q1 : q2[i] = q1[i]
  BY <1>1, Indices
<1>3. \A i \in DOMAIN Tail(u) : i + 1 \in DOMAIN u /\ Tail(u)[i] = u[i + 1] /\ i + 1 > 1
  <2>1. Tail(u) \in Seq(Queued(NmtEvents)) /\ DOMAIN Tail(u) = 1..Len(Tail(u)) /\ Len(Tail(u)) \in Nat
    BY <1>1, Indices
  <2> QED BY <2>1, Indices
<1>4. 1 \in DOMAIN u /\ u[1] = Head(u)
  BY Indices
<1>5. /\ ChangesOf(q) = {} /\ t = "off"
      /\ \A j \in DOMAIN u : j > 1 /\ u[j].what \in Awaited => u[j].age = "dead"
  BY <1>4 DEF NewestLast
<1>6. \A i \in DOMAIN Tail(u) : Tail(u)[i].what \in Awaited => Tail(u)[i].age = "dead"
  BY <1>3, <1>5
<1>7. \A i \in DOMAIN u2 : u2[i].age # "new" /\ (u2[i].what \in Awaited => u2[i].age = "dead")
  <2>1. \A i \in DOMAIN Tail(u) : /\ u2[i].what = Tail(u)[i].what /\ u2[i].age # "new"
                                  /\ Tail(u)[i].age = "dead" => u2[i].age = "dead"
    <3>1. \A v \in Seq(Queued(NmtEvents)) : \A i \in DOMAIN v :
            /\ Age(v, to)[i].what = v[i].what /\ Age(v, to)[i].age # "new"
            /\ v[i].age = "dead" => Age(v, to)[i].age = "dead"
      BY AgeAges
    <3> QED BY <1>1, <3>1
  <2> HIDE DEF u2
  <2> QED BY <1>1, <1>6, <2>1
<1>8. \A i \in DOMAIN q : q1[i].what = q[i].what
  BY AgeAges
<1>9. New(to).what = to /\ New(to).age = "new"
  BY DEF New
<1> HIDE DEF u2, q1, q2, n
<1>10. ChangesOf(q2) = {n + 1}
  BY <1>1, <1>2, <1>5, <1>8, <1>9 DEF ChangesOf
<1>11. OnlyLate(to, u2, q2, t)
  BY <1>2, <1>5, <1>7, <1>9, <1>10 DEF OnlyLate
<1>12. NewestLast(to, u2, q2, t)
  BY <1>2, <1>5, <1>7, <1>9, <1>10 DEF NewestLast
<1> QED BY <1>5, <1>11, <1>12 DEF u2, q2, q1

(* An event that nobody awaits may be put behind the others. *)
LEMMA AppendFresh ==
  ASSUME NEW s, NEW u \in Seq(Queued(NmtEvents)), NEW q, NEW t,
         OnlyLate(s, u, q, t), NewestLast(s, u, q, t), NEW x, x.what \notin Awaited
  PROVE  OnlyLate(s, Append(u, x), q, t) /\ NewestLast(s, Append(u, x), q, t)
<1> DEFINE n == Len(u)
           u2 == Append(u, x)
<1>1. DOMAIN u = 1..n /\ n \in Nat /\ DOMAIN u2 = 1..(n + 1) /\ u2[n + 1] = x /\ \A i \in DOMAIN u : u2[i] = u[i]
  BY Indices
<1> HIDE DEF n, u2
<1>2. \A i \in DOMAIN u2 : u2[i].what \in Awaited => i \in DOMAIN u /\ u2[i] = u[i]
  BY <1>1
<1>3. ResetAnswers \subseteq Awaited
  BY DEF Awaited
<1>4. OnlyLate(s, u2, q, t)
  BY <1>2 DEF OnlyLate
<1>5. NewestLast(s, u2, q, t)
  BY <1>2, <1>3 DEF NewestLast
<1> QED BY <1>4, <1>5 DEF u2

(* Of the queue to the user part only the state changes matter. *)
LEMMA CommandFresh ==
  ASSUME NEW s, NEW u, NEW q \in Seq(Queued(NmtStates \union NmtEvents)), NEW t,
         OnlyLate(s, u, q, t), NewestLast(s, u, q, t), NEW x, x.what \notin NmtStates
  PROVE  OnlyLate(s, u, Append(q, x), t) /\ NewestLast(s, u, Append(q, x), t)
<1> DEFINE n == Len(q)
           q2 == Append(q, x)
<1>1. DOMAIN q = 1..n /\ n \in Nat /\ DOMAIN q2 = 1..(n + 1) /\ q2[n + 1] = x /\ \A i \in DOMAIN q : q2[i] = q[i]
  BY Indices
<1> HIDE DEF n, q2
<1>2. ChangesOf(q2) = ChangesOf(q) /\ \A i \in ChangesOf(q) : q2[i] = q[i]
  BY <1>1 DEF ChangesOf
<1>3. OnlyLate(s, u, q2, t)
  BY <1>2 DEF OnlyLate
<1>4. NewestLast(s, u, q2, t)
  BY <1>2 DEF NewestLast
<1> QED BY <1>3, <1>4 DEF q2

(* The user part takes a state change: its reaction goes behind the others. *)
LEMMA ReactFresh ==
  ASSUME NEW s, NEW u \in Seq(Queued(NmtEvents)), NEW q \in Seq(Queued(NmtStates \union NmtEvents)), q # <<>>,
         NEW t, OnlyLate(s, u, q, t), NewestLast(s, u, q, t), Head(q).what \in NmtStates,
         NEW u2, NEW t2,
         \/ u2 = Post(u, Head(q)) /\ t2 = TimerAfter(Head(q))
         \/ u2 = u /\ t2 = "off" /\ Head(q).what \notin GsReset
  PROVE  OnlyLate(s, u2, Tail(q), t2) /\ NewestLast(s, u2, Tail(q), t2)
<1> DEFINE c == Head(q)
           r == Tail(q)
           n == Len(u)
<1>1. /\ \A i \in DOMAIN r : i + 1 \in DOMAIN q /\ r[i] = q[i + 1] /\ i \in Nat /\ i + 1 > 1
      /\ 1 \in DOMAIN q /\ q[1] = c /\ c \in Queued(NmtStates \union NmtEvents)
  <2>1. r \in Seq(Queued(NmtStates \union NmtEvents)) /\ c \in Queued(NmtStates \union NmtEvents)
    BY HeadTail
  <2>2. DOMAIN r = 1..Len(r) /\ Len(r) \in Nat
    BY <2>1, Indices
  <2> QED BY <2>1, <2>2, Indices
<1>2. DOMAIN u = 1..n /\ n \in Nat
  BY Indices
<1>3. /\ c.what # "CsNotActive" => t2 = "off"
      /\ c.what = "CsNotActive" => u2 = u /\ t2 \in {"off", c.age}
  BY DEF Post, TimerAfter, AnswerTo, GsReset
<1>4. \/ u2 = u
      \/ /\ DOMAIN u2 = 1..(n + 1) /\ u2[n + 1].what = AnswerTo(c.what) /\ u2[n + 1].age = c.age
         /\ \A i \in DOMAIN u : u2[i] = u[i]
  <2>1. CASE u2 = Post(u, c) /\ AnswerTo(c.what) # "none"
    <3>1. u2 = Append(u, [what |-> AnswerTo(c.what), age |-> c.age])
      BY <2>1 DEF Post
    <3> QED BY <3>1, Indices
  <2> QED BY <2>1 DEF Post
<1>5. AnswerTo(c.what) \in Awaited => Reaction(c.what) = AnswerTo(c.what) /\ c.what # "CsNotActive"
  BY DEF Reaction, AnswerTo, Awaited, ResetAnswers, Answers, Timer
<1>6. Head(q).what \in NmtStates /\ c.age \in Ages /\ "off" \notin Ages /\ Timer \in Awaited
      /\ Timer \notin ResetAnswers /\ ResetAnswers \subseteq Awaited /\ Reaction("CsNotActive") = Timer
  BY <1>1 DEF Queued, Ages, Awaited, Timer, ResetAnswers, Answers, Reaction
<1>7. /\ 1 \in ChangesOf(q)
      /\ \A i \in ChangesOf(r) : i + 1 \in ChangesOf(q) /\ r[i] = q[i + 1] /\ i \in Nat /\ i + 1 > 1
  BY <1>1, <1>6 DEF ChangesOf
<1> HIDE DEF c, r, n
<1>8. c.age = "old" => (Reaction(c.what) \in Awaited => Reaction(c.what) \in Late(s))
  BY <1>1, <1>7 DEF OnlyLate
<1>9. c.age = "new" =>
        /\ c.what = s /\ ChangesOf(r) = {} /\ t # "new"
        /\ \A j \in DOMAIN u : u[j].age = "new" => u[j].what \notin Awaited
  <2> SUFFICES ASSUME c.age = "new"
               PROVE  /\ c.what = s /\ ChangesOf(r) = {} /\ t # "new"
                      /\ \A j \in DOMAIN u : u[j].age = "new" => u[j].what \notin Awaited
    OBVIOUS
  <2>1. /\ c.what = s /\ \A j \in ChangesOf(q) : j <= 1
        /\ t # "new" /\ \A j \in DOMAIN u : u[j].age = "new" => u[j].what \notin Awaited
    BY <1>1, <1>7 DEF NewestLast
  <2>2. ChangesOf(r) = {}
    BY <1>7, <2>1
  <2> QED BY <2>1, <2>2
<1>10. \A i \in DOMAIN u : u[i].age = "new" => u[i].what \notin ResetAnswers
  BY <1>7 DEF NewestLast
<1>11. OnlyLate(s, u2, r, t2)
  <2>1. \A i \in DOMAIN u2 : u2[i].age = "old" /\ u2[i].what \in Awaited => u2[i].what \in Late(s)
    <3>1. CASE u2 = u
      BY <3>1 DEF OnlyLate
    <3>2. CASE u2 # u
      <4> SUFFICES ASSUME NEW i \in DOMAIN u2, u2[i].age = "old", u2[i].what \in Awaited
                   PROVE  u2[i].what \in Late(s)
        OBVIOUS
      <4>1. CASE i = n + 1
        BY <1>4, <1>5, <1>8, <3>2, <4>1
      <4>2. CASE i # n + 1
        BY <1>2, <1>4, <3>2, <4>2 DEF OnlyLate
      <4> QED BY <4>1, <4>2
    <3> QED BY <3>1, <3>2
  <2>2. \A i \in ChangesOf(r) : r[i].age = "old" /\ Reaction(r[i].what) \in Awaited => Reaction(r[i].what) \in Late(s)
    BY <1>7 DEF OnlyLate
  <2>3. t2 = "old" => Timer \in Late(s)
    BY <1>3, <1>6, <1>8
  <2> QED BY <2>1, <2>2, <2>3 DEF OnlyLate
<1>12. NewestLast(s, u2, r, t2)
  <2>1. \A i \in ChangesOf(r) : r[i].age = "new" =>
          /\ r[i].what = s /\ \A j \in ChangesOf(r) : j <= i
          /\ t2 # "new"
          /\ \A j \in DOMAIN u2 : u2[j].age = "new" => u2[j].what \notin Awaited
    <3> SUFFICES ASSUME NEW i \in ChangesOf(r), r[i].age = "new"
                 PROVE  /\ r[i].what = s /\ \A j \in ChangesOf(r) : j <= i
                        /\ t2 # "new"
                        /\ \A j \in DOMAIN u2 : u2[j].age = "new" => u2[j].what \notin Awaited
      OBVIOUS
    <3>1. /\ r[i].what = s /\ \A j \in ChangesOf(q) : j <= i + 1
          /\ \A j \in DOMAIN u : u[j].age = "new" => u[j].what \notin Awaited
      BY <1>7 DEF NewestLast
    <3>2. \A j \in ChangesOf(r) : j <= i
      BY <1>7, <3>1
    <3>3. c.age # "new"
      BY <1>9
    <3>4. \A j \in DOMAIN u2 : u2[j].age = "new" => u2[j].what \notin Awaited
      BY <1>2, <1>4, <3>1, <3>3
    <3> QED BY <1>3, <3>1, <3>2, <3>3, <3>4
  <2>2. t2 = "new" => s = "CsNotActive"
    BY <1>3, <1>9
  <2>3. \A i \in DOMAIN u2 : u2[i].age = "new" /\ u2[i].what \in Awaited => u2[i].what = Reaction(s)
    <3> SUFFICES ASSUME NEW i \in DOMAIN u2, u2[i].age = "new", u2[i].what \in Awaited
                 PROVE  u2[i].what = Reaction(s)
      OBVIOUS
    <3>1. CASE i \in DOMAIN u
      BY <1>4, <3>1 DEF NewestLast
    <3>2. CASE i \notin DOMAIN u
      BY <1>2, <1>4, <1>5, <1>9, <3>2
    <3> QED BY <3>1, <3>2
  <2>4. \A i \in DOMAIN u2 : u2[i].age = "new" /\ u2[i].what \in ResetAnswers =>
          /\ ChangesOf(r) = {} /\ t2 = "off"
          /\ \A j \in DOMAIN u2 : j > i /\ u2[j].what \in Awaited => u2[j].age = "dead"
    <3> SUFFICES ASSUME NEW i \in DOMAIN u2, u2[i].age = "new", u2[i].what \in ResetAnswers
                 PROVE  /\ ChangesOf(r) = {} /\ t2 = "off"
                        /\ \A j \in DOMAIN u2 : j > i /\ u2[j].what \in Awaited => u2[j].age = "dead"
      OBVIOUS
    <3>1. i \notin DOMAIN u
      BY <1>4, <1>10
    <3>2. i = n + 1 /\ c.age = "new" /\ AnswerTo(c.what) \in ResetAnswers /\ DOMAIN u2 = 1..(n + 1)
      BY <1>2, <1>4, <3>1
    <3> QED BY <1>2, <1>3, <1>5, <1>6, <1>9, <3>2
  <2> QED BY <2>1, <2>2, <2>3, <2>4 DEF NewestLast
<1> QED BY <1>11, <1>12 DEF r

(* The timer expires: its event goes behind the others. *)
LEMMA ExpiresFresh ==
  ASSUME NEW s, NEW u \in Seq(Queued(NmtEvents)), NEW q, NEW t \in Ages,
         OnlyLate(s, u, q, t), NewestLast(s, u, q, t)
  PROVE  LET u2 == Append(u, [what |-> Timer, age |-> t])
         IN  OnlyLate(s, u2, q, "off") /\ NewestLast(s, u2, q, "off")
<1> DEFINE n == Len(u)
           x == [what |-> Timer, age |-> t]
           u2 == Append(u, x)
<1>1. DOMAIN u = 1..n /\ n \in Nat /\ DOMAIN u2 = 1..(n + 1) /\ u2[n + 1] = x /\ \A i \in DOMAIN u : u2[i] = u[i]
  BY Indices
<1>2. x.what = Timer /\ x.age = t /\ t # "off" /\ Timer \notin ResetAnswers /\ ResetAnswers \subseteq Awaited
      /\ Reaction("CsNotActive") = Timer
  BY DEF Ages, Timer, ResetAnswers, Answers, Awaited, Reaction
<1> HIDE DEF n, x, u2
<1>3. OnlyLate(s, u2, q, "off")
  <2>1. \A i \in DOMAIN u2 : u2[i].age = "old" /\ u2[i].what \in Awaited => u2[i].what \in Late(s)
    BY <1>1, <1>2 DEF OnlyLate
  <2> QED BY <2>1 DEF OnlyLate
<1>4. \A i \in ChangesOf(q) : q[i].age = "new" =>
        /\ q[i].what = s /\ \A j \in ChangesOf(q) : j <= i
        /\ \A j \in DOMAIN u2 : u2[j].age = "new" => u2[j].what \notin Awaited
  BY <1>1, <1>2 DEF NewestLast
<1>5. \A i \in DOMAIN u2 : u2[i].age = "new" /\ u2[i].what \in Awaited => u2[i].what = Reaction(s)
  BY <1>1, <1>2 DEF NewestLast
<1>6. \A i \in DOMAIN u2 : ~(u2[i].age = "new" /\ u2[i].what \in ResetAnswers)
  BY <1>1, <1>2 DEF NewestLast
<1>7. NewestLast(s, u2, q, "off")
  BY <1>4, <1>5, <1>6 DEF NewestLast
<1> QED BY <1>3, <1>7 DEF u2, x

-----------------------------------------------------------------------------
(* The steps *)

LEMMA FreshNext ==
  /\ Fresh' <=> (outrun' \/ (OnlyLate(nmtk'.state, uk', ku', timer') /\ NewestLast(nmtk'.state, uk', ku', timer')))
  /\ Senders' <=> Without(kInt') /\ Without(ku') /\ Without(owed')
BY DEF Fresh, OnlyLate, NewestLast, ChangesOf, Senders, Without

(* A queue stays free of what nobody else sends. *)
LEMMA WithoutAppend ==
  ASSUME NEW W, NEW q \in Seq(W), NEW x, Without(q), x.what \notin Awaited
  PROVE  Without(Append(q, x))
BY Indices DEF Without

LEMMA FreshInit == Init => Fresh /\ Senders
<1> SUFFICES ASSUME Init PROVE Fresh /\ Senders
  OBVIOUS
<1>1. kInt = <<>> /\ uk = <<>> /\ ku = <<>> /\ owed = <<>> /\ timer = "off"
  BY DEF Init
<1>2. ChangesOf(ku) = {} /\ DOMAIN uk = {} /\ DOMAIN kInt = {} /\ DOMAIN owed = {} /\ DOMAIN ku = {}
  BY <1>1 DEF ChangesOf
<1> QED BY <1>1, <1>2 DEF Fresh, OnlyLate, NewestLast, Senders, Without

(* The kernel works off one event: one of its own, or the first of the user part's. *)
LEMMA ProcessFresh ==
  ASSUME TypeOK, Fresh, Senders, KernelInternal \/ KernelUser
  PROVE  Fresh' /\ Senders'
<1> DEFINE s == nmtk.state
<1>1. /\ kInt \in Seq(Queued(NmtEvents)) /\ uk \in Seq(Queued(NmtEvents))
      /\ ku \in Seq(Queued(NmtStates \union NmtEvents)) /\ owed \in Seq(Queued(Answers))
      /\ timer \in Ages \union {"off"} /\ nmtk \in Nmtk
  BY DEF TypeOK
<1>2. PICK e \in Queued(NmtEvents), k \in Seq(Queued(NmtEvents)), u \in Seq(Queued(NmtEvents)) :
        /\ nmtk_process(e, k, u)
        /\ Without(k)
        /\ \/ e.what \notin Awaited /\ u = uk
           \/ uk # <<>> /\ e = Head(uk) /\ u = Tail(uk)
  <2>1. CASE KernelInternal
    <3>1. Head(kInt) \in Queued(NmtEvents) /\ Tail(kInt) \in Seq(Queued(NmtEvents))
      BY <1>1, <2>1, HeadTail DEF KernelInternal
    <3>2. Head(kInt).what \notin Awaited /\ Without(Tail(kInt))
      BY <1>1, <2>1, Indices DEF KernelInternal, Senders, Without
    <3> QED BY <1>1, <2>1, <3>1, <3>2 DEF KernelInternal
  <2>2. CASE KernelUser
    <3>1. Head(uk) \in Queued(NmtEvents) /\ Tail(uk) \in Seq(Queued(NmtEvents))
      BY <1>1, <2>2, HeadTail DEF KernelUser
    <3> QED BY <1>1, <2>2, <3>1 DEF KernelUser, Senders
  <2> QED BY <2>1, <2>2
<1> DEFINE to == NmtkStep(nmtk, e.what).state
<1>3. e.what \in NmtEvents /\ to \in NmtStates /\ s \in NmtStates
  <2>1. e.what \in NmtEvents
    BY DEF Queued
  <2> QED BY <1>1, <2>1, StepType DEF Nmtk
<1>4. CASE to = s
  <2>1. nmtk'.state = s /\ kInt' = k /\ uk' = u /\ ku' = ku /\ owed' = owed /\ timer' = timer
        /\ outrun' = outrun
    BY <1>2, <1>4 DEF nmtk_process, TypeOK
  <2>2. Senders'
    BY <1>2, <2>1, FreshNext DEF Senders
  <2>3. CASE outrun
    BY <2>1, <2>2, <2>3, FreshNext
  <2>4. CASE ~outrun
    <3>1. OnlyLate(s, uk, ku, timer) /\ NewestLast(s, uk, ku, timer)
      BY <2>4 DEF Fresh
    <3>2. OnlyLate(s, u, ku, timer) /\ NewestLast(s, u, ku, timer)
      BY <1>1, <1>2, <3>1, TailFresh
    <3> QED BY <2>1, <2>2, <3>2, FreshNext
  <2> QED BY <2>3, <2>4
<1>5. CASE to # s
  <2>1. /\ nmtk'.state = to /\ kInt' = Age(k, to) /\ uk' = Age(u, to) /\ ku' = Append(Age(ku, to), New(to))
        /\ owed' = Age(owed, to) /\ timer' = (IF timer # "off" THEN Older(timer, to) ELSE timer)
        /\ outrun' = (outrun \/ (e.what \in ResetAnswers /\ e.age # "new"))
    BY <1>2, <1>5 DEF nmtk_process
  <2> HIDE DEF to
  <2>2. Senders'
    <3>1. \A W : \A q \in Seq(Queued(W)) : Without(q) => Without(Age(q, to))
      <4> TAKE W
      <4> TAKE q \in Seq(Queued(W))
      <4> HAVE Without(q)
      <4> QED BY AgeType DEF Without
    <3>2. Age(ku, to) \in Seq(Queued(NmtStates \union NmtEvents))
      BY <1>1, AgeType
    <3>3. New(to).what = to /\ to \notin Awaited
      BY <1>3, Disjoint DEF New, Awaited, ResetAnswers, Timer, NmtEvents
    <3>4. Without(Age(k, to)) /\ Without(Age(owed, to)) /\ Without(Age(ku, to))
      BY <1>1, <1>2, <3>1 DEF Senders
    <3>5. Without(Append(Age(ku, to), New(to)))
      BY <3>2, <3>3, <3>4, WithoutAppend
    <3> QED BY <2>1, <3>4, <3>5, FreshNext
  <2>3. CASE outrun'
    BY <2>2, <2>3, FreshNext
  <2>4. CASE ~outrun'
    <3>1. OnlyLate(s, uk, ku, timer) /\ NewestLast(s, uk, ku, timer) /\ (e.what \in ResetAnswers => e.age = "new")
      BY <2>1, <2>4 DEF Fresh
    <3>2. CASE e.what \in ResetAnswers
      <4>1. e.what \in Awaited
        BY <3>2 DEF Awaited
      <4>2. uk # <<>> /\ e = Head(uk) /\ u = Tail(uk) /\ e.age = "new"
        BY <1>2, <3>1, <3>2, <4>1
      <4>3. /\ timer = "off"
            /\ OnlyLate(to, Age(Tail(uk), to), Append(Age(ku, to), New(to)), timer)
            /\ NewestLast(to, Age(Tail(uk), to), Append(Age(ku, to), New(to)), timer)
        BY <1>1, <1>3, <3>1, <3>2, <4>2, AnswerFresh
      <4> QED BY <2>1, <2>2, <4>2, <4>3, FreshNext
    <3>3. CASE e.what \notin ResetAnswers
      <4>1. to = "GsOff" \/ Late(s) \union ({Reaction(s)} \intersect Awaited) \subseteq Late(to)
        BY <1>1, <1>3, <1>5, <3>3, StepLate DEF to
      <4>2. OnlyLate(s, u, ku, timer) /\ NewestLast(s, u, ku, timer)
        BY <1>1, <1>2, <3>1, TailFresh
      <4>3. OnlyLate(to, uk', ku', timer') /\ NewestLast(to, uk', ku', timer')
        BY <1>1, <1>3, <2>1, <4>1, <4>2, MoveFresh
      <4> QED BY <2>1, <2>2, <4>3, FreshNext
    <3> QED BY <3>2, <3>3
  <2> QED BY <2>3, <2>4
<1> QED BY <1>4, <1>5

(* The user thread takes a state change or a command; of the reset states it answers itself. *)
LEMMA UserFresh ==
  ASSUME MayReject \intersect GsReset = {}, TypeOK, Fresh, Senders, UserThread
  PROVE  Fresh' /\ Senders'
<1> DEFINE c == Head(ku)
           s == nmtk.state
<1>1. /\ uk \in Seq(Queued(NmtEvents)) /\ ku \in Seq(Queued(NmtStates \union NmtEvents))
      /\ owed \in Seq(Queued(Answers)) /\ ku # <<>> /\ ku' = Tail(ku)
      /\ nmtk' = nmtk /\ kInt' = kInt /\ outrun' = outrun
  BY DEF TypeOK, UserThread
<1>2. Without(Tail(ku)) /\ c.what \notin Awaited
  BY <1>1, Indices DEF Senders, Without
<1>3. CASE StateChange(c)
  <2>1. /\ c.what \in NmtStates
        /\ \/ uk' = Post(uk, c) /\ timer' = TimerAfter(c) /\ owed' = owed
           \/ c.what \notin GsReset /\ uk' = uk /\ timer' = "off" /\ owed' = Post(owed, c)
    BY <1>3 DEF StateChange
  <2>2. Without(owed')
    <3>1. CASE owed' = owed
      BY <3>1 DEF Senders
    <3>2. CASE c.what \notin GsReset /\ owed' = Post(owed, c)
      <4>1. AnswerTo(c.what) \notin Awaited
        BY <3>2 DEF AnswerTo, GsReset, Awaited, ResetAnswers, Answers, Timer
      <4>2. \/ owed' = owed
            \/ /\ DOMAIN owed' = 1..(Len(owed) + 1) /\ DOMAIN owed = 1..Len(owed) /\ Len(owed) \in Nat
               /\ \A i \in DOMAIN owed : owed'[i] = owed[i]
               /\ owed'[Len(owed) + 1].what = AnswerTo(c.what)
        BY <1>1, <3>2, Indices DEF Post
      <4>3. Without(owed)
        BY DEF Senders
      <4> QED BY <4>1, <4>2, <4>3 DEF Without
    <3> QED BY <2>1, <3>1, <3>2
  <2>3. Senders'
    BY <1>1, <1>2, <2>2, FreshNext DEF Senders
  <2>4. CASE outrun
    BY <1>1, <2>3, <2>4, FreshNext
  <2>5. CASE ~outrun
    <3>1. OnlyLate(s, uk, ku, timer) /\ NewestLast(s, uk, ku, timer)
      BY <2>5 DEF Fresh
    <3>2. OnlyLate(s, uk', Tail(ku), timer') /\ NewestLast(s, uk', Tail(ku), timer')
      BY <1>1, <2>1, <3>1, ReactFresh
    <3> QED BY <1>1, <2>3, <3>2, FreshNext
  <2> QED BY <2>4, <2>5
<1>4. CASE commandCb(c)
  <2>1. c.what \notin NmtStates /\ (uk' = Append(uk, c) \/ uk' = uk) /\ timer' = timer /\ owed' = owed
    BY <1>4 DEF commandCb
  <2>2. Senders'
    BY <1>1, <1>2, <2>1, FreshNext DEF Senders
  <2>3. CASE outrun
    BY <1>1, <2>2, <2>3, FreshNext
  <2>4. CASE ~outrun
    <3>1. OnlyLate(s, uk, ku, timer) /\ NewestLast(s, uk, ku, timer)
      BY <2>4 DEF Fresh
    <3>2. OnlyLate(s, uk', ku, timer) /\ NewestLast(s, uk', ku, timer)
      BY <1>1, <1>2, <2>1, <3>1, AppendFresh
    <3>3. /\ \A i \in DOMAIN Tail(ku) : i + 1 \in DOMAIN ku /\ Tail(ku)[i] = ku[i + 1] /\ i \in Nat
          /\ \A i \in ChangesOf(Tail(ku)) : i + 1 \in ChangesOf(ku)
          /\ \A i \in ChangesOf(ku) : i # 1 /\ i - 1 \in ChangesOf(Tail(ku))
      <4>1. Tail(ku) \in Seq(Queued(NmtStates \union NmtEvents))
        BY <1>1, HeadTail
      <4>2. DOMAIN Tail(ku) = 1..Len(Tail(ku)) /\ Len(Tail(ku)) \in Nat
        BY <4>1, Indices
      <4> QED BY <1>1, <2>1, <4>2, Indices DEF ChangesOf
    <3>4. OnlyLate(s, uk', Tail(ku), timer)
      BY <3>2, <3>3 DEF OnlyLate, ChangesOf
    <3>5. NewestLast(s, uk', Tail(ku), timer)
      <4>1. ChangesOf(ku) = {} => ChangesOf(Tail(ku)) = {}
        BY <3>3
      <4>2. \A i \in ChangesOf(Tail(ku)) : Tail(ku)[i].age = "new" =>
              /\ Tail(ku)[i].what = s /\ \A j \in ChangesOf(Tail(ku)) : j <= i
              /\ timer # "new"
              /\ \A j \in DOMAIN uk' : uk'[j].age = "new" => uk'[j].what \notin Awaited
        <5> SUFFICES ASSUME NEW i \in ChangesOf(Tail(ku)), Tail(ku)[i].age = "new"
                     PROVE  /\ Tail(ku)[i].what = s /\ \A j \in ChangesOf(Tail(ku)) : j <= i
                            /\ timer # "new"
                            /\ \A j \in DOMAIN uk' : uk'[j].age = "new" => uk'[j].what \notin Awaited
          OBVIOUS
        <5>1. i + 1 \in ChangesOf(ku) /\ ku[i + 1] = Tail(ku)[i] /\ i \in Nat
          BY <3>3 DEF ChangesOf
        <5>2. /\ Tail(ku)[i].what = s /\ \A j \in ChangesOf(ku) : j <= i + 1
              /\ timer # "new"
              /\ \A j \in DOMAIN uk' : uk'[j].age = "new" => uk'[j].what \notin Awaited
          BY <3>2, <5>1 DEF NewestLast
        <5>3. \A j \in ChangesOf(Tail(ku)) : j <= i
          BY <3>3, <5>1, <5>2 DEF ChangesOf
        <5> QED BY <5>2, <5>3
      <4> QED BY <3>2, <4>1, <4>2 DEF NewestLast
    <3> QED BY <1>1, <2>1, <2>2, <3>4, <3>5, FreshNext
  <2> QED BY <2>3, <2>4
<1> QED BY <1>3, <1>4 DEF UserThread

LEMMA OthersFresh ==
  ASSUME TypeOK, Fresh, Senders,
         TimerExpires \/ ApplicationAnswers \/ Environment \/ UNCHANGED vars
  PROVE  Fresh' /\ Senders'
<1> DEFINE s == nmtk.state
<1>1. /\ kInt \in Seq(Queued(NmtEvents)) /\ uk \in Seq(Queued(NmtEvents))
      /\ ku \in Seq(Queued(NmtStates \union NmtEvents)) /\ owed \in Seq(Queued(Answers))
      /\ timer \in Ages \union {"off"}
  BY DEF TypeOK
<1>2. nmtk' = nmtk /\ outrun' = outrun
  BY DEF TimerExpires, ApplicationAnswers, Environment, KernelPosts, CommandArrives, oplk_execNmtCommand, vars
<1>3. \A W : \A q \in Seq(W) : \A x : Without(q) /\ x.what \notin Awaited => Without(Append(q, x))
  BY WithoutAppend
<1>4. \A e \in MnCommands \union Resets \union Frames \union Faults \union {"SwitchOff"} :
        New(e).what = e /\ e \notin Awaited
  BY DEF New, MnCommands, Resets, Frames, Faults, Awaited, ResetAnswers, Answers, Timer
<1>5. CASE TimerExpires
  <2>1. uk' = Append(uk, [what |-> Timer, age |-> timer]) /\ timer' = "off" /\ timer \in Ages
        /\ kInt' = kInt /\ ku' = ku /\ owed' = owed
    BY <1>1, <1>5 DEF TimerExpires, Timer
  <2>2. CASE ~outrun
    <3>1. OnlyLate(s, uk, ku, timer) /\ NewestLast(s, uk, ku, timer)
      BY <2>2 DEF Fresh
    <3>2. OnlyLate(s, uk', ku, "off") /\ NewestLast(s, uk', ku, "off")
      BY <1>1, <2>1, <3>1, ExpiresFresh
    <3> QED BY <1>2, <2>1, <3>2, FreshNext DEF Senders
  <2> QED BY <1>2, <2>1, <2>2, FreshNext DEF Senders
<1>6. ASSUME NEW x, x.what \notin Awaited, uk' = Append(uk, x), UNCHANGED <<kInt, ku, timer>>, Without(owed')
      PROVE  Fresh' /\ Senders'
  <2>1. CASE ~outrun
    <3>1. OnlyLate(s, uk, ku, timer) /\ NewestLast(s, uk, ku, timer)
      BY <2>1 DEF Fresh
    <3>2. OnlyLate(s, uk', ku, timer) /\ NewestLast(s, uk', ku, timer)
      BY <1>1, <1>6, <3>1, AppendFresh
    <3> QED BY <1>2, <1>6, <3>2, FreshNext DEF Senders
  <2> QED BY <1>2, <1>6, <2>1, FreshNext DEF Senders
<1>7. CASE ApplicationAnswers
  <2>1. Head(owed).what \notin Awaited /\ Without(Tail(owed))
    BY <1>1, <1>7, Indices DEF ApplicationAnswers, Senders, Without
  <2> QED BY <1>6, <1>7, <2>1 DEF ApplicationAnswers
<1>8. ASSUME NEW e \in NmtEvents, oplk_execNmtCommand(e) PROVE Fresh' /\ Senders'
  <2>1. New(e).what \notin Awaited /\ Without(owed)
    BY <1>4, <1>8 DEF oplk_execNmtCommand, Senders
  <2> QED BY <1>6, <1>8, <2>1 DEF oplk_execNmtCommand
<1>9. ASSUME NEW e \in NmtEvents, KernelPosts(e) PROVE Fresh' /\ Senders'
  <2>1. New(e).what \notin Awaited
    BY <1>4, <1>9 DEF KernelPosts, FramesOf
  <2>2. kInt' = Append(kInt, New(e)) /\ uk' = uk /\ ku' = ku /\ owed' = owed /\ timer' = timer
    BY <1>9 DEF KernelPosts
  <2>3. Without(kInt')
    BY <1>1, <1>3, <2>1, <2>2 DEF Senders
  <2> QED BY <1>2, <2>2, <2>3, FreshNext DEF Senders, Fresh
<1>10. ASSUME NEW e \in NmtEvents, CommandArrives(e) PROVE Fresh' /\ Senders'
  <2>1. New(e).what \notin Awaited /\ New(e).what = e
    BY <1>4, <1>10 DEF CommandArrives
  <2>2. kInt' = kInt /\ uk' = uk /\ ku' = Append(ku, New(e)) /\ owed' = owed /\ timer' = timer
    BY <1>10 DEF CommandArrives
  <2>3. Without(ku') /\ New(e).what \notin NmtStates
    BY <1>1, <1>3, <2>1, <2>2, Disjoint DEF Senders
  <2>4. CASE ~outrun
    <3>1. OnlyLate(s, uk, ku, timer) /\ NewestLast(s, uk, ku, timer)
      BY <2>4 DEF Fresh
    <3>2. OnlyLate(s, uk, ku', timer) /\ NewestLast(s, uk, ku', timer)
      BY <1>1, <2>2, <2>3, <3>1, CommandFresh
    <3> QED BY <1>2, <2>2, <2>3, <3>2, FreshNext DEF Senders
  <2> QED BY <1>2, <2>2, <2>3, <2>4, FreshNext DEF Senders
<1>11. CASE UNCHANGED vars
  BY <1>11, FreshNext DEF vars, Fresh, Senders
<1> QED BY <1>5, <1>7, <1>8, <1>9, <1>10, <1>11 DEF Environment

(* nmtk.c, nmtu.c: no event that is left from an earlier state moves the kernel, unless an answer that was *)
(* not for its state has already moved it.                                                                *)
THEOREM NoStaleMoveCorrect ==
  ASSUME MayReject \intersect GsReset = {}
  PROVE  Spec => []NoStaleMove
<1>1. Init => TypeOK /\ Fresh /\ Senders
  BY InvInit, FreshInit DEF Inv
<1>2. Fresh /\ Senders /\ TypeOK /\ [Next]_vars => (Fresh /\ Senders)'
  BY ProcessFresh, UserFresh, OthersFresh DEF Next
<1>3. TypeOK /\ Fresh => NoStaleMove
  <2> SUFFICES ASSUME TypeOK, Fresh, uk # <<>>, Head(uk).age = "old", ~outrun, Head(uk).what \in Awaited
               PROVE  NmtkStep(nmtk, Head(uk).what).state = nmtk.state
    BY DEF NoStaleMove, Awaited, Timer
  <2>1. 1 \in DOMAIN uk /\ Head(uk) = uk[1]
    BY Indices DEF TypeOK
  <2>2. Head(uk).what \in Late(nmtk.state)
    BY <2>1 DEF Fresh, OnlyLate
  <2> QED BY <2>2, LateStays DEF TypeOK
<1> QED BY <1>1, <1>2, <1>3, TypeCorrect, PTL DEF Spec
=============================================================================
