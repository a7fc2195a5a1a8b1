--------------------------- MODULE EventCalProofs ---------------------------
(***************************************************************************)
(* Proofs about EventCal, for any number of calling threads, any capacity  *)
(* of the queues and any number of posts and restarts.                     *)
(*                                                                         *)
(* NoLostWakeup and CountHolds need each other (a stale count would use up *)
(* a wakeup for nothing), and both need the life cycle of the threads: a   *)
(* queue is only freed when its reader has ended.                          *)
(***************************************************************************)
EXTENDS EventCal, FiniteSetTheorems, TLAPS

\* The handshake over fStopThread, and the order in which the layers start and stop.
LifeCycle ==
    /\ \A t \in Layer : /\ state[t] = "up" => pc[t] # "gone" /\ ~fStopThread[t]
                        /\ state[t] = "stopping" => (fStopThread[t] <=> pc[t] # "gone")
                        /\ state[t] = "down" => pc[t] = "gone" /\ ~fStopThread[t]
    /\ state["user"] # "down" => state["kernel"] = "up"

TodoLeft == \A t \in Layer : pc[t] = "handle" => todo[t] > 0

Inv == TypeOK /\ TodoLeft /\ LifeCycle /\ CountHolds /\ NoLostWakeup

LEMMA CallerFinite == IsFiniteSet(Caller)
<1>1. IsFiniteSet(Layer)
  <2>1. IsFiniteSet({"kernel"}) /\ {"kernel"} \cup {"user"} = Layer
    BY FS_Singleton DEF Layer
  <2> QED BY <2>1, FS_Singleton, FS_Union
<1>2. IsFiniteSet(KernelCaller \cup UserCaller)
  BY FS_Union, EventCalAssumption
<1>3. Caller = Layer \cup (KernelCaller \cup UserCaller)
  BY DEF Caller
<1>4. IsFiniteSet(Layer \cup (KernelCaller \cup UserCaller))
  BY <1>1, <1>2, FS_Union
<1> QED BY <1>3, <1>4

LEMMA SignallersFinite ==
    ASSUME NEW t PROVE IsFiniteSet(Signallers(t)) /\ Cardinality(Signallers(t)) \in Nat
<1>1. IsFiniteSet(Signallers(t))
  BY CallerFinite, FS_Subset DEF Signallers
<1> QED BY <1>1, FS_CardinalityType

\* The type of what an event can be put into.
LEMMA QueueTypes ==
    /\ \A t \in Layer : High(t) \in Queue /\ Low(t) \in Queue /\ High(t) # Low(t)
    /\ \A t \in Layer : Reader(High(t)) = t /\ Reader(Low(t)) = t
    /\ \A q \in Queue : Reader(q) \in Layer /\ (q = High(Reader(q)) \/ q = Low(Reader(q)))
    /\ \A t, sink : QueueFor(t, sink) \in Queue
    /\ \A sink : Handlers(sink) \in Nat \ {0}
    /\ NoSignal \notin Layer
BY DEF Layer, High, Low, Queue, Reader, QueueFor, Handlers, NoSignal

-----------------------------------------------------------------------------
(* How the steps on queues and signals change the sums of NoLostWakeup.    *)

\* A caller that has stored an event adds one event and one signal to a layer, or, when the queue
\* is full, nothing.
LEMMA StoreSums ==
    ASSUME TypeOK, NEW c \in Caller, signalling[c] = NoSignal, NEW sink \in Sink,
           Store(c, sink), UNCHANGED sem, NEW t \in Layer
    PROVE  /\ Tokens(t)' - Tokens(t) = Events(t)' - Events(t)
           /\ Len(queue[Low(t)]) <= Len(queue[Low(t)]')
           /\ Len(queue[High(t)]) <= Len(queue[High(t)]')
           /\ Tokens(t)' - Tokens(t) >= Len(queue[Low(t)]') - Len(queue[Low(t)])
<1> DEFINE q == QueueFor(LayerOf(c), sink)
<1> USE DEF TypeOK
<1>0. /\ q \in Queue /\ High(t) \in Queue /\ Low(t) \in Queue /\ High(t) # Low(t)
      /\ Reader(q) \in Layer
  BY QueueTypes
<1>1. /\ Len(queue[High(t)]) \in Nat /\ Len(queue[Low(t)]) \in Nat
      /\ sem[t] \in Nat /\ Cardinality(Signallers(t)) \in Nat
  BY <1>0, SignallersFinite
<1>2. CASE Len(queue[q]) >= Capacity
  <2>1. queue' = queue /\ signalling' = signalling
    BY <1>2, <1>0, EventCalAssumption DEF Store
  <2> QED BY <2>1, <1>1 DEF Tokens, Events, Signallers
<1>3. CASE Len(queue[q]) < Capacity
  <2>1. /\ queue' = [queue EXCEPT ![q] = Append(@, sink)]
        /\ signalling' = [signalling EXCEPT ![c] = Reader(q)]
    BY <1>3 DEF Store
  <2>2. /\ Len(queue'[q]) = Len(queue[q]) + 1
        /\ \A r \in Queue : r # q => queue'[r] = queue[r]
    BY <2>1, <1>0
  <2>3. CASE Reader(q) = t
    <3>1. Signallers(t)' = Signallers(t) \cup {c} /\ c \notin Signallers(t)
      BY <2>1, <2>3, QueueTypes DEF Signallers
    <3>2. Cardinality(Signallers(t)') = Cardinality(Signallers(t)) + 1
      BY <3>1, SignallersFinite, FS_AddElement
    <3>3. q = High(t) \/ q = Low(t)
      BY <2>3, <1>0, QueueTypes
    <3>4. Tokens(t)' = Tokens(t) + 1 /\ Tokens(t) \in Nat
      BY <3>2, <1>1 DEF Tokens
    <3>5. CASE q = High(t)
      <4>1. /\ Len(queue'[High(t)]) = Len(queue[High(t)]) + 1
            /\ Len(queue'[Low(t)]) = Len(queue[Low(t)])
        BY <3>5, <2>2, <1>0
      <4> HIDE DEF TypeOK
      <4> DEFINE h == Len(queue[High(t)])
                 l == Len(queue[Low(t)])
      <4>2. /\ Events(t) = h + l /\ Events(t)' = (h + 1) + l
            /\ h \in Nat /\ l \in Nat
        BY <4>1, <1>1 DEF Events
      <4>3. Events(t)' = Events(t) + 1 /\ Events(t) \in Nat
        <5> HIDE DEF h, l
        <5> QED BY <4>2
      <4> QED BY <4>1, <4>3, <3>4, <1>1
    <3>6. CASE q = Low(t)
      <4>1. /\ Len(queue'[Low(t)]) = Len(queue[Low(t)]) + 1
            /\ Len(queue'[High(t)]) = Len(queue[High(t)])
        BY <3>6, <2>2, <1>0
      <4> HIDE DEF TypeOK
      <4> QED BY <4>1, <3>4, <1>1 DEF Events
    <3> QED BY <3>3, <3>5, <3>6
  <2>4. CASE Reader(q) # t
    <3>1. Signallers(t)' = Signallers(t)
      BY <2>1, <2>4, QueueTypes DEF Signallers
    <3>2. q # High(t) /\ q # Low(t)
      BY <2>4, QueueTypes
    <3>3. Tokens(t)' = Tokens(t)
      BY <3>1 DEF Tokens
    <3>4. /\ Len(queue'[High(t)]) = Len(queue[High(t)])
          /\ Len(queue'[Low(t)]) = Len(queue[Low(t)])
      BY <3>2, <2>2, <1>0
    <3> HIDE DEF TypeOK
    <3> QED BY <3>3, <3>4, <1>1 DEF Events, Tokens
  <2> QED BY <2>3, <2>4
<1> QED BY <1>2, <1>3, <1>0, EventCalAssumption

LEMMA StoreType ==
    ASSUME TypeOK, NEW c \in Caller, NEW sink \in Sink, Store(c, sink)
    PROVE  /\ queue' \in [Queue -> Seq(Sink)] /\ \A q \in Queue : Len(queue'[q]) <= Capacity
           /\ signalling' \in [Caller -> Layer \cup {NoSignal}]
           /\ \A r \in Queue : queue[r] # <<>> => queue'[r] # <<>>
<1> DEFINE q == QueueFor(LayerOf(c), sink)
<1> USE DEF TypeOK
<1>0. q \in Queue /\ Reader(q) \in Layer
  BY QueueTypes
<1>1. CASE Len(queue[q]) >= Capacity
  BY <1>1, <1>0, EventCalAssumption DEF Store
<1>2. CASE Len(queue[q]) < Capacity
  <2>1. /\ queue' = [queue EXCEPT ![q] = Append(@, sink)]
        /\ signalling' = [signalling EXCEPT ![c] = Reader(q)]
    BY <1>2 DEF Store
  <2>2. queue' \in [Queue -> Seq(Sink)] /\ signalling' \in [Caller -> Layer \cup {NoSignal}]
    BY <2>1, <1>0
  <2>3. Len(queue'[q]) = Len(queue[q]) + 1 /\ queue'[q] # <<>>
    BY <2>1, <1>0
  <2>4. \A r \in Queue : r # q => queue'[r] = queue[r]
    BY <2>1, <1>0
  <2> QED BY <2>2, <2>3, <2>4, <1>2, <1>0, EventCalAssumption
<1> QED BY <1>1, <1>2, <1>0, EventCalAssumption

\* A signal turns one of a layer's signallers into one of its semaphore: the sum stays.
LEMMA SignalSums ==
    ASSUME TypeOK, NEW c \in Caller, signalEvent(c), NEW t \in Layer
    PROVE  Tokens(t)' = Tokens(t)
<1> USE DEF TypeOK
<1>1. Cardinality(Signallers(t)) \in Nat /\ sem[t] \in Nat
  BY SignallersFinite
<1>2. CASE signalling[c] = t
  <2>1. Signallers(t)' = Signallers(t) \ {c} /\ c \in Signallers(t)
    BY <1>2, QueueTypes DEF signalEvent, Signallers
  <2>2. Cardinality(Signallers(t)') = Cardinality(Signallers(t)) - 1
    BY <2>1, SignallersFinite, FS_RemoveElement
  <2>3. sem'[t] = sem[t] + 1
    BY <1>2 DEF signalEvent
  <2> QED BY <2>2, <2>3, <1>1 DEF Tokens
<1>3. CASE signalling[c] # t
  <2>1. Signallers(t)' = Signallers(t)
    BY <1>3, QueueTypes DEF signalEvent, Signallers
  <2>2. sem'[t] = sem[t]
    BY <1>3 DEF signalEvent
  <2> QED BY <2>1, <2>2 DEF Tokens
<1> QED BY <1>2, <1>3

-----------------------------------------------------------------------------
(* Invariance.                                                             *)

LEMMA InitInv == Init => Inv
<1> SUFFICES ASSUME Init PROVE Inv
  OBVIOUS
<1>1. TypeOK
  BY EventCalAssumption, QueueTypes DEF Init, TypeOK, Sink
<1>2. TodoLeft /\ LifeCycle /\ CountHolds
  BY DEF Init, TodoLeft, LifeCycle, CountHolds, Layer
<1>3. NoLostWakeup
  <2> SUFFICES ASSUME NEW t \in Layer PROVE Tokens(t) + Taken(t) >= Events(t)
    BY DEF NoLostWakeup
  <2>1. Events(t) = 0
    <3>1. queue[High(t)] = <<>> /\ queue[Low(t)] = <<>>
      BY QueueTypes DEF Init
    <3> QED BY <3>1 DEF Events
  <2>2. Tokens(t) \in Nat
    BY <1>1, SignallersFinite DEF Tokens, TypeOK
  <2>3. Taken(t) \in {0, 1}
    BY DEF Taken
  <2> QED BY <2>1, <2>2, <2>3
<1> QED BY <1>1, <1>2, <1>3 DEF Inv

\* What every step has to show of NoLostWakeup, in the numbers it compares.
LEMMA SumTypes ==
    ASSUME TypeOK, NEW t \in Layer
    PROVE  /\ Tokens(t) \in Nat /\ Events(t) \in Nat /\ Taken(t) \in {0, 1}
           /\ Len(queue[High(t)]) \in Nat /\ Len(queue[Low(t)]) \in Nat
<1>1. Len(queue[High(t)]) \in Nat /\ Len(queue[Low(t)]) \in Nat
  BY QueueTypes DEF TypeOK
<1>2. Tokens(t) \in Nat
  BY SignallersFinite DEF Tokens, TypeOK
<1>3. Taken(t) \in {0, 1}
  BY DEF Taken
<1>4. Events(t) \in Nat
  <2> DEFINE h == Len(queue[High(t)])
             l == Len(queue[Low(t)])
  <2>1. Events(t) = h + l /\ h \in Nat /\ l \in Nat
    BY <1>1 DEF Events
  <2> HIDE DEF h, l
  <2> QED BY <2>1
<1> QED BY <1>1, <1>2, <1>3, <1>4

\* The same of the next state.
LEMMA SumTypesNext ==
    ASSUME TypeOK', NEW t \in Layer
    PROVE  Tokens(t)' \in Nat /\ Events(t)' \in Nat /\ Taken(t)' \in {0, 1}
<1> DEFINE h == Len(queue'[High(t)])
           l == Len(queue'[Low(t)])
<1>1. h \in Nat /\ l \in Nat /\ Events(t)' = h + l
  BY QueueTypes DEF TypeOK, Events
<1>2. IsFiniteSet(Signallers(t)') /\ Cardinality(Signallers(t)') \in Nat
  <2>1. IsFiniteSet(Signallers(t)')
    BY CallerFinite, FS_Subset DEF Signallers
  <2> QED BY <2>1, FS_CardinalityType
<1>3. Tokens(t)' \in Nat
  BY <1>2 DEF Tokens, TypeOK
<1>4. Taken(t)' \in {0, 1}
  BY DEF Taken
<1>5. Events(t)' \in Nat
  <2> HIDE DEF h, l
  <2> QED BY <1>1
<1> QED BY <1>3, <1>4, <1>5

\* An event thread counts, loops, or waits: the queues and the signallers stay.
LEMMA WaitingSteps ==
    ASSUME Inv, NEW t \in Layer,
           Loop(t) \/ sem_timedwait(t) \/ CountHigh(t) \/ CountLow(t)
    PROVE  Inv'
<1> USE DEF Inv
<1>1. TypeOK'
  <2>1. UNCHANGED <<queue, todo, signalling, state, posts, restarts>>
    BY DEF Loop, sem_timedwait, CountHigh, CountLow
  <2>2. pc' \in [Layer -> {"top", "wait", "woken", "high", "noHigh", "low", "handle", "gone"}]
    BY DEF TypeOK, Loop, sem_timedwait, CountHigh, CountLow, Goto
  <2>3. fStopThread' \in [Layer -> BOOLEAN]
    BY DEF TypeOK, Loop, sem_timedwait, CountHigh, CountLow
  <2>4. sem' \in [Layer -> Nat]
    BY DEF TypeOK, Loop, sem_timedwait, CountHigh, CountLow
  <2> QED BY <2>1, <2>2, <2>3, <2>4 DEF TypeOK
<1>2. TodoLeft'
  BY DEF TodoLeft, TypeOK, Loop, sem_timedwait, CountHigh, CountLow, Goto
<1>3. LifeCycle'
  BY DEF LifeCycle, TypeOK, Loop, sem_timedwait, CountHigh, CountLow, Goto, At, Layer
<1>4. CountHolds'
  BY DEF CountHolds, TypeOK, Loop, sem_timedwait, CountHigh, CountLow, Goto
<1>5. NoLostWakeup'
  <2> SUFFICES ASSUME NEW u \in Layer PROVE (Tokens(u) + Taken(u) >= Events(u))'
    BY DEF NoLostWakeup
  <2>1. queue' = queue /\ signalling' = signalling
    BY DEF Loop, sem_timedwait, CountHigh, CountLow
  <2>2. Events(u)' = Events(u) /\ Signallers(u)' = Signallers(u)
    BY <2>1 DEF Events, Signallers
  <2>3. Tokens(u) + Taken(u) >= Events(u)
    BY DEF NoLostWakeup
  <2>4. CASE u # t
    <3>1. sem'[u] = sem[u] /\ pc'[u] = pc[u]
      BY <2>4 DEF Loop, sem_timedwait, CountHigh, CountLow, Goto, TypeOK
    <3> QED BY <3>1, <2>1, <2>2, <2>3 DEF Tokens, Taken
  <2>5. CASE u = t
    <3>1. CASE Loop(t)
      BY <3>1, <2>1, <2>2, <2>3, <2>5 DEF Loop, At, Goto, Tokens, Taken, TypeOK
    <3>2. CASE sem_timedwait(t)
      BY <3>2, <2>1, <2>2, <2>3, <2>5, SignallersFinite
      DEF sem_timedwait, At, Goto, Tokens, Taken, TypeOK
    <3>3. CASE CountHigh(t)
      <4>1. Tokens(t)' = Tokens(t) /\ pc[t] = "woken"
        BY <3>3, <2>2, <2>5 DEF CountHigh, At, Tokens
      <4>2. CASE queue[High(t)] # <<>>
        BY <4>1, <4>2, <3>3, <2>1, <2>2, <2>3, <2>5 DEF CountHigh, Goto, Taken, TypeOK
      <4>3. CASE queue[High(t)] = <<>>
        <5>1. pc'[t] = "noHigh"
          BY <4>3, <3>3 DEF CountHigh, Goto, TypeOK
        <5>2. CASE queue[Low(t)] # <<>>
          BY <4>1, <5>1, <5>2, <2>1, <2>2, <2>3, <2>5 DEF Taken
        <5>3. CASE queue[Low(t)] = <<>>
          <6>1. Events(t) = 0
            BY <5>3, <4>3 DEF Events
          <6>2. Taken(t)' \in {0, 1}
            BY DEF Taken
          <6> QED BY <6>1, <6>2, <4>1, <2>2, <2>5, SumTypes
        <5> QED BY <5>2, <5>3
      <4> QED BY <4>2, <4>3
    <3>4. CASE CountLow(t)
      BY <3>4, <2>1, <2>2, <2>3, <2>5 DEF CountLow, At, Goto, Tokens, Taken, TypeOK
    <3> QED BY <3>1, <3>2, <3>3, <3>4
  <2> QED BY <2>4, <2>5
<1> QED BY <1>1, <1>2, <1>3, <1>4, <1>5

LEMMA processEventInv == ASSUME Inv, NEW t \in Layer, processEvent(t) PROVE Inv'
<1> USE DEF Inv
<1> DEFINE q == IF pc[t] = "high" THEN High(t) ELSE Low(t)
<1>1. q \in Queue /\ queue[q] \in Seq(Sink) /\ queue[q] # <<>>
  BY QueueTypes DEF CountHolds, TypeOK, processEvent, At
<1>2. /\ Goto(t, "handle") /\ todo' = [todo EXCEPT ![t] = Handlers(Head(queue[q]))]
      /\ queue' = [queue EXCEPT ![q] = Tail(@)]
      /\ UNCHANGED <<sem, signalling, fStopThread, state, posts, restarts>>
  BY <1>1 DEF processEvent
<1>3. Tail(queue[q]) \in Seq(Sink) /\ Len(Tail(queue[q])) = Len(queue[q]) - 1
  BY <1>1
<1>4. \A r \in Queue : r # q => queue'[r] = queue[r]
  BY <1>2 DEF TypeOK
<1>5. TypeOK'
  <2>1. queue' \in [Queue -> Seq(Sink)]
    BY <1>1, <1>2, <1>3 DEF TypeOK
  <2>2. \A r \in Queue : Len(queue'[r]) <= Capacity
    BY <1>1, <1>2, <1>3, <1>4, EventCalAssumption DEF TypeOK
  <2>3. todo' \in [Layer -> Nat]
    BY <1>2, QueueTypes DEF TypeOK
  <2> QED BY <2>1, <2>2, <2>3, <1>2 DEF TypeOK, Goto
<1>6. TodoLeft'
  BY <1>2, QueueTypes DEF TodoLeft, TypeOK, Goto
<1>7. LifeCycle'
  BY <1>2 DEF LifeCycle, TypeOK, Goto, processEvent, At
<1>8. CountHolds'
  <2> SUFFICES ASSUME NEW u \in Layer
               PROVE /\ pc'[u] = "high" => queue'[High(u)] # <<>>
                     /\ pc'[u] = "low" => queue'[Low(u)] # <<>>
    BY DEF CountHolds
  <2>1. CASE u = t
    BY <2>1, <1>2 DEF Goto, TypeOK
  <2>2. CASE u # t
    BY <2>2, <1>2, <1>4, QueueTypes DEF Goto, TypeOK, CountHolds
  <2> QED BY <2>1, <2>2
<1>9. NoLostWakeup'
  <2> SUFFICES ASSUME NEW u \in Layer PROVE (Tokens(u) + Taken(u) >= Events(u))'
    BY DEF NoLostWakeup
  <2>1. Tokens(u)' = Tokens(u) /\ Tokens(u) + Taken(u) >= Events(u)
    BY <1>2 DEF Tokens, Signallers, NoLostWakeup
  <2>2. CASE u # t
    <3>1. q # High(u) /\ q # Low(u)
      BY <2>2, QueueTypes
    <3>2. queue'[High(u)] = queue[High(u)] /\ queue'[Low(u)] = queue[Low(u)]
      BY <3>1, <1>4, QueueTypes
    <3>3. pc'[u] = pc[u]
      BY <2>2, <1>2 DEF Goto, TypeOK
    <3> QED BY <3>2, <3>3, <2>1 DEF Taken, Events
  <2>3. CASE u = t
    <3>1. Taken(t) = 1 /\ Taken(t)' = 0
      BY <1>2 DEF processEvent, At, Taken, Goto, TypeOK
    <3>2. Events(t)' = Events(t) - 1
      <4> DEFINE h == Len(queue[High(t)])
                 l == Len(queue[Low(t)])
      <4>1. h \in Nat /\ l \in Nat /\ Events(t) = h + l
        BY SumTypes DEF Events
      <4>2. CASE q = High(t)
        <5>1. Len(queue'[High(t)]) = h - 1 /\ Len(queue'[Low(t)]) = l
          BY <4>2, <1>1, <1>2, <1>3, <1>4, QueueTypes DEF TypeOK
        <5>2. Events(t)' = (h - 1) + l
          BY <5>1 DEF Events
        <5> HIDE DEF h, l
        <5> QED BY <5>2, <4>1
      <4>3. CASE q = Low(t)
        <5>1. Len(queue'[High(t)]) = h /\ Len(queue'[Low(t)]) = l - 1
          BY <4>3, <1>1, <1>2, <1>3, <1>4, QueueTypes DEF TypeOK
        <5>2. Events(t)' = h + (l - 1)
          BY <5>1 DEF Events
        <5> HIDE DEF h, l
        <5> QED BY <5>2, <4>1
      <4> QED BY <4>2, <4>3
    <3> QED BY <3>1, <3>2, <2>1, <2>3, SumTypes
  <2> QED BY <2>2, <2>3
<1> QED BY <1>5, <1>6, <1>7, <1>8, <1>9

\* A post, from outside or from a handler: sums by StoreSums.  `Taken` can only grow, except that a
\* thread which has seen no event of priority counts an event in its other queue as taken.
LEMMA PostSums ==
    ASSUME Inv, TypeOK', NEW c \in Caller, signalling[c] = NoSignal, NEW sink \in Sink,
           Store(c, sink), UNCHANGED sem,
           \A t \in Layer : pc'[t] = pc[t] \/ (pc[t] = "handle" /\ pc'[t] = "top")
    PROVE  CountHolds' /\ NoLostWakeup'
<1> USE DEF Inv
<1>1. \A r \in Queue : queue[r] # <<>> => queue'[r] # <<>>
  BY StoreType
<1>2. CountHolds'
  BY <1>1, QueueTypes DEF CountHolds
<1>3. NoLostWakeup'
  <2> SUFFICES ASSUME NEW u \in Layer PROVE (Tokens(u) + Taken(u) >= Events(u))'
    BY DEF NoLostWakeup
  <2>1. Tokens(u)' - Tokens(u) = Events(u)' - Events(u)
    BY StoreSums
  <2>2. Taken(u)' >= Taken(u)
    BY <1>1, QueueTypes DEF Taken
  <2>3. Tokens(u) + Taken(u) >= Events(u)
    BY DEF NoLostWakeup
  <2>4. /\ Tokens(u) \in Nat /\ Events(u) \in Nat /\ Taken(u) \in {0, 1}
        /\ Tokens(u)' \in Nat /\ Events(u)' \in Nat /\ Taken(u)' \in {0, 1}
    BY SumTypes, SumTypesNext
  <2> QED BY <2>1, <2>2, <2>3, <2>4
<1> QED BY <1>2, <1>3

LEMMA PostInv ==
    ASSUME Inv, NEW c \in KernelCaller \cup UserCaller, NEW sink \in Sink, postEvent(c, sink)
    PROVE  Inv'
<1> USE DEF Inv
<1>1. c \in Caller /\ Store(c, sink) /\ signalling[c] = NoSignal
  BY DEF Caller, postEvent, MayPost
<1>2. UNCHANGED <<sem, pc, todo, fStopThread, state, restarts>> /\ posts' = posts + 1
  BY DEF postEvent, MayPost
<1>3. TypeOK'
  BY <1>1, <1>2, StoreType DEF TypeOK
<1>4. TodoLeft' /\ LifeCycle'
  BY <1>2 DEF TodoLeft, LifeCycle
<1>5. CountHolds' /\ NoLostWakeup'
  BY <1>1, <1>2, <1>3, PostSums
<1> QED BY <1>3, <1>4, <1>5

LEMMA SignalInv == ASSUME Inv, NEW c \in Caller, signalEvent(c) PROVE Inv'
<1> USE DEF Inv
<1>1. UNCHANGED <<queue, pc, todo, fStopThread, state, posts, restarts>>
  BY DEF signalEvent
<1>2. TypeOK'
  BY <1>1 DEF TypeOK, signalEvent
<1>3. TodoLeft' /\ LifeCycle' /\ CountHolds'
  BY <1>1 DEF TodoLeft, LifeCycle, CountHolds
<1>4. NoLostWakeup'
  <2> SUFFICES ASSUME NEW u \in Layer PROVE (Tokens(u) + Taken(u) >= Events(u))'
    BY DEF NoLostWakeup
  <2>1. Tokens(u)' = Tokens(u)
    BY SignalSums
  <2>2. Events(u)' = Events(u) /\ Taken(u)' = Taken(u)
    BY <1>1 DEF Events, Taken
  <2> QED BY <2>1, <2>2 DEF NoLostWakeup
<1> QED BY <1>2, <1>3, <1>4

LEMMA HandlerInv ==
    ASSUME Inv, NEW t \in Layer,
           (\E sink \in Sink : HandlerPosts(t, sink)) \/ HandlerFails(t) \/ HandlerReturns(t)
    PROVE  Inv'
<1> USE DEF Inv
<1>1. t \in Caller /\ pc[t] = "handle" /\ todo[t] \in Nat \ {0}
  BY DEF Caller, HandlerPosts, HandlerFails, HandlerReturns, At, TodoLeft, TypeOK
<1>2. CASE \E sink \in Sink : HandlerPosts(t, sink)
  <2>0. PICK sink \in Sink : HandlerPosts(t, sink)
    BY <1>2
  <2>1. Store(t, sink) /\ signalling[t] = NoSignal
    BY <2>0 DEF HandlerPosts, MayPost
  <2>2. UNCHANGED <<sem, pc, todo, fStopThread, state, restarts>> /\ posts' = posts + 1
    BY <2>0 DEF HandlerPosts, MayPost
  <2>3. TypeOK'
    BY <1>1, <2>1, <2>2, StoreType DEF TypeOK
  <2>4. TodoLeft' /\ LifeCycle'
    BY <2>2 DEF TodoLeft, LifeCycle
  <2>5. CountHolds' /\ NoLostWakeup'
    BY <1>1, <2>1, <2>2, <2>3, PostSums
  <2> QED BY <2>3, <2>4, <2>5
<1>3. CASE HandlerFails(t)
  <2>1. Store(t, "Api") /\ signalling[t] = NoSignal /\ "Api" \in Sink
    BY <1>3 DEF HandlerFails, MayPost, Sink, UserSink
  <2>2. UNCHANGED <<sem, fStopThread, state, restarts>> /\ posts' = posts + 1 /\ HandlerDone(t)
    BY <1>3 DEF HandlerFails, MayPost
  <2>3. TypeOK'
    <3>1. todo' \in [Layer -> Nat]
      BY <1>1, <2>2 DEF HandlerDone, TypeOK
    <3>2. pc' \in [Layer -> {"top", "wait", "woken", "high", "noHigh", "low", "handle", "gone"}]
      BY <2>2 DEF HandlerDone, Goto, TypeOK
    <3> QED BY <1>1, <2>1, <2>2, <3>1, <3>2, StoreType DEF TypeOK
  <2>4. TodoLeft' /\ LifeCycle'
    BY <1>1, <2>2 DEF TodoLeft, LifeCycle, HandlerDone, Goto, TypeOK
  <2>5. \A u \in Layer : pc'[u] = pc[u] \/ (pc[u] = "handle" /\ pc'[u] = "top")
    BY <1>1, <2>2 DEF HandlerDone, Goto, TypeOK
  <2>6. CountHolds' /\ NoLostWakeup'
    BY <1>1, <2>1, <2>2, <2>3, <2>5, PostSums
  <2> QED BY <2>3, <2>4, <2>6
<1>4. CASE HandlerReturns(t)
  <2>1. UNCHANGED <<queue, sem, signalling, fStopThread, state, posts, restarts>> /\ HandlerDone(t)
    BY <1>4 DEF HandlerReturns
  <2>2. TypeOK'
    BY <1>1, <2>1 DEF TypeOK, HandlerDone, Goto
  <2>3. TodoLeft' /\ LifeCycle' /\ CountHolds'
    BY <1>1, <2>1 DEF TodoLeft, LifeCycle, CountHolds, HandlerDone, Goto, TypeOK
  <2>4. NoLostWakeup'
    <3> SUFFICES ASSUME NEW u \in Layer PROVE (Tokens(u) + Taken(u) >= Events(u))'
      BY DEF NoLostWakeup
    <3>1. Tokens(u)' = Tokens(u) /\ Events(u)' = Events(u)
      BY <2>1 DEF Tokens, Signallers, Events
    <3>2. Taken(u)' = Taken(u)
      BY <1>1, <2>1 DEF Taken, HandlerDone, Goto, TypeOK
    <3> QED BY <3>1, <3>2 DEF NoLostWakeup
  <2> QED BY <2>2, <2>3, <2>4
<1> QED BY <1>2, <1>3, <1>4

LEMMA RestartInv ==
    ASSUME Inv, NEW t \in Layer, exit(t) \/ exitDone(t) \/ init(t)
    PROVE  Inv'
<1> USE DEF Inv
<1>1. UNCHANGED <<sem, todo, signalling, posts>>
  BY DEF exit, exitDone, init
<1>2. \A u \in Layer : Tokens(u)' = Tokens(u)
  BY <1>1 DEF Tokens, Signallers
<1>3. CASE exit(t) \/ init(t)
  <2>1. queue' = queue
    BY <1>3 DEF exit, init
  <2>2. TypeOK'
    <3>1. pc' \in [Layer -> {"top", "wait", "woken", "high", "noHigh", "low", "handle", "gone"}]
      BY <1>3 DEF exit, init, TypeOK, Goto
    <3>2. fStopThread' \in [Layer -> BOOLEAN]
      BY <1>3 DEF exit, init, TypeOK
    <3>3. state' \in [Layer -> {"up", "stopping", "down"}]
      BY <1>3 DEF exit, init, TypeOK
    <3>4. restarts' \in Nat
      BY <1>3 DEF exit, init, TypeOK
    <3> QED BY <1>1, <2>1, <3>1, <3>2, <3>3, <3>4 DEF TypeOK
  <2>3. TodoLeft' /\ CountHolds'
    BY <1>1, <1>3, <2>1 DEF exit, init, TypeOK, Goto, TodoLeft, CountHolds
  <2>4. LifeCycle'
    BY <1>3 DEF exit, init, TypeOK, Goto, LifeCycle, Layer
  <2>5. \A u \in Layer : Taken(u)' = Taken(u)
    BY <1>3, <2>1 DEF exit, init, Goto, Taken, TypeOK, LifeCycle
  <2>6. NoLostWakeup'
    BY <1>2, <2>1, <2>5 DEF NoLostWakeup, Events
  <2> QED BY <2>2, <2>3, <2>4, <2>6
<1>4. CASE exitDone(t)
  <2>1. /\ UNCHANGED <<pc, fStopThread, restarts>> /\ state[t] = "stopping" /\ ~fStopThread[t]
        /\ state' = [state EXCEPT ![t] = "down"]
    BY <1>4 DEF exitDone
  <2>2. /\ queue' \in [Queue -> Seq(Sink)]
        /\ \A r \in Queue : queue'[r] = queue[r] \/ queue'[r] = <<>>
        /\ \A r \in Queue : r \notin Owned(t) => queue'[r] = queue[r]
    BY <1>4 DEF exitDone, TypeOK
  <2>3. TypeOK'
    <3>1. \A r \in Queue : Len(queue'[r]) <= Capacity
      BY <2>2, EventCalAssumption DEF TypeOK
    <3> QED BY <3>1, <1>1, <2>1, <2>2 DEF TypeOK
  <2>4. TodoLeft' /\ LifeCycle'
    BY <1>1, <2>1 DEF TodoLeft, LifeCycle, TypeOK, Layer
  <2>5. \A u \in Layer : pc[u] # "gone" => /\ High(u) \notin Owned(t) \/ t = "kernel"
                                          /\ Low(u) \notin Owned(t)
                                          /\ u # t
    BY <2>1 DEF LifeCycle, Owned, High, Low, Layer
  <2>6. \A u \in Layer : pc[u] # "gone" =>
            queue'[High(u)] = queue[High(u)] /\ queue'[Low(u)] = queue[Low(u)]
    BY <2>1, <2>2, <2>5, QueueTypes DEF LifeCycle, Owned, High, Low, Layer
  <2>7. CountHolds'
    BY <2>1, <2>6 DEF CountHolds
  <2>8. NoLostWakeup'
    <3> SUFFICES ASSUME NEW u \in Layer PROVE (Tokens(u) + Taken(u) >= Events(u))'
      BY DEF NoLostWakeup
    <3>1. Taken(u)' = Taken(u)
      BY <2>1, <2>6 DEF Taken
    <3>2. Events(u)' <= Events(u)
      <4> DEFINE h == Len(queue[High(u)])
                 l == Len(queue[Low(u)])
                 h2 == Len(queue'[High(u)])
                 l2 == Len(queue'[Low(u)])
      <4>1. h \in Nat /\ l \in Nat /\ h2 \in {0, h} /\ l2 \in {0, l}
        BY <2>2, QueueTypes DEF TypeOK
      <4>2. Events(u) = h + l /\ Events(u)' = h2 + l2
        BY DEF Events
      <4> HIDE DEF h, l, h2, l2
      <4> QED BY <4>1, <4>2
    <3> QED BY <1>2, <3>1, <3>2, <2>3, SumTypes, SumTypesNext DEF NoLostWakeup
  <2> QED BY <2>3, <2>4, <2>7, <2>8
<1> QED BY <1>3, <1>4

LEMMA NextInv == Inv /\ [Next]_vars => Inv'
<1> SUFFICES ASSUME Inv, [Next]_vars PROVE Inv'
  OBVIOUS
<1>1. CASE UNCHANGED vars
  BY <1>1 DEF vars, Inv, TypeOK, TodoLeft, LifeCycle, CountHolds, NoLostWakeup, Tokens, Signallers,
              Taken, Events
<1>2. CASE Next
  BY <1>2, PostInv, SignalInv, WaitingSteps, processEventInv, HandlerInv, RestartInv
  DEF Next, ThreadStep
<1> QED BY <1>1, <1>2

LEMMA Invariance == Spec => []Inv
BY InitInv, NextInv, PTL DEF Spec

-----------------------------------------------------------------------------
\* The types of all variables; in particular no queue takes more events than it has room for.
THEOREM TypeCorrect == Spec => []TypeOK
BY Invariance, PTL DEF Inv

\* No wakeup of the kernel or the user event thread is lost.
THEOREM NoLostWakeupCorrect == Spec => []NoLostWakeup
BY Invariance, PTL DEF Inv

\* When an event thread reads the queue whose count it has seen, an event is there.
THEOREM CountHoldsCorrect == Spec => []CountHolds
BY Invariance, PTL DEF Inv
=============================================================================
